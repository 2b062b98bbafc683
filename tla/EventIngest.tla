---------------------------- MODULE EventIngest ----------------------------
(***************************************************************************)
(* How events reach the correlation engine's buffer.                       *)
(*                                                                         *)
(*   - engine.go: eight NATS subscriptions, each a goroutine that takes    *)
(*     its messages one by one, parses each (EventParsers) and appends the *)
(*     event to the buffer of its tenant and type under the engine's lock; *)
(*   - falco/client.go and suricata/client.go: webhook receivers, whose    *)
(*     requests parse the whole body, copy the list of handlers and call   *)
(*     each handler for each event; the NOC server's Falco handler is      *)
(*     Engine.IngestFalcoAlert;                                            *)
(*   - suricata/client.go ParseEveStream: a reader that calls its handler  *)
(*     for each line before it reads the next.                             *)
(*                                                                         *)
(* One action is one critical section, one call of a handler or one        *)
(* message.  NATS is external: a subscription's queue is FIFO and bounded. *)
(***************************************************************************)
EXTENDS EventParsers, FiniteSets, SequencesExt

CONSTANTS
    Messages,       \* what is published: [subject, data]
    Posts,          \* what is posted: [to, method, secret, body], see Webhook receivers
    Streams,        \* what is streamed: sequences of items
    Handlers,       \* callbacks a program registers besides the engine's
    Requests,       \* concurrent requests and streams
    Tenants,        \* tenants, and the hosts taken for tenants
    BufferCap,      \* maxBufferPerKey
    PendingCap,     \* messages NATS queues for one subscription
    Start,          \* the clock at the start, later than the stated times
    MaxInputs,      \* bound on messages, requests and streams together
    MaxMessages     \* bound: messages are among the first MaxMessages inputs

ASSUME IngestAssumption ==
    /\ BufferCap \in Nat \ {0} /\ PendingCap \in Nat /\ Start \in Nat
    /\ MaxInputs \in Nat /\ MaxMessages \in 0 .. MaxInputs
    /\ "engine" \notin Handlers

\* What its subject and encoding/json guarantee of a message with a parser; the last line is
\* about every sequence.
ASSUME MessagesAssumption ==
    \A m \in Messages : Parses(m) =>
        LET Is(pattern) == matchesSubject(m.subject, pattern) IN
        /\ extractTenantID(m.subject) \in Tenants
        /\ \/ Is(SubjFimEvent) \/ Is(SubjNetworkEvent) \/ Is(SubjNetworkAlert)
           \/ m.data.ts \in Nat \cup {Garbled}
        /\ m.data.ts \in Int
        /\ Is(SubjWazuhAlert) => m.data.level \in Int
        /\ Is(SubjSuricataAlert) =>
              SelectSeq(m.data.queries, NonEmpty) \in Seq(Range(m.data.queries))

ASSUME StreamsAssumption ==
    Streams \subseteq Seq([kind : {"event", "blank", "comment", "bad", "long"}])

ASSUME RequestsAssumption == Requests \cap allSubjects = {}

VARIABLES
    clock,       \* readings of the clock so far
    inputs,      \* inputs so far
    pending,     \* subscription -> its queue of [n, msg]
    cb,          \* subscription -> the event it is about to append, or Idle
    buffer,      \* <<tenant, type>> -> events, oldest first
    ingested,    \* metrics.EventsIngested
    handlers,    \* receiver -> registered handlers, in order
    req,         \* requests and streams
    log          \* history: <<tenant, type>> -> [event, from, msg] ever appended

vars == <<clock, inputs, pending, cb, buffer, ingested, handlers, req, log>>

Receivers == {"falco", "suricata"}
Keys == Tenants \X {"process", "fim", "network", "alert"}
Idle == [n |-> 0]
Ready == [pc |-> "ready", to |-> "", items |-> <<>>, sent |-> <<>>, fns |-> <<>>, at |-> 1,
          calls |-> <<>>, answer |-> 0, before |-> 0]

\* NewServer registers the engine's handler before the routes are served.
Init ==
    /\ clock = Start /\ inputs = 0 /\ ingested = 0
    /\ pending = [s \in allSubjects |-> <<>>]
    /\ cb = [s \in allSubjects |-> Idle]
    /\ buffer = [k \in Keys |-> <<>>] /\ log = [k \in Keys |-> <<>>]
    /\ handlers = [w \in Receivers |-> IF w = "falco" THEN <<"engine">> ELSE <<>>]
    /\ req = [r \in Requests |-> Ready]

-----------------------------------------------------------------------------
(* The engine *)

Publish(msg) ==
    /\ inputs < MaxMessages /\ inputs' = inputs + 1
    /\ pending' = [s \in allSubjects |->
                      IF matchesSubject(msg.subject, s) /\ Len(pending[s]) < PendingCap
                      THEN Append(pending[s], [n |-> inputs', msg |-> msg]) ELSE pending[s]]
    /\ UNCHANGED <<clock, cb, buffer, ingested, handlers, req, log>>

processEvent_Go(s) ==       \* mutant: the callback does not wait for the one before
    /\ pending[s] # <<>>
    /\ LET m == pending[s][1] IN
       /\ pending' = [pending EXCEPT ![s] = Tail(@)]
       /\ IF Parses(m.msg)
          THEN /\ cb' = [cb EXCEPT ![s] = [n |-> m.n, event |-> parseEvent(m.msg, clock),
                                           msg |-> m.msg]]
               /\ clock' = clock + 1 /\ ingested' = ingested + 1
          ELSE UNCHANGED <<cb, clock, ingested>>
    /\ UNCHANGED <<inputs, buffer, handlers, req, log>>

\* The subscription's goroutine takes a message and parses it; what cannot be
\* parsed is dropped.
processEvent(s) ==
    /\ cb[s].n = 0 /\ pending[s] # <<>>
    /\ LET m == pending[s][1] IN
       /\ pending' = [pending EXCEPT ![s] = Tail(@)]
       /\ IF Parses(m.msg)
          THEN /\ cb' = [cb EXCEPT ![s] = [n |-> m.n, event |-> parseEvent(m.msg, clock),
                                           msg |-> m.msg]]
               /\ clock' = clock + 1 /\ ingested' = ingested + 1
          ELSE UNCHANGED <<cb, clock, ingested>>
    /\ UNCHANGED <<inputs, buffer, handlers, req, log>>

Store_Late(event, from, msg) ==      \* mutant: an element more than the limit is kept
    LET k   == <<event.tenant, event.type>>
        buf == IF Len(buffer[k]) > BufferCap THEN Tail(buffer[k]) ELSE buffer[k]
    IN  /\ buffer' = [buffer EXCEPT ![k] = Append(buf, event)]
        /\ log' = [log EXCEPT ![k] = Append(@, [event |-> event, from |-> from, msg |-> msg])]

\* One critical section: drop the oldest of a full buffer, append the event.
Store(event, from, msg) ==
    LET k   == <<event.tenant, event.type>>
        buf == IF Len(buffer[k]) >= BufferCap THEN Tail(buffer[k]) ELSE buffer[k]
    IN  /\ buffer' = [buffer EXCEPT ![k] = Append(buf, event)]
        /\ log' = [log EXCEPT ![k] = Append(@, [event |-> event, from |-> from, msg |-> msg])]

AppendEvent(s) ==
    /\ cb[s].n # 0
    /\ Store(cb[s].event, <<s, cb[s].n>>, cb[s].msg)
    /\ cb' = [cb EXCEPT ![s] = Idle]
    /\ UNCHANGED <<clock, inputs, pending, ingested, handlers, req>>

\* The counter (an atomic) and the critical section after it are one step here: nothing
\* reads the counter in between, and InFlight need not count requests.
IngestFalcoAlert(alert, from) ==
    /\ clock' = clock + 1 /\ ingested' = ingested + 1
    /\ Store(FalcoWebhookEvent(alert, clock), from, [data |-> alert])

-----------------------------------------------------------------------------
(* Webhook receivers.  A body is [form, items, fits, torn]: form is         *)
(* "single", "array", "ndjson" or "none" (empty or unreadable); an item is  *)
(* an event (kind "event") or what a line can be besides: "bad" JSON,       *)
(* "blank", "comment", too "long" for the scanner; fits items lie within    *)
(* the receiver's limit on a body (2 MiB, 10 MiB), and torn says that the   *)
(* limit falls inside a JSON value.                                         *)

IsEvent(item) == item.kind = "event"

\* io.LimitReader: what lies behind the limit is not read, and nobody is told.
Read(body) == IF body.fits < Len(body.items) THEN SubSeq(body.items, 1, body.fits) ELSE body.items

\* OnAlert, OnEvent
OnEvent(w, h) ==
    /\ h \notin Range(handlers[w])
    /\ handlers' = [handlers EXCEPT ![w] = Append(@, h)]
    /\ UNCHANGED <<clock, inputs, pending, cb, buffer, ingested, req, log>>

webhookSecretAuth(post) == post.to = "falco" => post.secret

\* What a receiver makes of what it reads of a body: the falco one does not know NDJSON,
\* only NDJSON lines may be blank, and not all of them; a torn value is no JSON.
WellFormed(post) ==
    LET items == Read(post.body) IN
    /\ webhookSecretAuth(post) /\ post.method = "POST" /\ post.body.form # "none"
    /\ ~post.body.torn
    /\ post.body.form = "ndjson" =>
          post.to = "suricata" /\ \E i \in DOMAIN items : IsEvent(items[i])
    /\ \A i \in DOMAIN items :
          \/ IsEvent(items[i])
          \/ post.body.form = "ndjson" /\ items[i].kind = "blank"

\* A host is taken for a tenant; only NDJSON can be cut outside a value; the third line is
\* about every sequence.
ASSUME PostsAssumption ==
    \A p \in Posts :
        /\ p.to \in Receivers
        /\ p.body.form # "ndjson" /\ p.body.fits < Len(p.body.items) => p.body.torn
        /\ WellFormed(p) => SelectSeq(Read(p.body), IsEvent)
                               \in Seq({x \in Range(p.body.items) : IsEvent(x)})
        /\ p.to = "falco" => \A x \in Range(p.body.items) : IsEvent(x) => x.host \in Tenants

Status(post) == IF post.method # "POST" THEN 405
                ELSE IF ~webhookSecretAuth(post) THEN 401 ELSE 400

\* A request arrives; what is read of it is parsed to the end before anything is
\* dispatched.  sent, the events of the whole body, is history.
ServeHTTP(r, post) ==
    /\ req[r].pc = "ready" /\ inputs < MaxInputs /\ inputs' = inputs + 1
    /\ req' = [req EXCEPT ![r] =
                  IF WellFormed(post)
                  THEN [@ EXCEPT !.pc = "parsed", !.to = post.to, !.before = Len(handlers[post.to]),
                                 !.items = SelectSeq(Read(post.body), IsEvent),
                                 !.sent = SelectSeq(post.body.items, IsEvent)]
                  ELSE [@ EXCEPT !.pc = "done", !.to = post.to, !.answer = Status(post),
                                 !.items = post.body.items]]
    /\ UNCHANGED <<clock, pending, cb, buffer, ingested, handlers, log>>

Snapshot(r) ==
    /\ req[r].pc = "parsed"
    /\ req' = [req EXCEPT ![r].pc = "dispatch", ![r].fns = handlers[req[r].to]]
    /\ UNCHANGED <<clock, inputs, pending, cb, buffer, ingested, handlers, log>>

\* The calls of the two loops, in order: for every event, for every handler.
Todo(q) == Len(q.items) * Len(q.fns)
CallAt(q, n) == <<((n - 1) \div Len(q.fns)) + 1, q.fns[((n - 1) % Len(q.fns)) + 1]>>

Dispatch_Live(r) ==      \* mutant: the loop uses the receiver's list, not the copy
    /\ req[r].pc = "dispatch"
    /\ LET q == [req[r] EXCEPT !.fns = handlers[req[r].to]]
           c == CallAt(q, q.at) IN
       /\ q.at <= Todo(q)
       /\ req' = [req EXCEPT ![r].at = @ + 1, ![r].calls = Append(@, c)]
       /\ IF q.to = "falco" /\ c[2] = "engine"
          THEN IngestFalcoAlert(q.items[c[1]], <<r, c[1]>>)
          ELSE UNCHANGED <<clock, ingested, buffer, log>>
    /\ UNCHANGED <<inputs, pending, cb, handlers>>

Dispatch(r) ==
    /\ req[r].pc = "dispatch" /\ req[r].at <= Todo(req[r])
    /\ LET q == req[r]
           c == CallAt(q, q.at) IN
       /\ req' = [req EXCEPT ![r].at = @ + 1, ![r].calls = Append(@, c)]
       /\ IF q.to = "falco" /\ c[2] = "engine"
          THEN IngestFalcoAlert(q.items[c[1]], <<r, c[1]>>)
          ELSE UNCHANGED <<clock, ingested, buffer, log>>
    /\ UNCHANGED <<inputs, pending, cb, handlers>>

Respond(r) ==
    /\ req[r].pc = "dispatch" /\ req[r].at > Todo(req[r])
    /\ req' = [req EXCEPT ![r].pc = "done", ![r].answer = 200]
    /\ UNCHANGED <<clock, inputs, pending, cb, buffer, ingested, handlers, log>>

-----------------------------------------------------------------------------
(* ParseEveStream: its answer is the number of events, and whether it ended *)
(* in an error.                                                             *)

ParseEveStream(r, lines, h) ==
    /\ req[r].pc = "ready" /\ inputs < MaxInputs /\ inputs' = inputs + 1
    /\ req' = [req EXCEPT ![r] = [@ EXCEPT !.pc = "stream", !.to = "stream",
                                           !.items = lines, !.fns = <<h>>]]
    /\ UNCHANGED <<clock, pending, cb, buffer, ingested, handlers, log>>

ReadLine(r) ==
    /\ req[r].pc = "stream"
    /\ LET q    == req[r]
           more == q.at <= Len(q.items)
           kind == IF more THEN q.items[q.at].kind ELSE "eof"
       IN req' = [req EXCEPT ![r] =
              CASE kind = "event"               -> [q EXCEPT !.at = @ + 1, !.answer = @ + 1,
                                                             !.calls = Append(@, <<q.at, q.fns[1]>>)]
                [] kind \in {"blank", "comment"} -> [q EXCEPT !.at = @ + 1]
                [] kind \in {"bad", "long"}      -> [q EXCEPT !.pc = "failed"]
                [] kind = "eof"                  -> [q EXCEPT !.pc = "done"]]
    /\ UNCHANGED <<clock, inputs, pending, cb, buffer, ingested, handlers, log>>

Next ==
    \/ \E m \in Messages : Publish(m)
    \/ \E s \in allSubjects : processEvent(s) \/ AppendEvent(s)
    \/ \E w \in Receivers, h \in Handlers : OnEvent(w, h)
    \/ \E r \in Requests :
          \/ \E p \in Posts : ServeHTTP(r, p)
          \/ Snapshot(r) \/ Dispatch(r) \/ Respond(r)
          \/ \E l \in Streams, h \in Handlers : ParseEveStream(r, l, h)
          \/ ReadLine(r)

Spec == Init /\ [][Next]_vars

-----------------------------------------------------------------------------
TypeOK ==
    /\ clock \in Nat /\ inputs \in 0 .. MaxInputs /\ ingested \in Nat
    /\ \A s \in allSubjects : Len(pending[s]) <= PendingCap
    /\ \A k \in Keys : Len(buffer[k]) <= BufferCap
    /\ \A k \in Keys : \A i \in DOMAIN buffer[k] :
          LET e == buffer[k][i] IN
          /\ <<e.tenant, e.type>> = k /\ e.time \in Int /\ e.id # <<"">>
          /\ e.source \in {"netguard", "wazuh", "falco", "suricata"} \/ e.type = "fim"
                => e.severity \in 1 .. 5
    /\ \A w \in Receivers : Range(handlers[w]) \subseteq Handlers \cup {"engine"}
    /\ \A r \in Requests :
          req[r].pc \in {"ready", "parsed", "dispatch", "stream", "done", "failed"}

Entries == UNION {{k} \X DOMAIN log[k] : k \in Keys}
EntryOf(x) == log[x[1]][x[2]]
InFlight == {s \in allSubjects : cb[s].n # 0}

\* Every event counted by EventsIngested is appended once, by whichever of the
\* concurrent callbacks and webhook requests brought it; a buffer holds the
\* most recent of its key, as long as pruneBuffer (CorrelationEngine has it) takes
\* none away, and events of one subscription keep their order.
IngestedOnce ==
    /\ ingested = Cardinality(Entries) + Cardinality(InFlight)
    /\ \A x, y \in Entries : EntryOf(x).from = EntryOf(y).from => x = y
    /\ \A k \in Keys :
          LET n == Len(log[k]) IN
          /\ buffer[k] = [i \in 1 .. Min({n, BufferCap}) |->
                             log[k][i + n - Min({n, BufferCap})].event]
          /\ \A i, j \in 1 .. n :
                i < j /\ log[k][i].from[1] = log[k][j].from[1]
                => log[k][i].from[2] < log[k][j].from[2]

\* The place of x on a scale, 0 when it has none.
Grade(x, scale) == IF \E i \in DOMAIN scale : x \in scale[i]
                   THEN CHOOSE i \in DOMAIN scale : x \in scale[i] ELSE 0

\* How severe the source of an entry says it is, on a scale of its own; 0 when
\* it does not say.
Rank(e) ==
    CASE e.event.source = "wazuh" -> e.msg.data.level + 1
      [] e.event.source = "suricata" ->
            Grade(e.msg.data.severity, <<{3}, {2}, {1}>>)
      [] e.event.source = "falco" ->
            Grade(e.msg.data.priority, <<{"debug"}, {"informational"}, {"notice"}, {"warning"},
                                         {"error"}, {"critical"}, {"alert"}, {"emergency"}>>)
      [] e.event.type = "fim" \/ (e.event.source = "netguard" /\ e.event.type = "alert") ->
            Grade(e.msg.data.severity, <<{"info", "informational"}, {"low"}, {"medium"},
                                         {"high"}, {"critical"}>>)
      [] OTHER -> 0

\* The internal networks of isPrivateIP's comment and code: RFC 1918, loopback and
\* link-local as ranges of the first two bytes, and fc00::/7, ::1 and fe80::/10.
Internal4(b) ==
    \E net \in {<<10 * 256, 10 * 256 + 255>>, <<172 * 256 + 16, 172 * 256 + 31>>,
                <<192 * 256 + 168, 192 * 256 + 168>>, <<127 * 256, 127 * 256 + 255>>,
                <<169 * 256 + 254, 169 * 256 + 254>>} :
        b[1] * 256 + b[2] \in net[1] .. net[2]
LinkLocal6(b) == Len(b) = 16 /\ b[1] = 254 /\ b[2] \in 128 .. 191
Internal(b) ==
    \/ Len(b) = 4 /\ Internal4(b)
    \/ Len(b) = 16 /\ (b[1] \in {252, 253} \/ b = Loopback6 \/ LinkLocal6(b))

\* The internal addresses isPrivateIP does not recognise: fe80::/10 altogether, ::1 when it
\* is written in full, and fc00::/7 in capitals.
Overlooked(ip) ==
    \/ LinkLocal6(Octets[ip])
    \/ Octets[ip] = Loopback6 /\ Written[ip] # "short"
    \/ Len(Octets[ip]) = 16 /\ Octets[ip][1] \in {252, 253} /\ Written[ip] = "upper"

\* What Suricata saw in the traffic itself: the HTTP host and the DNS queries.
Observed(e) ==
    IF e.event.source = "suricata" THEN {e.msg.data.host} \cup Range(e.msg.data.queries) ELSE {}

\* Normalisation keeps each source's order of severity, whichever way the alert
\* came.  An address of an internal network becomes an indicator of a network
\* sensor's event in two cases only: it is what a client asked for by name, or
\* it is one of the IPv6 addresses isPrivateIP overlooks.  The second case is
\* the code's, against the comment at ingestor.go:711 that claims link-local and
\* loopback; no address is let through besides, although only text is compared.
Normalised ==
    /\ \A x, y \in Entries :
          LET a == EntryOf(x)
              b == EntryOf(y)
          IN  a.event.source = b.event.source /\ Rank(a) # 0 /\ Rank(a) <= Rank(b)
              => a.event.severity <= b.event.severity
    /\ \A x \in Entries :
          EntryOf(x).event.source \in {"netguard", "suricata"} =>
              \A ip \in Range(EntryOf(x).event.indicators) \cap DOMAIN Octets :
                  Internal(Octets[ip]) => ip \in Observed(EntryOf(x)) \/ Overlooked(ip)

\* A webhook request that is refused reaches no handler.  One that is accepted
\* calls every handler registered before it came, once for each event it read,
\* events and handlers in order; so an alert the sender may retry was not
\* ingested, and an alert of Falco's it will not retry was.  Of Suricata's that
\* is not so: an NDJSON body cut by the limit between two lines is answered 200
\* with the number of events read, and the events behind the cut are lost.  A
\* stream that fails has delivered exactly the events it counted, the ones
\* before the failing line.
AllOrNothing ==
    \A r \in Requests :
        LET q == req[r]
            Broken(i) == q.items[i].kind \in {"bad", "long"}
            Called(i, h) == {n \in DOMAIN q.calls : q.calls[n] = <<i, h>>}
            Place(h) == CHOOSE j \in DOMAIN handlers[q.to] : handlers[q.to][j] = h
        IN
        /\ q.to \in Receivers /\ q.answer >= 400 => q.calls = <<>>
        /\ q.to \in Receivers /\ q.answer = 200 =>
              /\ \A i \in DOMAIN q.items : \A j \in 1 .. q.before :
                    Cardinality(Called(i, handlers[q.to][j])) = 1
              /\ \A m, n \in DOMAIN q.calls : m < n =>
                    \/ q.calls[m][1] < q.calls[n][1]
                    \/ /\ q.calls[m][1] = q.calls[n][1]
                       /\ Place(q.calls[m][2]) < Place(q.calls[n][2])
        /\ q.to = "falco" =>
              /\ Cardinality({x \in Entries : EntryOf(x).from[1] = r}) =
                    Cardinality({n \in DOMAIN q.calls : q.calls[n][2] = "engine"})
              /\ q.answer = 200 => q.items = q.sent
        /\ q.to = "stream" /\ q.pc \in {"done", "failed"} =>
              /\ q.answer = Len(q.calls)
              /\ {q.calls[n][1] : n \in DOMAIN q.calls} =
                    {i \in DOMAIN q.items : IsEvent(q.items[i]) /\ \A j \in 1 .. i : ~Broken(j)}
              /\ q.pc = "done" <=> \A i \in DOMAIN q.items : ~Broken(i)

-----------------------------------------------------------------------------
(* The inductive invariant of the four properties above. *)

Fns == Handlers \cup {"engine"}
Bodies == Streams \cup {<<>>} \cup UNION {{p.body.items, SelectSeq(p.body.items, IsEvent),
                                           SelectSeq(Read(p.body), IsEvent)} : p \in Posts}
Request == [pc : {"ready", "parsed", "dispatch", "stream", "done", "failed"},
            to : Receivers \cup {"", "stream"}, items : Bodies, sent : Bodies,
            fns : Seq(Fns), at : Nat \ {0},
            calls : Seq(Nat \X Fns), answer : Nat, before : Nat]

StateTyped ==
    /\ clock \in Nat /\ inputs \in 0 .. MaxInputs /\ ingested \in Nat
    /\ pending \in [allSubjects -> Seq([n : Nat, msg : Messages])]
    /\ cb = [s \in allSubjects |-> cb[s]]
    /\ log = [k \in Keys |-> log[k]] /\ buffer = [k \in Keys |-> buffer[k]]
    /\ \A k \in Keys : log[k] \in Seq(Range(log[k]))
    /\ handlers \in [Receivers -> Seq(Fns)]
    /\ req \in [Requests -> Request]

\* An event is what a parser made of its message, and is filed under its key.
FromMessage(e) ==
    /\ e.from[1] \in allSubjects /\ e.from[2] \in Nat
    /\ e.msg \in Messages /\ Parses(e.msg)
    /\ \E t \in 0 .. clock : e.event = parseEvent(e.msg, t)
FromPost(e) ==
    /\ e.from[1] \in Requests
    /\ LET q == req[e.from[1]] IN
       /\ q.to = "falco" /\ e.from[2] \in DOMAIN q.items
       /\ e.msg = [data |-> q.items[e.from[2]]]
       /\ \E n \in DOMAIN q.calls : q.calls[n] = <<e.from[2], "engine">>
    /\ \E t \in 0 .. clock : e.event = FalcoWebhookEvent(e.msg.data, t)
EntryInv ==
    \A x \in Entries :
        /\ FromMessage(EntryOf(x)) \/ FromPost(EntryOf(x))
        /\ x[1] = <<EntryOf(x).event.tenant, EntryOf(x).event.type>>

\* A subscription's messages are logged, held and waiting in the order they
\* were published.
SubscriptionInv(s) ==
    /\ cb[s].n \in Nat
    /\ cb[s].n # 0 => /\ cb[s].msg \in Messages /\ Parses(cb[s].msg)
                      /\ \E t \in 0 .. clock : cb[s].event = parseEvent(cb[s].msg, t)
    /\ \A x \in Entries : EntryOf(x).from[1] = s =>
          /\ cb[s].n # 0 => EntryOf(x).from[2] < cb[s].n
          /\ \A j \in DOMAIN pending[s] : EntryOf(x).from[2] < pending[s][j].n
          /\ EntryOf(x).from[2] \in 0 .. inputs
    /\ cb[s].n <= inputs /\ Len(pending[s]) <= PendingCap
    /\ \A j \in DOMAIN pending[s] :
          /\ cb[s].n < pending[s][j].n /\ pending[s][j].n <= inputs
          /\ \A i \in 1 .. j - 1 : pending[s][i].n < pending[s][j].n

\* A webhook request has made the first calls of its two loops, over a copy of
\* the handlers that were registered first.
Called(q) ==
    /\ q.before <= Len(q.fns) /\ Len(q.fns) <= Len(handlers[q.to])
    /\ \A j \in 1 .. Len(q.fns) : q.fns[j] = handlers[q.to][j]
    /\ Len(q.calls) = q.at - 1 /\ q.at <= Todo(q) + 1
    /\ \A n \in DOMAIN q.calls : q.calls[n] = CallAt(q, n)
WebhookInv(q) ==
    q.to \in Receivers =>
    /\ q.pc \in {"parsed", "dispatch", "done"}
    /\ q.pc \in {"parsed", "dispatch"} => q.answer = 0
    /\ q.pc = "done" => q.answer \in {200, 400, 401, 405}
    /\ q.pc = "parsed" => q.before <= Len(handlers[q.to]) /\ q.at = 1
    /\ q.pc = "parsed" \/ q.answer >= 400 => q.calls = <<>>
    /\ q.pc = "parsed" \/ q.pc = "dispatch" \/ q.answer = 200 =>
          /\ q.items \in Seq({x \in Range(q.items) : IsEvent(x)})
          /\ q.to = "falco" => /\ \A i \in DOMAIN q.items : q.items[i].host \in Tenants
                              /\ q.items = q.sent
    /\ q.pc = "dispatch" \/ q.answer = 200 => Called(q)
    /\ q.answer = 200 => q.at = Todo(q) + 1

\* A stream has called its handler for the events up to the line it is at.
StreamInv(q) ==
    q.to = "stream" =>
    LET Broken(i) == q.items[i].kind \in {"bad", "long"} IN
    /\ q.pc \in {"stream", "done", "failed"} /\ q.items \in Streams
    /\ Len(q.fns) = 1 /\ q.answer = Len(q.calls) /\ q.at \in 1 .. Len(q.items) + 1
    /\ \A i \in 1 .. q.at - 1 : ~Broken(i)
    /\ {q.calls[n][1] : n \in DOMAIN q.calls} = {i \in 1 .. q.at - 1 : IsEvent(q.items[i])}
    /\ q.pc = "failed" => q.at <= Len(q.items) /\ Broken(q.at)
    /\ q.pc = "done" => q.at = Len(q.items) + 1

\* One entry of the log for each call of the engine.
FromOf(r) == {x \in Entries : EntryOf(x).from[1] = r}
EngineCalls(q) == {n \in DOMAIN q.calls : q.calls[n][2] = "engine"}
RequestInv(r) ==
    /\ WebhookInv(req[r]) /\ StreamInv(req[r])
    /\ req[r].to = "" => req[r] = Ready
    /\ req[r].pc = "ready" => req[r].to = ""
    /\ IsFiniteSet(EngineCalls(req[r]))
    /\ req[r].to = "falco" => Cardinality(FromOf(r)) = Cardinality(EngineCalls(req[r]))

HandlersOnce ==
    \A w \in Receivers : \A i, j \in DOMAIN handlers[w] :
        handlers[w][i] = handlers[w][j] => i = j

IngestInv ==
    /\ StateTyped /\ EntryInv /\ IngestedOnce /\ HandlersOnce
    /\ IsFiniteSet(Entries) /\ IsFiniteSet(InFlight)
    /\ \A s \in allSubjects : SubscriptionInv(s)
    /\ \A r \in Requests : RequestInv(r)
=============================================================================
