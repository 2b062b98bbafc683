------------------------- MODULE CorrelationEngine -------------------------
(***************************************************************************)
(* internal/correlation/engine.go: the goroutines of one Engine and the    *)
(* state they share.                                                       *)
(*                                                                         *)
(*   - NATS callbacks and the Falco webhook append to the event buffer;    *)
(*   - the evaluator goroutine snapshots the buffer, matches the rules,    *)
(*     suppresses what the dedup cache has seen, stores incidents and      *)
(*     offers them to the bounded incident channel;                        *)
(*   - the dispatcher goroutine takes incidents from the channel and sends *)
(*     them to TheHive and Shuffle; HTTP requests re-dispatch a stored     *)
(*     incident concurrently (DispatchByID);                               *)
(*   - the buffer pruner and the dedup cache cleaner;                      *)
(*   - HTTP requests that change an incident's status;                     *)
(*   - shutdown: the context is cancelled, the goroutines return from      *)
(*     their select, and main exits without waiting for them.              *)
(*                                                                         *)
(* One action is one critical section (mu or dedupMu) or one external      *)
(* call.  An incident's uuid is its position in incidentMap.  Time is the  *)
(* integer clock; TheHive is external and keeps its alerts in alerts.      *)
(* Queries change no state (see IncidentViews).  taken and dropped are     *)
(* history variables.                                                      *)
(***************************************************************************)
EXTENDS CorrelationRules

CONSTANTS
    Messages,         \* NATS messages: events without a timestamp
    Lags,             \* how far a message's timestamp is behind the clock
    FalcoTitle,       \* title of a Falco webhook alert
    KeyOrders,        \* orders in which the buffer's map may be iterated
    Requests,         \* concurrent POST .../dispatch requests
    TheHiveEnabled,   \* e.thehive # nil
    PatchStatuses,    \* status values PATCH requests ask for
    SignalArrives,    \* whether SIGTERM may arrive
    BufferCap,        \* maxBufferPerKey
    ChannelCap,       \* capacity of incidentCh
    BufferWindow,     \* bufferWindow
    DedupTTL,         \* age at which cleanDedupCache forgets an entry
    MaxEval,          \* bound on the duration of one evaluation
    MaxTime,          \* bound on the clock
    MaxEvents         \* bound on the number of ingested events

Sources == {"coresec", "netguard", "wazuh", "falco", "suricata"}

ASSUME RulesAssumption ==
    /\ Rules \in Seq([window : Nat, severity : Int, threshold : Int,
                      conditions : Seq([source : Sources \cup {"any"}, etype : STRING,
                                        titles : SUBSET STRING, minCount : Int])])
    /\ Rules # <<>>

ASSUME BoundsAssumption ==
    /\ BufferCap \in Nat \ {0} /\ ChannelCap \in Nat
    /\ BufferWindow \in Nat /\ DedupTTL \in Nat
    /\ MaxEval \in Nat /\ MaxTime \in Nat /\ MaxEvents \in Nat

\* The dedup cache remembers a fingerprint for longer than it suppresses it,
\* even when an evaluation that began earlier is still running: one hour
\* against twice the longest window of DefaultRules, ten minutes.
ASSUME DedupTTLAssumption ==
    \A r \in RuleIDs : 2 * Rules[r].window + MaxEval <= DedupTTL

ASSUME NamesAssumption ==
    /\ Messages \subseteq [id : Nat, tenant : Tenants, agent : STRING,
                           source : Sources, etype : EventTypes, title : STRING]
    /\ UpToColon \in [Tenants -> Tenants]
    /\ KeyOrders # {} /\ KeyOrders \subseteq [Tenants \X EventTypes -> Nat]
    /\ Lags \subseteq Int
    /\ Tenants \subseteq STRING /\ EventTypes \subseteq STRING
    /\ Tenants # {} /\ FalcoTitle \in STRING
    /\ TheHiveEnabled \in BOOLEAN /\ SignalArrives \in BOOLEAN
    /\ "dispatcher" \notin Requests

VARIABLES
    clock,         \* the wall clock
    eventBuffer,   \* <<tenant, event type>> -> events, ordered by their seq
    eventsIngested,\* metrics.EventsIngested
    incidentMap,   \* the incidents, a sequence indexed by incident id
    dedupCache,    \* fingerprint -> time of the last incident
    incidentCh,    \* the channel: incidents as copied when created
    evalPc,        \* evaluator: "idle", "began", "rules", "send", "stopped"
    evalNow,       \* evaluator: now
    snapshot,      \* evaluator: copy of eventBuffer
    keyOrder,      \* evaluator: the order in which it iterates over the copy
    evalRule,      \* evaluator: index of the rule in the outer loop
    evalTenants,   \* evaluator: tenants the inner loop has yet to visit
    triggered,     \* evaluator: incidents to be offered to the channel
    disp,          \* dispatching goroutine -> [pc, inc, alert]
    alerts,        \* TheHive: sequence of [sourceRef, case]
    ctxDone,       \* the context is cancelled
    subscribed,    \* the NATS subscriptions are in place
    running,       \* main has not returned
    taken,         \* history: ids taken from the channel, in order
    dropped        \* history: ids dropped because the channel was full

evalVars == <<evalPc, evalNow, snapshot, keyOrder, evalRule, evalTenants, triggered>>
procVars == <<ctxDone, subscribed, running>>
histVars == <<taken, dropped>>
vars == <<clock, eventBuffer, eventsIngested, incidentMap, dedupCache,
          incidentCh, evalVars, disp, alerts, procVars, histVars>>

Keys     == Tenants \X EventTypes
Statuses == {"new", "investigating", "resolved"}
NoAlert  == 0
NoInc    == 0
Workers  == {"dispatcher"} \cup Requests

EmptyBuffer == [k \in Keys |-> {}]
NoOrder     == [k \in Keys |-> 0]
IdleWorker  == [pc |-> "idle", inc |-> NoInc, alert |-> NoAlert]

Init ==
    /\ clock = 0
    /\ eventBuffer = EmptyBuffer
    /\ eventsIngested = 0
    /\ incidentMap = <<>>
    /\ dedupCache = [f \in {} |-> 0]
    /\ incidentCh = <<>>
    /\ evalPc = "idle" /\ evalNow = 0
    /\ snapshot = EmptyBuffer /\ keyOrder = NoOrder
    /\ evalRule = 1 /\ evalTenants = Tenants /\ triggered = <<>>
    /\ disp = [w \in Workers |-> IdleWorker]
    /\ alerts = <<>>
    /\ ctxDone = FALSE /\ subscribed = TRUE /\ running = TRUE
    /\ taken = <<>> /\ dropped = {}

-----------------------------------------------------------------------------
(* Ingestion *)

\* Mutant: the cap is tested with > instead of >=.
BufferEvent_OneTooMany(buf, ev) ==
    LET oldest == {e \in buf : \A f \in buf : e.seq <= f.seq}
    IN  (IF Cardinality(buf) > BufferCap THEN buf \ oldest ELSE buf) \cup {ev}

\* The buffer of a key after one more event: at the cap the element that
\* arrived first is dropped, whatever its timestamp.
BufferEvent(buf, ev) ==
    LET oldest == {e \in buf : \A f \in buf : e.seq <= f.seq}
    IN  (IF Cardinality(buf) >= BufferCap THEN buf \ oldest ELSE buf) \cup {ev}

Ingest(ev) ==
    /\ eventsIngested < MaxEvents
    /\ eventsIngested' = eventsIngested + 1
    /\ eventBuffer' = [eventBuffer EXCEPT ![<<ev.tenant, ev.etype>>] =
                           BufferEvent(@, ev)]
    /\ UNCHANGED <<clock, incidentMap, dedupCache, incidentCh, evalVars, disp,
                   alerts, procVars, histVars>>

\* A message that does not parse changes nothing and is no step.
processEvent(m, lag) ==
    /\ running /\ subscribed
    /\ clock >= lag
    /\ Ingest([id |-> m.id, tenant |-> m.tenant, agent |-> m.agent,
               source |-> m.source, etype |-> m.etype, title |-> m.title,
               ts |-> clock - lag, seq |-> eventsIngested])

\* The hostname is the tenant and the agent; a fresh uuid is the id.
IngestFalcoAlert(hostname) ==
    /\ running
    /\ "alert" \in EventTypes
    /\ Ingest([id |-> 0 - eventsIngested - 1, tenant |-> hostname,
               agent |-> hostname, source |-> "falco", etype |-> "alert",
               title |-> FalcoTitle, ts |-> clock, seq |-> eventsIngested])

-----------------------------------------------------------------------------
(* Rule evaluation *)

\* The ticker fires: now is read before the buffer lock is taken.
EvalBegin ==
    /\ running /\ evalPc = "idle"
    /\ evalPc' = "began" /\ evalNow' = clock
    /\ UNCHANGED <<clock, eventBuffer, eventsIngested, incidentMap, dedupCache,
                   incidentCh, snapshot, keyOrder, evalRule, evalTenants, triggered,
                   disp, alerts, procVars, histVars>>

EvalSnapshot ==
    /\ running /\ evalPc = "began"
    /\ evalPc' = "rules"
    /\ snapshot' = eventBuffer /\ keyOrder' \in KeyOrders
    /\ UNCHANGED <<clock, eventBuffer, eventsIngested, incidentMap, dedupCache,
                   incidentCh, evalNow, evalRule, evalTenants, triggered,
                   disp, alerts, procVars, histVars>>

\* The events that make rule r match tenant t in the snapshot ({}: no match).
Match(r, t) ==
    LET rule   == Rules[r]
        recent == EventsAfter(snapshot, t, evalNow - BufferWindow)
        window == recent \cap EventsAfter(snapshot, t, evalNow - rule.window)
    IN  matchRule(rule, window, keyOrder)

\* Mutants: the window not doubled; the age not tested; no dedup at all.
Suppressed_OneWindow(fp, r) ==
    /\ fp \in DOMAIN dedupCache
    /\ evalNow - dedupCache[fp] < Rules[r].window
Suppressed_Forever(fp, r) == fp \in DOMAIN dedupCache
Suppressed_Never(fp, r) == FALSE

Suppressed(fp, r) ==
    /\ fp \in DOMAIN dedupCache
    /\ evalNow - dedupCache[fp] < 2 * Rules[r].window

NewIncident(r, t, events) ==
    [rule |-> r, tenant |-> t, severity |-> Rules[r].severity, status |-> "new",
     events |-> events, createdAt |-> evalNow,
     fp |-> fingerprint(events, r, t), thehive |-> NoAlert]

\* The body of the inner loop.  No other goroutine adds to the cache or the
\* map, so the two critical sections (dedupMu, then mu) are one step.
EvalBody(r, t) ==
    LET events == Match(r, t)
        fp     == fingerprint(events, r, t)
    IN  IF events = {} \/ Suppressed(fp, r)
        THEN UNCHANGED <<dedupCache, incidentMap, triggered>>
        ELSE /\ dedupCache' = [f \in DOMAIN dedupCache \cup {fp} |->
                                  IF f = fp THEN evalNow ELSE dedupCache[f]]
             /\ incidentMap' = Append(incidentMap, NewIncident(r, t, events))
             /\ triggered' = Append(triggered, Len(incidentMap) + 1)

\* One (rule, tenant) pair; rules in order, tenants in map order.
EvalRule(t) ==
    /\ running /\ evalPc = "rules" /\ t \in evalTenants
    /\ EvalBody(evalRule, t)
    /\ IF evalTenants # {t}
       THEN /\ evalTenants' = evalTenants \ {t}
            /\ UNCHANGED <<evalPc, evalRule>>
       ELSE /\ evalTenants' = Tenants
            /\ IF evalRule < Len(Rules)
               THEN evalRule' = evalRule + 1 /\ UNCHANGED evalPc
               ELSE evalRule' = 1 /\ evalPc' = "send"
    /\ UNCHANGED <<clock, eventBuffer, eventsIngested, incidentCh, evalNow,
                   snapshot, keyOrder, disp, alerts, procVars, histVars>>

\* Mutant: the channel takes one incident more than its capacity.
EvalSend_OneTooMany ==
    /\ running /\ evalPc = "send" /\ triggered # <<>>
    /\ triggered' = Tail(triggered)
    /\ IF Len(incidentCh) <= ChannelCap
       THEN incidentCh' = Append(incidentCh, Head(triggered)) /\ UNCHANGED dropped
       ELSE dropped' = dropped \cup {Head(triggered)} /\ UNCHANGED incidentCh
    /\ UNCHANGED <<clock, eventBuffer, eventsIngested, incidentMap, dedupCache,
                   evalPc, evalNow, snapshot, keyOrder, evalRule, evalTenants, disp,
                   alerts, procVars, taken>>

\* Non-blocking send of the next triggered incident.
EvalSend ==
    /\ running /\ evalPc = "send" /\ triggered # <<>>
    /\ triggered' = Tail(triggered)
    /\ IF Len(incidentCh) < ChannelCap
       THEN incidentCh' = Append(incidentCh, Head(triggered)) /\ UNCHANGED dropped
       ELSE dropped' = dropped \cup {Head(triggered)} /\ UNCHANGED incidentCh
    /\ UNCHANGED <<clock, eventBuffer, eventsIngested, incidentMap, dedupCache,
                   evalPc, evalNow, snapshot, keyOrder, evalRule, evalTenants, disp,
                   alerts, procVars, taken>>

\* Back to the select; the locals are dead.
EvalDone ==
    /\ running /\ evalPc = "send" /\ triggered = <<>>
    /\ evalPc' = "idle" /\ evalNow' = 0
    /\ snapshot' = EmptyBuffer /\ keyOrder' = NoOrder
    /\ UNCHANGED <<clock, eventBuffer, eventsIngested, incidentMap, dedupCache,
                   incidentCh, evalRule, evalTenants, triggered, disp, alerts,
                   procVars, histVars>>

-----------------------------------------------------------------------------
(* Dispatch *)

\* The dispatcher goroutine receives a copy of the incident made when it was
\* created; a request copies the stored incident.  Of the copy only immutable
\* fields steer the dispatch, so the id stands for it.
StartDispatch(w, id) ==
    disp' = [disp EXCEPT ![w] =
                [pc    |-> IF TheHiveEnabled THEN "create" ELSE "shuffle",
                 inc   |-> id,
                 alert |-> NoAlert]]

Dequeue ==
    /\ running /\ disp["dispatcher"].pc = "idle" /\ incidentCh # <<>>
    /\ StartDispatch("dispatcher", Head(incidentCh))
    /\ incidentCh' = Tail(incidentCh)
    /\ taken' = Append(taken, Head(incidentCh))
    /\ UNCHANGED <<clock, eventBuffer, eventsIngested, incidentMap, dedupCache,
                   evalVars, alerts, procVars, dropped>>

DispatchByID(w, id) ==
    /\ running /\ w \in Requests /\ disp[w].pc = "idle"
    /\ id \in DOMAIN incidentMap
    /\ StartDispatch(w, id)
    /\ UNCHANGED <<clock, eventBuffer, eventsIngested, incidentMap, dedupCache,
                   incidentCh, evalVars, alerts, procVars, histVars>>

dispVars == <<clock, eventBuffer, eventsIngested, dedupCache, incidentCh,
              evalVars, procVars, histVars>>

\* CreateAlert: TheHive stores the alert and answers, stores it but the
\* answer is lost (timeout), or refuses it.  On an error TheHive is left.
CreateAlert(w) ==
    /\ running /\ disp[w].pc = "create"
    /\ \E stored, answered \in BOOLEAN :
          /\ answered => stored
          /\ alerts' = IF stored
                       THEN Append(alerts,
                              [sourceRef |-> incidentMap[disp[w].inc].fp,
                               case |-> FALSE])
                       ELSE alerts
          /\ disp' = [disp EXCEPT
                         ![w].pc    = IF answered THEN "record" ELSE "shuffle",
                         ![w].alert = IF answered THEN Len(alerts) + 1 ELSE NoAlert]
    /\ UNCHANGED <<incidentMap, dispVars>>

\* Mutant: the dispatched copy, made when the incident was new, is stored.
RecordAlert_StaleCopy(w) ==
    /\ running /\ disp[w].pc = "record"
    /\ incidentMap' = [incidentMap EXCEPT ![disp[w].inc].thehive = disp[w].alert,
                                          ![disp[w].inc].status = "new"]
    /\ disp' = [disp EXCEPT ![w].pc =
                   IF incidentMap[disp[w].inc].severity >= 4
                   THEN "promote" ELSE "shuffle"]
    /\ UNCHANGED <<alerts, dispVars>>

\* Mutant: incidents of medium severity are promoted as well.
RecordAlert_MediumPromoted(w) ==
    /\ running /\ disp[w].pc = "record"
    /\ incidentMap' = [incidentMap EXCEPT ![disp[w].inc].thehive = disp[w].alert]
    /\ disp' = [disp EXCEPT ![w].pc =
                   IF incidentMap[disp[w].inc].severity >= 3
                   THEN "promote" ELSE "shuffle"]
    /\ UNCHANGED <<alerts, dispVars>>

\* Under mu: re-read the stored incident and set its TheHiveID.
RecordAlert(w) ==
    /\ running /\ disp[w].pc = "record"
    /\ incidentMap' = [incidentMap EXCEPT ![disp[w].inc].thehive = disp[w].alert]
    /\ disp' = [disp EXCEPT ![w].pc =
                   IF incidentMap[disp[w].inc].severity >= 4
                   THEN "promote" ELSE "shuffle"]
    /\ UNCHANGED <<alerts, dispVars>>

PromoteAlert(w) ==
    /\ running /\ disp[w].pc = "promote"
    /\ \E ok \in BOOLEAN :
          alerts' = IF ok THEN [alerts EXCEPT ![disp[w].alert].case = TRUE] ELSE alerts
    /\ disp' = [disp EXCEPT ![w].pc = "shuffle"]
    /\ UNCHANGED <<incidentMap, dispVars>>

\* Mutant: the dispatcher handles one incident and returns.
Shuffle_Returns(w) ==
    /\ running /\ disp[w].pc = "shuffle"
    /\ disp' = [disp EXCEPT ![w] = [IdleWorker EXCEPT !.pc = "done"]]
    /\ UNCHANGED <<incidentMap, alerts, dispVars>>

\* ListWorkflows and ExecuteWorkflow change nothing in the engine, whatever
\* their outcome.  A request is answered; the dispatcher selects again.
Shuffle(w) ==
    /\ running /\ disp[w].pc = "shuffle"
    /\ disp' = [disp EXCEPT ![w] =
                   IF w = "dispatcher" THEN IdleWorker
                   ELSE [IdleWorker EXCEPT !.pc = "done"]]
    /\ UNCHANGED <<incidentMap, alerts, dispVars>>

DispatchStep(w) == CreateAlert(w) \/ RecordAlert(w) \/ PromoteAlert(w) \/ Shuffle(w)

-----------------------------------------------------------------------------
(* Maintenance, API, time and shutdown *)

cleanDedupCache ==
    /\ running /\ ~ctxDone
    /\ \E f \in DOMAIN dedupCache : dedupCache[f] < clock - DedupTTL
    /\ dedupCache' =
          [f \in {g \in DOMAIN dedupCache : ~(dedupCache[g] < clock - DedupTTL)} |->
              dedupCache[f]]
    /\ UNCHANGED <<clock, eventBuffer, eventsIngested, incidentMap, incidentCh,
                   evalVars, disp, alerts, procVars, histVars>>

pruneBuffer ==
    /\ running /\ ~ctxDone
    /\ eventBuffer' = [k \in Keys |->
                          {ev \in eventBuffer[k] : ev.ts > clock - BufferWindow}]
    /\ eventBuffer' # eventBuffer
    /\ UNCHANGED <<clock, eventsIngested, incidentMap, dedupCache, incidentCh,
                   evalVars, disp, alerts, procVars, histVars>>

\* PATCH /detection/incidents/{id}: the handler refuses "new".
UpdateIncidentStatus(id, status) ==
    /\ running
    /\ id \in DOMAIN incidentMap
    /\ status \in {"investigating", "resolved"}
    /\ incidentMap' = [incidentMap EXCEPT ![id].status = status]
    /\ UNCHANGED <<clock, eventBuffer, eventsIngested, dedupCache, incidentCh,
                   evalVars, disp, alerts, procVars, histVars>>

\* Time passes; an evaluation does not outlast MaxEval.
Tick ==
    /\ running /\ clock < MaxTime
    /\ evalPc \in {"began", "rules", "send"} => clock - evalNow < MaxEval
    /\ clock' = clock + 1
    /\ UNCHANGED <<eventBuffer, eventsIngested, incidentMap, dedupCache,
                   incidentCh, evalVars, disp, alerts, procVars, histVars>>

otherVars == <<clock, eventBuffer, eventsIngested, incidentMap, dedupCache,
               incidentCh, alerts, histVars>>

Cancel ==
    /\ SignalArrives /\ running /\ ~ctxDone
    /\ ctxDone' = TRUE
    /\ UNCHANGED <<otherVars, evalVars, disp, subscribed, running>>

\* Both selects may see the cancelled context, or a ready ticker or channel.
EvalStop ==
    /\ running /\ ctxDone /\ evalPc = "idle"
    /\ evalPc' = "stopped"
    /\ UNCHANGED <<otherVars, evalNow, snapshot, keyOrder, evalRule, evalTenants,
                   triggered, disp, procVars>>

DispatcherStop ==
    /\ running /\ ctxDone /\ disp["dispatcher"].pc = "idle"
    /\ disp' = [disp EXCEPT !["dispatcher"].pc = "stopped"]
    /\ UNCHANGED <<otherVars, evalVars, procVars>>

StartReturns ==
    /\ running /\ ctxDone /\ subscribed
    /\ subscribed' = FALSE
    /\ UNCHANGED <<otherVars, evalVars, disp, ctxDone, running>>

\* main returns after the health server's shutdown and waits for nothing else.
MainExits ==
    /\ running /\ ctxDone
    /\ running' = FALSE
    /\ UNCHANGED <<otherVars, evalVars, disp, ctxDone, subscribed>>

Exited == ~running /\ UNCHANGED vars

Evaluator  == EvalBegin \/ EvalSnapshot \/ (\E t \in Tenants : EvalRule(t))
                 \/ EvalSend \/ EvalDone \/ EvalStop
Dispatcher == Dequeue \/ DispatchStep("dispatcher") \/ DispatcherStop

Next ==
    \/ \E m \in Messages, lag \in Lags : processEvent(m, lag)
    \/ \E t \in Tenants : IngestFalcoAlert(t)
    \/ Evaluator
    \/ Dispatcher
    \/ \E w \in Requests, id \in DOMAIN incidentMap : DispatchByID(w, id)
    \/ \E w \in Requests : DispatchStep(w)
    \/ cleanDedupCache \/ pruneBuffer
    \/ \E id \in DOMAIN incidentMap, s \in PatchStatuses : UpdateIncidentStatus(id, s)
    \/ Tick \/ Cancel \/ StartReturns \/ MainExits \/ Exited

Spec == Init /\ [][Next]_vars

\* Both goroutines run whenever they can: the Go scheduler is fair, the
\* ticker keeps firing, and every TheHive and Shuffle call ends (30 s).
FairSpec == Spec /\ WF_vars(Evaluator) /\ WF_vars(Dispatcher)

-----------------------------------------------------------------------------
(* Properties *)

Event == [id : Int, tenant : Tenants, agent : STRING, source : Sources,
          etype : EventTypes, title : STRING, ts : Int, seq : Nat]

Fingerprint == [rule : RuleIDs, tenant : Tenants,
                parts : SUBSET (STRING \X EventTypes \X STRING)]

Incident == [rule : RuleIDs, tenant : Tenants, severity : Int,
             status : Statuses, events : SUBSET Event, createdAt : Int,
             fp : Fingerprint, thehive : Nat]

Worker == [pc : {"idle", "create", "record", "promote", "shuffle", "done",
                 "stopped"},
           inc : Nat, alert : Nat]

\* A dispatch under way is of a stored incident and, once TheHive has
\* answered, of an alert TheHive has.
InFlight(d) ==
    /\ d.pc \in {"create", "record", "promote", "shuffle"} =>
          d.inc \in DOMAIN incidentMap
    /\ d.pc \in {"record", "promote"} => d.alert \in DOMAIN alerts

\* The state variables have their types, the channel respects its capacity,
\* and every id in flight names a stored incident or a TheHive alert.
TypeOK ==
    /\ clock \in Nat /\ eventsIngested \in Nat
    /\ eventBuffer \in [Keys -> SUBSET Event]
    /\ incidentMap \in Seq(Incident)
    /\ DOMAIN dedupCache \subseteq Fingerprint
    /\ dedupCache \in [DOMAIN dedupCache -> Int]
    /\ incidentCh \in Seq(DOMAIN incidentMap)
    /\ Len(incidentCh) <= ChannelCap
    /\ evalPc \in {"idle", "began", "rules", "send", "stopped"}
    /\ evalNow \in Nat
    /\ snapshot \in [Keys -> SUBSET Event] /\ keyOrder \in [Keys -> Nat]
    /\ evalRule \in RuleIDs /\ evalTenants \in (SUBSET Tenants) \ {{}}
    /\ triggered \in Seq(DOMAIN incidentMap)
    /\ disp \in [Workers -> Worker]
    /\ \A w \in Workers : InFlight(disp[w])
    /\ alerts \in Seq([sourceRef : Fingerprint, case : BOOLEAN])
    /\ ctxDone \in BOOLEAN /\ subscribed \in BOOLEAN /\ running \in BOOLEAN
    /\ taken \in Seq(DOMAIN incidentMap) /\ dropped \in SUBSET DOMAIN incidentMap

\* processEvent, pruneBuffer: a key never holds more than maxBufferPerKey
\* events, and an event leaves its buffer only when it is older than the
\* buffer window or when it arrived first in a full buffer.
BufferLoss ==
    [][\A k \in Keys :
          /\ Cardinality(eventBuffer'[k]) <= BufferCap
          /\ \A e \in eventBuffer[k] \ eventBuffer'[k] :
                \/ e.ts <= clock - BufferWindow
                \/ /\ Cardinality(eventBuffer[k]) = BufferCap
                   /\ \A f \in eventBuffer'[k] : e.seq < f.seq]_vars

\* evaluateRules: two incidents with one fingerprint are at least twice the
\* rule's window apart, although the cleaner forgets fingerprints while an
\* evaluation that read the clock earlier is still running.
DedupWindow ==
    \A i, j \in DOMAIN incidentMap :
        i < j /\ incidentMap[i].fp = incidentMap[j].fp =>
            incidentMap[j].createdAt - incidentMap[i].createdAt
                >= 2 * Rules[incidentMap[i].rule].window

\* evaluateRules: when an evaluation has gone through its rules, every match
\* in its snapshot has an incident: a new one, or the recent one in whose
\* favour the match was suppressed.
EveryMatchHasIncident ==
    evalPc = "send" =>
        \A r \in RuleIDs, t \in Tenants :
            Match(r, t) # {} =>
                \E i \in DOMAIN incidentMap :
                    /\ incidentMap[i].fp = fingerprint(Match(r, t), r, t)
                    /\ \/ incidentMap[i].createdAt = evalNow
                       \/ evalNow - incidentMap[i].createdAt < 2 * Rules[r].window

\* What stands in a set of evidence for a condition of a rule: a witness, or
\* the event of an earlier condition that bears the id of a witness.
StandsFor(rule, c, ev) ==
    \/ matchCondition(rule.conditions[c], ev)
    \/ /\ \E d \in 1 .. c - 1 : matchCondition(rule.conditions[d], ev)
       /\ \E m \in Messages : m.id = ev.id /\ matchCondition(rule.conditions[c], m)

\* matchRule: an incident's evidence is of its own tenant, up to the first
\* colon of a tenant id, lies in the rule's window before the evaluation and
\* names each id once.  Every condition of the rule has its witness there, or,
\* where sensors give several messages one id, the event that displaced it.
IncidentJustified ==
    \A i \in DOMAIN incidentMap :
        LET inc == incidentMap[i]
            rule == Rules[inc.rule]
        IN  /\ \A ev \in inc.events :
                  /\ UpToColon[ev.tenant] = inc.tenant
                  /\ ev.ts > inc.createdAt - rule.window
            /\ \A e, f \in inc.events : e.id = f.id => e = f
            /\ \A c \in DOMAIN rule.conditions :
                  \E ev \in inc.events : StandsFor(rule, c, ev)

\* dispatchToTheHive, patchIncident: an incident an analyst has triaged never
\* becomes "new" again, whatever a concurrent dispatch writes back.
TriageNotReset ==
    [][\A i \in DOMAIN incidentMap :
           incidentMap[i].status # "new" => incidentMap'[i].status # "new"]_vars

\* dispatchToTheHive: the TheHiveID an incident carries is the id of an alert
\* with the incident's own fingerprint, and only alerts of high or critical
\* incidents become cases, with several dispatches of several incidents under
\* way.
LinksAreReal ==
    /\ \A i \in DOMAIN incidentMap :
          incidentMap[i].thehive # NoAlert =>
              /\ incidentMap[i].thehive \in DOMAIN alerts
              /\ alerts[incidentMap[i].thehive].sourceRef = incidentMap[i].fp
    /\ \A a \in DOMAIN alerts :
          alerts[a].case =>
              Rules[alerts[a].sourceRef.rule].severity >= 4

\* The engine implements IncidentPipeline: deduplicated, handed to the
\* dispatcher at most once and in order, or dropped when the channel is full.
Pipeline == INSTANCE IncidentPipeline WITH
    Quiet   <- LAMBDA fp : 2 * Rules[fp.rule].window,
    raised  <- [i \in DOMAIN incidentMap |->
                   [what |-> incidentMap[i].fp, at |-> incidentMap[i].createdAt]],
    waiting <- incidentCh \o triggered,
    handed  <- taken,
    lost    <- dropped

ImplementsPipeline == Pipeline!PipeSpec

\* Start: unless the engine is shut down, an incident that was raised is
\* eventually taken by the dispatcher or dropped at a full channel.  (While
\* the clock stands still, a rule raises at most one incident per event.)
IncidentResolved ==
    \A i \in 1 .. MaxEvents * Len(Rules) :
        (i \in DOMAIN incidentMap) ~>
            (ctxDone \/ i \in dropped \/ \E k \in DOMAIN taken : taken[k] = i)

(* Inductive invariants, from which the theorems follow. *)

Evaluating == evalPc \in {"began", "rules", "send"}

\* The time that the next dedup check will compare with, at the earliest.
CheckTime == IF Evaluating THEN evalNow ELSE clock

\* A fingerprint is either remembered with a time no incident of it is later
\* than, or forgotten long after its last incident.
DedupInv ==
    /\ Evaluating => evalNow <= clock /\ clock - evalNow <= MaxEval
    /\ \A i \in DOMAIN incidentMap :
          LET inc == incidentMap[i]
          IN  /\ inc.fp.rule = inc.rule
              /\ inc.createdAt <= CheckTime
              /\ inc.fp \in DOMAIN dedupCache => inc.createdAt <= dedupCache[inc.fp]
              /\ inc.fp \notin DOMAIN dedupCache =>
                    CheckTime - inc.createdAt >= 2 * Rules[inc.rule].window
    /\ DedupWindow

\* The inner loop has been through rule r and tenant t.
Visited(r, t) ==
    \/ evalPc = "send"
    \/ evalPc = "rules" /\ (r < evalRule \/ (r = evalRule /\ t \notin evalTenants))

\* Every remembered fingerprint is that of an incident, and every match the
\* evaluation has been through has one.
MatchInv ==
    /\ evalPc # "rules" => evalRule = 1 /\ evalTenants = Tenants
    /\ \A f \in DOMAIN dedupCache :
          \E i \in DOMAIN incidentMap :
              incidentMap[i].fp = f /\ incidentMap[i].createdAt = dedupCache[f]
    /\ \A r \in RuleIDs, t \in Tenants :
          Visited(r, t) /\ Match(r, t) # {} =>
              \E i \in DOMAIN incidentMap :
                  /\ incidentMap[i].fp = fingerprint(Match(r, t), r, t)
                  /\ \/ incidentMap[i].createdAt = evalNow
                     \/ evalNow - incidentMap[i].createdAt < 2 * Rules[r].window

\* An event carries what its message said, or is a Falco alert with an id of
\* its own.
FromSource(ev) ==
    \/ \E m \in Messages :
          /\ ev.id = m.id /\ ev.source = m.source
          /\ ev.etype = m.etype /\ ev.title = m.title
    \/ /\ ev.id = 0 - ev.seq - 1 /\ ev.source = "falco"
       /\ ev.etype = "alert" /\ ev.title = FalcoTitle

\* Every event of a buffer is under its own key and arrived at its own time.
Filed(buf) ==
    /\ \A k \in Keys : \A ev \in buf[k] :
          /\ k = <<ev.tenant, ev.etype>>
          /\ ev.seq < eventsIngested
          /\ FromSource(ev)
    /\ \A k, l \in Keys : \A e \in buf[k], f \in buf[l] : e.seq = f.seq => e = f

\* The buffer and the evaluator's copy are in order, and the cap is kept.
BufferInv ==
    /\ Filed(eventBuffer) /\ Filed(snapshot)
    /\ \A k \in Keys :
          IsFiniteSet(eventBuffer[k]) /\ Cardinality(eventBuffer[k]) <= BufferCap

\* A dispatch that TheHive has answered holds the alert of its own incident,
\* and promotes only what its rule rates high or critical.
LinksInv ==
    /\ LinksAreReal
    /\ \A i \in DOMAIN incidentMap :
          /\ incidentMap[i].fp.rule = incidentMap[i].rule
          /\ incidentMap[i].severity = Rules[incidentMap[i].rule].severity
    /\ \A w \in Workers :
          /\ disp[w].pc \in {"record", "promote"} =>
                alerts[disp[w].alert].sourceRef = incidentMap[disp[w].inc].fp
          /\ disp[w].pc = "promote" => incidentMap[disp[w].inc].severity >= 4

(* What comments of the repository say and the code does not do. *)

\* rules.go: "on the same agent"; matchRule compares no agents.
LateralOnSameAgent ==
    \A i \in DOMAIN incidentMap :
        \A e, f \in incidentMap[i].events : e.agent = f.agent

\* engine.go, CorrelationRule.Threshold: "minimum number of events matching";
\* matchRule counts every delivery of one event.
ThresholdOfDistinctEvents ==
    \A i \in DOMAIN incidentMap :
        Cardinality(incidentMap[i].events) >= Rules[incidentMap[i].rule].threshold
=============================================================================
