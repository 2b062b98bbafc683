------------------------- MODULE IntegrationGateway -------------------------
(***************************************************************************)
(* The /integrations API of the NOC server: requests handled concurrently, *)
(* the clients they share, and the tools behind them.  Every request runs  *)
(* under the 25 s deadline of the Timeout middleware.  The Wazuh client    *)
(* caches one JWT for all requests behind a mutex; the other clients carry *)
(* a fixed key.  The tools, the network and net/http's own retry of a GET  *)
(* on a dead connection are modelled from how the clients use them.        *)
(***************************************************************************)
EXTENDS IntegrationRoutes, Integers, Sequences, FiniteSets

CONSTANTS
    Requests,    \* HTTP requests, each served once
    RouteSet,    \* the routes they use
    Configs,     \* the sets of configured clients to start with
    TokenTTL,    \* life of a Wazuh token at the manager (60 min)
    CacheTTL,    \* how long the client reuses it (55 min)
    Timeout,     \* deadline of a request (25 s)
    MaxTime      \* bound on the clock

ASSUME RoutesAssumption == RouteSet \subseteq Routes
ASSUME ConfigsAssumption ==
    Configs \subseteq SUBSET Clients /\ \A c \in Configs : "itdr" \in c
ASSUME TimesAssumption ==
    /\ TokenTTL \in Nat /\ CacheTTL \in Nat \ {0} /\ Timeout \in Nat /\ MaxTime \in Nat
    /\ CacheTTL + 2 * Timeout <= TokenTTL

VARIABLES
    clients,   \* the clients that are not nil
    now,       \* time
    mu,        \* holder of the Wazuh client's mutex
    token,     \* the cached token: 0 for none
    tokenExp,  \* when the cached token stops being reused
    expires,   \* expires[i]: when the manager stops accepting token i
    call,      \* each request's goroutine
    wire,      \* requests on their way to a tool
    done       \* how often the tool did what the request asked

vars == <<clients, now, mu, token, tokenExp, expires, call, wire, done>>

Free == "free"
Torn == -1      \* a token read while another goroutine writes it

ASSUME FreeAssumption == Free \notin Requests

\* No request yet; "none" is the call that reaches no tool.
Idle == [pc |-> "idle", op |-> Read("none"), ok |-> 0, tok |-> 0,
         deadline |-> 0, reply |-> "none", code |-> 0,
         checks |-> {}]

Codes == {200, 201, 400, 422, 502, 503}
Ops   == {route.op : route \in Routes}
Calls == [pc : {"idle", "lock", "login", "decode", "ready", "sent", "join", "answered"},
          op : Ops, ok : {0, 200, 201}, tok : Int, deadline : Nat,
          reply : {"none", "good", "bad"}, code : Codes \cup {0},
          checks : SUBSET Clients]

initIntegrations == clients \in Configs

Init ==
    /\ initIntegrations
    /\ now = 0
    /\ mu = Free /\ token = 0 /\ tokenExp = 0
    /\ expires = <<>>
    /\ call = [r \in Requests |-> Idle]
    /\ wire = {}
    /\ done = [r \in Requests |-> 0]

-----------------------------------------------------------------------------
\* Every handler's first lines: a nil client, then its own checks, answer at
\* once; the call of the client follows.
Answer(r, code) ==
    [call EXCEPT ![r] = [@ EXCEPT !.pc = "answered", !.code = code,
                                  !.deadline = 0, !.reply = "none"]]

Refuse(r, code) ==
    /\ call' = Answer(r, code)
    /\ UNCHANGED <<clients, now, mu, token, tokenExp, expires, wire, done>>

NotConfigured(r, route) ==
    /\ call[r].pc = "idle"
    /\ route.client \notin clients
    /\ Refuse(r, 503)

BadRequest(r, route) ==
    /\ call[r].pc = "idle"
    /\ route.client \in clients
    /\ \E code \in route.refuse : Refuse(r, code)

\* The ITDR service finds its BloodHound, Cortex or OTX access missing.
NoUpstream(r, route) ==
    /\ call[r].pc = "idle"
    /\ route.client \in clients
    /\ route.op.api \notin clients \cup {"none"}
    /\ Refuse(r, 502)

\* The client method starts: a Wazuh call has to authenticate first.
CallClient(r, route) ==
    /\ call[r].pc = "idle"
    /\ route.client \in clients
    /\ route.op.api \in clients
    /\ call' = [call EXCEPT ![r] = [Idle EXCEPT
          !.pc = IF route.op.api = "wazuh" THEN "lock" ELSE "ready",
          !.op = route.op, !.ok = route.ok, !.deadline = now + Timeout]]
    /\ UNCHANGED <<clients, now, mu, token, tokenExp, expires, wire, done>>

ListLocal(r, route) ==
    /\ call[r].pc = "idle"
    /\ route.client \in clients
    /\ route.op.api = "none"
    /\ Refuse(r, route.ok)

\* healthAll: a goroutine for every configured client.  The one of Wazuh goes
\* through the token like any other call, as request r; the others are checks.
healthAll(r) ==
    /\ call[r].pc = "idle"
    /\ call' = [call EXCEPT ![r] = [Idle EXCEPT
          !.pc = IF "wazuh" \in clients THEN "lock" ELSE "join",
          !.op = Read(IF "wazuh" \in clients THEN "wazuh" ELSE "none"),
          !.deadline = now + Timeout,
          !.checks = clients \ {"otx"}]]
    /\ UNCHANGED <<clients, now, mu, token, tokenExp, expires, wire, done>>

\* One of the other clients' Health returns, or its deadline ends it.
HealthCheck(r) ==
    /\ \E c \in call[r].checks \ {"wazuh"} :
          call' = [call EXCEPT ![r].checks = @ \ {c}]
    /\ UNCHANGED <<clients, now, mu, token, tokenExp, expires, wire, done>>

\* wg.Wait returns; failed checks are named in the body, the code is a 200.
HealthJoin(r) ==
    /\ call[r].pc = "join"
    /\ call[r].checks = {}
    /\ Refuse(r, 200)

\* The client method returns: to the handler, or to the health goroutine.
Returned(r, good) ==
    IF call[r].ok = 0
      THEN [call EXCEPT ![r] = [@ EXCEPT !.pc = "join", !.reply = "none",
                                         !.checks = call[r].checks \ {"wazuh"}]]
      ELSE Answer(r, IF good THEN call[r].ok ELSE 502)

-----------------------------------------------------------------------------
AuthCached_Forever(r) ==     \* mutant: the expiry of the cache is not checked
    /\ call[r].pc = "lock"
    /\ mu = Free
    /\ token # 0
    /\ call' = [call EXCEPT ![r].pc = "ready"]
    /\ UNCHANGED <<clients, now, mu, token, tokenExp, expires, wire, done>>

\* authenticate: the mutex is held for the check of the cached token ...
AuthCached(r) ==
    /\ call[r].pc = "lock"
    /\ mu = Free
    /\ token # 0 /\ now < tokenExp
    /\ call' = [call EXCEPT ![r].pc = "ready"]
    /\ UNCHANGED <<clients, now, mu, token, tokenExp, expires, wire, done>>

AuthLogin_Unlocked(r) ==     \* mutant: the mutex is not held across the login
    /\ call[r].pc = "lock"
    /\ mu = Free
    /\ ~(token # 0 /\ now < tokenExp)
    /\ call' = [call EXCEPT ![r].pc = "login"]
    /\ UNCHANGED <<clients, now, mu, token, tokenExp, expires, wire, done>>

\* ... and across the login request when there is none.
AuthLogin(r) ==
    /\ call[r].pc = "lock"
    /\ mu = Free
    /\ ~(token # 0 /\ now < tokenExp)
    /\ mu' = r
    /\ call' = [call EXCEPT ![r].pc = "login"]
    /\ UNCHANGED <<clients, now, token, tokenExp, expires, wire, done>>

\* The manager issues a token, unless the deadline has cancelled the login.
ManagerLogin(r) ==
    /\ call[r].pc = "login"
    /\ now <= call[r].deadline
    /\ expires' = Append(expires, now + TokenTTL)
    /\ call' = [call EXCEPT ![r].pc = "decode", ![r].tok = Len(expires) + 1]
    /\ UNCHANGED <<clients, now, mu, token, tokenExp, wire, done>>

AuthFails_KeepsLock(r) ==    \* mutant: an early return without the unlock
    /\ call[r].pc \in {"login", "decode"}
    /\ call' = Returned(r, FALSE)
    /\ UNCHANGED <<clients, now, mu, token, tokenExp, expires, wire, done>>

AuthFails_Stores(r) ==       \* mutant: what the login returned is stored unchecked
    /\ call[r].pc \in {"login", "decode"}
    /\ mu' = Free /\ token' = Torn
    /\ call' = Returned(r, FALSE)
    /\ UNCHANGED <<clients, now, tokenExp, expires, wire, done>>

\* The login fails or its answer is lost: nothing is cached.
AuthFails(r) ==
    /\ call[r].pc \in {"login", "decode"}
    /\ mu' = Free
    /\ call' = Returned(r, FALSE)
    /\ UNCHANGED <<clients, now, token, tokenExp, expires, wire, done>>

AuthStores(r) ==
    /\ call[r].pc = "decode"
    /\ token' = call[r].tok
    /\ tokenExp' = now + CacheTTL
    /\ mu' = Free
    /\ call' = [call EXCEPT ![r].pc = "ready"]
    /\ UNCHANGED <<clients, now, expires, wire, done>>

\* The header is built from c.token without the mutex: a goroutine that is
\* storing a token at this moment makes the read a data race.
ReadToken(r) ==
    IF call[r].op.api # "wazuh" THEN {0}
    ELSE {token} \cup {t \in {Torn} : \E q \in Requests \ {r} : call[q].pc = "decode"}

\* The request leaves for the tool, unless the deadline has passed.
Send(r) ==
    /\ call[r].pc = "ready"
    /\ now <= call[r].deadline
    /\ \E t \in ReadToken(r) :
          call' = [call EXCEPT ![r].pc = "sent", ![r].tok = t]
    /\ wire' = wire \cup {r}
    /\ UNCHANGED <<clients, now, mu, token, tokenExp, expires, done>>

\* A tool refuses a Wazuh token it never issued, has revoked, or that ran out.
Authorized(r) ==
    call[r].op.api = "wazuh" =>
        call[r].tok \in 1..Len(expires) /\ now < expires[call[r].tok]

\* What the tool answers counts only while the client still waits for it.
Answered(r, good) ==
    [call EXCEPT ![r].reply =
        IF call[r].pc = "sent" /\ @ = "none"
          THEN IF good THEN "good" ELSE "bad"
          ELSE @]

\* The tool does what was asked, whether or not anybody still waits for it.
ToolDoes(r) ==
    /\ r \in wire
    /\ Authorized(r)
    /\ done' = [done EXCEPT ![r] = IF call[r].op.acts THEN @ + 1 ELSE @]
    /\ \E reply \in RepliesDone(call[r].op.api) :
          call' = Answered(r, Accepts(call[r].op, reply))
    /\ wire' = wire \ {r}
    /\ UNCHANGED <<clients, now, mu, token, tokenExp, expires>>

\* The tool refuses the request or cannot do it.
ToolRefuses(r) ==
    /\ r \in wire
    /\ \E reply \in RepliesUndone(call[r].op.api) :
          call' = Answered(r, Accepts(call[r].op, reply))
    /\ wire' = wire \ {r}
    /\ UNCHANGED <<clients, now, mu, token, tokenExp, expires, done>>

\* net/http sends a GET once more when the reused connection dies after the
\* tool has got it and before an answer is read.
Resend(r) ==
    /\ call[r].pc = "sent"
    /\ call[r].reply # "none"
    /\ call[r].op.verb = "GET"
    /\ call' = [call EXCEPT ![r].reply = "none"]
    /\ wire' = wire \cup {r}
    /\ UNCHANGED <<clients, now, mu, token, tokenExp, expires, done>>

Receive(r) ==
    /\ call[r].pc = "sent"
    /\ call[r].reply # "none"
    /\ call' = Returned(r, call[r].reply = "good")
    /\ UNCHANGED <<clients, now, mu, token, tokenExp, expires, wire, done>>

\* No connection, a broken answer, or the deadline; a request already on the
\* wire still reaches the tool.  (A command that ITDR runs is killed at the
\* deadline and is taken to leave no child behind that keeps its output open.)
CallFails(r) ==
    /\ call[r].pc \in {"ready", "sent"}
    /\ call' = Returned(r, FALSE)
    /\ UNCHANGED <<clients, now, mu, token, tokenExp, expires, wire, done>>

\* The manager restarts and forgets the tokens it has issued.
ManagerRestart ==
    /\ \E i \in DOMAIN expires : expires[i] # 0
    /\ expires' = [i \in DOMAIN expires |-> 0]
    /\ UNCHANGED <<clients, now, mu, token, tokenExp, call, wire, done>>

\* Time passes; the deadline ends what waits for the network.  Waiting for the
\* mutex does not end with the deadline.
Tick ==
    /\ now < MaxTime
    /\ \A r \in Requests :
          call[r].pc \in {"login", "decode", "sent"} => now < call[r].deadline
    /\ now' = now + 1
    /\ UNCHANGED <<clients, mu, token, tokenExp, expires, call, wire, done>>

Step(r) ==
    \/ HealthCheck(r) \/ HealthJoin(r)
    \/ AuthCached(r) \/ AuthLogin(r) \/ AuthFails(r) \/ AuthStores(r)
    \/ Send(r) \/ Receive(r) \/ CallFails(r)

RegisterRoutes(r) ==
    \/ \E route \in RouteSet :
          \/ NotConfigured(r, route) \/ BadRequest(r, route) \/ NoUpstream(r, route)
          \/ ListLocal(r, route) \/ CallClient(r, route)
    \/ healthAll(r)

Next ==
    \/ \E r \in Requests :
          RegisterRoutes(r) \/ Step(r) \/ ManagerLogin(r)
            \/ ToolDoes(r) \/ ToolRefuses(r) \/ Resend(r)
    \/ ManagerRestart
    \/ Tick

Spec == Init /\ [][Next]_vars

\* A goroutine that can go on does, and what waits for the network is ended by
\* its deadline at the latest (CallFails, AuthFails).
FairSpec == Spec /\ \A r \in Requests : WF_vars(Step(r))
-----------------------------------------------------------------------------
TypeOK ==
    /\ clients \in Configs
    /\ now \in 0..MaxTime
    /\ mu \in Requests \cup {Free}
    /\ expires \in Seq(Nat)
    /\ token \in 0..Len(expires) /\ tokenExp \in Nat
    /\ call \in [Requests -> Calls]
    /\ wire \subseteq Requests
    /\ done \in [Requests -> Nat]

\* What a handler answers is what happened at the tool: a success of a call
\* that acts means the tool acted, and a refusal by the handler itself means
\* that nothing was or will be asked of the tool.  (A 502 promises neither.)
AnswersMatchTool ==
    \A r \in Requests : call[r].pc = "answered" =>
        /\ call[r].code \in {200, 201} /\ call[r].op.acts => done[r] > 0
        /\ call[r].code \in {400, 422, 503} => done[r] = 0 /\ r \notin wire

\* No tool is made to act twice for one request, although net/http repeats
\* requests on its own: what acts is never sent as a GET.
NeverTwice == \A r \in Requests : done[r] <= 1

\* doGet, doPut: a token that goes out, if it was read whole and the manager
\* has not forgotten it, is one the manager still accepts: the five minutes
\* between the two lifetimes cover the login and the request.
Expired(t) == t \in 1..Len(expires) /\ expires[t] # 0 /\ now >= expires[t]

SendsLiveToken ==
    [][\A r \in Requests :
          call[r].pc = "ready" /\ call'[r].pc = "sent" /\ call[r].op.api = "wazuh"
            => call'[r].tok # 0 /\ ~Expired(call'[r].tok)]_vars

\* authenticate: logins do not overtake one another.  The cached token is only
\* ever replaced by one that the manager issued later, although its answers may
\* take until the deadline and requests queue for the login meanwhile.
NewestToken == [][token' # token => token' > token]_vars

\* The inductive invariant behind these, for one request.  Until a request
\* is sent the tool has seen nothing of it; what is on the wire was not done
\* yet; a good answer to a call that acts comes from a tool that acted.
CallInv(r) ==
    /\ call[r].pc = "idle" => call[r] = Idle
    /\ call[r].pc \in {"idle", "lock", "login", "decode", "ready"} =>
          done[r] = 0 /\ r \notin wire /\ call[r].reply = "none"
    /\ call[r].pc = "join" => call[r].ok = 0
    /\ call[r].ok = 0 => ~call[r].op.acts
    /\ call[r].ok # 0 => call[r].checks = {}
    /\ ~call[r].op.acts \/ r \in wire => done[r] = 0
    /\ done[r] <= 1
    /\ call[r].reply = "good" /\ call[r].op.acts => done[r] > 0
    /\ call[r].pc = "answered" =>
          /\ call[r].code \in {200, 201} /\ call[r].op.acts => done[r] > 0
          /\ call[r].code \in {400, 422, 503} => done[r] = 0 /\ r \notin wire
          /\ call[r].checks = {}

\* A token is stored no later than its login's deadline, and a call that may
\* use the cached token began before the cache stops reusing it.
TimeInv(r) ==
    LET c == call[r]
    IN  /\ c.deadline <= now + Timeout
        /\ c.pc = "decode" =>
              /\ now <= c.deadline /\ c.tok \in 1..Len(expires)
              /\ expires[c.tok] = 0 \/ c.deadline - Timeout + TokenTTL <= expires[c.tok]
        /\ c.pc = "ready" /\ c.op.api = "wazuh" =>
              token # 0 /\ c.deadline < tokenExp + Timeout

\* The cached token outlives its reuse by the duration of a request.
TokenInv == token # 0 => expires[token] = 0 \/ tokenExp + Timeout <= expires[token]

GatewayInv ==
    /\ TypeOK /\ TokenInv
    /\ \A r \in Requests : CallInv(r) /\ TimeInv(r)

\* Who is logging in holds the mutex, and the token it was given is the last
\* one issued.
LockInv ==
    \A r \in Requests :
        /\ call[r].pc \in {"login", "decode"} => mu = r
        /\ call[r].pc = "decode" => call[r].tok = Len(expires)

\* Every request is answered: the mutex held across a login that fails or is
\* cut off is always given back.
EveryCallAnswered ==
    \A r \in Requests : call[r].pc # "idle" ~> call[r].pc = "answered"

\* "Client is a thread-safe HTTP client for the Wazuh REST API": no request is
\* sent with a token read in the middle of another goroutine's write.
NoTornToken == \A r \in Requests : call[r].tok # Torn

=============================================================================
