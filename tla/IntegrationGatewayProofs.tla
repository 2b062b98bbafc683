----------------------- MODULE IntegrationGatewayProofs -----------------------
(***************************************************************************)
(* Theorems about IntegrationGateway, for every set of requests, every     *)
(* subset of the routes, every configuration and all lifetimes that        *)
(* satisfy TimesAssumption.                                                *)
(***************************************************************************)
EXTENDS IntegrationGateway, TLAPS

-----------------------------------------------------------------------------
(* The table of routes *)

Tools == {"wazuh", "velociraptor", "thehive", "cortex", "bloodhound",
          "osquery", "shuffle", "otx", "itdr"}

\* What the proofs use of a call: one that acts reaches a tool, and not as a
\* GET, which net/http may repeat.
SoundOp(op) ==
    /\ op.acts \in BOOLEAN
    /\ op.acts => op.verb # "GET" /\ op.api \in Tools

\* What they use of a route.
SoundRoute(route) ==
    /\ SoundOp(route.op)
    /\ route.ok \in {200, 201}
    /\ route.refuse \subseteq {400, 422, 502}

\* The kinds of calls.
LEMMA SoundRead == ASSUME NEW api PROVE SoundOp(Read(api)) /\ SoundOp(Search(api))
  BY DEF SoundOp, Read, Search

LEMMA SoundAct ==
    ASSUME NEW api \in Tools, NEW verb \in {"PUT", "POST", "PATCH", "EXEC"}
    PROVE  SoundOp(Act(api, verb))
  BY DEF SoundOp, Act

LEMMA SoundRouteOf ==
    ASSUME NEW client, NEW refuse \in SUBSET {400, 422, 502}, NEW op, SoundOp(op),
           NEW ok \in {200, 201}
    PROVE  SoundRoute(Route(client, refuse, op, ok))
  BY DEF SoundRoute, Route

LEMMA WazuhRoutes ==
    \A x \in {wazuhListAgents, wazuhGetAgent, wazuhListAlerts, wazuhListSCA,
              wazuhListSyscheck, wazuhActiveResponse, wazuhRestartAgent} : SoundRoute(x)
  <1>1. SoundOp(Read("wazuh")) /\ SoundOp(Act("wazuh", "PUT"))
    BY SoundRead, SoundAct DEF Tools
  <1> QED
    BY <1>1, SoundRouteOf
       DEF wazuhListAgents, wazuhGetAgent, wazuhListAlerts, wazuhListSCA,
           wazuhListSyscheck, wazuhActiveResponse, wazuhRestartAgent, wazuh_ListAgents,
           wazuh_GetAgent, wazuh_ListAlerts, wazuh_ListSCAPolicies,
           wazuh_ListSyscheckFiles, wazuh_RunActiveResponse, wazuh_RestartAgent

LEMMA VelociraptorRoutes ==
    \A x \in {vrSearchClients, vrGetClient, vrCreateHunt, vrListHunts, vrGetHunt,
              vrGetHuntResults, vrCollectArtifact, vrRunVQL} : SoundRoute(x)
  <1>1. SoundOp(Read("velociraptor")) /\ SoundOp(Act("velociraptor", "POST"))
    BY SoundRead, SoundAct DEF Tools
  <1> QED
    BY <1>1, SoundRouteOf
       DEF vrSearchClients, vrGetClient, vrCreateHunt, vrListHunts, vrGetHunt,
           vrGetHuntResults, vrCollectArtifact, vrRunVQL, velociraptor_SearchClients,
           velociraptor_GetClient, velociraptor_CreateHunt, velociraptor_ListHunts,
           velociraptor_GetHunt, velociraptor_GetHuntResults,
           velociraptor_CollectArtifact, velociraptor_RunVQL

LEMMA TheHiveRoutes ==
    \A x \in {thCreateAlert, thGetAlert, thPromoteAlert, thCreateCase, thListCases,
              thGetCase, thUpdateCase, thAddObservable, thAddTask} : SoundRoute(x)
  <1>1. /\ SoundOp(Read("thehive")) /\ SoundOp(Search("thehive"))
        /\ SoundOp(Act("thehive", "POST")) /\ SoundOp(Act("thehive", "PATCH"))
    BY SoundRead, SoundAct DEF Tools
  <1> QED
    BY <1>1, SoundRouteOf
       DEF thCreateAlert, thGetAlert, thPromoteAlert, thCreateCase, thListCases,
           thGetCase, thUpdateCase, thAddObservable, thAddTask, thehive_CreateAlert,
           thehive_GetAlert, thehive_PromoteAlert, thehive_CreateCase, thehive_GetCase,
           thehive_UpdateCase, thehive_ListCases, thehive_AddObservable,
           thehive_CreateTask

LEMMA CortexOsqueryRoutes ==
    \A x \in {cxListAnalyzers, cxRunAnalyzer, cxGetJob, cxGetJobReport,
              oqListHosts, oqGetHost, oqRunLiveQuery} : SoundRoute(x)
  <1>1. /\ SoundOp(Read("cortex")) /\ SoundOp(Act("cortex", "POST"))
        /\ SoundOp(Read("osquery")) /\ SoundOp(Act("osquery", "POST"))
    BY SoundRead, SoundAct DEF Tools
  <1> QED
    BY <1>1, SoundRouteOf
       DEF cxListAnalyzers, cxRunAnalyzer, cxGetJob, cxGetJobReport, oqListHosts,
           oqGetHost, oqRunLiveQuery, cortex_ListAnalyzers, cortex_Analyze,
           cortex_GetJob, cortex_GetJobReport, osquery_ListHosts, osquery_GetHost,
           osquery_RunLiveQuery

LEMMA BloodHoundShuffleRoutes ==
    \A x \in {bhListDomains, bhRunCypher, bhListAttackPaths, shListWorkflows,
              shExecuteWorkflow} : SoundRoute(x)
  <1>1. /\ SoundOp(Read("bloodhound")) /\ SoundOp(Act("bloodhound", "POST"))
        /\ SoundOp(Read("shuffle")) /\ SoundOp(Act("shuffle", "POST"))
    BY SoundRead, SoundAct DEF Tools
  <1> QED
    BY <1>1, SoundRouteOf
       DEF bhListDomains, bhRunCypher, bhListAttackPaths, shListWorkflows,
           shExecuteWorkflow, bloodhound_ListDomains, bloodhound_RunCypher,
           bloodhound_ListAttackPaths, shuffle_ListWorkflows, shuffle_ExecuteWorkflow

LEMMA ItdrRoutes ==
    \A x \in {itdrListAssets, itdrListMispTaxonomies, itdrRunBloodHoundCypherFile,
              itdrLookupOTX, itdrRunIdentityResponder, itdrRunCortexResponder} :
        SoundRoute(x)
  <1>1. /\ SoundOp(Read("none")) /\ SoundOp(Read("itdr")) /\ SoundOp(Read("otx"))
        /\ SoundOp(Act("bloodhound", "POST")) /\ SoundOp(Act("itdr", "EXEC"))
        /\ SoundOp(Act("cortex", "POST"))
    BY SoundRead, SoundAct DEF Tools
  <1> QED
    BY <1>1, SoundRouteOf
       DEF itdrListAssets, itdrListMispTaxonomies, itdrRunBloodHoundCypherFile,
           itdrLookupOTX, itdrRunIdentityResponder, itdrRunCortexResponder,
           itdr_ListAssets, itdr_ListMispTaxonomies, itdr_RunCypherQueryFile,
           itdr_LookupOTXIndicator, itdr_RunIdentityResponderScript,
           itdr_RunCortexIdentityResponder, bloodhound_RunCypher, cortex_RunResponder

\* Every handler of the table.
LEMMA AllRoutes == \A x \in Routes : SoundRoute(x)
  BY WazuhRoutes, VelociraptorRoutes, TheHiveRoutes, CortexOsqueryRoutes,
     BloodHoundShuffleRoutes, ItdrRoutes DEF Routes

\* The calls a goroutine may be in, the health check's included.
LEMMA OpFacts ==
    /\ \A op \in Ops : SoundOp(op)
    /\ Read("none") \in Ops /\ Read("wazuh") \in Ops
    /\ ~Read("none").acts /\ ~Read("wazuh").acts
  <1>1. \A op \in Ops : SoundOp(op)
    BY AllRoutes DEF Ops, SoundRoute
  <1>2. itdrListAssets \in Routes /\ wazuhListAgents \in Routes
    BY DEF Routes
  <1>3. itdrListAssets.op = Read("none") /\ wazuhListAgents.op = Read("wazuh")
    BY DEF itdrListAssets, wazuhListAgents, Route, itdr_ListAssets, wazuh_ListAgents
  <1>4. ~Read("none").acts /\ ~Read("wazuh").acts
    BY DEF Read
  <1> QED BY <1>1, <1>2, <1>3, <1>4 DEF Ops

\* No client takes a tool's refusal for a success.
LEMMA RefusalIsSeen ==
    ASSUME NEW op \in Ops, op.acts, NEW reply \in RepliesUndone(op.api)
    PROVE  ~Accepts(op, reply)
  <1>1. op.api \in Tools
    BY OpFacts DEF SoundOp
  <1>2. \/ reply.status = 500
        \/ op.api = "wazuh" /\ reply.body = "error"
    BY DEF RepliesUndone
  <1>3. CASE op.api = "wazuh"
    BY <1>2, <1>3 DEF Accepts, wazuh_accepts
  <1>4. CASE op.api = "velociraptor"
    BY <1>2, <1>4 DEF Accepts, velociraptor_accepts, Is2xx
  <1>5. CASE op.api = "thehive"
    BY <1>2, <1>5 DEF Accepts, thehive_accepts, Is2xx
  <1>6. CASE op.api = "cortex"
    BY <1>2, <1>6 DEF Accepts, cortex_accepts, Is2xx
  <1>7. CASE op.api = "bloodhound"
    BY <1>2, <1>7 DEF Accepts, bloodhound_accepts, Is2xx
  <1>8. CASE op.api = "osquery"
    BY <1>2, <1>8 DEF Accepts, osquery_accepts, Is2xx
  <1>9. CASE op.api = "shuffle"
    BY <1>2, <1>9 DEF Accepts, shuffle_accepts, Is2xx
  <1>10. CASE op.api = "otx"
    BY <1>2, <1>10 DEF Accepts, otx_accepts, Is2xx
  <1>11. CASE op.api = "itdr"
    BY <1>2, <1>11 DEF Accepts, itdr_accepts
  <1> QED
    BY <1>1, <1>3, <1>4, <1>5, <1>6, <1>7, <1>8, <1>9, <1>10, <1>11 DEF Tools

-----------------------------------------------------------------------------
(* The invariant of a request, as a predicate of its call, of what the tool *)
(* has done for it and of whether it is on the wire                         *)

CallOK(c, d, w) ==
    /\ c.pc = "idle" => c = Idle
    /\ c.pc \in {"idle", "lock", "login", "decode", "ready"} =>
          d = 0 /\ ~w /\ c.reply = "none"
    /\ c.pc = "join" => c.ok = 0
    /\ c.ok = 0 => ~c.op.acts
    /\ c.ok # 0 => c.checks = {}
    /\ ~c.op.acts \/ w => d = 0
    /\ d <= 1
    /\ c.reply = "good" /\ c.op.acts => d > 0
    /\ c.pc = "answered" =>
          /\ c.code \in {200, 201} /\ c.op.acts => d > 0
          /\ c.code \in {400, 422, 503} => d = 0 /\ ~w
          /\ c.checks = {}

TimeOK(c) ==
    /\ c.deadline <= now + Timeout
    /\ c.pc = "decode" =>
          /\ now <= c.deadline /\ c.tok \in 1..Len(expires)
          /\ expires[c.tok] = 0 \/ c.deadline - Timeout + TokenTTL <= expires[c.tok]
    /\ c.pc = "ready" /\ c.op.api = "wazuh" =>
          token # 0 /\ c.deadline < tokenExp + Timeout

LEMMA InvParts ==
    GatewayInv <=> /\ TypeOK /\ TokenInv
                   /\ \A r \in Requests : CallOK(call[r], done[r], r \in wire)
                   /\ \A r \in Requests : TimeOK(call[r])
  BY DEF GatewayInv, CallInv, TimeInv, CallOK, TimeOK

LEMMA InvPartsNext ==
    GatewayInv' <=> /\ TypeOK' /\ TokenInv'
                    /\ \A r \in Requests : CallOK(call'[r], done'[r], r \in wire')
                    /\ \A r \in Requests : TimeOK(call[r])'
  BY DEF GatewayInv, CallInv, TimeInv, CallOK, TimeOK

\* A request's call has its type, and its invariants hold.
LEMMA CallFacts ==
    ASSUME GatewayInv, NEW r \in Requests
    PROVE  /\ call \in [Requests -> Calls] /\ call[r] \in Calls
           /\ done \in [Requests -> Nat] /\ done[r] \in Nat /\ wire \subseteq Requests
           /\ CallOK(call[r], done[r], r \in wire) /\ TimeOK(call[r])
           /\ SoundOp(call[r].op)
  <1>1. /\ call \in [Requests -> Calls] /\ call[r] \in Calls
        /\ done \in [Requests -> Nat] /\ done[r] \in Nat /\ wire \subseteq Requests
    BY InvParts DEF TypeOK
  <1>2. call[r].op \in Ops
    BY <1>1 DEF Calls
  <1> QED BY <1>1, <1>2, InvParts, OpFacts

\* A step of one request, whatever it does to its own call, keeps the
\* invariant when it keeps that request's.
LEMMA OneMoves ==
    ASSUME GatewayInv, NEW r \in Requests, NEW c \in Calls,
           call' = [call EXCEPT ![r] = c],
           UNCHANGED <<clients, now, token, tokenExp, expires>>,
           mu' \in Requests \cup {Free}, wire' \subseteq Requests,
           done' \in [Requests -> Nat],
           \A q \in Requests \ {r} : done'[q] = done[q] /\ (q \in wire' <=> q \in wire),
           CallOK(c, done'[r], r \in wire'), TimeOK(c)
    PROVE  GatewayInv'
  <1>1. call \in [Requests -> Calls] /\ TypeOK /\ TokenInv
    BY InvParts DEF TypeOK
  <1>2. call' \in [Requests -> Calls] /\ call'[r] = c
        /\ \A q \in Requests \ {r} : call'[q] = call[q]
    BY <1>1
  <1>3. TypeOK' /\ TokenInv'
    BY <1>1, <1>2 DEF TypeOK, TokenInv
  <1>4. ASSUME NEW q \in Requests PROVE CallOK(call'[q], done'[q], q \in wire')
    <2>1. CASE q = r
      BY <1>2, <2>1
    <2>2. CASE q # r
      <3>1. call'[q] = call[q] /\ done'[q] = done[q] /\ (q \in wire') = (q \in wire)
        BY <1>2, <2>2
      <3>2. CallOK(call[q], done[q], q \in wire)
        BY InvParts
      <3> QED BY <3>1, <3>2
    <2> QED BY <2>1, <2>2
  <1>5. ASSUME NEW q \in Requests PROVE TimeOK(call[q])'
    <2>1. TimeOK(call[q]) \/ q = r
      BY InvParts
    <2> QED BY <1>2, <2>1, InvParts DEF TimeOK
  <1> QED BY <1>3, <1>4, <1>5, InvPartsNext

\* The same for a step that reaches no tool.
LEMMA OneMovesQuietly ==
    ASSUME GatewayInv, NEW r \in Requests, NEW c \in Calls,
           call' = [call EXCEPT ![r] = c],
           UNCHANGED <<clients, now, token, tokenExp, expires, wire, done>>,
           mu' \in Requests \cup {Free},
           CallOK(c, done[r], r \in wire), TimeOK(c)
    PROVE  GatewayInv'
  BY OneMoves, CallFacts

-----------------------------------------------------------------------------
(* The handlers *)

\* What Answer does to a call.
Answering(c, code) ==
    [c EXCEPT !.pc = "answered", !.code = code, !.deadline = 0, !.reply = "none"]

LEMMA AnsweringFacts ==
    ASSUME NEW c \in Calls, NEW code \in Codes
    PROVE  LET a == Answering(c, code)
           IN  /\ a \in Calls
               /\ a.pc = "answered" /\ a.code = code /\ a.deadline = 0 /\ a.reply = "none"
               /\ a.op = c.op /\ a.ok = c.ok /\ a.checks = c.checks
  BY DEF Answering, Calls

\* An answer keeps the invariant when it is true and all checks are in.
LEMMA AnswerKeeps ==
    ASSUME GatewayInv, NEW r \in Requests, NEW code \in Codes,
           call' = Answer(r, code),
           UNCHANGED <<clients, now, token, tokenExp, expires, wire, done>>,
           mu' \in Requests \cup {Free},
           call[r].checks = {},
           code \in {200, 201} /\ call[r].op.acts => done[r] > 0,
           code \in {400, 422, 503} => done[r] = 0 /\ r \notin wire
    PROVE  GatewayInv'
  <1> DEFINE a == Answering(call[r], code)
  <1>1. /\ call[r] \in Calls /\ CallOK(call[r], done[r], r \in wire)
    BY CallFacts
  <1>2. /\ a \in Calls
        /\ a.pc = "answered" /\ a.code = code /\ a.deadline = 0 /\ a.reply = "none"
        /\ a.op = call[r].op /\ a.ok = call[r].ok /\ a.checks = call[r].checks
    BY <1>1, AnsweringFacts
  <1>3. call' = [call EXCEPT ![r] = a]
    BY DEF Answer, Answering
  <1> HIDE DEF a
  <1>4. CallOK(a, done[r], r \in wire)
    BY <1>1, <1>2 DEF CallOK
  <1>5. now \in Nat /\ Timeout \in Nat
    BY TimesAssumption, InvParts DEF TypeOK
  <1>6. TimeOK(a)
    BY <1>2, <1>5 DEF TimeOK
  <1> QED BY <1>2, <1>3, <1>4, <1>6, OneMovesQuietly

\* A request that has not begun may be answered with anything.
LEMMA IdleFacts ==
    ASSUME GatewayInv, NEW r \in Requests, call[r].pc = "idle"
    PROVE  /\ call[r].checks = {} /\ ~call[r].op.acts /\ done[r] = 0 /\ r \notin wire
  <1>1. CallOK(call[r], done[r], r \in wire)
    BY CallFacts
  <1>2. call[r] = Idle /\ done[r] = 0 /\ r \notin wire
    BY <1>1 DEF CallOK
  <1> QED BY <1>2, OpFacts DEF Idle

LEMMA RefuseKeeps ==
    ASSUME GatewayInv, NEW r \in Requests, call[r].pc = "idle", NEW code \in Codes,
           Refuse(r, code)
    PROVE  GatewayInv'
  <1>1. mu' \in Requests \cup {Free}
    BY InvParts DEF TypeOK, Refuse
  <1> QED BY <1>1, IdleFacts, AnswerKeeps DEF Refuse

\* CallClient and healthAll begin with a call that nothing has happened to.
LEMMA IdleTyped ==
    /\ Idle \in Calls /\ Idle.reply = "none" /\ Idle.ok = 0 /\ Idle.checks = {}
    /\ ~Idle.op.acts
  <1>1. PICK none \in Ops : none = Read("none") /\ ~none.acts
    BY OpFacts
  <1>2. Idle = [pc |-> "idle", op |-> none, ok |-> 0, tok |-> 0, deadline |-> 0,
                reply |-> "none", code |-> 0, checks |-> {}]
    BY <1>1 DEF Idle
  <1> QED BY <1>1, <1>2 DEF Calls

CallStart(idle, pc, op, ok, deadline) ==
    [idle EXCEPT !.pc = pc, !.op = op, !.ok = ok, !.deadline = deadline]

HealthStart(idle, pc, op, deadline, checks) ==
    [idle EXCEPT !.pc = pc, !.op = op, !.deadline = deadline, !.checks = checks]

LEMMA CallStartFacts ==
    ASSUME NEW pc \in {"lock", "ready", "join"}, NEW op \in Ops, NEW ok \in {200, 201},
           NEW deadline \in Nat, NEW idle \in Calls
    PROVE  LET c == CallStart(idle, pc, op, ok, deadline)
           IN  /\ c \in Calls
               /\ c.pc = pc /\ c.op = op /\ c.ok = ok /\ c.deadline = deadline
               /\ c.checks = idle.checks /\ c.reply = idle.reply
  BY DEF Calls, CallStart

LEMMA HealthStartFacts ==
    ASSUME NEW pc \in {"lock", "ready", "join"}, NEW op \in Ops,
           NEW deadline \in Nat, NEW checks \in SUBSET Clients, NEW idle \in Calls
    PROVE  LET c == HealthStart(idle, pc, op, deadline, checks)
           IN  /\ c \in Calls
               /\ c.pc = pc /\ c.op = op /\ c.ok = idle.ok /\ c.deadline = deadline
               /\ c.checks = checks /\ c.reply = idle.reply
  BY DEF Calls, HealthStart

\* A call that starts, as a handler's or as the health check's.
LEMMA StartKeeps ==
    ASSUME GatewayInv, NEW r \in Requests, call[r].pc = "idle", NEW c \in Calls,
           c.pc \in {"lock", "ready", "join"}, c.reply = "none",
           c.deadline = now + Timeout,
           c.pc = "ready" => c.op.api # "wazuh",
           c.pc = "join" => c.ok = 0,
           c.ok = 0 => ~c.op.acts,
           c.ok # 0 => c.checks = {},
           call' = [call EXCEPT ![r] = c],
           UNCHANGED <<clients, now, mu, token, tokenExp, expires, wire, done>>
    PROVE  GatewayInv'
  <1>0. now \in Nat /\ Timeout \in Nat /\ mu \in Requests \cup {Free}
    BY TimesAssumption, InvParts DEF TypeOK
  <1>3. done[r] = 0 /\ r \notin wire
    BY IdleFacts
  <1>4. CallOK(c, done[r], r \in wire)
    BY <1>3 DEF CallOK
  <1>5. TimeOK(c)
    BY <1>0 DEF TimeOK
  <1> QED BY <1>0, <1>4, <1>5, OneMovesQuietly

LEMMA RegisterKeeps ==
    ASSUME GatewayInv, NEW r \in Requests, RegisterRoutes(r)
    PROVE  GatewayInv'
  <1>1. ASSUME NEW route \in RouteSet,
               \/ NotConfigured(r, route) \/ BadRequest(r, route) \/ NoUpstream(r, route)
               \/ ListLocal(r, route)
        PROVE  GatewayInv'
    <2>1. SoundRoute(route)
      BY RoutesAssumption, AllRoutes
    <2>2. PICK code \in Codes : Refuse(r, code)
      BY <1>1, <2>1 DEF SoundRoute, Codes, NotConfigured, BadRequest, NoUpstream, ListLocal
    <2>3. call[r].pc = "idle"
      BY <1>1 DEF NotConfigured, BadRequest, NoUpstream, ListLocal
    <2> QED BY <2>2, <2>3, RefuseKeeps
  <1>2. ASSUME NEW route \in RouteSet, CallClient(r, route)
        PROVE  GatewayInv'
    <2>1. SoundRoute(route) /\ route.op \in Ops
      BY RoutesAssumption, AllRoutes DEF Ops
    <2> DEFINE pc == IF route.op.api = "wazuh" THEN "lock" ELSE "ready"
               c  == CallStart(Idle, pc, route.op, route.ok, now + Timeout)
    <2>2. /\ call[r].pc = "idle"
          /\ call' = [call EXCEPT ![r] = c]
          /\ UNCHANGED <<clients, now, mu, token, tokenExp, expires, wire, done>>
      BY <1>2 DEF CallClient, CallStart
    <2>3. pc \in {"lock", "ready", "join"} /\ (pc = "ready" => route.op.api # "wazuh")
          /\ pc # "join"
      OBVIOUS
    <2>4. route.ok \in {200, 201} /\ route.ok # 0
      BY <2>1 DEF SoundRoute
    <2>5. now + Timeout \in Nat
      BY TimesAssumption, InvParts DEF TypeOK
    <2> HIDE DEF pc
    <2>6. /\ c \in Calls /\ c.pc = pc /\ c.op = route.op /\ c.ok = route.ok
          /\ c.deadline = now + Timeout /\ c.checks = {} /\ c.reply = "none"
      BY <2>1, <2>3, <2>4, <2>5, IdleTyped, CallStartFacts
    <2> HIDE DEF c
    <2> QED BY <2>2, <2>3, <2>4, <2>6, StartKeeps
  <1>3. CASE healthAll(r)
    <2> DEFINE pc == IF "wazuh" \in clients THEN "lock" ELSE "join"
               op == Read(IF "wazuh" \in clients THEN "wazuh" ELSE "none")
               checks == clients \ {"otx"}
               c == HealthStart(Idle, pc, op, now + Timeout, checks)
    <2>1. /\ call[r].pc = "idle"
          /\ call' = [call EXCEPT ![r] = c]
          /\ UNCHANGED <<clients, now, mu, token, tokenExp, expires, wire, done>>
      BY <1>3 DEF healthAll, HealthStart
    <2>2. op \in Ops /\ ~op.acts
      BY OpFacts
    <2>3. checks \in SUBSET Clients
      BY ConfigsAssumption, InvParts DEF TypeOK
    <2>4. pc \in {"lock", "ready", "join"} /\ pc # "ready"
      OBVIOUS
    <2>5. now + Timeout \in Nat
      BY TimesAssumption, InvParts DEF TypeOK
    <2> HIDE DEF pc, op, checks
    <2>6. /\ c \in Calls /\ c.pc = pc /\ c.op = op /\ c.ok = 0
          /\ c.deadline = now + Timeout /\ c.reply = "none"
      BY <2>2, <2>3, <2>4, <2>5, IdleTyped, HealthStartFacts
    <2> HIDE DEF c
    <2> QED BY <2>1, <2>2, <2>4, <2>6, StartKeeps
  <1> QED BY <1>1, <1>2, <1>3 DEF RegisterRoutes

-----------------------------------------------------------------------------
(* The goroutines *)

WithPc(c, pc) == [c EXCEPT !.pc = pc]
WithTok(c, pc, tok) == [c EXCEPT !.pc = pc, !.tok = tok]
WithReply(c, reply) == [c EXCEPT !.reply = reply]
WithChecks(c, checks) == [c EXCEPT !.checks = checks]
Joining(c) == [c EXCEPT !.pc = "join", !.reply = "none", !.checks = c.checks \ {"wazuh"}]

LEMMA PcFacts ==
    ASSUME NEW c \in Calls, NEW pc \in {"login", "ready"}
    PROVE  LET m == WithPc(c, pc)
           IN  /\ m \in Calls
               /\ m.pc = pc
               /\ m.op = c.op /\ m.ok = c.ok /\ m.deadline = c.deadline
               /\ m.reply = c.reply /\ m.checks = c.checks
  BY DEF WithPc, Calls

LEMMA ChecksFacts ==
    ASSUME NEW c \in Calls, NEW checks \in SUBSET Clients
    PROVE  LET m == WithChecks(c, checks)
           IN  /\ m \in Calls
               /\ m.pc = c.pc /\ m.op = c.op /\ m.ok = c.ok /\ m.tok = c.tok
               /\ m.deadline = c.deadline /\ m.reply = c.reply /\ m.code = c.code
  BY DEF WithChecks, Calls

LEMMA TokFacts ==
    ASSUME NEW c \in Calls, NEW pc \in {"decode", "sent"}, NEW tok \in Int
    PROVE  LET m == WithTok(c, pc, tok)
           IN  /\ m \in Calls
               /\ m.pc = pc /\ m.tok = tok
               /\ m.op = c.op /\ m.ok = c.ok /\ m.deadline = c.deadline
               /\ m.reply = c.reply /\ m.checks = c.checks
  BY DEF WithTok, Calls

LEMMA ReplyFacts ==
    ASSUME NEW c \in Calls, NEW reply \in {"none", "good", "bad"}
    PROVE  LET m == WithReply(c, reply)
           IN  /\ m \in Calls
               /\ m.reply = reply
               /\ m.pc = c.pc /\ m.op = c.op /\ m.ok = c.ok /\ m.tok = c.tok
               /\ m.deadline = c.deadline /\ m.code = c.code /\ m.checks = c.checks
  BY DEF WithReply, Calls

LEMMA JoiningFacts ==
    ASSUME NEW c \in Calls
    PROVE  LET m == Joining(c)
           IN  /\ m \in Calls
               /\ m.pc = "join" /\ m.reply = "none"
               /\ m.op = c.op /\ m.ok = c.ok /\ m.deadline = c.deadline
  BY DEF Joining, Calls

\* A client method that returns, with or without a success.
LEMMA ReturnedKeeps ==
    ASSUME GatewayInv, NEW r \in Requests, NEW good \in BOOLEAN,
           call' = Returned(r, good),
           UNCHANGED <<clients, now, token, tokenExp, expires, wire, done>>,
           mu' \in Requests \cup {Free},
           good /\ call[r].op.acts => done[r] > 0
    PROVE  GatewayInv'
  <1>1. call[r] \in Calls /\ CallOK(call[r], done[r], r \in wire) /\ TimeOK(call[r])
    BY CallFacts
  <1>2. CASE call[r].ok = 0
    <2> DEFINE c == Joining(call[r])
    <2>1. call' = [call EXCEPT ![r] = c]
      BY <1>2 DEF Returned, Joining
    <2>2. /\ c \in Calls /\ c.pc = "join" /\ c.reply = "none"
          /\ c.op = call[r].op /\ c.ok = call[r].ok /\ c.deadline = call[r].deadline
      BY <1>1, JoiningFacts
    <2> HIDE DEF c
    <2>3. CallOK(c, done[r], r \in wire)
      BY <1>1, <1>2, <2>2 DEF CallOK
    <2>4. TimeOK(c)
      BY <1>1, <2>2 DEF TimeOK
    <2> QED BY <2>1, <2>2, <2>3, <2>4, OneMovesQuietly
  <1>3. CASE call[r].ok # 0
    <2>1. call[r].ok \in {200, 201}
      BY <1>1, <1>3 DEF Calls
    <2>2. call[r].checks = {}
      BY <1>1, <1>3 DEF CallOK
    <2>3. PICK code \in {200, 201, 502} :
             /\ call' = Answer(r, code)
             /\ code = IF good THEN call[r].ok ELSE 502
      BY <1>3, <2>1 DEF Returned
    <2>4. code \in Codes /\ code \notin {400, 422, 503}
      BY DEF Codes
    <2>5. code \in {200, 201} /\ call[r].op.acts => done[r] > 0
      BY <2>3
    <2> QED BY <2>2, <2>3, <2>4, <2>5, AnswerKeeps
  <1> QED BY <1>2, <1>3

LEMMA HealthKeeps ==
    ASSUME GatewayInv, NEW r \in Requests, HealthCheck(r) \/ HealthJoin(r)
    PROVE  GatewayInv'
  <1>1. call[r] \in Calls /\ CallOK(call[r], done[r], r \in wire) /\ TimeOK(call[r])
    BY CallFacts
  <1>2. mu \in Requests \cup {Free}
    BY InvParts DEF TypeOK
  <1>3. CASE HealthCheck(r)
    <2>1. PICK x \in call[r].checks : call' = [call EXCEPT ![r].checks = @ \ {x}]
      BY <1>3 DEF HealthCheck
    <2> DEFINE c == WithChecks(call[r], call[r].checks \ {x})
    <2>2. call[r].checks \ {x} \in SUBSET Clients
      BY <1>1 DEF Calls
    <2>3. /\ c \in Calls
          /\ c.pc = call[r].pc /\ c.op = call[r].op /\ c.ok = call[r].ok
          /\ c.tok = call[r].tok /\ c.deadline = call[r].deadline
          /\ c.reply = call[r].reply /\ c.code = call[r].code
      BY <1>1, <2>2, ChecksFacts
    <2>4. call' = [call EXCEPT ![r] = c]
      BY <2>1 DEF WithChecks
    <2> HIDE DEF c
    <2>5. call[r].pc \notin {"idle", "answered"} /\ call[r].ok = 0
      BY <1>1, IdleFacts DEF CallOK
    <2>6. CallOK(c, done[r], r \in wire)
      BY <1>1, <2>3, <2>5 DEF CallOK
    <2>7. TimeOK(c)
      BY <1>1, <2>3 DEF TimeOK
    <2> QED BY <1>2, <1>3, <2>3, <2>4, <2>6, <2>7, OneMovesQuietly DEF HealthCheck
  <1>4. CASE HealthJoin(r)
    <2>1. ~call[r].op.acts
      BY <1>1, <1>4 DEF CallOK, HealthJoin
    <2>2. 200 \in Codes /\ 200 \notin {400, 422, 503}
      BY DEF Codes
    <2> QED BY <1>2, <1>4, <2>1, <2>2, AnswerKeeps DEF HealthJoin, Refuse
  <1> QED BY <1>3, <1>4

\* authenticate: the lock is taken, the cached token is used, or the login fails.
LEMMA AuthKeeps ==
    ASSUME GatewayInv, NEW r \in Requests, AuthCached(r) \/ AuthLogin(r) \/ AuthFails(r)
    PROVE  GatewayInv'
  <1>1. call[r] \in Calls /\ CallOK(call[r], done[r], r \in wire) /\ TimeOK(call[r])
    BY CallFacts
  <1>2. /\ mu \in Requests \cup {Free} /\ now \in Nat /\ tokenExp \in Nat /\ Timeout \in Nat
        /\ call[r].deadline \in Nat
    BY <1>1, TimesAssumption, InvParts DEF TypeOK, Calls
  <1>3. ASSUME NEW pc \in {"login", "ready"}, call[r].pc = "lock",
               call' = [call EXCEPT ![r].pc = pc],
               UNCHANGED <<clients, now, token, tokenExp, expires, wire, done>>,
               mu' \in Requests \cup {Free},
               pc = "ready" => token # 0 /\ now < tokenExp
        PROVE  GatewayInv'
    <2> DEFINE c == WithPc(call[r], pc)
    <2>1. call' = [call EXCEPT ![r] = c]
      BY <1>3 DEF WithPc
    <2>2. /\ c \in Calls /\ c.pc = pc
          /\ c.op = call[r].op /\ c.ok = call[r].ok /\ c.deadline = call[r].deadline
          /\ c.reply = call[r].reply /\ c.checks = call[r].checks
      BY <1>1, PcFacts
    <2> HIDE DEF c
    <2>3. CallOK(c, done[r], r \in wire)
      BY <1>1, <1>3, <2>2 DEF CallOK
    <2>4. TimeOK(c)
      BY <1>1, <1>2, <1>3, <2>2 DEF TimeOK
    <2> QED BY <1>3, <2>1, <2>2, <2>3, <2>4, OneMovesQuietly
  <1>4. CASE AuthCached(r)
    BY <1>2, <1>3, <1>4 DEF AuthCached
  <1>5. CASE AuthLogin(r)
    BY <1>3, <1>5 DEF AuthLogin
  <1>6. CASE AuthFails(r)
    BY <1>6, ReturnedKeeps DEF AuthFails
  <1> QED BY <1>4, <1>5, <1>6

\* The types of what the clock and the tokens are compared with.
LEMMA NumberFacts ==
    ASSUME GatewayInv
    PROVE  /\ now \in Nat /\ tokenExp \in Nat /\ expires \in Seq(Nat)
           /\ token \in 0..Len(expires) /\ mu \in Requests \cup {Free}
           /\ Timeout \in Nat /\ CacheTTL \in Nat /\ CacheTTL >= 1 /\ TokenTTL \in Nat
           /\ CacheTTL + Timeout + Timeout <= TokenTTL
           /\ \A i \in 1..Len(expires) : expires[i] \in Nat
           /\ \A r \in Requests : call[r].deadline \in Nat /\ call[r].tok \in Int
  <1>1. /\ now \in Nat /\ tokenExp \in Nat /\ expires \in Seq(Nat)
        /\ token \in 0..Len(expires) /\ mu \in Requests \cup {Free}
        /\ call \in [Requests -> Calls]
    BY InvParts, TimesAssumption DEF TypeOK
  <1>2. /\ Timeout \in Nat /\ CacheTTL \in Nat /\ CacheTTL >= 1 /\ TokenTTL \in Nat
        /\ CacheTTL + Timeout + Timeout <= TokenTTL
    BY TimesAssumption
  <1>3. \A r \in Requests : call[r].deadline \in Nat /\ call[r].tok \in Int
    BY <1>1 DEF Calls
  <1> QED BY <1>1, <1>2, <1>3

\* The manager's token outlives every use of it that can follow this login.
LEMMA ManagerLoginKeeps ==
    ASSUME GatewayInv, NEW r \in Requests, ManagerLogin(r)
    PROVE  GatewayInv'
  <1>1. call[r] \in Calls /\ CallOK(call[r], done[r], r \in wire) /\ TimeOK(call[r])
    BY CallFacts
  <1>2. PICK n \in Nat : n = Len(expires) + 1
    BY NumberFacts
  <1>3. PICK e \in Nat : e = now + TokenTTL
    BY NumberFacts
  <1> DEFINE c == WithTok(call[r], "decode", n)
  <1>4. /\ c \in Calls /\ c.pc = "decode" /\ c.tok = n
        /\ c.op = call[r].op /\ c.ok = call[r].ok /\ c.deadline = call[r].deadline
        /\ c.reply = call[r].reply /\ c.checks = call[r].checks
    <2>1. n \in Int
      OBVIOUS
    <2> QED BY <1>1, <2>1, TokFacts
  <1>5. /\ call' = [call EXCEPT ![r] = c]
        /\ call[r].pc = "login" /\ now <= call[r].deadline
        /\ expires' = Append(expires, e)
        /\ UNCHANGED <<clients, now, mu, token, tokenExp, wire, done>>
    BY <1>2, <1>3 DEF ManagerLogin, WithTok
  <1> HIDE DEF c
  <1>6. /\ call' \in [Requests -> Calls] /\ call'[r] = c
        /\ \A q \in Requests \ {r} : call'[q] = call[q]
    BY <1>4, <1>5, CallFacts
  <1>7. /\ expires' \in Seq(Nat) /\ Len(expires') = n /\ expires'[n] = e
        /\ \A i \in 1..Len(expires) : i \in 1..n /\ expires'[i] = expires[i]
    BY <1>2, <1>5, NumberFacts
  <1>8. TypeOK'
    <2>1. token' \in 0..Len(expires')
      BY <1>2, <1>5, <1>7, NumberFacts
    <2> QED BY <2>1, <1>5, <1>6, <1>7, InvParts DEF TypeOK
  <1>9. TokenInv'
    <2>1. TokenInv /\ (token # 0 => token \in 1..Len(expires))
      BY InvParts, NumberFacts
    <2> QED BY <2>1, <1>5, <1>7 DEF TokenInv
  <1>10. ASSUME NEW q \in Requests PROVE CallOK(call'[q], done'[q], q \in wire')
    <2>1. CallOK(c, done[r], r \in wire)
      BY <1>1, <1>4, <1>5 DEF CallOK
    <2>2. CASE q = r
      BY <1>5, <1>6, <2>1, <2>2
    <2>3. CASE q # r
      BY <1>5, <1>6, <2>3, InvParts
    <2> QED BY <2>2, <2>3
  <1>11. ASSUME NEW q \in Requests PROVE TimeOK(call[q])'
    <2>1. CASE q = r
      <3>1. c.deadline - Timeout + TokenTTL <= e /\ now <= c.deadline
            /\ c.deadline <= now + Timeout /\ n \in 1..Len(expires')
        BY <1>1, <1>2, <1>3, <1>4, <1>5, <1>7, NumberFacts DEF TimeOK
      <3> QED BY <3>1, <1>4, <1>5, <1>6, <1>7, <2>1 DEF TimeOK
    <2>2. CASE q # r
      <3>1. TimeOK(call[q]) /\ call'[q] = call[q]
        BY <1>6, <2>2, InvParts
      <3>2. call[q].tok \in 1..Len(expires) =>
               call[q].tok \in 1..Len(expires') /\ expires'[call[q].tok] = expires[call[q].tok]
        BY <1>7
      <3> QED BY <3>1, <3>2, <1>5 DEF TimeOK
    <2> QED BY <2>1, <2>2
  <1> QED BY <1>8, <1>9, <1>10, <1>11, InvPartsNext

\* The token is cached: whoever is about to use the cache may use it.
LEMMA AuthStoresKeeps ==
    ASSUME GatewayInv, NEW r \in Requests, AuthStores(r)
    PROVE  GatewayInv'
  <1>1. call[r] \in Calls /\ CallOK(call[r], done[r], r \in wire) /\ TimeOK(call[r])
    BY CallFacts
  <1> DEFINE c == WithPc(call[r], "ready")
  <1>2. /\ c \in Calls /\ c.pc = "ready"
        /\ c.op = call[r].op /\ c.ok = call[r].ok /\ c.deadline = call[r].deadline
        /\ c.reply = call[r].reply /\ c.checks = call[r].checks
    BY <1>1, PcFacts
  <1>3. /\ call' = [call EXCEPT ![r] = c]
        /\ call[r].pc = "decode" /\ token' = call[r].tok /\ tokenExp' = now + CacheTTL
        /\ mu' = Free
        /\ UNCHANGED <<clients, now, expires, wire, done>>
    BY DEF AuthStores, WithPc
  <1> HIDE DEF c
  <1>4. /\ call' \in [Requests -> Calls] /\ call'[r] = c
        /\ \A q \in Requests \ {r} : call'[q] = call[q]
    BY <1>2, <1>3, CallFacts
  <1>5. /\ now <= call[r].deadline /\ call[r].tok \in 1..Len(expires)
        /\ \/ expires[call[r].tok] = 0
           \/ call[r].deadline - Timeout + TokenTTL <= expires[call[r].tok]
    BY <1>1, <1>3 DEF TimeOK
  <1>6. token' \in 0..Len(expires) /\ token' # 0 /\ tokenExp' \in Nat
    <2>1. \A n \in Nat : \A i \in 1..n : i \in 0..n /\ i # 0
      OBVIOUS
    <2>2. Len(expires) \in Nat
      BY NumberFacts
    <2>3. call[r].tok \in 0..Len(expires) /\ call[r].tok # 0
      BY <1>5, <2>1, <2>2
    <2>4. now + CacheTTL \in Nat
      BY NumberFacts
    <2> QED BY <1>3, <2>3, <2>4
  <1>7. TypeOK'
    BY <1>3, <1>4, <1>6, InvParts DEF TypeOK
  <1>8. TokenInv'
    <2>1. PICK d \in Nat : d = call[r].deadline /\ now <= d
      BY <1>5, NumberFacts
    <2>2. now + CacheTTL + Timeout <= d - Timeout + TokenTTL
      BY <2>1, NumberFacts
    <2>3. PICK e \in Nat : e = expires[call[r].tok]
      BY <1>5, NumberFacts
    <2>4. e = 0 \/ d - Timeout + TokenTTL <= e
      BY <1>5, <2>1, <2>3
    <2>5. e = 0 \/ now + CacheTTL + Timeout <= e
      BY <2>2, <2>4, NumberFacts
    <2> QED BY <1>3, <2>3, <2>5 DEF TokenInv
  <1>9. ASSUME NEW q \in Requests PROVE CallOK(call'[q], done'[q], q \in wire')
    <2>1. CallOK(c, done[r], r \in wire)
      BY <1>1, <1>2, <1>3 DEF CallOK
    <2>2. CASE q = r
      BY <1>3, <1>4, <2>1, <2>2
    <2>3. CASE q # r
      BY <1>3, <1>4, <2>3, InvParts
    <2> QED BY <2>2, <2>3
  <1>10. ASSUME NEW q \in Requests PROVE TimeOK(call[q])'
    <2>1. call'[q].deadline = call[q].deadline
          /\ (call'[q].pc = "decode" => call'[q] = call[q])
      BY <1>2, <1>4
    <2>2. TimeOK(call[q]) /\ call[q].deadline \in Nat
      BY InvParts, NumberFacts
    <2>3. call[q].deadline <= now + Timeout
      BY <2>2 DEF TimeOK
    <2>4. call[q].deadline < (now + CacheTTL) + Timeout
      BY <2>2, <2>3, NumberFacts
    <2> QED BY <1>3, <1>6, <2>1, <2>2, <2>3, <2>4 DEF TimeOK
  <1> QED BY <1>7, <1>8, <1>9, <1>10, InvPartsNext

LEMMA SendKeeps ==
    ASSUME GatewayInv, NEW r \in Requests, Send(r)
    PROVE  GatewayInv'
  <1>1. call[r] \in Calls /\ CallOK(call[r], done[r], r \in wire) /\ TimeOK(call[r])
    BY CallFacts
  <1>2. PICK t \in ReadToken(r) : call' = [call EXCEPT ![r].pc = "sent", ![r].tok = t]
    BY DEF Send
  <1>3. t \in Int
    BY NumberFacts DEF ReadToken, Torn
  <1> DEFINE c == WithTok(call[r], "sent", t)
  <1>4. /\ c \in Calls /\ c.pc = "sent"
        /\ c.op = call[r].op /\ c.ok = call[r].ok /\ c.deadline = call[r].deadline
        /\ c.reply = call[r].reply /\ c.checks = call[r].checks
    BY <1>1, <1>3, TokFacts
  <1>5. call' = [call EXCEPT ![r] = c]
    BY <1>2 DEF WithTok
  <1> HIDE DEF c
  <1>6. /\ call[r].pc = "ready" /\ wire' = wire \cup {r}
        /\ UNCHANGED <<clients, now, mu, token, tokenExp, expires, done>>
    BY DEF Send
  <1>7. CallOK(c, done'[r], r \in wire')
    BY <1>1, <1>4, <1>6 DEF CallOK
  <1>8. TimeOK(c)
    BY <1>1, <1>4 DEF TimeOK
  <1> QED BY <1>4, <1>5, <1>6, <1>7, <1>8, OneMoves, CallFacts, NumberFacts

-----------------------------------------------------------------------------
(* The tools *)

\* The answer of a tool reaches the call only while the client waits.
LEMMA AnsweredFacts ==
    ASSUME GatewayInv, NEW r \in Requests, NEW good, call' = Answered(r, good)
    PROVE  \E reply \in {"none", "good", "bad"} :
              /\ call' = [call EXCEPT ![r] = WithReply(call[r], reply)]
              /\ reply = "good" => good \/ call[r].reply = "good"
  <1>1. call[r].reply \in {"none", "good", "bad"}
    BY CallFacts DEF Calls
  <1> DEFINE reply == IF call[r].pc = "sent" /\ call[r].reply = "none"
                        THEN IF good THEN "good" ELSE "bad"
                        ELSE call[r].reply
  <1>2. call' = [call EXCEPT ![r] = WithReply(call[r], reply)]
    BY DEF Answered, WithReply
  <1>3. reply \in {"none", "good", "bad"} /\ (reply = "good" => good \/ call[r].reply = "good")
    BY <1>1
  <1> HIDE DEF reply
  <1> QED BY <1>2, <1>3

\* A tool that acts, or refuses: the reply of a call that acts is not good
\* unless the tool acted.
LEMMA ToolKeeps ==
    ASSUME GatewayInv, NEW r \in Requests, ToolDoes(r) \/ ToolRefuses(r)
    PROVE  GatewayInv'
  <1>1. /\ call[r] \in Calls /\ CallOK(call[r], done[r], r \in wire) /\ TimeOK(call[r])
        /\ done \in [Requests -> Nat] /\ done[r] \in Nat /\ wire \subseteq Requests
        /\ SoundOp(call[r].op)
    BY CallFacts
  <1>2. /\ r \in wire /\ wire' = wire \ {r}
        /\ UNCHANGED <<clients, now, mu, token, tokenExp, expires>>
    BY DEF ToolDoes, ToolRefuses
  <1>3. /\ call[r].pc \notin {"idle", "lock", "login", "decode", "ready"} /\ done[r] = 0
        /\ call[r].reply = "good" => ~call[r].op.acts
    BY <1>1, <1>2 DEF CallOK
  <1>4. ASSUME NEW reply \in {"none", "good", "bad"}, NEW d \in Nat,
               call' = [call EXCEPT ![r] = WithReply(call[r], reply)],
               done' = [done EXCEPT ![r] = d],
               d <= 1, ~call[r].op.acts => d = 0,
               reply = "good" /\ call[r].op.acts => d = 1
        PROVE  GatewayInv'
    <2> DEFINE c == WithReply(call[r], reply)
    <2>1. /\ c \in Calls /\ c.reply = reply
          /\ c.pc = call[r].pc /\ c.op = call[r].op /\ c.ok = call[r].ok
          /\ c.tok = call[r].tok /\ c.deadline = call[r].deadline
          /\ c.code = call[r].code /\ c.checks = call[r].checks
      BY <1>1, ReplyFacts
    <2>2. call' = [call EXCEPT ![r] = c]
      BY <1>4
    <2> HIDE DEF c
    <2>3. /\ done' \in [Requests -> Nat] /\ done'[r] = d
          /\ \A q \in Requests \ {r} : done'[q] = done[q] /\ (q \in wire' <=> q \in wire)
          /\ wire' \subseteq Requests /\ r \notin wire'
      BY <1>1, <1>2, <1>4
    <2>4. CallOK(c, done'[r], r \in wire')
      <3>1. c.pc = "answered" =>
              /\ c.code \in {200, 201} /\ c.op.acts => d > 0
              /\ c.code \in {400, 422, 503} => d = 0 /\ r \notin wire'
              /\ c.checks = {}
        BY <1>1, <1>2, <1>3, <2>1 DEF CallOK
      <3>2. c.pc \notin {"idle", "lock", "login", "decode", "ready"}
        BY <1>3, <2>1
      <3>3. /\ c.pc = "join" => c.ok = 0
            /\ c.ok = 0 => ~c.op.acts
            /\ c.ok # 0 => c.checks = {}
        BY <1>1, <2>1 DEF CallOK
      <3>4. c.reply = "good" /\ c.op.acts => d > 0
        BY <1>4, <2>1
      <3> QED BY <1>4, <2>1, <2>3, <3>1, <3>2, <3>3, <3>4 DEF CallOK
    <2>5. TimeOK(c)
      BY <1>1, <2>1 DEF TimeOK
    <2> QED BY <1>2, <2>1, <2>2, <2>3, <2>4, <2>5, OneMoves, NumberFacts
  <1>5. CASE ToolDoes(r)
    <2>1. PICK reply \in RepliesDone(call[r].op.api) :
             call' = Answered(r, Accepts(call[r].op, reply))
      BY <1>5 DEF ToolDoes
    <2>2. PICK d \in Nat : d = IF call[r].op.acts THEN 1 ELSE 0
      OBVIOUS
    <2>3. done' = [done EXCEPT ![r] = d]
      BY <1>3, <1>5, <2>2 DEF ToolDoes
    <2>4. PICK new \in {"none", "good", "bad"} :
             call' = [call EXCEPT ![r] = WithReply(call[r], new)]
      BY <2>1, AnsweredFacts
    <2>5. d <= 1 /\ (~call[r].op.acts => d = 0) /\ (call[r].op.acts => d = 1)
      BY <2>2
    <2> QED BY <1>4, <2>3, <2>4, <2>5
  <1>6. CASE ToolRefuses(r)
    <2>1. PICK reply \in RepliesUndone(call[r].op.api) :
             call' = Answered(r, Accepts(call[r].op, reply))
      BY <1>6 DEF ToolRefuses
    <2>2. call[r].op \in Ops
      BY <1>1 DEF Calls
    <2>3. call[r].op.acts => ~Accepts(call[r].op, reply)
      BY <2>2, RefusalIsSeen
    <2> DEFINE good == Accepts(call[r].op, reply)
    <2>4. call' = Answered(r, good) /\ (call[r].op.acts => ~good)
      BY <2>1, <2>3
    <2> HIDE DEF good
    <2>5. PICK new \in {"none", "good", "bad"} :
             /\ call' = [call EXCEPT ![r] = WithReply(call[r], new)]
             /\ new = "good" => good \/ call[r].reply = "good"
      BY <2>4, AnsweredFacts
    <2>6. done' = [done EXCEPT ![r] = 0]
      BY <1>1, <1>3, <1>6 DEF ToolRefuses
    <2>7. new = "good" => ~call[r].op.acts
      BY <1>3, <2>4, <2>5
    <2>8. 0 \in Nat /\ 0 <= 1
      OBVIOUS
    <2> QED BY <1>4, <2>5, <2>6, <2>7, <2>8
  <1> QED BY <1>5, <1>6

\* net/http repeats only what does not act.
LEMMA ResendKeeps ==
    ASSUME GatewayInv, NEW r \in Requests, Resend(r)
    PROVE  GatewayInv'
  <1>1. /\ call[r] \in Calls /\ CallOK(call[r], done[r], r \in wire) /\ TimeOK(call[r])
        /\ SoundOp(call[r].op)
    BY CallFacts
  <1>2. /\ call[r].pc = "sent" /\ wire' = wire \cup {r}
        /\ UNCHANGED <<clients, now, mu, token, tokenExp, expires, done>>
    BY DEF Resend
  <1>3. ~call[r].op.acts
    BY <1>1 DEF SoundOp, Resend
  <1> DEFINE c == WithReply(call[r], "none")
  <1>4. /\ c \in Calls /\ c.reply = "none"
        /\ c.pc = call[r].pc /\ c.op = call[r].op /\ c.ok = call[r].ok
        /\ c.tok = call[r].tok /\ c.deadline = call[r].deadline
        /\ c.code = call[r].code /\ c.checks = call[r].checks
    BY <1>1, ReplyFacts
  <1>5. call' = [call EXCEPT ![r] = c]
    BY DEF Resend, WithReply
  <1> HIDE DEF c
  <1>6. CallOK(c, done'[r], r \in wire')
    BY <1>1, <1>2, <1>3, <1>4 DEF CallOK
  <1>7. TimeOK(c)
    BY <1>1, <1>4 DEF TimeOK
  <1> QED BY <1>2, <1>4, <1>5, <1>6, <1>7, OneMoves, CallFacts, NumberFacts

\* The client reads the answer, or gives up on it.
LEMMA ReceiveKeeps ==
    ASSUME GatewayInv, NEW r \in Requests, Receive(r) \/ CallFails(r)
    PROVE  GatewayInv'
  <1>1. CallOK(call[r], done[r], r \in wire) /\ mu \in Requests \cup {Free}
    BY CallFacts, NumberFacts
  <1>2. CASE Receive(r)
    <2>1. call' = Returned(r, call[r].reply = "good")
          /\ UNCHANGED <<clients, now, mu, token, tokenExp, expires, wire, done>>
      BY <1>2 DEF Receive
    <2>2. call[r].reply = "good" /\ call[r].op.acts => done[r] > 0
      BY <1>1 DEF CallOK
    <2> QED BY <1>1, <2>1, <2>2, ReturnedKeeps
  <1>3. CASE CallFails(r)
    BY <1>1, <1>3, ReturnedKeeps DEF CallFails
  <1> QED BY <1>2, <1>3

-----------------------------------------------------------------------------
(* The manager and the clock *)

LEMMA RestartKeeps == ASSUME GatewayInv, ManagerRestart PROVE GatewayInv'
  <1>1. /\ expires' = [i \in DOMAIN expires |-> 0]
        /\ UNCHANGED <<clients, now, mu, token, tokenExp, call, wire, done>>
    BY DEF ManagerRestart
  <1>2. DOMAIN expires = 1..Len(expires) /\ Len(expires) \in Nat
    BY NumberFacts
  <1>3. /\ expires' \in Seq(Nat) /\ Len(expires') = Len(expires)
        /\ \A i \in 1..Len(expires) : expires'[i] = 0
    BY <1>1, <1>2
  <1>4. TypeOK' /\ TokenInv'
    <2>1. token # 0 => token \in 1..Len(expires)
      BY NumberFacts
    <2> QED BY <2>1, <1>1, <1>3, InvParts DEF TypeOK, TokenInv
  <1>5. ASSUME NEW q \in Requests PROVE TimeOK(call[q])'
    <2>1. TimeOK(call[q])
      BY InvParts
    <2> QED BY <2>1, <1>1, <1>3 DEF TimeOK
  <1>6. ASSUME NEW q \in Requests PROVE CallOK(call'[q], done'[q], q \in wire')
    BY <1>1, InvParts
  <1> QED BY <1>4, <1>5, <1>6, InvPartsNext

LEMMA TickKeeps == ASSUME GatewayInv, Tick PROVE GatewayInv'
  <1>1. /\ now < MaxTime /\ now' = now + 1
        /\ \A r \in Requests :
              call[r].pc \in {"login", "decode", "sent"} => now < call[r].deadline
        /\ UNCHANGED <<clients, mu, token, tokenExp, expires, call, wire, done>>
    BY DEF Tick
  <1>2. TypeOK' /\ TokenInv'
    <2>1. now' \in 0..MaxTime
      BY <1>1, TimesAssumption, NumberFacts
    <2> QED BY <2>1, <1>1, InvParts DEF TypeOK, TokenInv
  <1>3. ASSUME NEW q \in Requests PROVE TimeOK(call[q])'
    <2>1. TimeOK(call[q]) /\ call[q].deadline \in Nat
      BY InvParts, NumberFacts
    <2>2. call[q].deadline <= (now + 1) + Timeout
      BY <2>1, NumberFacts DEF TimeOK
    <2>3. call[q].pc = "decode" => now + 1 <= call[q].deadline
      BY <2>1, <1>1, NumberFacts
    <2> QED BY <2>1, <2>2, <2>3, <1>1 DEF TimeOK
  <1>4. ASSUME NEW q \in Requests PROVE CallOK(call'[q], done'[q], q \in wire')
    BY <1>1, InvParts
  <1> QED BY <1>2, <1>3, <1>4, InvPartsNext

LEMMA InitKeeps == Init => GatewayInv
  <1> SUFFICES ASSUME Init PROVE GatewayInv
    OBVIOUS
  <1>1. \A r \in Requests : call[r] = Idle /\ done[r] = 0 /\ r \notin wire
    BY DEF Init
  <1>2. TypeOK
    BY IdleTyped, TimesAssumption DEF Init, initIntegrations, TypeOK
  <1>3. TokenInv
    BY DEF Init, TokenInv
  <1>4. Idle.pc = "idle" /\ Idle.deadline = 0
    BY DEF Idle
  <1>5. CallOK(Idle, 0, FALSE)
    BY <1>4, IdleTyped DEF CallOK
  <1>6. TimeOK(Idle)
    BY <1>4, TimesAssumption DEF Init, TimeOK
  <1>7. ASSUME NEW r \in Requests PROVE CallOK(call[r], done[r], r \in wire)
    <2>1. call[r] = Idle /\ done[r] = 0 /\ (r \in wire) = FALSE
      BY <1>1
    <2> QED BY <2>1, <1>5
  <1>8. ASSUME NEW r \in Requests PROVE TimeOK(call[r])
    BY <1>1, <1>6
  <1> QED BY <1>2, <1>3, <1>7, <1>8, InvParts

LEMMA NextKeeps == ASSUME GatewayInv, [Next]_vars PROVE GatewayInv'
  <1>1. ASSUME NEW r \in Requests,
               RegisterRoutes(r) \/ Step(r) \/ ManagerLogin(r)
                 \/ ToolDoes(r) \/ ToolRefuses(r) \/ Resend(r)
        PROVE  GatewayInv'
    <2>1. CASE RegisterRoutes(r)
      BY <2>1, RegisterKeeps
    <2>2. CASE Step(r)
      BY <2>2, HealthKeeps, AuthKeeps, AuthStoresKeeps, SendKeeps, ReceiveKeeps DEF Step
    <2>3. CASE ManagerLogin(r)
      BY <2>3, ManagerLoginKeeps
    <2>4. CASE ToolDoes(r) \/ ToolRefuses(r) \/ Resend(r)
      BY <2>4, ToolKeeps, ResendKeeps
    <2> QED BY <1>1, <2>1, <2>2, <2>3, <2>4
  <1>2. CASE UNCHANGED vars
    <2>1. ASSUME NEW q \in Requests PROVE CallOK(call'[q], done'[q], q \in wire')
      BY <1>2, InvParts DEF vars
    <2>2. ASSUME NEW q \in Requests PROVE TimeOK(call[q])'
      BY <1>2, InvParts DEF vars, TimeOK
    <2>3. TypeOK' /\ TokenInv'
      BY <1>2, InvParts DEF vars, TypeOK, TokenInv
    <2> QED BY <2>1, <2>2, <2>3, InvPartsNext
  <1> QED BY <1>1, <1>2, RestartKeeps, TickKeeps DEF Next

-----------------------------------------------------------------------------
(* The theorems *)

LEMMA GatewayInvariant == Spec => []GatewayInv
  <1>1. GatewayInv /\ [Next]_vars => GatewayInv'
    BY NextKeeps
  <1> QED BY <1>1, InitKeeps, PTL DEF Spec

\* Every variable keeps its type: the cached token, in particular, is always
\* one the manager has issued.
THEOREM GatewayTyped == Spec => []TypeOK
  <1>1. GatewayInv => TypeOK
    BY DEF GatewayInv
  <1> QED BY <1>1, GatewayInvariant, PTL

\* What a handler answers is what happened at the tool, for all routes and
\* all interleavings of requests, answers, deadlines and repeated GETs.
THEOREM AnswersAreTrue == Spec => []AnswersMatchTool
  <1>1. GatewayInv => AnswersMatchTool
    BY DEF GatewayInv, CallInv, AnswersMatchTool
  <1> QED BY <1>1, GatewayInvariant, PTL

\* No tool acts twice for one request.
THEOREM ActsOnce == Spec => []NeverTwice
  <1>1. GatewayInv => NeverTwice
    BY DEF GatewayInv, CallInv, NeverTwice
  <1> QED BY <1>1, GatewayInvariant, PTL

\* A step of one request leaves the others' calls alone.
LEMMA OthersStay ==
    ASSUME GatewayInv, NEW r \in Requests, NEW q \in Requests \ {r},
           RegisterRoutes(r) \/ Step(r) \/ ManagerLogin(r)
             \/ ToolDoes(r) \/ ToolRefuses(r) \/ Resend(r)
    PROVE  call'[q] = call[q]
  <1>1. call \in [Requests -> Calls]
    BY CallFacts
  <1>2. \A c : [call EXCEPT ![r] = c][q] = call[q]
    BY <1>1
  <1>3. \A code : Answer(r, code)[q] = call[q]
    BY <1>2 DEF Answer
  <1>4. \A good : Returned(r, good)[q] = call[q]
    BY <1>2, <1>3 DEF Returned
  <1>5. CASE RegisterRoutes(r)
    <2>1. ASSUME NEW route \in RouteSet,
                 NotConfigured(r, route) \/ BadRequest(r, route) \/ NoUpstream(r, route)
                   \/ ListLocal(r, route)
          PROVE  call'[q] = call[q]
      <3>1. \E code : Refuse(r, code)
        BY <2>1 DEF NotConfigured, BadRequest, NoUpstream, ListLocal
      <3> QED BY <1>3, <3>1 DEF Refuse
    <2>2. ASSUME NEW route \in RouteSet, CallClient(r, route) PROVE call'[q] = call[q]
      <3>1. \E c : call' = [call EXCEPT ![r] = c]
        BY <2>2 DEF CallClient
      <3> QED BY <1>2, <3>1
    <2>3. ASSUME healthAll(r) PROVE call'[q] = call[q]
      <3>1. \E c : call' = [call EXCEPT ![r] = c]
        BY <2>3 DEF healthAll
      <3> QED BY <1>2, <3>1
    <2> QED BY <1>5, <2>1, <2>2, <2>3 DEF RegisterRoutes
  <1>6. CASE Step(r)
    <2>1. CASE HealthCheck(r) \/ HealthJoin(r)
      BY <1>2, <1>3, <2>1 DEF HealthCheck, HealthJoin, Refuse
    <2>2. CASE AuthCached(r) \/ AuthLogin(r) \/ AuthStores(r) \/ Send(r)
      BY <1>2, <2>2 DEF AuthCached, AuthLogin, AuthStores, Send
    <2>3. CASE AuthFails(r) \/ Receive(r) \/ CallFails(r)
      BY <1>4, <2>3 DEF AuthFails, Receive, CallFails
    <2> QED BY <1>6, <2>1, <2>2, <2>3 DEF Step
  <1>7. CASE ManagerLogin(r) \/ ToolDoes(r) \/ ToolRefuses(r) \/ Resend(r)
    BY <1>2, <1>7 DEF ManagerLogin, ToolDoes, ToolRefuses, Resend, Answered
  <1> QED BY <1>5, <1>6, <1>7

\* A call that returns is not sent.
LEMMA ReturnedNotSent ==
    ASSUME GatewayInv, NEW r \in Requests, call' = Returned(r, FALSE)
    PROVE  call'[r].pc # "sent"
  <1>1. call \in [Requests -> Calls] /\ call[r] \in Calls
    BY CallFacts
  <1>2. CASE call[r].ok = 0
    <2>1. call' = [call EXCEPT ![r] = Joining(call[r])]
      BY <1>2 DEF Returned, Joining
    <2>2. Joining(call[r]).pc = "join"
      BY <1>1, JoiningFacts
    <2> QED BY <1>1, <2>1, <2>2
  <1>3. CASE call[r].ok # 0
    <2>1. call' = [call EXCEPT ![r] = Answering(call[r], 502)]
      BY <1>3 DEF Returned, Answer, Answering
    <2>2. Answering(call[r], 502).pc = "answered"
      BY <1>1, AnsweringFacts DEF Codes
    <2> QED BY <1>1, <2>1, <2>2
  <1> QED BY <1>2, <1>3

\* Only a Send moves a call from "ready" to "sent".
LEMMA OnlySend ==
    ASSUME GatewayInv, [Next]_vars, NEW q \in Requests,
           call[q].pc = "ready", call'[q].pc = "sent"
    PROVE  Send(q)
  <1>1. call[q] \in Calls /\ call \in [Requests -> Calls] /\ q \notin wire
    BY CallFacts DEF CallOK
  <1>2. ~(UNCHANGED call)
    OBVIOUS
  <1>3. PICK r \in Requests :
           RegisterRoutes(r) \/ Step(r) \/ ManagerLogin(r)
             \/ ToolDoes(r) \/ ToolRefuses(r) \/ Resend(r)
    BY <1>2 DEF Next, vars, ManagerRestart, Tick
  <1>4. r = q
    BY <1>3, OthersStay
  <1>5. ~RegisterRoutes(q)
    BY DEF RegisterRoutes, NotConfigured, BadRequest, NoUpstream, ListLocal, CallClient,
           healthAll
  <1>6. ~ManagerLogin(q) /\ ~ToolDoes(q) /\ ~ToolRefuses(q) /\ ~Resend(q)
    BY <1>1 DEF ManagerLogin, ToolDoes, ToolRefuses, Resend
  <1>7. ~HealthCheck(q)
    <2> SUFFICES ASSUME NEW x, call' = [call EXCEPT ![q].checks = @ \ {x}]
                 PROVE  FALSE
      BY DEF HealthCheck
    <2> QED BY <1>1 DEF Calls
  <1>8. /\ ~HealthJoin(q) /\ ~AuthCached(q) /\ ~AuthLogin(q) /\ ~AuthFails(q)
        /\ ~AuthStores(q) /\ ~Receive(q)
    BY DEF HealthJoin, AuthCached, AuthLogin, AuthFails, AuthStores, Receive
  <1>9. ~CallFails(q)
    BY ReturnedNotSent DEF CallFails
  <1> QED BY <1>3, <1>4, <1>5, <1>6, <1>7, <1>8, <1>9 DEF Step

\* The token a Send reads is stored, and the manager still accepts it.
LEMMA SendReadsLive ==
    ASSUME GatewayInv, NEW r \in Requests, Send(r), call[r].op.api = "wazuh"
    PROVE  call'[r].tok # 0 /\ ~Expired(call'[r].tok)
  <1>1. call \in [Requests -> Calls] /\ call[r] \in Calls /\ TimeOK(call[r]) /\ TokenInv
    BY CallFacts, InvParts
  <1>2. PICK t \in ReadToken(r) : call' = [call EXCEPT ![r].pc = "sent", ![r].tok = t]
    BY DEF Send
  <1>3. t \in Int /\ t \in {token, Torn}
    BY NumberFacts DEF ReadToken, Torn
  <1>4. call'[r].tok = t
    <2>1. call' = [call EXCEPT ![r] = WithTok(call[r], "sent", t)]
      BY <1>2 DEF WithTok
    <2>2. WithTok(call[r], "sent", t).tok = t
      BY <1>1, <1>3, TokFacts
    <2> QED BY <1>1, <2>1, <2>2
  <1>5. token # 0 /\ call[r].deadline < tokenExp + Timeout /\ now <= call[r].deadline
    BY <1>1 DEF TimeOK, Send
  <1>6. token \in 1..Len(expires) /\ expires[token] \in Nat
    BY <1>5, NumberFacts
  <1>7. expires[token] = 0 \/ now < expires[token]
    <2>1. expires[token] = 0 \/ tokenExp + Timeout <= expires[token]
      BY <1>1, <1>5 DEF TokenInv
    <2>2. PICK e \in Nat : e = expires[token]
      BY <1>6
    <2>3. PICK d \in Nat : d = call[r].deadline
      BY NumberFacts
    <2>4. e = 0 \/ now < e
      BY <1>5, <2>1, <2>2, <2>3, NumberFacts
    <2> QED BY <2>2, <2>4
  <1>8. CASE t = Torn
    <2>1. t # 0 /\ t \notin 1..Len(expires)
      BY <1>8, NumberFacts DEF Torn
    <2> QED BY <1>4, <2>1 DEF Expired
  <1>9. CASE t = token
    <2>1. ~(now >= expires[token]) \/ expires[token] = 0
      BY <1>6, <1>7, NumberFacts
    <2> QED BY <1>4, <1>5, <1>9, <2>1 DEF Expired
  <1> QED BY <1>3, <1>8, <1>9

\* A token that goes out, if it was read whole and the manager has not
\* forgotten it, is one the manager still accepts, whenever the reuse of the
\* cache ends at least two request deadlines before the token does.
THEOREM TokenSentAlive == Spec => SendsLiveToken
  <1> DEFINE Live ==
        \A r \in Requests :
           call[r].pc = "ready" /\ call'[r].pc = "sent" /\ call[r].op.api = "wazuh"
             => call'[r].tok # 0 /\ ~Expired(call'[r].tok)
  <1>1. GatewayInv /\ [Next]_vars => Live
    BY OnlySend, SendReadsLive
  <1>2. GatewayInv /\ [Next]_vars => [Live]_vars
    BY <1>1
  <1> QED BY <1>2, GatewayInvariant, PTL DEF Spec, SendsLiveToken

-----------------------------------------------------------------------------
(* One login at a time *)

\* A step of a request touches the mutex, the cache and the manager's tokens
\* only when the request logs in, or takes the free mutex to do so.
LEMMA LoginOnly ==
    ASSUME NEW r \in Requests,
           RegisterRoutes(r) \/ Step(r) \/ ManagerLogin(r)
             \/ ToolDoes(r) \/ ToolRefuses(r) \/ Resend(r)
    PROVE  \/ UNCHANGED <<mu, token, expires>>
           \/ call[r].pc = "lock" /\ mu = Free /\ UNCHANGED <<token, expires>>
           \/ call[r].pc \in {"login", "decode"}
  <1>1. CASE RegisterRoutes(r)
    BY <1>1 DEF RegisterRoutes, NotConfigured, BadRequest, NoUpstream, ListLocal,
                CallClient, healthAll, Refuse
  <1>2. CASE Step(r)
    BY <1>2 DEF Step, HealthCheck, HealthJoin, AuthCached, AuthLogin, AuthFails, AuthStores,
                Send, Receive, CallFails, Refuse
  <1>3. CASE ManagerLogin(r) \/ ToolDoes(r) \/ ToolRefuses(r) \/ Resend(r)
    BY <1>3 DEF ManagerLogin, ToolDoes, ToolRefuses, Resend
  <1> QED BY <1>1, <1>2, <1>3

\* A call that returns or is answered is not logging in.
LEMMA ReturnedNotLogin ==
    ASSUME GatewayInv, NEW r \in Requests, NEW good \in BOOLEAN, NEW code \in Codes
    PROVE  /\ Returned(r, good)[r].pc \notin {"login", "decode"}
           /\ Answer(r, code)[r].pc \notin {"login", "decode"}
  <1>1. call \in [Requests -> Calls] /\ call[r] \in Calls
    BY CallFacts
  <1>2. ASSUME NEW k \in Codes PROVE Answer(r, k)[r].pc = "answered"
    <2>1. Answer(r, k) = [call EXCEPT ![r] = Answering(call[r], k)]
      BY DEF Answer, Answering
    <2>2. Answering(call[r], k).pc = "answered"
      BY <1>1, AnsweringFacts
    <2> QED BY <1>1, <2>1, <2>2
  <1>3. CASE call[r].ok = 0
    <2>1. Returned(r, good) = [call EXCEPT ![r] = Joining(call[r])]
      BY <1>3 DEF Returned, Joining
    <2>2. Joining(call[r]).pc = "join"
      BY <1>1, JoiningFacts
    <2> QED BY <1>1, <1>2, <2>1, <2>2
  <1>4. CASE call[r].ok # 0
    <2>1. call[r].ok \in Codes /\ 502 \in Codes
      BY <1>1, <1>4 DEF Calls, Codes
    <2> QED BY <1>2, <1>4, <2>1 DEF Returned
  <1> QED BY <1>3, <1>4

\* A request that logs in after its step took the mutex, has just been given a
\* token, or was logging in and moved no further.
LEMMA LoginEntered ==
    ASSUME GatewayInv, NEW r \in Requests,
           RegisterRoutes(r) \/ Step(r) \/ ManagerLogin(r)
             \/ ToolDoes(r) \/ ToolRefuses(r) \/ Resend(r),
           call'[r].pc \in {"login", "decode"}
    PROVE  \/ AuthLogin(r) \/ ManagerLogin(r)
           \/ /\ call'[r].pc = call[r].pc /\ call'[r].tok = call[r].tok
              /\ UNCHANGED <<mu, expires>>
  <1>1. /\ call \in [Requests -> Calls] /\ call[r] \in Calls
        /\ CallOK(call[r], done[r], r \in wire)
    BY CallFacts
  <1>2. ~RegisterRoutes(r)
    <2>1. ASSUME NEW code \in Codes, Refuse(r, code) PROVE FALSE
      BY <2>1, ReturnedNotLogin DEF Refuse
    <2>2. \A route \in RouteSet : route.refuse \subseteq Codes /\ route.ok \in {200, 201}
      BY AllRoutes, RoutesAssumption DEF SoundRoute, Codes
    <2>3. 503 \in Codes /\ 502 \in Codes /\ 200 \in Codes /\ 201 \in Codes
      BY DEF Codes
    <2>4. ~healthAll(r)
      BY <1>1 DEF healthAll, Idle
    <2>5. ASSUME NEW route \in RouteSet PROVE ~CallClient(r, route)
      <3> SUFFICES ASSUME CallClient(r, route) PROVE FALSE
        OBVIOUS
      <3> DEFINE c == [Idle EXCEPT
                         !.pc = IF route.op.api = "wazuh" THEN "lock" ELSE "ready",
                         !.op = route.op, !.ok = route.ok, !.deadline = now + Timeout]
      <3>1. call' = [call EXCEPT ![r] = c]
        BY DEF CallClient
      <3>2. c.pc \in {"lock", "ready"}
        BY DEF Idle
      <3> HIDE DEF c
      <3> QED BY <1>1, <3>1, <3>2
    <2> QED BY <2>1, <2>2, <2>3, <2>4, <2>5
            DEF RegisterRoutes, NotConfigured, BadRequest, NoUpstream, ListLocal
  <1>3. ~ToolDoes(r) /\ ~ToolRefuses(r) /\ ~Resend(r)
    <2>1. ASSUME NEW good, call' = Answered(r, good), r \in wire PROVE FALSE
      <3>1. PICK reply : call' = [call EXCEPT ![r] = WithReply(call[r], reply)]
        BY <2>1, AnsweredFacts
      <3>2. WithReply(call[r], reply).pc = call[r].pc
        BY <1>1 DEF WithReply, Calls
      <3> QED BY <1>1, <2>1, <3>1, <3>2 DEF CallOK
    <2>2. ~Resend(r)
      <3> SUFFICES ASSUME Resend(r) PROVE FALSE
        OBVIOUS
      <3>1. call' = [call EXCEPT ![r] = WithReply(call[r], "none")] /\ call[r].pc = "sent"
        BY DEF Resend, WithReply
      <3>2. WithReply(call[r], "none").pc = call[r].pc
        BY <1>1, ReplyFacts
      <3> QED BY <1>1, <3>1, <3>2
    <2> QED BY <2>1, <2>2 DEF ToolDoes, ToolRefuses
  <1>4. ~HealthJoin(r) /\ ~AuthFails(r) /\ ~Receive(r) /\ ~CallFails(r)
    <2>1. 200 \in Codes /\ FALSE \in BOOLEAN /\ (call[r].reply = "good") \in BOOLEAN
      BY DEF Codes
    <2>2. ~HealthJoin(r)
      BY <2>1, ReturnedNotLogin DEF HealthJoin, Refuse
    <2>3. ~AuthFails(r) /\ ~CallFails(r)
      BY <2>1, ReturnedNotLogin DEF AuthFails, CallFails
    <2>4. ~Receive(r)
      BY <2>1, ReturnedNotLogin DEF Receive
    <2> QED BY <2>2, <2>3, <2>4
  <1>5. ~AuthCached(r) /\ ~AuthStores(r)
    <2> SUFFICES ASSUME call' = [call EXCEPT ![r].pc = "ready"] PROVE FALSE
      BY DEF AuthCached, AuthStores
    <2>1. call' = [call EXCEPT ![r] = WithPc(call[r], "ready")]
      BY DEF WithPc
    <2> QED BY <1>1, <2>1, PcFacts
  <1>6. ~Send(r)
    <2> SUFFICES ASSUME NEW t \in ReadToken(r),
                        call' = [call EXCEPT ![r].pc = "sent", ![r].tok = t]
                 PROVE  FALSE
      BY DEF Send
    <2>1. call' = [call EXCEPT ![r] = WithTok(call[r], "sent", t)]
      BY DEF WithTok
    <2>2. t \in Int
      BY NumberFacts DEF ReadToken, Torn
    <2> QED BY <1>1, <2>1, <2>2, TokFacts
  <1>7. CASE HealthCheck(r)
    <2>1. PICK x \in call[r].checks : call' = [call EXCEPT ![r].checks = @ \ {x}]
      BY <1>7 DEF HealthCheck
    <2>2. call' = [call EXCEPT ![r] = WithChecks(call[r], call[r].checks \ {x})]
      BY <2>1 DEF WithChecks
    <2>3. call[r].checks \ {x} \in SUBSET Clients
      BY <1>1 DEF Calls
    <2> QED BY <1>1, <1>7, <2>2, <2>3, ChecksFacts DEF HealthCheck
  <1> QED BY <1>2, <1>3, <1>4, <1>5, <1>6, <1>7 DEF Step

LEMMA LockStep ==
    ASSUME GatewayInv, LockInv, [Next]_vars
    PROVE  LockInv'
  <1>1. CASE \E r \in Requests :
               RegisterRoutes(r) \/ Step(r) \/ ManagerLogin(r)
                 \/ ToolDoes(r) \/ ToolRefuses(r) \/ Resend(r)
    <2>0. PICK r \in Requests :
             RegisterRoutes(r) \/ Step(r) \/ ManagerLogin(r)
               \/ ToolDoes(r) \/ ToolRefuses(r) \/ Resend(r)
      BY <1>1
    <2>1. ASSUME NEW q \in Requests \ {r}, call'[q].pc \in {"login", "decode"}
          PROVE  mu' = q /\ (call'[q].pc = "decode" => call'[q].tok = Len(expires'))
      <3>1. call'[q] = call[q] /\ mu = q
        BY <2>0, <2>1, OthersStay DEF LockInv
      <3>2. UNCHANGED <<mu, expires>>
        BY <2>0, <3>1, LoginOnly, FreeAssumption DEF LockInv
      <3> QED BY <2>1, <3>1, <3>2 DEF LockInv
    <2>2. ASSUME call'[r].pc \in {"login", "decode"}
          PROVE  mu' = r /\ (call'[r].pc = "decode" => call'[r].tok = Len(expires'))
      <3>1. call \in [Requests -> Calls] /\ call[r] \in Calls
        BY CallFacts
      <3>2. CASE AuthLogin(r)
        <4>1. call' = [call EXCEPT ![r] = WithPc(call[r], "login")]
          BY <3>2 DEF AuthLogin, WithPc
        <4>2. call'[r].pc = "login"
          BY <3>1, <4>1, PcFacts
        <4> QED BY <3>2, <4>2 DEF AuthLogin
      <3>3. CASE ManagerLogin(r)
        <4>1. call' = [call EXCEPT ![r] = WithTok(call[r], "decode", Len(expires) + 1)]
          BY <3>3 DEF ManagerLogin, WithTok
        <4>2. Len(expires) + 1 \in Int /\ Len(expires') = Len(expires) + 1
          BY <3>3, NumberFacts DEF ManagerLogin
        <4>3. call'[r].tok = Len(expires')
          BY <3>1, <4>1, <4>2, TokFacts
        <4> QED BY <3>3, <4>3 DEF ManagerLogin, LockInv
      <3>4. CASE /\ call'[r].pc = call[r].pc /\ call'[r].tok = call[r].tok
                 /\ UNCHANGED <<mu, expires>>
        BY <2>2, <3>4 DEF LockInv
      <3> QED BY <2>0, <2>2, <3>2, <3>3, <3>4, LoginEntered
    <2> QED BY <2>1, <2>2 DEF LockInv
  <1>2. CASE ManagerRestart \/ Tick \/ UNCHANGED vars
    <2>1. call' = call /\ mu' = mu
      BY <1>2 DEF ManagerRestart, Tick, vars
    <2>2. Len(expires') = Len(expires)
      <3>1. expires \in Seq(Nat)
        BY NumberFacts
      <3>2. expires' = expires \/ expires' = [i \in DOMAIN expires |-> 0]
        BY <1>2 DEF ManagerRestart, Tick, vars
      <3> QED BY <3>1, <3>2
    <2> QED BY <2>1, <2>2 DEF LockInv
  <1> QED BY <1>1, <1>2 DEF Next

\* Logins do not overtake one another: whatever the number of requests, the
\* cached token is only ever replaced by one issued later.
THEOREM TokenOnlyRenewed == Spec => NewestToken
  <1>1. Init => LockInv
    BY DEF Init, LockInv, Idle
  <1>2. GatewayInv /\ LockInv /\ [Next]_vars => LockInv'
    BY LockStep
  <1>3. GatewayInv /\ LockInv /\ [Next]_vars => (token' # token => token' > token)
    <2> SUFFICES ASSUME GatewayInv, LockInv, [Next]_vars, token' # token
                 PROVE  token' > token
      OBVIOUS
    <2>1. PICK r \in Requests : AuthStores(r)
      BY DEF Next, RegisterRoutes, NotConfigured, BadRequest, NoUpstream, ListLocal,
             CallClient, healthAll, Refuse, Step, HealthCheck, HealthJoin, AuthCached,
             AuthLogin, AuthFails, Send, Receive, CallFails, ManagerLogin, ToolDoes,
             ToolRefuses, Resend, ManagerRestart, Tick, vars
    <2>2. token' = Len(expires)
      BY <2>1 DEF AuthStores, LockInv
    <2>3. token \in 0..Len(expires) /\ Len(expires) \in Nat
      BY NumberFacts
    <2> QED BY <2>2, <2>3
  <1>4. GatewayInv /\ LockInv /\ [Next]_vars => [token' # token => token' > token]_vars
    BY <1>3
  <1> QED BY <1>1, <1>2, <1>4, GatewayInvariant, PTL DEF Spec, NewestToken

=============================================================================
