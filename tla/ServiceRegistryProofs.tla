------------------------ MODULE ServiceRegistryProofs ------------------------
(***************************************************************************)
(* Theorems about ServiceRegistry, for every service and every set of      *)
(* requests, keys, tenants and names.                                      *)
(***************************************************************************)
EXTENDS ServiceRegistry, TLAPS

-----------------------------------------------------------------------------
(* The table of handlers *)

\* What the proofs use of a handler h of table t: a new UUID, a key of the
\* caller and an identity are three different ways to make a row, and no table
\* mixes them; an agent is never deleted; the error of a write is not one of
\* the codes that promise that nothing happened.
SoundHandler(t, h) ==
    /\ h.kind \in Writes \cup {"get", "list"}
    /\ h.first \in BOOLEAN
    /\ h.refuse \subseteq {400, 422} /\ h.after \subseteq {409, 502}
    /\ h.ok \in {200, 201, 204}
    /\ h.none \in {404, 409, 500} /\ h.failed \in {404, 409, 500}
    /\ h.kind \in Writes => h.failed \in {409, 500}
    /\ h.kind = "insert" => t \notin {"agents", "tenants"}
    /\ h.kind = "claim" => t = "tenants"
    /\ h.kind = "upsert" => t = "agents"
    /\ h.kind = "delete" => t = IF h.first THEN "clusters" ELSE "tenants"
    /\ h.first => h.kind = "delete"

\* The same of the arguments of Handler.
PlainOK(t, kind, refuse, ok, none, failed) ==
    /\ kind \in Writes \cup {"get", "list"}
    /\ refuse \subseteq {400, 422}
    /\ ok \in {200, 201, 204}
    /\ none \in {404, 409, 500} /\ failed \in {404, 409, 500}
    /\ kind \in Writes => failed \in {409, 500}
    /\ kind = "insert" => t \notin {"agents", "tenants"}
    /\ kind = "claim" => t = "tenants"
    /\ kind = "upsert" => t = "agents"
    /\ kind = "delete" => t = "tenants"

LEMMA PlainHandler ==
    \A t, kind, refuse, ok, none, failed, roles :
        PlainOK(t, kind, refuse, ok, none, failed) =>
            SoundHandler(t, Handler(kind, refuse, ok, none, failed, roles))
  BY DEF SoundHandler, Handler, PlainOK

\* The handlers with a step before, or answers after, the statement.
LEMMA FirstHandler ==
    ASSUME NEW roles
    PROVE  SoundHandler("clusters",
               [Handler("delete", {}, 204, 500, 500, roles) EXCEPT !.first = TRUE])
  BY DEF SoundHandler, Handler, Writes

LEMMA AfterHandler ==
    ASSUME NEW t, NEW refuse \in SUBSET {400, 422}, NEW ok \in {200, 201}, NEW roles
    PROVE  SoundHandler(t, [Handler("get", refuse, ok, 404, 404, roles)
                              EXCEPT !.after = {409, 502}])
  BY DEF SoundHandler, Handler, Writes

LEMMA ClusterHandlers == \A h \in clusterRoutes : SoundHandler("clusters", h)
  <1>1. SoundHandler("clusters", cluster_create)
    BY PlainHandler DEF PlainOK, cluster_create, CreateCluster, Writes
  <1>2. SoundHandler("clusters", cluster_list)
    BY PlainHandler DEF PlainOK, cluster_list, ListClusters, Writes
  <1>3. SoundHandler("clusters", cluster_get)
    BY PlainHandler DEF PlainOK, cluster_get, GetCluster, Writes
  <1>4. SoundHandler("clusters", cluster_update)
    BY PlainHandler DEF PlainOK, cluster_update, UpdateCluster, Writes
  <1>5. SoundHandler("clusters", cluster_delete)
    BY FirstHandler DEF cluster_delete, DeleteCluster, Writes
  <1> QED BY <1>1, <1>2, <1>3, <1>4, <1>5 DEF clusterRoutes

LEMMA AgentHandlers == \A h \in agentRoutes : SoundHandler("agents", h)
  <1>1. SoundHandler("agents", agent_heartbeat)
    BY PlainHandler DEF PlainOK, agent_heartbeat, Heartbeat, Writes
  <1>2. SoundHandler("agents", agent_list)
    BY PlainHandler DEF PlainOK, agent_list, ListAgents, Writes
  <1>3. SoundHandler("agents", agent_get)
    BY PlainHandler DEF PlainOK, agent_get, GetAgent, Writes
  <1>4. SoundHandler("agents", agent_update)
    BY PlainHandler DEF PlainOK, agent_update, UpdateAgent, Writes
  <1> QED BY <1>1, <1>2, <1>3, <1>4 DEF agentRoutes

LEMMA FindingHandlers == \A h \in findingRoutes : SoundHandler("findings", h)
  <1>1. SoundHandler("findings", finding_create)
    BY PlainHandler DEF PlainOK, finding_create, FindingStore_Create, Writes
  <1>2. SoundHandler("findings", finding_list)
    BY PlainHandler DEF PlainOK, finding_list, FindingStore_List, Writes
  <1>3. SoundHandler("findings", finding_get)
    BY PlainHandler DEF PlainOK, finding_get, FindingStore_Get, Writes
  <1>4. SoundHandler("findings", finding_updateStatus)
    BY PlainHandler DEF PlainOK, finding_updateStatus, FindingStore_UpdateStatus, Writes
  <1> QED BY <1>1, <1>2, <1>3, <1>4 DEF findingRoutes

LEMMA AssessmentHandlers == \A h \in assessmentRoutes : SoundHandler("assessments", h)
  <1>1. SoundHandler("assessments", assessment_create)
    BY PlainHandler DEF PlainOK, assessment_create, AssessmentStore_Create, Writes
  <1>2. SoundHandler("assessments", assessment_list)
    BY PlainHandler DEF PlainOK, assessment_list, AssessmentStore_List, Writes
  <1>3. SoundHandler("assessments", assessment_get)
    BY PlainHandler DEF PlainOK, assessment_get, AssessmentStore_Get, Writes
  <1>4. SoundHandler("assessments", assessment_updateStatus)
    BY PlainHandler DEF PlainOK, assessment_updateStatus, AssessmentStore_UpdateStatus, Writes
  <1> QED BY <1>1, <1>2, <1>3, <1>4 DEF assessmentRoutes

LEMMA TenantHandlers == \A h \in tenantRoutes : SoundHandler("tenants", h)
  <1>1. SoundHandler("tenants", tenant_create)
    BY PlainHandler DEF PlainOK, tenant_create, TenantStore_Create, Writes
  <1>2. SoundHandler("tenants", tenant_get)
    BY PlainHandler DEF PlainOK, tenant_get, TenantStore_Get, Writes
  <1>3. SoundHandler("tenants", tenant_list)
    BY PlainHandler DEF PlainOK, tenant_list, TenantStore_List, Writes
  <1>4. SoundHandler("tenants", tenant_update)
    BY PlainHandler DEF PlainOK, tenant_update, TenantStore_Update, Writes
  <1>5. SoundHandler("tenants", tenant_delete)
    BY PlainHandler DEF PlainOK, tenant_delete, TenantStore_Delete, Writes
  <1>6. SoundHandler("tenants", createSubscription)
    BY AfterHandler DEF createSubscription, TenantStore_Get, Writes
  <1>7. SoundHandler("tenants", getBillingPortal)
    BY AfterHandler DEF getBillingPortal, TenantStore_Get, Writes
  <1> QED BY <1>1, <1>2, <1>3, <1>4, <1>5, <1>6, <1>7 DEF tenantRoutes

\* Every handler of every service, and the one an idle request stands for.
LEMMA AllHandlers ==
    ASSUME NEW t \in Tables, NEW h \in Routes[t] \cup {cluster_get}
    PROVE  SoundHandler(t, h) /\ h \in Handlers
  <1>1. /\ Routes["clusters"] = clusterRoutes /\ Routes["agents"] = agentRoutes
        /\ Routes["findings"] = findingRoutes /\ Routes["assessments"] = assessmentRoutes
        /\ Routes["tenants"] = tenantRoutes
    BY DEF Routes
  <1>2. "clusters" \in Tables /\ cluster_get \in clusterRoutes
    BY DEF Tables, clusterRoutes
  <1>3. h \in Handlers
    BY <1>1, <1>2 DEF Handlers
  <1>4. SoundHandler(t, cluster_get)
    BY DEF SoundHandler, cluster_get, Handler, GetCluster, Writes
  <1>5. h \in Routes[t] => SoundHandler(t, h)
    BY <1>1, ClusterHandlers, AgentHandlers, FindingHandlers, AssessmentHandlers,
       TenantHandlers DEF Tables
  <1> QED BY <1>3, <1>4, <1>5

-----------------------------------------------------------------------------
(* The log and the bus *)

LEMMA AppendFacts ==
    ASSUME NEW S, NEW s \in Seq(S), NEW e \in S
    PROVE  /\ Append(s, e) \in Seq(S)
           /\ DOMAIN s = 1..Len(s) /\ Len(s) \in Nat
           /\ DOMAIN Append(s, e) = 1..(Len(s) + 1)
           /\ Append(s, e)[Len(s) + 1] = e
           /\ \A i \in 1..Len(s) : Append(s, e)[i] = s[i]
  OBVIOUS

LEMMA AppendRange ==
    ASSUME NEW S, NEW s \in Seq(S), NEW e \in S
    PROVE  Range(Append(s, e)) = Range(s) \cup {e}
  <1> DEFINE n == Len(s) + 1
  <1>1. /\ DOMAIN s = 1..Len(s) /\ Len(s) \in Nat
        /\ DOMAIN Append(s, e) = 1..n /\ Append(s, e)[n] = e
        /\ \A i \in 1..Len(s) : Append(s, e)[i] = s[i]
    BY AppendFacts
  <1>2. 1..n = (1..Len(s)) \cup {n}
    BY <1>1
  <1> HIDE DEF n
  <1>3. ASSUME NEW x \in Range(Append(s, e)) PROVE x \in Range(s) \cup {e}
    <2>1. PICK i \in 1..n : x = Append(s, e)[i]
      BY <1>1 DEF Range
    <2> QED BY <1>1, <1>2, <2>1 DEF Range
  <1>4. ASSUME NEW x \in Range(s) \cup {e} PROVE x \in Range(Append(s, e))
    BY <1>1, <1>2 DEF Range
  <1> QED BY <1>3, <1>4

\* A new item is one of its own request only.
LEMMA AppendIn ==
    ASSUME NEW S, NEW s \in Seq(S), NEW e \in S, NEW q
    PROVE  In(Append(s, e), q) <=> In(s, q) \/ e.req = q
  BY AppendRange DEF In

\* A new item keeps the order when its request is in the past of no earlier one.
LEMMA AppendOrder ==
    ASSUME NEW S, NEW s \in Seq(S), NEW e \in S, NEW past,
           \A i, j \in DOMAIN s : i < j => s[j].req \notin past[s[i].req],
           \A i \in DOMAIN s : e.req \notin past[s[i].req],
           NEW i \in DOMAIN Append(s, e), NEW j \in DOMAIN Append(s, e), i < j
    PROVE  Append(s, e)[j].req \notin past[Append(s, e)[i].req]
  <1>1. /\ DOMAIN s = 1..Len(s) /\ Len(s) \in Nat
        /\ DOMAIN Append(s, e) = 1..(Len(s) + 1)
        /\ Append(s, e)[Len(s) + 1] = e
        /\ \A k \in 1..Len(s) : Append(s, e)[k] = s[k]
    BY AppendFacts
  <1>2. i \in 1..Len(s) /\ (j \in 1..Len(s) \/ j = Len(s) + 1)
    BY <1>1
  <1>3. CASE j \in 1..Len(s)
    BY <1>1, <1>2, <1>3
  <1>4. CASE j = Len(s) + 1
    BY <1>1, <1>2, <1>4
  <1> QED BY <1>2, <1>3, <1>4

LEMMA SeqGet == ASSUME NEW S, NEW s \in Seq(S), NEW i \in DOMAIN s PROVE s[i] \in S
  OBVIOUS

LEMMA ItemRequest ==
    ASSUME NEW s \in Seq(Items), NEW i \in DOMAIN s PROVE s[i].req \in Requests
  <1>1. s[i] \in Items
    BY SeqGet
  <1> QED BY <1>1 DEF Items

LEMMA ItemFacts ==
    ASSUME TypeOK, NEW s \in {log, bus}, NEW i \in DOMAIN s
    PROVE  s[i] \in Items /\ s[i].req \in Requests
  <1>1. s \in Seq(Items)
    BY DEF TypeOK
  <1>2. s[i] \in Items
    BY <1>1, SeqGet
  <1> QED BY <1>2 DEF Items

-----------------------------------------------------------------------------
(* The states of a request *)

LEMMA RequestFacts ==
    ASSUME RegistryInv, NEW r \in Requests
    PROVE  /\ req \in [Requests -> Reqs] /\ req[r] \in Reqs
           /\ RequestInv(r, req[r]) /\ RowInv(r, req[r])
           /\ SoundHandler(table, req[r].h)
  <1>1. /\ table \in Tables /\ req \in [Requests -> Reqs] /\ req[r] \in Reqs
        /\ RequestInv(r, req[r]) /\ RowInv(r, req[r])
    BY DEF RegistryInv, TypeOK
  <1>2. req[r].h \in Routes[table] \cup {cluster_get}
    BY <1>1 DEF RequestInv
  <1> QED BY <1>1, <1>2, AllHandlers

\* A request that has not been answered is in no other's past.
LEMMA NotPast ==
    ASSUME RegistryInv, NEW r \in Requests, req[r].pc # "answered", NEW q \in Requests
    PROVE  r \notin req[q].before
  BY RequestFacts DEF RequestInv

\* The transactions that are pending, and that a request before its commit has
\* none.
LEMMA PendingFacts ==
    ASSUME RegistryInv, NEW c \in pending
    PROVE  /\ c \in Transactions /\ PendingInv(c)
           /\ c.req \in Requests /\ c.id \in Ids /\ c.row \in Row \cup {NoRow}
           /\ c = [req |-> c.req, id |-> c.id, row |-> c.row]
  <1>1. c \in Transactions /\ PendingInv(c)
    BY DEF RegistryInv, TypeOK
  <1> QED BY <1>1 DEF Transactions

LEMMA NothingPending ==
    ASSUME RegistryInv, NEW r \in Requests,
           req[r].pc \in {"idle", "get", "read", "tx"} \/ In(log, r)
    PROVE  \A d \in pending : d.req # r
  BY PendingFacts DEF PendingInv

\* A request that is turned away or has failed before its commit.
Dismissed(code) == [Idle EXCEPT !.pc = "answered", !.code = code]

LEMMA IdleTyped ==
    /\ Idle \in Reqs /\ Idle.pc = "idle" /\ Idle.h = cluster_get /\ Idle.before = {}
    /\ cluster_get.kind = "get" /\ cluster_get.kind \notin Writes
  <1>1. cluster_get \in Handlers
    <2>1. "clusters" \in Tables
      BY DEF Tables
    <2> QED BY <2>1, AllHandlers
  <1>2. cluster_get.kind = "get" /\ "get" \notin Writes
    BY DEF cluster_get, Handler, GetCluster, Writes
  <1>3. Idle \in Reqs
    BY <1>1 DEF Idle, Reqs
  <1> QED BY <1>2, <1>3 DEF Idle

LEMMA DismissedFacts ==
    ASSUME NEW code \in Codes
    PROVE  LET c == Dismissed(code)
           IN  /\ c \in Reqs /\ c.pc = "answered" /\ c.code = code
               /\ c.h = cluster_get /\ c.before = {}
  <1>1. Idle \in Reqs /\ Idle.h = cluster_get /\ Idle.before = {}
    BY IdleTyped
  <1> HIDE DEF Idle
  <1> QED BY <1>1 DEF Dismissed, Reqs

-----------------------------------------------------------------------------
(* Steps that change no row and announce nothing *)

LEMMA QuietStep ==
    ASSUME RegistryInv, NEW r \in Requests, NEW c \in Reqs,
           req' = [req EXCEPT ![r] = c],
           UNCHANGED <<table, phase, pub, rows, pending, used, log, bus>>,
           req[r].pc # "answered",
           RequestInv(r, c), RowInv(r, c),
           In(log, r) \/ In(bus, r) => c.before = req[r].before,
           \A d \in pending : d.req = r =>
              c.pc = "answered" /\ c.code \in {409, 500} /\ c.h.kind \notin Writes
    PROVE  RegistryInv'
  <1>1. /\ TypeOK /\ TableInv /\ RealTimeOrder /\ LocksInv /\ req \in [Requests -> Reqs]
        /\ \A q \in Requests : RequestInv(q, req[q]) /\ RowInv(q, req[q])
        /\ log \in Seq(Items) /\ bus \in Seq(Items)
    BY DEF RegistryInv, TypeOK
  <1>2. /\ req' \in [Requests -> Reqs] /\ req'[r] = c
        /\ \A q \in Requests \ {r} : req'[q] = req[q]
    BY <1>1
  <1>3. TypeOK'
    BY <1>1, <1>2 DEF TypeOK, Items
  <1>4. TableInv' /\ LocksInv'
    BY <1>1 DEF TableInv, LocksInv
  <1>5. ASSUME NEW s \in {log, bus}, NEW i \in DOMAIN s
        PROVE  s[i].req \in Requests /\ req'[s[i].req].before = req[s[i].req].before
    <2>1. s[i].req \in Requests
      BY <1>1, ItemFacts
    <2>2. s[i].req = r => In(s, r)
      BY DEF In, Range
    <2>3. s[i].req = r => c.before = req[r].before
      BY <2>2
    <2> QED BY <1>2, <2>1, <2>3
  <1>6. RealTimeOrder'
    <2>1. ASSUME NEW i \in DOMAIN bus, NEW j \in DOMAIN bus, i < j
          PROVE  bus[j].req \notin req'[bus[i].req].before
      BY <1>1, <1>5, <2>1 DEF RealTimeOrder
    <2>2. ASSUME NEW i \in DOMAIN log, NEW j \in DOMAIN log, i < j,
                 log[j].req \in req'[log[i].req].before
          PROVE  req'[log[j].req].code \in {409, 500} /\ log[i].id # log[j].id
      <3>1. log[j].req \in req[log[i].req].before /\ log[i].req \in Requests
            /\ log[j].req \in Requests
        BY <1>5, <2>2
      <3>2. req[log[j].req].code \in {409, 500} /\ log[i].id # log[j].id
        BY <1>1, <2>2, <3>1 DEF RealTimeOrder
      <3>3. log[j].req # r
        BY <3>1, NotPast
      <3> QED BY <1>2, <3>1, <3>2, <3>3
    <2> QED BY <2>1, <2>2 DEF RealTimeOrder
  <1>7. ASSUME NEW q \in Requests PROVE RequestInv(q, req[q])' /\ RowInv(q, req[q])'
    <2>1. RequestInv(q, req'[q]) /\ RowInv(q, req'[q])
      BY <1>1, <1>2
    <2>2. \A x \in req'[q].before : req'[x].pc = "answered"
      <3> SUFFICES ASSUME NEW x \in req'[q].before PROVE req'[x].pc = "answered"
        OBVIOUS
      <3>1. x \in Requests
        BY <1>2 DEF Reqs
      <3>2. req[x].pc = "answered"
        BY <2>1 DEF RequestInv
      <3> QED BY <1>2, <3>1, <3>2
    <2> QED BY <2>1, <2>2 DEF RequestInv, RowInv, Item
  <1>8. ASSUME NEW d \in pending PROVE PendingInv(d)'
    <2>1. PendingInv(d) /\ d.req \in Requests
      BY PendingFacts
    <2>2. \A i \in DOMAIN log : log[i].id = d.id => d.req \notin req'[log[i].req].before
      BY <1>5, <2>1 DEF PendingInv
    <2>3. Legal(d.id, d.row)'
      BY <2>1 DEF PendingInv, Legal
    <2>4. CASE d.req = r
      BY <1>2, <2>1, <2>2, <2>3, <2>4 DEF PendingInv
    <2>5. CASE d.req # r
      BY <1>2, <2>1, <2>2, <2>3, <2>5 DEF PendingInv
    <2> QED BY <2>4, <2>5
  <1> QED BY <1>3, <1>4, <1>6, <1>7, <1>8 DEF RegistryInv

\* A request that has changed nothing may be answered with any code.
LEMMA DismissKeeps ==
    ASSUME RegistryInv, NEW r \in Requests, req[r].pc \in {"idle", "get", "read", "tx"},
           NEW code \in Codes, req' = Dismiss(r, code),
           UNCHANGED <<table, phase, pub, rows, pending, used, log, bus>>
    PROVE  RegistryInv'
  <1> DEFINE c == Dismissed(code)
  <1>1. /\ c \in Reqs /\ c.pc = "answered" /\ c.code = code
        /\ c.h = cluster_get /\ c.before = {}
    BY DismissedFacts
  <1>2. req' = [req EXCEPT ![r] = c]
    BY DEF Dismiss, Dismissed
  <1> HIDE DEF c
  <1>3. ~In(log, r) /\ ~In(bus, r)
    BY RequestFacts DEF RequestInv
  <1>4. RequestInv(r, c) /\ RowInv(r, c)
    BY <1>1, <1>3, IdleTyped DEF RequestInv, RowInv
  <1> QED BY <1>1, <1>2, <1>3, <1>4, QuietStep, NothingPending

LEMMA ArriveKeeps ==
    ASSUME RegistryInv, NEW r \in Requests, Arrive(r)
    PROVE  RegistryInv'
  <1>1. PICK h \in Routes[table] : Turned(r, h) \/ Refused(r, h) \/ Accepted(r, h)
    BY DEF Arrive
  <1>2. table \in Tables /\ SoundHandler(table, h) /\ h \in Handlers
    BY AllHandlers DEF RegistryInv, TypeOK
  <1>3. CASE Turned(r, h) \/ Refused(r, h)
    <2>1. PICK code \in Codes : req' = Dismiss(r, code)
      BY <1>2, <1>3 DEF Turned, Refused, Codes, SoundHandler
    <2>2. req[r].pc = "idle" /\ UNCHANGED <<table, phase, pub, rows, pending, used, log, bus>>
      BY <1>3 DEF Turned, Refused
    <2> QED BY <2>1, <2>2, DismissKeeps
  <1>4. CASE Accepted(r, h)
    <2> DEFINE pc == IF h.kind \notin Writes THEN "read" ELSE IF h.first THEN "get" ELSE "tx"
    <2>1. PICK id \in IF h.kind \in {"insert", "upsert", "list"} THEN {None} ELSE Ids,
               tenant \in IF h.kind \in {"insert", "upsert"} THEN TenantIds ELSE {None},
               name \in IF h.kind \in {"insert", "upsert", "claim"} THEN Names ELSE {None} :
               req' = [req EXCEPT ![r] = [pc |-> pc, h |-> h, id |-> id, tenant |-> tenant,
                                          name |-> name, code |-> 0, before |-> Answered]]
      BY <1>4 DEF Accepted
    <2>2. req[r].pc = "idle" /\ UNCHANGED <<table, phase, pub, rows, pending, used, log, bus>>
      BY <1>4 DEF Accepted
    <2>3. /\ pc \in {"read", "get", "tx"}
          /\ pc \in {"get", "tx"} => h.kind \in Writes
          /\ pc = "get" => h.first
          /\ pc = "tx" => ~h.first
      OBVIOUS
    <2> DEFINE c == [pc |-> pc, h |-> h, id |-> id, tenant |-> tenant,
                     name |-> name, code |-> 0, before |-> Answered]
    <2>4. /\ c.pc = pc /\ c.h = h /\ c.id = id /\ c.tenant = tenant /\ c.name = name
          /\ c.before = Answered
      OBVIOUS
    <2> HIDE DEF pc
    <2>5. c \in Reqs
      <3>1. id \in Ids \cup {None} /\ tenant \in TenantIds \cup Ids \cup {None}
            /\ name \in Names \cup {None} /\ Answered \in SUBSET Requests
            /\ pc \in InFlight \cup {"idle", "answered", "aborted"}
        BY <2>3 DEF Answered, InFlight
      <3> QED BY <1>2, <3>1 DEF Reqs
    <2>6. /\ h.kind \in {"get", "claim", "update", "delete"} => id \in Ids
          /\ h.kind \in {"insert", "upsert"} => tenant \in TenantIds
          /\ h.kind \in {"insert", "upsert", "claim"} => name \in Names
      OBVIOUS
    <2>7. ~In(log, r) /\ ~In(bus, r)
      BY <2>2, RequestFacts DEF RequestInv
    <2>8. req' = [req EXCEPT ![r] = c]
      BY <2>1
    <2> HIDE DEF c
    <2>9. RequestInv(r, c)
      <3>1. \A q \in c.before : req[q].pc = "answered"
        BY <2>4 DEF Answered
      <3> QED BY <2>3, <2>4, <2>6, <2>7, <3>1 DEF RequestInv
    <2>10. RowInv(r, c)
      BY <2>3, <2>4 DEF RowInv
    <2> QED BY <2>2, <2>5, <2>7, <2>8, <2>9, <2>10, QuietStep, NothingPending
  <1> QED BY <1>1, <1>3, <1>4

LEMMA ReadKeeps ==
    ASSUME RegistryInv, NEW r \in Requests, ReadRow(r) \/ NoRows(r) \/ RolledBack(r)
    PROVE  RegistryInv'
  <1>1. SoundHandler(table, req[r].h)
    BY RequestFacts
  <1>2. PICK code \in Codes : req' = Dismiss(r, code)
    BY <1>1 DEF ReadRow, NoRows, RolledBack, SoundHandler, Codes
  <1>3. req[r].pc \in {"read", "tx"} /\ UNCHANGED <<table, phase, pub, rows, pending, used, log, bus>>
    BY DEF ReadRow, NoRows, RolledBack
  <1> QED BY <1>2, <1>3, DismissKeeps

\* The row read for the event of a delete.
Got(c, tenant) == [c EXCEPT !.pc = "tx", !.tenant = tenant]

LEMMA GotFacts ==
    ASSUME NEW c \in Reqs, NEW tenant \in TenantIds \cup Ids
    PROVE  LET m == Got(c, tenant)
           IN  /\ m \in Reqs /\ m.pc = "tx" /\ m.tenant = tenant
               /\ m.h = c.h /\ m.id = c.id /\ m.name = c.name /\ m.before = c.before
  <1>1. "tx" \in InFlight
    BY DEF InFlight
  <1> QED BY <1>1 DEF Got, Reqs

\* The rows and their columns.
LEMMA RowFacts ==
    ASSUME RegistryInv, NEW id \in Ids, rows[id] # NoRow
    PROVE  /\ rows \in [Ids -> Row \cup {NoRow}] /\ rows[id] \in Row /\ id \in used
           /\ rows[id].tenant \in TenantIds \cup Ids
  <1>1. rows \in [Ids -> Row \cup {NoRow}] /\ rows[id] \in Row
    BY DEF RegistryInv, TypeOK
  <1>2. id \in used
    BY DEF RegistryInv, TableInv
  <1>3. rows[id].tenant \in TenantIds \cup Ids
    BY <1>1 DEF Row
  <1> QED BY <1>1, <1>2, <1>3

LEMMA GetFirstKeeps ==
    ASSUME RegistryInv, NEW r \in Requests, GetFirst(r)
    PROVE  RegistryInv'
  <1>1. /\ req[r] \in Reqs /\ RequestInv(r, req[r]) /\ SoundHandler(table, req[r].h)
        /\ req[r].pc = "get" /\ UNCHANGED <<table, phase, pub, rows, pending, used, log, bus>>
    BY RequestFacts DEF GetFirst
  <1>2. /\ req[r].h.first /\ req[r].h.kind = "delete" /\ req[r].id \in Ids
        /\ ~In(log, r) /\ ~In(bus, r)
    BY <1>1 DEF RequestInv, SoundHandler, Writes
  <1>3. CASE req' = Dismiss(r, 404) \/ req' = Dismiss(r, 500)
    BY <1>1, <1>3, DismissKeeps DEF Codes
  <1>4. CASE /\ rows[req[r].id] # NoRow
             /\ req' = [req EXCEPT ![r].pc = "tx", ![r].tenant = rows[req[r].id].tenant]
    <2>1. rows[req[r].id].tenant \in TenantIds \cup Ids /\ req[r].id \in used
      BY <1>2, <1>4, RowFacts
    <2> DEFINE c == Got(req[r], rows[req[r].id].tenant)
    <2>2. /\ c \in Reqs /\ c.pc = "tx" /\ c.tenant = rows[req[r].id].tenant
          /\ c.h = req[r].h /\ c.id = req[r].id /\ c.name = req[r].name
          /\ c.before = req[r].before
      BY <1>1, <2>1, GotFacts
    <2>3. req' = [req EXCEPT ![r] = c]
      BY <1>4 DEF Got
    <2> HIDE DEF c
    <2>4. RequestInv(r, c)
      BY <1>1, <1>2, <2>2 DEF RequestInv
    <2>5. ASSUME NEW d \in pending, d.id = c.id, d.row # NoRow PROVE d.row.tenant = c.tenant
      BY <1>4, <2>2, <2>5, PendingFacts DEF PendingInv, Legal
    <2>6. RowInv(r, c)
      BY <1>2, <1>4, <2>1, <2>2, <2>5 DEF RowInv
    <2> QED BY <1>1, <2>2, <2>3, <2>4, <2>6, QuietStep, NothingPending
  <1> QED BY <1>3, <1>4 DEF GetFirst

\* The handler goes on after the commit.
Moved(c, pc) == [c EXCEPT !.pc = pc]
Closed(c, code) == [c EXCEPT !.pc = "answered", !.code = code]

LEMMA MovedFacts ==
    ASSUME NEW c \in Reqs, NEW pc \in {"respond"}
    PROVE  LET m == Moved(c, pc)
           IN  /\ m \in Reqs /\ m.pc = pc /\ m.code = c.code
               /\ m.h = c.h /\ m.id = c.id /\ m.tenant = c.tenant /\ m.name = c.name
               /\ m.before = c.before
  <1>1. "respond" \in InFlight
    BY DEF InFlight
  <1> QED BY <1>1 DEF Moved, Reqs

LEMMA ClosedFacts ==
    ASSUME NEW c \in Reqs, NEW code \in Codes
    PROVE  LET m == Closed(c, code)
           IN  /\ m \in Reqs /\ m.pc = "answered" /\ m.code = code
               /\ m.h = c.h /\ m.id = c.id /\ m.tenant = c.tenant /\ m.name = c.name
               /\ m.before = c.before
  BY DEF Closed, Reqs

LEMMA RespondKeeps ==
    ASSUME RegistryInv, NEW r \in Requests, Respond(r)
    PROVE  RegistryInv'
  <1>1. /\ req[r] \in Reqs /\ RequestInv(r, req[r]) /\ RowInv(r, req[r])
        /\ SoundHandler(table, req[r].h)
        /\ req[r].pc = "respond" /\ UNCHANGED <<table, phase, pub, rows, pending, used, log, bus>>
    BY RequestFacts DEF Respond
  <1>2. req[r].h.ok \in Codes /\ req[r].h.ok \notin {400, 401, 403, 404, 422, 429}
    BY <1>1 DEF SoundHandler, Codes
  <1> DEFINE c == Closed(req[r], req[r].h.ok)
  <1>3. /\ c \in Reqs /\ c.pc = "answered" /\ c.code = req[r].h.ok
        /\ c.h = req[r].h /\ c.id = req[r].id /\ c.tenant = req[r].tenant
        /\ c.name = req[r].name /\ c.before = req[r].before
    BY <1>1, <1>2, ClosedFacts
  <1>4. req' = [req EXCEPT ![r] = c]
    BY DEF Respond, Answer, Closed
  <1> HIDE DEF c
  <1>5. RequestInv(r, c) /\ RowInv(r, c)
    BY <1>1, <1>2, <1>3 DEF RequestInv, RowInv
  <1>6. In(log, r)
    BY <1>1 DEF RequestInv
  <1> QED BY <1>1, <1>3, <1>4, <1>5, <1>6, QuietStep, NothingPending

\* A request whose goroutine is gone.
LEMMA GoneFacts ==
    ASSUME NEW r \in Requests, req[r] \in Reqs, NEW pc \in {"answered", "aborted"},
           NEW code \in Codes \cup {0}
    PROVE  LET m == Gone(r, pc, code)
           IN  /\ m \in Reqs /\ m.pc = pc /\ m.code = code
               /\ m.h = cluster_get /\ m.before = req[r].before
  <1>1. Idle \in Reqs /\ Idle.h = cluster_get /\ req[r].before \in SUBSET Requests
    BY IdleTyped DEF Reqs
  <1>2. PICK idle, past : idle = Idle /\ past = req[r].before
    OBVIOUS
  <1>3. PICK m : m = [idle EXCEPT !.pc = pc, !.code = code, !.before = past]
    OBVIOUS
  <1>4. idle \in Reqs /\ idle.h = cluster_get /\ past \in SUBSET Requests
    BY <1>1, <1>2
  <1>5. m \in Reqs
    BY <1>3, <1>4 DEF Reqs
  <1>6. m.pc = pc /\ m.code = code /\ m.h = idle.h /\ m.before = past
    BY <1>3, <1>4 DEF Reqs
  <1>7. Gone(r, pc, code) = m
    BY <1>2, <1>3 DEF Gone
  <1> QED BY <1>2, <1>4, <1>5, <1>6, <1>7

\* A handler that gives its commit up has promised nothing.
LEMMA CommitFailsKeeps ==
    ASSUME RegistryInv, NEW r \in Requests, CommitFails(r)
    PROVE  RegistryInv'
  <1>1. /\ req[r] \in Reqs /\ RequestInv(r, req[r]) /\ SoundHandler(table, req[r].h)
        /\ req[r].pc = "commit"
        /\ UNCHANGED <<table, phase, pub, rows, pending, used, log, bus>>
    BY RequestFacts DEF CommitFails
  <1>2. req[r].h.failed \in {409, 500} /\ req[r].h.failed \in Codes
    BY <1>1 DEF SoundHandler, RequestInv, Codes
  <1> DEFINE c == Gone(r, "answered", req[r].h.failed)
  <1>3. /\ c \in Reqs /\ c.pc = "answered" /\ c.code = req[r].h.failed
        /\ c.h = cluster_get /\ c.before = req[r].before
    BY <1>1, <1>2, GoneFacts
  <1>4. req' = [req EXCEPT ![r] = c]
    BY DEF CommitFails
  <1> HIDE DEF c
  <1>5. RequestInv(r, c) /\ RowInv(r, c)
    BY <1>1, <1>2, <1>3, IdleTyped DEF RequestInv, RowInv
  <1> QED BY <1>1, <1>2, <1>3, <1>4, <1>5, IdleTyped, QuietStep

-----------------------------------------------------------------------------
(* Steps that announce or change something *)

LEMMA PublishKeeps ==
    ASSUME RegistryInv, NEW r \in Requests, Publish(r)
    PROVE  RegistryInv'
  <1>1. /\ req[r] \in Reqs /\ req \in [Requests -> Reqs]
        /\ RequestInv(r, req[r]) /\ RowInv(r, req[r])
        /\ req[r].pc = "commit" /\ In(log, r) /\ UNCHANGED <<table, phase, pub, rows, pending, used, log>>
    BY RequestFacts DEF Publish
  <1> DEFINE c == Moved(req[r], "respond")
             e == Item(r, req[r].id, req[r].tenant)
  <1>2. /\ c \in Reqs /\ c.pc = "respond"
        /\ c.h = req[r].h /\ c.id = req[r].id /\ c.tenant = req[r].tenant
        /\ c.name = req[r].name /\ c.before = req[r].before /\ c.code = req[r].code
    BY <1>1, MovedFacts
  <1>3. req' = [req EXCEPT ![r] = c]
    BY DEF Publish, Moved
  <1>4. e \in Range(log) /\ e.req = r /\ In(log, r)
    BY <1>1 DEF RequestInv, Item, In
  <1>5. bus' = bus \/ bus' = Append(bus, e)
    BY DEF Publish
  <1> HIDE DEF c, e
  <1>6. RequestInv(r, c) /\ RowInv(r, c)
    BY <1>1, <1>2, <1>4 DEF RequestInv, RowInv
  <1>7. CASE bus' = bus
    BY <1>1, <1>2, <1>3, <1>6, <1>7, QuietStep, NothingPending
  <1>8. CASE bus' = Append(bus, e)
    <2>1. /\ TypeOK /\ TableInv /\ RealTimeOrder /\ LocksInv
          /\ bus \in Seq(Items) /\ log \in Seq(Items)
      BY DEF RegistryInv, TypeOK
    <2>2. e \in Items
      BY <1>4, <2>1, SeqGet DEF Range
    <2>3. /\ req' \in [Requests -> Reqs] /\ req'[r] = c
          /\ \A q \in Requests \ {r} : req'[q] = req[q]
      BY <1>1, <1>2, <1>3
    <2>4. bus' \in Seq(Items) /\ \A q \in Requests \ {r} : In(bus', q) <=> In(bus, q)
      BY <1>4, <1>8, <2>1, <2>2, AppendFacts, AppendIn
    <2>5. TypeOK' /\ TableInv' /\ LocksInv'
      <3>1. Items' = Items
        BY <1>1 DEF Items
      <3>2. TypeOK'
        BY <1>1, <2>1, <2>3, <2>4, <3>1 DEF TypeOK
      <3>3. TableInv'
        BY <1>1, <2>1 DEF TableInv
      <3>4. LocksInv'
        BY <1>1, <2>1 DEF LocksInv
      <3> QED BY <3>2, <3>3, <3>4
    <2>6. \A q \in Requests : req'[q].before = req[q].before /\ req'[q].code = req[q].code
      BY <1>2, <2>3
    <2>7. RealTimeOrder'
      <3> DEFINE past == [q \in Requests |-> req[q].before]
      <3>1. \A i, j \in DOMAIN bus : i < j => bus[j].req \notin past[bus[i].req]
        BY <2>1, ItemFacts DEF RealTimeOrder
      <3>2. \A i \in DOMAIN bus : e.req \notin past[bus[i].req]
        BY <1>1, <1>4, <2>1, ItemFacts, NotPast
      <3>3. \A i, j \in DOMAIN bus' : i < j => bus'[j].req \notin past[bus'[i].req]
        <4> HIDE DEF past
        <4>1. \A i, j \in DOMAIN Append(bus, e) :
                i < j => Append(bus, e)[j].req \notin past[Append(bus, e)[i].req]
          BY <2>1, <2>2, <3>1, <3>2, AppendOrder
        <4> QED BY <1>8, <4>1
      <3>4. \A i \in DOMAIN bus' : bus'[i].req \in Requests
        BY <2>4, ItemRequest
      <3>5. \A i \in DOMAIN log : log[i].req \in Requests
        BY <2>1, ItemFacts
      <3>6. \A q \in Requests : past[q] = req'[q].before
        BY <2>6
      <3> HIDE DEF past
      <3>7. \A i, j \in DOMAIN bus' : i < j => bus'[j].req \notin req'[bus'[i].req].before
        BY <3>3, <3>4, <3>6
      <3>8. ASSUME NEW i \in DOMAIN log, NEW j \in DOMAIN log, i < j,
                   log[j].req \in req'[log[i].req].before
            PROVE  req'[log[j].req].code \in {409, 500} /\ log[i].id # log[j].id
        BY <2>1, <2>6, <3>5, <3>8 DEF RealTimeOrder
      <3> QED BY <1>1, <3>7, <3>8 DEF RealTimeOrder
    <2>8. ASSUME NEW q \in Requests PROVE RequestInv(q, req[q])' /\ RowInv(q, req[q])'
      <3>1. RequestInv(q, req'[q]) /\ RowInv(q, req'[q])
        BY <1>6, <2>3, RequestFacts
      <3>2. \A x \in req'[q].before : req'[x].pc = "answered"
        <4> SUFFICES ASSUME NEW x \in req'[q].before PROVE req'[x].pc = "answered"
          OBVIOUS
        <4>1. x \in Requests
          BY <2>3 DEF Reqs
        <4>2. req[x].pc = "answered"
          BY <3>1 DEF RequestInv
        <4> QED BY <1>1, <2>3, <4>1, <4>2
      <3>3. q = r => req'[q].pc = "respond"
        BY <1>2, <2>3
      <3>4. RowInv(q, req[q])'
        BY <1>1, <3>1 DEF RowInv
      <3> QED BY <1>1, <2>4, <3>1, <3>2, <3>3, <3>4 DEF RequestInv, Item
    <2>9. ASSUME NEW d \in pending PROVE PendingInv(d)'
      <3>1. PendingInv(d) /\ d.req \in Requests /\ d.req # r
        BY <1>4, PendingFacts, NothingPending
      <3>2. \A i \in DOMAIN log : log[i].id = d.id => d.req \notin req'[log[i].req].before
        BY <2>1, <2>6, <3>1, ItemFacts DEF PendingInv
      <3>3. Legal(d.id, d.row)'
        BY <1>1, <3>1 DEF PendingInv, Legal
      <3> QED BY <1>1, <2>3, <3>1, <3>2, <3>3 DEF PendingInv
    <2> QED BY <1>1, <2>5, <2>7, <2>8, <2>9 DEF RegistryInv
  <1> QED BY <1>5, <1>7, <1>8

\* What the statements of the handlers may send: the conditions under which a
\* new transaction keeps the invariant.
Sound(r, id, row, tenant) ==
    /\ id \in Ids /\ row \in Row \cup {NoRow} /\ Legal(id, row) /\ ~Locked(id)
    /\ tenant = (IF row = NoRow THEN rows[id] ELSE row).tenant
    /\ table = "agents" => \A d \in pending :
          ~(d.row.tenant = row.tenant /\ d.row.name = row.name)
    /\ table = "clusters" /\ rows[id] = NoRow => id \notin used
    /\ req[r].h.kind = "upsert" => row # NoRow /\ row.name = req[r].name

\* Each statement is sound.
LEMMA NewRowFacts ==
    ASSUME NEW r \in Requests, NEW tenant \in TenantIds \cup Ids, req[r].name \in Names
    PROVE  /\ NewRow(r, tenant) \in Row /\ NewRow(r, tenant) # NoRow
           /\ NewRow(r, tenant).tenant = tenant /\ NewRow(r, tenant).name = req[r].name
  BY NoRowAssumption DEF NewRow, Row

LEMMA TxSound ==
    ASSUME RegistryInv, NEW r \in Requests,
           Insert(r) \/ Claim(r) \/ Upsert(r) \/ Update(r) \/ Delete(r)
    PROVE  \E id, row, tenant : Send(r, id, row, tenant) /\ Sound(r, id, row, tenant)
  <1>1. /\ RequestInv(r, req[r]) /\ RowInv(r, req[r]) /\ SoundHandler(table, req[r].h)
        /\ req[r].pc = "tx"
    BY RequestFacts DEF Insert, Claim, Upsert, Update, Delete
  <1>2. /\ TableInv /\ NoRow \notin Row
        /\ \A id \in Ids : rows[id] # NoRow =>
              rows[id] \in Row /\ rows[id].tenant \in TenantIds \cup Ids
    BY NoRowAssumption, RowFacts DEF RegistryInv
  <1>a. \A id \in Ids \ used : rows[id] = NoRow /\ ~Locked(id)
    BY <1>2, PendingFacts DEF TableInv, PendingInv, Locked
  <1>3. CASE Insert(r)
    <2>1. PICK id \in Ids \ used : Send(r, id, NewRow(r, req[r].tenant), req[r].tenant)
      BY <1>3 DEF Insert
    <2> DEFINE row == NewRow(r, req[r].tenant)
    <2>2. row \in Row /\ row # NoRow /\ row.tenant = req[r].tenant /\ row.name = req[r].name
      BY <1>1, <1>3, NewRowFacts DEF Insert, RequestInv
    <2> HIDE DEF row
    <2>3. rows[id] = NoRow /\ ~Locked(id)
      BY <1>a
    <2>4. table \notin {"agents", "tenants"} /\ req[r].h.kind = "insert"
      BY <1>1, <1>3 DEF Insert, SoundHandler
    <2>5. Sound(r, id, row, req[r].tenant)
      BY <2>2, <2>3, <2>4 DEF Sound, Legal
    <2> QED BY <2>1, <2>5 DEF row
  <1>4. CASE Claim(r)
    <2> DEFINE id == req[r].id
               row == NewRow(r, id)
    <2>1. Send(r, id, row, id) /\ rows[id] = NoRow /\ ~Locked(id) /\ req[r].h.kind = "claim"
      BY <1>4 DEF Claim
    <2>2. id \in Ids /\ req[r].name \in Names
      BY <1>1, <2>1 DEF RequestInv
    <2>3. row \in Row /\ row # NoRow /\ row.tenant = id
      BY <2>2, NewRowFacts
    <2> HIDE DEF row, id
    <2>4. table = "tenants"
      BY <1>1, <2>1 DEF SoundHandler
    <2>5. Sound(r, id, row, id)
      BY <2>1, <2>2, <2>3, <2>4 DEF Sound, Legal
    <2> QED BY <2>1, <2>5
  <1>5. CASE Upsert(r)
    <2>1. PICK id \in IF SameAgent(r) = {} THEN Ids \ used ELSE SameAgent(r) :
             Send(r, id, NewRow(r, req[r].tenant), req[r].tenant)
      BY <1>5 DEF Upsert
    <2> DEFINE row == NewRow(r, req[r].tenant)
    <2>2. row \in Row /\ row # NoRow /\ row.tenant = req[r].tenant /\ row.name = req[r].name
      BY <1>1, <1>5, NewRowFacts DEF Upsert, RequestInv
    <2> HIDE DEF row
    <2>3. table = "agents" /\ req[r].h.kind = "upsert"
      BY <1>1, <1>5 DEF Upsert, SoundHandler
    <2>a. \A d \in pending : ~(d.row.tenant = row.tenant /\ d.row.name = row.name)
      BY <1>5, <2>2 DEF Upsert
    <2>4. CASE SameAgent(r) = {}
      <3>1. id \in Ids /\ rows[id] = NoRow /\ ~Locked(id)
        BY <1>a, <2>1, <2>4
      <3>2. \A i \in Ids : rows[i] # NoRow =>
               ~(rows[i].tenant = row.tenant /\ rows[i].name = row.name)
        BY <2>2, <2>4 DEF SameAgent
      <3>3. Sound(r, id, row, req[r].tenant)
        BY <2>2, <2>3, <2>a, <3>1, <3>2 DEF Sound, Legal
      <3> QED BY <2>1, <3>3 DEF row
    <2>5. CASE SameAgent(r) # {}
      <3>1. id \in Ids /\ rows[id] # NoRow
            /\ rows[id].tenant = row.tenant /\ rows[id].name = row.name
        BY <2>1, <2>2, <2>5 DEF SameAgent
      <3>2. ~Locked(id)
        <4> SUFFICES ASSUME NEW d \in pending, d.id = id PROVE FALSE
          BY DEF Locked
        <4>1. Legal(d.id, d.row)
          BY PendingFacts DEF PendingInv
        <4> QED BY <2>3, <2>a, <3>1, <4>1 DEF Legal
      <3>3. \A i \in Ids : rows[i] # NoRow /\ rows[i].tenant = row.tenant
                                           /\ rows[i].name = row.name => i = id
        BY <1>2, <2>3, <3>1 DEF TableInv
      <3>4. Sound(r, id, row, req[r].tenant)
        BY <2>2, <2>3, <2>a, <3>1, <3>2, <3>3 DEF Sound, Legal
      <3> QED BY <2>1, <3>4 DEF row
    <2> QED BY <2>4, <2>5
  <1>6. CASE Update(r)
    <2> DEFINE id == req[r].id
               row == [rows[id] EXCEPT !.by = r]
    <2>1. Send(r, id, row, rows[id].tenant) /\ rows[id] # NoRow /\ ~Locked(id)
          /\ req[r].h.kind = "update"
      BY <1>6 DEF Update
    <2>2. id \in Ids
      BY <1>1, <2>1 DEF RequestInv
    <2>3. rows[id] \in Row
      BY <1>2, <2>1, <2>2
    <2>4. row \in Row /\ row.tenant = rows[id].tenant /\ row.name = rows[id].name
      BY <2>3 DEF Row
    <2> HIDE DEF row, id
    <2>5. table = "tenants" => rows[id].tenant = id
      BY <1>2, <2>1, <2>2 DEF TableInv
    <2>6. Legal(id, row)
      BY <1>2, <2>1, <2>2, <2>4, <2>5 DEF Legal, TableInv
    <2>7. ASSUME table = "agents", NEW d \in pending,
                 d.row.tenant = row.tenant, d.row.name = row.name
          PROVE  FALSE
      <3>1. Legal(d.id, d.row)
        BY PendingFacts DEF PendingInv
      <3>2. id = d.id
        BY <2>1, <2>2, <2>4, <2>7, <3>1 DEF Legal
      <3> QED BY <2>1, <3>2 DEF Locked
    <2>8. Sound(r, id, row, rows[id].tenant)
      BY <1>2, <2>1, <2>2, <2>4, <2>6, <2>7 DEF Sound
    <2> QED BY <2>1, <2>8
  <1>7. CASE Delete(r)
    <2> DEFINE id == req[r].id
               tenant == IF req[r].h.first THEN req[r].tenant ELSE id
    <2>1. Send(r, id, NoRow, tenant) /\ rows[id] # NoRow /\ ~Locked(id)
          /\ req[r].h.kind = "delete"
      BY <1>7 DEF Delete
    <2>2. id \in Ids
      BY <1>1, <2>1 DEF RequestInv
    <2>3. table = IF req[r].h.first THEN "clusters" ELSE "tenants"
      BY <1>1, <2>1 DEF SoundHandler
    <2>4. tenant = rows[id].tenant
      <3>1. CASE req[r].h.first
        BY <1>1, <2>1, <3>1 DEF RowInv
      <3>2. CASE ~req[r].h.first
        BY <1>2, <2>1, <2>2, <2>3, <3>2 DEF TableInv
      <3> QED BY <3>1, <3>2
    <2> HIDE DEF id, tenant
    <2>5. Sound(r, id, NoRow, tenant)
      BY <1>2, <2>1, <2>2, <2>3, <2>4 DEF Sound, Legal
    <2> QED BY <2>1, <2>5
  <1> QED BY <1>3, <1>4, <1>5, <1>6, <1>7

\* The request while its COMMIT is on its way.
Sent(c, id, tenant) == [c EXCEPT !.pc = "commit", !.id = id, !.tenant = tenant]

LEMMA SentFacts ==
    ASSUME NEW c \in Reqs, NEW id \in Ids, NEW tenant \in TenantIds \cup Ids
    PROVE  LET m == Sent(c, id, tenant)
           IN  /\ m \in Reqs /\ m.pc = "commit" /\ m.code = c.code /\ m.id = id
               /\ m.tenant = tenant /\ m.h = c.h /\ m.name = c.name /\ m.before = c.before
  <1>1. "commit" \in InFlight
    BY DEF InFlight
  <1> QED BY <1>1 DEF Sent, Reqs

\* The tenant of a change is a tenant.
LEMMA ChangeTenant ==
    ASSUME RegistryInv, NEW id \in Ids, NEW row \in Row \cup {NoRow}, Legal(id, row)
    PROVE  (IF row = NoRow THEN rows[id] ELSE row).tenant \in TenantIds \cup Ids
  <1>1. CASE row = NoRow
    BY <1>1, RowFacts DEF Legal
  <1>2. CASE row # NoRow
    <2>1. row \in Row
      BY <1>2
    <2>2. row.tenant \in TenantIds \cup Ids
      BY <2>1 DEF Row
    <2> QED BY <1>2, <2>2
  <1> QED BY <1>1, <1>2

LEMMA SendKeeps ==
    ASSUME RegistryInv, NEW r \in Requests, req[r].pc = "tx",
           NEW id, NEW row, NEW tenant, Send(r, id, row, tenant), Sound(r, id, row, tenant)
    PROVE  RegistryInv'
  <1>1. /\ req[r] \in Reqs /\ req \in [Requests -> Reqs]
        /\ RequestInv(r, req[r]) /\ SoundHandler(table, req[r].h)
    BY RequestFacts
  <1>2. /\ TypeOK /\ TableInv /\ RealTimeOrder /\ LocksInv
        /\ pending \subseteq Transactions /\ used \subseteq Ids
        /\ log \in Seq(Items) /\ bus \in Seq(Items)
    BY DEF RegistryInv, TypeOK
  <1>3. id \in Ids /\ row \in Row \cup {NoRow} /\ Legal(id, row) /\ ~Locked(id)
        /\ tenant = (IF row = NoRow THEN rows[id] ELSE row).tenant
    BY DEF Sound
  <1>4. tenant \in TenantIds \cup Ids
    BY <1>3, ChangeTenant
  <1> DEFINE t == [req |-> r, id |-> id, row |-> row]
             c == Sent(req[r], id, tenant)
  <1>5. /\ pending' = pending \cup {t} /\ used' = used \cup {id}
        /\ req' = [req EXCEPT ![r] = c] /\ UNCHANGED <<table, phase, pub, rows, log, bus>>
    BY DEF Send, Sent
  <1>6. t \in Transactions /\ t.req = r /\ t.id = id /\ t.row = row
    BY <1>3 DEF Transactions
  <1>7. /\ c \in Reqs /\ c.pc = "commit" /\ c.code = req[r].code /\ c.id = id
        /\ c.tenant = tenant /\ c.h = req[r].h /\ c.name = req[r].name
        /\ c.before = req[r].before
    BY <1>1, <1>3, <1>4, SentFacts
  <1> HIDE DEF t, c
  <1>8. /\ req' \in [Requests -> Reqs] /\ req'[r] = c
        /\ \A q \in Requests \ {r} : req'[q] = req[q]
        /\ \A q \in Requests : req'[q].before = req[q].before /\ req'[q].code = req[q].code
    BY <1>1, <1>5, <1>7
  <1>9. /\ \A d \in pending : d.req # r /\ d.id # id
        /\ ~In(log, r) /\ ~In(bus, r) /\ req[r].h.kind \in Writes
    BY <1>1, <1>3, NothingPending DEF Locked, RequestInv
  <1>10. TypeOK' /\ TableInv'
    BY <1>2, <1>3, <1>5, <1>6, <1>8 DEF TypeOK, TableInv, Items
  <1>11. RealTimeOrder'
    <2>1. /\ \A i \in DOMAIN bus : bus[i].req \in Requests
          /\ \A i \in DOMAIN log : log[i].req \in Requests
      BY <1>2, ItemFacts
    <2> QED BY <1>2, <1>5, <1>8, <2>1 DEF RealTimeOrder
  <1>12. LocksInv'
    <2>1. table = "agents" => \A d \in pending :
             ~(d.row.tenant = row.tenant /\ d.row.name = row.name)
      BY DEF Sound
    <2> QED BY <1>2, <1>5, <1>6, <1>9, <2>1 DEF LocksInv
  <1>13. ASSUME NEW q \in Requests PROVE RequestInv(q, req[q])'
    <2>1. RequestInv(q, req[q])
      BY RequestFacts
    <2>2. \A x \in req'[q].before : req'[x].pc = "answered"
      <3> SUFFICES ASSUME NEW x \in req'[q].before PROVE req'[x].pc = "answered"
        OBVIOUS
      <3>1. x \in Requests
        BY <1>8 DEF Reqs
      <3>2. req[x].pc = "answered"
        BY <1>8, <2>1 DEF RequestInv
      <3> QED BY <1>8, <3>1, <3>2
    <2>3. CASE q = r
      BY <1>5, <1>7, <1>8, <1>9, <2>1, <2>2, <2>3 DEF RequestInv
    <2>4. CASE q # r
      BY <1>5, <1>8, <2>1, <2>2, <2>4 DEF RequestInv, Item
    <2> QED BY <2>3, <2>4
  <1>14. ASSUME NEW q \in Requests PROVE RowInv(q, req[q])'
    <2>1. CASE q = r
      BY <1>5, <1>7, <1>8, <1>9, <2>1 DEF RowInv
    <2>2. CASE q # r
      <3>1. req'[q] = req[q] /\ RowInv(q, req[q]) /\ SoundHandler(table, req[q].h)
        BY <1>8, <2>2, RequestFacts
      <3>2. ASSUME req[q].pc = "tx", req[q].h.first, id = req[q].id, row # NoRow
            PROVE  row.tenant = req[q].tenant
        <4>1. req[q].id \in used /\ (rows[id] # NoRow => rows[id].tenant = req[q].tenant)
          BY <3>1, <3>2 DEF RowInv
        <4>2. table = "clusters"
          BY <3>1, <3>2 DEF SoundHandler
        <4>3. rows[id] # NoRow
          BY <3>2, <4>1, <4>2 DEF Sound
        <4> QED BY <1>3, <3>2, <4>1, <4>3 DEF Legal
      <3> QED BY <1>5, <1>6, <3>1, <3>2 DEF RowInv
    <2> QED BY <2>1, <2>2
  <1>15. ASSUME NEW d \in pending' PROVE PendingInv(d)'
    <2>1. \A x, y : Legal(x, y)' <=> Legal(x, y)
      BY <1>5 DEF Legal
    <2>2. CASE d \in pending
      <3>1. PendingInv(d) /\ d.req \in Requests /\ d.req # r
        BY <1>9, <2>2, PendingFacts
      <3>2. \A i \in DOMAIN log : log[i].id = d.id => d.req \notin req'[log[i].req].before
        BY <1>2, <1>8, <3>1, ItemFacts DEF PendingInv
      <3> QED BY <1>5, <1>8, <2>1, <3>1, <3>2 DEF PendingInv
    <2>3. CASE d = t
      <3>1. \A i \in DOMAIN log : r \notin req'[log[i].req].before
        BY <1>2, <1>8, ItemFacts, NotPast
      <3>2. c.h.kind = "upsert" => c.name = row.name
        BY <1>7 DEF Sound
      <3> QED BY <1>3, <1>5, <1>6, <1>7, <1>8, <1>9, <2>1, <2>3, <3>1, <3>2 DEF PendingInv
    <2> QED BY <1>5, <2>2, <2>3
  <1> QED BY <1>10, <1>11, <1>12, <1>13, <1>14, <1>15 DEF RegistryInv

-----------------------------------------------------------------------------
(* Postgres *)

\* The transaction takes effect, with its handler waiting, answered or gone.
LEMMA CommitKeeps ==
    ASSUME RegistryInv, NEW c \in pending, Commit(c)
    PROVE  RegistryInv'
  <1>1. /\ TypeOK /\ TableInv /\ RealTimeOrder /\ LocksInv
        /\ log \in Seq(Items) /\ bus \in Seq(Items) /\ req \in [Requests -> Reqs]
        /\ rows \in [Ids -> Row \cup {NoRow}] /\ pending \subseteq Transactions
    BY DEF RegistryInv, TypeOK
  <1>2. /\ PendingInv(c) /\ Legal(c.id, c.row) /\ c.req \in Requests /\ c.id \in Ids
        /\ c.row \in Row \cup {NoRow} /\ c.id \in used
    BY PendingFacts DEF PendingInv
  <1> DEFINE r == c.req
             id == c.id
             row == c.row
             tenant == (IF row = NoRow THEN rows[id] ELSE row).tenant
             e == Item(r, id, tenant)
  <1>3. tenant \in TenantIds \cup Ids
    BY <1>2, ChangeTenant
  <1>4. /\ rows' = [rows EXCEPT ![id] = row] /\ log' = Append(log, e)
        /\ pending' = pending \ {c} /\ UNCHANGED <<table, phase, pub, used, req, bus>>
    BY DEF Commit
  <1> HIDE DEF tenant
  <1>5. e \in Items /\ e.req = r /\ e.id = id
    BY <1>2, <1>3 DEF Item, Items
  <1>6. \A d \in pending' : d \in pending /\ d.req # r /\ d.id # id
    BY <1>1, <1>4 DEF LocksInv
  <1>7. /\ log' \in Seq(Items) /\ Range(log') = Range(log) \cup {e}
        /\ \A q : In(log', q) <=> In(log, q) \/ q = r
    <2> HIDE DEF e, r
    <2> QED BY <1>1, <1>4, <1>5, AppendFacts, AppendRange, AppendIn
  <1>8. /\ rows' \in [Ids -> Row \cup {NoRow}] /\ rows'[id] = row
        /\ \A i \in Ids \ {id} : rows'[i] = rows[i]
    BY <1>1, <1>2, <1>4
  <1>9. /\ Len(log) \in Nat /\ DOMAIN log = 1..Len(log) /\ DOMAIN log' = 1..(Len(log) + 1)
        /\ log'[Len(log) + 1] = e /\ \A i \in 1..Len(log) : log'[i] = log[i]
    BY <1>1, <1>4, <1>5, AppendFacts
  <1> HIDE DEF r, id, row, e
  <1>10. TypeOK'
    BY <1>1, <1>4, <1>7, <1>8 DEF TypeOK, Items
  <1>11. TableInv'
    <2>1. ASSUME NEW i \in Ids, rows'[i] # NoRow PROVE i \in used'
      BY <1>1, <1>2, <1>4, <1>8, <2>1 DEF TableInv, id
    <2>2. ASSUME table = "tenants", NEW i \in Ids, rows'[i] # NoRow PROVE rows'[i].tenant = i
      BY <1>1, <1>2, <1>8, <2>2 DEF TableInv, Legal, id, row
    <2>3. ASSUME table = "agents", NEW i \in Ids, NEW j \in Ids,
                 rows'[i] # NoRow, rows'[j] # NoRow,
                 rows'[i].tenant = rows'[j].tenant, rows'[i].name = rows'[j].name
          PROVE  i = j
      <3>1. \A x \in Ids : rows[x] # NoRow /\ rows[x].tenant = row.tenant
                                          /\ rows[x].name = row.name => x = id
        BY <1>2, <2>3 DEF Legal, id, row
      <3>2. CASE i = id \/ j = id
        BY <1>8, <2>3, <3>1, <3>2
      <3>3. CASE i # id /\ j # id
        BY <1>1, <1>8, <2>3, <3>3 DEF TableInv
      <3> QED BY <3>2, <3>3
    <2> QED BY <1>4, <2>1, <2>2, <2>3 DEF TableInv
  <1>12. RealTimeOrder'
    <2>1. ASSUME NEW i \in DOMAIN log', NEW j \in DOMAIN log', i < j,
                 log'[j].req \in req[log'[i].req].before
          PROVE  req[log'[j].req].code \in {409, 500} /\ log'[i].id # log'[j].id
      <3>1. i \in 1..Len(log) /\ log'[i] = log[i] /\ log[i].req \in Requests
        <4>1. i \in 1..Len(log)
          BY <1>9, <2>1
        <4> QED BY <1>1, <1>9, <4>1, ItemFacts
      <3>2. CASE j \in 1..Len(log)
        BY <1>1, <1>9, <2>1, <3>1, <3>2 DEF RealTimeOrder
      <3>3. CASE j = Len(log) + 1
        <4>1. log'[j].req = r /\ log'[j].id = id /\ r \in req[log[i].req].before
          BY <1>5, <1>9, <2>1, <3>1, <3>3
        <4>2. req[r].pc = "answered"
          BY <3>1, <4>1, RequestFacts DEF RequestInv
        <4> QED BY <1>2, <1>9, <3>1, <4>1, <4>2 DEF PendingInv, r, id
      <3> QED BY <1>9, <2>1, <3>2, <3>3
    <2> QED BY <1>1, <1>4, <2>1 DEF RealTimeOrder
  <1>13. LocksInv'
    BY <1>1, <1>4 DEF LocksInv
  <1>14. ASSUME NEW q \in Requests PROVE RequestInv(q, req[q])'
    <2>1. RequestInv(q, req[q])
      BY RequestFacts
    <2>2. CASE q = r
      <3>1. /\ req[r].pc \in {"commit", "answered", "aborted"}
            /\ req[r].pc = "answered" => req[r].code \in {409, 500}
            /\ req[r].pc = "commit" => req[r].id = id /\ req[r].tenant = tenant
        BY <1>2 DEF PendingInv, r, id, row, tenant
      <3>2. req[r].pc = "commit" => Item(r, req[r].id, req[r].tenant) \in Range(log')
        BY <1>7, <3>1 DEF e
      <3> QED BY <1>4, <2>1, <2>2, <3>1, <3>2 DEF RequestInv, Item
    <2>3. CASE q # r
      BY <1>4, <1>7, <2>1, <2>3 DEF RequestInv, Item
    <2> QED BY <2>2, <2>3
  <1>15. ASSUME NEW q \in Requests PROVE RowInv(q, req[q])'
    <2>1. RowInv(q, req[q]) /\ SoundHandler(table, req[q].h) /\ req[q] \in Reqs
      BY RequestFacts
    <2>2. ASSUME req[q].pc = "tx", req[q].h.first, rows'[req[q].id] # NoRow
          PROVE  rows'[req[q].id].tenant = req[q].tenant
      <3>1. req[q].id \in Ids
        BY <1>1, <2>1, <2>2 DEF RowInv, TypeOK
      <3>2. CASE req[q].id = id
        BY <1>8, <2>1, <2>2, <3>2 DEF RowInv, id, row
      <3>3. CASE req[q].id # id
        BY <1>8, <2>1, <2>2, <3>1, <3>3 DEF RowInv
      <3> QED BY <3>2, <3>3
    <2>3. ASSUME req[q].pc \in {"commit", "respond", "answered"}, req[q].h.kind = "upsert",
                 In(log', q)
          PROVE  /\ req[q].id \in Ids /\ rows'[req[q].id] # NoRow
                 /\ rows'[req[q].id].tenant = req[q].tenant
                 /\ rows'[req[q].id].name = req[q].name
      <3>1. table = "agents"
        BY <2>1, <2>3 DEF SoundHandler
      <3>2. row # NoRow
        BY <1>2, <3>1 DEF Legal, id, row
      <3>3. CASE q = r
        <4>1. req[q].pc = "commit"
          BY <1>2, <2>3, <3>3 DEF PendingInv, r, Writes
        <4>2. req[q].id = id /\ req[q].tenant = row.tenant /\ req[q].name = row.name
          BY <1>2, <2>3, <3>2, <3>3, <4>1 DEF PendingInv, r, id, row
        <4> QED BY <1>2, <1>8, <3>2, <4>2 DEF id
      <3>4. CASE q # r
        <4>1. /\ req[q].id \in Ids /\ rows[req[q].id] # NoRow
              /\ rows[req[q].id].tenant = req[q].tenant
              /\ rows[req[q].id].name = req[q].name
          BY <1>7, <2>1, <2>3, <3>4 DEF RowInv
        <4>2. CASE req[q].id = id
          BY <1>2, <1>8, <3>2, <4>1, <4>2 DEF Legal, id, row
        <4>3. CASE req[q].id # id
          BY <1>8, <4>1, <4>3
        <4> QED BY <4>2, <4>3
      <3> QED BY <3>3, <3>4
    <2> QED BY <1>4, <2>1, <2>2, <2>3 DEF RowInv
  <1>16. ASSUME NEW d \in pending' PROVE PendingInv(d)'
    <2>1. /\ PendingInv(d) /\ d.req # r /\ d.id # id /\ d \in pending /\ d.id \in Ids
      BY <1>6, PendingFacts
    <2>2. Legal(d.id, d.row)'
      <3>1. table = "agents" =>
               ~(row.tenant = d.row.tenant /\ row.name = d.row.name)
        BY <1>1, <1>4, <2>1 DEF LocksInv, id, row
      <3>2. Legal(d.id, d.row) /\ rows'[d.id] = rows[d.id]
        BY <1>8, <2>1 DEF PendingInv
      <3> QED BY <1>4, <1>8, <3>1, <3>2 DEF Legal
    <2>3. ~In(log', d.req) /\ rows'[d.id] = rows[d.id]
      BY <1>7, <1>8, <2>1 DEF PendingInv
    <2>4. ASSUME NEW i \in DOMAIN log', log'[i].id = d.id
          PROVE  d.req \notin req[log'[i].req].before
      <3>1. i \in 1..Len(log)
        BY <1>5, <1>9, <2>1, <2>4
      <3> QED BY <1>9, <2>1, <2>4, <3>1 DEF PendingInv
    <2> QED BY <1>4, <2>1, <2>2, <2>3, <2>4 DEF PendingInv
  <1> QED BY <1>10, <1>11, <1>12, <1>13, <1>14, <1>15, <1>16 DEF RegistryInv

LEMMA DiscardKeeps ==
    ASSUME RegistryInv, NEW c \in pending, Discard(c)
    PROVE  RegistryInv'
  <1>1. pending' \subseteq pending /\ UNCHANGED <<table, phase, pub, rows, used, req, log, bus>>
    BY DEF Discard
  <1>2. TypeOK' /\ TableInv' /\ RealTimeOrder' /\ LocksInv'
    BY <1>1 DEF RegistryInv, TypeOK, TableInv, RealTimeOrder, LocksInv, Items
  <1>3. ASSUME NEW q \in Requests PROVE RequestInv(q, req[q])' /\ RowInv(q, req[q])'
    <2>1. RequestInv(q, req[q]) /\ RowInv(q, req[q])
      BY RequestFacts
    <2> QED BY <1>1, <2>1 DEF RequestInv, RowInv, Item
  <1>4. ASSUME NEW d \in pending' PROVE PendingInv(d)'
    <2>1. PendingInv(d)
      BY <1>1, PendingFacts
    <2> QED BY <1>1, <2>1 DEF PendingInv, Legal
  <1> QED BY <1>2, <1>3, <1>4 DEF RegistryInv

-----------------------------------------------------------------------------
(* The process *)

\* A crash ends what is in flight and leaves the table, the log, the bus and
\* the COMMITs that were sent.
LEMMA CrashKeeps == ASSUME RegistryInv, Crash PROVE RegistryInv'
  <1>1. /\ TypeOK /\ TableInv /\ RealTimeOrder /\ LocksInv /\ req \in [Requests -> Reqs]
        /\ UNCHANGED <<table, rows, pending, used, log, bus>>
        /\ phase' = "down" /\ pub' = FALSE
    BY DEF RegistryInv, TypeOK, Crash
  <1>2. ASSUME NEW q \in Requests
        PROVE  /\ req'[q] \in Reqs /\ req'[q].before = req[q].before
               /\ \/ req'[q] = req[q]
                  \/ /\ req[q].pc \in InFlight /\ req'[q].pc = "aborted"
                     /\ req'[q].h = cluster_get
    <2>1. req'[q] = IF req[q].pc \in InFlight THEN Gone(q, "aborted", 0) ELSE req[q]
      BY DEF Crash
    <2>2. req[q] \in Reqs
      BY <1>1
    <2> QED BY <2>1, <2>2, GoneFacts
  <1>3. req' \in [Requests -> Reqs]
    <2>1. req' = [q \in Requests |-> req'[q]]
      BY DEF Crash
    <2> QED BY <1>2, <2>1
  <1>4. TypeOK' /\ TableInv' /\ LocksInv'
    <2>1. Items' = Items
      BY <1>1 DEF Items
    <2>2. TypeOK'
      BY <1>1, <1>3, <2>1 DEF TypeOK
    <2>3. TableInv'
      BY <1>1 DEF TableInv
    <2>4. LocksInv'
      BY <1>1 DEF LocksInv
    <2> QED BY <2>2, <2>3, <2>4
  <1>5. RealTimeOrder'
    <2>1. ASSUME NEW i \in DOMAIN bus, NEW j \in DOMAIN bus, i < j
          PROVE  bus[j].req \notin req'[bus[i].req].before
      BY <1>1, <1>2, <2>1, ItemFacts DEF RealTimeOrder
    <2>2. ASSUME NEW i \in DOMAIN log, NEW j \in DOMAIN log, i < j,
                 log[j].req \in req'[log[i].req].before
          PROVE  req'[log[j].req].code \in {409, 500} /\ log[i].id # log[j].id
      <3>1. /\ log[i].req \in Requests /\ log[j].req \in Requests
            /\ log[j].req \in req[log[i].req].before
        BY <1>1, <1>2, <2>2, ItemFacts
      <3>2. req[log[j].req].code \in {409, 500} /\ log[i].id # log[j].id
        BY <1>1, <2>2, <3>1 DEF RealTimeOrder
      <3>3. req[log[j].req].pc = "answered"
        BY <3>1, NotPast
      <3> QED BY <1>2, <3>1, <3>2, <3>3 DEF InFlight
    <2> QED BY <1>1, <2>1, <2>2 DEF RealTimeOrder
  <1>6. ASSUME NEW q \in Requests PROVE RequestInv(q, req[q])' /\ RowInv(q, req[q])'
    <2>1. RequestInv(q, req[q]) /\ RowInv(q, req[q])
      BY RequestFacts
    <2>2. \A x \in req'[q].before : req'[x].pc = "answered"
      <3> SUFFICES ASSUME NEW x \in req'[q].before PROVE req'[x].pc = "answered"
        OBVIOUS
      <3>1. x \in Requests
        BY <1>3 DEF Reqs
      <3>2. req[x].pc = "answered"
        BY <1>2, <2>1 DEF RequestInv
      <3> QED BY <1>2, <3>1, <3>2 DEF InFlight
    <2>3. CASE req'[q] = req[q]
      BY <1>1, <2>1, <2>2, <2>3 DEF RequestInv, RowInv, Item
    <2>4. CASE req'[q].pc = "aborted" /\ req'[q].h = cluster_get
      BY <1>1, <2>1, <2>2, <2>4 DEF RequestInv, RowInv
    <2> QED BY <1>2, <2>3, <2>4
  <1>7. ASSUME NEW d \in pending PROVE PendingInv(d)'
    <2>1. PendingInv(d) /\ d.req \in Requests
      BY PendingFacts
    <2>2. \A i \in DOMAIN log : log[i].id = d.id => d.req \notin req'[log[i].req].before
      BY <1>1, <1>2, <2>1, ItemFacts DEF PendingInv
    <2>3. Legal(d.id, d.row)'
      BY <1>1, <2>1 DEF PendingInv, Legal
    <2>4. req'[d.req] = req[d.req] \/ req'[d.req].pc = "aborted"
      BY <1>2, <2>1
    <2> QED BY <1>1, <2>1, <2>2, <2>3, <2>4 DEF PendingInv
  <1> QED BY <1>1, <1>4, <1>5, <1>6, <1>7 DEF RegistryInv

LEMMA PhaseKeeps ==
    ASSUME RegistryInv, UNCHANGED <<table, rows, pending, used, req, log, bus>>,
           phase' \in {"up", "draining", "down"}, pub' \in BOOLEAN
    PROVE  RegistryInv'
  <1>1. TypeOK' /\ TableInv' /\ RealTimeOrder' /\ LocksInv'
    BY DEF RegistryInv, TypeOK, TableInv, RealTimeOrder, LocksInv, Items
  <1>2. ASSUME NEW q \in Requests PROVE RequestInv(q, req[q])' /\ RowInv(q, req[q])'
    <2>1. RequestInv(q, req[q]) /\ RowInv(q, req[q])
      BY RequestFacts
    <2> QED BY <2>1 DEF RequestInv, RowInv, Item
  <1>3. ASSUME NEW d \in pending PROVE PendingInv(d)'
    <2>1. PendingInv(d)
      BY PendingFacts
    <2> QED BY <2>1 DEF PendingInv, Legal
  <1> QED BY <1>1, <1>2, <1>3 DEF RegistryInv

LEMMA InitKeeps == Init => RegistryInv
  <1> SUFFICES ASSUME Init PROVE RegistryInv
    OBVIOUS
  <1>1. /\ table \in Tables /\ log = <<>> /\ bus = <<>> /\ pending = {}
        /\ \A id \in Ids : rows[id] = NoRow
        /\ \A r \in Requests : req[r] = Idle
    BY DEF Init
  <1>2. TypeOK
    BY IdleTyped DEF Init, TypeOK
  <1>3. TableInv /\ LocksInv
    BY <1>1 DEF TableInv, LocksInv
  <1>4. RealTimeOrder
    BY <1>1 DEF RealTimeOrder
  <1>5. \A r : ~In(log, r) /\ ~In(bus, r)
    BY <1>1 DEF In, Range
  <1>6. ASSUME NEW r \in Requests PROVE RequestInv(r, req[r]) /\ RowInv(r, req[r])
    BY <1>1, <1>5, IdleTyped DEF RequestInv, RowInv
  <1> QED BY <1>1, <1>2, <1>3, <1>4, <1>6 DEF RegistryInv

LEMMA NextKeeps == ASSUME RegistryInv, [Next]_vars PROVE RegistryInv'
  <1>1. ASSUME NEW r \in Requests, Arrive(r) \/ Step(r) PROVE RegistryInv'
    <2>1. CASE Insert(r) \/ Claim(r) \/ Upsert(r) \/ Update(r) \/ Delete(r)
      <3>1. req[r].pc = "tx"
        BY <2>1 DEF Insert, Claim, Upsert, Update, Delete
      <3> QED BY <2>1, <3>1, TxSound, SendKeeps
    <2> QED BY <1>1, <2>1, ArriveKeeps, ReadKeeps, GetFirstKeeps, CommitFailsKeeps,
               PublishKeeps, RespondKeeps DEF Step, Tx
  <1>2. CASE Signal \/ Stop \/ NewServer \/ UNCHANGED vars
    <2>1. phase \in {"up", "draining", "down"} /\ pub \in BOOLEAN
      BY DEF RegistryInv, TypeOK
    <2>2. /\ UNCHANGED <<table, rows, pending, used, req, log, bus>>
          /\ phase' \in {"up", "draining", "down"} /\ pub' \in BOOLEAN
      BY <1>2, <2>1 DEF Signal, Stop, NewServer, vars
    <2> QED BY <2>2, PhaseKeeps
  <1> QED BY <1>1, <1>2, CommitKeeps, DiscardKeeps, CrashKeeps DEF Next

-----------------------------------------------------------------------------
(* The theorems *)

LEMMA RegistryInvariant == Spec => []RegistryInv
  <1>1. RegistryInv /\ [Next]_vars => RegistryInv'
    BY NextKeeps
  <1> QED BY <1>1, InitKeeps, PTL DEF Spec

\* Every variable keeps its type, whatever the service and its handlers: an
\* item of the log or of the bus, in particular, names a key and a subject of
\* the service's own table.
THEOREM RegistryTyped == Spec => []TypeOK
  <1>1. RegistryInv => TypeOK
    BY DEF RegistryInv
  <1> QED BY <1>1, RegistryInvariant, PTL

\* Changes and events respect real time, across restarts too: only a change
\* that was answered with an error may come late, and never to a row that a
\* later request has changed.
THEOREM OrderIsReal == Spec => []RealTimeOrder
  <1>1. RegistryInv => RealTimeOrder
    BY DEF RegistryInv
  <1> QED BY <1>1, RegistryInvariant, PTL

\* A success was committed, a refusal was not and never will be.
THEOREM AnswersAreTrue == Spec => []AnswersTrue
  <1>1. RegistryInv => AnswersTrue
    BY RequestFacts DEF RequestInv, AnswersTrue, Answered, In
  <1> QED BY <1>1, RegistryInvariant, PTL

\* All heartbeats of an agent are answered with one id.
THEOREM AgentIdStable == Spec => []StableAgentId
  <1>1. ASSUME RegistryInv PROVE StableAgentId
    <2> SUFFICES ASSUME NEW q \in Answered, NEW r \in Answered,
                        req[q].h.kind = "upsert", req[q].code = 200,
                        req[r].h.kind = "upsert", req[r].code = 200,
                        req[q].tenant = req[r].tenant, req[q].name = req[r].name
                 PROVE  req[q].id = req[r].id
      BY DEF StableAgentId
    <2>1. q \in Requests /\ req[q].pc = "answered" /\ r \in Requests /\ req[r].pc = "answered"
      BY DEF Answered
    <2>2. /\ RowInv(q, req[q]) /\ RowInv(r, req[r]) /\ SoundHandler(table, req[q].h)
          /\ RequestInv(q, req[q]) /\ RequestInv(r, req[r])
      BY <1>1, <2>1, RequestFacts
    <2>a. In(log, q) /\ In(log, r)
      BY <2>1, <2>2 DEF RequestInv, Writes
    <2>3. table = "agents"
      BY <2>2 DEF SoundHandler
    <2> QED BY <1>1, <2>1, <2>2, <2>a, <2>3 DEF RowInv, RegistryInv, TableInv
  <1> QED BY <1>1, RegistryInvariant, PTL

\* The subjects are those of the ChangeFeed.
LEMMA FeedSubjects ==
    /\ Feed!Tables = Tables
    /\ \A r, id, tenant : table \in Tables => Feed!Item(r, id, tenant) = Item(r, id, tenant)
  <1>1. Feed!Tables = Tables
    BY DEF Tables, Feed!Tables
  <1>2. ASSUME NEW tenant PROVE Feed!Subject(table, tenant) = Subject(table, tenant)
    BY DEF Subject, PublishClusterEvent, PublishAgentEvent, PublishFindingEvent,
           PublishAssessmentEvent, PublishTenantEvent, NATSSubject, Feed!Subject,
           Feed!PublishClusterEvent, Feed!PublishAgentEvent, Feed!PublishFindingEvent,
           Feed!PublishAssessmentEvent, Feed!PublishTenantEvent, Feed!NATSSubject
  <1> QED BY <1>1, <1>2 DEF Item, Feed!Item

\* Every change of the service's state is a step of the ChangeFeed.
LEMMA FeedSteps == ASSUME RegistryInv, [Next]_vars PROVE [Feed!Next]_(Feed!feedVars)
  <1>1. ASSUME NEW c \in pending, Commit(c) PROVE Feed!Next
    <2>1. /\ Legal(c.id, c.row) /\ ~In(log, c.req)
          /\ c.req \in Requests /\ c.id \in Ids /\ c.row \in Row \cup {NoRow}
      BY PendingFacts DEF PendingInv
    <2>2. \A x \in Feed!Range(log) : x.req # c.req
      BY <2>1 DEF In, Range, Feed!Range
    <2>3. \A t : Feed!Item(c.req, c.id, t) = Item(c.req, c.id, t)
      BY FeedSubjects DEF RegistryInv, TypeOK
    <2>4. Feed!Change(c.req, c.id, c.row)
      BY <1>1, <2>1, <2>2, <2>3 DEF Feed!Change, Commit, Legal
    <2> QED BY <2>1, <2>4 DEF Feed!Next
  <1>2. ASSUME NEW r \in Requests, Publish(r) PROVE [Feed!Next]_(Feed!feedVars)
    <2>1. Item(r, req[r].id, req[r].tenant) \in Range(log) /\ ~In(bus, r)
      BY <1>2, RequestFacts DEF RequestInv, Publish
    <2>2. PICK e : e = Item(r, req[r].id, req[r].tenant)
      OBVIOUS
    <2>3. e \in Feed!Range(log) /\ e.req = r /\ e \notin Feed!Range(bus)
      BY <2>1, <2>2 DEF Item, In, Range, Feed!Range
    <2>4. (bus' = bus \/ bus' = Append(bus, e)) /\ UNCHANGED <<table, rows, log>>
      BY <1>2, <2>2 DEF Publish
    <2> QED BY <2>3, <2>4 DEF Feed!Next, Feed!Announce, Feed!feedVars
  <1>3. ASSUME NEW r \in Requests,
               Arrive(r) \/ ReadRow(r) \/ GetFirst(r) \/ Tx(r) \/ CommitFails(r)
                 \/ Respond(r)
        PROVE  UNCHANGED Feed!feedVars
    BY <1>3 DEF Arrive, Turned, Refused, Accepted, ReadRow, GetFirst, Tx, Insert, Claim,
                Upsert, Update, Delete, Send, NoRows, RolledBack, CommitFails, Respond,
                Feed!feedVars
  <1>4. CASE Signal \/ Stop \/ Crash \/ NewServer \/ UNCHANGED vars
              \/ \E c \in pending : Discard(c)
    BY <1>4 DEF Signal, Stop, Crash, NewServer, Discard, vars, Feed!feedVars
  <1> QED BY <1>1, <1>2, <1>3, <1>4 DEF Next, Step

\* The refinement: the rows, the commits and the events of a service, with any
\* number of handlers between the read, the write and the event, are those of
\* a ChangeFeed.
THEOREM RegistryImplementsFeed == Spec => ImplementsChangeFeed
  <1>1. Init => Feed!Init
    BY FeedSubjects DEF Init, Feed!Init
  <1>2. RegistryInv /\ [Next]_vars => [Feed!Next]_(Feed!feedVars)
    BY FeedSteps
  <1> QED BY <1>1, <1>2, RegistryInvariant, PTL DEF Spec, ImplementsChangeFeed, Feed!Spec

=============================================================================
