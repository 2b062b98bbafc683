-------------------------- MODULE ServiceRegistry --------------------------
(***************************************************************************)
(* A service that keeps one table of records (NOC, VDR, KIC or K-SVC): its *)
(* requests are handled concurrently, each write is one Postgres           *)
(* transaction followed by a best-effort event on NATS and the answer, and *)
(* the process may stop or crash between any two of these.  A COMMIT that  *)
(* was sent takes effect, or not, in a step of Postgres of its own: while  *)
(* the handler waits, after it gave up and answered, or after the process  *)
(* died.  A row stands for its tenant, the name it is known by and the     *)
(* request that wrote it last; all other columns are copied from the       *)
(* request.                                                                *)
(***************************************************************************)
EXTENDS RegistryRoutes, Sequences, Naturals

CONSTANTS
    Requests,    \* HTTP requests, each sent once
    Ids,         \* keys: UUIDs, or tenant ids in the table of the tenants
    TenantIds,   \* tenants that own rows
    Names,       \* (hostname, agent_type) of an agent
    NoRow        \* the absent row

Row == [tenant : TenantIds \cup Ids, name : Names, by : Requests]

ASSUME NoRowAssumption == NoRow \notin Row

None == "none"    \* a field that is not set

VARIABLES
    table,   \* the table of this service
    phase,   \* "up", "draining" (Shutdown waits for handlers) or "down"
    pub,     \* is the publisher connected (not nil)
    rows,    \* the table, as committed
    pending, \* the transactions whose COMMIT was sent and has not taken effect
    used,    \* the UUIDs handed out so far
    req,     \* the request goroutines
    log,     \* history: the committed changes, in order
    bus      \* the events NATS has taken, in order

vars == <<table, phase, pub, rows, pending, used, req, log, bus>>

Item(r, id, tenant) == [req |-> r, id |-> id, subject |-> Subject(table, tenant)]
Range(s) == {s[i] : i \in DOMAIN s}

Handlers == UNION {Routes[t] : t \in Tables}
InFlight == {"get", "read", "tx", "commit", "respond"}
Transactions == [req : Requests, id : Ids, row : Row \cup {NoRow}]

Codes == {200, 201, 204, 400, 401, 403, 404, 409, 422, 429, 500, 502}
Reqs == [pc : InFlight \cup {"idle", "answered", "aborted"}, h : Handlers,
         id : Ids \cup {None}, tenant : TenantIds \cup Ids \cup {None},
         name : Names \cup {None}, code : Codes \cup {0}, before : SUBSET Requests]

Idle == [pc |-> "idle", h |-> cluster_get, id |-> None, tenant |-> None, name |-> None,
         code |-> 0, before |-> {}]

Init ==
    /\ table \in Tables
    /\ phase = "up" /\ pub \in BOOLEAN
    /\ rows = [id \in Ids |-> NoRow]
    /\ pending = {} /\ used = {}
    /\ req = [r \in Requests |-> Idle]
    /\ log = <<>> /\ bus = <<>>

-----------------------------------------------------------------------------
Answer(r, code) == [req EXCEPT ![r].pc = "answered", ![r].code = code]

\* The answer to a request that has changed nothing.
Dismiss(r, code) == [req EXCEPT ![r] = [Idle EXCEPT !.pc = "answered", !.code = code]]

\* The goroutine of a request is gone without a success: what remains is that
\* it came after others.
Gone(r, pc, code) == [Idle EXCEPT !.pc = pc, !.code = code, !.before = req[r].before]

Answered == {q \in Requests : req[q].pc = "answered"}

\* RequireRole, RequireAnyRole: the administrator may do everything.
RequireRole(h, role) == role = "admin" \/ role \in h.roles

\* The middleware turns the request away: no token, too many requests, or a
\* role that is not enough.
Turned(r, h) ==
    /\ req[r].pc = "idle" /\ phase = "up"
    /\ \E role \in {"admin", "analyst", "readonly", "agent"} :
       \E code \in {401, 429} \cup (IF RequireRole(h, role) THEN {} ELSE {403}) :
          req' = Dismiss(r, code)
    /\ UNCHANGED <<table, phase, pub, rows, pending, used, log, bus>>

\* The handler decodes and validates the body.
Refused(r, h) ==
    /\ req[r].pc = "idle" /\ phase = "up"
    /\ \E code \in h.refuse : req' = Dismiss(r, code)
    /\ UNCHANGED <<table, phase, pub, rows, pending, used, log, bus>>

Accepted(r, h) ==
    /\ req[r].pc = "idle" /\ phase = "up"
    /\ \E id \in IF h.kind \in {"insert", "upsert", "list"} THEN {None} ELSE Ids,
          tenant \in IF h.kind \in {"insert", "upsert"} THEN TenantIds ELSE {None},
          name \in IF h.kind \in {"insert", "upsert", "claim"} THEN Names ELSE {None} :
          req' = [req EXCEPT ![r] =
              [pc |-> IF h.kind \notin Writes THEN "read" ELSE IF h.first THEN "get" ELSE "tx",
               h |-> h, id |-> id, tenant |-> tenant, name |-> name,
               code |-> 0, before |-> Answered]]
    /\ UNCHANGED <<table, phase, pub, rows, pending, used, log, bus>>

\* get, list and the billing handlers.
ReadRow(r) ==
    /\ req[r].pc = "read"
    /\ LET h == req[r].h IN
       \E code \in {h.failed} \cup
              (IF h.kind = "get" /\ rows[req[r].id] = NoRow THEN {h.none} ELSE {h.ok} \cup h.after) :
          req' = Dismiss(r, code)
    /\ UNCHANGED <<table, phase, pub, rows, pending, used, log, bus>>

\* The first half of the cluster's delete: the row is read for the event.
GetFirst(r) ==
    /\ req[r].pc = "get"
    /\ \/ /\ rows[req[r].id] # NoRow
          /\ req' = [req EXCEPT ![r].pc = "tx", ![r].tenant = rows[req[r].id].tenant]
       \/ rows[req[r].id] = NoRow /\ req' = Dismiss(r, 404)
       \/ req' = Dismiss(r, 500)
    /\ UNCHANGED <<table, phase, pub, rows, pending, used, log, bus>>

-----------------------------------------------------------------------------
\* RunWithTenant: the statement has changed row id in the transaction, which
\* locks the row, and COMMIT is sent.  tenant is the one the event will carry.
Send(r, id, row, tenant) ==
    /\ pending' = pending \cup {[req |-> r, id |-> id, row |-> row]}
    /\ used' = used \cup {id}
    /\ req' = [req EXCEPT ![r] = [@ EXCEPT !.pc = "commit", !.id = id, !.tenant = tenant]]
    /\ UNCHANGED <<table, phase, pub, rows, log, bus>>

\* Another transaction holds the row: the statement waits for its end.
Locked(id) == \E c \in pending : c.id = id

NewRow(r, tenant) == [tenant |-> tenant, name |-> req[r].name, by |-> r]

\* INSERT with uuid.New.
Insert(r) ==
    /\ req[r].pc = "tx" /\ req[r].h.kind = "insert"
    /\ \E id \in Ids \ used : Send(r, id, NewRow(r, req[r].tenant), req[r].tenant)

\* INSERT of a tenant, whose id is the primary key.
Claim(r) ==
    /\ req[r].pc = "tx" /\ req[r].h.kind = "claim"
    /\ rows[req[r].id] = NoRow /\ ~Locked(req[r].id)
    /\ Send(r, req[r].id, NewRow(r, req[r].id), req[r].id)

\* The rows the unique index on (tenant_id, hostname, agent_type) finds.
SameAgent(r) ==
    {id \in Ids : rows[id] # NoRow /\ rows[id].tenant = req[r].tenant
                                   /\ rows[id].name = req[r].name}

Upsert_NoIndex(r) ==       \* mutant: the identity is not unique
    /\ req[r].pc = "tx" /\ req[r].h.kind = "upsert"
    /\ \E id \in Ids \ used : Send(r, id, NewRow(r, req[r].tenant), req[r].tenant)

\* INSERT ... ON CONFLICT (tenant_id, hostname, agent_type) DO UPDATE waits for
\* a transaction that writes the same identity.
Upsert(r) ==
    /\ req[r].pc = "tx" /\ req[r].h.kind = "upsert"
    /\ \A c \in pending : ~(c.row.tenant = req[r].tenant /\ c.row.name = req[r].name)
    /\ \E id \in IF SameAgent(r) = {} THEN Ids \ used ELSE SameAgent(r) :
          Send(r, id, NewRow(r, req[r].tenant), req[r].tenant)

Update_Request(r) ==       \* mutant: the event is made from the request
    /\ req[r].pc = "tx" /\ req[r].h.kind = "update"
    /\ LET id == req[r].id IN
       /\ rows[id] # NoRow /\ ~Locked(id)
       /\ Send(r, id, [rows[id] EXCEPT !.by = r], req[r].tenant)

\* UPDATE ... RETURNING: the event is made from the returned row.
Update(r) ==
    /\ req[r].pc = "tx" /\ req[r].h.kind = "update"
    /\ LET id == req[r].id IN
       /\ rows[id] # NoRow /\ ~Locked(id)
       /\ Send(r, id, [rows[id] EXCEPT !.by = r], rows[id].tenant)

\* DELETE: the event is made from the row read before, or from the tenant's id.
Delete(r) ==
    /\ req[r].pc = "tx" /\ req[r].h.kind = "delete"
    /\ LET id == req[r].id IN
       /\ rows[id] # NoRow /\ ~Locked(id)
       /\ Send(r, id, NoRow, IF req[r].h.first THEN req[r].tenant ELSE id)

\* The statement finds no row (it does not see one that is not committed), or
\* the key is taken.
NoRows(r) ==
    /\ req[r].pc = "tx"
    /\ LET h == req[r].h IN
       \/ h.kind \in {"update", "delete"} /\ rows[req[r].id] = NoRow /\ req' = Dismiss(r, h.none)
       \/ h.kind = "claim" /\ rows[req[r].id] # NoRow /\ ~Locked(req[r].id)
             /\ req' = Dismiss(r, h.failed)
    /\ UNCHANGED <<table, phase, pub, rows, pending, used, log, bus>>

RolledBack_Silent(r) ==    \* mutant: RunWithTenant drops the error
    /\ req[r].pc = "tx"
    /\ req' = Answer(r, req[r].h.ok)
    /\ UNCHANGED <<table, phase, pub, rows, pending, used, log, bus>>

\* Any other error, or the deadline: the transaction is rolled back.
RolledBack(r) ==
    /\ req[r].pc = "tx"
    /\ req' = Dismiss(r, req[r].h.failed)
    /\ UNCHANGED <<table, phase, pub, rows, pending, used, log, bus>>

\* Postgres makes the change and releases its locks, whatever has become of the
\* handler that asked for it.
Commit(c) ==
    /\ rows' = [rows EXCEPT ![c.id] = c.row]
    /\ log' = Append(log, Item(c.req, c.id, (IF c.row = NoRow THEN rows[c.id] ELSE c.row).tenant))
    /\ pending' = pending \ {c}
    /\ UNCHANGED <<table, phase, pub, used, req, bus>>

\* The transaction is rolled back: the COMMIT did not arrive or failed.
Discard(c) ==
    /\ pending' = pending \ {c}
    /\ UNCHANGED <<table, phase, pub, rows, used, req, log, bus>>

CommitFails_Retry(r) ==    \* mutant: a commit with no answer is repeated
    /\ req[r].pc = "commit"
    /\ req' = [req EXCEPT ![r].pc = "tx"]
    /\ UNCHANGED <<table, phase, pub, rows, pending, used, log, bus>>

\* tx.Commit returns an error: the commit failed, its answer is lost or the
\* deadline came first.  The handler cannot know which, and answers.
CommitFails(r) ==
    /\ req[r].pc = "commit"
    /\ req' = [req EXCEPT ![r] = Gone(r, "answered", req[r].h.failed)]
    /\ UNCHANGED <<table, phase, pub, rows, pending, used, log, bus>>

\* A change or an event of a request is looked up by the request's name.
In(s, r) == \E c \in Range(s) : c.req = r

Publish_Go(r) ==           \* mutant: published by a goroutine of its own
    /\ \/ req[r].pc = "commit" /\ In(log, r) /\ req' = [req EXCEPT ![r].pc = "respond"] /\ UNCHANGED bus
       \/ /\ req[r].pc = "answered" /\ req[r].h.kind \in Writes /\ ~In(bus, r)
          /\ bus' = Append(bus, Item(r, req[r].id, req[r].tenant))
          /\ UNCHANGED req
    /\ UNCHANGED <<table, phase, pub, rows, pending, used, log>>

\* The commit was answered.  The error of Publish is dropped, and what was only
\* buffered may be lost.
Publish(r) ==
    /\ req[r].pc = "commit" /\ In(log, r)
    /\ \/ pub /\ bus' = Append(bus, Item(r, req[r].id, req[r].tenant))
       \/ UNCHANGED bus
    /\ req' = [req EXCEPT ![r].pc = "respond"]
    /\ UNCHANGED <<table, phase, pub, rows, pending, used, log>>

Respond(r) ==
    /\ req[r].pc = "respond"
    /\ req' = Answer(r, req[r].h.ok)
    /\ UNCHANGED <<table, phase, pub, rows, pending, used, log, bus>>

-----------------------------------------------------------------------------
\* Run: the signal stops the listener; Shutdown returns when the handlers have.
Signal ==
    /\ phase = "up"
    /\ phase' = "draining"
    /\ UNCHANGED <<table, pub, rows, pending, used, req, log, bus>>

Stop ==
    /\ phase = "draining"
    /\ \A r \in Requests : req[r].pc \notin InFlight
    /\ phase' = "down" /\ pub' = FALSE
    /\ UNCHANGED <<table, rows, pending, used, req, log, bus>>

\* A crash, or a Shutdown that runs into its 10 seconds: the process ends with
\* requests half done.
Crash ==
    /\ phase # "down"
    /\ phase' = "down" /\ pub' = FALSE
    /\ req' = [r \in Requests |->
          IF req[r].pc \in InFlight THEN Gone(r, "aborted", 0) ELSE req[r]]
    /\ UNCHANGED <<table, rows, pending, used, log, bus>>

\* NewServer: a NATS that cannot be reached leaves the publisher nil.
NewServer ==
    /\ phase = "down"
    /\ phase' = "up" /\ pub' \in BOOLEAN
    /\ UNCHANGED <<table, rows, pending, used, req, log, bus>>

Tx(r) ==
    Insert(r) \/ Claim(r) \/ Upsert(r) \/ Update(r) \/ Delete(r) \/ NoRows(r) \/ RolledBack(r)

Step(r) ==
    ReadRow(r) \/ GetFirst(r) \/ Tx(r) \/ CommitFails(r) \/ Publish(r) \/ Respond(r)

Arrive(r) == \E h \in Routes[table] : Turned(r, h) \/ Refused(r, h) \/ Accepted(r, h)

Next ==
    \/ \E r \in Requests : Arrive(r) \/ Step(r)
    \/ \E c \in pending : Commit(c) \/ Discard(c)
    \/ Signal \/ Stop \/ Crash \/ NewServer

Spec == Init /\ [][Next]_vars

-----------------------------------------------------------------------------
Items == [req : Requests, id : Ids,
          subject : {Subject(table, t) : t \in TenantIds \cup Ids}]

TypeOK ==
    /\ table \in Tables
    /\ phase \in {"up", "draining", "down"} /\ pub \in BOOLEAN
    /\ rows \in [Ids -> Row \cup {NoRow}]
    /\ pending \subseteq Transactions /\ used \subseteq Ids
    /\ req \in [Requests -> Reqs]
    /\ log \in Seq(Items) /\ bus \in Seq(Items)

Feed == INSTANCE ChangeFeed

\* The rows, the commits and the events are those of a ChangeFeed, although
\* handlers interleave between the read, the write and the event: no change is
\* announced twice, before its commit, or to another tenant.
ImplementsChangeFeed == Feed!Spec

\* Changes and events respect real time: when a request was answered before
\* another one came in, its change comes before that of the other one, and so
\* does its event (the handler publishes before it answers).  Only the change
\* of a request whose commit was given up, and answered with 500 or 409, may
\* take effect later, and not after a later request's change of the same row.
RealTimeOrder ==
    /\ \A i, j \in DOMAIN bus : i < j => bus[j].req \notin req[bus[i].req].before
    /\ \A i, j \in DOMAIN log :
          i < j /\ log[j].req \in req[log[i].req].before =>
             /\ req[log[j].req].code \in {409, 500}
             /\ log[i].id # log[j].id

\* POST /agents/heartbeat answers with a stable id: one agent, one row, also
\* when its first two heartbeats arrive at once or a restart lies between.
StableAgentId ==
    \A q, r \in Answered :
        /\ req[q].h.kind = "upsert" /\ req[q].code = 200
        /\ req[r].h.kind = "upsert" /\ req[r].code = 200
        /\ req[q].tenant = req[r].tenant /\ req[q].name = req[r].name
        => req[q].id = req[r].id

\* A write answered with a success was committed; one answered with 400, 401,
\* 403, 404, 422 or 429 was not and never will be.  (500, and the 409 of a
\* tenant's create, promise neither.)
AnswersTrue ==
    \A r \in Answered :
        LET changed == \E c \in Range(log) : c.req = r IN
        /\ req[r].code \in {200, 201, 204} /\ req[r].h.kind \in Writes => changed
        /\ req[r].code \in {400, 401, 403, 404, 422, 429} => ~changed

\* The inductive invariant behind these.
\*
\* One request, in state c: what its handler has read and written so far.
\* Nothing is in the log before the commit, the event to be published is that
\* of the commit, and what was answered before it arrived stays answered.
RequestInv(r, c) ==
    /\ c.h \in Routes[table] \cup {cluster_get}
    /\ c.pc \in {"get", "read", "tx"} =>
          /\ c.h.kind \in {"get", "claim", "update", "delete"} => c.id \in Ids
          /\ c.h.kind \in {"insert", "upsert"} => c.tenant \in TenantIds
          /\ c.h.kind \in {"insert", "upsert", "claim"} => c.name \in Names
    /\ c.pc \in {"get", "tx", "commit"} => c.h.kind \in Writes
    /\ c.pc = "get" => c.h.first
    /\ c.pc \in {"idle", "get", "read", "tx"} => ~In(log, r) /\ ~In(bus, r)
    /\ c.pc = "commit" =>
          ~In(bus, r) /\ (In(log, r) => Item(r, c.id, c.tenant) \in Range(log))
    /\ c.pc = "respond" => In(log, r)
    /\ c.pc = "answered" =>
          /\ c.code \in {200, 201, 204} /\ c.h.kind \in Writes => In(log, r)
          /\ c.code \in {400, 401, 403, 404, 422, 429} => ~In(log, r)
    /\ \A q \in c.before : req[q].pc = "answered"

\* What request r, in state c, knows of its row: a cluster about to be deleted
\* has the tenant read before, unless it is gone; an agent's row stays.
RowInv(r, c) ==
    /\ c.pc = "tx" /\ c.h.first =>
          /\ c.id \in used
          /\ rows[c.id] # NoRow => rows[c.id].tenant = c.tenant
          /\ \A d \in pending : d.id = c.id /\ d.row # NoRow => d.row.tenant = c.tenant
    /\ c.pc \in {"commit", "respond", "answered"} /\ c.h.kind = "upsert" /\ In(log, r) =>
          /\ c.id \in Ids /\ rows[c.id] # NoRow
          /\ rows[c.id].tenant = c.tenant /\ rows[c.id].name = c.name

\* The table: no UUID is handed out twice, a tenant is its own tenant, and an
\* agent has one row.
TableInv ==
    /\ \A id \in Ids : rows[id] # NoRow => id \in used
    /\ table = "tenants" => \A id \in Ids : rows[id] # NoRow => rows[id].tenant = id
    /\ table = "agents" => \A i, j \in Ids :
          /\ rows[i] # NoRow /\ rows[j] # NoRow
          /\ rows[i].tenant = rows[j].tenant /\ rows[i].name = rows[j].name
          => i = j

\* What a change of row id may be, as the locks keep the row until it is made.
Legal(id, row) ==
    /\ rows[id] = NoRow => row # NoRow
    /\ rows[id] # NoRow /\ row # NoRow =>
          row.tenant = rows[id].tenant /\ row.name = rows[id].name
    /\ table = "tenants" /\ row # NoRow => row.tenant = id
    /\ table = "agents" =>
          /\ row # NoRow
          /\ \A i \in Ids : rows[i] # NoRow /\ rows[i].tenant = row.tenant
                                            /\ rows[i].name = row.name => i = id

\* A pending transaction c: it is its request's only one and not in the log, it
\* can still be made, it is the one the request would announce, it promised
\* nothing, and no later request has changed the row under its lock.
PendingInv(c) ==
    LET q == req[c.req] IN
    /\ Legal(c.id, c.row) /\ c.id \in used /\ ~In(log, c.req)
    /\ q.pc \in {"commit", "answered", "aborted"}
    /\ q.pc = "answered" => q.code \in {409, 500} /\ q.h.kind \notin Writes
    /\ q.pc = "commit" =>
          /\ q.id = c.id /\ q.tenant = (IF c.row = NoRow THEN rows[c.id] ELSE c.row).tenant
          /\ q.h.kind = "upsert" => q.name = c.row.name
    /\ \A i \in DOMAIN log : log[i].id = c.id => c.req \notin req[log[i].req].before

\* Two pending transactions are of two requests, two rows and two agents.
LocksInv ==
    \A c, d \in pending :
        \/ c.req = d.req \/ c.id = d.id
        \/ table = "agents" /\ c.row.tenant = d.row.tenant /\ c.row.name = d.row.name
        => c = d

RegistryInv ==
    /\ TypeOK /\ TableInv /\ RealTimeOrder /\ LocksInv
    /\ \A r \in Requests : RequestInv(r, req[r]) /\ RowInv(r, req[r])
    /\ \A c \in pending : PendingInv(c)
=============================================================================
