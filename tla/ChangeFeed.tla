----------------------------- MODULE ChangeFeed -----------------------------
(***************************************************************************)
(* What a service's records and events promise: a request changes at most  *)
(* one row, once, and only as the row allows (a new row where there is     *)
(* none, an update that keeps tenant and name, a removal); and its change  *)
(* is announced at most once, after it was made, on the subject of the     *)
(* row's own tenant.                                                       *)
(***************************************************************************)
EXTENDS RegistryRoutes, Sequences, Naturals

CONSTANTS Requests, Ids, Row, NoRow

VARIABLES
    table,   \* the table the service keeps
    rows,    \* its rows by key
    log,     \* the changes, in the order of their commits
    bus      \* the events announced, in order

feedVars == <<table, rows, log, bus>>

Item(r, id, tenant) == [req |-> r, id |-> id, subject |-> Subject(table, tenant)]
Range(s) == {s[i] : i \in DOMAIN s}

Init ==
    /\ table \in Tables
    /\ rows = [id \in Ids |-> NoRow]
    /\ log = <<>> /\ bus = <<>>

Change(r, id, row) ==
    /\ \A c \in Range(log) : c.req # r
    /\ \/ rows[id] = NoRow /\ row # NoRow
       \/ rows[id] # NoRow /\ row = NoRow
       \/ /\ rows[id] # NoRow /\ row # NoRow
          /\ row.tenant = rows[id].tenant /\ row.name = rows[id].name
    /\ rows' = [rows EXCEPT ![id] = row]
    /\ log' = Append(log, Item(r, id, (IF row = NoRow THEN rows[id] ELSE row).tenant))
    /\ UNCHANGED <<table, bus>>

Announce(c) ==
    /\ c \notin Range(bus)
    /\ bus' = Append(bus, c)
    /\ UNCHANGED <<table, rows, log>>

Next ==
    \/ \E r \in Requests, id \in Ids, row \in Row \cup {NoRow} : Change(r, id, row)
    \/ \E c \in Range(log) : Announce(c)

Spec == Init /\ [][Next]_feedVars
=============================================================================
