------------------------ MODULE MCCorrelationEngine ------------------------
(***************************************************************************)
(* Small instances of CorrelationEngine.  The rules keep the shape of the  *)
(* built-in ones: Lateral of R001 (a process event and an outbound network *)
(* event), Exec its first condition alone, Staged with a second process    *)
(* condition, Beacon of R004 (a threshold of network events).              *)
(*                                                                         *)
(* Some ids name several messages, as the sensors' do: CoreSec's is made   *)
(* of the tenant, the pid and the second (Proc and Shell), NetGuard's of   *)
(* the second and the addresses (Net and NetColon).                        *)
(***************************************************************************)
EXTENDS CorrelationEngine, IncidentViews

Proc == [id |-> 1, tenant |-> "t1", agent |-> "a1", source |-> "coresec",
         etype |-> "process", title |-> "exec"]
Net  == [id |-> 2, tenant |-> "t1", agent |-> "a1", source |-> "netguard",
         etype |-> "network", title |-> "outbound"]
NetB == [Net EXCEPT !.id = 3, !.agent = "a2"]
Shell == [Proc EXCEPT !.title = "shell"]
NetColon == [Net EXCEPT !.tenant = "t1:a"]
ProcT2 == [Proc EXCEPT !.id = 4, !.tenant = "t2"]

Lateral == [window |-> 2, severity |-> 4, threshold |-> 0,
            conditions |->
              <<[source |-> "coresec", etype |-> "process",
                 titles |-> {"exec"}, minCount |-> 1],
                [source |-> "netguard", etype |-> "network",
                 titles |-> {"outbound"}, minCount |-> 1]>>]
Beacon  == [window |-> 1, severity |-> 3, threshold |-> 2,
            conditions |->
              <<[source |-> "netguard", etype |-> "network",
                 titles |-> {"outbound"}, minCount |-> 1]>>]
FalcoRule == [window |-> 2, severity |-> 3, threshold |-> 0,
              conditions |->
                <<[source |-> "any", etype |-> "alert",
                   titles |-> {"falco"}, minCount |-> 0]>>]

Exec == [Lateral EXCEPT !.conditions = <<@[1]>>]

Staged == [Lateral EXCEPT !.conditions = <<@[1], [@[1] EXCEPT !.titles = {"shell"}], @[2]>>]

MCTwoRules == <<Exec, Beacon>>
MCFalcoHigh == <<[FalcoRule EXCEPT !.severity = 4], FalcoRule>>
MCFalco == <<FalcoRule>>
MCLateral == <<Lateral>>
MCStaged == <<Staged>>
MCBeacon == <<Beacon>>

MCMessages == {Proc, Net, NetB}
MCThreeTenants == {Proc, Shell, Net, NetColon, ProcT2}
MCNone == {}
MCNet == {Net}

MCUpToColon == [t \in Tenants |-> IF t = "t1:a" THEN "t1" ELSE t]

\* One order of the keys and its reverse: of two keys each may come first.  One
\* order is enough where all messages of an id have one key.
Rank(k) == (IF k[1] = "t1" THEN 0 ELSE IF k[1] = "t2" THEN 2 ELSE 4)
              + (IF k[2] = "process" THEN 0 ELSE 1)
MCOneOrder == {[k \in Tenants \X EventTypes |-> Rank(k)]}
MCTwoOrders == MCOneOrder \cup {[k \in Tenants \X EventTypes |-> 5 - Rank(k)]}

MCOnTime == {0}
MCLate == {0, 1}
MCSkewed == {-1, 0, 1}
=============================================================================
