--------------------------- MODULE AtMostOnceSink ---------------------------
(***************************************************************************)
(* What the NATS-to-ClickHouse bridge promises to whoever queries the      *)
(* table: a message is offered once, is perhaps taken in, and what was     *)
(* taken in either becomes one row or is lost with the process that held   *)
(* it.  Nothing is stored twice, and nothing is lost while that process    *)
(* goes on running.                                                        *)
(***************************************************************************)
CONSTANT Messages

VARIABLES
    offered,    \* messages published so far
    inflight,   \* messages taken in and not yet stored
    delivered   \* messages stored

sinkVars == <<offered, inflight, delivered>>

SinkInit == offered = {} /\ inflight = {} /\ delivered = {}

\* A new message is published; the sink takes it in ...
Take(m) ==
    /\ m \in Messages \ offered
    /\ offered' = offered \cup {m}
    /\ inflight' = inflight \cup {m}
    /\ UNCHANGED delivered

\* ... or never sees it.
Miss(m) ==
    /\ m \in Messages \ offered
    /\ offered' = offered \cup {m}
    /\ UNCHANGED <<inflight, delivered>>

\* A batch of what is in flight is stored.
Deliver(S) ==
    /\ S \subseteq inflight
    /\ delivered' = delivered \cup S
    /\ inflight' = inflight \ S
    /\ UNCHANGED offered

\* The process ends: part of what was in flight made it, the rest is lost.
End(S) ==
    /\ S \subseteq inflight
    /\ delivered' = delivered \cup S
    /\ inflight' = {}
    /\ UNCHANGED offered

SinkNext ==
    \/ \E m \in Messages : Take(m) \/ Miss(m)
    \/ \E S \in SUBSET inflight : Deliver(S) \/ End(S)

SinkSpec == SinkInit /\ [][SinkNext]_sinkVars
=============================================================================
