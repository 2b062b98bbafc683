------------------------- MODULE MCServiceRegistry -------------------------
(* Instances of ServiceRegistry for TLC. *)
EXTENDS ServiceRegistry, TLC

MCSymmetry == Permutations(Requests) \cup Permutations(Ids)
=============================================================================
