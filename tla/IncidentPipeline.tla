-------------------------- MODULE IncidentPipeline --------------------------
(***************************************************************************)
(* What the correlation engine promises about its incidents: the same      *)
(* detection is not raised again before its quiet period has passed, and   *)
(* an incident is handed to the dispatcher at most once, in the order in   *)
(* which incidents were raised, unless it was dropped.                     *)
(***************************************************************************)
EXTENDS Integers, Sequences

CONSTANT Quiet(_)    \* quiet period of a detection

VARIABLES raised,    \* sequence of [what, at]
          waiting,   \* numbers of the incidents not yet handed over, in order
          handed,    \* numbers of the incidents handed to the dispatcher
          lost       \* numbers of the incidents dropped

pipeVars == <<raised, waiting, handed, lost>>

PipeInit == raised = <<>> /\ waiting = <<>> /\ handed = <<>> /\ lost = {}

\* One more incident is raised; the earlier ones about the same detection
\* are old enough.
Raise ==
    /\ Len(raised') = Len(raised) + 1
    /\ \A i \in DOMAIN raised : raised'[i] = raised[i]
    /\ LET new == raised'[Len(raised) + 1]
       IN  \A i \in DOMAIN raised :
              raised[i].what = new.what => new.at - raised[i].at >= Quiet(new.what)
    /\ waiting' = Append(waiting, Len(raised) + 1)
    /\ UNCHANGED <<handed, lost>>

HandOver ==
    /\ waiting # <<>>
    /\ handed' = Append(handed, Head(waiting))
    /\ waiting' = Tail(waiting)
    /\ UNCHANGED <<raised, lost>>

Drop(k) ==
    /\ lost' = lost \cup {waiting[k]}
    /\ waiting' = SubSeq(waiting, 1, k - 1) \o SubSeq(waiting, k + 1, Len(waiting))
    /\ UNCHANGED <<raised, handed>>

PipeNext ==
    \/ Raise
    \/ HandOver
    \/ \E k \in DOMAIN waiting : Drop(k)

PipeSpec == PipeInit /\ [][PipeNext]_pipeVars
=============================================================================
