--------------------------- MODULE ProcessMonitor ---------------------------
(***************************************************************************)
(* The process monitor of the CoreSec agent (agents/coresec/src/agent.rs): *)
(* it polls the operating system's process table and reports the processes *)
(* whose pid it had not seen at the poll before.                           *)
(*                                                                         *)
(* A process is a pair of a pid and a generation, because the operating    *)
(* system hands a pid out again; 0 stands for "no process".  The table     *)
(* changes between any two steps of the agent, so also while a poll's      *)
(* events are being published.                                             *)
(***************************************************************************)
EXTENDS Naturals

CONSTANTS
    Pids,
    MaxGen      \* bound on the processes that ever use one pid

ASSUME MonitorAssumption == MaxGen \in Nat

VARIABLES
    table,      \* the operating system: the process that has each pid now
    started,    \* how many processes have used each pid
    pc,         \* "start", "select", "report" or "stopped"
    sys,        \* the agent's copy of the process table
    seen,       \* seen_pids
    newPids,    \* the rest of new_pids in the poll under way
    sent,       \* process events published, per process
    inspected,  \* calls of DetectionEngine::detect, per process
    alerted,    \* processes for which a Sigma or YARA alert was published
    baseline,   \* history: the processes running when the agent started
    inherited   \* history: processes first polled under a pid still in seen_pids

osVars    == <<table, started>>
history   == <<baseline, inherited>>
reports   == <<sent, inspected, alerted>>
vars      == <<table, started, pc, sys, seen, newPids, sent, inspected, alerted,
               baseline, inherited>>

Gens      == 1 .. MaxGen
Processes == Pids \X Gens
Table     == [Pids -> 0 .. MaxGen]

live(t)       == {p \in Pids : t[p] # 0}
Running(proc) == table[proc[1]] = proc[2]

Init ==
    /\ started \in [Pids -> {0} \cup (Gens \cap {1})]
    /\ table = started
    /\ pc = "start"
    /\ sys = [p \in Pids |-> 0]
    /\ seen = {}
    /\ newPids = {}
    /\ sent = [proc \in Processes |-> 0]
    /\ inspected = [proc \in Processes |-> 0]
    /\ alerted = {}
    /\ baseline = {}
    /\ inherited = {}

----------------------------------------------------------------------------
\* The operating system.

Spawn(p) ==
    /\ table[p] = 0
    /\ started[p] < MaxGen
    /\ started' = [started EXCEPT ![p] = @ + 1]
    /\ table' = [table EXCEPT ![p] = started'[p]]
    /\ UNCHANGED <<pc, sys, seen, newPids, reports, history>>

Exit(p) ==
    /\ table[p] # 0
    /\ table' = [table EXCEPT ![p] = 0]
    /\ UNCHANGED <<started, pc, sys, seen, newPids, reports, history>>

----------------------------------------------------------------------------
\* run()

\* seen_pids starts empty instead of with the baseline.
CaptureBaseline_Unseen ==
    /\ pc = "start"
    /\ sys' = table
    /\ seen' = {}
    /\ baseline' = {proc \in Processes : Running(proc)}
    /\ pc' = "select"
    /\ UNCHANGED <<osVars, newPids, reports, inherited>>

\* The first refresh: what runs now is the baseline.
CaptureBaseline ==
    /\ pc = "start"
    /\ sys' = table
    /\ seen' = live(table)
    /\ baseline' = {proc \in Processes : Running(proc)}
    /\ pc' = "select"
    /\ UNCHANGED <<osVars, newPids, reports, inherited>>

\* The processes that have a pid which seen_pids still holds for another one:
\* its process exited and the pid was handed out again since the last poll.
Inheriting == {proc \in Processes : /\ Running(proc)
                                   /\ proc[1] \in seen
                                   /\ sys[proc[1]] # proc[2]}

\* seen_pids after a poll; without its retain, and without its insert.
NextSeen_NoRetain == seen \cup live(table)
NextSeen_NoInsert == seen \cap live(table)

NextSeen == (seen \cup live(table)) \cap live(table)

\* A tick: refresh, collect the pids not in seen_pids and insert them, drop
\* the pids that are gone.
Poll ==
    /\ pc = "select"
    /\ sys' = table
    /\ newPids' = live(table) \ seen
    /\ seen' = NextSeen
    /\ inherited' = inherited \cup Inheriting
    /\ pc' = "report"
    /\ UNCHANGED <<osVars, reports, baseline>>

\* The event is published or lost ...
publish(proc) == \E ok \in {0, 1} : sent' = [sent EXCEPT ![proc] = @ + ok]

\* ... and inspected in either case; alerts are published or lost.
detect(proc) ==
    /\ inspected' = [inspected EXCEPT ![proc] = @ + 1]
    /\ \E alert \in SUBSET {proc} : alerted' = alerted \cup alert

\* Inspection depends on the event having been published.
Report_OnlyIfSent(p) ==
    /\ pc = "report"
    /\ p \in newPids
    /\ publish(<<p, sys[p]>>)
    /\ \/ sent' # sent /\ detect(<<p, sys[p]>>)
       \/ sent' = sent /\ UNCHANGED <<inspected, alerted>>
    /\ newPids' = newPids \ {p}
    /\ UNCHANGED <<osVars, pc, sys, seen, history>>

\* A failed publish leaves the loop over new_pids.
Report_Break(p) ==
    /\ pc = "report"
    /\ p \in newPids
    /\ publish(<<p, sys[p]>>)
    /\ detect(<<p, sys[p]>>)
    /\ newPids' = IF sent' = sent THEN {} ELSE newPids \ {p}
    /\ UNCHANGED <<osVars, pc, sys, seen, history>>

\* One turn of the loop over new_pids; the event is built from the agent's
\* copy of the table, not from what has the pid by now.
Report(p) ==
    /\ pc = "report"
    /\ p \in newPids
    /\ publish(<<p, sys[p]>>)
    /\ detect(<<p, sys[p]>>)
    /\ newPids' = newPids \ {p}
    /\ UNCHANGED <<osVars, pc, sys, seen, history>>

PollDone ==
    /\ pc = "report"
    /\ newPids = {}
    /\ pc' = "select"
    /\ UNCHANGED <<osVars, sys, seen, newPids, reports, history>>

\* ctrl_c interrupts the loop over new_pids.
Shutdown_MidPoll ==
    /\ pc \in {"select", "report"}
    /\ pc' = "stopped"
    /\ UNCHANGED <<osVars, sys, seen, newPids, reports, history>>

\* ctrl_c is only looked at by select!, so never in the middle of a poll.
Shutdown ==
    /\ pc = "select"
    /\ pc' = "stopped"
    /\ UNCHANGED <<osVars, sys, seen, newPids, reports, history>>

Next ==
    \/ \E p \in Pids : Spawn(p) \/ Exit(p) \/ Report(p)
    \/ CaptureBaseline \/ Poll \/ PollDone \/ Shutdown

Spec == Init /\ [][Next]_vars

\* The interval keeps ticking and tokio's select! polls its branches in random
\* order, so the agent polls again; an await on publish returns, with or
\* without an error.  Nothing is assumed of the operating system or of ctrl_c.
FairSpec ==
    /\ Spec
    /\ WF_vars(CaptureBaseline)
    /\ WF_vars(Poll)
    /\ WF_vars(\E p \in Pids : Report(p))
    /\ WF_vars(PollDone)

----------------------------------------------------------------------------
\* Types of the operating system's and the agent's state; outside a poll no
\* pid waits to be reported, not even when the agent has been stopped.
TypeOK ==
    /\ table \in Table
    /\ started \in Table
    /\ pc \in {"start", "select", "report", "stopped"}
    /\ sys \in Table
    /\ seen \subseteq Pids
    /\ newPids \subseteq Pids
    /\ sent \in [Processes -> Nat]
    /\ inspected \in [Processes -> Nat]
    /\ alerted \subseteq Processes
    /\ baseline \subseteq Processes
    /\ inherited \subseteq Processes
    /\ pc # "report" => newPids = {}

\* "Prune exited PIDs to bound memory usage" (agent.rs:73): seen_pids never
\* holds more than the pids of the last refresh, however many processes come
\* and go.
SeenIsLive == seen = live(sys)

\* A process is published and inspected at most once, whatever processes share
\* its pid before and after it, and no alert is raised for a process that was
\* not inspected.
ReportedOnce ==
    /\ \A proc \in Processes : inspected[proc] <= 1 /\ sent[proc] <= inspected[proc]
    /\ \A proc \in alerted : inspected[proc] = 1

\* "so we only fire events for processes that appear *after* the agent starts"
\* (agent.rs:40): a process of the baseline is never reported.
BaselineSilent == \A proc \in baseline : inspected[proc] = 0

\* Between two polls every process of the last refresh has been inspected,
\* except the baseline and the processes that took over a pid between two
\* polls: neither a failed publish nor a process that exits in the middle of a
\* poll makes the agent skip one.
PolledIsInspected ==
    pc \in {"select", "stopped"} =>
        \A p \in live(sys) : \/ inspected[<<p, sys[p]>>] = 1
                             \/ <<p, sys[p]>> \in baseline \cup inherited

\* The inductive invariant: a process that was reported, or is of the baseline,
\* and that still runs, is in the last refresh under its own pid, so the next
\* poll finds the pid in seen_pids.
Known(proc) == inspected[proc] > 0 \/ proc \in baseline

Generations   == \A p \in Pids : table[p] \in {0, started[p]} /\ sys[p] <= started[p]
KnownIsOld    == \A proc \in Processes : Known(proc) => proc[2] <= started[proc[1]]
KnownIsPolled == \A proc \in Processes : Known(proc) /\ Running(proc) => sys[proc[1]] = proc[2]
NewIsUnknown  == newPids \subseteq seen /\ \A p \in newPids : ~Known(<<p, sys[p]>>)
StartIsEmpty  == pc = "start" => /\ seen = {} /\ baseline = {}
                                 /\ \A proc \in Processes : inspected[proc] = 0
OldIsCovered  == \A p \in live(sys) \ newPids : \/ inspected[<<p, sys[p]>>] = 1
                                                \/ <<p, sys[p]>> \in baseline \cup inherited

MonitorInv ==
    /\ TypeOK
    /\ SeenIsLive
    /\ Generations
    /\ KnownIsOld
    /\ KnownIsPolled
    /\ NewIsUnknown
    /\ StartIsEmpty
    /\ OldIsCovered
    /\ ReportedOnce
    /\ BaselineSilent

\* A process that goes on running is inspected in the end, unless the agent is
\* stopped, it was there before the agent, or it took over a pid between two
\* polls.
EventuallyInspected ==
    \A proc \in Processes :
        Running(proc) ~> \/ inspected[proc] = 1
                         \/ ~Running(proc)
                         \/ proc \in baseline \cup inherited
                         \/ pc = "stopped"
=============================================================================
