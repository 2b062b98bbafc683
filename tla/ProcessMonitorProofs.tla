------------------------ MODULE ProcessMonitorProofs ------------------------
(***************************************************************************)
(* MonitorInv is inductive, for every set of pids and every bound on their *)
(* reuse.                                                                  *)
(***************************************************************************)
EXTENDS ProcessMonitor, TLAPS

USE MonitorAssumption

\* An entry of a process table is a number, and stands for a process if it is
\* not 0.
LEMMA Entry == ASSUME NEW t \in Table, NEW p \in Pids PROVE t[p] \in 0 .. MaxGen
BY DEF Table

LEMMA LiveEntry ==
    ASSUME NEW t \in Table, NEW p \in live(t) PROVE p \in Pids /\ <<p, t[p]>> \in Processes
<1>1. p \in Pids /\ t[p] # 0
  BY DEF live
<1>2. t[p] \in Gens
  BY <1>1, Entry DEF Gens
<1> QED
  BY <1>1, <1>2 DEF Processes

\* The agent starts with nothing seen and nothing reported.
LEMMA MonitorInitially == Init => MonitorInv
<1> SUFFICES ASSUME Init PROVE MonitorInv
  OBVIOUS
<1>1. TypeOK
  BY DEF Init, TypeOK, Table, Gens
<1>2. live(sys) = {}
  BY DEF Init, live
<1>3. \A proc \in Processes : ~Known(proc)
  BY DEF Init, Known, Processes
<1>4. SeenIsLive
  BY <1>2 DEF SeenIsLive, Init
<1>5. ReportedOnce /\ BaselineSilent
  BY DEF Init, ReportedOnce, BaselineSilent
<1>6. \A p \in Pids : table[p] \in {0, started[p]} /\ sys[p] <= started[p]
  <2> SUFFICES ASSUME NEW p \in Pids PROVE table[p] = started[p] /\ sys[p] <= started[p]
    OBVIOUS
  <2>1. started[p] \in 0 .. MaxGen
    BY <1>1, Entry DEF TypeOK
  <2>2. table = started /\ sys[p] = 0
    BY DEF Init
  <2> QED
    BY <2>1, <2>2
<1>7. newPids = {} /\ seen = {} /\ baseline = {} /\ \A proc \in Processes : inspected[proc] = 0
  BY DEF Init
<1>8. Generations /\ StartIsEmpty
  BY <1>6, <1>7 DEF Generations, StartIsEmpty
<1>9. KnownIsOld /\ KnownIsPolled
  BY <1>3 DEF KnownIsOld, KnownIsPolled
<1>10. NewIsUnknown /\ OldIsCovered
  BY <1>2, <1>7 DEF NewIsUnknown, OldIsCovered
<1> QED
  BY <1>1, <1>4, <1>5, <1>8, <1>9, <1>10 DEF MonitorInv

\* A new process gets a generation no process of its pid had before, so it is
\* not known.
LEMMA SpawnKeeps == ASSUME MonitorInv, NEW p \in Pids, Spawn(p) PROVE MonitorInv'
<1> USE DEF MonitorInv, Generations, KnownIsOld, KnownIsPolled, NewIsUnknown, StartIsEmpty,
        OldIsCovered
<1>1. TypeOK'
  BY DEF TypeOK, Spawn, Table, reports, history
<1>2. SeenIsLive' /\ live(sys)' = live(sys)
  BY DEF SeenIsLive, live, Spawn
<1>3. \A q \in Pids : (table[q] \in {0, started[q]} /\ sys[q] <= started[q])'
  BY DEF Spawn, TypeOK, Table
<1>4. \A proc \in Processes : Known(proc)' <=> Known(proc)
  BY DEF Known, Spawn, reports, history
<1>5. \A proc \in Processes : proc[1] \in Pids /\ proc[2] \in Nat
  BY DEF Processes, Gens
<1>6. \A proc \in Processes : Known(proc) => proc[2] <= started'[proc[1]]
  BY <1>5 DEF Spawn, TypeOK, Table
<1>7. \A proc \in Processes : Known(proc) /\ Running(proc)' => sys[proc[1]] = proc[2]
  <2> SUFFICES ASSUME NEW proc \in Processes, Known(proc), Running(proc)'
               PROVE  sys[proc[1]] = proc[2]
    OBVIOUS
  <2>1. proc[2] <= started[proc[1]]
    OBVIOUS
  <2>2. proc[1] # p
    BY <2>1, <1>5 DEF Spawn, TypeOK, Table, Running
  <2> QED
    BY <2>2, <1>5 DEF Spawn, TypeOK, Table, Running
<1>8. (ReportedOnce /\ BaselineSilent)'
  BY DEF ReportedOnce, BaselineSilent, Spawn, reports, history
<1>9. UNCHANGED <<pc, sys, seen, newPids, sent, inspected, alerted, baseline, inherited>>
  BY DEF Spawn, reports, history
<1>10. \A q \in newPids : <<q, sys[q]>> \in Processes
  BY LiveEntry DEF TypeOK, SeenIsLive
<1>11. (Generations /\ KnownIsOld /\ KnownIsPolled)'
  BY <1>3, <1>4, <1>6, <1>7, <1>9
<1>12. (NewIsUnknown /\ StartIsEmpty /\ OldIsCovered)'
  BY <1>2, <1>4, <1>9, <1>10
<1> QED
  BY <1>1, <1>2, <1>8, <1>11, <1>12 DEF MonitorInv

\* An exit leaves fewer processes running.
LEMMA ExitKeeps == ASSUME MonitorInv, NEW p \in Pids, Exit(p) PROVE MonitorInv'
<1> USE DEF MonitorInv, Generations, KnownIsOld, KnownIsPolled, NewIsUnknown, StartIsEmpty,
        OldIsCovered
<1>1. TypeOK'
  BY DEF TypeOK, Exit, Table, reports, history
<1>2. SeenIsLive' /\ live(sys)' = live(sys)
  BY DEF SeenIsLive, live, Exit
<1>3. \A q \in Pids : (table[q] \in {0, started[q]} /\ sys[q] <= started[q])'
  BY DEF Exit, TypeOK, Table
<1>4. \A proc \in Processes : Known(proc)' <=> Known(proc)
  BY DEF Known, Exit, reports, history
<1>5. \A proc \in Processes : proc[1] \in Pids /\ proc[2] \in Gens
  BY DEF Processes
<1>6. \A proc \in Processes : Running(proc)' => Running(proc)
  BY <1>5 DEF Exit, TypeOK, Table, Running, Gens
<1>7. UNCHANGED <<started, pc, sys, seen, newPids, sent, inspected, alerted, baseline, inherited>>
  BY DEF Exit, reports, history
<1>8. (ReportedOnce /\ BaselineSilent)'
  BY <1>7 DEF ReportedOnce, BaselineSilent
<1>10. \A q \in newPids : <<q, sys[q]>> \in Processes
  BY LiveEntry DEF TypeOK, SeenIsLive
<1>11. (Generations /\ KnownIsOld /\ KnownIsPolled)'
  BY <1>3, <1>4, <1>6, <1>7
<1>12. (NewIsUnknown /\ StartIsEmpty /\ OldIsCovered)'
  BY <1>2, <1>4, <1>7, <1>10
<1> QED
  BY <1>1, <1>2, <1>8, <1>11, <1>12 DEF MonitorInv

\* Everything that runs is in the baseline, and nothing else is known.
LEMMA CaptureKeeps == ASSUME MonitorInv, CaptureBaseline PROVE MonitorInv'
<1> USE DEF MonitorInv, Generations, KnownIsOld, KnownIsPolled, NewIsUnknown, StartIsEmpty,
        OldIsCovered
<1>1. TypeOK'
  BY DEF TypeOK, CaptureBaseline, osVars, reports, live
<1>2. sys' = table /\ seen' = live(table)
  BY DEF CaptureBaseline
<1>3. SeenIsLive'
  BY <1>2 DEF SeenIsLive, live
<1>4. UNCHANGED <<table, started, newPids, sent, inspected, alerted, inherited>>
  BY DEF CaptureBaseline, osVars, reports
<1>5. newPids = {} /\ pc' = "select" /\ \A proc \in Processes : inspected[proc] = 0
  BY DEF CaptureBaseline, TypeOK
<1>6. \A p \in Pids : (table[p] \in {0, started[p]} /\ sys[p] <= started[p])'
  BY <1>2, <1>4 DEF TypeOK, Table
<1>7. \A proc \in Processes : Known(proc)' => Running(proc)
  BY <1>4, <1>5 DEF Known, CaptureBaseline
<1>8. \A proc \in Processes : proc[1] \in Pids /\ proc[2] \in Gens
  BY DEF Processes
<1>9. \A proc \in Processes : Known(proc)' => proc[2] <= started'[proc[1]]
  BY <1>4, <1>7, <1>8 DEF Running, TypeOK, Table, Gens
<1>10. \A proc \in Processes : Known(proc)' => sys'[proc[1]] = proc[2]
  BY <1>2, <1>7 DEF Running
<1>11. (ReportedOnce /\ BaselineSilent)'
  BY <1>4, <1>5 DEF ReportedOnce, BaselineSilent, CaptureBaseline
<1>12. \A p \in live(sys)' : <<p, sys'[p]>> \in baseline'
  <2> SUFFICES ASSUME NEW p \in live(sys)' PROVE <<p, table[p]>> \in baseline'
    BY <1>2
  <2>1. p \in Pids /\ table[p] # 0
    BY <1>2 DEF live
  <2>2. <<p, table[p]>> \in Processes
    BY <2>1 DEF Processes, Gens, TypeOK, Table
  <2> QED
    BY <2>2 DEF CaptureBaseline, Running
<1>13. (Generations /\ KnownIsOld /\ KnownIsPolled)'
  BY <1>6, <1>9, <1>10
<1>14. (NewIsUnknown /\ StartIsEmpty /\ OldIsCovered)'
  BY <1>4, <1>5, <1>12
<1> QED
  BY <1>1, <1>3, <1>11, <1>13, <1>14 DEF MonitorInv

\* A process that is known and runs is in the copy of the table under a pid in
\* seen_pids, so a poll does not take it for new.
LEMMA PollKeeps == ASSUME MonitorInv, Poll PROVE MonitorInv'
<1> USE DEF MonitorInv, Generations, KnownIsOld, KnownIsPolled, NewIsUnknown, StartIsEmpty,
        OldIsCovered
<1>1. sys' = table /\ newPids' = live(table) \ seen /\ seen' = live(table)
  BY DEF Poll, NextSeen
<1>2. UNCHANGED <<table, started, sent, inspected, alerted, baseline>>
  BY DEF Poll, osVars, reports
<1>3. inherited' = inherited \cup Inheriting /\ pc' = "report"
  BY DEF Poll
<1>4. TypeOK'
  BY <1>1, <1>2, <1>3 DEF TypeOK, live, Inheriting
<1>5. SeenIsLive'
  BY <1>1 DEF SeenIsLive, live
<1>6. \A p \in Pids : (table[p] \in {0, started[p]} /\ sys[p] <= started[p])'
  BY <1>1, <1>2 DEF TypeOK, Table
<1>7. \A proc \in Processes : Known(proc)' <=> Known(proc)
  BY <1>2 DEF Known
<1>8. \A proc \in Processes : Known(proc) /\ Running(proc)' => sys'[proc[1]] = proc[2]
  BY <1>1, <1>2 DEF Running
<1>9. \A p \in live(table) : p \in Pids /\ <<p, table[p]>> \in Processes /\ Running(<<p, table[p]>>)
  <2> SUFFICES ASSUME NEW p \in live(table)
               PROVE  p \in Pids /\ <<p, table[p]>> \in Processes /\ Running(<<p, table[p]>>)
    OBVIOUS
  <2>1. p \in Pids /\ <<p, table[p]>> \in Processes
    BY LiveEntry DEF TypeOK
  <2> QED
    BY <2>1 DEF Running
<1>10. \A p \in newPids' : ~Known(<<p, sys[p]>>)'
  <2> SUFFICES ASSUME NEW p \in live(table), p \notin seen
               PROVE  ~Known(<<p, table[p]>>)
    BY <1>1, <1>7, <1>9
  <2>1. sys[p] = 0 /\ table[p] # 0
    BY <1>9 DEF SeenIsLive, live
  <2> QED
    BY <1>9, <2>1
<1>11. (ReportedOnce /\ BaselineSilent)'
  BY <1>2 DEF ReportedOnce, BaselineSilent
<1>12. \A p \in live(table) \ newPids' :
           \/ inspected[<<p, table[p]>>] = 1
           \/ <<p, table[p]>> \in baseline \cup inherited'
  <2> SUFFICES ASSUME NEW p \in live(table), p \in seen
               PROVE  \/ inspected[<<p, table[p]>>] = 1
                      \/ <<p, table[p]>> \in baseline \cup inherited'
    BY <1>1
  <2>1. CASE sys[p] = table[p]
    <3>1. p \in live(sys) \ newPids
      BY DEF SeenIsLive, Poll, TypeOK
    <3> QED
      BY <3>1, <2>1, <1>3
  <2>2. CASE sys[p] # table[p]
    BY <2>2, <1>3, <1>9 DEF Inheriting
  <2> QED
    BY <2>1, <2>2
<1>13. live(sys)' = live(table)
  BY <1>1 DEF live
<1>14. \A proc \in Processes : Known(proc) => proc[2] <= started'[proc[1]]
  BY <1>2
<1>15. (Generations /\ KnownIsOld /\ KnownIsPolled)'
  BY <1>6, <1>7, <1>8, <1>14
<1>16. (NewIsUnknown /\ StartIsEmpty /\ OldIsCovered)'
  BY <1>1, <1>2, <1>3, <1>10, <1>12, <1>13
<1> QED
  BY <1>4, <1>5, <1>11, <1>15, <1>16 DEF MonitorInv

\* Only a pid of new_pids is reported, and it leaves new_pids with that.
LEMMA ReportKeeps == ASSUME MonitorInv, NEW p \in Pids, Report(p) PROVE MonitorInv'
<1> USE DEF MonitorInv, Generations, KnownIsOld, KnownIsPolled, NewIsUnknown, StartIsEmpty,
        OldIsCovered
<1> DEFINE me == <<p, sys[p]>>
<1>1. UNCHANGED <<table, started, pc, sys, seen, baseline, inherited>>
  BY DEF Report, osVars, history
<1>2. p \in newPids /\ newPids' = newPids \ {p} /\ pc = "report"
  BY DEF Report
<1>3. me \in Processes /\ p \in live(sys)
  BY <1>2 DEF TypeOK, Table, SeenIsLive, live, Processes, Gens
<1>4. inspected[me] = 0 /\ me \notin baseline
  BY <1>2, <1>3 DEF Known, TypeOK
<1>5. sent[me] = 0
  BY <1>3, <1>4 DEF ReportedOnce, TypeOK
<1>6. inspected' = [inspected EXCEPT ![me] = 1]
  BY <1>3, <1>4 DEF Report, detect, TypeOK
<1>7. /\ sent' \in [Processes -> Nat]
      /\ sent'[me] <= 1
      /\ \A proc \in Processes : proc # me => sent'[proc] = sent[proc]
  <2>1. PICK ok \in {0, 1} : sent' = [sent EXCEPT ![me] = @ + ok]
    BY DEF Report, publish
  <2> QED
    BY <2>1, <1>3, <1>5 DEF TypeOK
<1>8. alerted' \subseteq alerted \cup {me}
  BY DEF Report, detect
<1>9. /\ inspected' \in [Processes -> Nat]
      /\ inspected'[me] = 1
      /\ \A proc \in Processes : proc # me => inspected'[proc] = inspected[proc]
  BY <1>3, <1>6 DEF TypeOK
<1> HIDE DEF me
<1>10. TypeOK'
  BY <1>1, <1>2, <1>3, <1>7, <1>8, <1>9 DEF TypeOK
<1>11. SeenIsLive' /\ live(sys)' = live(sys)
  BY <1>1 DEF SeenIsLive, live
<1>12. ReportedOnce'
  <2>1. \A proc \in Processes : inspected'[proc] <= 1 /\ sent'[proc] <= inspected'[proc]
    BY <1>7, <1>9 DEF ReportedOnce
  <2>2. \A proc \in alerted' : inspected'[proc] = 1
    BY <1>3, <1>8, <1>9 DEF ReportedOnce, TypeOK
  <2> QED
    BY <2>1, <2>2 DEF ReportedOnce
<1>13. BaselineSilent'
  BY <1>1, <1>4, <1>9 DEF BaselineSilent, TypeOK
<1>14. \A proc \in Processes : proc # me => (Known(proc)' <=> Known(proc))
  BY <1>1, <1>9 DEF Known
<1>15. \A proc \in Processes : Known(proc)' => proc[2] <= started'[proc[1]]
  <2>1. me[1] = p /\ me[2] = sys[p]
    BY DEF me
  <2> QED
    BY <1>1, <1>14, <2>1
<1>16. \A proc \in Processes : Known(proc)' /\ Running(proc)' => sys'[proc[1]] = proc[2]
  <2>1. me[1] = p /\ me[2] = sys[p]
    BY DEF me
  <2> QED
    BY <1>1, <1>14, <2>1 DEF Running
<1>17. \A q \in newPids' : ~Known(<<q, sys[q]>>)'
  <2> SUFFICES ASSUME NEW q \in newPids, q # p PROVE ~Known(<<q, sys[q]>>)'
    BY <1>1, <1>2
  <2>1. <<q, sys[q]>> \in Processes
    BY LiveEntry DEF TypeOK, SeenIsLive
  <2>2. <<q, sys[q]>> # me
    BY DEF me
  <2> QED
    BY <2>1, <2>2, <1>1, <1>14
<1>18. \A q \in live(sys) \ newPids' :
           \/ inspected'[<<q, sys[q]>>] = 1
           \/ <<q, sys[q]>> \in baseline \cup inherited
  <2> SUFFICES ASSUME NEW q \in live(sys) \ newPids'
               PROVE  \/ inspected'[<<q, sys[q]>>] = 1
                      \/ <<q, sys[q]>> \in baseline \cup inherited
    OBVIOUS
  <2>1. CASE q = p
    BY <2>1, <1>9 DEF me
  <2>2. CASE q # p
    <3>1. <<q, sys[q]>> \in Processes /\ <<q, sys[q]>> # me
      BY <2>2 DEF TypeOK, Table, live, Processes, Gens, me
    <3> QED
      BY <2>2, <3>1, <1>2, <1>9
  <2> QED
    BY <2>1, <2>2
<1>19. (Generations /\ KnownIsOld /\ KnownIsPolled)'
  BY <1>1, <1>15, <1>16
<1>20. (NewIsUnknown /\ StartIsEmpty /\ OldIsCovered)'
  BY <1>1, <1>2, <1>11, <1>17, <1>18
<1> QED
  BY <1>10, <1>11, <1>12, <1>13, <1>19, <1>20 DEF MonitorInv

\* The end of a poll and of the agent, and steps that change nothing.
LEMMA IdleKeeps ==
    ASSUME MonitorInv, PollDone \/ Shutdown \/ UNCHANGED vars PROVE MonitorInv'
<1>1. /\ UNCHANGED <<table, started, sys, seen, newPids, sent, inspected, alerted,
                     baseline, inherited>>
      /\ pc' # "start" \/ pc' = pc
      /\ pc' \in {"start", "select", "report", "stopped"}
      /\ pc' # "report" => newPids = {}
  BY DEF MonitorInv, TypeOK, PollDone, Shutdown, vars, osVars, reports, history
<1> QED
  BY <1>1 DEF MonitorInv, TypeOK, SeenIsLive, live, Known, Running, ReportedOnce,
     BaselineSilent, Generations, KnownIsOld, KnownIsPolled, NewIsUnknown, StartIsEmpty, OldIsCovered

\* The invariant holds throughout, for every set of pids and however often
\* they are reused.
LEMMA MonitorInvariant == Spec => []MonitorInv
<1>1. MonitorInv /\ [Next]_vars => MonitorInv'
  <2> SUFFICES ASSUME MonitorInv, [Next]_vars PROVE MonitorInv'
    OBVIOUS
  <2>1. ASSUME NEW p \in Pids, Spawn(p) PROVE MonitorInv'
    BY <2>1, SpawnKeeps
  <2>2. ASSUME NEW p \in Pids, Exit(p) PROVE MonitorInv'
    BY <2>2, ExitKeeps
  <2>3. ASSUME NEW p \in Pids, Report(p) PROVE MonitorInv'
    BY <2>3, ReportKeeps
  <2>4. CASE CaptureBaseline
    BY <2>4, CaptureKeeps
  <2>5. CASE Poll
    BY <2>5, PollKeeps
  <2>6. CASE PollDone \/ Shutdown \/ UNCHANGED vars
    BY <2>6, IdleKeeps
  <2> QED
    BY <2>1, <2>2, <2>3, <2>4, <2>5, <2>6 DEF Next
<1> QED
  BY <1>1, MonitorInitially, PTL DEF Spec

\* Type correctness of the monitor and of the process table under it.
THEOREM MonitorTyped == Spec => []TypeOK
<1>1. MonitorInv => TypeOK BY DEF MonitorInv
<1> QED BY <1>1, MonitorInvariant, PTL

\* seen_pids is never larger than what the last refresh listed.
THEOREM SeenBounded == Spec => []SeenIsLive
<1>1. MonitorInv => SeenIsLive BY DEF MonitorInv
<1> QED BY <1>1, MonitorInvariant, PTL

\* No process is reported twice, whatever its pid was used for before.
THEOREM NeverReportedTwice == Spec => []ReportedOnce
<1>1. MonitorInv => ReportedOnce BY DEF MonitorInv
<1> QED BY <1>1, MonitorInvariant, PTL

\* Processes of the baseline are never reported.
THEOREM BaselineNeverReported == Spec => []BaselineSilent
<1>1. MonitorInv => BaselineSilent BY DEF MonitorInv
<1> QED BY <1>1, MonitorInvariant, PTL

\* No polled process is skipped other than one that took over a pid between
\* two polls.
THEOREM NoPolledSkipped == Spec => []PolledIsInspected
<1>1. MonitorInv => PolledIsInspected
  BY DEF MonitorInv, TypeOK, PolledIsInspected, OldIsCovered
<1> QED BY <1>1, MonitorInvariant, PTL
=============================================================================
