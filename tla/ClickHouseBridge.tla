-------------------------- MODULE ClickHouseBridge --------------------------
(***************************************************************************)
(* cmd/nats-clickhouse-bridge: the NATS callback puts every process event  *)
(* into a bounded channel; the main loop moves events from the channel to  *)
(* a buffer and inserts the buffer into ClickHouse when it is full, at     *)
(* every tick and at shutdown.  Any insert error ends the process, which   *)
(* its supervisor starts again.                                            *)
(*                                                                         *)
(* The callback runs on the NATS client's goroutine, so it interleaves     *)
(* with an insert in progress.  Messages are numbered in the order they    *)
(* are published; what an event holds (tenant, time, JSON columns) decides *)
(* nothing here but whether it parses.                                     *)
(***************************************************************************)
EXTENDS Naturals, Sequences, FiniteSets

CONSTANTS
    BatchSize,      \* KUBRIC_BATCH_SIZE
    MaxPublished    \* bound on the messages of one behaviour

\* getenvInt falls back to its default for anything that is not positive.
ASSUME BridgeAssumption == BatchSize \in Nat \ {0} /\ MaxPublished \in Nat

VARIABLES
    published,  \* number of messages published on the subject
    events,     \* the channel between callback and main loop
    buffer,     \* the main loop's batch
    pc,         \* where the main loop is, and how the process ended
    why,        \* the select case that called flushBatch
    ctxDone,    \* SIGINT or SIGTERM has cancelled the context
    ticked,     \* ticker.C holds a tick (the channel has room for one)
    rows,       \* rows in the table for each message
    accepted    \* history: messages this process put into the channel

vars == <<published, events, buffer, pc, why, ctxDone, ticked, rows, accepted>>

Messages == 1 .. MaxPublished
Running  == {"select", "flush"}
Ended    == {"stopped", "fatal"}
Cases    == {"done", "batch", "tick"}

Elems(s) == {s[i] : i \in DOMAIN s}
stored   == {m \in Messages : rows[m] > 0}

ChanCap == BatchSize * 2

Init ==
    /\ published = 0
    /\ events = <<>>
    /\ buffer = <<>>
    /\ pc = "select"
    /\ why = "tick"
    /\ ctxDone = FALSE
    /\ ticked = FALSE
    /\ rows = [m \in Messages |-> 0]
    /\ accepted = {}

----------------------------------------------------------------------------
\* The NATS callback.

publish ==
    /\ published < MaxPublished
    /\ published' = published + 1

\* json.Unmarshal succeeds and the non-blocking send finds room.
OnMessage ==
    /\ publish
    /\ pc \in Running
    /\ Len(events) < ChanCap
    /\ events' = Append(events, published + 1)
    /\ accepted' = accepted \cup {published + 1}
    /\ UNCHANGED <<buffer, pc, why, ctxDone, ticked, rows>>

\* The message does not parse.
OnBadMessage ==
    /\ publish
    /\ pc \in Running
    /\ UNCHANGED <<events, buffer, pc, why, ctxDone, ticked, rows, accepted>>

\* The channel is full: the default case drops the event.
OnMessageFull ==
    /\ publish
    /\ pc \in Running
    /\ Len(events) = ChanCap
    /\ UNCHANGED <<events, buffer, pc, why, ctxDone, ticked, rows, accepted>>

\* A core NATS subscription keeps nothing for a process that is down.
PublishUnheard ==
    /\ publish
    /\ pc \in Ended
    /\ UNCHANGED <<events, buffer, pc, why, ctxDone, ticked, rows, accepted>>

----------------------------------------------------------------------------
\* Signals, the ticker and the process supervisor.

Signal ==
    /\ pc \in Running
    /\ ~ctxDone
    /\ ctxDone' = TRUE
    /\ UNCHANGED <<published, events, buffer, pc, why, ticked, rows, accepted>>

Tick ==
    /\ pc \in Running
    /\ ~ticked
    /\ ticked' = TRUE
    /\ UNCHANGED <<published, events, buffer, pc, why, ctxDone, rows, accepted>>

\* main() from its start; everything in memory is new.
Restart ==
    /\ pc \in Ended
    /\ events' = <<>>
    /\ buffer' = <<>>
    /\ pc' = "select"
    /\ why' = "tick"
    /\ ctxDone' = FALSE
    /\ ticked' = FALSE
    /\ accepted' = {}
    /\ UNCHANGED <<published, rows>>

----------------------------------------------------------------------------
\* The main loop: one action for each case of its select.

SelectDone_NoFlush ==
    /\ pc = "select"
    /\ ctxDone
    /\ pc' = "stopped"
    /\ UNCHANGED <<published, events, buffer, why, ctxDone, ticked, rows, accepted>>

SelectDone ==
    /\ pc = "select"
    /\ ctxDone
    /\ \/ /\ buffer = <<>>
          /\ pc' = "stopped"
          /\ UNCHANGED why
       \/ /\ buffer # <<>>
          /\ pc' = "flush"
          /\ why' = "done"
    /\ UNCHANGED <<published, events, buffer, ctxDone, ticked, rows, accepted>>

SelectEvent_OneMore ==
    /\ pc = "select"
    /\ events # <<>>
    /\ events' = Tail(events)
    /\ buffer' = Append(buffer, Head(events))
    /\ \/ /\ Len(buffer') > BatchSize
          /\ pc' = "flush"
          /\ why' = "batch"
       \/ /\ Len(buffer') <= BatchSize
          /\ UNCHANGED <<pc, why>>
    /\ UNCHANGED <<published, ctxDone, ticked, rows, accepted>>

SelectEvent ==
    /\ pc = "select"
    /\ events # <<>>
    /\ events' = Tail(events)
    /\ buffer' = Append(buffer, Head(events))
    /\ \/ /\ Len(buffer') >= BatchSize
          /\ pc' = "flush"
          /\ why' = "batch"
       \/ /\ Len(buffer') < BatchSize
          /\ UNCHANGED <<pc, why>>
    /\ UNCHANGED <<published, ctxDone, ticked, rows, accepted>>

SelectTick_FullOnly ==
    /\ pc = "select"
    /\ ticked
    /\ ticked' = FALSE
    /\ \/ /\ Len(buffer) < BatchSize
          /\ UNCHANGED <<pc, why>>
       \/ /\ Len(buffer) >= BatchSize
          /\ pc' = "flush"
          /\ why' = "tick"
    /\ UNCHANGED <<published, events, buffer, ctxDone, rows, accepted>>

SelectTick ==
    /\ pc = "select"
    /\ ticked
    /\ ticked' = FALSE
    /\ \/ /\ buffer = <<>>
          /\ UNCHANGED <<pc, why>>
       \/ /\ buffer # <<>>
          /\ pc' = "flush"
          /\ why' = "tick"
    /\ UNCHANGED <<published, events, buffer, ctxDone, rows, accepted>>

----------------------------------------------------------------------------
\* flushBatch: one insert of the whole buffer.

\* The batch's entries at positions P become rows.
insert(P) ==
    rows' = [m \in Messages |-> rows[m] + Cardinality({i \in P : buffer[i] = m})]

FlushOK_NoTruncate ==
    /\ pc = "flush"
    /\ insert(DOMAIN buffer)
    /\ pc' = IF why = "done" THEN "stopped" ELSE "select"
    /\ UNCHANGED <<published, events, buffer, why, ctxDone, ticked, accepted>>

\* Send succeeds.  The shutdown case returns from main, the others truncate
\* the buffer and go back to select.
FlushOK ==
    /\ pc = "flush"
    /\ insert(DOMAIN buffer)
    /\ \/ /\ why = "done"
          /\ pc' = "stopped"
          /\ UNCHANGED buffer
       \/ /\ why # "done"
          /\ pc' = "select"
          /\ buffer' = <<>>
    /\ UNCHANGED <<published, events, why, ctxDone, ticked, accepted>>

\* The batch is retried after an error instead of ending the process.
FlushError_Retry ==
    /\ pc = "flush"
    /\ \E P \in SUBSET DOMAIN buffer : insert(P)
    /\ UNCHANGED <<published, events, buffer, pc, why, ctxDone, ticked, accepted>>

\* The failed batch is given up and the loop goes on.
FlushError_Skip ==
    /\ pc = "flush"
    /\ \E P \in SUBSET DOMAIN buffer : insert(P)
    /\ pc' = "select"
    /\ buffer' = <<>>
    /\ UNCHANGED <<published, events, why, ctxDone, ticked, accepted>>

\* PrepareBatch, Append or Send returns an error: fatalf.  An error from Send
\* says nothing about which rows the server kept, and the cancelled context
\* of the shutdown case makes an error likely.
FlushError ==
    /\ pc = "flush"
    /\ \E P \in SUBSET DOMAIN buffer : insert(P)
    /\ pc' = "fatal"
    /\ UNCHANGED <<published, events, buffer, why, ctxDone, ticked, accepted>>

Next ==
    \/ OnMessage \/ OnBadMessage \/ OnMessageFull \/ PublishUnheard
    \/ Signal \/ Tick \/ Restart
    \/ SelectDone \/ SelectEvent \/ SelectTick
    \/ FlushOK \/ FlushError

Spec == Init /\ [][Next]_vars

\* Go's select picks at random among its ready cases, so a case that keeps
\* being ready is taken in the end (strong fairness); the ticker and the
\* supervisor keep working, and the ClickHouse client's read timeout ends
\* every insert one way or the other.  Nothing is assumed of publishers, of
\* signals, or of which way an insert ends.
Fairness ==
    /\ SF_vars(SelectDone) /\ SF_vars(SelectEvent) /\ SF_vars(SelectTick)
    /\ WF_vars(Tick)
    /\ WF_vars(Restart)
    /\ WF_vars(FlushOK \/ FlushError)

FairSpec == Spec /\ Fairness

----------------------------------------------------------------------------
\* Types and bounds: the channel never holds more than make(chan, 2*batchSize)
\* allows, the buffer never outgrows the capacity it was made with, and it is
\* full only while its insert is under way.
TypeOK ==
    /\ published \in 0 .. MaxPublished
    /\ events \in Seq(Messages) /\ Len(events) <= ChanCap
    /\ buffer \in Seq(Messages) /\ Len(buffer) <= BatchSize
    /\ pc \in Running \cup Ended
    /\ why \in Cases
    /\ ctxDone \in BOOLEAN
    /\ ticked \in BOOLEAN
    /\ rows \in [Messages -> Nat]
    /\ accepted \subseteq Messages
    /\ pc = "select" => Len(buffer) < BatchSize

\* A message never becomes two rows, whatever inserts fail after the server
\* kept some of their rows and however often the process is restarted: an
\* error must end the process with the batch it may have half stored.
StoredOnce == \A m \in Messages : rows[m] <= 1

\* While the process runs, an event the callback put into the channel is in
\* the channel, in the buffer or in the table: no insert and no select case
\* forgets one.
NothingForgotten ==
    pc \in Running => accepted \subseteq stored \cup Elems(events) \cup Elems(buffer)

\* Exit status 0 ("bridge stopped") means the batch in memory was stored: a
\* shutdown whose last insert fails is reported as an error.
CleanExitStored == pc = "stopped" => Elems(buffer) \subseteq stored

\* The inductive invariant behind the three: a message is in at most one of
\* channel, buffer and table, at one place there, while the process runs.
NoRepeats(s) == \A i, j \in DOMAIN s : s[i] = s[j] => i = j

OnePlace ==
    /\ NoRepeats(events) /\ NoRepeats(buffer)
    /\ Elems(events) \cap Elems(buffer) = {}
    /\ (Elems(events) \cup Elems(buffer)) \cap stored = {}

SinkInv ==
    /\ TypeOK
    /\ \A m \in Elems(events) \cup Elems(buffer) \cup stored : m <= published
    /\ StoredOnce
    /\ NothingForgotten
    /\ CleanExitStored
    /\ pc \in Running => OnePlace

\* The bridge is an at-most-once sink: see AtMostOnceSink.
Sink == INSTANCE AtMostOnceSink
    WITH offered   <- 1 .. published,
         inflight  <- IF pc \in Running
                      THEN Elems(events) \cup Elems(buffer)
                      ELSE {},
         delivered <- stored

\* Every step of the bridge is a step of the at-most-once sink or leaves it
\* alone.
ImplementsSink == Sink!SinkSpec

\* An event in the channel or the buffer reaches the table unless the process
\* ends first: neither a batch that never fills up nor a busy channel keeps
\* it in memory for ever.
EventuallyStored ==
    \A m \in Messages : m \in accepted ~> (m \in stored \/ pc \in Ended)
=============================================================================
