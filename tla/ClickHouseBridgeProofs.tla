----------------------- MODULE ClickHouseBridgeProofs -----------------------
(***************************************************************************)
(* For every batch size and every number of messages: the bridge stores a  *)
(* message at most once, forgets none while it runs, and implements the    *)
(* at-most-once sink.                                                      *)
(***************************************************************************)
EXTENDS ClickHouseBridge, FiniteSetTheorems, TLAPS

----------------------------------------------------------------------------
\* Facts about the elements of a sequence.

\* What Append adds.
LEMMA ElemsAppend ==
    ASSUME NEW S, NEW s \in Seq(S), NEW x \in S
    PROVE  /\ Append(s, x) \in Seq(S)
           /\ Len(Append(s, x)) = Len(s) + 1
           /\ Elems(Append(s, x)) = Elems(s) \cup {x}
           /\ NoRepeats(s) /\ x \notin Elems(s) => NoRepeats(Append(s, x))
<1>1. /\ Append(s, x) \in Seq(S)
      /\ Len(Append(s, x)) = Len(s) + 1
      /\ DOMAIN s = 1 .. Len(s)
      /\ Len(s) \in Nat
      /\ DOMAIN Append(s, x) = 1 .. Len(s) + 1
      /\ \A i \in 1 .. Len(s) : Append(s, x)[i] = s[i]
      /\ Append(s, x)[Len(s) + 1] = x
  OBVIOUS
<1>2. Elems(Append(s, x)) = Elems(s) \cup {x}
  <2>1. \A y \in Elems(Append(s, x)) : y \in Elems(s) \cup {x}
    BY <1>1 DEF Elems
  <2>2. \A y \in Elems(s) : y \in Elems(Append(s, x))
    BY <1>1 DEF Elems
  <2>3. x \in Elems(Append(s, x))
    BY <1>1 DEF Elems
  <2> QED BY <2>1, <2>2, <2>3
<1>3. NoRepeats(s) /\ x \notin Elems(s) => NoRepeats(Append(s, x))
  BY <1>1 DEF Elems, NoRepeats
<1> QED BY <1>1, <1>2, <1>3

\* What taking the head off leaves.
LEMMA ElemsPop ==
    ASSUME NEW S, NEW s \in Seq(S), s # <<>>
    PROVE  /\ Head(s) \in S /\ Tail(s) \in Seq(S)
           /\ Len(Tail(s)) = Len(s) - 1
           /\ Elems(s) = Elems(Tail(s)) \cup {Head(s)}
           /\ NoRepeats(s) => NoRepeats(Tail(s)) /\ Head(s) \notin Elems(Tail(s))
<1>1. /\ Head(s) \in S /\ Tail(s) \in Seq(S)
      /\ Len(s) \in Nat /\ Len(s) > 0
      /\ Len(Tail(s)) = Len(s) - 1
      /\ DOMAIN s = 1 .. Len(s)
      /\ DOMAIN Tail(s) = 1 .. Len(s) - 1
      /\ \A i \in 1 .. Len(s) - 1 : Tail(s)[i] = s[i + 1]
      /\ Head(s) = s[1]
  OBVIOUS
<1>2. Elems(s) = Elems(Tail(s)) \cup {Head(s)}
  <2>1. ASSUME NEW i \in 1 .. Len(s) PROVE s[i] \in Elems(Tail(s)) \cup {Head(s)}
    <3>1. CASE i = 1 BY <1>1, <3>1
    <3>2. CASE i # 1
      <4>1. i - 1 \in 1 .. Len(s) - 1 /\ Tail(s)[i - 1] = s[i] BY <1>1, <3>2
      <4> QED BY <4>1, <1>1 DEF Elems
    <3> QED BY <3>1, <3>2
  <2>2. \A y \in Elems(Tail(s)) : y \in Elems(s)
    BY <1>1 DEF Elems
  <2>3. Head(s) \in Elems(s)
    BY <1>1 DEF Elems
  <2> QED BY <1>1, <2>1, <2>2, <2>3 DEF Elems
<1>3. ASSUME NoRepeats(s) PROVE NoRepeats(Tail(s)) /\ Head(s) \notin Elems(Tail(s))
  BY <1>1, <1>3 DEF Elems, NoRepeats
<1> QED BY <1>1, <1>2, <1>3

\* The empty sequence.
LEMMA ElemsEmpty == Elems(<<>>) = {} /\ NoRepeats(<<>>)
  BY DEF Elems, NoRepeats

\* Elements come from the set the sequence is over.
LEMMA ElemsIn == ASSUME NEW S, NEW s \in Seq(S) PROVE Elems(s) \subseteq S
  BY DEF Elems

\* Positions of m in the part P of s.
At(s, P, m) == {i \in P : s[i] = m}

\* In a sequence without repetitions a value sits at one position at most.
LEMMA CountOnce ==
    ASSUME NEW S, NEW s \in Seq(S), NoRepeats(s), NEW P \in SUBSET DOMAIN s, NEW m
    PROVE  /\ Cardinality(At(s, P, m)) \in {0, 1}
           /\ Cardinality(At(s, P, m)) = 1 => m \in Elems(s)
           /\ P = DOMAIN s /\ m \in Elems(s) => Cardinality(At(s, P, m)) = 1
<1>1. CASE At(s, P, m) = {}
  <2>1. Cardinality(At(s, P, m)) = 0 BY <1>1, FS_EmptySet
  <2>2. P = DOMAIN s => m \notin Elems(s) BY <1>1 DEF Elems, At
  <2> QED BY <2>1, <2>2
<1>2. CASE At(s, P, m) # {}
  <2>1. PICK i \in P : s[i] = m BY <1>2 DEF At
  <2>2. At(s, P, m) = {i} BY <2>1 DEF NoRepeats, At
  <2>3. Cardinality(At(s, P, m)) = 1 BY <2>2, FS_Singleton
  <2>4. m \in Elems(s) BY <2>1 DEF Elems
  <2> QED BY <2>3, <2>4
<1> QED BY <1>1, <1>2
----------------------------------------------------------------------------
\* The inductive invariant.

\* flushBatch with the rows at positions P stored.
LEMMA Insert ==
    ASSUME SinkInv, pc = "flush", NEW P \in SUBSET DOMAIN buffer, insert(P)
    PROVE  /\ rows' \in [Messages -> Nat]
           /\ StoredOnce'
           /\ stored \subseteq stored'
           /\ stored' \subseteq stored \cup Elems(buffer)
           /\ P = DOMAIN buffer => Elems(buffer) \subseteq stored'
<1>1. /\ rows \in [Messages -> Nat] /\ buffer \in Seq(Messages)
      /\ NoRepeats(buffer) /\ Elems(buffer) \cap stored = {}
      /\ \A m \in Messages : rows[m] <= 1
  BY DEF SinkInv, TypeOK, OnePlace, Running, StoredOnce
<1>2. rows' = [m \in Messages |-> rows[m] + Cardinality(At(buffer, P, m))]
  BY DEF insert, At
<1>3. \A m \in Messages :
        /\ Cardinality(At(buffer, P, m)) \in {0, 1}
        /\ Cardinality(At(buffer, P, m)) = 1 => m \in Elems(buffer)
        /\ P = DOMAIN buffer /\ m \in Elems(buffer) => Cardinality(At(buffer, P, m)) = 1
  BY <1>1, CountOnce
<1>4. ASSUME NEW m \in Messages
      PROVE  /\ rows'[m] \in Nat /\ rows'[m] <= 1
             /\ rows[m] > 0 => rows'[m] > 0
             /\ rows'[m] > 0 => rows[m] > 0 \/ m \in Elems(buffer)
             /\ P = DOMAIN buffer /\ m \in Elems(buffer) => rows'[m] > 0
  <2>1. rows'[m] = rows[m] + Cardinality(At(buffer, P, m)) BY <1>2
  <2>2. rows[m] \in Nat /\ rows[m] <= 1 BY <1>1
  <2>3. m \in Elems(buffer) => rows[m] = 0 BY <1>1, <2>2 DEF stored
  <2> QED BY <1>3, <2>1, <2>2, <2>3
<1>5. rows' \in [Messages -> Nat]
  <2>1. \A m \in Messages : rows[m] + Cardinality(At(buffer, P, m)) \in Nat BY <1>2, <1>4
  <2> QED BY <1>2, <2>1
<1>6. Elems(buffer) \subseteq Messages BY <1>1, ElemsIn
<1> QED BY <1>4, <1>5, <1>6 DEF stored, StoredOnce

Empties ==
    /\ <<>> \in Seq(Messages)
    /\ Len(<<>>) = 0
    /\ Len(<<>>) <= ChanCap
    /\ Len(<<>>) < BatchSize
    /\ Len(<<>>) <= BatchSize

\* An empty channel and an empty buffer are within their bounds.
LEMMA EmptyFits == Empties
<1>1. Len(<<>>) = 0 /\ <<>> \in Seq(Messages) OBVIOUS
<1>2. BatchSize \in Nat /\ BatchSize # 0 BY BridgeAssumption
<1>3. 0 < BatchSize /\ 0 <= BatchSize /\ 0 <= ChanCap BY <1>2 DEF ChanCap
<1> HIDE DEF ChanCap
<1> QED BY <1>1, <1>3 DEF Empties

\* The initial state satisfies it.
LEMMA SinkInvInit == Init => SinkInv
<1> SUFFICES ASSUME Init PROVE SinkInv OBVIOUS
<1>1. events = <<>> /\ buffer = <<>> BY DEF Init
<1>2. Elems(events) = {} /\ Elems(buffer) = {} /\ NoRepeats(events) /\ NoRepeats(buffer)
  BY <1>1, ElemsEmpty
<1>3. stored = {} /\ StoredOnce BY DEF Init, stored, StoredOnce
<1>4. TypeOK
  <2>1. Empties BY EmptyFits
  <2>2. 0 \in 0 .. MaxPublished /\ rows \in [Messages -> Nat]
    BY BridgeAssumption DEF Init
  <2> QED BY <1>1, <2>1, <2>2 DEF Init, TypeOK, Empties, Running, Cases
<1> QED BY <1>2, <1>3, <1>4 DEF Init, SinkInv, NothingForgotten, CleanExitStored, OnePlace

\* Every step preserves it.
LEMMA SinkInvNext == SinkInv /\ [Next]_vars => SinkInv'
<1> SUFFICES ASSUME SinkInv, [Next]_vars PROVE SinkInv' OBVIOUS
<1> USE BridgeAssumption
<1>t. TypeOK BY DEF SinkInv
<1>1. CASE OnMessage
  <2> DEFINE n == published + 1
  <2>1. /\ n \in Messages /\ published' = n /\ published \in Nat
        /\ events' = Append(events, n) /\ accepted' = accepted \cup {n}
        /\ UNCHANGED <<buffer, pc, why, ctxDone, ticked, rows>>
        /\ pc \in Running /\ Len(events) < ChanCap
    BY <1>1, <1>t DEF OnMessage, publish, Messages, TypeOK
  <2>2. /\ Elems(buffer)' = Elems(buffer) /\ stored' = stored
    BY <2>1 DEF Elems, stored
  <2>3. events \in Seq(Messages) /\ n \notin Elems(events) \cup Elems(buffer) \cup stored
    BY <2>1 DEF SinkInv, TypeOK
  <2>4. /\ events' \in Seq(Messages) /\ Len(events') = Len(events) + 1
        /\ Elems(events)' = Elems(events) \cup {n}
        /\ NoRepeats(events) => NoRepeats(events)'
    BY <2>1, <2>3, ElemsAppend DEF Elems, NoRepeats
  <2>5. TypeOK'
    BY <1>t, <2>1, <2>4 DEF TypeOK, ChanCap, Messages
  <2>6. OnePlace' BY <2>1, <2>2, <2>3, <2>4 DEF SinkInv, OnePlace, NoRepeats
  <2>7. \A m \in (Elems(events) \cup Elems(buffer) \cup stored)' : m <= published'
    <3>1. \A m \in Elems(events) \cup Elems(buffer) \cup stored : m <= published /\ m \in Messages
      BY <1>t, ElemsIn DEF SinkInv, TypeOK, stored
    <3> QED BY <2>1, <2>2, <2>4, <3>1 DEF Messages
  <2>8. StoredOnce' /\ NothingForgotten' /\ CleanExitStored'
    BY <2>1, <2>2, <2>4 DEF SinkInv, StoredOnce, NothingForgotten, CleanExitStored, Running
  <2> QED BY <2>5, <2>6, <2>7, <2>8 DEF SinkInv
<1>2. CASE OnBadMessage \/ OnMessageFull \/ PublishUnheard
  <2>1. /\ published \in Nat /\ published' = published + 1 /\ published' \in 0 .. MaxPublished
        /\ UNCHANGED <<events, buffer, pc, why, ctxDone, ticked, rows, accepted>>
    BY <1>2, <1>t DEF OnBadMessage, OnMessageFull, PublishUnheard, publish, TypeOK
  <2>2. /\ Elems(events)' = Elems(events) /\ Elems(buffer)' = Elems(buffer) /\ stored' = stored
        /\ OnePlace' = OnePlace
    BY <2>1 DEF Elems, stored, OnePlace, NoRepeats
  <2>3. TypeOK' BY <1>t, <2>1 DEF TypeOK
  <2>4. \A m \in (Elems(events) \cup Elems(buffer) \cup stored)' : m <= published'
    <3>1. \A m \in Elems(events) \cup Elems(buffer) \cup stored : m <= published /\ m \in Messages
      BY <1>t, ElemsIn DEF SinkInv, TypeOK, stored
    <3> QED BY <2>1, <2>2, <3>1 DEF Messages
  <2> QED BY <2>1, <2>2, <2>3, <2>4 DEF SinkInv, StoredOnce, NothingForgotten, CleanExitStored
<1>3. CASE Signal \/ Tick
  <2>1. /\ UNCHANGED <<published, events, buffer, pc, why, rows, accepted>>
        /\ ctxDone' \in BOOLEAN /\ ticked' \in BOOLEAN
    BY <1>3, <1>t DEF Signal, Tick, TypeOK
  <2>2. /\ Elems(events)' = Elems(events) /\ Elems(buffer)' = Elems(buffer) /\ stored' = stored
        /\ OnePlace' = OnePlace
    BY <2>1 DEF Elems, stored, OnePlace, NoRepeats
  <2>3. TypeOK' BY <1>t, <2>1 DEF TypeOK
  <2> QED BY <2>1, <2>2, <2>3 DEF SinkInv, StoredOnce, NothingForgotten, CleanExitStored
<1>4. CASE Restart
  <2>1. /\ events' = <<>> /\ buffer' = <<>> /\ accepted' = {} /\ pc' = "select"
        /\ why' = "tick" /\ ctxDone' = FALSE /\ ticked' = FALSE
        /\ UNCHANGED <<published, rows>>
    BY <1>4 DEF Restart
  <2>2. /\ Elems(events)' = {} /\ Elems(buffer)' = {} /\ stored' = stored
        /\ NoRepeats(events)' /\ NoRepeats(buffer)'
    BY <2>1, ElemsEmpty DEF Elems, stored, NoRepeats
  <2>3. TypeOK'
    BY <1>t, <2>1, EmptyFits DEF TypeOK, Empties, Running, Cases
  <2> QED BY <2>1, <2>2, <2>3 DEF SinkInv, StoredOnce, NothingForgotten, CleanExitStored, OnePlace
<1>5. CASE SelectDone \/ SelectTick
  <2>1. /\ UNCHANGED <<published, events, buffer, ctxDone, rows, accepted>>
        /\ pc = "select" /\ why' \in Cases /\ ticked' \in BOOLEAN
        /\ \/ pc' \in Running
           \/ pc' = "stopped" /\ buffer = <<>>
    BY <1>5, <1>t DEF SelectDone, SelectTick, TypeOK, Cases, Running
  <2>2. /\ Elems(events)' = Elems(events) /\ Elems(buffer)' = Elems(buffer) /\ stored' = stored
        /\ OnePlace' = OnePlace
    BY <2>1 DEF Elems, stored, OnePlace, NoRepeats
  <2>3. TypeOK' BY <1>t, <2>1 DEF TypeOK, Running, Ended
  <2>4. CleanExitStored' BY <2>1, <2>2, ElemsEmpty DEF CleanExitStored, Running
  <2> QED BY <2>1, <2>2, <2>3, <2>4 DEF SinkInv, StoredOnce, NothingForgotten, Running
<1>6. CASE SelectEvent
  <2> DEFINE x == Head(events)
  <2>1. /\ UNCHANGED <<published, ctxDone, ticked, rows, accepted>>
        /\ pc = "select" /\ events # <<>>
        /\ events' = Tail(events) /\ buffer' = Append(buffer, x)
        /\ pc' \in Running /\ why' \in Cases
        /\ Len(buffer') < BatchSize \/ pc' = "flush"
    BY <1>6, <1>t DEF SelectEvent, TypeOK, Cases, Running
  <2>2. /\ OnePlace /\ events \in Seq(Messages) /\ buffer \in Seq(Messages)
        /\ Len(buffer) < BatchSize /\ Len(events) <= ChanCap
        /\ NoRepeats(events) /\ NoRepeats(buffer)
    BY <2>1 DEF SinkInv, TypeOK, Running, OnePlace
  <2>3. /\ x \in Messages /\ events' \in Seq(Messages) /\ Len(events') = Len(events) - 1
        /\ Elems(events) = Elems(events)' \cup {x}
        /\ NoRepeats(events)' /\ x \notin Elems(events)'
    <3>1. /\ x \in Messages /\ Tail(events) \in Seq(Messages)
          /\ Len(Tail(events)) = Len(events) - 1
          /\ Elems(events) = Elems(Tail(events)) \cup {x}
          /\ NoRepeats(Tail(events)) /\ x \notin Elems(Tail(events))
      BY <2>1, <2>2, ElemsPop
    <3>2. Elems(events)' = Elems(Tail(events)) /\ NoRepeats(events)' = NoRepeats(Tail(events))
      BY <2>1 DEF Elems, NoRepeats
    <3> QED BY <2>1, <3>1, <3>2
  <2>4. x \notin Elems(buffer) BY <2>2, <2>3 DEF OnePlace
  <2>5. /\ buffer' \in Seq(Messages) /\ Len(buffer') = Len(buffer) + 1
        /\ Elems(buffer)' = Elems(buffer) \cup {x} /\ NoRepeats(buffer)'
    <3>1. /\ Append(buffer, x) \in Seq(Messages) /\ Len(Append(buffer, x)) = Len(buffer) + 1
          /\ Elems(Append(buffer, x)) = Elems(buffer) \cup {x} /\ NoRepeats(Append(buffer, x))
      BY <2>2, <2>3, <2>4, ElemsAppend
    <3>2. /\ Elems(buffer)' = Elems(Append(buffer, x))
          /\ NoRepeats(buffer)' = NoRepeats(Append(buffer, x))
      BY <2>1 DEF Elems, NoRepeats
    <3> QED BY <2>1, <3>1, <3>2
  <2>6. stored' = stored BY <2>1 DEF stored
  <2>7. TypeOK'
    <3>1. Len(buffer) \in Nat /\ Len(events) \in Nat BY <2>2
    <3>2. Len(events') <= ChanCap /\ Len(buffer') <= BatchSize
      BY <2>2, <2>3, <2>5, <3>1 DEF ChanCap
    <3> QED BY <1>t, <2>1, <2>3, <2>5, <3>2 DEF TypeOK, Running
  <2>8. OnePlace' BY <2>2, <2>3, <2>4, <2>5, <2>6 DEF OnePlace
  <2>9. (Elems(events) \cup Elems(buffer) \cup stored)' = Elems(events) \cup Elems(buffer) \cup stored
    BY <2>3, <2>5, <2>6
  <2>10. NothingForgotten' BY <2>1, <2>9 DEF SinkInv, NothingForgotten, Running
  <2>11. CleanExitStored' BY <2>1 DEF CleanExitStored, Running
  <2> QED BY <2>1, <2>7, <2>8, <2>9, <2>10, <2>11 DEF SinkInv, StoredOnce
<1>7. CASE FlushOK
  <2>1. /\ UNCHANGED <<published, events, why, ctxDone, ticked, accepted>>
        /\ pc = "flush" /\ insert(DOMAIN buffer)
        /\ \/ pc' = "stopped" /\ buffer' = buffer
           \/ pc' = "select" /\ buffer' = <<>>
    BY <1>7 DEF FlushOK
  <2>2. /\ rows' \in [Messages -> Nat] /\ StoredOnce'
        /\ stored' = stored \cup Elems(buffer)
    BY <2>1, Insert
  <2>3. /\ Elems(events)' = Elems(events) /\ NoRepeats(events)' = NoRepeats(events)
        /\ OnePlace /\ NothingForgotten
    BY <2>1 DEF Elems, NoRepeats, SinkInv, Running
  <2>4. CASE pc' = "stopped" /\ buffer' = buffer
    <3>1. Elems(buffer)' = Elems(buffer) BY <2>4 DEF Elems
    <3>2. TypeOK' BY <1>t, <2>1, <2>2, <2>4 DEF TypeOK, Ended
    <3> QED BY <2>1, <2>2, <2>3, <2>4, <3>1, <3>2 DEF SinkInv, NothingForgotten, CleanExitStored, Running
  <2>5. CASE pc' = "select" /\ buffer' = <<>>
    <3>1. Elems(buffer)' = {} /\ NoRepeats(buffer)'
      BY <2>5, ElemsEmpty DEF Elems, NoRepeats
    <3>2. TypeOK' BY <1>t, <2>1, <2>2, <2>5 DEF TypeOK, Running
    <3>3. OnePlace' BY <2>2, <2>3, <3>1 DEF OnePlace
    <3>4. NothingForgotten' BY <2>1, <2>2, <2>3, <3>1 DEF NothingForgotten, Running
    <3> QED BY <2>1, <2>2, <2>3, <2>5, <3>1, <3>2, <3>3, <3>4 DEF SinkInv, CleanExitStored
  <2> QED BY <2>1, <2>4, <2>5
<1>8. CASE FlushError
  <2>1. PICK P \in SUBSET DOMAIN buffer : insert(P)
    BY <1>8 DEF FlushError
  <2>2. /\ UNCHANGED <<published, events, buffer, why, ctxDone, ticked, accepted>>
        /\ pc = "flush" /\ pc' = "fatal"
    BY <1>8 DEF FlushError
  <2>3. /\ rows' \in [Messages -> Nat] /\ StoredOnce'
        /\ stored' \subseteq stored \cup Elems(buffer)
    BY <2>1, <2>2, Insert
  <2>4. Elems(events)' = Elems(events) /\ Elems(buffer)' = Elems(buffer)
    BY <2>2 DEF Elems
  <2>5. TypeOK' BY <1>t, <2>2, <2>3 DEF TypeOK, Ended
  <2> QED BY <2>2, <2>3, <2>4, <2>5 DEF SinkInv, NothingForgotten, CleanExitStored, Running
<1>9. CASE UNCHANGED vars
  <2>1. /\ Elems(events)' = Elems(events) /\ Elems(buffer)' = Elems(buffer) /\ stored' = stored
        /\ OnePlace' = OnePlace /\ TypeOK' = TypeOK
    BY <1>9 DEF vars, Elems, stored, OnePlace, NoRepeats, TypeOK
  <2> QED BY <1>9, <2>1 DEF vars, SinkInv, StoredOnce, NothingForgotten, CleanExitStored
<1> QED BY <1>1, <1>2, <1>3, <1>4, <1>5, <1>6, <1>7, <1>8, <1>9 DEF Next

\* The conjunction of the bridge's invariants is inductive.
LEMMA BridgeInvariant == Spec => []SinkInv
  BY SinkInvInit, SinkInvNext, PTL DEF Spec

\* Type correctness for every batch size: the channel never holds more than
\* two batches and the batch never more than BatchSize.
THEOREM BridgeTyped == Spec => []TypeOK
<1>1. SinkInv => TypeOK BY DEF SinkInv
<1> QED BY <1>1, BridgeInvariant, PTL

\* No message becomes two rows, across inserts that fail half way and
\* restarts of the process.
THEOREM BridgeStoresOnce == Spec => []StoredOnce
<1>1. SinkInv => StoredOnce BY DEF SinkInv
<1> QED BY <1>1, BridgeInvariant, PTL

\* No event the running process accepted is forgotten: it is stored, in the
\* channel or in the batch.
THEOREM BridgeForgetsNothing == Spec => []NothingForgotten
<1>1. SinkInv => NothingForgotten BY DEF SinkInv
<1> QED BY <1>1, BridgeInvariant, PTL

\* A clean exit means that the last batch was stored.
THEOREM BridgeExitsClean == Spec => []CleanExitStored
<1>1. SinkInv => CleanExitStored BY DEF SinkInv
<1> QED BY <1>1, BridgeInvariant, PTL
----------------------------------------------------------------------------
\* The bridge implements the at-most-once sink.

inflightMap == IF pc \in Running THEN Elems(events) \cup Elems(buffer) ELSE {}

\* The initial state maps to the sink's.
LEMMA RefinesInit == Init => Sink!SinkInit
<1> SUFFICES ASSUME Init PROVE Sink!SinkInit OBVIOUS
<1>1. Elems(events) = {} /\ Elems(buffer) = {} BY ElemsEmpty DEF Init
<1>2. stored = {} /\ 1 .. published = {} BY DEF Init, stored
<1> QED BY <1>1, <1>2 DEF Sink!SinkInit

\* Every step maps to a step of the sink or to a stutter.
LEMMA RefinesNext == SinkInv /\ SinkInv' /\ [Next]_vars => [Sink!SinkNext]_(Sink!sinkVars)
<1> SUFFICES ASSUME SinkInv, SinkInv', [Next]_vars
             PROVE  Sink!SinkNext \/ UNCHANGED <<1 .. published, inflightMap, stored>>
  BY DEF Sink!sinkVars, inflightMap
<1>t. TypeOK BY DEF SinkInv
<1>p. ASSUME publish
      PROVE  /\ published + 1 \in Messages \ (1 .. published)
             /\ (1 .. published)' = (1 .. published) \cup {published + 1}
  <2>1. /\ published \in Nat /\ MaxPublished \in Nat
        /\ published < MaxPublished /\ published' = published + 1
    BY <1>p, <1>t, BridgeAssumption DEF publish, TypeOK
  <2>2. published + 1 \in Messages \ (1 .. published) BY <2>1 DEF Messages
  <2>3. 1 .. published + 1 = (1 .. published) \cup {published + 1} BY <2>1
  <2> QED BY <2>1, <2>2, <2>3
<1>1. CASE OnMessage
  <2> DEFINE n == published + 1
  <2>1. /\ publish /\ events' = Append(events, n)
        /\ UNCHANGED <<buffer, pc, rows>> /\ pc \in Running
    BY <1>1 DEF OnMessage
  <2>2. events \in Seq(Messages) /\ n \in Messages BY <1>t, <1>p, <2>1 DEF TypeOK
  <2>3. Elems(Append(events, n)) = Elems(events) \cup {n} BY <2>2, ElemsAppend
  <2>4. inflightMap' = inflightMap \cup {n}
    BY <2>1, <2>3 DEF inflightMap, Elems
  <2>5. stored' = stored BY <2>1 DEF stored
  <2>6. Sink!Take(n) BY <1>p, <2>1, <2>4, <2>5 DEF Sink!Take, inflightMap
  <2> QED BY <2>2, <2>6 DEF Sink!SinkNext
<1>2. CASE OnBadMessage \/ OnMessageFull \/ PublishUnheard
  <2> DEFINE n == published + 1
  <2>1. publish /\ UNCHANGED <<events, buffer, pc, rows>>
    BY <1>2 DEF OnBadMessage, OnMessageFull, PublishUnheard
  <2>2. inflightMap' = inflightMap /\ stored' = stored
    BY <2>1 DEF inflightMap, stored, Elems
  <2>3. Sink!Miss(n) BY <1>p, <2>1, <2>2 DEF Sink!Miss, inflightMap
  <2> QED BY <1>p, <2>1, <2>3 DEF Sink!SinkNext
<1>3. CASE Signal \/ Tick
  <2>1. UNCHANGED <<published, events, buffer, pc, rows>> BY <1>3 DEF Signal, Tick
  <2> QED BY <2>1 DEF inflightMap, stored, Elems
<1>4. CASE Restart
  <2>1. /\ events' = <<>> /\ buffer' = <<>> /\ pc \notin Running
        /\ UNCHANGED <<published, rows>>
    BY <1>4 DEF Restart, Running, Ended
  <2>2. Elems(events)' = {} /\ Elems(buffer)' = {} BY <2>1, ElemsEmpty DEF Elems
  <2> QED BY <2>1, <2>2 DEF inflightMap, stored
<1>5. CASE SelectDone \/ SelectTick
  <2>1. /\ UNCHANGED <<published, events, buffer, rows>> /\ pc = "select"
        /\ pc' \in Running \/ pc' = "stopped"
    BY <1>5 DEF SelectDone, SelectTick, Running
  <2>2. stored' = stored /\ Elems(events)' = Elems(events) /\ Elems(buffer)' = Elems(buffer)
    BY <2>1 DEF stored, Elems
  <2>3. CASE pc' \in Running
    <3>1. inflightMap' = inflightMap BY <2>1, <2>2, <2>3 DEF inflightMap, Running
    <3> QED BY <2>1, <2>2, <3>1
  <2>4. CASE pc' = "stopped"
    <3>1. inflightMap' = {} BY <2>4 DEF inflightMap, Running
    <3>2. Sink!End({})
      <4>1. stored' = stored \cup {} BY <2>2
      <4>2. (1 .. published)' = 1 .. published BY <2>1
      <4> QED BY <3>1, <4>1, <4>2 DEF Sink!End, inflightMap
    <3> QED BY <3>2 DEF Sink!SinkNext
  <2> QED BY <2>1, <2>3, <2>4
<1>6. CASE SelectEvent
  <2> DEFINE x == Head(events)
  <2>1. /\ UNCHANGED <<published, rows>>
        /\ pc = "select" /\ pc' \in Running /\ events # <<>>
        /\ events' = Tail(events) /\ buffer' = Append(buffer, x)
    BY <1>6 DEF SelectEvent, Running
  <2>2. events \in Seq(Messages) /\ buffer \in Seq(Messages) BY <1>t DEF TypeOK
  <2>3. x \in Messages /\ Elems(events) = Elems(Tail(events)) \cup {x} BY <2>1, <2>2, ElemsPop
  <2>4. Elems(Append(buffer, x)) = Elems(buffer) \cup {x} BY <2>2, <2>3, ElemsAppend
  <2>5. Elems(events)' = Elems(Tail(events)) /\ Elems(buffer)' = Elems(Append(buffer, x))
    BY <2>1 DEF Elems
  <2>6. inflightMap' = inflightMap
    BY <2>1, <2>3, <2>4, <2>5 DEF inflightMap, Running
  <2> QED BY <2>1, <2>6 DEF stored
<1>7. CASE FlushOK
  <2>1. /\ UNCHANGED <<published, events>> /\ pc = "flush" /\ insert(DOMAIN buffer)
        /\ \/ pc' = "stopped"
           \/ pc' = "select" /\ buffer' = <<>>
    BY <1>7 DEF FlushOK
  <2>2. stored' = stored \cup Elems(buffer) BY <2>1, Insert
  <2>3. Elems(buffer) \subseteq inflightMap /\ (1 .. published)' = 1 .. published
    BY <2>1 DEF inflightMap, Running
  <2>4. CASE pc' = "stopped"
    <3>1. inflightMap' = {} BY <2>4 DEF inflightMap, Running
    <3>2. Sink!End(Elems(buffer)) BY <2>2, <2>3, <3>1 DEF Sink!End, inflightMap
    <3> QED BY <2>3, <3>2 DEF Sink!SinkNext, inflightMap
  <2>5. CASE pc' = "select" /\ buffer' = <<>>
    <3>1. Elems(buffer)' = {} /\ Elems(events)' = Elems(events)
      BY <2>1, <2>5, ElemsEmpty DEF Elems
    <3>2. Elems(events) \cap Elems(buffer) = {} BY <2>1 DEF SinkInv, OnePlace, Running
    <3>3. inflightMap' = inflightMap \ Elems(buffer)
      BY <2>1, <2>5, <3>1, <3>2 DEF inflightMap, Running
    <3>4. Sink!Deliver(Elems(buffer)) BY <2>2, <2>3, <3>3 DEF Sink!Deliver, inflightMap
    <3> QED BY <2>3, <3>4 DEF Sink!SinkNext, inflightMap
  <2> QED BY <2>1, <2>4, <2>5
<1>8. CASE FlushError
  <2>1. PICK P \in SUBSET DOMAIN buffer : insert(P) BY <1>8 DEF FlushError
  <2>2. UNCHANGED published /\ pc = "flush" /\ pc' = "fatal" BY <1>8 DEF FlushError
  <2> DEFINE S == stored' \ stored
  <2>3. stored \subseteq stored' /\ stored' \subseteq stored \cup Elems(buffer)
    BY <2>1, <2>2, Insert
  <2>4. S \subseteq inflightMap /\ stored' = stored \cup S /\ (1 .. published)' = 1 .. published
    BY <2>2, <2>3 DEF inflightMap, Running
  <2>5. inflightMap' = {} BY <2>2 DEF inflightMap, Running
  <2> HIDE DEF S
  <2>6. Sink!End(S) BY <2>4, <2>5 DEF Sink!End, inflightMap
  <2> QED BY <2>4, <2>6 DEF Sink!SinkNext, inflightMap
<1>9. CASE UNCHANGED vars
  BY <1>9 DEF vars, inflightMap, stored, Elems
<1> QED BY <1>1, <1>2, <1>3, <1>4, <1>5, <1>6, <1>7, <1>8, <1>9 DEF Next

\* The refinement: every behaviour of the bridge is one of the at-most-once
\* sink.
THEOREM BridgeRefinesSink == Spec => ImplementsSink
  BY BridgeInvariant, RefinesInit, RefinesNext, PTL DEF Spec, ImplementsSink, Sink!SinkSpec
=============================================================================
