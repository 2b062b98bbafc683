---------------------- MODULE CorrelationEvidenceProofs ----------------------
(***************************************************************************)
(* More theorems about CorrelationEngine, for every value of its           *)
(* constants: what the event buffer may lose, that every incident rests on *)
(* evidence, that TheHive links are those of the incident that carries     *)
(* them, and that the engine implements IncidentPipeline.                  *)
(***************************************************************************)
EXTENDS CorrelationEngineProofs, FiniteSetTheorems, SequenceTheorems,
        WellFoundedInduction

-----------------------------------------------------------------------------
(* The event buffer *)

\* A nonempty set of numbers has a least element.
LEMMA LeastNat ==
    ASSUME NEW T \in SUBSET Nat, T # {}
    PROVE  \E x \in T : \A y \in T : x <= y
  <1> DEFINE R == OpToRel(<, Nat)
  <1>1. \E x \in T : \A y \in T : ~(<<y, x>> \in R)
    <2>1. IsWellFoundedOn(R, Nat) BY NatLessThanWellFounded
    <2> HIDE DEF R
    <2> QED BY <2>1, WFMin
  <1>2. \A x, y \in Nat : ~(<<y, x>> \in R) => x <= y
    BY DEF OpToRel
  <1> HIDE DEF R
  <1> QED BY <1>1, <1>2

\* Of a nonempty set of events one arrived first.
LEMMA FirstEvent ==
    ASSUME NEW E \in SUBSET Event, E # {}
    PROVE  \E e \in E : \A f \in E : e.seq <= f.seq
  <1> DEFINE T == {e.seq : e \in E}
  <1>1. T \in SUBSET Nat /\ T # {}
    BY DEF Event
  <1>2. PICK x \in T : \A y \in T : x <= y
    BY <1>1, LeastNat
  <1> QED BY <1>2

\* The first of a buffer, removed at the cap, is one event.
LEMMA OneOldest ==
    ASSUME NEW buf \in SUBSET Event, buf # {},
           \A e, f \in buf : e.seq = f.seq => e = f
    PROVE  \E o \in buf :
              /\ {e \in buf : \A f \in buf : e.seq <= f.seq} = {o}
              /\ \A f \in buf \ {o} : o.seq < f.seq
  <1>1. \A e \in buf : e.seq \in Nat
    BY DEF Event
  <1>2. PICK o \in buf : \A f \in buf : o.seq <= f.seq
    BY FirstEvent
  <1>3. \A e \in buf : (\A f \in buf : e.seq <= f.seq) => e = o
    BY <1>1, <1>2
  <1>4. \A f \in buf \ {o} : o.seq < f.seq
    BY <1>1, <1>2
  <1> QED BY <1>2, <1>3, <1>4

\* BufferEvent keeps the cap, and what it forgets arrived first in a full
\* buffer.
LEMMA BufferEventKeeps ==
    ASSUME NEW buf \in SUBSET Event, NEW ev \in Event,
           IsFiniteSet(buf), Cardinality(buf) <= BufferCap,
           \A e, f \in buf : e.seq = f.seq => e = f,
           \A e \in buf : e.seq < ev.seq
    PROVE  LET new == BufferEvent(buf, ev)
           IN  /\ IsFiniteSet(new) /\ Cardinality(new) <= BufferCap
               /\ new \subseteq buf \cup {ev}
               /\ \A e \in buf \ new : /\ Cardinality(buf) = BufferCap
                                       /\ \A f \in new : e.seq < f.seq
  <1> DEFINE new == BufferEvent(buf, ev)
             oldest == {e \in buf : \A f \in buf : e.seq <= f.seq}
  <1>0. /\ BufferCap \in Nat \ {0} /\ Cardinality(buf) \in Nat
        /\ \A e \in buf : e.seq \in Nat
        /\ ev \notin buf /\ ev.seq \in Nat
    BY BoundsAssumption, FS_CardinalityType DEF Event
  <1>1. CASE Cardinality(buf) >= BufferCap
    <2>1. new = (buf \ oldest) \cup {ev}
      BY <1>1 DEF BufferEvent
    <2>2. buf # {} /\ Cardinality(buf) = BufferCap
      BY <1>0, <1>1, FS_EmptySet
    <2>3. PICK o \in buf : oldest = {o} /\ \A f \in buf \ {o} : o.seq < f.seq
      BY <2>2, OneOldest
    <2> HIDE DEF oldest, new
    <2>4. new = (buf \ {o}) \cup {ev}
      BY <2>1, <2>3
    <2>5. IsFiniteSet(buf \ {o}) /\ Cardinality(buf \ {o}) = BufferCap - 1
      BY <2>2, FS_RemoveElement
    <2>6. IsFiniteSet(new) /\ Cardinality(new) = BufferCap
      BY <1>0, <2>4, <2>5, FS_AddElement
    <2>7. \A e \in buf \ new : \A f \in new : e.seq < f.seq
      BY <2>3, <2>4
    <2> QED BY <1>0, <2>2, <2>4, <2>6, <2>7 DEF new
  <1>2. CASE ~(Cardinality(buf) >= BufferCap)
    <2>1. new = buf \cup {ev}
      BY <1>2 DEF BufferEvent
    <2>2. IsFiniteSet(new) /\ Cardinality(new) = Cardinality(buf) + 1
      BY <1>0, <2>1, FS_AddElement
    <2> QED BY <1>0, <1>2, <2>1, <2>2
  <1> QED BY <1>1, <1>2

\* What BufferLoss allows a step to do to the buffer of a key.
LossAllowed(k) ==
    /\ Cardinality(eventBuffer'[k]) <= BufferCap
    /\ \A e \in eventBuffer[k] \ eventBuffer'[k] :
          \/ e.ts <= clock - BufferWindow
          \/ /\ Cardinality(eventBuffer[k]) = BufferCap
             /\ \A f \in eventBuffer'[k] : e.seq < f.seq

\* Ingesting an event under the next sequence number.
LEMMA IngestBuffer ==
    ASSUME TypeOK, BufferInv, NEW ev \in Event, ev.seq = eventsIngested,
           FromSource(ev), Ingest(ev)
    PROVE  BufferInv' /\ \A k \in Keys : LossAllowed(k)
  <1> DEFINE key == <<ev.tenant, ev.etype>>
             new == BufferEvent(eventBuffer[key], ev)
  <1>1. key \in Keys
    BY DEF Keys, Event
  <1>2. /\ eventBuffer \in [Keys -> SUBSET Event] /\ snapshot \in [Keys -> SUBSET Event]
        /\ eventsIngested \in Nat
    BY DEF TypeOK
  <1>3. /\ eventBuffer' = [eventBuffer EXCEPT ![key] = new]
        /\ snapshot' = snapshot /\ eventsIngested' = eventsIngested + 1
    BY DEF Ingest, evalVars
  <1>4. /\ \A k \in Keys : eventBuffer'[k] = IF k = key THEN new ELSE eventBuffer[k]
        /\ \A k \in Keys : \A e \in eventBuffer[k] : e.seq \in Nat
        /\ \A k \in Keys : \A e \in snapshot[k] : e.seq \in Nat
    BY <1>1, <1>2, <1>3 DEF Event
  <1>5. /\ IsFiniteSet(new) /\ Cardinality(new) <= BufferCap
        /\ new \subseteq eventBuffer[key] \cup {ev}
        /\ \A e \in eventBuffer[key] \ new :
              /\ Cardinality(eventBuffer[key]) = BufferCap
              /\ \A f \in new : e.seq < f.seq
    <2>1. /\ eventBuffer[key] \in SUBSET Event
          /\ IsFiniteSet(eventBuffer[key]) /\ Cardinality(eventBuffer[key]) <= BufferCap
          /\ \A e, f \in eventBuffer[key] : e.seq = f.seq => e = f
          /\ \A e \in eventBuffer[key] : e.seq < ev.seq
      BY <1>1, <1>2 DEF BufferInv, Filed
    <2> QED BY <2>1, BufferEventKeeps
  <1> HIDE DEF new
  <1>6. ASSUME NEW k \in Keys
        PROVE  /\ IsFiniteSet(eventBuffer'[k]) /\ LossAllowed(k)
               /\ eventBuffer'[k] \subseteq eventBuffer[k] \cup {ev}
               /\ ev \in eventBuffer'[k] \ eventBuffer[k] => k = key
    <2>1. CASE k = key
      BY <1>4, <1>5, <2>1 DEF LossAllowed
    <2>2. CASE k # key
      BY <1>4, <2>2 DEF LossAllowed, BufferInv
    <2> QED BY <2>1, <2>2
  <1>7. Filed(eventBuffer)'
    <2>1. ASSUME NEW k \in Keys, NEW e \in eventBuffer'[k]
          PROVE  /\ k = <<e.tenant, e.etype>> /\ e.seq < eventsIngested' /\ FromSource(e)
                 /\ \/ e = ev
                    \/ e \in eventBuffer[k] /\ e.seq < ev.seq
      <3>1. CASE e = ev
        <4>1. ev \in eventBuffer[k] => ev.seq < ev.seq
          BY DEF BufferInv, Filed
        <4>2. k = key
          BY <1>2, <1>6, <3>1, <4>1
        <4> QED BY <1>2, <1>3, <3>1, <4>2
      <3>2. CASE e \in eventBuffer[k]
        BY <1>2, <1>3, <1>4, <3>2 DEF BufferInv, Filed
      <3> QED BY <1>6, <3>1, <3>2
    <2>2. ASSUME NEW k \in Keys, NEW l \in Keys, NEW e \in eventBuffer'[k],
                 NEW f \in eventBuffer'[l], e.seq = f.seq
          PROVE  e = f
      <3>1. ev.seq \in Nat /\ ~(ev.seq < ev.seq)
        BY <1>2
      <3> QED BY <2>1, <2>2, <3>1 DEF BufferInv, Filed
    <2> QED BY <2>1, <2>2 DEF Filed
  <1>8. Filed(snapshot)'
    BY <1>2, <1>3, <1>4 DEF BufferInv, Filed
  <1> QED BY <1>6, <1>7, <1>8 DEF BufferInv, LossAllowed

\* Dropping events from the buffer keeps it filed.
LEMMA PruneBuffer ==
    ASSUME TypeOK, BufferInv, pruneBuffer
    PROVE  BufferInv' /\ \A k \in Keys : LossAllowed(k)
  <1>1. /\ UNCHANGED <<snapshot, eventsIngested>>
        /\ eventBuffer' = [k \in Keys |->
                             {ev \in eventBuffer[k] : ev.ts > clock - BufferWindow}]
        /\ eventBuffer \in [Keys -> SUBSET Event]
        /\ clock - BufferWindow \in Int
    BY BoundsAssumption DEF pruneBuffer, evalVars, TypeOK
  <1>2. ASSUME NEW k \in Keys
        PROVE  /\ IsFiniteSet(eventBuffer'[k])
               /\ eventBuffer'[k] \subseteq eventBuffer[k]
               /\ LossAllowed(k)
    <2>1. eventBuffer'[k] \in SUBSET eventBuffer[k]
      BY <1>1
    <2>2. IsFiniteSet(eventBuffer[k]) /\ Cardinality(eventBuffer[k]) <= BufferCap
      BY DEF BufferInv
    <2>3. /\ IsFiniteSet(eventBuffer'[k]) /\ Cardinality(eventBuffer'[k]) \in Nat
          /\ Cardinality(eventBuffer[k]) \in Nat
          /\ Cardinality(eventBuffer'[k]) <= Cardinality(eventBuffer[k])
      BY <2>1, <2>2, FS_Subset, FS_CardinalityType
    <2>4. Cardinality(eventBuffer'[k]) <= BufferCap
      BY <2>2, <2>3, BoundsAssumption
    <2>5. \A e \in eventBuffer[k] \ eventBuffer'[k] : e.ts <= clock - BufferWindow
      BY <1>1 DEF Event
    <2> QED BY <2>1, <2>3, <2>4, <2>5 DEF LossAllowed
  <1>3. Filed(eventBuffer)'
    BY <1>1, <1>2 DEF BufferInv, Filed
  <1>4. Filed(snapshot)'
    BY <1>1 DEF BufferInv, Filed
  <1> QED BY <1>2, <1>3, <1>4 DEF BufferInv, LossAllowed

\* An event that arrives is ingested under the next sequence number.
LEMMA IngestedEvent ==
    ASSUME TypeOK,
           \/ \E m \in Messages, lag \in Lags : processEvent(m, lag)
           \/ \E t \in Tenants : IngestFalcoAlert(t)
    PROVE  \E ev \in Event : ev.seq = eventsIngested /\ FromSource(ev) /\ Ingest(ev)
  <1>1. ASSUME NEW m \in Messages, NEW lag \in Lags, processEvent(m, lag)
        PROVE  \E ev \in Event : ev.seq = eventsIngested /\ FromSource(ev) /\ Ingest(ev)
    <2> DEFINE ev == [id |-> m.id, tenant |-> m.tenant, agent |-> m.agent,
                      source |-> m.source, etype |-> m.etype, title |-> m.title,
                      ts |-> clock - lag, seq |-> eventsIngested]
    <2>1. ev \in Event
      BY NamesAssumption DEF TypeOK, Event
    <2>2. Ingest(ev)
      BY <1>1 DEF processEvent
    <2>3. ev.seq = eventsIngested /\ FromSource(ev)
      BY DEF FromSource
    <2> HIDE DEF ev
    <2> QED BY <2>1, <2>2, <2>3
  <1>2. ASSUME NEW t \in Tenants, IngestFalcoAlert(t)
        PROVE  \E ev \in Event : ev.seq = eventsIngested /\ FromSource(ev) /\ Ingest(ev)
    <2> DEFINE ev == [id |-> 0 - eventsIngested - 1, tenant |-> t, agent |-> t,
                      source |-> "falco", etype |-> "alert",
                      title |-> FalcoTitle, ts |-> clock, seq |-> eventsIngested]
    <2>0. /\ clock \in Int /\ eventsIngested \in Nat /\ 0 - eventsIngested - 1 \in Int
          /\ t \in STRING /\ FalcoTitle \in STRING /\ "alert" \in EventTypes
      BY <1>2, NamesAssumption DEF TypeOK, IngestFalcoAlert
    <2>1. ev \in Event
      BY <2>0, EventType DEF Sources
    <2>2. Ingest(ev)
      BY <1>2 DEF IngestFalcoAlert
    <2>3. ev.seq = eventsIngested /\ FromSource(ev)
      BY DEF FromSource
    <2> HIDE DEF ev
    <2> QED BY <2>1, <2>2, <2>3
  <1> QED BY <1>1, <1>2

\* Every other step leaves the buffer, or copies it, or drops the copy.
LEMMA BufferSteps ==
    ASSUME [Next]_vars
    PROVE  \/ \E m \in Messages, lag \in Lags : processEvent(m, lag)
           \/ \E t \in Tenants : IngestFalcoAlert(t)
           \/ pruneBuffer
           \/ /\ UNCHANGED <<eventBuffer, eventsIngested>>
              /\ snapshot' \in {snapshot, eventBuffer, EmptyBuffer}
  <1> DEFINE Quiet == /\ UNCHANGED <<eventBuffer, eventsIngested>>
                      /\ snapshot' \in {snapshot, eventBuffer, EmptyBuffer}
  <1>1. CASE Evaluator
    BY <1>1 DEF Evaluator, EvalBegin, EvalSnapshot, EvalRule, EvalSend, EvalDone,
                EvalStop, otherVars
  <1>2. ASSUME NEW w, DispatchStep(w) PROVE Quiet
    BY <1>2 DEF DispatchStep, CreateAlert, RecordAlert, PromoteAlert, Shuffle, dispVars,
                evalVars
  <1>3. CASE Dispatcher
    BY <1>2, <1>3 DEF Dispatcher, Dequeue, DispatcherStop, otherVars, evalVars
  <1>4. CASE \E w \in Requests, id \in DOMAIN incidentMap : DispatchByID(w, id)
    BY <1>4 DEF DispatchByID, evalVars
  <1>5. CASE \/ cleanDedupCache \/ Tick \/ Cancel \/ StartReturns \/ MainExits \/ Exited
             \/ UNCHANGED vars
    BY <1>5 DEF cleanDedupCache, Tick, Cancel, StartReturns, MainExits, Exited, vars,
                otherVars, evalVars
  <1>6. CASE \E id \in DOMAIN incidentMap, s \in PatchStatuses : UpdateIncidentStatus(id, s)
    BY <1>6 DEF UpdateIncidentStatus, evalVars
  <1> QED
    BY <1>1, <1>2, <1>3, <1>4, <1>5, <1>6 DEF Next

LEMMA BufferStep ==
    ASSUME TypeOK, BufferInv, [Next]_vars
    PROVE  BufferInv' /\ \A k \in Keys : LossAllowed(k)
  <1>1. CASE \/ \E m \in Messages, lag \in Lags : processEvent(m, lag)
             \/ \E t \in Tenants : IngestFalcoAlert(t)
    BY <1>1, IngestedEvent, IngestBuffer
  <1>2. CASE pruneBuffer
    BY <1>2, PruneBuffer
  <1>3. CASE /\ UNCHANGED <<eventBuffer, eventsIngested>>
             /\ snapshot' \in {snapshot, eventBuffer, EmptyBuffer}
    <2>1. Filed(eventBuffer)' /\ \A k \in Keys : LossAllowed(k)
      BY <1>3 DEF BufferInv, Filed, LossAllowed
    <2>2. Filed(EmptyBuffer)
      BY DEF Filed, EmptyBuffer
    <2>3. Filed(snapshot)'
      BY <1>3, <2>2 DEF BufferInv, Filed
    <2> QED BY <1>3, <2>1, <2>3 DEF BufferInv
  <1> QED BY <1>1, <1>2, <1>3, BufferSteps

LEMMA BufferInvariant == Spec => []BufferInv
  <1>1. Init => BufferInv
    BY FS_EmptySet, BoundsAssumption DEF Init, BufferInv, Filed, EmptyBuffer
  <1>2. TypeOK /\ BufferInv /\ [Next]_vars => BufferInv'
    BY BufferStep
  <1> QED BY <1>1, <1>2, TypeCorrect, PTL DEF Spec

\* processEvent and pruneBuffer keep every key within maxBufferPerKey, and
\* forget an event only when it is older than the buffer window or arrived
\* first in a full buffer.
THEOREM BufferKeepsEvents == Spec => BufferLoss
  <1>1. TypeOK /\ BufferInv /\ [Next]_vars =>
          [\A k \in Keys :
             /\ Cardinality(eventBuffer'[k]) <= BufferCap
             /\ \A e \in eventBuffer[k] \ eventBuffer'[k] :
                   \/ e.ts <= clock - BufferWindow
                   \/ /\ Cardinality(eventBuffer[k]) = BufferCap
                      /\ \A f \in eventBuffer'[k] : e.seq < f.seq]_vars
    BY BufferStep DEF LossAllowed
  <1> QED BY <1>1, TypeCorrect, BufferInvariant, PTL DEF Spec, BufferLoss

-----------------------------------------------------------------------------
(* The evidence of an incident *)

\* Of a nonempty set of events one comes first in the evaluator's order.
LEMMA FirstInOrder ==
    ASSUME NEW E \in SUBSET Event, E # {}, NEW order \in [Keys -> Nat]
    PROVE  \E e \in E : \A f \in E : ~Earlier(f, e, order)
  <1> DEFINE Place(e) == order[<<e.tenant, e.etype>>]
             T == {Place(e) : e \in E}
  <1>1. \A e \in E : Place(e) \in Nat /\ e.seq \in Nat
    BY DEF Event, Keys
  <1>2. T \in SUBSET Nat /\ T # {}
    BY <1>1
  <1>3. PICK p \in T : \A y \in T : p <= y
    <2> HIDE DEF T
    <2> QED BY <1>2, LeastNat
  <1> DEFINE F == {e \in E : Place(e) = p}
  <1>4. F \in SUBSET Event /\ F # {}
    BY <1>3
  <1>5. PICK e \in F : \A f \in F : e.seq <= f.seq
    <2> HIDE DEF F
    <2> QED BY <1>4, FirstEvent
  <1>6. ASSUME NEW f \in E, Earlier(f, e, order) PROVE FALSE
    <2>1. Place(f) < Place(e) \/ (Place(f) = Place(e) /\ f.seq < e.seq)
      BY <1>6 DEF Earlier
    <2>2. Place(e) = p /\ p <= Place(f) /\ e \in E
      BY <1>3, <1>5
    <2> HIDE DEF Place
    <2>3. Place(f) = p /\ f.seq < e.seq
      BY <1>1, <2>1, <2>2
    <2> QED BY <1>1, <1>5, <2>2, <2>3
  <1> QED BY <1>5, <1>6

\* An event came from a message that meets the same conditions, or it is the
\* only one of its id.
LEMMA IdIsOfMessage ==
    ASSUME NEW e \in Event, NEW f \in Event, FromSource(e), FromSource(f), e.id = f.id,
           NEW cond, matchCondition(cond, e)
    PROVE  \/ \E m \in Messages : m.id = f.id /\ matchCondition(cond, m)
           \/ e.seq = f.seq
  <1>1. e.seq \in Nat /\ f.seq \in Nat
    BY DEF Event
  <1>2. \A m \in Messages : m.id \in Nat
    BY NamesAssumption
  <1>3. CASE \E m \in Messages : /\ e.id = m.id /\ e.source = m.source
                                /\ e.etype = m.etype /\ e.title = m.title
    BY <1>3 DEF matchCondition
  <1>4. CASE e.id = 0 - e.seq - 1
    BY <1>1, <1>2, <1>4 DEF FromSource
  <1> QED BY <1>3, <1>4 DEF FromSource

\* The conditions of a rule are a sequence, and its counts are integers.
LEMMA ConditionFacts ==
    ASSUME NEW r \in RuleIDs
    PROVE  /\ DOMAIN Rules[r].conditions = 1 .. Len(Rules[r].conditions)
           /\ Len(Rules[r].conditions) \in Nat
           /\ Rules[r].threshold \in Int
           /\ \A c \in DOMAIN Rules[r].conditions : Rules[r].conditions[c].minCount \in Int
  <1> DEFINE Cond == [source : Sources \cup {"any"}, etype : STRING,
                      titles : SUBSET STRING, minCount : Int]
             Rule == [window : Nat, severity : Int, threshold : Int,
                      conditions : Seq(Cond)]
  <1>1. Rules \in Seq(Rule)
    BY RulesAssumption
  <1>2. \A x \in Cond : x.minCount \in Int
    OBVIOUS
  <1> HIDE DEF Cond
  <1>3. \A x \in Rule : x.threshold \in Int /\ x.conditions \in Seq(Cond)
    OBVIOUS
  <1> HIDE DEF Rule
  <1>4. Rules[r] \in Rule
    BY <1>1 DEF RuleIDs
  <1> QED BY <1>2, <1>3, <1>4

\* What matchRule returns names each id once and has something that stands for
\* every condition, although it counts every delivery and keeps one event of
\* an id.
LEMMA MatchIsWitnessed ==
    ASSUME NEW W \in SUBSET Event, NEW r \in RuleIDs, NEW order \in [Keys -> Nat],
           \A e \in W : FromSource(e),
           \A e, f \in W : e.seq = f.seq => e = f,
           matchRule(Rules[r], W, order) # {}
    PROVE  LET events == matchRule(Rules[r], W, order)
           IN  /\ events \subseteq W
               /\ \A e, f \in events : e.id = f.id => e = f
               /\ \A c \in DOMAIN Rules[r].conditions :
                     \E ev \in events : StandsFor(Rules[r], c, ev)
  <1> DEFINE conds == Rules[r].conditions
             hits(c) == {ev \in W : matchCondition(conds[c], ev)}
             kept(c) == {ev \in hits(c) :
                           /\ \A d \in 1 .. c - 1 : \A e \in hits(d) : e.id # ev.id
                           /\ \A e \in hits(c) : e.id = ev.id => ~Earlier(e, ev, order)}
             events == UNION {kept(c) : c \in DOMAIN conds}
  <1>1. /\ \A c \in DOMAIN conds : Cardinality(hits(c)) >= Required(Rules[r], conds[c])
        /\ matchRule(Rules[r], W, order) = events
    BY DEF matchRule
  <1>2. /\ DOMAIN conds = 1 .. Len(conds) /\ Len(conds) \in Nat
        /\ \A c \in DOMAIN conds : conds[c].minCount \in Int /\ Rules[r].threshold \in Int
    BY ConditionFacts
  <1>3. \A c \in DOMAIN conds : hits(c) # {}
    <2> SUFFICES ASSUME NEW c \in DOMAIN conds, hits(c) = {} PROVE FALSE
      OBVIOUS
    <2>1. Required(Rules[r], conds[c]) \in Int /\ Required(Rules[r], conds[c]) >= 1
      BY <1>2 DEF Required
    <2>2. Cardinality(hits(c)) = 0
      BY FS_EmptySet
    <2>3. Cardinality(hits(c)) >= Required(Rules[r], conds[c])
      BY <1>1
    <2> DEFINE need == Required(Rules[r], conds[c])
               got == Cardinality(hits(c))
    <2>4. need \in Int /\ need >= 1 /\ got = 0 /\ got >= need
      BY <2>1, <2>2, <2>3
    <2> HIDE DEF need, got
    <2> QED BY <2>4
  <1>4. events \subseteq W
    OBVIOUS
  <1>5. ASSUME NEW e \in events, NEW f \in events, e.id = f.id PROVE e = f
    <2>1. PICK c \in DOMAIN conds : e \in kept(c)
      OBVIOUS
    <2>2. PICK d \in DOMAIN conds : f \in kept(d)
      OBVIOUS
    <2>3. e \in hits(c) /\ f \in hits(d) /\ e \in Event /\ f \in Event
      BY <2>1, <2>2
    <2>4. ~(c \in 1 .. d - 1) /\ ~(d \in 1 .. c - 1)
      BY <1>5, <2>1, <2>2, <2>3
    <2>5. c = d
      BY <1>2, <2>4
    <2>6. ~Earlier(e, f, order) /\ ~Earlier(f, e, order)
      BY <1>5, <2>1, <2>2, <2>3, <2>5
    <2> DEFINE Place(ev) == order[<<ev.tenant, ev.etype>>]
    <2>7. /\ Place(e) \in Nat /\ Place(f) \in Nat /\ e.seq \in Nat /\ f.seq \in Nat
          /\ ~(Place(e) < Place(f)) /\ ~(Place(f) < Place(e))
          /\ Place(e) = Place(f) => ~(e.seq < f.seq) /\ ~(f.seq < e.seq)
      BY <2>3, <2>6 DEF Earlier, Event, Keys
    <2> HIDE DEF Place
    <2>8. e.seq = f.seq
      BY <2>7
    <2> QED BY <2>3, <2>8
  <1>6. ASSUME NEW c \in DOMAIN conds PROVE \E ev \in events : StandsFor(Rules[r], c, ev)
    <2>1. PICK h \in hits(c) : TRUE
      BY <1>3
    <2> DEFINE holds(d) == \E e \in hits(d) : e.id = h.id
               S == {d \in 1 .. c : holds(d)}
    <2>2. S \in SUBSET Nat /\ S # {}
      BY <1>2, <2>1
    <2>3. PICK d \in S : \A y \in S : d <= y
      <3> HIDE DEF S
      <3> QED BY <2>2, LeastNat
    <2>4. d \in 1 .. c /\ c \in 1 .. Len(conds) /\ d \in DOMAIN conds
      BY <1>2, <2>3
    <2>5. \A y \in 1 .. d - 1 : ~holds(y)
      BY <1>2, <2>3, <2>4
    <2> DEFINE same == {e \in hits(d) : e.id = h.id}
    <2>6. same \in SUBSET Event /\ same # {}
      BY <2>3
    <2>7. PICK g \in same : \A f \in same : ~Earlier(f, g, order)
      <3> HIDE DEF same
      <3> QED BY <2>6, FirstInOrder
    <2>8. g \in kept(d) /\ g.id = h.id /\ g \in W /\ h \in W /\ matchCondition(conds[d], g)
      BY <2>1, <2>5, <2>7
    <2>9. g \in events
      BY <2>4, <2>8
    <2>10. matchCondition(conds[c], h)
      BY <2>1
    <2>11. \/ \E m \in Messages : m.id = g.id /\ matchCondition(conds[c], m)
           \/ h = g
      BY <2>8, <2>10, IdIsOfMessage
    <2>12. StandsFor(Rules[r], c, g)
      <3>1. CASE d = c
        BY <2>8, <3>1 DEF StandsFor
      <3>2. CASE d # c
        <4>1. d \in 1 .. c - 1
          BY <2>4, <3>2
        <4> QED BY <2>8, <2>10, <2>11, <4>1 DEF StandsFor
      <3> QED BY <3>1, <3>2
    <2> QED BY <2>9, <2>12
  <1> HIDE DEF events
  <1> QED BY <1>1, <1>4, <1>5, <1>6

\* What IncidentJustified says of one incident.
Justified(i) ==
    LET inc == incidentMap[i]
        rule == Rules[inc.rule]
    IN  /\ \A ev \in inc.events :
              UpToColon[ev.tenant] = inc.tenant /\ ev.ts > inc.createdAt - rule.window
        /\ \A e, f \in inc.events : e.id = f.id => e = f
        /\ \A c \in DOMAIN rule.conditions :
              \E ev \in inc.events : StandsFor(rule, c, ev)

\* The match of a rule for a tenant is evidence against that tenant.
LEMMA MatchIsEvidence ==
    ASSUME TypeOK, BufferInv, NEW r \in RuleIDs, NEW t \in Tenants, Match(r, t) # {}
    PROVE  /\ \A ev \in Match(r, t) :
                 UpToColon[ev.tenant] = t /\ ev.ts > evalNow - Rules[r].window
           /\ \A e, f \in Match(r, t) : e.id = f.id => e = f
           /\ \A c \in DOMAIN Rules[r].conditions :
                 \E ev \in Match(r, t) : StandsFor(Rules[r], c, ev)
  <1> DEFINE W == EventsAfter(snapshot, t, evalNow - BufferWindow)
                    \cap EventsAfter(snapshot, t, evalNow - Rules[r].window)
  <1>1. Match(r, t) = matchRule(Rules[r], W, keyOrder)
    BY DEF Match
  <1>2. \A ev \in W : \E k \in KeysOf(t) : ev \in snapshot[k]
    BY DEF EventsAfter
  <1>3. \A ev \in W : ev.ts > evalNow - Rules[r].window
    BY DEF EventsAfter
  <1> HIDE DEF W
  <1>4. \A k \in KeysOf(t) : k \in Keys /\ UpToColon[k[1]] = t
    BY DEF KeysOf, Keys
  <1>5. /\ \A ev \in W : ev \in Event /\ FromSource(ev) /\ UpToColon[ev.tenant] = t
        /\ \A e, f \in W : e.seq = f.seq => e = f
    <2>1. snapshot \in [Keys -> SUBSET Event] /\ Filed(snapshot)
      BY DEF TypeOK, BufferInv
    <2>2. ASSUME NEW e \in W PROVE e \in Event /\ FromSource(e) /\ UpToColon[e.tenant] = t
      <3>1. PICK k \in KeysOf(t) : e \in snapshot[k]
        BY <1>2
      <3>2. k = <<e.tenant, e.etype>> /\ FromSource(e) /\ e \in Event
        BY <1>4, <2>1, <3>1 DEF Filed
      <3> QED BY <1>4, <3>2
    <2>3. ASSUME NEW e \in W, NEW f \in W, e.seq = f.seq PROVE e = f
      <3>1. PICK k \in KeysOf(t) : e \in snapshot[k]
        BY <1>2
      <3>2. PICK l \in KeysOf(t) : f \in snapshot[l]
        BY <1>2
      <3> QED BY <1>4, <2>1, <2>3, <3>1, <3>2 DEF Filed
    <2> QED BY <2>2, <2>3
  <1>6. LET events == matchRule(Rules[r], W, keyOrder)
        IN  /\ events \subseteq W
            /\ \A e, f \in events : e.id = f.id => e = f
            /\ \A c \in DOMAIN Rules[r].conditions :
                  \E ev \in events : StandsFor(Rules[r], c, ev)
    <2>1. W \in SUBSET Event /\ keyOrder \in [Keys -> Nat]
      BY <1>5 DEF TypeOK
    <2> QED BY <1>1, <1>5, <2>1, MatchIsWitnessed
  <1> QED BY <1>1, <1>3, <1>5, <1>6

LEMMA EvidenceStep ==
    ASSUME TypeOK, BufferInv, IncidentJustified, [Next]_vars
    PROVE  IncidentJustified'
  <1>0. \A i \in DOMAIN incidentMap : Justified(i)
    BY DEF IncidentJustified, Justified
  <1>1. ASSUME NEW i \in DOMAIN incidentMap, Kept(i) PROVE Justified(i)'
    <2>1. Justified(i)
      BY <1>0
    <2> QED BY <1>1, <2>1 DEF Kept, Justified
  <1>2. ASSUME \A i \in DOMAIN incidentMap' : Justified(i)' PROVE IncidentJustified'
    BY <1>2 DEF IncidentJustified, Justified
  <1>3. incidentMap' = incidentMap => \A i \in DOMAIN incidentMap : Kept(i)
    BY DEF Kept
  <1>4. ASSUME NEW t \in Tenants, EvalRule(t) PROVE IncidentJustified'
    <2>0. PICK n : n = Len(incidentMap) + 1
      OBVIOUS
    <2> DEFINE events == Match(evalRule, t)
               new == NewIncident(evalRule, t, events)
    <2>1. CASE incidentMap' = incidentMap
      BY <1>1, <1>2, <1>3, <2>1
    <2>2. CASE /\ events # {}
               /\ DOMAIN incidentMap' = DOMAIN incidentMap \cup {n}
               /\ \A i \in DOMAIN incidentMap : incidentMap'[i] = incidentMap[i]
               /\ incidentMap'[n] = new
      <3>1. \A i \in DOMAIN incidentMap : Kept(i)
        BY <2>2 DEF Kept
      <3>2. /\ new.events = events /\ new.tenant = t /\ new.rule = evalRule
            /\ new.createdAt = evalNow
        BY DEF NewIncident
      <3>3. /\ \A ev \in events :
                  UpToColon[ev.tenant] = t /\ ev.ts > evalNow - Rules[evalRule].window
            /\ \A e, f \in events : e.id = f.id => e = f
            /\ \A c \in DOMAIN Rules[evalRule].conditions :
                  \E ev \in events : StandsFor(Rules[evalRule], c, ev)
        <4>1. evalRule \in RuleIDs
          BY DEF TypeOK
        <4> QED BY <2>2, <4>1, MatchIsEvidence
      <3> HIDE DEF new, events
      <3>4. Justified(n)'
        BY <2>2, <3>2, <3>3 DEF Justified
      <3> QED BY <1>1, <1>2, <2>2, <3>1, <3>4
    <2> QED BY <1>4, <2>0, <2>1, <2>2, EvalRuleEffect
  <1>5. CASE \/ EvalBegin \/ EvalSnapshot \/ EvalDone \/ EvalStop
             \/ cleanDedupCache \/ Tick
    <2>1. incidentMap' = incidentMap
      BY <1>5 DEF EvalBegin, EvalSnapshot, EvalDone, EvalStop, cleanDedupCache, Tick, otherVars
    <2> QED BY <1>1, <1>2, <1>3, <2>1
  <1>6. CASE Aside
    BY <1>1, <1>2, <1>6 DEF Aside
  <1> QED
    BY <1>4, <1>5, <1>6, StepKinds

\* matchRule raises no incident without evidence: it is of the incident's
\* tenant, up to the first colon of an id, and in the rule's window, and names
\* an id once although every delivery is counted.  For every condition it has
\* a witness or, where several messages share an id, the event of an earlier
\* condition that bears the witness's id.
THEOREM IncidentsHaveEvidence == Spec => []IncidentJustified
  <1>1. Init => IncidentJustified
    BY DEF Init, IncidentJustified
  <1>2. TypeOK /\ BufferInv /\ IncidentJustified /\ [Next]_vars => IncidentJustified'
    BY EvidenceStep
  <1> QED BY <1>1, <1>2, TypeCorrect, BufferInvariant, PTL DEF Spec

-----------------------------------------------------------------------------
(* Incidents and their alerts *)

\* The parts of LinksInv about one incident, one alert and one worker.
Linked(i) ==
    /\ incidentMap[i].thehive # NoAlert =>
          /\ incidentMap[i].thehive \in DOMAIN alerts
          /\ alerts[incidentMap[i].thehive].sourceRef = incidentMap[i].fp
    /\ incidentMap[i].fp.rule = incidentMap[i].rule
    /\ incidentMap[i].severity = Rules[incidentMap[i].rule].severity

CaseJustified(a) == alerts[a].case => Rules[alerts[a].sourceRef.rule].severity >= 4

HoldsOwn(w) ==
    /\ disp[w].pc \in {"record", "promote"} =>
          alerts[disp[w].alert].sourceRef = incidentMap[disp[w].inc].fp
    /\ disp[w].pc = "promote" => incidentMap[disp[w].inc].severity >= 4

LEMMA LinksInvParts ==
    LinksInv <=> /\ \A i \in DOMAIN incidentMap : Linked(i)
                 /\ \A a \in DOMAIN alerts : CaseJustified(a)
                 /\ \A w \in Workers : HoldsOwn(w)
  BY DEF LinksInv, LinksAreReal, Linked, CaseJustified, HoldsOwn

LEMMA LinksInvPartsNext ==
    LinksInv' <=> /\ \A i \in DOMAIN incidentMap' : Linked(i)'
                  /\ \A a \in DOMAIN alerts' : CaseJustified(a)'
                  /\ \A w \in Workers : HoldsOwn(w)'
  BY DEF LinksInv, LinksAreReal, Linked, CaseJustified, HoldsOwn

LEMMA SeqAppend ==
    ASSUME NEW S, NEW s \in Seq(S), NEW x
    PROVE  /\ DOMAIN Append(s, x) = DOMAIN s \cup {Len(s) + 1}
           /\ \A a \in DOMAIN s : Append(s, x)[a] = s[a]
           /\ Append(s, x)[Len(s) + 1] = x
  OBVIOUS

\* TheHive's alerts keep their number and their sourceRef.
AlertsKept ==
    /\ DOMAIN alerts \subseteq DOMAIN alerts'
    /\ \A a \in DOMAIN alerts : alerts'[a].sourceRef = alerts[a].sourceRef

\* A worker that holds its own alert goes on holding it while it does not move.
LEMMA HoldsOwnStays ==
    ASSUME TypeOK, LinksInv, NEW w \in Workers, disp'[w] = disp[w], AlertsKept,
           \A i \in DOMAIN incidentMap : Kept(i)
    PROVE  HoldsOwn(w)'
  <1>1. HoldsOwn(w) /\ InFlight(disp[w])
    BY LinksInvParts DEF TypeOK
  <1> QED BY <1>1 DEF HoldsOwn, InFlight, AlertsKept, Kept

\* A link stays real while the incident keeps it.
LEMMA LinkedStays ==
    ASSUME LinksInv, NEW i \in DOMAIN incidentMap, AlertsKept, Kept(i),
           incidentMap'[i].thehive = incidentMap[i].thehive
    PROVE  Linked(i)'
  <1>1. Linked(i)
    BY LinksInvParts
  <1> QED BY <1>1 DEF Linked, AlertsKept, Kept

\* A step of a dispatch.
LEMMA LinksDispatch ==
    ASSUME TypeOK, LinksInv, NEW w \in Workers, DispatchStep(w)
    PROVE  LinksInv'
  <1>0. /\ disp \in [Workers -> Worker] /\ disp[w] \in Worker
        /\ InFlight(disp[w]) /\ HoldsOwn(w)
        /\ \A a \in DOMAIN alerts : CaseJustified(a)
        /\ alerts \in Seq([sourceRef : Fingerprint, case : BOOLEAN])
        /\ incidentMap \in Seq(Incident)
        /\ \A i \in DOMAIN incidentMap : Linked(i)
    BY LinksInvParts DEF TypeOK
  <1>a. incidentMap' = incidentMap =>
          \A i \in DOMAIN incidentMap :
             Kept(i) /\ incidentMap'[i].thehive = incidentMap[i].thehive
    BY DEF Kept
  <1>b. alerts' = alerts => AlertsKept
    BY DEF AlertsKept
  <1>1. CASE CreateAlert(w)
    <2> DEFINE new == [sourceRef |-> incidentMap[disp[w].inc].fp, case |-> FALSE]
    <2>1. /\ incidentMap' = incidentMap
          /\ \A v \in Workers \ {w} : disp'[v] = disp[v]
          /\ disp'[w].inc = disp[w].inc
          /\ \/ alerts' = alerts /\ disp'[w].pc = "shuffle"
             \/ /\ alerts' = Append(alerts, new)
                /\ disp'[w].pc = "record" => disp'[w].alert = Len(alerts) + 1
                /\ disp'[w].pc \in {"record", "shuffle"}
      BY <1>0, <1>1 DEF CreateAlert, Worker
    <2>2. /\ new.sourceRef = incidentMap[disp[w].inc].fp /\ new.case = FALSE
      OBVIOUS
    <2> HIDE DEF new
    <2>3. \/ alerts' = alerts
          \/ /\ DOMAIN alerts' = DOMAIN alerts \cup {Len(alerts) + 1}
             /\ \A a \in DOMAIN alerts : alerts'[a] = alerts[a]
             /\ alerts'[Len(alerts) + 1] = new
      <3> DEFINE A == [sourceRef : Fingerprint, case : BOOLEAN]
      <3>1. alerts \in Seq(A)
        BY <1>0
      <3> HIDE DEF A
      <3>2. /\ DOMAIN Append(alerts, new) = DOMAIN alerts \cup {Len(alerts) + 1}
            /\ \A a \in DOMAIN alerts : Append(alerts, new)[a] = alerts[a]
            /\ Append(alerts, new)[Len(alerts) + 1] = new
        BY <3>1, SeqAppend
      <3> QED BY <2>1, <3>2
    <2>4. AlertsKept /\ \A a \in DOMAIN alerts' : CaseJustified(a)'
      BY <1>0, <2>2, <2>3 DEF AlertsKept, CaseJustified
    <2>5. HoldsOwn(w)'
      <3>1. CASE disp'[w].pc = "shuffle"
        BY <3>1 DEF HoldsOwn
      <3>2. CASE /\ disp'[w].pc = "record" /\ disp'[w].alert = Len(alerts) + 1
                 /\ alerts' = Append(alerts, new)
        <4>1. alerts'[disp'[w].alert] = new
          BY <1>0, <3>2
        <4> QED BY <2>1, <2>2, <3>2, <4>1 DEF HoldsOwn
      <3> QED BY <2>1, <3>1, <3>2
    <2>6. \A v \in Workers : HoldsOwn(v)'
      BY <1>a, <2>1, <2>4, <2>5, HoldsOwnStays
    <2>7. \A i \in DOMAIN incidentMap' : Linked(i)'
      BY <1>a, <2>1, <2>4, LinkedStays
    <2> QED BY <2>4, <2>6, <2>7, LinksInvPartsNext
  <1>2. CASE RecordAlert(w)
    <2>1. /\ alerts' = alerts /\ disp[w].pc = "record"
          /\ \A v \in Workers \ {w} : disp'[v] = disp[v]
          /\ disp'[w].inc = disp[w].inc /\ disp'[w].alert = disp[w].alert
          /\ disp'[w].pc = IF incidentMap[disp[w].inc].severity >= 4
                           THEN "promote" ELSE "shuffle"
      BY <1>0, <1>2 DEF RecordAlert, Worker
    <2>2. /\ disp[w].inc \in DOMAIN incidentMap /\ disp[w].alert \in DOMAIN alerts
          /\ alerts[disp[w].alert].sourceRef = incidentMap[disp[w].inc].fp
      BY <1>0, <2>1 DEF InFlight, HoldsOwn
    <2>3. incidentMap' = [incidentMap EXCEPT ![disp[w].inc].thehive = disp[w].alert]
      BY <1>2 DEF RecordAlert
    <2>4. /\ DOMAIN incidentMap' = DOMAIN incidentMap
          /\ \A i \in DOMAIN incidentMap : Kept(i)
      BY <2>2, <2>3, SetFieldKeeps
    <2>5. ASSUME NEW i \in DOMAIN incidentMap' PROVE Linked(i)'
      <3>1. CASE i = disp[w].inc
        <4>1. incidentMap[i] \in Incident
          BY <1>0, <2>4, SeqGet
        <4>2. incidentMap'[i].thehive = disp[w].alert
          BY <2>2, <2>3, <3>1, <4>1 DEF Incident
        <4> QED BY <1>0, <2>1, <2>2, <2>4, <3>1, <4>2 DEF Linked, Kept
      <3>2. CASE i # disp[w].inc
        <4>1. incidentMap'[i] = incidentMap[i]
          BY <2>3, <2>4, <3>2
        <4> QED BY <1>b, <2>1, <2>4, <4>1, LinkedStays
      <3> QED BY <3>1, <3>2
    <2>6. HoldsOwn(w)'
      BY <2>1, <2>2, <2>4 DEF HoldsOwn, Kept
    <2>7. \A v \in Workers : HoldsOwn(v)'
      BY <1>b, <2>1, <2>4, <2>6, HoldsOwnStays
    <2>8. \A a \in DOMAIN alerts' : CaseJustified(a)'
      BY <1>0, <2>1 DEF CaseJustified
    <2> QED BY <2>5, <2>7, <2>8, LinksInvPartsNext
  <1>3. CASE PromoteAlert(w)
    <2>1. /\ incidentMap' = incidentMap /\ disp[w].pc = "promote"
          /\ \A v \in Workers \ {w} : disp'[v] = disp[v]
          /\ disp'[w].pc = "shuffle"
          /\ \/ alerts' = alerts
             \/ alerts' = [alerts EXCEPT ![disp[w].alert].case = TRUE]
      BY <1>0, <1>3 DEF PromoteAlert, Worker
    <2>2. /\ disp[w].alert \in DOMAIN alerts /\ disp[w].inc \in DOMAIN incidentMap
          /\ alerts[disp[w].alert].sourceRef = incidentMap[disp[w].inc].fp
          /\ incidentMap[disp[w].inc].severity >= 4
      BY <1>0, <2>1 DEF InFlight, HoldsOwn
    <2>3. /\ DOMAIN alerts' = DOMAIN alerts
          /\ \A a \in DOMAIN alerts : alerts'[a].sourceRef = alerts[a].sourceRef
          /\ \A a \in DOMAIN alerts \ {disp[w].alert} : alerts'[a].case = alerts[a].case
      <3>1. \A a \in DOMAIN alerts : alerts[a] \in [sourceRef : Fingerprint, case : BOOLEAN]
        BY <1>0, SeqGet
      <3> QED BY <2>1, <2>2, <3>1
    <2>4. \A a \in DOMAIN alerts' : CaseJustified(a)'
      <3>1. Rules[alerts[disp[w].alert].sourceRef.rule].severity >= 4
        BY <1>0, <2>2 DEF Linked
      <3> QED BY <1>0, <2>3, <3>1 DEF CaseJustified
    <2>5. AlertsKept
      BY <2>3 DEF AlertsKept
    <2>6. \A v \in Workers : HoldsOwn(v)'
      <3>1. HoldsOwn(w)'
        BY <2>1 DEF HoldsOwn
      <3> QED BY <1>a, <2>1, <2>5, <3>1, HoldsOwnStays
    <2>7. \A i \in DOMAIN incidentMap' : Linked(i)'
      BY <1>a, <2>1, <2>5, LinkedStays
    <2> QED BY <2>4, <2>6, <2>7, LinksInvPartsNext
  <1>4. CASE Shuffle(w)
    <2>1. /\ incidentMap' = incidentMap /\ alerts' = alerts
          /\ \A v \in Workers \ {w} : disp'[v] = disp[v]
          /\ disp'[w].pc \in {"idle", "done"}
      BY <1>0, <1>4 DEF Shuffle, Worker, IdleWorker
    <2>2. \A v \in Workers : HoldsOwn(v)'
      <3>1. HoldsOwn(w)'
        BY <2>1 DEF HoldsOwn
      <3> QED BY <1>a, <1>b, <2>1, <3>1, HoldsOwnStays
    <2>3. \A i \in DOMAIN incidentMap' : Linked(i)'
      BY <1>a, <1>b, <2>1, LinkedStays
    <2>4. \A a \in DOMAIN alerts' : CaseJustified(a)'
      BY <1>0, <2>1 DEF CaseJustified
    <2> QED BY <2>2, <2>3, <2>4, LinksInvPartsNext
  <1> QED BY <1>1, <1>2, <1>3, <1>4 DEF DispatchStep

\* A step that leaves TheHive alone and, of the dispatches, starts or stops
\* some, keeps the links when every incident keeps its own.
LEMMA LinksAside ==
    ASSUME TypeOK, LinksInv, alerts' = alerts,
           \A v \in Workers : disp'[v] = disp[v] \/ disp'[v].pc \notin {"record", "promote"},
           \A i \in DOMAIN incidentMap :
              Kept(i) /\ incidentMap'[i].thehive = incidentMap[i].thehive,
           \A i \in DOMAIN incidentMap' \ DOMAIN incidentMap : Linked(i)'
    PROVE  LinksInv'
  <1>1. AlertsKept /\ \A a \in DOMAIN alerts' : CaseJustified(a)'
    BY LinksInvParts DEF AlertsKept, CaseJustified
  <1>2. ASSUME NEW v \in Workers PROVE HoldsOwn(v)'
    <2>1. CASE disp'[v] = disp[v]
      BY <1>1, <2>1, HoldsOwnStays
    <2>2. CASE disp'[v].pc \notin {"record", "promote"}
      BY <2>2 DEF HoldsOwn
    <2> QED BY <2>1, <2>2
  <1>3. \A i \in DOMAIN incidentMap' : Linked(i)'
    BY <1>1, LinkedStays
  <1> QED BY <1>1, <1>2, <1>3, LinksInvPartsNext

LEMMA LinksStep ==
    ASSUME TypeOK, LinksInv, [Next]_vars
    PROVE  LinksInv'
  <1>0. disp \in [Workers -> Worker] /\ \A v \in Workers : disp[v] \in Worker
    BY DEF TypeOK
  <1>a. ASSUME incidentMap' = incidentMap, alerts' = alerts,
               \A v \in Workers : disp'[v] = disp[v] \/ disp'[v].pc \notin {"record", "promote"}
        PROVE  LinksInv'
    <2>1. \A i \in DOMAIN incidentMap :
             Kept(i) /\ incidentMap'[i].thehive = incidentMap[i].thehive
      BY <1>a DEF Kept
    <2> QED BY <1>a, <2>1, LinksAside
  <1>b. ASSUME UNCHANGED <<incidentMap, alerts, disp>> PROVE LinksInv'
    BY <1>a, <1>b
  <1>1. ASSUME NEW t \in Tenants, EvalRule(t) PROVE LinksInv'
    <2>0. PICK n : n = Len(incidentMap) + 1
      OBVIOUS
    <2> DEFINE new == NewIncident(evalRule, t, Match(evalRule, t))
    <2>1. alerts' = alerts /\ disp' = disp
      BY <1>1 DEF EvalRule
    <2>2. CASE incidentMap' = incidentMap
      BY <1>b, <2>1, <2>2
    <2>3. CASE /\ DOMAIN incidentMap' = DOMAIN incidentMap \cup {n}
               /\ \A i \in DOMAIN incidentMap : incidentMap'[i] = incidentMap[i]
               /\ incidentMap'[n] = new
      <3>1. /\ new.thehive = NoAlert /\ new.rule = evalRule
            /\ new.severity = Rules[evalRule].severity /\ new.fp.rule = evalRule
        BY DEF NewIncident, fingerprint
      <3> HIDE DEF new
      <3>2. Linked(n)'
        BY <2>3, <3>1 DEF Linked
      <3>3. \A i \in DOMAIN incidentMap :
              Kept(i) /\ incidentMap'[i].thehive = incidentMap[i].thehive
        BY <2>3 DEF Kept
      <3>4. \A i \in DOMAIN incidentMap' \ DOMAIN incidentMap : Linked(i)'
        BY <2>3, <3>2
      <3> QED BY <2>1, <3>3, <3>4, LinksAside
    <2> QED BY <1>1, <2>0, <2>2, <2>3, EvalRuleEffect
  <1>2. ASSUME NEW id \in DOMAIN incidentMap, NEW s \in PatchStatuses,
               UpdateIncidentStatus(id, s)
        PROVE  LinksInv'
    <2>1. /\ alerts' = alerts /\ disp' = disp
          /\ incidentMap' = [incidentMap EXCEPT ![id].status = s]
      BY <1>2 DEF UpdateIncidentStatus
    <2>2. /\ DOMAIN incidentMap' = DOMAIN incidentMap
          /\ \A i \in DOMAIN incidentMap : Kept(i)
      BY <2>1, SetFieldKeeps
    <2>3. ASSUME NEW i \in DOMAIN incidentMap
          PROVE  incidentMap'[i].thehive = incidentMap[i].thehive
      <3>1. incidentMap[i] \in Incident
        BY SeqGet DEF TypeOK
      <3>2. \/ incidentMap'[i] = incidentMap[i]
            \/ incidentMap'[i] = [incidentMap[i] EXCEPT !.status = s]
        BY <2>1
      <3> QED BY <3>1, <3>2 DEF Incident
    <2> QED BY <2>1, <2>2, <2>3, LinksAside
  <1>3. ASSUME NEW w \in Workers, NEW id, StartDispatch(w, id),
               UNCHANGED <<incidentMap, alerts>>
        PROVE  LinksInv'
    <2>1. \A v \in Workers : disp'[v] = disp[v] \/ disp'[v].pc \in {"create", "shuffle"}
      BY <1>0, <1>3 DEF StartDispatch
    <2> QED BY <1>3, <1>a, <2>1
  <1>4. CASE Dequeue
    BY <1>3, <1>4 DEF Dequeue, Workers
  <1>5. ASSUME NEW w \in Requests, NEW id \in DOMAIN incidentMap, DispatchByID(w, id)
        PROVE  LinksInv'
    BY <1>3, <1>5 DEF DispatchByID, Workers
  <1>6. CASE DispatcherStop
    <2>1. \A v \in Workers : disp'[v] = disp[v] \/ disp'[v].pc = "stopped"
      BY <1>0, <1>6 DEF DispatcherStop, Worker
    <2> QED BY <1>6, <1>a, <2>1 DEF DispatcherStop, otherVars
  <1>7. CASE Evaluator
    BY <1>1, <1>7, <1>b DEF Evaluator, EvalBegin, EvalSnapshot, EvalSend, EvalDone,
                            EvalStop, otherVars
  <1>8. CASE \/ \E m \in Messages, lag \in Lags : processEvent(m, lag)
             \/ \E t \in Tenants : IngestFalcoAlert(t)
    BY <1>8, <1>b DEF processEvent, IngestFalcoAlert, Ingest
  <1>9. CASE \/ cleanDedupCache \/ pruneBuffer \/ Tick \/ Cancel \/ StartReturns
             \/ MainExits \/ Exited \/ UNCHANGED vars
    BY <1>9, <1>b DEF cleanDedupCache, pruneBuffer, Tick, Cancel, StartReturns,
                      MainExits, Exited, vars, otherVars
  <1> QED
    BY <1>2, <1>4, <1>5, <1>6, <1>7, <1>8, <1>9, LinksDispatch
       DEF Next, Dispatcher, Workers

\* dispatchToTheHive, with any number of dispatches under way: an incident's
\* TheHiveID is that of an alert with its fingerprint, and only alerts of
\* rules rated high or critical become cases.
THEOREM LinksStayReal == Spec => []LinksAreReal
  <1>1. Init => LinksInv
    BY DEF Init, LinksInv, LinksAreReal, IdleWorker
  <1>2. TypeOK /\ LinksInv /\ [Next]_vars => LinksInv'
    BY LinksStep
  <1>3. LinksInv => LinksAreReal
    BY DEF LinksInv
  <1> QED BY <1>1, <1>2, <1>3, TypeCorrect, PTL DEF Spec

-----------------------------------------------------------------------------
(* The pipeline of incidents *)

\* Adding at the end of the second of two sequences in a row.
LEMMA PushBehind ==
    ASSUME NEW S, NEW s \in Seq(S), NEW t \in Seq(S), NEW x \in S
    PROVE  s \o Append(t, x) = Append(s \o t, x)
  <1>1. /\ Append(t, x) = t \o <<x>> /\ Append(s \o t, x) = (s \o t) \o <<x>>
        /\ s \o t \in Seq(S) /\ <<x>> \in Seq(S)
    BY AppendIsConcat, ConcatProperties
  <1> QED BY <1>1, ConcatAssociative

\* Moving the head of the second to the end of the first.
LEMMA MoveAcross ==
    ASSUME NEW S, NEW s \in Seq(S), NEW t \in Seq(S), t # <<>>
    PROVE  Append(s, Head(t)) \o Tail(t) = s \o t
  <1>1. /\ Head(t) \in S /\ Tail(t) \in Seq(S) /\ Len(Tail(t)) = Len(t) - 1
        /\ \A i \in 1 .. Len(t) - 1 : Tail(t)[i] = t[i + 1]
        /\ Head(t) = t[1] /\ Len(t) \in Nat \ {0} /\ Len(s) \in Nat
    BY HeadTailProperties, EmptySeq
  <1> DEFINE a == Append(s, Head(t))
             l == a \o Tail(t)
             r == s \o t
  <1>2. /\ a \in Seq(S) /\ Len(a) = Len(s) + 1
        /\ \A i \in 1 .. Len(s) : a[i] = s[i]
        /\ a[Len(s) + 1] = Head(t)
    BY <1>1, AppendProperties
  <1> HIDE DEF a
  <1>3. /\ l \in Seq(S) /\ Len(l) = Len(a) + Len(Tail(t))
        /\ \A i \in 1 .. Len(a) + Len(Tail(t)) :
              l[i] = IF i <= Len(a) THEN a[i] ELSE Tail(t)[i - Len(a)]
    BY <1>1, <1>2, ConcatProperties
  <1>4. /\ r \in Seq(S) /\ Len(r) = Len(s) + Len(t)
        /\ \A i \in 1 .. Len(s) + Len(t) :
              r[i] = IF i <= Len(s) THEN s[i] ELSE t[i - Len(s)]
    BY ConcatProperties
  <1> HIDE DEF l, r
  <1>5. Len(l) = Len(r)
    BY <1>1, <1>2, <1>3, <1>4
  <1>6. ASSUME NEW i \in 1 .. Len(l) PROVE l[i] = r[i]
    <2>1. CASE i <= Len(s)
      BY <1>1, <1>2, <1>3, <1>4, <1>5, <2>1
    <2>2. CASE i = Len(s) + 1
      BY <1>1, <1>2, <1>3, <1>4, <1>5, <2>2
    <2>3. CASE i > Len(s) + 1
      <3>1. l[i] = Tail(t)[i - (Len(s) + 1)] /\ i - (Len(s) + 1) \in 1 .. Len(t) - 1
        <4>1. Len(l) = Len(s) + Len(t) /\ i \in Nat /\ i <= Len(s) + Len(t)
          BY <1>1, <1>2, <1>3
        <4>2. ~(i <= Len(a)) /\ i \in 1 .. Len(a) + Len(Tail(t))
          BY <1>1, <1>2, <2>3, <4>1
        <4>3. l[i] = Tail(t)[i - Len(a)]
          BY <1>3, <4>2
        <4>4. i - (Len(s) + 1) \in 1 .. Len(t) - 1
          BY <1>1, <2>3, <4>1
        <4> QED BY <1>2, <4>3, <4>4
      <3>2. Tail(t)[i - (Len(s) + 1)] = t[i - Len(s)]
        BY <1>1, <3>1
      <3> QED BY <1>1, <1>4, <1>5, <2>3, <3>1, <3>2
    <2> QED BY <1>1, <2>1, <2>2, <2>3
  <1>7. l = r
    BY <1>3, <1>4, <1>5, <1>6, SeqEqual
  <1> QED BY <1>7 DEF l, r, a

\* Taking the head of the first.
LEMMA PopFront ==
    ASSUME NEW S, NEW s \in Seq(S), NEW t \in Seq(S), s # <<>>
    PROVE  /\ s \o t # <<>> /\ Head(s \o t) = Head(s)
           /\ Tail(s \o t) = Tail(s) \o t
  <1>1. /\ Tail(s) \in Seq(S) /\ Len(Tail(s)) = Len(s) - 1
        /\ \A i \in 1 .. Len(s) - 1 : Tail(s)[i] = s[i + 1]
        /\ Head(s) = s[1] /\ Len(s) \in Nat \ {0} /\ Len(t) \in Nat
    BY HeadTailProperties, EmptySeq
  <1> DEFINE w == s \o t
             r == Tail(s) \o t
  <1>2. /\ w \in Seq(S) /\ Len(w) = Len(s) + Len(t)
        /\ \A i \in 1 .. Len(s) + Len(t) :
              w[i] = IF i <= Len(s) THEN s[i] ELSE t[i - Len(s)]
    BY ConcatProperties
  <1>3. /\ r \in Seq(S) /\ Len(r) = Len(Tail(s)) + Len(t)
        /\ \A i \in 1 .. Len(Tail(s)) + Len(t) :
              r[i] = IF i <= Len(Tail(s)) THEN Tail(s)[i] ELSE t[i - Len(Tail(s))]
    BY <1>1, ConcatProperties
  <1> HIDE DEF w, r
  <1>4. w # <<>> /\ Head(w) = Head(s)
    BY <1>1, <1>2
  <1>5. /\ Tail(w) \in Seq(S) /\ Len(Tail(w)) = Len(w) - 1
        /\ \A i \in 1 .. Len(w) - 1 : Tail(w)[i] = w[i + 1]
    BY <1>2, <1>4, HeadTailProperties
  <1>6. ASSUME NEW i \in 1 .. Len(Tail(w)) PROVE Tail(w)[i] = r[i]
    <2>1. Tail(w)[i] = w[i + 1] /\ i \in Nat /\ i + 1 \in 1 .. Len(s) + Len(t)
      BY <1>1, <1>2, <1>5
    <2>2. CASE i + 1 <= Len(s)
      BY <1>1, <1>2, <1>3, <2>1, <2>2
    <2>3. CASE i + 1 > Len(s)
      <3>1. w[i + 1] = t[i + 1 - Len(s)]
        BY <1>1, <1>2, <2>1, <2>3
      <3>2. r[i] = t[i - (Len(s) - 1)]
        BY <1>1, <1>3, <2>1, <2>3
      <3>3. i + 1 - Len(s) = i - (Len(s) - 1)
        BY <1>1, <2>1
      <3> QED BY <2>1, <3>1, <3>2, <3>3
    <2> QED BY <1>1, <2>1, <2>2, <2>3
  <1>7. Tail(w) = r
    BY <1>1, <1>2, <1>3, <1>5, <1>6, SeqEqual
  <1> QED BY <1>4, <1>7 DEF w, r

\* Taking the head of the second is cutting out of the middle.
LEMMA CutMiddle ==
    ASSUME NEW S, NEW s \in Seq(S), NEW t \in Seq(S), t # <<>>
    PROVE  LET w == s \o t
               k == Len(s) + 1
           IN  /\ k \in DOMAIN w /\ w[k] = Head(t)
               /\ s \o Tail(t) = SubSeq(w, 1, k - 1) \o SubSeq(w, k + 1, Len(w))
  <1> DEFINE w == s \o t
             k == Len(s) + 1
  <1>1. /\ Tail(t) \in Seq(S) /\ Len(Tail(t)) = Len(t) - 1
        /\ \A i \in 1 .. Len(Tail(t)) : Tail(t)[i] = t[i + 1]
        /\ Head(t) = t[1] /\ Len(t) \in Nat \ {0} /\ Len(s) \in Nat
    BY HeadTailProperties, EmptySeq
  <1>2. /\ w \in Seq(S) /\ Len(w) = Len(s) + Len(t)
        /\ \A i \in 1 .. Len(s) + Len(t) :
              w[i] = IF i <= Len(s) THEN s[i] ELSE t[i - Len(s)]
        /\ DOMAIN w = 1 .. Len(s) + Len(t)
    BY ConcatProperties
  <1> HIDE DEF w
  <1> DEFINE before == SubSeq(w, 1, k - 1)
             after == SubSeq(w, k + 1, Len(w))
  <1>3. k \in DOMAIN w /\ w[k] = Head(t)
    BY <1>1, <1>2
  <1>4. before = s
    <2>1. \A i \in 1 .. k - 1 : w[i] \in S
      BY <1>1, <1>2
    <2>2. /\ before \in Seq(S) /\ Len(before) = IF 1 <= k - 1 THEN k - 1 - 1 + 1 ELSE 0
          /\ \A i \in 1 .. k - 1 - 1 + 1 : before[i] = w[1 + i - 1]
      BY <1>1, <2>1, SubSeqProperties
    <2> HIDE DEF before
    <2>3. Len(before) = Len(s) /\ \A i \in 1 .. Len(s) : before[i] = s[i]
      BY <1>1, <1>2, <2>2
    <2> QED BY <2>2, <2>3, SeqEqual
  <1>5. after = Tail(t)
    <2>1. \A i \in k + 1 .. Len(w) : w[i] \in S
      BY <1>1, <1>2
    <2>2. /\ after \in Seq(S)
          /\ Len(after) = IF k + 1 <= Len(w) THEN Len(w) - (k + 1) + 1 ELSE 0
          /\ \A i \in 1 .. Len(w) - (k + 1) + 1 : after[i] = w[k + 1 + i - 1]
      <3>1. k + 1 \in Int /\ Len(w) \in Int
        BY <1>1, <1>2
      <3> QED BY <2>1, <3>1, SubSeqProperties
    <2> HIDE DEF after
    <2>3. Len(after) = Len(Tail(t))
      <3>1. Len(w) - (k + 1) + 1 = Len(t) - 1 /\ (k + 1 <= Len(w) <=> 2 <= Len(t))
        BY <1>1, <1>2
      <3>2. Len(after) = IF 2 <= Len(t) THEN Len(t) - 1 ELSE 0
        BY <2>2, <3>1
      <3>3. Len(t) \in Nat \ {0} /\ Len(Tail(t)) = Len(t) - 1
        BY <1>1
      <3>4. CASE 2 <= Len(t)
        BY <3>2, <3>3, <3>4
      <3>5. CASE Len(t) = 1
        BY <3>2, <3>3, <3>5
      <3>6. Len(t) = 1 \/ 2 <= Len(t)
        BY <3>3
      <3> QED BY <3>4, <3>5, <3>6
    <2>4. ASSUME NEW i \in 1 .. Len(after) PROVE after[i] = Tail(t)[i]
      <3>1. after[i] = w[Len(s) + 1 + i] /\ i \in 1 .. Len(t) - 1
        <4>1. i \in 1 .. Len(w) - (k + 1) + 1 /\ k + 1 + i - 1 = Len(s) + 1 + i
          BY <1>1, <1>2, <2>3
        <4> QED BY <1>1, <2>2, <2>3, <4>1
      <3>2. w[Len(s) + 1 + i] = t[Len(s) + 1 + i - Len(s)]
        BY <1>1, <1>2, <3>1
      <3>3. Len(s) + 1 + i - Len(s) = i + 1
        BY <1>1, <3>1
      <3> QED BY <1>1, <3>1, <3>2, <3>3
    <2> QED BY <1>1, <2>2, <2>3, <2>4, SeqEqual
  <1> QED BY <1>3, <1>4, <1>5 DEF w

\* The length of a sequence given by its domain.
LEMMA LenIsDomain ==
    ASSUME NEW s, NEW n \in Nat, DOMAIN s = 1 .. n
    PROVE  Len(s) = n
  OBVIOUS

\* What IncidentPipeline sees of the engine.
raisedMap == [i \in DOMAIN incidentMap |->
                 [what |-> incidentMap[i].fp, at |-> incidentMap[i].createdAt]]
waitingMap == incidentCh \o triggered

\* A step that changes no incident, no queue and no history is invisible.
LEMMA PipelineStutters ==
    ASSUME DOMAIN incidentMap' = DOMAIN incidentMap,
           \A i \in DOMAIN incidentMap : Kept(i),
           waitingMap' = waitingMap, UNCHANGED <<taken, dropped>>
    PROVE  UNCHANGED Pipeline!pipeVars
  <1>1. raisedMap' = raisedMap
    BY DEF raisedMap, Kept
  <1> QED BY <1>1 DEF Pipeline!pipeVars, raisedMap, waitingMap

\* An incident that is raised.
LEMMA PipelineRaises ==
    ASSUME TypeOK, DedupInv, DedupInv', NEW t \in Tenants, EvalRule(t),
           incidentMap' # incidentMap
    PROVE  Pipeline!Raise
  <1>0. /\ incidentMap \in Seq(Incident) /\ incidentCh \in Seq(DOMAIN incidentMap)
        /\ triggered \in Seq(DOMAIN incidentMap)
    BY DEF TypeOK
  <1>1. /\ EvalBody(evalRule, t)
        /\ UNCHANGED <<incidentCh, taken, dropped>>
    BY DEF EvalRule, histVars
  <1>2. PICK n : n = Len(incidentMap) + 1
    OBVIOUS
  <1>3. /\ DOMAIN incidentMap = 1 .. Len(incidentMap) /\ Len(incidentMap) \in Nat
        /\ DOMAIN incidentMap' = DOMAIN incidentMap \cup {n}
        /\ \A i \in DOMAIN incidentMap : incidentMap'[i] = incidentMap[i]
    BY <1>2, EvalRuleEffect
  <1>4. triggered' = Append(triggered, n)
    BY <1>1, <1>2 DEF EvalBody
  <1>5. waitingMap' = Append(waitingMap, n)
    <2>1. /\ incidentCh \in Seq(Nat) /\ triggered \in Seq(Nat) /\ n \in Nat
      <3>1. DOMAIN incidentMap \subseteq Nat /\ n \in Nat
        BY <1>2, <1>3
      <3> QED BY <1>0, <3>1, SeqMonotonic
    <2> QED BY <1>1, <1>4, <2>1, PushBehind DEF waitingMap
  <1>6. /\ DOMAIN raisedMap = 1 .. Len(incidentMap) /\ Len(raisedMap) = Len(incidentMap)
        /\ DOMAIN raisedMap' = 1 .. n /\ Len(raisedMap') = n
    <2>1. DOMAIN raisedMap = 1 .. Len(incidentMap) /\ DOMAIN raisedMap' = 1 .. n
      BY <1>2, <1>3 DEF raisedMap
    <2> QED BY <1>2, <1>3, <2>1, LenIsDomain
  <1>7. \A i \in DOMAIN raisedMap : raisedMap'[i] = raisedMap[i]
    BY <1>3 DEF raisedMap
  <1>8. ASSUME NEW i \in DOMAIN raisedMap, raisedMap[i].what = raisedMap'[n].what
        PROVE  raisedMap'[n].at - raisedMap[i].at >= 2 * Rules[raisedMap'[n].what.rule].window
    <2>1. /\ raisedMap[i].what = incidentMap[i].fp /\ raisedMap[i].at = incidentMap[i].createdAt
          /\ raisedMap'[n].what = incidentMap'[n].fp
          /\ raisedMap'[n].at = incidentMap'[n].createdAt
          /\ i \in DOMAIN incidentMap /\ i < n
      BY <1>2, <1>3, <1>6 DEF raisedMap
    <2>2. /\ incidentMap'[i].fp = incidentMap'[n].fp /\ incidentMap'[i] = incidentMap[i]
          /\ i \in DOMAIN incidentMap' /\ n \in DOMAIN incidentMap'
      BY <1>3, <1>8, <2>1
    <2>3. incidentMap'[n].createdAt - incidentMap'[i].createdAt
              >= 2 * Rules[incidentMap'[i].rule].window
      BY <2>1, <2>2 DEF DedupInv, DedupWindow
    <2>4. incidentMap[i].fp.rule = incidentMap[i].rule
      BY <2>1 DEF DedupInv
    <2> QED BY <2>1, <2>2, <2>3, <2>4
  <1>9. /\ Len(raisedMap') = Len(raisedMap) + 1
        /\ \A i \in DOMAIN raisedMap : raisedMap'[i] = raisedMap[i]
        /\ LET new == raisedMap'[Len(raisedMap) + 1]
           IN  \A i \in DOMAIN raisedMap :
                  raisedMap[i].what = new.what =>
                      new.at - raisedMap[i].at >= 2 * Rules[new.what.rule].window
        /\ waitingMap' = Append(waitingMap, Len(raisedMap) + 1)
        /\ UNCHANGED <<taken, dropped>>
    BY <1>1, <1>2, <1>5, <1>6, <1>7, <1>8
  <1> QED
    BY <1>9 DEF Pipeline!Raise, raisedMap, waitingMap

\* An incident offered to the channel moves into it or is dropped.
LEMMA PipelineSends ==
    ASSUME TypeOK, EvalSend
    PROVE  [Pipeline!PipeNext]_(Pipeline!pipeVars)
  <1>0. /\ incidentCh \in Seq(DOMAIN incidentMap) /\ triggered \in Seq(DOMAIN incidentMap)
        /\ triggered # <<>> /\ triggered' = Tail(triggered)
        /\ incidentMap' = incidentMap /\ taken' = taken
    BY DEF TypeOK, EvalSend
  <1>1. CASE /\ incidentCh' = Append(incidentCh, Head(triggered))
             /\ dropped' = dropped
    <2>1. waitingMap' = waitingMap
      BY <1>0, <1>1, MoveAcross DEF waitingMap
    <2>2. \A i \in DOMAIN incidentMap : Kept(i)
      BY <1>0 DEF Kept
    <2> QED BY <1>0, <1>1, <2>1, <2>2, PipelineStutters
  <1>2. CASE incidentCh' = incidentCh /\ dropped' = dropped \cup {Head(triggered)}
    <2> DEFINE k == Len(incidentCh) + 1
    <2>1. /\ k \in DOMAIN waitingMap /\ waitingMap[k] = Head(triggered)
          /\ waitingMap' = SubSeq(waitingMap, 1, k - 1)
                              \o SubSeq(waitingMap, k + 1, Len(waitingMap))
      BY <1>0, <1>2, CutMiddle DEF waitingMap
    <2>2. raisedMap' = raisedMap
      BY <1>0 DEF raisedMap
    <2> HIDE DEF k
    <2>3. Pipeline!Drop(k)
      BY <1>0, <1>2, <2>1, <2>2 DEF Pipeline!Drop, raisedMap, waitingMap
    <2> QED BY <2>1, <2>3 DEF Pipeline!PipeNext, waitingMap
  <1> QED BY <1>1, <1>2 DEF EvalSend

\* An incident the dispatcher takes.
LEMMA PipelineHandsOver ==
    ASSUME TypeOK, Dequeue
    PROVE  Pipeline!HandOver
  <1>0. /\ incidentCh \in Seq(DOMAIN incidentMap) /\ triggered \in Seq(DOMAIN incidentMap)
        /\ incidentCh # <<>> /\ incidentCh' = Tail(incidentCh)
        /\ taken' = Append(taken, Head(incidentCh))
        /\ UNCHANGED <<incidentMap, triggered, dropped>>
    BY DEF TypeOK, Dequeue, evalVars
  <1>1. /\ waitingMap # <<>> /\ Head(waitingMap) = Head(incidentCh)
        /\ waitingMap' = Tail(waitingMap)
    BY <1>0, PopFront DEF waitingMap
  <1>2. raisedMap' = raisedMap
    BY <1>0 DEF raisedMap
  <1> QED BY <1>0, <1>1, <1>2 DEF Pipeline!HandOver, raisedMap, waitingMap

\* Every other step leaves the queues and their history alone.
LEMMA QueueSteps ==
    ASSUME [Next]_vars
    PROVE  \/ \E t \in Tenants : EvalRule(t)
           \/ EvalSend
           \/ Dequeue
           \/ UNCHANGED <<incidentCh, triggered, taken, dropped>>
  <1> DEFINE Quiet == UNCHANGED <<incidentCh, triggered, taken, dropped>>
  <1>1. CASE Evaluator
    BY <1>1 DEF Evaluator, EvalBegin, EvalSnapshot, EvalDone, EvalStop, otherVars, histVars
  <1>2. ASSUME NEW w, DispatchStep(w) PROVE Quiet
    BY <1>2 DEF DispatchStep, CreateAlert, RecordAlert, PromoteAlert, Shuffle, dispVars,
                evalVars, histVars
  <1>3. CASE Dispatcher
    BY <1>2, <1>3 DEF Dispatcher, DispatcherStop, otherVars, evalVars, histVars
  <1>4. CASE \E w \in Requests, id \in DOMAIN incidentMap : DispatchByID(w, id)
    BY <1>4 DEF DispatchByID, evalVars, histVars
  <1>5. CASE \/ cleanDedupCache \/ pruneBuffer \/ Tick \/ Cancel \/ StartReturns
             \/ MainExits \/ Exited \/ UNCHANGED vars
    BY <1>5 DEF cleanDedupCache, pruneBuffer, Tick, Cancel, StartReturns, MainExits,
                Exited, vars, otherVars, evalVars, histVars
  <1>6. CASE \E id \in DOMAIN incidentMap, s \in PatchStatuses : UpdateIncidentStatus(id, s)
    BY <1>6 DEF UpdateIncidentStatus, evalVars, histVars
  <1>7. CASE \/ \E m \in Messages, lag \in Lags : processEvent(m, lag)
             \/ \E t \in Tenants : IngestFalcoAlert(t)
    BY <1>7 DEF processEvent, IngestFalcoAlert, Ingest, evalVars, histVars
  <1> QED
    BY <1>1, <1>2, <1>3, <1>4, <1>5, <1>6, <1>7 DEF Next

\* Every step of the engine is one of the pipeline, or invisible to it.
LEMMA PipelineStep ==
    ASSUME TypeOK, DedupInv, DedupInv', [Next]_vars
    PROVE  [Pipeline!PipeNext]_(Pipeline!pipeVars)
  <1>a. incidentMap' = incidentMap => \A i \in DOMAIN incidentMap : Kept(i)
    BY DEF Kept
  <1>1. ASSUME NEW t \in Tenants, EvalRule(t)
        PROVE  [Pipeline!PipeNext]_(Pipeline!pipeVars)
    <2>1. CASE incidentMap' = incidentMap
      <3>1. EvalBody(evalRule, t) /\ UNCHANGED <<incidentCh, taken, dropped>>
        BY <1>1 DEF EvalRule, histVars
      <3>2. incidentMap \in Seq(Incident)
        BY DEF TypeOK
      <3>3. \A x : Append(incidentMap, x) # incidentMap
        <4> SUFFICES ASSUME NEW x, Append(incidentMap, x) = incidentMap PROVE FALSE
          OBVIOUS
        <4>1. Len(Append(incidentMap, x)) = Len(incidentMap) + 1 /\ Len(incidentMap) \in Nat
          BY <3>2
        <4> QED BY <4>1
      <3>4. triggered' = triggered
        BY <2>1, <3>1, <3>3 DEF EvalBody
      <3>5. waitingMap' = waitingMap
        BY <3>1, <3>4 DEF waitingMap
      <3> QED BY <1>a, <2>1, <3>1, <3>5, PipelineStutters
    <2>2. CASE incidentMap' # incidentMap
      BY <1>1, <2>2, PipelineRaises DEF Pipeline!PipeNext
    <2> QED BY <2>1, <2>2
  <1>2. CASE EvalSend
    BY <1>2, PipelineSends
  <1>3. CASE Dequeue
    BY <1>3, PipelineHandsOver DEF Pipeline!PipeNext
  <1>4. CASE /\ UNCHANGED <<incidentCh, triggered, taken, dropped>>
             /\ ~\E t \in Tenants : EvalRule(t)
    <2>1. waitingMap' = waitingMap
      BY <1>4 DEF waitingMap
    <2>2. DOMAIN incidentMap' = DOMAIN incidentMap /\ \A i \in DOMAIN incidentMap : Kept(i)
      <3>1. CASE \/ EvalBegin \/ EvalSnapshot \/ EvalDone \/ EvalStop
                 \/ cleanDedupCache \/ Tick
        <4>1. incidentMap' = incidentMap
          BY <3>1 DEF EvalBegin, EvalSnapshot, EvalDone, EvalStop, cleanDedupCache, Tick,
                      otherVars
        <4> QED BY <1>a, <4>1
      <3>2. CASE Aside
        BY <3>2 DEF Aside
      <3> QED BY <1>4, <3>1, <3>2, StepKinds
    <2> QED BY <1>4, <2>1, <2>2, PipelineStutters
  <1> QED BY <1>1, <1>2, <1>3, <1>4, QueueSteps

\* The refinement: every behaviour of the engine is one of the pipeline, in
\* which a detection is quiet after it was raised and an incident is handed to
\* the dispatcher at most once and in order, or dropped.
THEOREM EngineImplementsPipeline == Spec => ImplementsPipeline
  <1>1. Init => Pipeline!PipeInit
    <2> SUFFICES ASSUME Init PROVE Pipeline!PipeInit
      OBVIOUS
    <2>1. incidentMap = <<>> /\ incidentCh = <<>> /\ triggered = <<>>
          /\ taken = <<>> /\ dropped = {}
      BY DEF Init
    <2>2. raisedMap = <<>>
      BY <2>1 DEF raisedMap
    <2>3. waitingMap = <<>>
      <3>1. <<>> \in Seq(Nat)
        OBVIOUS
      <3> QED BY <2>1, <3>1, ConcatEmptySeq DEF waitingMap
    <2> QED BY <2>1, <2>2, <2>3 DEF Pipeline!PipeInit, raisedMap, waitingMap
  <1>2. Spec => []DedupInv
    <2>1. Init => DedupInv
      BY DEF Init, DedupInv, DedupWindow, Evaluating
    <2>2. TypeOK /\ TypeOK' /\ DedupInv /\ [Next]_vars => DedupInv'
      BY DedupStep
    <2> QED BY <2>1, <2>2, TypeCorrect, PTL DEF Spec
  <1>3. TypeOK /\ DedupInv /\ DedupInv' /\ [Next]_vars
            => [Pipeline!PipeNext]_(Pipeline!pipeVars)
    BY PipelineStep
  <1> QED
    BY <1>1, <1>2, <1>3, TypeCorrect, PTL DEF Spec, ImplementsPipeline, Pipeline!PipeSpec
=============================================================================
