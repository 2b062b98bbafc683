----------------------- MODULE CorrelationEngineProofs -----------------------
(***************************************************************************)
(* Theorems about CorrelationEngine, for every rule set, every set of      *)
(* tenants, messages and requests, and every capacity and window that      *)
(* satisfy the assumptions of the module.                                  *)
(***************************************************************************)
EXTENDS CorrelationEngine, TLAPS

-----------------------------------------------------------------------------
(* The operators the engine is built from *)

\* The rules are numbered from 1, and their fields have their types.
LEMMA RuleFacts ==
    /\ RuleIDs = 1 .. Len(Rules) /\ Len(Rules) \in Nat /\ 1 \in RuleIDs
    /\ \A r \in RuleIDs : Rules[r].window \in Nat /\ Rules[r].severity \in Int
  <1> DEFINE Cond == [source : Sources \cup {"any"}, etype : STRING,
                      titles : SUBSET STRING, minCount : Int]
             Rule == [window : Nat, severity : Int, threshold : Int,
                      conditions : Seq(Cond)]
  <1>1. Rules \in Seq(Rule) /\ Rules # <<>>
    BY RulesAssumption
  <1> HIDE DEF Cond
  <1>2. \A x \in Rule : x.window \in Nat /\ x.severity \in Int
    OBVIOUS
  <1> HIDE DEF Rule
  <1> QED BY <1>1, <1>2 DEF RuleIDs

\* A match consists of events of the snapshot.
LEMMA MatchIsEvents ==
    ASSUME snapshot \in [Keys -> SUBSET Event], NEW r \in RuleIDs, NEW t \in Tenants
    PROVE  Match(r, t) \in SUBSET Event
  <1>1. \A c : EventsAfter(snapshot, t, c) \in SUBSET Event
    BY DEF EventsAfter, KeysOf, Keys
  <1>2. \A rule, W, o : W \in SUBSET Event => matchRule(rule, W, o) \in SUBSET Event
    BY DEF matchRule
  <1> QED BY <1>1, <1>2 DEF Match

\* The fingerprint of a set of events is a fingerprint of its rule.
LEMMA FingerprintType ==
    ASSUME NEW r \in RuleIDs, NEW t \in Tenants, NEW events \in SUBSET Event
    PROVE  /\ fingerprint(events, r, t) \in Fingerprint
           /\ fingerprint(events, r, t).rule = r
  BY DEF fingerprint, Fingerprint, Event

\* A new incident has the type of incidents.
LEMMA NewIncidentType ==
    ASSUME NEW r \in RuleIDs, NEW t \in Tenants, NEW events \in SUBSET Event,
           evalNow \in Nat
    PROVE  NewIncident(r, t, events) \in Incident
  BY FingerprintType, RuleFacts DEF NewIncident, Incident, Statuses, NoAlert

\* A record with the fields of an event is an event.
LEMMA EventType ==
    ASSUME NEW i \in Int, NEW tn \in Tenants, NEW ag \in STRING, NEW src \in Sources,
           NEW ety \in EventTypes, NEW ti \in STRING, NEW ts \in Int, NEW sq \in Nat
    PROVE  [id |-> i, tenant |-> tn, agent |-> ag, source |-> src, etype |-> ety,
            title |-> ti, ts |-> ts, seq |-> sq] \in Event
  BY DEF Event

\* Buffering an event keeps a buffer a set of events.
LEMMA BufferEventType ==
    ASSUME NEW buf \in SUBSET Event, NEW ev \in Event
    PROVE  BufferEvent(buf, ev) \in SUBSET Event
  BY DEF BufferEvent

\* What taking the first and adding a last element do to a sequence.
LEMMA SeqPop ==
    ASSUME NEW S, NEW s \in Seq(S), s # <<>>
    PROVE  /\ Head(s) \in S /\ Tail(s) \in Seq(S)
           /\ Len(s) \in Nat /\ Len(Tail(s)) = Len(s) - 1
  OBVIOUS

LEMMA SeqPush ==
    ASSUME NEW S, NEW s \in Seq(S), NEW x \in S
    PROVE  /\ Append(s, x) \in Seq(S)
           /\ Len(s) \in Nat /\ Len(Append(s, x)) = Len(s) + 1
  OBVIOUS

\* Replacing an element of a sequence.
LEMMA SeqSet ==
    ASSUME NEW S, NEW s \in Seq(S), NEW i \in DOMAIN s, NEW x \in S
    PROVE  /\ [s EXCEPT ![i] = x] \in Seq(S)
           /\ DOMAIN [s EXCEPT ![i] = x] = DOMAIN s
  OBVIOUS

LEMMA SeqGet ==
    ASSUME NEW S, NEW s \in Seq(S), NEW i \in DOMAIN s
    PROVE  s[i] \in S
  OBVIOUS

-----------------------------------------------------------------------------
(* Type correctness *)

LEMMA TypeInit == Init => TypeOK
  <1> SUFFICES ASSUME Init PROVE TypeOK
    OBVIOUS
  <1>1. 1 \in RuleIDs
    BY RuleFacts
  <1>2. evalTenants \in (SUBSET Tenants) \ {{}}
    BY NamesAssumption DEF Init
  <1>3. disp \in [Workers -> Worker]
    BY DEF Init, IdleWorker, NoInc, NoAlert, Worker
  <1>4. /\ eventBuffer \in [Keys -> SUBSET Event] /\ snapshot \in [Keys -> SUBSET Event]
        /\ keyOrder \in [Keys -> Nat]
    BY DEF Init, EmptyBuffer, NoOrder
  <1>5. \A w \in Workers : InFlight(disp[w])
    BY DEF Init, IdleWorker, InFlight
  <1>6. /\ DOMAIN dedupCache \subseteq Fingerprint
        /\ dedupCache \in [DOMAIN dedupCache -> Int]
    BY DEF Init
  <1>7. /\ incidentMap \in Seq(Incident) /\ incidentCh \in Seq(DOMAIN incidentMap)
        /\ triggered \in Seq(DOMAIN incidentMap) /\ taken \in Seq(DOMAIN incidentMap)
        /\ alerts \in Seq([sourceRef : Fingerprint, case : BOOLEAN])
        /\ Len(incidentCh) <= ChannelCap
    BY BoundsAssumption DEF Init
  <1> QED
    BY <1>1, <1>2, <1>3, <1>4, <1>5, <1>6, <1>7 DEF Init, TypeOK

\* Ingesting an event preserves the types.
LEMMA IngestType ==
    ASSUME TypeOK, NEW ev \in Event, Ingest(ev)
    PROVE  TypeOK'
  <1>1. eventBuffer' \in [Keys -> SUBSET Event]
    BY BufferEventType DEF TypeOK, Ingest, Keys, Event
  <1>2. /\ eventsIngested' \in Nat
        /\ UNCHANGED <<clock, incidentMap, dedupCache, incidentCh, evalVars, disp,
                       alerts, procVars, histVars>>
    BY DEF TypeOK, Ingest
  <1> QED
    BY <1>1, <1>2 DEF TypeOK, InFlight, evalVars, procVars, histVars

\* The step of the evaluator that matches one rule preserves the types.
LEMMA EvalRuleType ==
    ASSUME TypeOK, NEW t \in Tenants, EvalRule(t)
    PROVE  TypeOK'
  <1> DEFINE events == Match(evalRule, t)
             fp == fingerprint(events, evalRule, t)
  <1>1. evalRule \in RuleIDs /\ events \in SUBSET Event
    BY MatchIsEvents DEF TypeOK
  <1>2. fp \in Fingerprint /\ NewIncident(evalRule, t, events) \in Incident
    BY <1>1, FingerprintType, NewIncidentType DEF TypeOK
  <1>3. /\ evalPc' \in {"rules", "send"}
        /\ evalRule' \in RuleIDs
        /\ evalTenants' \in (SUBSET Tenants) \ {{}}
    BY RuleFacts, NamesAssumption DEF TypeOK, EvalRule
  <1>4. CASE UNCHANGED <<dedupCache, incidentMap, triggered>>
    BY <1>3, <1>4 DEF TypeOK, InFlight, EvalRule, procVars, histVars
  <1>5. CASE /\ dedupCache' = [f \in DOMAIN dedupCache \cup {fp} |->
                                  IF f = fp THEN evalNow ELSE dedupCache[f]]
             /\ incidentMap' = Append(incidentMap, NewIncident(evalRule, t, events))
             /\ triggered' = Append(triggered, Len(incidentMap) + 1)
    <2>1. /\ DOMAIN dedupCache' \subseteq Fingerprint
          /\ dedupCache' \in [DOMAIN dedupCache' -> Int]
      BY <1>2, <1>5 DEF TypeOK
    <2>2. /\ incidentMap' \in Seq(Incident)
          /\ Len(incidentMap') = Len(incidentMap) + 1
          /\ DOMAIN incidentMap = 1 .. Len(incidentMap)
          /\ DOMAIN incidentMap' = 1 .. (Len(incidentMap) + 1)
          /\ DOMAIN incidentMap \subseteq DOMAIN incidentMap'
      BY <1>2, <1>5 DEF TypeOK
    <2>3. /\ triggered' \in Seq(DOMAIN incidentMap')
          /\ incidentCh' \in Seq(DOMAIN incidentMap')
          /\ taken' \in Seq(DOMAIN incidentMap')
          /\ dropped' \in SUBSET DOMAIN incidentMap'
      BY <1>5, <2>2 DEF TypeOK, EvalRule, histVars
    <2> QED
      BY <1>3, <2>1, <2>2, <2>3 DEF TypeOK, InFlight, EvalRule, procVars, histVars
  <1> QED
    BY <1>4, <1>5 DEF EvalRule, EvalBody

\* The other steps of the evaluator preserve the types.
LEMMA EvaluatorType ==
    ASSUME TypeOK, EvalBegin \/ EvalSnapshot \/ EvalSend \/ EvalDone \/ EvalStop
    PROVE  TypeOK'
  <1>1. CASE EvalBegin
    BY <1>1 DEF TypeOK, InFlight, EvalBegin, procVars, histVars
  <1>2. CASE EvalSnapshot
    <2>1. keyOrder' \in [Keys -> Nat]
      BY <1>2, NamesAssumption DEF EvalSnapshot, Keys
    <2> QED
      BY <1>2, <2>1 DEF TypeOK, InFlight, EvalSnapshot, procVars, histVars
  <1>3. CASE EvalSend
    <2>1. Head(triggered) \in DOMAIN incidentMap /\ triggered' \in Seq(DOMAIN incidentMap)
      BY <1>3, SeqPop DEF TypeOK, EvalSend
    <2>2. /\ incidentCh' \in Seq(DOMAIN incidentMap) /\ Len(incidentCh') <= ChannelCap
          /\ dropped' \in SUBSET DOMAIN incidentMap
      <3>1. incidentCh \in Seq(DOMAIN incidentMap) /\ dropped \in SUBSET DOMAIN incidentMap
            /\ Len(incidentCh) <= ChannelCap /\ ChannelCap \in Nat
        BY BoundsAssumption DEF TypeOK
      <3>2. CASE Len(incidentCh) < ChannelCap
        <4>1. incidentCh' = Append(incidentCh, Head(triggered)) /\ dropped' = dropped
          BY <1>3, <3>2 DEF EvalSend
        <4> QED BY <2>1, <3>1, <3>2, <4>1, SeqPush
      <3>3. CASE ~(Len(incidentCh) < ChannelCap)
        <4>1. incidentCh' = incidentCh /\ dropped' = dropped \cup {Head(triggered)}
          BY <1>3, <3>3 DEF EvalSend
        <4> QED BY <2>1, <3>1, <4>1
      <3> QED BY <3>2, <3>3
    <2> QED
      BY <1>3, <2>1, <2>2 DEF TypeOK, InFlight, EvalSend, procVars
  <1>4. CASE EvalDone
    <2>1. snapshot' \in [Keys -> SUBSET Event] /\ keyOrder' \in [Keys -> Nat]
      BY <1>4 DEF EvalDone, EmptyBuffer, NoOrder
    <2> QED
      BY <1>4, <2>1 DEF TypeOK, InFlight, EvalDone, procVars, histVars
  <1>5. CASE EvalStop
    BY <1>5 DEF TypeOK, InFlight, EvalStop, otherVars, procVars, histVars
  <1> QED
    BY <1>1, <1>2, <1>3, <1>4, <1>5

\* Starting a dispatch of a stored incident keeps the workers' type.
LEMMA StartDispatchType ==
    ASSUME TypeOK, NEW w \in Workers, NEW id \in DOMAIN incidentMap,
           StartDispatch(w, id)
    PROVE  /\ disp' \in [Workers -> Worker]
           /\ \A v \in Workers : InFlight(disp'[v])
  <1>1. id \in Nat
    BY DEF TypeOK
  <1> QED
    BY <1>1 DEF TypeOK, StartDispatch, NoAlert, Worker, InFlight

\* Taking an incident from the channel, and re-dispatching one, preserve the
\* types.
LEMMA BeginDispatchType ==
    ASSUME TypeOK,
           \/ Dequeue
           \/ \E w \in Requests, id \in DOMAIN incidentMap : DispatchByID(w, id)
    PROVE  TypeOK'
  <1>1. CASE Dequeue
    <2>1. /\ Head(incidentCh) \in DOMAIN incidentMap
          /\ incidentCh' \in Seq(DOMAIN incidentMap) /\ Len(incidentCh') <= ChannelCap
          /\ taken' \in Seq(DOMAIN incidentMap)
      <3>1. /\ incidentCh \in Seq(DOMAIN incidentMap) /\ incidentCh # <<>>
            /\ taken \in Seq(DOMAIN incidentMap)
            /\ Len(incidentCh) <= ChannelCap /\ ChannelCap \in Nat
        BY <1>1, BoundsAssumption DEF TypeOK, Dequeue
      <3>2. incidentCh' = Tail(incidentCh) /\ taken' = Append(taken, Head(incidentCh))
        BY <1>1 DEF Dequeue
      <3>3. /\ Head(incidentCh) \in DOMAIN incidentMap
            /\ Tail(incidentCh) \in Seq(DOMAIN incidentMap)
            /\ Len(Tail(incidentCh)) = Len(incidentCh) - 1 /\ Len(incidentCh) \in Nat
        BY <3>1, SeqPop
      <3>4. Append(taken, Head(incidentCh)) \in Seq(DOMAIN incidentMap)
        BY <3>1, <3>3, SeqPush
      <3> QED BY <3>1, <3>2, <3>3, <3>4
    <2>2. "dispatcher" \in Workers /\ StartDispatch("dispatcher", Head(incidentCh))
      BY <1>1 DEF Dequeue, Workers
    <2>3. UNCHANGED <<clock, eventBuffer, eventsIngested, incidentMap, dedupCache,
                      evalVars, alerts, procVars, dropped>>
      BY <1>1 DEF Dequeue
    <2>4. disp' \in [Workers -> Worker] /\ \A v \in Workers : InFlight(disp[v])'
      BY <2>1, <2>2, <2>3, StartDispatchType DEF InFlight
    <2> QED
      BY <2>1, <2>3, <2>4 DEF TypeOK, evalVars, procVars
  <1>2. CASE \E w \in Requests, id \in DOMAIN incidentMap : DispatchByID(w, id)
    <2>1. PICK w \in Requests, id \in DOMAIN incidentMap : DispatchByID(w, id)
      BY <1>2
    <2>2. w \in Workers /\ StartDispatch(w, id)
      BY <2>1 DEF DispatchByID, Workers
    <2>3. UNCHANGED <<clock, eventBuffer, eventsIngested, incidentMap, dedupCache,
                      incidentCh, evalVars, alerts, procVars, histVars>>
      BY <2>1 DEF DispatchByID
    <2>4. disp' \in [Workers -> Worker] /\ \A v \in Workers : InFlight(disp[v])'
      BY <2>2, <2>3, StartDispatchType DEF InFlight
    <2> QED
      BY <2>3, <2>4 DEF TypeOK, evalVars, procVars, histVars
  <1> QED
    BY <1>1, <1>2

\* The steps of a dispatch preserve the types.
LEMMA DispatchStepType ==
    ASSUME TypeOK, NEW w \in Workers, DispatchStep(w)
    PROVE  TypeOK'
  <1>0. disp[w] \in Worker /\ InFlight(disp[w])
    BY DEF TypeOK
  <1>1. CASE CreateAlert(w)
    <2>1. UNCHANGED <<incidentMap, dispVars>>
      BY <1>1 DEF CreateAlert
    <2>2. disp[w].inc \in DOMAIN incidentMap /\ incidentMap[disp[w].inc].fp \in Fingerprint
      <3>1. disp[w].inc \in DOMAIN incidentMap /\ incidentMap \in Seq(Incident)
        BY <1>0, <1>1 DEF CreateAlert, InFlight, TypeOK
      <3>2. incidentMap[disp[w].inc] \in Incident
        BY <3>1, SeqGet
      <3> QED BY <3>1, <3>2 DEF Incident
    <2>3. PICK stored \in BOOLEAN, answered \in BOOLEAN :
            /\ answered => stored
            /\ alerts' = IF stored
                         THEN Append(alerts,
                                [sourceRef |-> incidentMap[disp[w].inc].fp,
                                 case |-> FALSE])
                         ELSE alerts
            /\ disp' = [disp EXCEPT
                   ![w].pc    = IF answered THEN "record" ELSE "shuffle",
                   ![w].alert = IF answered THEN Len(alerts) + 1 ELSE NoAlert]
      BY <1>1 DEF CreateAlert
    <2>4. /\ alerts \in Seq([sourceRef : Fingerprint, case : BOOLEAN])
          /\ [sourceRef |-> incidentMap[disp[w].inc].fp, case |-> FALSE]
                \in [sourceRef : Fingerprint, case : BOOLEAN]
      BY <2>2 DEF TypeOK
    <2>5. /\ alerts' \in Seq([sourceRef : Fingerprint, case : BOOLEAN])
          /\ Len(alerts) \in Nat
          /\ DOMAIN alerts \subseteq DOMAIN alerts'
          /\ stored => Len(alerts) + 1 \in DOMAIN alerts'
      <3> DEFINE A == [sourceRef : Fingerprint, case : BOOLEAN]
                 new == [sourceRef |-> incidentMap[disp[w].inc].fp, case |-> FALSE]
      <3>1. alerts \in Seq(A) /\ new \in A
        BY <2>4
      <3>2. alerts' = alerts \/ (stored /\ alerts' = Append(alerts, new))
        BY <2>3
      <3>3. stored => alerts' = Append(alerts, new)
        BY <2>3
      <3> HIDE DEF A, new
      <3>4. alerts' \in Seq(A) /\ Len(alerts) \in Nat /\ DOMAIN alerts \subseteq DOMAIN alerts'
        BY <3>1, <3>2
      <3>5. stored => Len(alerts) + 1 \in DOMAIN alerts'
        BY <3>1, <3>3
      <3> QED BY <3>4, <3>5 DEF A
    <2>6. disp' \in [Workers -> Worker]
      <3>1. disp \in [Workers -> Worker]
        BY DEF TypeOK
      <3>2. \A pc \in {"record", "shuffle"}, a \in Nat :
              [disp EXCEPT ![w].pc = pc, ![w].alert = a] \in [Workers -> Worker]
        BY <3>1 DEF Worker
      <3>3. Len(alerts) + 1 \in Nat /\ NoAlert \in Nat
        BY <2>5 DEF NoAlert
      <3> QED BY <2>3, <3>2, <3>3
    <2>7. \A v \in Workers : InFlight(disp[v])'
      BY <1>1, <2>1, <2>2, <2>3, <2>5 DEF TypeOK, InFlight, Worker, CreateAlert
    <2> QED
      BY <2>1, <2>5, <2>6, <2>7 DEF TypeOK, dispVars, evalVars, procVars, histVars
  <1>2. CASE RecordAlert(w)
    <2>1. UNCHANGED <<alerts, dispVars>>
      BY <1>2 DEF RecordAlert
    <2>2. disp[w].inc \in DOMAIN incidentMap /\ disp[w].alert \in Nat
      BY <1>0, <1>2 DEF RecordAlert, InFlight, Worker
    <2>3. /\ incidentMap' \in Seq(Incident)
          /\ DOMAIN incidentMap' = DOMAIN incidentMap
      <3> DEFINE new == [incidentMap[disp[w].inc] EXCEPT !.thehive = disp[w].alert]
      <3>1. incidentMap \in Seq(Incident)
        BY DEF TypeOK
      <3>2. incidentMap[disp[w].inc] \in Incident
        BY <2>2, <3>1, SeqGet
      <3>3. new \in Incident
        BY <2>2, <3>2 DEF Incident
      <3>4. incidentMap' = [incidentMap EXCEPT ![disp[w].inc] = new]
        BY <1>2 DEF RecordAlert
      <3> QED BY <2>2, <3>1, <3>3, <3>4, SeqSet
    <2>4. disp' \in [Workers -> Worker]
      BY <1>2 DEF TypeOK, Worker, RecordAlert
    <2>5. \A v \in Workers : InFlight(disp[v])'
      BY <1>2, <2>1, <2>2, <2>3 DEF TypeOK, InFlight, Worker, RecordAlert
    <2> QED
      BY <2>1, <2>3, <2>4, <2>5 DEF TypeOK, dispVars, evalVars, procVars, histVars
  <1>3. CASE PromoteAlert(w)
    <2>1. UNCHANGED <<incidentMap, dispVars>>
      BY <1>3 DEF PromoteAlert
    <2>2. disp[w].alert \in DOMAIN alerts
      BY <1>0, <1>3 DEF PromoteAlert, InFlight
    <2>3. /\ alerts' \in Seq([sourceRef : Fingerprint, case : BOOLEAN])
          /\ DOMAIN alerts' = DOMAIN alerts
      <3> DEFINE A == [sourceRef : Fingerprint, case : BOOLEAN]
                 new == [alerts[disp[w].alert] EXCEPT !.case = TRUE]
      <3>1. alerts \in Seq(A)
        BY DEF TypeOK
      <3>2. alerts[disp[w].alert] \in A
        BY <2>2, <3>1, SeqGet
      <3>3. new \in A
        BY <3>2
      <3>4. alerts' = alerts \/ alerts' = [alerts EXCEPT ![disp[w].alert] = new]
        BY <1>3 DEF PromoteAlert
      <3> HIDE DEF A, new
      <3>5. alerts' \in Seq(A) /\ DOMAIN alerts' = DOMAIN alerts
        BY <2>2, <3>1, <3>3, <3>4, SeqSet
      <3> QED BY <3>5 DEF A
    <2>4. disp' \in [Workers -> Worker]
      BY <1>3 DEF TypeOK, Worker, PromoteAlert
    <2>5. \A v \in Workers : InFlight(disp[v])'
      BY <1>3, <2>1, <2>2, <2>3 DEF TypeOK, InFlight, Worker, PromoteAlert
    <2> QED
      BY <2>1, <2>3, <2>4, <2>5 DEF TypeOK, dispVars, evalVars, procVars, histVars
  <1>4. CASE Shuffle(w)
    <2>1. UNCHANGED <<incidentMap, alerts, dispVars>>
      BY <1>4 DEF Shuffle
    <2>2. disp' \in [Workers -> Worker]
      BY <1>4 DEF TypeOK, Worker, Shuffle, IdleWorker, NoInc, NoAlert
    <2>3. \A v \in Workers : InFlight(disp[v])'
      BY <1>4, <2>1 DEF TypeOK, InFlight, Worker, Shuffle, IdleWorker
    <2> QED
      BY <2>1, <2>2, <2>3 DEF TypeOK, dispVars, evalVars, procVars, histVars
  <1> QED
    BY <1>1, <1>2, <1>3, <1>4 DEF DispatchStep

\* Maintenance, status changes, time and shutdown preserve the types.
LEMMA OtherType ==
    ASSUME TypeOK,
           \/ cleanDedupCache \/ pruneBuffer
           \/ \E id \in DOMAIN incidentMap, s \in PatchStatuses :
                 UpdateIncidentStatus(id, s)
           \/ Tick \/ Cancel \/ DispatcherStop \/ StartReturns \/ MainExits \/ Exited
    PROVE  TypeOK'
  <1>1. CASE cleanDedupCache
    <2>1. /\ DOMAIN dedupCache' \subseteq Fingerprint
          /\ dedupCache' \in [DOMAIN dedupCache' -> Int]
      BY <1>1 DEF cleanDedupCache, TypeOK
    <2> QED
      BY <1>1, <2>1 DEF TypeOK, InFlight, cleanDedupCache, evalVars, procVars, histVars
  <1>2. CASE pruneBuffer
    <2>1. eventBuffer' \in [Keys -> SUBSET Event]
      BY <1>2 DEF pruneBuffer, TypeOK
    <2>2. UNCHANGED <<clock, eventsIngested, incidentMap, dedupCache, incidentCh,
                      evalVars, disp, alerts, procVars, histVars>>
      BY <1>2 DEF pruneBuffer
    <2> QED
      BY <2>1, <2>2 DEF TypeOK, InFlight, evalVars, procVars, histVars
  <1>3. ASSUME NEW id \in DOMAIN incidentMap, NEW s \in PatchStatuses,
               UpdateIncidentStatus(id, s)
        PROVE  TypeOK'
    <2>1. incidentMap' \in Seq(Incident) /\ DOMAIN incidentMap' = DOMAIN incidentMap
      <3> DEFINE new == [incidentMap[id] EXCEPT !.status = s]
      <3>1. incidentMap \in Seq(Incident)
        BY DEF TypeOK
      <3>2. incidentMap[id] \in Incident /\ s \in Statuses
        BY <1>3, <3>1, SeqGet DEF UpdateIncidentStatus, Statuses
      <3>3. new \in Incident
        BY <3>2 DEF Incident
      <3>4. incidentMap' = [incidentMap EXCEPT ![id] = new]
        BY <1>3 DEF UpdateIncidentStatus
      <3> QED BY <3>1, <3>3, <3>4, SeqSet
    <2> QED
      BY <1>3, <2>1 DEF TypeOK, InFlight, UpdateIncidentStatus, evalVars, procVars, histVars
  <1>4. CASE Tick
    BY <1>4 DEF TypeOK, InFlight, Tick, evalVars, procVars, histVars
  <1>5. CASE Cancel \/ StartReturns \/ MainExits
    BY <1>5 DEF TypeOK, InFlight, Cancel, StartReturns, MainExits, otherVars,
                evalVars, histVars
  <1>6. CASE DispatcherStop
    <2>1. disp' \in [Workers -> Worker]
      BY <1>6 DEF TypeOK, DispatcherStop, Worker, Workers
    <2>2. \A v \in Workers : InFlight(disp[v])'
      BY <1>6 DEF TypeOK, InFlight, Worker, DispatcherStop, otherVars
    <2> QED
      BY <1>6, <2>1, <2>2 DEF TypeOK, DispatcherStop, otherVars, evalVars,
                              procVars, histVars
  <1>7. CASE Exited
    BY <1>7 DEF Exited, vars, TypeOK, InFlight, evalVars, procVars, histVars
  <1> QED
    BY <1>1, <1>2, <1>3, <1>4, <1>5, <1>6, <1>7

LEMMA TypeStep ==
    ASSUME TypeOK, [Next]_vars
    PROVE  TypeOK'
  <1>1. ASSUME NEW m \in Messages, NEW lag \in Lags, processEvent(m, lag)
        PROVE  TypeOK'
    <2> DEFINE ev == [id |-> m.id, tenant |-> m.tenant, agent |-> m.agent,
                      source |-> m.source, etype |-> m.etype, title |-> m.title,
                      ts |-> clock - lag, seq |-> eventsIngested]
    <2>1. ev \in Event
      BY NamesAssumption DEF TypeOK, Event
    <2>2. Ingest(ev)
      BY <1>1 DEF processEvent
    <2> QED BY <2>1, <2>2, IngestType
  <1>2. ASSUME NEW t \in Tenants, IngestFalcoAlert(t)
        PROVE  TypeOK'
    <2> DEFINE ev == [id |-> 0 - eventsIngested - 1, tenant |-> t, agent |-> t,
                      source |-> "falco", etype |-> "alert",
                      title |-> FalcoTitle, ts |-> clock, seq |-> eventsIngested]
    <2>0. /\ clock \in Int /\ eventsIngested \in Nat /\ 0 - eventsIngested - 1 \in Int
          /\ t \in STRING /\ FalcoTitle \in STRING /\ "alert" \in EventTypes
      BY <1>2, NamesAssumption DEF TypeOK, IngestFalcoAlert
    <2>1. ev \in Event
      BY <2>0, EventType DEF Sources
    <2>2. Ingest(ev)
      BY <1>2 DEF IngestFalcoAlert
    <2> QED BY <2>1, <2>2, IngestType
  <1>3. CASE Evaluator
    BY <1>3, EvalRuleType, EvaluatorType DEF Evaluator
  <1>4. CASE Dispatcher
    BY <1>4, BeginDispatchType, DispatchStepType, OtherType DEF Dispatcher, Workers
  <1>5. CASE \E w \in Requests, id \in DOMAIN incidentMap : DispatchByID(w, id)
    BY <1>5, BeginDispatchType
  <1>6. CASE \E w \in Requests : DispatchStep(w)
    BY <1>6, DispatchStepType DEF Workers
  <1>7. CASE \/ cleanDedupCache \/ pruneBuffer
             \/ \E id \in DOMAIN incidentMap, s \in PatchStatuses :
                   UpdateIncidentStatus(id, s)
             \/ Tick \/ Cancel \/ StartReturns \/ MainExits \/ Exited
    BY <1>7, OtherType
  <1>8. CASE UNCHANGED vars
    BY <1>8 DEF vars, TypeOK, InFlight, evalVars, procVars, histVars
  <1> QED
    BY <1>1, <1>2, <1>3, <1>4, <1>5, <1>6, <1>7, <1>8 DEF Next

\* Every behaviour of the engine keeps the types of its state, the capacity
\* of the incident channel, and the references of the dispatches under way.
THEOREM TypeCorrect == Spec => []TypeOK
  <1>1. Init => TypeOK
    BY TypeInit
  <1>2. TypeOK /\ [Next]_vars => TypeOK'
    BY TypeStep
  <1> QED
    BY <1>1, <1>2, PTL DEF Spec

-----------------------------------------------------------------------------
(* What a step does to the incidents *)

\* An incident is never removed, and only its status and its TheHiveID change.
Kept(i) ==
    /\ i \in DOMAIN incidentMap'
    /\ incidentMap'[i].fp = incidentMap[i].fp
    /\ incidentMap'[i].rule = incidentMap[i].rule
    /\ incidentMap'[i].tenant = incidentMap[i].tenant
    /\ incidentMap'[i].events = incidentMap[i].events
    /\ incidentMap'[i].severity = incidentMap[i].severity
    /\ incidentMap'[i].createdAt = incidentMap[i].createdAt

\* A step that matters to deduplication to no extent: it touches neither the
\* clock, nor the cache, nor the evaluation, nor the set of incidents.
Aside ==
    /\ UNCHANGED <<clock, dedupCache, evalPc, evalNow, snapshot, keyOrder,
                   evalRule, evalTenants>>
    /\ DOMAIN incidentMap' = DOMAIN incidentMap
    /\ \A i \in DOMAIN incidentMap : Kept(i)

\* Setting one mutable field of one incident keeps all the others.
LEMMA SetFieldKeeps ==
    ASSUME TypeOK, NEW id \in DOMAIN incidentMap, NEW x,
           \/ incidentMap' = [incidentMap EXCEPT ![id].thehive = x]
           \/ incidentMap' = [incidentMap EXCEPT ![id].status = x]
    PROVE  /\ DOMAIN incidentMap' = DOMAIN incidentMap
           /\ \A i \in DOMAIN incidentMap : Kept(i)
  <1>1. \A i \in DOMAIN incidentMap : incidentMap[i] \in Incident
    BY SeqGet DEF TypeOK
  <1>2. DOMAIN incidentMap' = DOMAIN incidentMap
    OBVIOUS
  <1>3. ASSUME NEW i \in DOMAIN incidentMap PROVE Kept(i)
    <2>1. CASE i # id
      BY <1>2, <2>1 DEF Kept
    <2>2. CASE i = id
      <3>1. \/ incidentMap'[i] = [incidentMap[i] EXCEPT !.thehive = x]
            \/ incidentMap'[i] = [incidentMap[i] EXCEPT !.status = x]
        BY <2>2
      <3> QED BY <1>1, <1>2, <3>1 DEF Kept, Incident
    <2> QED BY <2>1, <2>2
  <1> QED BY <1>2, <1>3

\* Every step is one of the seven that deduplication is about, or aside.
LEMMA StepKinds ==
    ASSUME TypeOK, [Next]_vars
    PROVE  \/ EvalBegin \/ EvalSnapshot \/ EvalDone \/ EvalStop
           \/ \E t \in Tenants : EvalRule(t)
           \/ cleanDedupCache \/ Tick
           \/ Aside
  <1> DEFINE Same == UNCHANGED <<clock, dedupCache, evalPc, evalNow, snapshot,
                                 keyOrder, evalRule, evalTenants>>
  <1>0. incidentMap' = incidentMap /\ Same => Aside
    BY DEF Aside, Kept
  <1>1. ASSUME NEW ev, Ingest(ev) PROVE Aside
    BY <1>0, <1>1 DEF Ingest, evalVars
  <1>2. CASE EvalSend
    BY <1>0, <1>2 DEF EvalSend
  <1>3. CASE Dequeue
    BY <1>0, <1>3 DEF Dequeue, evalVars
  <1>4. ASSUME NEW w \in Requests, NEW id \in DOMAIN incidentMap, DispatchByID(w, id)
        PROVE  Aside
    BY <1>0, <1>4 DEF DispatchByID, evalVars
  <1>5. ASSUME NEW w \in Workers, DispatchStep(w) PROVE Aside
    <2>1. CASE CreateAlert(w)
      BY <1>0, <2>1 DEF CreateAlert, dispVars, evalVars
    <2>2. CASE RecordAlert(w)
      <3>1. disp[w].inc \in DOMAIN incidentMap
        BY <2>2 DEF RecordAlert, TypeOK, InFlight
      <3> QED BY <2>2, <3>1, SetFieldKeeps DEF RecordAlert, dispVars, evalVars, Aside
    <2>3. CASE PromoteAlert(w)
      BY <1>0, <2>3 DEF PromoteAlert, dispVars, evalVars
    <2>4. CASE Shuffle(w)
      BY <1>0, <2>4 DEF Shuffle, dispVars, evalVars
    <2> QED BY <1>5, <2>1, <2>2, <2>3, <2>4 DEF DispatchStep
  <1>6. CASE pruneBuffer
    BY <1>0, <1>6 DEF pruneBuffer, evalVars
  <1>7. ASSUME NEW id \in DOMAIN incidentMap, NEW s \in PatchStatuses,
               UpdateIncidentStatus(id, s)
        PROVE  Aside
    BY <1>7, SetFieldKeeps DEF UpdateIncidentStatus, evalVars, Aside
  <1>8. CASE Cancel \/ StartReturns \/ MainExits \/ DispatcherStop
    BY <1>0, <1>8 DEF Cancel, StartReturns, MainExits, DispatcherStop, otherVars, evalVars
  <1>9. CASE Exited \/ UNCHANGED vars
    BY <1>0, <1>9 DEF Exited, vars, evalVars
  <1>10. CASE \/ \E m \in Messages, lag \in Lags : processEvent(m, lag)
              \/ \E t \in Tenants : IngestFalcoAlert(t)
    BY <1>1, <1>10 DEF processEvent, IngestFalcoAlert
  <1> QED
    BY <1>2, <1>3, <1>4, <1>5, <1>6, <1>7, <1>8, <1>9, <1>10
       DEF Next, Evaluator, Dispatcher, Workers

\* What a step that raises an incident does.
LEMMA EvalRuleEffect ==
    ASSUME TypeOK, NEW t \in Tenants, EvalRule(t)
    PROVE  LET events == Match(evalRule, t)
               fp     == fingerprint(events, evalRule, t)
               n      == Len(incidentMap) + 1
           IN  \/ /\ events = {} \/ Suppressed(fp, evalRule)
                  /\ UNCHANGED <<dedupCache, incidentMap>>
               \/ /\ events # {} /\ ~Suppressed(fp, evalRule)
                  /\ dedupCache' = [f \in DOMAIN dedupCache \cup {fp} |->
                                       IF f = fp THEN evalNow ELSE dedupCache[f]]
                  /\ DOMAIN incidentMap = 1 .. Len(incidentMap) /\ Len(incidentMap) \in Nat
                  /\ DOMAIN incidentMap' = DOMAIN incidentMap \cup {n}
                  /\ \A i \in DOMAIN incidentMap : incidentMap'[i] = incidentMap[i]
                  /\ incidentMap'[n] = NewIncident(evalRule, t, events)
                  /\ incidentMap'[n].fp = fp
                  /\ incidentMap'[n].rule = evalRule
                  /\ fp.rule = evalRule
                  /\ incidentMap'[n].createdAt = evalNow
  <1> DEFINE events == Match(evalRule, t)
             fp     == fingerprint(events, evalRule, t)
             new    == NewIncident(evalRule, t, events)
             n      == Len(incidentMap) + 1
  <1>1. EvalBody(evalRule, t)
    BY DEF EvalRule
  <1>2. CASE events = {} \/ Suppressed(fp, evalRule)
    BY <1>1, <1>2 DEF EvalBody
  <1>3. CASE ~(events = {} \/ Suppressed(fp, evalRule))
    <2>1. /\ dedupCache' = [f \in DOMAIN dedupCache \cup {fp} |->
                              IF f = fp THEN evalNow ELSE dedupCache[f]]
          /\ incidentMap' = Append(incidentMap, new)
      BY <1>1, <1>3 DEF EvalBody
    <2>2. new.fp = fp /\ new.rule = evalRule /\ new.createdAt = evalNow /\ fp.rule = evalRule
      BY DEF NewIncident, fingerprint
    <2>3. incidentMap \in Seq(Incident)
      BY DEF TypeOK
    <2> HIDE DEF new, fp, events
    <2>4. /\ DOMAIN incidentMap = 1 .. Len(incidentMap) /\ Len(incidentMap) \in Nat
          /\ DOMAIN incidentMap' = DOMAIN incidentMap \cup {n}
          /\ \A i \in DOMAIN incidentMap : incidentMap'[i] = incidentMap[i]
          /\ incidentMap'[n] = new
      BY <2>1, <2>3
    <2> QED BY <1>3, <2>1, <2>2, <2>4 DEF fp, new, events
  <1> QED BY <1>2, <1>3

-----------------------------------------------------------------------------
(* Deduplication *)

\* The types the arithmetic of the deduplication argument needs.
LEMMA Times ==
    ASSUME TypeOK
    PROVE  /\ clock \in Nat /\ evalNow \in Nat /\ CheckTime \in Nat
           /\ MaxEval \in Nat /\ DedupTTL \in Nat
           /\ \A i \in DOMAIN incidentMap :
                 /\ incidentMap[i].createdAt \in Int
                 /\ incidentMap[i].rule \in RuleIDs
                 /\ Rules[incidentMap[i].rule].window \in Nat
                 /\ 2 * Rules[incidentMap[i].rule].window + MaxEval <= DedupTTL
           /\ \A f \in DOMAIN dedupCache : dedupCache[f] \in Int
  <1>1. \A i \in DOMAIN incidentMap : incidentMap[i] \in Incident
    BY SeqGet DEF TypeOK
  <1>2. \A i \in DOMAIN incidentMap :
          incidentMap[i].createdAt \in Int /\ incidentMap[i].rule \in RuleIDs
    BY <1>1 DEF Incident
  <1>3. clock \in Nat /\ evalNow \in Nat /\ CheckTime \in Nat
    BY DEF TypeOK, CheckTime
  <1>4. \A f \in DOMAIN dedupCache : dedupCache[f] \in Int
    BY DEF TypeOK
  <1> QED BY <1>2, <1>3, <1>4, RuleFacts, DedupTTLAssumption, BoundsAssumption

\* The parts of DedupInv about one incident.
Remembered(i) ==
    LET inc == incidentMap[i]
    IN  /\ inc.fp.rule = inc.rule
        /\ inc.createdAt <= CheckTime
        /\ inc.fp \in DOMAIN dedupCache => inc.createdAt <= dedupCache[inc.fp]
        /\ inc.fp \notin DOMAIN dedupCache =>
              CheckTime - inc.createdAt >= 2 * Rules[inc.rule].window

\* When the incidents and the cache stay and the check time does not go back,
\* every incident stays remembered.
LEMMA RememberedStays ==
    ASSUME TypeOK, TypeOK', DedupInv,
           DOMAIN incidentMap' = DOMAIN incidentMap,
           \A i \in DOMAIN incidentMap : Kept(i),
           dedupCache' = dedupCache,
           CheckTime <= CheckTime'
    PROVE  /\ \A i \in DOMAIN incidentMap' : Remembered(i)'
           /\ DedupWindow'
  <1>1. ASSUME NEW i \in DOMAIN incidentMap' PROVE Remembered(i)'
    <2>1. Kept(i) /\ Remembered(i)
      BY DEF DedupInv, Remembered
    <2>2. /\ CheckTime \in Nat /\ CheckTime' \in Nat /\ incidentMap[i].createdAt \in Int
          /\ Rules[incidentMap[i].rule].window \in Nat
      BY Times, TypeOK' DEF TypeOK, CheckTime
    <2> QED BY <2>1, <2>2 DEF Remembered, Kept
  <1>2. DedupWindow'
    BY DEF DedupInv, DedupWindow, Kept
  <1> QED BY <1>1, <1>2

LEMMA DedupStep ==
    ASSUME TypeOK, TypeOK', DedupInv, [Next]_vars
    PROVE  DedupInv'
  <1> USE TypeOK, TypeOK', DedupInv
  <1>0. (\A i \in DOMAIN incidentMap : Remembered(i))
    BY DEF DedupInv, Remembered
  <1>a. SUFFICES /\ (Evaluating => evalNow <= clock /\ clock - evalNow <= MaxEval)'
                 /\ \A i \in DOMAIN incidentMap' : Remembered(i)'
                 /\ DedupWindow'
    BY DEF DedupInv, Remembered
  <1>b. incidentMap' = incidentMap => \A i \in DOMAIN incidentMap : Kept(i)
    BY DEF Kept
  <1>1. CASE EvalBegin
    <2>1. /\ evalNow' = clock /\ clock' = clock /\ CheckTime = clock /\ CheckTime' = clock
          /\ incidentMap' = incidentMap /\ dedupCache' = dedupCache
      BY <1>1 DEF EvalBegin, CheckTime, Evaluating
    <2> QED BY <1>b, <2>1, Times, RememberedStays
  <1>2. CASE EvalSnapshot
    <2>1. /\ Evaluating /\ evalNow' = evalNow /\ clock' = clock /\ CheckTime' = CheckTime
          /\ incidentMap' = incidentMap /\ dedupCache' = dedupCache
      BY <1>2 DEF EvalSnapshot, CheckTime, Evaluating
    <2>2. evalNow' <= clock' /\ clock' - evalNow' <= MaxEval
      BY <2>1 DEF DedupInv
    <2> QED BY <1>b, <2>1, <2>2, Times, RememberedStays
  <1>3. CASE EvalDone
    <2>1. /\ Evaluating /\ ~Evaluating' /\ clock' = clock /\ CheckTime = evalNow /\ CheckTime' = clock
          /\ incidentMap' = incidentMap /\ dedupCache' = dedupCache
      BY <1>3 DEF EvalDone, CheckTime, Evaluating
    <2>2. CheckTime <= CheckTime'
      BY <2>1 DEF DedupInv
    <2> QED BY <1>b, <2>1, <2>2, RememberedStays
  <1>4. CASE EvalStop
    <2>1. /\ ~Evaluating' /\ CheckTime' = CheckTime
          /\ incidentMap' = incidentMap /\ dedupCache' = dedupCache
      BY <1>4 DEF EvalStop, CheckTime, Evaluating, otherVars
    <2> QED BY <1>b, <2>1, Times, RememberedStays
  <1>5. ASSUME NEW t \in Tenants, EvalRule(t)
        PROVE  DedupInv'
    <2>1. /\ Evaluating /\ Evaluating' /\ evalNow' = evalNow /\ clock' = clock
          /\ CheckTime = evalNow /\ CheckTime' = evalNow
      BY <1>5 DEF EvalRule, Evaluating, CheckTime
    <2>2. evalNow' <= clock' /\ clock' - evalNow' <= MaxEval
      BY <2>1 DEF DedupInv
    <2> DEFINE fp == fingerprint(Match(evalRule, t), evalRule, t)
               n  == Len(incidentMap) + 1
    <2>3. CASE UNCHANGED <<dedupCache, incidentMap>>
      BY <1>b, <2>1, <2>2, <2>3, Times, RememberedStays DEF DedupInv, Remembered
    <2>4. CASE /\ ~Suppressed(fp, evalRule)
               /\ dedupCache' = [f \in DOMAIN dedupCache \cup {fp} |->
                                    IF f = fp THEN evalNow ELSE dedupCache[f]]
               /\ DOMAIN incidentMap = 1 .. Len(incidentMap) /\ Len(incidentMap) \in Nat
               /\ DOMAIN incidentMap' = DOMAIN incidentMap \cup {n}
               /\ \A i \in DOMAIN incidentMap : incidentMap'[i] = incidentMap[i]
               /\ incidentMap'[n].fp = fp
               /\ incidentMap'[n].rule = evalRule
               /\ fp.rule = evalRule
               /\ incidentMap'[n].createdAt = evalNow
      <3> HIDE DEF fp
      <3>1. ASSUME NEW i \in DOMAIN incidentMap' PROVE Remembered(i)'
        <4>1. CASE i = n
          BY <2>1, <2>4, <4>1, Times DEF Remembered
        <4>2. CASE i \in DOMAIN incidentMap
          BY <1>0, <2>1, <2>4, <4>2, Times DEF Remembered
        <4> QED BY <2>4, <4>1, <4>2
      <3>2. ASSUME NEW i \in DOMAIN incidentMap, incidentMap[i].fp = fp
            PROVE  evalNow - incidentMap[i].createdAt >= 2 * Rules[evalRule].window
        <4>1. incidentMap[i].rule = evalRule
          BY <1>0, <2>4, <3>2 DEF Remembered
        <4>2. CASE fp \in DOMAIN dedupCache
          <5>1. /\ incidentMap[i].createdAt <= dedupCache[fp]
                /\ ~(evalNow - dedupCache[fp] < 2 * Rules[evalRule].window)
            BY <1>0, <2>4, <3>2, <4>2 DEF Remembered, Suppressed
          <5> QED BY <4>1, <4>2, <5>1, Times
        <4>3. CASE fp \notin DOMAIN dedupCache
          BY <1>0, <2>1, <3>2, <4>1, <4>3 DEF Remembered
        <4> QED BY <4>2, <4>3
      <3>3. DedupWindow'
        <4> SUFFICES ASSUME NEW i \in DOMAIN incidentMap', NEW j \in DOMAIN incidentMap',
                            i < j, incidentMap'[i].fp = incidentMap'[j].fp
                     PROVE  incidentMap'[j].createdAt - incidentMap'[i].createdAt
                                >= 2 * Rules[incidentMap'[i].rule].window
          BY DEF DedupWindow
        <4>1. i \in DOMAIN incidentMap
          BY <2>4
        <4>2. CASE j \in DOMAIN incidentMap
          BY <2>4, <4>1, <4>2 DEF DedupInv, DedupWindow
        <4>3. CASE j = n
          <5>1. incidentMap[i].rule = evalRule
            BY <1>0, <2>4, <4>1, <4>3 DEF Remembered
          <5> QED BY <2>4, <3>2, <4>1, <4>3, <5>1
        <4> QED BY <2>4, <4>2, <4>3
      <3> QED BY <2>1, <2>2, <3>1, <3>3 DEF DedupInv, Remembered
    <2> QED BY <1>5, <2>3, <2>4, EvalRuleEffect
  <1>6. CASE cleanDedupCache
    <2>1. /\ CheckTime' = CheckTime /\ clock' = clock /\ incidentMap' = incidentMap
          /\ evalNow' = evalNow /\ Evaluating' = Evaluating
      BY <1>6 DEF cleanDedupCache, CheckTime, Evaluating, evalVars
    <2>2. /\ \A f \in DOMAIN dedupCache' : f \in DOMAIN dedupCache /\ dedupCache'[f] = dedupCache[f]
          /\ \A f \in DOMAIN dedupCache : f \notin DOMAIN dedupCache' =>
                dedupCache[f] < clock - DedupTTL
      BY <1>6 DEF cleanDedupCache
    <2>3. clock - CheckTime <= MaxEval
      BY Times, BoundsAssumption DEF DedupInv, CheckTime
    <2>4. ASSUME NEW i \in DOMAIN incidentMap' PROVE Remembered(i)'
      <3>1. Remembered(i)
        BY <1>0, <2>1
      <3>2. CASE incidentMap[i].fp \in DOMAIN dedupCache'
        BY <2>1, <2>2, <3>1, <3>2 DEF Remembered
      <3>3. CASE incidentMap[i].fp \notin DOMAIN dedupCache
        BY <2>1, <2>2, <3>1, <3>3 DEF Remembered
      <3>4. CASE incidentMap[i].fp \in DOMAIN dedupCache \ DOMAIN dedupCache'
        <4>1. /\ dedupCache[incidentMap[i].fp] < clock - DedupTTL
              /\ incidentMap[i].createdAt <= dedupCache[incidentMap[i].fp]
          BY <2>2, <3>1, <3>4 DEF Remembered
        <4>2. CheckTime - incidentMap[i].createdAt >= 2 * Rules[incidentMap[i].rule].window
          BY <2>1, <2>3, <3>4, <4>1, Times
        <4> QED BY <2>1, <3>1, <3>4, <4>2 DEF Remembered
      <3> QED BY <3>2, <3>3, <3>4
    <2> QED BY <2>1, <2>4 DEF DedupInv, DedupWindow
  <1>7. CASE Tick
    <2>1. /\ clock' = clock + 1 /\ incidentMap' = incidentMap /\ dedupCache' = dedupCache
          /\ evalNow' = evalNow /\ Evaluating' = Evaluating
          /\ Evaluating => clock - evalNow < MaxEval
      BY <1>7 DEF Tick, Evaluating, evalVars
    <2>2. CheckTime <= CheckTime'
      BY <2>1, Times DEF CheckTime
    <2>3. (Evaluating => evalNow <= clock /\ clock - evalNow <= MaxEval)'
      BY <2>1, Times, BoundsAssumption DEF DedupInv
    <2> QED BY <1>b, <2>1, <2>2, <2>3, RememberedStays
  <1>8. CASE Aside
    <2>1. /\ CheckTime' = CheckTime /\ Evaluating' = Evaluating /\ evalNow' = evalNow
          /\ clock' = clock /\ dedupCache' = dedupCache
      BY <1>8 DEF Aside, CheckTime, Evaluating
    <2> QED BY <1>8, <2>1, Times, RememberedStays DEF Aside, DedupInv
  <1> QED
    BY <1>1, <1>2, <1>3, <1>4, <1>5, <1>6, <1>7, <1>8, StepKinds DEF DedupInv, Remembered

\* evaluateRules raises no detection twice within twice its rule's window,
\* for every rule set whose doubled windows the cache outlives.
THEOREM DedupCorrect == Spec => []DedupWindow
  <1>1. Init => DedupInv
    BY DEF Init, DedupInv, DedupWindow, Evaluating
  <1>2. TypeOK /\ TypeOK' /\ DedupInv /\ [Next]_vars => DedupInv'
    BY DedupStep
  <1>3. DedupInv => DedupWindow
    BY DEF DedupInv
  <1> QED
    BY <1>1, <1>2, <1>3, TypeCorrect, PTL DEF Spec

-----------------------------------------------------------------------------
(* Every match has its incident *)

\* There is a recent incident with the fingerprint of rule r's match.
Reported(r, t) ==
    \E i \in DOMAIN incidentMap :
        /\ incidentMap[i].fp = fingerprint(Match(r, t), r, t)
        /\ \/ incidentMap[i].createdAt = evalNow
           \/ evalNow - incidentMap[i].createdAt < 2 * Rules[r].window

Backed(f) ==
    \E i \in DOMAIN incidentMap :
        incidentMap[i].fp = f /\ incidentMap[i].createdAt = dedupCache[f]

\* A step that keeps the incidents and the snapshot keeps what is reported.
LEMMA ReportedStays ==
    ASSUME \A i \in DOMAIN incidentMap : Kept(i),
           snapshot' = snapshot, keyOrder' = keyOrder, evalNow' = evalNow,
           NEW r \in RuleIDs, NEW t \in Tenants
    PROVE  Match(r, t)' = Match(r, t) /\ (Reported(r, t) => Reported(r, t)')
  <1>1. Match(r, t)' = Match(r, t)
    BY DEF Match
  <1> QED BY <1>1 DEF Reported, Kept

LEMMA BackedStays ==
    ASSUME \A i \in DOMAIN incidentMap : Kept(i), NEW f, dedupCache'[f] = dedupCache[f],
           Backed(f)
    PROVE  Backed(f)'
  BY DEF Backed, Kept

LEMMA MatchStep ==
    ASSUME TypeOK, MatchInv, [Next]_vars
    PROVE  MatchInv'
  <1>0. /\ evalPc # "rules" => evalRule = 1 /\ evalTenants = Tenants
        /\ \A f \in DOMAIN dedupCache : Backed(f)
        /\ \A r \in RuleIDs, t \in Tenants :
              Visited(r, t) /\ Match(r, t) # {} => Reported(r, t)
    BY DEF MatchInv, Backed, Reported
  <1>a. ASSUME (evalPc # "rules" => evalRule = 1 /\ evalTenants = Tenants)',
               \A f \in DOMAIN dedupCache' : Backed(f)',
               \A r \in RuleIDs, t \in Tenants :
                  Visited(r, t)' /\ Match(r, t)' # {} => Reported(r, t)'
        PROVE  MatchInv'
    BY <1>a DEF MatchInv, Backed, Reported
  <1>b. incidentMap' = incidentMap => \A i \in DOMAIN incidentMap : Kept(i)
    BY DEF Kept
  <1>c. ASSUME \A i \in DOMAIN incidentMap : Kept(i), dedupCache' = dedupCache
        PROVE  \A f \in DOMAIN dedupCache' : Backed(f)'
    BY <1>0, <1>c, BackedStays
  <1>d. ASSUME \A i \in DOMAIN incidentMap : Kept(i),
               snapshot' = snapshot, keyOrder' = keyOrder, evalNow' = evalNow,
               \A r \in RuleIDs, t \in Tenants : Visited(r, t)' => Visited(r, t)
        PROVE  \A r \in RuleIDs, t \in Tenants :
                  Visited(r, t)' /\ Match(r, t)' # {} => Reported(r, t)'
    BY <1>0, <1>d, ReportedStays
  <1>1. CASE EvalBegin \/ EvalDone \/ EvalStop
    <2>1. /\ incidentMap' = incidentMap /\ dedupCache' = dedupCache
          /\ evalPc # "rules" /\ evalRule' = evalRule /\ evalTenants' = evalTenants
          /\ \A r, t : ~Visited(r, t)'
      BY <1>1 DEF EvalBegin, EvalDone, EvalStop, otherVars, Visited
    <2> QED BY <1>0, <1>a, <1>b, <1>c, <2>1
  <1>2. CASE EvalSnapshot
    <2>1. /\ incidentMap' = incidentMap /\ dedupCache' = dedupCache
          /\ evalPc' = "rules" /\ evalRule' = 1 /\ evalTenants' = Tenants
      BY <1>0, <1>2 DEF EvalSnapshot
    <2>2. \A r \in RuleIDs, t \in Tenants : ~Visited(r, t)'
      BY <2>1, RuleFacts DEF Visited
    <2> QED BY <1>a, <1>b, <1>c, <2>1, <2>2
  <1>3. ASSUME NEW t \in Tenants, EvalRule(t)
        PROVE  MatchInv'
    <2>0. PICK r0 \in RuleIDs : r0 = evalRule
      BY DEF TypeOK
    <2> DEFINE fp == fingerprint(Match(r0, t), r0, t)
               n  == Len(incidentMap) + 1
    <2>1. /\ snapshot' = snapshot /\ keyOrder' = keyOrder
          /\ evalNow' = evalNow /\ evalPc = "rules"
          /\ evalRule \in RuleIDs /\ evalNow \in Nat
      BY <1>3 DEF EvalRule, TypeOK
    <2>2. (evalPc # "rules" => evalRule = 1 /\ evalTenants = Tenants)'
      BY <1>3, <2>1 DEF EvalRule
    <2>3. ASSUME NEW r \in RuleIDs, NEW u \in Tenants, Visited(r, u)'
          PROVE  Visited(r, u) \/ (r = r0 /\ u = t)
      <3>1. /\ r \in 1 .. Len(Rules) /\ evalRule \in 1 .. Len(Rules) /\ Len(Rules) \in Nat
        BY <2>1, RuleFacts
      <3>2. CASE evalTenants # {t}
        BY <1>3, <2>0, <2>1, <2>3, <3>1, <3>2 DEF EvalRule, Visited
      <3>3. CASE evalTenants = {t}
        <4>1. r < evalRule \/ r = evalRule
          BY <1>3, <2>1, <2>3, <3>1, <3>3 DEF EvalRule, Visited
        <4> QED BY <2>0, <2>1, <3>3, <4>1 DEF Visited
      <3> QED BY <3>2, <3>3
    <2>4. /\ \A i \in DOMAIN incidentMap : Kept(i)
          /\ \A f \in DOMAIN dedupCache' : Backed(f)'
          /\ Match(r0, t) # {} => Reported(r0, t)'
      <3>0. Match(r0, t)' = Match(r0, t)
        BY <2>1 DEF Match
      <3>1. CASE /\ Match(r0, t) = {} \/ Suppressed(fp, r0)
                 /\ UNCHANGED <<dedupCache, incidentMap>>
        <4>1. \A i \in DOMAIN incidentMap : Kept(i)
          BY <1>b, <3>1
        <4>2. Suppressed(fp, r0) => Reported(r0, t)
          <5> SUFFICES ASSUME Suppressed(fp, r0) PROVE Reported(r0, t)
            OBVIOUS
          <5>1. Backed(fp) /\ evalNow - dedupCache[fp] < 2 * Rules[r0].window
            BY <1>0 DEF Suppressed
          <5> QED BY <5>1 DEF Backed, Reported
        <4> QED BY <1>c, <2>1, <3>1, <4>1, <4>2, ReportedStays
      <3>2. CASE /\ dedupCache' = [f \in DOMAIN dedupCache \cup {fp} |->
                                     IF f = fp THEN evalNow ELSE dedupCache[f]]
                 /\ DOMAIN incidentMap' = DOMAIN incidentMap \cup {n}
                 /\ \A i \in DOMAIN incidentMap : incidentMap'[i] = incidentMap[i]
                 /\ incidentMap'[n].fp = fp
                 /\ incidentMap'[n].createdAt = evalNow
        <4>1. \A i \in DOMAIN incidentMap : Kept(i)
          BY <3>2 DEF Kept
        <4>2. Reported(r0, t)'
          <5>1. \E i \in DOMAIN incidentMap' :
                  incidentMap'[i].fp = fp /\ incidentMap'[i].createdAt = evalNow
            BY <3>2
          <5> QED BY <2>1, <3>0, <5>1 DEF Reported
        <4>3. ASSUME NEW f \in DOMAIN dedupCache' PROVE Backed(f)'
          <5>1. CASE f = fp
            BY <3>2, <5>1 DEF Backed
          <5>2. CASE f # fp
            BY <1>0, <3>2, <4>1, <5>2, BackedStays
          <5> QED BY <5>1, <5>2
        <4> QED BY <4>1, <4>2, <4>3
      <3> QED BY <1>3, <2>0, <3>1, <3>2, EvalRuleEffect
    <2>5. ASSUME NEW r \in RuleIDs, NEW u \in Tenants, Visited(r, u)', Match(r, u)' # {}
          PROVE  Reported(r, u)'
      BY <1>0, <2>1, <2>3, <2>4, <2>5, ReportedStays
    <2> QED BY <1>a, <2>2, <2>4, <2>5
  <1>4. CASE cleanDedupCache
    <2>1. /\ incidentMap' = incidentMap /\ snapshot' = snapshot
          /\ keyOrder' = keyOrder /\ evalNow' = evalNow
          /\ evalPc' = evalPc /\ evalRule' = evalRule /\ evalTenants' = evalTenants
      BY <1>4 DEF cleanDedupCache, evalVars
    <2>2. \A f \in DOMAIN dedupCache' : f \in DOMAIN dedupCache /\ dedupCache'[f] = dedupCache[f]
      BY <1>4 DEF cleanDedupCache
    <2>3. \A f \in DOMAIN dedupCache' : Backed(f)'
      BY <1>0, <1>b, <2>1, <2>2, BackedStays
    <2>4. \A r, t : Visited(r, t)' => Visited(r, t)
      BY <2>1 DEF Visited
    <2> QED BY <1>0, <1>a, <1>b, <1>d, <2>1, <2>3, <2>4
  <1>5. CASE Tick \/ Aside
    <2>1. /\ \A i \in DOMAIN incidentMap : Kept(i)
          /\ dedupCache' = dedupCache /\ snapshot' = snapshot
          /\ keyOrder' = keyOrder /\ evalNow' = evalNow
          /\ evalPc' = evalPc /\ evalRule' = evalRule /\ evalTenants' = evalTenants
      BY <1>b, <1>5 DEF Tick, Aside, evalVars
    <2>2. \A r, t : Visited(r, t)' => Visited(r, t)
      BY <2>1 DEF Visited
    <2> QED BY <1>0, <1>a, <1>c, <1>d, <2>1, <2>2
  <1> QED
    BY <1>1, <1>2, <1>3, <1>4, <1>5, StepKinds

\* evaluateRules loses no match: when the rules of an evaluation have been
\* gone through, every match has a new incident or a recent one.
THEOREM MatchesReported == Spec => []EveryMatchHasIncident
  <1>1. Init => MatchInv
    BY DEF Init, MatchInv, Visited
  <1>2. TypeOK /\ MatchInv /\ [Next]_vars => MatchInv'
    BY MatchStep
  <1>3. MatchInv => EveryMatchHasIncident
    BY DEF MatchInv, EveryMatchHasIncident, Visited
  <1> QED
    BY <1>1, <1>2, <1>3, TypeCorrect, PTL DEF Spec

-----------------------------------------------------------------------------
(* Triage *)

Triaged(i) == incidentMap[i].status # "new"

LEMMA TriageStep ==
    ASSUME TypeOK, [Next]_vars, NEW i \in DOMAIN incidentMap, Triaged(i)
    PROVE  incidentMap'[i].status # "new"
  <1>0. incidentMap[i] \in Incident
    BY SeqGet DEF TypeOK
  <1>1. CASE incidentMap' = incidentMap
    BY <1>1 DEF Triaged
  <1>2. ASSUME NEW t \in Tenants, EvalRule(t) PROVE incidentMap'[i].status # "new"
    BY <1>2, EvalRuleEffect DEF Triaged
  <1>3. ASSUME NEW w \in Workers, RecordAlert(w) PROVE incidentMap'[i].status # "new"
    <2>1. \/ incidentMap'[i] = incidentMap[i]
          \/ incidentMap'[i] = [incidentMap[i] EXCEPT !.thehive = disp[w].alert]
      BY <1>3 DEF RecordAlert
    <2> QED BY <1>0, <2>1 DEF Triaged, Incident
  <1>4. ASSUME NEW id \in DOMAIN incidentMap, NEW s \in PatchStatuses,
               UpdateIncidentStatus(id, s)
        PROVE  incidentMap'[i].status # "new"
    <2>1. \/ incidentMap'[i] = incidentMap[i]
          \/ incidentMap'[i] = [incidentMap[i] EXCEPT !.status = s]
      BY <1>4 DEF UpdateIncidentStatus
    <2>2. s # "new"
      BY <1>4 DEF UpdateIncidentStatus
    <2> QED BY <1>0, <2>1, <2>2 DEF Triaged, Incident
  <1>5. ASSUME NEW w \in Workers, DispatchStep(w) PROVE incidentMap'[i].status # "new"
    BY <1>1, <1>3, <1>5 DEF DispatchStep, CreateAlert, PromoteAlert, Shuffle
  <1>6. CASE Evaluator
    BY <1>1, <1>2, <1>6 DEF Evaluator, EvalBegin, EvalSnapshot, EvalSend, EvalDone,
                            EvalStop, otherVars
  <1>7. CASE Dispatcher
    BY <1>1, <1>5, <1>7 DEF Dispatcher, Dequeue, DispatcherStop, otherVars, Workers
  <1>8. CASE \/ \E m \in Messages, lag \in Lags : processEvent(m, lag)
             \/ \E t \in Tenants : IngestFalcoAlert(t)
    BY <1>1, <1>8 DEF processEvent, IngestFalcoAlert, Ingest
  <1>9. CASE \E w \in Requests, id \in DOMAIN incidentMap : DispatchByID(w, id)
    BY <1>1, <1>9 DEF DispatchByID
  <1>10. CASE \/ cleanDedupCache \/ pruneBuffer \/ Tick \/ Cancel \/ StartReturns
              \/ MainExits \/ Exited \/ UNCHANGED vars
    BY <1>1, <1>10 DEF cleanDedupCache, pruneBuffer, Tick, Cancel, StartReturns,
                       MainExits, Exited, vars, otherVars
  <1> QED
    BY <1>4, <1>5, <1>6, <1>7, <1>8, <1>9, <1>10 DEF Next, Workers

\* No step of any goroutine makes a triaged incident "new" again.
THEOREM TriageKept == Spec => TriageNotReset
  <1>1. TypeOK /\ [Next]_vars =>
          [\A i \in DOMAIN incidentMap :
             incidentMap[i].status # "new" => incidentMap'[i].status # "new"]_vars
    BY TriageStep DEF Triaged
  <1> QED
    BY <1>1, TypeCorrect, PTL DEF Spec, TriageNotReset

=============================================================================
