-------------------------- MODULE EventIngestProofs --------------------------
(***************************************************************************)
(* Theorems about EventIngest, for every set of messages, posts, streams,  *)
(* requests and handlers and for every capacity.                           *)
(***************************************************************************)
EXTENDS EventIngest, FiniteSetTheorems, SequenceTheorems, TLAPS

-----------------------------------------------------------------------------
(* Parsers *)

\* The third and fourth segments of a subject tell the patterns apart.
LEMMA MatchSegments ==
    ASSUME NEW subject, NEW p \in allSubjects, matchesSubject(subject, p)
    PROVE  Len(subject) = 5 /\ subject[3] = p[3] /\ subject[4] = p[4]
  BY DEF matchesSubject, allSubjects, SubjProcessEvent, SubjFimEvent, SubjNetworkEvent,
         SubjNetworkAlert, SubjThresholdAlert, SubjWazuhAlert, SubjFalcoAlert, SubjSuricataAlert

LEMMA OneSubject ==
    ASSUME NEW subject, NEW p \in allSubjects, NEW q \in allSubjects,
           matchesSubject(subject, p), matchesSubject(subject, q)
    PROVE  p = q
  <1>1. p[3] = q[3] /\ p[4] = q[4]
    BY MatchSegments
  <1> QED
    BY <1>1 DEF allSubjects, SubjProcessEvent, SubjFimEvent, SubjNetworkEvent,
         SubjNetworkAlert, SubjThresholdAlert, SubjWazuhAlert, SubjFalcoAlert, SubjSuricataAlert

LEMMA Subjects ==
    /\ SubjProcessEvent \in allSubjects /\ SubjFimEvent \in allSubjects
    /\ SubjNetworkEvent \in allSubjects /\ SubjNetworkAlert \in allSubjects
    /\ SubjThresholdAlert \in allSubjects /\ SubjWazuhAlert \in allSubjects
    /\ SubjFalcoAlert \in allSubjects /\ SubjSuricataAlert \in allSubjects
    /\ \A p \in allSubjects :
          \/ p = SubjProcessEvent \/ p = SubjFimEvent \/ p = SubjNetworkEvent
          \/ p = SubjNetworkAlert \/ p = SubjThresholdAlert \/ p = SubjWazuhAlert
          \/ p = SubjFalcoAlert \/ p = SubjSuricataAlert
  BY DEF allSubjects

\* The first arm of parseEvent that matches is the only one.
LEMMA SubjectsDiffer ==
    /\ SubjProcessEvent # SubjFimEvent /\ SubjProcessEvent # SubjNetworkEvent
    /\ SubjProcessEvent # SubjNetworkAlert /\ SubjProcessEvent # SubjThresholdAlert
    /\ SubjProcessEvent # SubjWazuhAlert /\ SubjProcessEvent # SubjFalcoAlert
    /\ SubjProcessEvent # SubjSuricataAlert /\ SubjFimEvent # SubjNetworkEvent
    /\ SubjFimEvent # SubjNetworkAlert /\ SubjFimEvent # SubjThresholdAlert
    /\ SubjFimEvent # SubjWazuhAlert /\ SubjFimEvent # SubjFalcoAlert
    /\ SubjFimEvent # SubjSuricataAlert /\ SubjNetworkEvent # SubjNetworkAlert
    /\ SubjNetworkEvent # SubjThresholdAlert /\ SubjNetworkEvent # SubjWazuhAlert
    /\ SubjNetworkEvent # SubjFalcoAlert /\ SubjNetworkEvent # SubjSuricataAlert
    /\ SubjNetworkAlert # SubjThresholdAlert /\ SubjNetworkAlert # SubjWazuhAlert
    /\ SubjNetworkAlert # SubjFalcoAlert /\ SubjNetworkAlert # SubjSuricataAlert
    /\ SubjThresholdAlert # SubjWazuhAlert /\ SubjThresholdAlert # SubjFalcoAlert
    /\ SubjThresholdAlert # SubjSuricataAlert /\ SubjWazuhAlert # SubjFalcoAlert
    /\ SubjWazuhAlert # SubjSuricataAlert /\ SubjFalcoAlert # SubjSuricataAlert
  BY DEF SubjProcessEvent, SubjFimEvent, SubjNetworkEvent, SubjNetworkAlert,
         SubjThresholdAlert, SubjWazuhAlert, SubjFalcoAlert, SubjSuricataAlert

\* What parseEvent returns, by subject.
LEMMA ParserOf ==
    ASSUME NEW msg, NEW now
    PROVE  LET tenant == extractTenantID(msg.subject)
               Is(pattern) == matchesSubject(msg.subject, pattern)
               ev == parseEvent(msg, now)
           IN
           /\ Is(SubjProcessEvent) => ev = parseProcessEvent(tenant, msg.data, now)
           /\ Is(SubjFimEvent) => ev = parseFimEvent(tenant, msg.data, now)
           /\ Is(SubjNetworkEvent) => ev = parseNetworkEvent(tenant, msg.data, now)
           /\ Is(SubjNetworkAlert) => ev = parseNetworkAlertEvent(tenant, msg.data, now)
           /\ Is(SubjThresholdAlert) => ev = parseThresholdAlert(tenant, msg.data, now)
           /\ Is(SubjWazuhAlert) => ev = parseWazuhAlert(tenant, msg.data, now)
           /\ Is(SubjFalcoAlert) => ev = parseFalcoAlert(tenant, msg.data, now)
           /\ Is(SubjSuricataAlert) => ev = parseSuricataAlert(tenant, msg.data, now)
  <1> DEFINE Is(p) == matchesSubject(msg.subject, p)
  <1>1. \A p, q \in allSubjects : Is(p) /\ Is(q) => p = q
    BY OneSubject
  <1> HIDE DEF Is
  <1>2. ASSUME Is(SubjProcessEvent)
        PROVE  parseEvent(msg, now) = parseProcessEvent(extractTenantID(msg.subject), msg.data, now)
    <2>1. ~Is(SubjFimEvent) /\ ~Is(SubjNetworkEvent) 
          /\ ~Is(SubjNetworkAlert) /\ ~Is(SubjThresholdAlert)
      BY <1>1, <1>2, Subjects, SubjectsDiffer
    <2>2. ~Is(SubjWazuhAlert) /\ ~Is(SubjFalcoAlert) /\ ~Is(SubjSuricataAlert)
      BY <1>1, <1>2, Subjects, SubjectsDiffer
    <2> USE DEF Is
    <2> QED BY <1>2, <2>1, <2>2 DEF parseEvent
  <1>3. ASSUME Is(SubjFimEvent)
        PROVE  parseEvent(msg, now) = parseFimEvent(extractTenantID(msg.subject), msg.data, now)
    <2>1. ~Is(SubjProcessEvent) /\ ~Is(SubjNetworkEvent) 
          /\ ~Is(SubjNetworkAlert) /\ ~Is(SubjThresholdAlert)
      BY <1>1, <1>3, Subjects, SubjectsDiffer
    <2>2. ~Is(SubjWazuhAlert) /\ ~Is(SubjFalcoAlert) /\ ~Is(SubjSuricataAlert)
      BY <1>1, <1>3, Subjects, SubjectsDiffer
    <2> USE DEF Is
    <2> QED BY <1>3, <2>1, <2>2 DEF parseEvent
  <1>4. ASSUME Is(SubjNetworkEvent)
        PROVE  parseEvent(msg, now) = parseNetworkEvent(extractTenantID(msg.subject), msg.data, now)
    <2>1. ~Is(SubjProcessEvent) /\ ~Is(SubjFimEvent) 
          /\ ~Is(SubjNetworkAlert) /\ ~Is(SubjThresholdAlert)
      BY <1>1, <1>4, Subjects, SubjectsDiffer
    <2>2. ~Is(SubjWazuhAlert) /\ ~Is(SubjFalcoAlert) /\ ~Is(SubjSuricataAlert)
      BY <1>1, <1>4, Subjects, SubjectsDiffer
    <2> USE DEF Is
    <2> QED BY <1>4, <2>1, <2>2 DEF parseEvent
  <1>5. ASSUME Is(SubjNetworkAlert)
        PROVE  parseEvent(msg, now) = parseNetworkAlertEvent(extractTenantID(msg.subject), msg.data, now)
    <2>1. ~Is(SubjProcessEvent) /\ ~Is(SubjFimEvent) 
          /\ ~Is(SubjNetworkEvent) /\ ~Is(SubjThresholdAlert)
      BY <1>1, <1>5, Subjects, SubjectsDiffer
    <2>2. ~Is(SubjWazuhAlert) /\ ~Is(SubjFalcoAlert) /\ ~Is(SubjSuricataAlert)
      BY <1>1, <1>5, Subjects, SubjectsDiffer
    <2> USE DEF Is
    <2> QED BY <1>5, <2>1, <2>2 DEF parseEvent
  <1>6. ASSUME Is(SubjThresholdAlert)
        PROVE  parseEvent(msg, now) = parseThresholdAlert(extractTenantID(msg.subject), msg.data, now)
    <2>1. ~Is(SubjProcessEvent) /\ ~Is(SubjFimEvent) 
          /\ ~Is(SubjNetworkEvent) /\ ~Is(SubjNetworkAlert)
      BY <1>1, <1>6, Subjects, SubjectsDiffer
    <2>2. ~Is(SubjWazuhAlert) /\ ~Is(SubjFalcoAlert) /\ ~Is(SubjSuricataAlert)
      BY <1>1, <1>6, Subjects, SubjectsDiffer
    <2> USE DEF Is
    <2> QED BY <1>6, <2>1, <2>2 DEF parseEvent
  <1>7. ASSUME Is(SubjWazuhAlert)
        PROVE  parseEvent(msg, now) = parseWazuhAlert(extractTenantID(msg.subject), msg.data, now)
    <2>1. ~Is(SubjProcessEvent) /\ ~Is(SubjFimEvent) 
          /\ ~Is(SubjNetworkEvent) /\ ~Is(SubjNetworkAlert)
      BY <1>1, <1>7, Subjects, SubjectsDiffer
    <2>2. ~Is(SubjThresholdAlert) /\ ~Is(SubjFalcoAlert) /\ ~Is(SubjSuricataAlert)
      BY <1>1, <1>7, Subjects, SubjectsDiffer
    <2> USE DEF Is
    <2> QED BY <1>7, <2>1, <2>2 DEF parseEvent
  <1>8. ASSUME Is(SubjFalcoAlert)
        PROVE  parseEvent(msg, now) = parseFalcoAlert(extractTenantID(msg.subject), msg.data, now)
    <2>1. ~Is(SubjProcessEvent) /\ ~Is(SubjFimEvent) 
          /\ ~Is(SubjNetworkEvent) /\ ~Is(SubjNetworkAlert)
      BY <1>1, <1>8, Subjects, SubjectsDiffer
    <2>2. ~Is(SubjThresholdAlert) /\ ~Is(SubjWazuhAlert) /\ ~Is(SubjSuricataAlert)
      BY <1>1, <1>8, Subjects, SubjectsDiffer
    <2> USE DEF Is
    <2> QED BY <1>8, <2>1, <2>2 DEF parseEvent
  <1>9. ASSUME Is(SubjSuricataAlert)
        PROVE  parseEvent(msg, now) = parseSuricataAlert(extractTenantID(msg.subject), msg.data, now)
    <2>1. ~Is(SubjProcessEvent) /\ ~Is(SubjFimEvent) 
          /\ ~Is(SubjNetworkEvent) /\ ~Is(SubjNetworkAlert)
      BY <1>1, <1>9, Subjects, SubjectsDiffer
    <2>2. ~Is(SubjThresholdAlert) /\ ~Is(SubjWazuhAlert) /\ ~Is(SubjFalcoAlert)
      BY <1>1, <1>9, Subjects, SubjectsDiffer
    <2> USE DEF Is
    <2> QED BY <1>9, <2>1, <2>2 DEF parseEvent
  <1> USE DEF Is
  <1> QED BY <1>2, <1>3, <1>4, <1>5, <1>6, <1>7, <1>8, <1>9

LEMMA TimeFacts ==
    ASSUME NEW now \in Nat, NEW ts \in Int
    PROVE  /\ parseTimestamp(0, ts, now) \in Int
           /\ ts \in Nat \cup {Garbled} => OrNow(parseTimestamp(ts, 0, now), now) \in Int
  BY OctetsAssumption DEF parseTimestamp, OrNow, Garbled

LEMMA IdFacts ==
    ASSUME NEW id, NEW now, NEW flow, NEW ts
    PROVE  OrUuid(id, now) # <<"">> /\ <<"suricata", flow, ts>> # <<"">>
  <1>1. Len(<<"">>) = 1 /\ Len(<<"uuid", now>>) = 2 /\ Len(<<"suricata", flow, ts>>) = 3
    OBVIOUS
  <1>2. CASE id = ""
    <2>1. OrUuid(id, now) = <<"uuid", now>>
      BY <1>2 DEF OrUuid
    <2> QED BY <1>1, <2>1
  <1>3. CASE id # ""
    <2>1. OrUuid(id, now) = <<id>> /\ <<id>>[1] = id /\ <<"">>[1] = ""
      BY <1>3 DEF OrUuid
    <2> QED BY <1>1, <1>3, <2>1
  <1> QED BY <1>2, <1>3

LEMMA SeverityFacts ==
    /\ \A s : parseSeverityString(s) \in 1 .. 5
    /\ \A l \in Int : wazuhLevelToSeverity(l) \in 1 .. 5
    /\ \A p : falcoPriorityToSeverity(p) \in 1 .. 5
    /\ \A s : suricataSeverityToKubric(s) \in 1 .. 5
  BY DEF parseSeverityString, wazuhLevelToSeverity, falcoPriorityToSeverity,
         suricataSeverityToKubric

EventTypes == {"process", "fim", "network", "alert"}

\* What the engine uses of every event.
SoundEvent(ev, tenant) ==
    /\ ev.tenant = tenant /\ ev.type \in EventTypes
    /\ ev.time \in Int /\ ev.id # <<"">>
    /\ ev.source \in {"netguard", "wazuh", "falco", "suricata"} \/ ev.type = "fim"
          => ev.severity \in 1 .. 5

\* What the comparison of severities and addresses uses of an event with
\* payload raw.
Faithful(ev, raw) ==
    \/ ev.source = "coresec" /\ ev.type \in {"process", "alert"}
    \/ /\ ev.source = "coresec" /\ ev.type = "fim"
       /\ ev.severity = parseSeverityString(raw.severity)
    \/ /\ ev.source = "netguard" /\ ev.type = "network"
       /\ ev.indicators = Public(raw.dst)
    \/ /\ ev.source = "netguard" /\ ev.type = "alert"
       /\ ev.severity = parseSeverityString(raw.severity)
       /\ ev.indicators = Public(raw.src) \o Public(raw.dst)
    \/ /\ ev.source = "wazuh" /\ ev.type = "alert"
       /\ raw.level \in Int /\ ev.severity = wazuhLevelToSeverity(raw.level)
    \/ /\ ev.source = "falco" /\ ev.type = "alert"
       /\ ev.severity = falcoPriorityToSeverity(raw.priority)
    \/ /\ ev.source = "suricata" /\ ev.type = "alert"
       /\ ev.severity = suricataSeverityToKubric(raw.severity)
       /\ ev.indicators = Public(raw.src) \o Public(raw.dst) \o Present(raw.host)
                             \o SelectSeq(raw.queries, NonEmpty)
       /\ SelectSeq(raw.queries, NonEmpty) \in Seq(Range(raw.queries))

LEMMA NormalizedFacts ==
    ASSUME NEW source, NEW type, NEW id, NEW severity, NEW ts, NEW tenant, NEW raw, NEW ind
    PROVE  LET ev == NormalizedEvent(source, type, id, severity, ts, tenant, raw, ind)
               Same(w) == /\ w.source = source /\ w.type = type /\ w.id = id
                          /\ w.severity = severity /\ w.time = ts /\ w.tenant = tenant
                          /\ w.indicators = ind
           IN  /\ Same(ev)
               /\ \A f : Same([ev EXCEPT !.fingerprint = f])
               /\ \A f, g : Same([ev EXCEPT !.tactic = f, !.technique = g])
  BY DEF NormalizedEvent

\* Each parser, given times that can be read.
LEMMA ProcessEvent ==
    ASSUME NEW tenant, NEW raw, NEW now,
           OrNow(parseTimestamp(raw.ts, 0, now), now) \in Int
    PROVE  /\ SoundEvent(parseProcessEvent(tenant, raw, now), tenant)
           /\ Faithful(parseProcessEvent(tenant, raw, now), raw)
  <1> DEFINE rfc == OrNow(parseTimestamp(raw.ts, 0, now), now)
             id == OrUuid(raw.id, now)
             sev == raw.severity
             ind == Present(raw.hash)
             ev == parseProcessEvent(tenant, raw, now)
  <1>1. ev = [NormalizedEvent("coresec", "process", id, sev, rfc, tenant, raw, ind)
             EXCEPT !.fingerprint = Present(raw.hash)]
    BY DEF parseProcessEvent
  <1>2. id # <<"">> /\ rfc \in Int
    BY IdFacts
  <1> HIDE DEF id, rfc, sev, ind, ev
  <1>4. /\ ev.source = "coresec" /\ ev.type = "process" /\ ev.id = id /\ ev.severity = sev
        /\ ev.time = rfc /\ ev.tenant = tenant /\ ev.indicators = ind
    BY <1>1, NormalizedFacts
  <1>5. SoundEvent(ev, tenant)
    BY <1>2, <1>4 DEF SoundEvent, EventTypes
  <1>6. Faithful(ev, raw)
    BY <1>4 DEF Faithful, sev, ind
  <1> QED BY <1>5, <1>6 DEF ev

LEMMA FimEvent ==
    ASSUME NEW tenant, NEW raw, NEW now,
           parseTimestamp(0, raw.ts, now) \in Int
    PROVE  /\ SoundEvent(parseFimEvent(tenant, raw, now), tenant)
           /\ Faithful(parseFimEvent(tenant, raw, now), raw)
  <1> DEFINE ms == parseTimestamp(0, raw.ts, now)
             id == OrUuid(raw.id, now)
             sev == parseSeverityString(raw.severity)
             ind == Present(raw.hash)
             ev == parseFimEvent(tenant, raw, now)
  <1>1. ev = [NormalizedEvent("coresec", "fim", id, sev, ms, tenant, raw, ind)
             EXCEPT !.fingerprint = Present(raw.hash)]
    BY DEF parseFimEvent
  <1>2. id # <<"">> /\ ms \in Int
    BY IdFacts
  <1>3. sev \in 1 .. 5
    BY SeverityFacts
  <1> HIDE DEF id, ms, sev, ind, ev
  <1>4. /\ ev.source = "coresec" /\ ev.type = "fim" /\ ev.id = id /\ ev.severity = sev
        /\ ev.time = ms /\ ev.tenant = tenant /\ ev.indicators = ind
    BY <1>1, NormalizedFacts
  <1>5. SoundEvent(ev, tenant)
    BY <1>2, <1>3, <1>4 DEF SoundEvent, EventTypes
  <1>6. Faithful(ev, raw)
    BY <1>4 DEF Faithful, sev, ind
  <1> QED BY <1>5, <1>6 DEF ev

LEMMA NetworkEvent ==
    ASSUME NEW tenant, NEW raw, NEW now,
           parseTimestamp(0, raw.ts, now) \in Int
    PROVE  /\ SoundEvent(parseNetworkEvent(tenant, raw, now), tenant)
           /\ Faithful(parseNetworkEvent(tenant, raw, now), raw)
  <1> DEFINE ms == parseTimestamp(0, raw.ts, now)
             id == OrUuid(raw.id, now)
             sev == 1
             ind == Public(raw.dst)
             ev == parseNetworkEvent(tenant, raw, now)
  <1>1. ev = NormalizedEvent("netguard", "network", id, sev, ms, tenant, raw, ind)
    BY DEF parseNetworkEvent
  <1>2. id # <<"">> /\ ms \in Int
    BY IdFacts
  <1>3. sev \in 1 .. 5
    BY SeverityFacts
  <1> HIDE DEF id, ms, sev, ind, ev
  <1>4. /\ ev.source = "netguard" /\ ev.type = "network" /\ ev.id = id /\ ev.severity = sev
        /\ ev.time = ms /\ ev.tenant = tenant /\ ev.indicators = ind
    BY <1>1, NormalizedFacts
  <1>5. SoundEvent(ev, tenant)
    BY <1>2, <1>3, <1>4 DEF SoundEvent, EventTypes
  <1>6. Faithful(ev, raw)
    BY <1>4 DEF Faithful, sev, ind
  <1> QED BY <1>5, <1>6 DEF ev

LEMMA NetworkAlertEvent ==
    ASSUME NEW tenant, NEW raw, NEW now,
           parseTimestamp(0, raw.ts, now) \in Int
    PROVE  /\ SoundEvent(parseNetworkAlertEvent(tenant, raw, now), tenant)
           /\ Faithful(parseNetworkAlertEvent(tenant, raw, now), raw)
  <1> DEFINE ms == parseTimestamp(0, raw.ts, now)
             id == OrUuid(raw.id, now)
             sev == parseSeverityString(raw.severity)
             ind == Public(raw.src) \o Public(raw.dst)
             ev == parseNetworkAlertEvent(tenant, raw, now)
  <1>1. ev = NormalizedEvent("netguard", "alert", id, sev, ms, tenant, raw, ind)
    BY DEF parseNetworkAlertEvent
  <1>2. id # <<"">> /\ ms \in Int
    BY IdFacts
  <1>3. sev \in 1 .. 5
    BY SeverityFacts
  <1> HIDE DEF id, ms, sev, ind, ev
  <1>4. /\ ev.source = "netguard" /\ ev.type = "alert" /\ ev.id = id /\ ev.severity = sev
        /\ ev.time = ms /\ ev.tenant = tenant /\ ev.indicators = ind
    BY <1>1, NormalizedFacts
  <1>5. SoundEvent(ev, tenant)
    BY <1>2, <1>3, <1>4 DEF SoundEvent, EventTypes
  <1>6. Faithful(ev, raw)
    BY <1>4 DEF Faithful, sev, ind
  <1> QED BY <1>5, <1>6 DEF ev

LEMMA ThresholdEvent ==
    ASSUME NEW tenant, NEW raw, NEW now,
           OrNow(parseTimestamp(raw.ts, 0, now), now) \in Int
    PROVE  /\ SoundEvent(parseThresholdAlert(tenant, raw, now), tenant)
           /\ Faithful(parseThresholdAlert(tenant, raw, now), raw)
  <1> DEFINE rfc == OrNow(parseTimestamp(raw.ts, 0, now), now)
             id == OrUuid(raw.id, now)
             sev == raw.severity
             ind == <<>>
             ev == parseThresholdAlert(tenant, raw, now)
  <1>1. ev = NormalizedEvent("coresec", "alert", id, sev, rfc, tenant, raw, ind)
    BY DEF parseThresholdAlert
  <1>2. id # <<"">> /\ rfc \in Int
    BY IdFacts
  <1> HIDE DEF id, rfc, sev, ind, ev
  <1>4. /\ ev.source = "coresec" /\ ev.type = "alert" /\ ev.id = id /\ ev.severity = sev
        /\ ev.time = rfc /\ ev.tenant = tenant /\ ev.indicators = ind
    BY <1>1, NormalizedFacts
  <1>5. SoundEvent(ev, tenant)
    BY <1>2, <1>4 DEF SoundEvent, EventTypes
  <1>6. Faithful(ev, raw)
    BY <1>4 DEF Faithful, sev, ind
  <1> QED BY <1>5, <1>6 DEF ev

LEMMA WazuhEvent ==
    ASSUME NEW tenant, NEW raw, NEW now,
           raw.level \in Int,
           OrNow(parseTimestamp(raw.ts, 0, now), now) \in Int
    PROVE  /\ SoundEvent(parseWazuhAlert(tenant, raw, now), tenant)
           /\ Faithful(parseWazuhAlert(tenant, raw, now), raw)
  <1> DEFINE rfc == OrNow(parseTimestamp(raw.ts, 0, now), now)
             id == OrUuid(raw.id, now)
             sev == wazuhLevelToSeverity(raw.level)
             ind == Present(raw.ip)
             ev == parseWazuhAlert(tenant, raw, now)
  <1>1. ev = [NormalizedEvent("wazuh", "alert", id, sev, rfc, tenant, raw, ind)
             EXCEPT !.tactic = First(raw.tactics), !.technique = First(raw.techniques)]
    BY DEF parseWazuhAlert
  <1>2. id # <<"">> /\ rfc \in Int
    BY IdFacts
  <1>3. sev \in 1 .. 5
    BY SeverityFacts
  <1> HIDE DEF id, rfc, sev, ind, ev
  <1>4. /\ ev.source = "wazuh" /\ ev.type = "alert" /\ ev.id = id /\ ev.severity = sev
        /\ ev.time = rfc /\ ev.tenant = tenant /\ ev.indicators = ind
    BY <1>1, NormalizedFacts
  <1>5. SoundEvent(ev, tenant)
    BY <1>2, <1>3, <1>4 DEF SoundEvent, EventTypes
  <1>6. Faithful(ev, raw)
    BY <1>4 DEF Faithful, sev, ind
  <1> QED BY <1>5, <1>6 DEF ev

LEMMA FalcoEvent ==
    ASSUME NEW tenant, NEW raw, NEW now,
           OrNow(parseTimestamp(raw.ts, 0, now), now) \in Int
    PROVE  /\ SoundEvent(parseFalcoAlert(tenant, raw, now), tenant)
           /\ Faithful(parseFalcoAlert(tenant, raw, now), raw)
  <1> DEFINE rfc == OrNow(parseTimestamp(raw.ts, 0, now), now)
             id == OrUuid(raw.id, now)
             sev == falcoPriorityToSeverity(raw.priority)
             ind == <<>>
             ev == parseFalcoAlert(tenant, raw, now)
  <1>1. ev = NormalizedEvent("falco", "alert", id, sev, rfc, tenant, raw, ind)
    BY DEF parseFalcoAlert
  <1>2. id # <<"">> /\ rfc \in Int
    BY IdFacts
  <1>3. sev \in 1 .. 5
    BY SeverityFacts
  <1> HIDE DEF id, rfc, sev, ind, ev
  <1>4. /\ ev.source = "falco" /\ ev.type = "alert" /\ ev.id = id /\ ev.severity = sev
        /\ ev.time = rfc /\ ev.tenant = tenant /\ ev.indicators = ind
    BY <1>1, NormalizedFacts
  <1>5. SoundEvent(ev, tenant)
    BY <1>2, <1>3, <1>4 DEF SoundEvent, EventTypes
  <1>6. Faithful(ev, raw)
    BY <1>4 DEF Faithful, sev, ind
  <1> QED BY <1>5, <1>6 DEF ev

LEMMA SuricataEvent ==
    ASSUME NEW tenant, NEW raw, NEW now,
           SelectSeq(raw.queries, NonEmpty) \in Seq(Range(raw.queries)),
           OrNow(parseTimestamp(raw.ts, 0, now), now) \in Int
    PROVE  /\ SoundEvent(parseSuricataAlert(tenant, raw, now), tenant)
           /\ Faithful(parseSuricataAlert(tenant, raw, now), raw)
  <1> DEFINE rfc == OrNow(parseTimestamp(raw.ts, 0, now), now)
             id == <<"suricata", raw.flow, rfc>>
             sev == suricataSeverityToKubric(raw.severity)
             ind == Public(raw.src) \o Public(raw.dst) \o Present(raw.host)
                       \o SelectSeq(raw.queries, NonEmpty)
             ev == parseSuricataAlert(tenant, raw, now)
  <1>1. ev = NormalizedEvent("suricata", "alert", id, sev, rfc, tenant, raw, ind)
    BY DEF parseSuricataAlert
  <1>2. id # <<"">> /\ rfc \in Int
    BY IdFacts
  <1>3. sev \in 1 .. 5
    BY SeverityFacts
  <1> HIDE DEF id, rfc, sev, ind, ev
  <1>4. /\ ev.source = "suricata" /\ ev.type = "alert" /\ ev.id = id /\ ev.severity = sev
        /\ ev.time = rfc /\ ev.tenant = tenant /\ ev.indicators = ind
    BY <1>1, NormalizedFacts
  <1>5. SoundEvent(ev, tenant)
    BY <1>2, <1>3, <1>4 DEF SoundEvent, EventTypes
  <1>6. Faithful(ev, raw)
    BY <1>4 DEF Faithful, sev, ind
  <1> QED BY <1>5, <1>6 DEF ev

LEMMA EventFacts ==
    ASSUME NEW m \in Messages, Parses(m), NEW now \in Nat
    PROVE  /\ SoundEvent(parseEvent(m, now), extractTenantID(m.subject))
           /\ Faithful(parseEvent(m, now), m.data)
           /\ extractTenantID(m.subject) \in Tenants
  <1> DEFINE Is(p) == matchesSubject(m.subject, p)
             raw == m.data
  <1>0. /\ \A p, q \in allSubjects : Is(p) /\ Is(q) => p = q
        /\ extractTenantID(m.subject) \in Tenants /\ raw.ts \in Int
    BY OneSubject, MessagesAssumption
  <1>1. parseTimestamp(0, raw.ts, now) \in Int
    BY <1>0, TimeFacts
  <1>2. \/ Is(SubjFimEvent) \/ Is(SubjNetworkEvent) \/ Is(SubjNetworkAlert)
        \/ OrNow(parseTimestamp(raw.ts, 0, now), now) \in Int
    BY MessagesAssumption, TimeFacts, <1>0
  <1>3. Is(SubjWazuhAlert) => raw.level \in Int
    BY MessagesAssumption
  <1>4. Is(SubjSuricataAlert) =>
            SelectSeq(raw.queries, NonEmpty) \in Seq(Range(raw.queries))
    BY MessagesAssumption
  <1>5. PICK p \in allSubjects : Is(p)
    BY DEF Parses
  <1>6. \A f \in {SubjFimEvent, SubjNetworkEvent, SubjNetworkAlert} : p # f => ~Is(f)
    BY <1>0, <1>5, Subjects
  <1>10. CASE p = SubjProcessEvent
    <2>1. parseEvent(m, now) = parseProcessEvent(extractTenantID(m.subject), m.data, now)
      BY <1>10, <1>5, ParserOf
    <2>2. OrNow(parseTimestamp(raw.ts, 0, now), now) \in Int
      BY <1>10, <1>2, <1>6, SubjectsDiffer
    <2> QED BY <1>0, <1>10, <1>3, <1>4, <1>5, <2>1, <2>2, ProcessEvent
  <1>11. CASE p = SubjFimEvent
    <2>1. parseEvent(m, now) = parseFimEvent(extractTenantID(m.subject), m.data, now)
      BY <1>11, <1>5, ParserOf
    <2> QED BY <1>0, <1>1, <2>1, FimEvent
  <1>12. CASE p = SubjNetworkEvent
    <2>1. parseEvent(m, now) = parseNetworkEvent(extractTenantID(m.subject), m.data, now)
      BY <1>12, <1>5, ParserOf
    <2> QED BY <1>0, <1>1, <2>1, NetworkEvent
  <1>13. CASE p = SubjNetworkAlert
    <2>1. parseEvent(m, now) = parseNetworkAlertEvent(extractTenantID(m.subject), m.data, now)
      BY <1>13, <1>5, ParserOf
    <2> QED BY <1>0, <1>1, <2>1, NetworkAlertEvent
  <1>14. CASE p = SubjThresholdAlert
    <2>1. parseEvent(m, now) = parseThresholdAlert(extractTenantID(m.subject), m.data, now)
      BY <1>14, <1>5, ParserOf
    <2>2. OrNow(parseTimestamp(raw.ts, 0, now), now) \in Int
      BY <1>14, <1>2, <1>6, SubjectsDiffer
    <2> QED BY <1>0, <1>14, <1>3, <1>4, <1>5, <2>1, <2>2, ThresholdEvent
  <1>15. CASE p = SubjWazuhAlert
    <2>1. parseEvent(m, now) = parseWazuhAlert(extractTenantID(m.subject), m.data, now)
      BY <1>15, <1>5, ParserOf
    <2>2. OrNow(parseTimestamp(raw.ts, 0, now), now) \in Int
      BY <1>15, <1>2, <1>6, SubjectsDiffer
    <2> QED BY <1>0, <1>15, <1>3, <1>4, <1>5, <2>1, <2>2, WazuhEvent
  <1>16. CASE p = SubjFalcoAlert
    <2>1. parseEvent(m, now) = parseFalcoAlert(extractTenantID(m.subject), m.data, now)
      BY <1>16, <1>5, ParserOf
    <2>2. OrNow(parseTimestamp(raw.ts, 0, now), now) \in Int
      BY <1>16, <1>2, <1>6, SubjectsDiffer
    <2> QED BY <1>0, <1>16, <1>3, <1>4, <1>5, <2>1, <2>2, FalcoEvent
  <1>17. CASE p = SubjSuricataAlert
    <2>1. parseEvent(m, now) = parseSuricataAlert(extractTenantID(m.subject), m.data, now)
      BY <1>17, <1>5, ParserOf
    <2>2. OrNow(parseTimestamp(raw.ts, 0, now), now) \in Int
      BY <1>17, <1>2, <1>6, SubjectsDiffer
    <2> QED BY <1>0, <1>17, <1>3, <1>4, <1>5, <2>1, <2>2, SuricataEvent
  <1> QED BY Subjects, <1>10, <1>11, <1>12, <1>13, <1>14, <1>15, <1>16, <1>17

LEMMA WebhookEvent ==
    ASSUME NEW alert, NEW now \in Nat
    PROVE  /\ SoundEvent(FalcoWebhookEvent(alert, now), alert.host)
           /\ Faithful(FalcoWebhookEvent(alert, now), alert)
  <1> DEFINE id == <<"uuid", now>>
             sev == falcoPriorityToSeverity(alert.priority)
             ev == FalcoWebhookEvent(alert, now)
  <1>1. ev = [NormalizedEvent("falco", "alert", id, sev, now, alert.host,
                              [agent |-> alert.host], <<>>)
              EXCEPT !.fingerprint = <<alert.rule, alert.host>>]
    BY DEF FalcoWebhookEvent
  <1>2. id # <<"">>
    <2>1. Len(id) = 2 /\ Len(<<"">>) = 1
      OBVIOUS
    <2> QED BY <2>1
  <1>3. sev \in 1 .. 5 /\ now \in Int
    BY SeverityFacts
  <1> HIDE DEF id, sev, ev
  <1>4. /\ ev.source = "falco" /\ ev.type = "alert" /\ ev.id = id /\ ev.severity = sev
        /\ ev.time = now /\ ev.tenant = alert.host
    BY <1>1, NormalizedFacts
  <1>5. SoundEvent(ev, alert.host)
    <2>1. ev.time \in Int /\ ev.id # <<"">> /\ ev.severity \in 1 .. 5
      BY <1>2, <1>3, <1>4
    <2> QED BY <1>4, <2>1 DEF SoundEvent, EventTypes
  <1>6. Faithful(ev, alert)
    BY <1>4 DEF Faithful, sev
  <1> QED BY <1>5, <1>6 DEF ev

-----------------------------------------------------------------------------
(* Scales and addresses *)

\* The place on a scale whose steps are disjoint.
LEMMA GradeIs ==
    ASSUME NEW x, NEW scale, NEW i \in DOMAIN scale, x \in scale[i],
           \A j \in DOMAIN scale : x \in scale[j] => j = i
    PROVE  Grade(x, scale) = i
  <1>1. (CHOOSE j \in DOMAIN scale : x \in scale[j]) = i
    OBVIOUS
  <1> QED BY <1>1 DEF Grade

LEMMA GradeNone ==
    ASSUME NEW x, NEW scale, \A j \in DOMAIN scale : x \notin scale[j]
    PROVE  Grade(x, scale) = 0
  BY DEF Grade

LEMMA SuricataScale ==
    ASSUME NEW x
    PROVE  LET g == Grade(x, <<{3}, {2}, {1}>>) IN
           g \in 0 .. 3 /\ (g # 0 => suricataSeverityToKubric(x) = g + 1)
  <1> DEFINE sc == <<{3}, {2}, {1}>>
             g == Grade(x, sc)
  <1>1. DOMAIN sc = {1, 2, 3} /\ sc[1] = {3} /\ sc[2] = {2} /\ sc[3] = {1}
    OBVIOUS
  <1> HIDE DEF sc
  <1>2. /\ x = 3 => g = 1
        /\ x = 2 => g = 2
        /\ x = 1 => g = 3
        /\ x \notin {1, 2, 3} => g = 0
    BY <1>1, GradeIs, GradeNone
  <1> HIDE DEF g
  <1>3. g \in 0 .. 3 /\ (g # 0 => suricataSeverityToKubric(x) = g + 1)
    BY <1>2 DEF suricataSeverityToKubric
  <1> QED BY <1>3 DEF g, sc

LEMMA TextScale ==
    ASSUME NEW x
    PROVE  LET g == Grade(x, <<{"info", "informational"}, {"low"}, {"medium"},
                               {"high"}, {"critical"}>>) IN
           g \in 0 .. 5 /\ (g # 0 => parseSeverityString(x) = g)
  <1> DEFINE sc == <<{"info", "informational"}, {"low"}, {"medium"}, {"high"}, {"critical"}>>
             g == Grade(x, sc)
  <1>1. /\ DOMAIN sc = {1, 2, 3, 4, 5} /\ sc[1] = {"info", "informational"}
        /\ sc[2] = {"low"} /\ sc[3] = {"medium"} /\ sc[4] = {"high"} /\ sc[5] = {"critical"}
    OBVIOUS
  <1> HIDE DEF sc
  <1>2. /\ x \in {"info", "informational"} => g = 1
        /\ x = "low" => g = 2
        /\ x = "medium" => g = 3
        /\ x = "high" => g = 4
        /\ x = "critical" => g = 5
        /\ x \notin {"info", "informational", "low", "medium", "high", "critical"} => g = 0
    BY <1>1, GradeIs, GradeNone
  <1> HIDE DEF g
  <1>3. g \in 0 .. 5 /\ (g # 0 => parseSeverityString(x) = g)
    BY <1>2 DEF parseSeverityString
  <1> QED BY <1>3 DEF g, sc

\* The severity of each of Falco's priorities.
FalcoSeverity == <<1, 1, 2, 3, 4, 5, 5, 5>>

LEMMA FalcoScale ==
    ASSUME NEW x
    PROVE  LET g == Grade(x, <<{"debug"}, {"informational"}, {"notice"}, {"warning"},
                               {"error"}, {"critical"}, {"alert"}, {"emergency"}>>) IN
           g \in 0 .. 8 /\ (g # 0 => falcoPriorityToSeverity(x) = FalcoSeverity[g])
  <1> DEFINE sc == <<{"debug"}, {"informational"}, {"notice"}, {"warning"},
                     {"error"}, {"critical"}, {"alert"}, {"emergency"}>>
             g == Grade(x, sc)
  <1>1. /\ DOMAIN sc = {1, 2, 3, 4, 5, 6, 7, 8}
        /\ sc[1] = {"debug"} /\ sc[2] = {"informational"} /\ sc[3] = {"notice"}
        /\ sc[4] = {"warning"} /\ sc[5] = {"error"} /\ sc[6] = {"critical"}
        /\ sc[7] = {"alert"} /\ sc[8] = {"emergency"}
    OBVIOUS
  <1> HIDE DEF sc
  <1>2. /\ x = "debug" => g = 1
        /\ x = "informational" => g = 2
        /\ x = "notice" => g = 3
        /\ x = "warning" => g = 4
        /\ x = "error" => g = 5
        /\ x = "critical" => g = 6
        /\ x = "alert" => g = 7
        /\ x = "emergency" => g = 8
        /\ x \notin {"debug", "informational", "notice", "warning", "error", "critical",
                     "alert", "emergency"} => g = 0
    BY <1>1, GradeIs, GradeNone
  <1> HIDE DEF g
  <1>3. g \in 0 .. 8 /\ (g # 0 => falcoPriorityToSeverity(x) = FalcoSeverity[g])
    BY <1>2 DEF falcoPriorityToSeverity, FalcoSeverity
  <1> QED BY <1>3 DEF g, sc

\* The severity of an entry by its rank.
LEMMA RankFacts ==
    ASSUME NEW e, Faithful(e.event, e.msg.data)
    PROVE  /\ e.event.source \in {"coresec", "netguard"} =>
                 Rank(e) \in 0 .. 5 /\ (Rank(e) # 0 => e.event.severity = Rank(e))
           /\ e.event.source = "suricata" =>
                 Rank(e) \in 0 .. 3 /\ (Rank(e) # 0 => e.event.severity = Rank(e) + 1)
           /\ e.event.source = "falco" =>
                 Rank(e) \in 0 .. 8 /\ (Rank(e) # 0 => e.event.severity = FalcoSeverity[Rank(e)])
           /\ e.event.source = "wazuh" =>
                 Rank(e) \in Int /\ e.event.severity = wazuhLevelToSeverity(Rank(e) - 1)
           /\ e.event.source \in {"coresec", "netguard", "suricata", "falco", "wazuh"}
  <1>1. CASE e.event.source = "suricata"
    BY <1>1, SuricataScale DEF Faithful, Rank
  <1>2. CASE e.event.source = "falco"
    BY <1>2, FalcoScale DEF Faithful, Rank
  <1>3. CASE e.event.source = "wazuh"
    <2>1. /\ e.msg.data.level \in Int /\ Rank(e) = e.msg.data.level + 1
          /\ e.event.severity = wazuhLevelToSeverity(e.msg.data.level)
      BY <1>3 DEF Faithful, Rank
    <2> DEFINE l == e.msg.data.level
    <2> HIDE DEF l
    <2>2. Rank(e) - 1 = l /\ Rank(e) \in Int
      BY <2>1 DEF l
    <2> QED BY <1>3, <2>1, <2>2 DEF l
  <1>4. CASE e.event.source \in {"coresec", "netguard"}
    <2>1. CASE e.event.type = "fim" \/ (e.event.source = "netguard" /\ e.event.type = "alert")
      <3>1. e.event.severity = parseSeverityString(e.msg.data.severity)
        BY <1>4, <2>1 DEF Faithful
      <3>2. Rank(e) = Grade(e.msg.data.severity, <<{"info", "informational"}, {"low"},
                                                   {"medium"}, {"high"}, {"critical"}>>)
        BY <1>4, <2>1 DEF Rank
      <3> QED BY <1>4, <3>1, <3>2, TextScale
    <2>2. CASE ~(e.event.type = "fim" \/ (e.event.source = "netguard" /\ e.event.type = "alert"))
      <3>1. Rank(e) = 0
        BY <1>4, <2>2 DEF Rank
      <3> QED BY <1>4, <3>1
    <2> QED BY <2>1, <2>2
  <1>5. e.event.source \in {"coresec", "netguard", "suricata", "falco", "wazuh"}
    BY DEF Faithful
  <1> QED BY <1>1, <1>2, <1>3, <1>4, <1>5

LEMMA RankOrder ==
    ASSUME NEW a, NEW b, Faithful(a.event, a.msg.data), Faithful(b.event, b.msg.data),
           a.event.source = b.event.source, Rank(a) # 0, Rank(a) <= Rank(b)
    PROVE  a.event.severity <= b.event.severity
  <1> DEFINE s == a.event.source
  <1>1. s \in {"coresec", "netguard", "suricata", "falco", "wazuh"}
    BY RankFacts
  <1>2. CASE s \in {"coresec", "netguard"}
    <2>1. /\ Rank(a) \in 0 .. 5 /\ a.event.severity = Rank(a)
          /\ Rank(b) \in 0 .. 5 /\ (Rank(b) # 0 => b.event.severity = Rank(b))
      BY <1>2, RankFacts
    <2> QED BY <2>1
  <1>3. CASE s = "suricata"
    <2>1. /\ Rank(a) \in 0 .. 3 /\ a.event.severity = Rank(a) + 1
          /\ Rank(b) \in 0 .. 3 /\ (Rank(b) # 0 => b.event.severity = Rank(b) + 1)
      BY <1>3, RankFacts
    <2> QED BY <2>1
  <1>4. CASE s = "falco"
    <2>1. /\ Rank(a) \in 0 .. 8 /\ a.event.severity = FalcoSeverity[Rank(a)]
          /\ Rank(b) \in 0 .. 8 /\ (Rank(b) # 0 => b.event.severity = FalcoSeverity[Rank(b)])
      BY <1>4, RankFacts
    <2>2. \A i, j \in 1 .. 8 : i <= j => FalcoSeverity[i] <= FalcoSeverity[j]
      BY DEF FalcoSeverity
    <2> QED BY <2>1, <2>2
  <1>5. CASE s = "wazuh"
    <2>1. /\ Rank(a) \in Int /\ a.event.severity = wazuhLevelToSeverity(Rank(a) - 1)
          /\ Rank(b) \in Int /\ b.event.severity = wazuhLevelToSeverity(Rank(b) - 1)
      BY <1>5, RankFacts
    <2>2. \A i, j \in Int : i <= j => wazuhLevelToSeverity(i) <= wazuhLevelToSeverity(j)
      BY DEF wazuhLevelToSeverity
    <2> QED BY <2>1, <2>2
  <1> QED BY <1>1, <1>2, <1>3, <1>4, <1>5

\* isPrivateIP's prefixes cover the internal networks of four bytes.
LEMMA InternalPrefix ==
    ASSUME NEW b \in Seq(0 .. 255), Len(b) = 4, Internal4(b)
    PROVE  \/ b[1] \in {10, 127}
           \/ b[1] = 172 /\ b[2] \in 16 .. 31
           \/ b[1] = 192 /\ b[2] = 168
           \/ b[1] = 169 /\ b[2] = 254
  <1>1. Len(b) = 4
    OBVIOUS
  <1>2. b[1] \in 0 .. 255 /\ b[2] \in 0 .. 255
    <2>1. 1 \in 1 .. Len(b) /\ 2 \in 1 .. Len(b)
      BY <1>1
    <2> QED BY <2>1, ElementOfSeq
  <1> DEFINE x == b[1]
             y == b[2]
  <1>3. \E net \in {<<10 * 256, 10 * 256 + 255>>, <<172 * 256 + 16, 172 * 256 + 31>>,
                    <<192 * 256 + 168, 192 * 256 + 168>>, <<127 * 256, 127 * 256 + 255>>,
                    <<169 * 256 + 254, 169 * 256 + 254>>} :
           x * 256 + y \in net[1] .. net[2]
    BY DEF Internal4
  <1> x \in 0 .. 255 /\ y \in 0 .. 255
    BY <1>2
  <1> HIDE DEF x, y
  <1>4. \/ x * 256 + y \in 2560 .. 2815
        \/ x * 256 + y \in 44048 .. 44063
        \/ x * 256 + y = 49320
        \/ x * 256 + y \in 32512 .. 32767
        \/ x * 256 + y = 43518
    <2> DEFINE w == x * 256 + y
    <2>1. w \in Nat
      OBVIOUS
    <2> HIDE DEF w
    <2>2. \/ w \in 10 * 256 .. 10 * 256 + 255 \/ w \in 172 * 256 + 16 .. 172 * 256 + 31
          \/ w \in 192 * 256 + 168 .. 192 * 256 + 168 \/ w \in 127 * 256 .. 127 * 256 + 255
          \/ w \in 169 * 256 + 254 .. 169 * 256 + 254
      BY <1>3 DEF w
    <2>3. \/ w \in 2560 .. 2815 \/ w \in 44048 .. 44063 \/ w = 49320
          \/ w \in 32512 .. 32767 \/ w = 43518
      BY <2>1, <2>2
    <2> QED BY <2>3 DEF w
  <1>5. \/ x \in {10, 127}
        \/ x = 172 /\ y \in 16 .. 31
        \/ x = 192 /\ y = 168
        \/ x = 169 /\ y = 254
    BY <1>4
  <1> QED BY <1>5 DEF x, y

\* It recognises every internal address but the overlooked ones.
LEMMA InternalIsPrivate ==
    ASSUME NEW ip \in DOMAIN Octets, Internal(Octets[ip]), ~Overlooked(ip)
    PROVE  isPrivateIP(ip)
  <1> DEFINE b == Octets[ip]
  <1>0. b \in Seq(0 .. 255) /\ Written[ip] \in {"short", "full", "upper"}
    BY OctetsAssumption
  <1>1. CASE Len(b) = 4 /\ Internal4(b)
    <2>1. \/ b[1] \in {10, 127}
          \/ b[1] = 172 /\ b[2] \in 16 .. 31
          \/ b[1] = 192 /\ b[2] = 168
          \/ b[1] = 169 /\ b[2] = 254
      BY <1>0, <1>1, InternalPrefix
    <2> QED BY <1>1, <2>1 DEF isPrivateIP
  <1>2. CASE Len(b) = 16 /\ b[1] \in {252, 253}
    BY <1>2 DEF isPrivateIP, Overlooked
  <1>3. CASE Len(b) = 16 /\ b = Loopback6
    <2>1. Written[ip] = "short"
      BY <1>3 DEF Overlooked
    <2>2. ~(Len(b) = 4)
      BY <1>3
    <2> HIDE DEF b
    <2> QED BY <1>3, <2>1, <2>2 DEF isPrivateIP, b
  <1>4. CASE LinkLocal6(b)
    BY <1>4 DEF Overlooked
  <1> QED BY <1>1, <1>2, <1>3, <1>4 DEF Internal

LEMMA ConcatRange ==
    ASSUME NEW S, NEW s \in Seq(S), NEW T, NEW t \in Seq(T), NEW x \in Range(s \o t)
    PROVE  x \in Range(s) \/ x \in Range(t)
  <1>1. s \in Seq(S \cup T) /\ t \in Seq(S \cup T)
    OBVIOUS
  <1> QED BY <1>1, RangeConcatenation

LEMMA PublicFacts ==
    ASSUME NEW ip
    PROVE  /\ Public(ip) \in Seq({ip}) /\ Present(ip) \in Seq({ip})
           /\ \A x \in Range(Public(ip)) : x = ip /\ ~isPrivateIP(x)
           /\ \A x \in Range(Present(ip)) : x = ip
  <1>1. /\ <<>> \in Seq({ip}) /\ <<ip>> \in Seq({ip})
        /\ Range(<<>>) = {} /\ Range(<<ip>>) = {ip}
    BY DEF Range
  <1> QED BY <1>1 DEF Public, Present

LEMMA IndicatorFacts ==
    ASSUME NEW e, Faithful(e.event, e.msg.data),
           e.event.source \in {"netguard", "suricata"},
           NEW ip \in Range(e.event.indicators) \cap DOMAIN Octets, Internal(Octets[ip]),
           ~Overlooked(ip)
    PROVE  ip \in Observed(e)
  <1> DEFINE raw == e.msg.data
             src == Public(raw.src)
             dst == Public(raw.dst)
             host == Present(raw.host)
             asked == SelectSeq(raw.queries, NonEmpty)
  <1>1. isPrivateIP(ip)
    BY InternalIsPrivate
  <1>2. /\ src \in Seq({raw.src}) /\ dst \in Seq({raw.dst}) /\ host \in Seq({raw.host})
        /\ ip \notin Range(src) /\ ip \notin Range(dst)
        /\ ip \in Range(host) => ip = raw.host
    BY <1>1, PublicFacts
  <1>3. CASE e.event.source = "netguard"
    <2>1. e.event.indicators = dst \/ e.event.indicators = src \o dst
      BY <1>3 DEF Faithful
    <2> HIDE DEF src, dst
    <2>2. ip \in Range(dst) \/ ip \in Range(src)
      BY <1>2, <2>1, ConcatRange
    <2> QED BY <1>2, <2>2
  <1>4. CASE e.event.source = "suricata"
    <2>1. e.event.indicators = src \o dst \o host \o asked /\ asked \in Seq(Range(raw.queries))
      BY <1>4 DEF Faithful
    <2> HIDE DEF src, dst, host, asked
    <2>2. /\ src \o dst \in Seq({raw.src, raw.dst})
          /\ src \o dst \o host \in Seq({raw.src, raw.dst, raw.host})
      <3>1. src \in Seq({raw.src, raw.dst}) /\ dst \in Seq({raw.src, raw.dst})
        BY <1>2
      <3>2. src \o dst \in Seq({raw.src, raw.dst})
        BY <3>1, ConcatProperties
      <3>3. src \o dst \in Seq({raw.src, raw.dst, raw.host}) /\ host \in Seq({raw.src, raw.dst, raw.host})
        BY <1>2, <3>2
      <3> QED BY <3>2, <3>3, ConcatProperties
    <2>3. ip \in Range(src \o dst \o host) \/ ip \in Range(asked)
      BY <2>1, <2>2, ConcatRange
    <2>4. ASSUME ip \in Range(src \o dst \o host)
          PROVE  ip \in Range(src \o dst) \/ ip \in Range(host)
      <3> DEFINE both == src \o dst
      <3> HIDE DEF both
      <3>1. both \in Seq({raw.src, raw.dst}) /\ ip \in Range(both \o host)
        BY <2>2, <2>4 DEF both
      <3>2. ip \in Range(both) \/ ip \in Range(host)
        BY <1>2, <3>1, ConcatRange
      <3> QED BY <3>2 DEF both
    <2>5. ip \in Range(host) \/ ip \in Range(asked)
      BY <1>2, <2>3, <2>4, ConcatRange
    <2>6. ip \in Range(asked) => ip \in Range(raw.queries)
      BY <2>1 DEF Range
    <2> QED BY <1>2, <1>4, <2>5, <2>6 DEF Observed
  <1> QED BY <1>3, <1>4

LEMMA EntryIsFaithful ==
    ASSUME StateTyped, NEW e, FromMessage(e) \/ FromPost(e)
    PROVE  Faithful(e.event, e.msg.data)
  <1> clock \in Nat
    BY DEF StateTyped
  <1>1. CASE FromMessage(e)
    <2>1. PICK t \in 0 .. clock : e.event = parseEvent(e.msg, t)
      BY <1>1 DEF FromMessage
    <2> QED BY <1>1, <2>1, EventFacts DEF FromMessage
  <1>2. CASE FromPost(e)
    <2>1. PICK t \in 0 .. clock : e.event = FalcoWebhookEvent(e.msg.data, t)
      BY <1>2 DEF FromPost
    <2> QED BY <2>1, WebhookEvent
  <1> QED BY <1>1, <1>2

\* Whatever the log holds is normalised.
LEMMA LogIsNormalised == ASSUME StateTyped, EntryInv PROVE Normalised
  <1>1. \A x \in Entries : Faithful(EntryOf(x).event, EntryOf(x).msg.data)
    BY EntryIsFaithful DEF EntryInv
  <1>2. ASSUME NEW x \in Entries, NEW y \in Entries,
               EntryOf(x).event.source = EntryOf(y).event.source,
               Rank(EntryOf(x)) # 0, Rank(EntryOf(x)) <= Rank(EntryOf(y))
        PROVE  EntryOf(x).event.severity <= EntryOf(y).event.severity
    BY <1>1, <1>2, RankOrder
  <1>3. ASSUME NEW x \in Entries, EntryOf(x).event.source \in {"netguard", "suricata"},
               NEW ip \in Range(EntryOf(x).event.indicators) \cap DOMAIN Octets,
               Internal(Octets[ip]), ~Overlooked(ip)
        PROVE  ip \in Observed(EntryOf(x))
    BY <1>1, <1>3, IndicatorFacts
  <1> QED BY <1>2, <1>3 DEF Normalised

-----------------------------------------------------------------------------
(* Sequences *)

LEMMA SeqFacts ==
    ASSUME NEW S, NEW s \in Seq(S)
    PROVE  /\ s \in Seq(Range(s)) /\ DOMAIN s = 1 .. Len(s) /\ Len(s) \in Nat
           /\ \A j \in DOMAIN s : s[j] \in S
  BY SeqOfRange

LEMMA AppendFacts ==
    ASSUME NEW s, s \in Seq(Range(s)), NEW e
    PROVE  /\ Append(s, e) \in Seq(Range(Append(s, e)))
           /\ DOMAIN s = 1 .. Len(s) /\ Len(s) \in Nat
           /\ Len(Append(s, e)) = Len(s) + 1
           /\ DOMAIN Append(s, e) = 1 .. Len(s) + 1
           /\ Append(s, e)[Len(s) + 1] = e
           /\ \A i \in 1 .. Len(s) : Append(s, e)[i] = s[i]
  <1> DEFINE S == Range(s) \cup {e}
  <1>1. s \in Seq(S) /\ e \in S
    OBVIOUS
  <1> HIDE DEF S
  <1>2. /\ Append(s, e) \in Seq(S) /\ DOMAIN s = 1 .. Len(s) /\ Len(s) \in Nat
        /\ Len(Append(s, e)) = Len(s) + 1
        /\ DOMAIN Append(s, e) = 1 .. Len(s) + 1
        /\ Append(s, e)[Len(s) + 1] = e
        /\ \A i \in 1 .. Len(s) : Append(s, e)[i] = s[i]
    BY <1>1
  <1>3. Append(s, e) \in Seq(Range(Append(s, e)))
    BY <1>2, SeqOfRange
  <1> QED BY <1>2, <1>3

LEMMA TailFacts ==
    ASSUME NEW s, s \in Seq(Range(s)), s # <<>>
    PROVE  /\ Tail(s) \in Seq(Range(Tail(s))) /\ Len(s) \in Nat \ {0}
           /\ Len(Tail(s)) = Len(s) - 1 /\ DOMAIN Tail(s) = 1 .. Len(s) - 1
           /\ \A i \in 1 .. Len(s) - 1 : Tail(s)[i] = s[i + 1]
  <1>1. /\ Tail(s) \in Seq(Range(s)) /\ Len(s) \in Nat \ {0}
        /\ Len(Tail(s)) = Len(s) - 1
        /\ \A i \in 1 .. Len(s) - 1 : Tail(s)[i] = s[i + 1]
    BY HeadTailProperties
  <1>2. DOMAIN Tail(s) = 1 .. Len(s) - 1
    BY <1>1
  <1>3. Tail(s) \in Seq(Range(Tail(s)))
    BY <1>1, SeqOfRange
  <1> QED BY <1>1, <1>2, <1>3

\* A function on 1 .. n is a sequence.
LEMMA FunSeq ==
    ASSUME NEW n \in Nat, NEW f, f = [i \in 1 .. n |-> f[i]]
    PROVE  f \in Seq(Range(f)) /\ Len(f) = n
  <1>1. f \in [1 .. n -> Range(f)]
    <2>1. DOMAIN f = 1 .. n
      OBVIOUS
    <2>2. \A i \in 1 .. n : f[i] \in Range(f)
      BY <2>1 DEF Range
    <2> QED BY <2>2
  <1> QED BY <1>1

LEMMA SameSeq ==
    ASSUME NEW s, s \in Seq(Range(s)), NEW t, t \in Seq(Range(t)),
           Len(s) = Len(t), \A i \in 1 .. Len(s) : s[i] = t[i]
    PROVE  s = t
  <1> DEFINE S == Range(s) \cup Range(t)
  <1>1. s \in Seq(S) /\ t \in Seq(S)
    OBVIOUS
  <1> HIDE DEF S
  <1> QED BY <1>1, SeqEqual

LEMMA MinFacts ==
    ASSUME NEW n \in Nat, NEW c \in Nat
    PROVE  Min({n, c}) = IF n <= c THEN n ELSE c
  <1> DEFINE S == {n, c}
             m == IF n <= c THEN n ELSE c
  <1>1. m \in S /\ \A y \in S : m <= y
    OBVIOUS
  <1>2. \A x \in S : (\A y \in S : x <= y) => x = m
    OBVIOUS
  <1>3. Min(S) \in S /\ \A y \in S : Min(S) <= y
    BY <1>1 DEF Min
  <1> QED BY <1>2, <1>3

-----------------------------------------------------------------------------
(* The buffer *)

\* The events of the last BufferCap entries.
Recent(l) ==
    [i \in 1 .. Min({Len(l), BufferCap}) |-> l[i + Len(l) - Min({Len(l), BufferCap})].event]

\* Store's window over the log moves by one entry.
LEMMA RecentStep ==
    ASSUME NEW l, l \in Seq(Range(l)), NEW e, NEW ev, ev = e.event
    PROVE  Recent(Append(l, e)) =
              Append(IF Len(Recent(l)) >= BufferCap THEN Tail(Recent(l)) ELSE Recent(l), ev)
  <1> DEFINE n == Len(l)
             c == BufferCap
             b == Recent(l)
             l2 == Append(l, e)
             b2 == Recent(l2)
  <1>0. n \in Nat /\ c \in Nat \ {0}
    BY AppendFacts, IngestAssumption
  <1>1. /\ Len(l2) = n + 1 /\ l2[n + 1] = e /\ \A i \in 1 .. n : l2[i] = l[i]
    BY AppendFacts
  <1> HIDE DEF l2
  <1>2. CASE n < c
    <2>1. Min({n, c}) = n /\ Min({n + 1, c}) = n + 1
      BY <1>0, <1>2, MinFacts
    <2>2. b = [i \in 1 .. n |-> l[i + n - n].event]
      BY <2>1 DEF Recent
    <2>3. b2 = [i \in 1 .. n + 1 |-> l2[i + (n + 1) - (n + 1)].event]
      BY <1>1, <2>1 DEF Recent
    <2> HIDE DEF b, b2, n, c
    <2>4. b = [i \in 1 .. n |-> l[i].event] /\ b2 = [i \in 1 .. n + 1 |-> l2[i].event]
      BY <1>0, <2>2, <2>3
    <2>5. b \in Seq(Range(b)) /\ Len(b) = n
      <3>1. b = [i \in 1 .. n |-> b[i]]
        BY <1>0, <2>4
      <3> QED BY <1>0, <3>1, FunSeq
    <2>6. /\ Append(b, ev) \in Seq(Range(Append(b, ev)))
          /\ DOMAIN Append(b, ev) = 1 .. n + 1 /\ Append(b, ev)[n + 1] = ev
          /\ \A i \in 1 .. n : Append(b, ev)[i] = b[i]
      BY <2>5, AppendFacts
    <2>7. \A i \in 1 .. n + 1 : b2[i] = Append(b, ev)[i]
      BY <1>0, <1>1, <2>4, <2>6
    <2>8. b2 = Append(b, ev)
      <3>1. b2 = [i \in 1 .. n + 1 |-> b2[i]] /\ n + 1 \in Nat
        BY <1>0, <2>4
      <3>2. b2 \in Seq(Range(b2)) /\ Len(b2) = n + 1
        BY <3>1, FunSeq
      <3>3. Len(Append(b, ev)) = n + 1
        BY <2>5, AppendFacts
      <3> QED BY <2>6, <2>7, <3>2, <3>3, SameSeq
    <2> QED BY <1>0, <1>2, <2>5, <2>8 DEF b, b2, c, l2
  <1>3. CASE n >= c
    <2>1. Min({n, c}) = c /\ Min({n + 1, c}) = c
      BY <1>0, <1>3, MinFacts
    <2>2. b = [i \in 1 .. c |-> l[i + n - c].event]
      BY <2>1 DEF Recent
    <2>3. b2 = [i \in 1 .. c |-> l2[i + (n + 1) - c].event]
      BY <1>1, <2>1 DEF Recent
    <2> HIDE DEF b, b2, n, c
    <2>5. b \in Seq(Range(b)) /\ Len(b) = c /\ b # <<>>
      <3>1. b = [i \in 1 .. c |-> b[i]] /\ c \in Nat
        BY <1>0, <2>2
      <3>2. b \in Seq(Range(b)) /\ Len(b) = c
        BY <3>1, FunSeq
      <3> QED BY <1>0, <3>2
    <2> DEFINE t == Tail(b)
    <2>6. /\ t \in Seq(Range(t)) /\ Len(t) = c - 1 /\ \A i \in 1 .. c - 1 : t[i] = b[i + 1]
      BY <2>5, TailFacts
    <2> HIDE DEF t
    <2>7. /\ Append(t, ev) \in Seq(Range(Append(t, ev)))
          /\ DOMAIN Append(t, ev) = 1 .. c /\ Append(t, ev)[c] = ev
          /\ \A i \in 1 .. c - 1 : Append(t, ev)[i] = t[i]
      <3>1. (c - 1) + 1 = c
        BY <1>0
      <3> QED BY <2>6, <3>1, AppendFacts
    <2>8. ASSUME NEW i \in 1 .. c PROVE b2[i] = Append(t, ev)[i]
      <3>1. CASE i = c
        <4>1. i + (n + 1) - c = n + 1
          BY <1>0, <3>1
        <4> QED BY <1>1, <2>3, <2>7, <3>1, <4>1
      <3>2. CASE i # c
        <4>1. /\ i \in 1 .. c - 1 /\ i + 1 \in 1 .. c
              /\ i + (n + 1) - c = (i + 1) + n - c /\ i + (n + 1) - c \in 1 .. n
          BY <1>0, <1>3, <3>2
        <4>2. b2[i] = l[(i + 1) + n - c].event
          BY <1>1, <2>3, <4>1
        <4>3. Append(t, ev)[i] = b[i + 1]
          BY <2>6, <2>7, <4>1
        <4> QED BY <2>2, <4>1, <4>2, <4>3
      <3> QED BY <3>1, <3>2
    <2>9. b2 = Append(t, ev)
      <3>1. b2 = [i \in 1 .. c |-> b2[i]] /\ c \in Nat
        BY <1>0, <2>3
      <3>2. b2 \in Seq(Range(b2)) /\ Len(b2) = c
        BY <3>1, FunSeq
      <3>3. Len(Append(t, ev)) = c
        BY <1>0, <2>6, AppendFacts
      <3> QED BY <2>7, <2>8, <3>2, <3>3, SameSeq
    <2> QED BY <1>0, <1>3, <2>5, <2>9 DEF b, b2, c, l2, t
  <1> QED BY <1>0, <1>2, <1>3

-----------------------------------------------------------------------------
(* The log *)

LEMMA EntriesAre ==
    ASSUME NEW x
    PROVE  x \in Entries <=> \E k \in Keys : \E i \in DOMAIN log[k] : x = <<k, i>>
  BY DEF Entries

LEMMA EntriesStay == ASSUME log' = log
                     PROVE  Entries' = Entries /\ \A x : EntryOf(x)' = EntryOf(x)
  BY DEF Entries, EntryOf

Entry(event, from, msg) == [event |-> event, from |-> from, msg |-> msg]

\* Store adds one entry at the end of its key, and the buffers stay the recent
\* entries.
LEMMA StoreFacts ==
    ASSUME StateTyped, NEW event, NEW from, NEW msg, Store(event, from, msg),
           NEW k \in Keys, k = <<event.tenant, event.type>>,
           \A j \in Keys : buffer[j] = Recent(log[j])
    PROVE  /\ log' = [j \in Keys |-> log'[j]] /\ buffer' = [j \in Keys |-> buffer'[j]]
           /\ \A j \in Keys : log'[j] \in Seq(Range(log'[j])) /\ buffer'[j] = Recent(log'[j])
           /\ \A j \in Keys \ {k} : log'[j] = log[j]
           /\ DOMAIN log[k] = 1 .. Len(log[k]) /\ Len(log[k]) \in Nat
           /\ log'[k] = Append(log[k], Entry(event, from, msg))
           /\ \E z : /\ z = <<k, Len(log[k]) + 1>> /\ z \notin Entries
                     /\ Entries' = Entries \cup {z}
                     /\ EntryOf(z)' = Entry(event, from, msg)
                     /\ \A x \in Entries : EntryOf(x)' = EntryOf(x)
  <1> DEFINE e == Entry(event, from, msg)
             n == Len(log[k])
  <1>z. PICK z : z = <<k, n + 1>>
    OBVIOUS
  <1>1. /\ log = [j \in Keys |-> log[j]] /\ buffer = [j \in Keys |-> buffer[j]]
        /\ \A j \in Keys : log[j] \in Seq(Range(log[j]))
    BY DEF StateTyped
  <1>2. /\ log' = [log EXCEPT ![k] = Append(log[k], e)]
        /\ buffer' = [buffer EXCEPT ![k] =
              Append(IF Len(buffer[k]) >= BufferCap THEN Tail(buffer[k]) ELSE buffer[k], event)]
    BY DEF Store, Entry
  <1>3. e.event = event
    BY DEF Entry
  <1> HIDE DEF e
  <1>4. /\ \A j \in Keys \ {k} : log'[j] = log[j] /\ buffer'[j] = buffer[j]
        /\ log'[k] = Append(log[k], e)
        /\ buffer'[k] = Append(IF Len(buffer[k]) >= BufferCap
                               THEN Tail(buffer[k]) ELSE buffer[k], event)
        /\ log' = [j \in Keys |-> log'[j]] /\ buffer' = [j \in Keys |-> buffer'[j]]
    BY <1>1, <1>2
  <1>5. buffer'[k] = Recent(log'[k])
    <2>1. Recent(Append(log[k], e)) =
              Append(IF Len(Recent(log[k])) >= BufferCap
                     THEN Tail(Recent(log[k])) ELSE Recent(log[k]), event)
      <3> DEFINE l == log[k]
      <3>1. l \in Seq(Range(l)) /\ event = e.event
        BY <1>1, <1>3
      <3> HIDE DEF l
      <3>2. Recent(Append(l, e)) =
               Append(IF Len(Recent(l)) >= BufferCap THEN Tail(Recent(l)) ELSE Recent(l), event)
        BY <3>1, RecentStep
      <3> QED BY <3>2 DEF l
    <2> QED BY <1>4, <2>1
  <1>6. /\ log'[k] \in Seq(Range(log'[k])) /\ n \in Nat /\ DOMAIN log[k] = 1 .. n
        /\ DOMAIN log'[k] = 1 .. n + 1 /\ log'[k][n + 1] = e
        /\ \A i \in 1 .. n : log'[k][i] = log[k][i]
    BY <1>1, <1>4, AppendFacts
  <1>7. \A j \in Keys : log'[j] \in Seq(Range(log'[j])) /\ buffer'[j] = Recent(log'[j])
    BY <1>1, <1>4, <1>5, <1>6
  <1> HIDE DEF n
  <1>8. z \notin Entries
    <2> SUFFICES ASSUME NEW j \in Keys, NEW i \in DOMAIN log[j], z = <<j, i>> PROVE FALSE
      BY EntriesAre
    <2>1. j = k /\ i = n + 1
      BY <1>z
    <2> QED BY <1>6, <2>1
  <1>9. Entries' = Entries \cup {z}
    <2>1. \A x : x \in Entries' <=> \E j \in Keys : \E i \in DOMAIN log'[j] : x = <<j, i>>
      BY DEF Entries
    <2>2. \A x : x \in Entries <=> \E j \in Keys : \E i \in DOMAIN log[j] : x = <<j, i>>
      BY EntriesAre
    <2>3. \A i : i \in DOMAIN log'[k] <=> i \in DOMAIN log[k] \/ i = n + 1
      BY <1>6
    <2>4. ASSUME NEW x \in Entries' PROVE x \in Entries \cup {z}
      BY <1>z, <1>4, <2>1, <2>2, <2>3
    <2>5. ASSUME NEW x \in Entries \cup {z} PROVE x \in Entries'
      BY <1>z, <1>4, <2>1, <2>2, <2>3
    <2> QED BY <2>4, <2>5
  <1>10. \A x \in Entries : EntryOf(x)' = EntryOf(x)
    <2> SUFFICES ASSUME NEW x \in Entries PROVE EntryOf(x)' = EntryOf(x)
      OBVIOUS
    <2>1. PICK j \in Keys : \E i \in DOMAIN log[j] : x = <<j, i>>
      BY EntriesAre
    <2>2. PICK i \in DOMAIN log[j] : x = <<j, i>>
      BY <2>1
    <2>3. log'[j][i] = log[j][i]
      BY <1>4, <1>6
    <2> QED BY <2>2, <2>3 DEF EntryOf
  <1>11. EntryOf(z)' = e
    <2>1. z[1] = k /\ z[2] = n + 1
      BY <1>z
    <2> QED BY <1>6, <2>1 DEF EntryOf
  <1> QED BY <1>z, <1>4, <1>6, <1>7, <1>8, <1>9, <1>10, <1>11 DEF n, e

\* IngestedOnce in the terms of Recent.
LEMMA OnceParts ==
    IngestedOnce <=>
    /\ ingested = Cardinality(Entries) + Cardinality(InFlight)
    /\ \A x, y \in Entries : EntryOf(x).from = EntryOf(y).from => x = y
    /\ \A k \in Keys : buffer[k] = Recent(log[k])
    /\ \A k \in Keys : \A i, j \in 1 .. Len(log[k]) :
          i < j /\ log[k][i].from[1] = log[k][j].from[1]
          => log[k][i].from[2] < log[k][j].from[2]
  BY DEF IngestedOnce, Recent

LEMMA OncePartsNext ==
    IngestedOnce' <=>
    /\ ingested' = Cardinality(Entries') + Cardinality(InFlight')
    /\ \A x, y \in Entries' : (EntryOf(x).from)' = (EntryOf(y).from)' => x = y
    /\ \A k \in Keys : buffer'[k] = Recent(log'[k])
    /\ \A k \in Keys : \A i, j \in 1 .. Len(log'[k]) :
          i < j /\ log'[k][i].from[1] = log'[k][j].from[1]
          => log'[k][i].from[2] < log'[k][j].from[2]
  BY DEF IngestedOnce, Recent

\* An event that is later than the others of its source may be stored.
LEMMA StoreKeeps ==
    ASSUME StateTyped, IngestedOnce, IsFiniteSet(Entries),
           NEW event, NEW from, NEW msg, Store(event, from, msg),
           NEW k \in Keys, k = <<event.tenant, event.type>>,
           \A x \in Entries : EntryOf(x).from[1] = from[1] => EntryOf(x).from[2] < from[2],
           from[2] \in Nat,
           ingested' = Cardinality(Entries) + 1 + Cardinality(InFlight')
    PROVE  IngestedOnce' /\ IsFiniteSet(Entries')
  <1> DEFINE n == Len(log[k])
             e == Entry(event, from, msg)
  <1>0. \A j \in Keys : buffer[j] = Recent(log[j])
    BY OnceParts
  <1>1. /\ \A j \in Keys : log'[j] \in Seq(Range(log'[j])) /\ buffer'[j] = Recent(log'[j])
        /\ \A j \in Keys \ {k} : log'[j] = log[j]
        /\ DOMAIN log[k] = 1 .. n /\ n \in Nat /\ log'[k] = Append(log[k], e)
    <2> HIDE DEF e, n
    <2>1. \A j \in Keys : log'[j] \in Seq(Range(log'[j])) /\ buffer'[j] = Recent(log'[j])
      BY <1>0, StoreFacts
    <2>2. \A j \in Keys \ {k} : log'[j] = log[j]
      BY <1>0, StoreFacts
    <2>3. DOMAIN log[k] = 1 .. n /\ n \in Nat
      BY AppendFacts DEF n, StateTyped
    <2>4. log'[k] = Append(log[k], e)
      <3>1. log' = [log EXCEPT ![k] = Append(log[k], e)]
        BY DEF Store, Entry, e
      <3>2. log = [j \in Keys |-> log[j]]
        BY DEF StateTyped
      <3> QED BY <3>1, <3>2
    <2> QED BY <2>1, <2>2, <2>3, <2>4
  <1>2. PICK z : /\ z = <<k, n + 1>> /\ z \notin Entries /\ Entries' = Entries \cup {z}
                 /\ EntryOf(z)' = e /\ \A x \in Entries : EntryOf(x)' = EntryOf(x)
    BY <1>0, StoreFacts
  <1>3. e.from = from
    BY DEF Entry
  <1>4. /\ DOMAIN log'[k] = 1 .. n + 1 /\ log'[k][n + 1] = e /\ Len(log'[k]) = n + 1
        /\ \A i \in 1 .. n : log'[k][i] = log[k][i]
    <2>1. log[k] \in Seq(Range(log[k]))
      BY DEF StateTyped
    <2> QED BY <1>1, <2>1, AppendFacts
  <1> HIDE DEF e, n
  <1>5. IsFiniteSet(Entries') /\ Cardinality(Entries') = Cardinality(Entries) + 1
    BY <1>2, FS_AddElement
  <1>6. ASSUME NEW x \in Entries', NEW y \in Entries', (EntryOf(x).from)' = (EntryOf(y).from)'
        PROVE  x = y
    <2>1. \A u \in Entries : EntryOf(u).from # from
      OBVIOUS
    <2>2. \A u, v \in Entries : EntryOf(u).from = EntryOf(v).from => u = v
      BY OnceParts
    <2> QED BY <1>2, <1>3, <1>6, <2>1, <2>2
  <1>7. ASSUME NEW kk \in Keys, NEW i \in 1 .. Len(log'[kk]), NEW j \in 1 .. Len(log'[kk]),
               i < j, log'[kk][i].from[1] = log'[kk][j].from[1]
        PROVE  log'[kk][i].from[2] < log'[kk][j].from[2]
    <2>0. \A h \in Keys : \A u, v \in 1 .. Len(log[h]) :
              u < v /\ log[h][u].from[1] = log[h][v].from[1]
              => log[h][u].from[2] < log[h][v].from[2]
      BY OnceParts
    <2>1. CASE kk # k
      BY <1>1, <1>7, <2>0, <2>1
    <2>2. CASE kk = k /\ j <= n
      <3>1. i \in 1 .. n /\ j \in 1 .. n
        BY <1>1, <1>4, <1>7, <2>2
      <3> QED BY <1>4, <1>7, <2>0, <2>2, <3>1 DEF n
    <2>3. CASE kk = k /\ ~(j <= n)
      <3>1. i \in 1 .. n /\ j = n + 1
        BY <1>1, <1>4, <1>7, <2>3
      <3>2. <<k, i>> \in Entries /\ EntryOf(<<k, i>>) = log[k][i]
        BY <1>1, <3>1, EntriesAre DEF EntryOf
      <3>3. log'[kk][i] = log[k][i] /\ log'[kk][j].from = from
        BY <1>3, <1>4, <2>3, <3>1
      <3> QED BY <1>7, <3>2, <3>3
    <2> QED BY <2>1, <2>2, <2>3
  <1>8. ingested' = Cardinality(Entries') + Cardinality(InFlight')
    BY <1>5
  <1> QED BY <1>1, <1>5, <1>6, <1>7, <1>8, OncePartsNext

-----------------------------------------------------------------------------
(* What a step leaves alone *)

\* A Falco request keeps its items and its calls.
Grows(r) ==
    req[r].to = "falco" =>
        /\ req'[r].to = "falco" /\ req'[r].items = req[r].items
        /\ \A n \in DOMAIN req[r].calls :
              n \in DOMAIN req'[r].calls /\ req'[r].calls[n] = req[r].calls[n]

\* No new entry of source s.
NoNew(s) ==
    \A x \in Entries' : (EntryOf(x).from)'[1] = s =>
        x \in Entries /\ EntryOf(x)' = EntryOf(x)

LEMMA OriginStays ==
    ASSUME NEW e, clock \in Nat, clock' \in Nat, clock <= clock', \A r \in Requests : Grows(r)
    PROVE  /\ FromMessage(e) => FromMessage(e)'
           /\ FromPost(e) => FromPost(e)'
  <1>1. 0 .. clock \subseteq 0 .. clock'
    OBVIOUS
  <1>2. FromMessage(e) => FromMessage(e)'
    BY <1>1 DEF FromMessage
  <1>3. ASSUME FromPost(e) PROVE FromPost(e)'
    <2> DEFINE r == e.from[1]
    <2>1. /\ r \in Requests /\ req[r].to = "falco" /\ e.from[2] \in DOMAIN req[r].items
          /\ e.msg = [data |-> req[r].items[e.from[2]]]
          /\ \E n \in DOMAIN req[r].calls : req[r].calls[n] = <<e.from[2], "engine">>
          /\ \E t \in 0 .. clock : e.event = FalcoWebhookEvent(e.msg.data, t)
      BY <1>3 DEF FromPost
    <2>2. /\ req'[r].to = "falco" /\ req'[r].items = req[r].items
          /\ \E n \in DOMAIN req'[r].calls : req'[r].calls[n] = <<e.from[2], "engine">>
      BY <2>1 DEF Grows
    <2>3. \E t \in 0 .. clock' : e.event = FalcoWebhookEvent(e.msg.data, t)
      BY <1>1, <2>1
    <2> QED BY <2>1, <2>2, <2>3 DEF FromPost
  <1> QED BY <1>2, <1>3

LEMMA EntryInvStays ==
    ASSUME EntryInv, log' = log, clock \in Nat, clock' \in Nat, clock <= clock',
           \A r \in Requests : Grows(r)
    PROVE  EntryInv'
  <1>1. Entries' = Entries /\ \A x : EntryOf(x)' = EntryOf(x)
    BY EntriesStay
  <1>2. ASSUME NEW x \in Entries
        PROVE  /\ FromMessage(EntryOf(x))' \/ FromPost(EntryOf(x))'
               /\ x[1] = <<(EntryOf(x).event.tenant)', (EntryOf(x).event.type)'>>
    <2>1. PICK e : e = EntryOf(x)
      OBVIOUS
    <2>2. /\ FromMessage(e) \/ FromPost(e)
          /\ x[1] = <<e.event.tenant, e.event.type>>
      BY <2>1 DEF EntryInv
    <2>3. FromMessage(e)' \/ FromPost(e)'
      BY <2>2, OriginStays
    <2>4. EntryOf(x)' = e
      BY <1>1, <2>1
    <2>5. FromMessage(EntryOf(x))' \/ FromPost(EntryOf(x))'
      BY <2>3, <2>4 DEF FromMessage, FromPost
    <2> QED BY <2>2, <2>4, <2>5
  <1> QED BY <1>1, <1>2 DEF EntryInv

LEMMA SubscriptionStays ==
    ASSUME NEW s \in allSubjects, SubscriptionInv(s), StateTyped, StateTyped', NoNew(s),
           cb'[s] = cb[s], pending'[s] = pending[s], inputs <= inputs', clock <= clock'
    PROVE  SubscriptionInv(s)'
  <1>0. /\ clock \in Nat /\ clock' \in Nat /\ inputs \in Nat /\ inputs' \in Nat
        /\ 0 .. clock \subseteq 0 .. clock'
        /\ \A j \in DOMAIN pending[s] : pending[s][j].n \in Nat
    <2>1. clock \in Nat /\ clock' \in Nat /\ inputs \in Nat /\ inputs' \in Nat
      BY IngestAssumption DEF StateTyped
    <2>2. pending[s] \in Seq([n : Nat, msg : Messages])
      BY DEF StateTyped
    <2>3. \A j \in DOMAIN pending[s] : pending[s][j] \in [n : Nat, msg : Messages]
      BY <2>2, SeqFacts
    <2> QED BY <2>1, <2>3
  <1>1. /\ cb'[s].n \in Nat
        /\ cb'[s].n # 0 => /\ cb'[s].msg \in Messages /\ Parses(cb'[s].msg)
                           /\ \E t \in 0 .. clock' : cb'[s].event = parseEvent(cb'[s].msg, t)
    BY <1>0 DEF SubscriptionInv
  <1>2. ASSUME NEW x \in Entries', (EntryOf(x).from)'[1] = s
        PROVE  /\ cb'[s].n # 0 => (EntryOf(x).from)'[2] < cb'[s].n
               /\ \A j \in DOMAIN pending'[s] : (EntryOf(x).from)'[2] < pending'[s][j].n
               /\ (EntryOf(x).from)'[2] \in 0 .. inputs'
    <2>1. x \in Entries /\ EntryOf(x)' = EntryOf(x)
      BY <1>2 DEF NoNew
    <2>2. PICK e : e = EntryOf(x)
      OBVIOUS
    <2>3. /\ cb[s].n # 0 => e.from[2] < cb[s].n
          /\ \A j \in DOMAIN pending[s] : e.from[2] < pending[s][j].n
          /\ e.from[2] \in 0 .. inputs
      BY <1>2, <2>1, <2>2 DEF SubscriptionInv
    <2>4. e.from[2] \in 0 .. inputs'
      BY <1>0, <2>3
    <2> QED BY <2>1, <2>2, <2>3, <2>4
  <1>3. /\ cb'[s].n <= inputs' /\ Len(pending'[s]) <= PendingCap
        /\ \A j \in DOMAIN pending'[s] :
              /\ cb'[s].n < pending'[s][j].n /\ pending'[s][j].n <= inputs'
              /\ \A i \in 1 .. j - 1 : pending'[s][i].n < pending'[s][j].n
    BY <1>0 DEF SubscriptionInv
  <1> QED BY <1>1, <1>2, <1>3 DEF SubscriptionInv

LEMMA FromOfStays ==
    ASSUME NEW r, Entries \subseteq Entries', \A x \in Entries : EntryOf(x)' = EntryOf(x),
           NoNew(r)
    PROVE  FromOf(r)' = FromOf(r)
  <1>1. ASSUME NEW x \in Entries, EntryOf(x).from[1] = r
        PROVE  x \in Entries' /\ (EntryOf(x).from)'[1] = r
    BY <1>1
  <1>2. ASSUME NEW x \in Entries', (EntryOf(x).from)'[1] = r
        PROVE  x \in Entries /\ EntryOf(x).from[1] = r
    BY <1>2 DEF NoNew
  <1> QED BY <1>1, <1>2 DEF FromOf

LEMMA QuietLog ==
    ASSUME log' = log
    PROVE  /\ \A s : NoNew(s)
           /\ \A r : FromOf(r)' = FromOf(r)
  <1>1. Entries' = Entries /\ \A x : EntryOf(x)' = EntryOf(x)
    BY EntriesStay
  <1>2. \A s : NoNew(s)
    BY <1>1 DEF NoNew
  <1> QED BY <1>1, <1>2, FromOfStays

\* The lists of handlers only grow.
HandlersGrow ==
    \A w \in Receivers :
        /\ Len(handlers[w]) \in Nat /\ Len(handlers'[w]) \in Nat
        /\ Len(handlers[w]) <= Len(handlers'[w])
        /\ \A j \in 1 .. Len(handlers[w]) : handlers'[w][j] = handlers[w][j]

LEMMA HandlersStay == ASSUME StateTyped, handlers' = handlers PROVE HandlersGrow
  <1>1. \A w \in Receivers : handlers[w] \in Seq(Fns)
    BY DEF StateTyped
  <1> QED BY <1>1 DEF HandlersGrow

LEMMA RequestFields ==
    ASSUME NEW q \in Request
    PROVE  /\ q.pc \in {"ready", "parsed", "dispatch", "stream", "done", "failed"}
           /\ q.to \in Receivers \cup {"", "stream"} /\ q.items \in Bodies /\ q.sent \in Bodies
           /\ q.fns \in Seq(Fns) /\ Len(q.fns) \in Nat /\ q.at \in Nat \ {0}
           /\ q.calls \in Seq(Nat \X Fns) /\ q.calls \in Seq(Range(q.calls))
           /\ Len(q.calls) \in Nat /\ DOMAIN q.calls = 1 .. Len(q.calls)
           /\ q.answer \in Nat /\ q.before \in Nat
  <1>1. /\ q.pc \in {"ready", "parsed", "dispatch", "stream", "done", "failed"}
        /\ q.to \in Receivers \cup {"", "stream"} /\ q.items \in Bodies /\ q.sent \in Bodies
        /\ q.fns \in Seq(Fns) /\ q.at \in Nat \ {0}
        /\ q.calls \in Seq(Nat \X Fns) /\ q.answer \in Nat /\ q.before \in Nat
    BY DEF Request
  <1>2. /\ q.calls \in Seq(Range(q.calls)) /\ Len(q.calls) \in Nat
        /\ DOMAIN q.calls = 1 .. Len(q.calls) /\ Len(q.fns) \in Nat
    BY <1>1, SeqFacts
  <1> QED BY <1>1, <1>2

LEMMA WebhookStays ==
    ASSUME NEW q \in Request, WebhookInv(q), HandlersGrow
    PROVE  WebhookInv(q)'
  <1> SUFFICES ASSUME q.to \in Receivers
               PROVE  /\ q.pc = "parsed" => q.before <= Len(handlers'[q.to])
                      /\ q.pc = "dispatch" \/ q.answer = 200 => Called(q)'
    BY DEF WebhookInv
  <1>0. /\ Len(q.fns) \in Nat /\ q.before \in Nat
        /\ Len(handlers[q.to]) \in Nat /\ Len(handlers'[q.to]) \in Nat
        /\ Len(handlers[q.to]) <= Len(handlers'[q.to])
        /\ \A j \in 1 .. Len(handlers[q.to]) : handlers'[q.to][j] = handlers[q.to][j]
    BY RequestFields DEF HandlersGrow
  <1>1. q.pc = "parsed" => q.before <= Len(handlers'[q.to])
    BY <1>0 DEF WebhookInv
  <1>2. ASSUME q.pc = "dispatch" \/ q.answer = 200 PROVE Called(q)'
    <2>1. Called(q)
      BY <1>2 DEF WebhookInv
    <2>2. Len(q.fns) <= Len(handlers'[q.to])
      BY <1>0, <2>1 DEF Called
    <2>3. \A j \in 1 .. Len(q.fns) : q.fns[j] = handlers'[q.to][j]
      BY <1>0, <2>1 DEF Called
    <2> QED BY <2>1, <2>2, <2>3 DEF Called
  <1> QED BY <1>1, <1>2

LEMMA RequestStays ==
    ASSUME StateTyped, NEW r \in Requests, RequestInv(r), HandlersGrow,
           req'[r] = req[r], FromOf(r)' = FromOf(r)
    PROVE  RequestInv(r)'
  <1> DEFINE q == req[r]
  <1>1. q \in Request /\ WebhookInv(q) /\ StreamInv(q)
    BY DEF StateTyped, RequestInv
  <1>2. PICK c : c = q
    OBVIOUS
  <1>3. WebhookInv(c)' /\ StreamInv(c)'
    BY <1>1, <1>2, WebhookStays DEF StreamInv
  <1>4. req'[r] = c
    BY <1>2
  <1>5. WebhookInv(req[r])' /\ StreamInv(req[r])'
    BY <1>3, <1>4 DEF WebhookInv, Called, StreamInv
  <1>6. /\ req'[r].to = "" => req'[r] = Ready
        /\ req'[r].pc = "ready" => req'[r].to = ""
        /\ IsFiniteSet(EngineCalls(req'[r]))
        /\ req'[r].to = "falco" => Cardinality(FromOf(r)') = Cardinality(EngineCalls(req'[r]))
    BY DEF RequestInv
  <1> QED BY <1>5, <1>6 DEF RequestInv

-----------------------------------------------------------------------------
(* Requests *)

LEMMA OnceStays ==
    ASSUME IngestedOnce, log' = log, buffer' = buffer,
           ingested' + Cardinality(InFlight) = ingested + Cardinality(InFlight'),
           ingested \in Nat, ingested' \in Nat,
           IsFiniteSet(InFlight), IsFiniteSet(InFlight'), IsFiniteSet(Entries)
    PROVE  IngestedOnce'
  <1>1. Entries' = Entries /\ \A x : EntryOf(x)' = EntryOf(x)
    BY EntriesStay
  <1>2. /\ Cardinality(InFlight) \in Nat /\ Cardinality(InFlight') \in Nat
        /\ Cardinality(Entries) \in Nat
    BY FS_CardinalityType
  <1>3. ingested' = Cardinality(Entries') + Cardinality(InFlight')
    BY <1>1, <1>2, OnceParts
  <1>4. ASSUME NEW x \in Entries', NEW y \in Entries',
               (EntryOf(x).from)' = (EntryOf(y).from)' PROVE x = y
    BY <1>1, <1>4, OnceParts
  <1>5. /\ \A k \in Keys : buffer'[k] = Recent(log'[k])
        /\ \A k \in Keys : \A i, j \in 1 .. Len(log'[k]) :
              i < j /\ log'[k][i].from[1] = log'[k][j].from[1]
              => log'[k][i].from[2] < log'[k][j].from[2]
    BY OnceParts
  <1> QED BY <1>3, <1>4, <1>5, OncePartsNext

LEMMA ClockStays == ASSUME StateTyped, clock' = clock
                    PROVE  clock \in Nat /\ clock' \in Nat /\ clock <= clock'
  BY DEF StateTyped

LEMMA RequestIs ==
    ASSUME NEW r, NEW c, req'[r] = c, WebhookInv(c)', StreamInv(c)'
    PROVE  WebhookInv(req[r])' /\ StreamInv(req[r])'
  BY DEF WebhookInv, Called, StreamInv

\* A step of one request that stores nothing.
LEMMA RequestMoves ==
    ASSUME IngestInv, NEW r \in Requests, NEW c \in Request,
           req' = [req EXCEPT ![r] = c], Grows(r),
           UNCHANGED <<clock, pending, cb, buffer, ingested, handlers, log>>,
           inputs' \in 0 .. MaxInputs, inputs <= inputs',
           WebhookInv(c), StreamInv(c), c.to = "" => c = Ready, c.pc = "ready" => c.to = "",
           IsFiniteSet(EngineCalls(c)),
           c.to = "falco" => Cardinality(FromOf(r)) = Cardinality(EngineCalls(c))
    PROVE  IngestInv'
  <1>0. StateTyped /\ EntryInv /\ IngestedOnce /\ HandlersOnce
    BY DEF IngestInv
  <1>u. /\ clock' = clock /\ pending' = pending /\ cb' = cb /\ buffer' = buffer
        /\ ingested' = ingested /\ handlers' = handlers /\ log' = log
    OBVIOUS
  <1>n. clock \in Nat /\ clock' \in Nat /\ clock <= clock'
    BY <1>0, <1>u, ClockStays
  <1>1. /\ req'[r] = c /\ \A p \in Requests \ {r} : req'[p] = req[p]
        /\ req' \in [Requests -> Request]
    BY <1>0 DEF StateTyped
  <1>2. StateTyped'
    BY <1>0, <1>1 DEF StateTyped
  <1>3. \A p \in Requests : Grows(p)
    BY <1>1 DEF Grows
  <1>4. EntryInv'
    <2> QED BY <1>0, <1>u, <1>n, <1>3, EntryInvStays
  <1>5. InFlight' = InFlight
    BY DEF InFlight
  <1>6. IsFiniteSet(InFlight) /\ IsFiniteSet(Entries) /\ Entries' = Entries
    BY EntriesStay DEF IngestInv
  <1>7. IngestedOnce' /\ HandlersOnce'
    <2>1. ingested \in Nat
      BY <1>0 DEF StateTyped
    <2>2. IngestedOnce'
      BY <1>0, <1>5, <1>6, <2>1, OnceStays
    <2> QED BY <1>0, <2>2 DEF HandlersOnce
  <1>8. \A s \in allSubjects : SubscriptionInv(s)'
    <2>1. \A s \in allSubjects : SubscriptionInv(s) /\ NoNew(s)
      BY QuietLog DEF IngestInv
    <2>3. \A s \in allSubjects : cb'[s] = cb[s] /\ pending'[s] = pending[s]
      BY <1>u
    <2> QED BY <1>0, <1>n, <1>2, <2>1, <2>3, SubscriptionStays
  <1>9. ASSUME NEW p \in Requests PROVE RequestInv(p)'
    <2>1. FromOf(p)' = FromOf(p)
      BY QuietLog
    <2>2. CASE p # r
      <3>1. RequestInv(p) /\ req'[p] = req[p]
        BY <1>1, <2>2 DEF IngestInv
      <3> QED BY <1>0, <2>1, <3>1, RequestStays, HandlersStay
    <2>3. CASE p = r
      <3>1. WebhookInv(c)' /\ StreamInv(c)'
        <4>1. HandlersGrow
          BY <1>0, <1>u, HandlersStay
        <4>2. WebhookInv(c)'
          BY <4>1, WebhookStays
        <4>3. StreamInv(c)'
          BY DEF StreamInv, IsEvent
        <4> QED BY <4>2, <4>3
      <3>2. WebhookInv(req[r])' /\ StreamInv(req[r])'
        BY <1>1, <3>1, RequestIs
      <3> QED BY <1>1, <2>1, <2>3, <3>2 DEF RequestInv
    <2> QED BY <2>2, <2>3
  <1> QED BY <1>2, <1>4, <1>5, <1>6, <1>7, <1>8, <1>9 DEF IngestInv

LEMMA NoCalls ==
    ASSUME NEW q, q.calls = <<>>
    PROVE  EngineCalls(q) = {} /\ IsFiniteSet(EngineCalls(q)) /\ Cardinality(EngineCalls(q)) = 0
  <1>1. EngineCalls(q) = {}
    BY DEF EngineCalls
  <1> QED BY <1>1, FS_EmptySet

LEMMA ReadyIs ==
    /\ Ready.pc = "ready" /\ Ready.to = "" /\ Ready.items = <<>> /\ Ready.sent = <<>> /\ Ready.fns = <<>>
    /\ Ready.at = 1 /\ Ready.calls = <<>> /\ Ready.answer = 0 /\ Ready.before = 0
  BY DEF Ready

\* Nothing comes from a request before it arrives.
LEMMA ReadyFacts ==
    ASSUME IngestInv, NEW r \in Requests, req[r].pc = "ready"
    PROVE  /\ req[r] = Ready /\ FromOf(r) = {} /\ Cardinality(FromOf(r)) = 0
  <1>1. req[r] = Ready
    BY DEF IngestInv, RequestInv
  <1>2. req[r].to # "falco"
    BY <1>1, ReadyIs
  <1>3. ASSUME NEW x \in Entries, EntryOf(x).from[1] = r PROVE FALSE
    <2>1. FromMessage(EntryOf(x)) \/ FromPost(EntryOf(x))
      BY DEF IngestInv, EntryInv
    <2> QED BY <1>2, <1>3, <2>1, RequestsAssumption DEF FromMessage, FromPost
  <1>4. FromOf(r) = {}
    BY <1>3 DEF FromOf
  <1> QED BY <1>1, <1>4, FS_EmptySet

Accepted(post, n) ==
    [Ready EXCEPT !.pc = "parsed", !.to = post.to, !.before = n,
                  !.items = SelectSeq(Read(post.body), IsEvent),
                  !.sent = SelectSeq(post.body.items, IsEvent)]
Refused(post) ==
    [Ready EXCEPT !.pc = "done", !.to = post.to, !.answer = Status(post),
                  !.items = post.body.items]

LEMMA ReadyType == Ready \in Request
  <1>1. <<>> \in Bodies
    BY DEF Bodies
  <1>2. <<>> \in Seq(Fns) /\ <<>> \in Seq(Nat \X Fns)
    OBVIOUS
  <1> QED BY <1>1, <1>2 DEF Ready, Request

LEMMA SelectedItems ==
    ASSUME NEW p \in Posts, WellFormed(p), NEW s, s = SelectSeq(Read(p.body), IsEvent)
    PROVE  /\ s \in Seq({x \in Range(s) : IsEvent(x)})
           /\ p.to = "falco" => /\ \A i \in DOMAIN s : s[i].host \in Tenants
                               /\ s = SelectSeq(p.body.items, IsEvent)
  <1> DEFINE T == {x \in Range(p.body.items) : IsEvent(x)}
  <1>1. s \in Seq(T) /\ (p.to = "falco" => \A x \in T : x.host \in Tenants)
    BY PostsAssumption
  <1>2. \A x \in T : IsEvent(x)
    OBVIOUS
  <1> HIDE DEF T
  <1>3. /\ s \in Seq(Range(s)) /\ DOMAIN s = 1 .. Len(s) /\ Len(s) \in Nat
        /\ \A j \in DOMAIN s : s[j] \in T
    BY <1>1, SeqFacts
  <1> DEFINE U == {x \in Range(s) : IsEvent(x)}
  <1>4. \A j \in 1 .. Len(s) : s[j] \in U
    BY <1>2, <1>3 DEF Range
  <1> HIDE DEF U
  <1>5. s \in Seq(U)
    BY <1>3, <1>4
  <1>6. p.to = "falco" => Read(p.body) = p.body.items
    BY PostsAssumption DEF WellFormed, Read
  <1> QED BY <1>1, <1>3, <1>5, <1>6 DEF U

LEMMA AcceptedFacts ==
    ASSUME StateTyped, NEW p \in Posts, WellFormed(p), NEW c,
           c = Accepted(p, Len(handlers[p.to]))
    PROVE  c \in Request /\ WebhookInv(c) /\ c.to \in Receivers /\ c.calls = <<>>
           /\ c.pc = "parsed"
  <1>1. PICK items, sent : /\ items = SelectSeq(Read(p.body), IsEvent)
                           /\ sent = SelectSeq(p.body.items, IsEvent)
    OBVIOUS
  <1>2. p.to \in Receivers
    BY PostsAssumption
  <1>3. Len(handlers[p.to]) \in Nat
    BY <1>2 DEF StateTyped
  <1>4. items \in Bodies /\ sent \in Bodies
    BY <1>1 DEF Bodies
  <1>5. c = [Ready EXCEPT !.pc = "parsed", !.to = p.to, !.before = Len(handlers[p.to]),
                          !.items = items, !.sent = sent]
    BY <1>1 DEF Accepted
  <1>6. /\ c \in Request /\ c.pc = "parsed" /\ c.to = p.to /\ c.items = items
        /\ c.sent = sent
        /\ c.fns = <<>> /\ c.at = 1 /\ c.calls = <<>> /\ c.answer = 0
        /\ c.before = Len(handlers[p.to])
    <2>1. /\ c \in Request /\ c.pc = "parsed" /\ c.to = p.to /\ c.before = Len(handlers[p.to])
          /\ c.items = items /\ c.sent = sent /\ c.fns = Ready.fns /\ c.at = Ready.at /\ c.calls = Ready.calls
          /\ c.answer = Ready.answer
      <3>1. PICK q : q = Ready
        OBVIOUS
      <3>2. q \in Request
        BY <3>1, ReadyType
      <3>3. c = [q EXCEPT !.pc = "parsed", !.to = p.to, !.before = Len(handlers[p.to]),
                          !.items = items, !.sent = sent]
        BY <1>5, <3>1
      <3> QED BY <1>2, <1>3, <1>4, <3>1, <3>2, <3>3 DEF Request
    <2> QED BY <2>1, ReadyIs
  <1>7. /\ c.items \in Seq({x \in Range(c.items) : IsEvent(x)})
        /\ c.to = "falco" => /\ \A i \in DOMAIN c.items : c.items[i].host \in Tenants
                            /\ c.items = c.sent
    BY <1>1, <1>6, SelectedItems
  <1>8. WebhookInv(c)
    BY <1>3, <1>6, <1>7 DEF WebhookInv
  <1> QED BY <1>2, <1>6, <1>8

LEMMA RefusedFacts ==
    ASSUME NEW p \in Posts, NEW c, c = Refused(p)
    PROVE  c \in Request /\ WebhookInv(c) /\ c.to \in Receivers /\ c.calls = <<>>
           /\ c.pc = "done"
  <1>1. p.to \in Receivers
    BY PostsAssumption
  <1>2. Status(p) \in {400, 401, 405} /\ Status(p) \in Nat
    BY DEF Status
  <1>3. p.body.items \in Bodies
    BY DEF Bodies
  <1>4. /\ c \in Request /\ c.pc = "done" /\ c.to = p.to /\ c.items = p.body.items
        /\ c.fns = <<>> /\ c.at = 1 /\ c.calls = <<>> /\ c.answer = Status(p) /\ c.before = 0
    <2>1. /\ c \in Request /\ c.pc = "done" /\ c.to = p.to /\ c.before = Ready.before
          /\ c.items = p.body.items /\ c.fns = Ready.fns /\ c.at = Ready.at
          /\ c.calls = Ready.calls /\ c.answer = Status(p)
      <3>1. PICK q : q = Ready
        OBVIOUS
      <3>2. q \in Request
        BY <3>1, ReadyType
      <3>3. PICK st, items : st = Status(p) /\ items = p.body.items
        OBVIOUS
      <3>4. c = [q EXCEPT !.pc = "done", !.to = p.to, !.answer = st, !.items = items]
        BY <3>1, <3>3 DEF Refused
      <3>5. st \in Nat /\ items \in Bodies
        BY <1>2, <1>3, <3>3
      <3> QED BY <1>1, <3>1, <3>2, <3>3, <3>4, <3>5 DEF Request
    <2> QED BY <2>1, ReadyIs
  <1>5. WebhookInv(c)
    BY <1>1, <1>2, <1>4 DEF WebhookInv
  <1> QED BY <1>1, <1>4, <1>5

LEMMA InputsGrow ==
    ASSUME StateTyped, inputs < MaxInputs, inputs' = inputs + 1
    PROVE  inputs' \in 0 .. MaxInputs /\ inputs <= inputs'
  BY IngestAssumption DEF StateTyped

LEMMA ServeHTTPKeeps ==
    ASSUME IngestInv, NEW r \in Requests, NEW p \in Posts, ServeHTTP(r, p)
    PROVE  IngestInv'
  <1>0. StateTyped
    BY DEF IngestInv
  <1>1. req[r] = Ready /\ Cardinality(FromOf(r)) = 0
    BY ReadyFacts DEF ServeHTTP
  <1>2. PICK c : c = IF WellFormed(p) THEN Accepted(p, Len(handlers[p.to])) ELSE Refused(p)
    OBVIOUS
  <1>3. /\ c \in Request /\ WebhookInv(c) /\ c.to \in Receivers /\ c.calls = <<>>
        /\ c.pc \in {"parsed", "done"}
    BY <1>0, <1>2, AcceptedFacts, RefusedFacts
  <1>4. req' = [req EXCEPT ![r] = c]
    <2>1. req' = [req EXCEPT ![r] =
             IF WellFormed(p)
             THEN [req[r] EXCEPT !.pc = "parsed", !.to = p.to, !.before = Len(handlers[p.to]),
                                 !.items = SelectSeq(Read(p.body), IsEvent),
                                 !.sent = SelectSeq(p.body.items, IsEvent)]
             ELSE [req[r] EXCEPT !.pc = "done", !.to = p.to, !.answer = Status(p),
                                 !.items = p.body.items]]
      BY DEF ServeHTTP
    <2> QED BY <1>1, <1>2, <2>1 DEF Accepted, Refused
  <1>5. /\ UNCHANGED <<clock, pending, cb, buffer, ingested, handlers, log>>
        /\ inputs < MaxInputs /\ inputs' = inputs + 1
    BY DEF ServeHTTP
  <1>6. inputs' \in 0 .. MaxInputs /\ inputs <= inputs'
    BY <1>0, <1>5, InputsGrow
  <1>7. Grows(r)
    BY <1>1, ReadyIs DEF Grows
  <1>8. IsFiniteSet(EngineCalls(c)) /\ Cardinality(EngineCalls(c)) = 0
    BY <1>3, NoCalls
  <1>9. StreamInv(c) /\ c.to # "" /\ c.pc # "ready"
    BY <1>3 DEF StreamInv, Receivers
  <1> QED BY <1>1, <1>3, <1>4, <1>5, <1>6, <1>7, <1>8, <1>9, RequestMoves

\* What the place of a request says of its kind.
LEMMA RequestKind ==
    ASSUME IngestInv, NEW r \in Requests
    PROVE  /\ req[r] \in Request
           /\ WebhookInv(req[r]) /\ StreamInv(req[r]) /\ IsFiniteSet(EngineCalls(req[r]))
           /\ req[r].to = "falco" => Cardinality(FromOf(r)) = Cardinality(EngineCalls(req[r]))
           /\ req[r].pc \in {"parsed", "dispatch"} => req[r].to \in Receivers
           /\ req[r].pc = "stream" => req[r].to = "stream"
  <1>1. /\ req[r] \in Request
        /\ WebhookInv(req[r]) /\ StreamInv(req[r]) /\ IsFiniteSet(EngineCalls(req[r]))
        /\ req[r].to = "falco" => Cardinality(FromOf(r)) = Cardinality(EngineCalls(req[r]))
        /\ req[r].to = "" => req[r] = Ready
    BY DEF IngestInv, StateTyped, RequestInv
  <1>2. PICK q : q = req[r]
    OBVIOUS
  <1>3. q.to \in Receivers \cup {"", "stream"} /\ (q.to = "" => q.pc = "ready")
    BY <1>1, <1>2, ReadyIs, RequestFields
  <1>4. q.to \in Receivers => q.pc \in {"parsed", "dispatch", "done"}
    BY <1>1, <1>2 DEF WebhookInv
  <1>5. q.to = "stream" => q.pc \in {"stream", "done", "failed"}
    BY <1>1, <1>2 DEF StreamInv
  <1> QED BY <1>1, <1>2, <1>3, <1>4, <1>5

LEMMA InputsStay == ASSUME StateTyped, inputs' = inputs
                    PROVE  inputs' \in 0 .. MaxInputs /\ inputs <= inputs'
  BY IngestAssumption DEF StateTyped

LEMMA NatTimes == ASSUME NEW a \in Nat, NEW b \in Nat PROVE a * b \in Nat
  OBVIOUS

LEMMA TodoNat ==
    ASSUME NEW q, NEW S, q.items \in Seq(S), Len(q.fns) \in Nat
    PROVE  Len(q.items) \in Nat /\ Todo(q) \in Nat
  <1>1. Len(q.items) \in Nat
    OBVIOUS
  <1>2. Len(q.items) * Len(q.fns) \in Nat
    BY <1>1, NatTimes
  <1> QED BY <1>1, <1>2 DEF Todo

LEMMA SnapshotKeeps ==
    ASSUME IngestInv, NEW r \in Requests, Snapshot(r)
    PROVE  IngestInv'
  <1>0. StateTyped
    BY DEF IngestInv
  <1>1. PICK q : q = req[r]
    OBVIOUS
  <1>2. /\ q \in Request /\ WebhookInv(q) /\ IsFiniteSet(EngineCalls(q))
        /\ q.to = "falco" => Cardinality(FromOf(r)) = Cardinality(EngineCalls(q))
        /\ q.pc = "parsed" /\ q.to \in Receivers
    BY <1>1, RequestKind DEF Snapshot
  <1>3. PICK fns : fns = handlers[q.to]
    OBVIOUS
  <1>4. fns \in Seq(Fns) /\ Len(fns) \in Nat
    BY <1>0, <1>2, <1>3 DEF StateTyped
  <1>5. PICK c : c = [q EXCEPT !.pc = "dispatch", !.fns = fns]
    OBVIOUS
  <1>6. /\ c \in Request /\ c.pc = "dispatch" /\ c.to = q.to /\ c.items = q.items
        /\ c.sent = q.sent
        /\ c.fns = fns /\ c.at = q.at /\ c.calls = q.calls /\ c.answer = q.answer
        /\ c.before = q.before
    BY <1>2, <1>4, <1>5 DEF Request
  <1>7. req' = [req EXCEPT ![r] = c]
    <2>1. req' = [req EXCEPT ![r].pc = "dispatch", ![r].fns = fns]
      BY <1>1, <1>3 DEF Snapshot
    <2>2. req \in [Requests -> Request]
      BY <1>0 DEF StateTyped
    <2>3. req' = [req EXCEPT ![r] = [req[r] EXCEPT !.pc = "dispatch", !.fns = fns]]
      BY <2>1, <2>2
    <2> QED BY <1>1, <1>5, <2>3
  <1>8. WebhookInv(c)
    <2>1. /\ q.answer = 0 /\ q.before <= Len(fns) /\ q.at = 1 /\ q.calls = <<>>
          /\ q.items \in Seq({x \in Range(q.items) : IsEvent(x)})
          /\ q.to = "falco" => /\ \A i \in DOMAIN q.items : q.items[i].host \in Tenants
                              /\ q.items = q.sent
      BY <1>2, <1>3 DEF WebhookInv
    <2>2. Todo(c) \in Nat
      BY <1>4, <1>6, <2>1, TodoNat
    <2>3. Called(c)
      BY <1>3, <1>4, <1>6, <2>1, <2>2 DEF Called
    <2> QED BY <1>6, <2>1, <2>3 DEF WebhookInv
  <1>9. StreamInv(c) /\ c.to # "" /\ c.pc # "ready"
    BY <1>2, <1>6 DEF StreamInv, Receivers
  <1>10. EngineCalls(c) = EngineCalls(q)
    BY <1>6 DEF EngineCalls
  <1>11. /\ UNCHANGED <<clock, pending, cb, buffer, ingested, handlers, log>>
         /\ inputs' = inputs
    BY DEF Snapshot
  <1>12. inputs' \in 0 .. MaxInputs /\ inputs <= inputs'
    BY <1>0, <1>11, InputsStay
  <1>13. Grows(r)
    <2>1. req'[r] = c
      BY <1>0, <1>7 DEF StateTyped
    <2> QED BY <1>1, <1>6, <2>1 DEF Grows
  <1>14. c.to = "falco" => Cardinality(FromOf(r)) = Cardinality(EngineCalls(c))
    BY <1>2, <1>6, <1>10
  <1> QED BY <1>2, <1>6, <1>7, <1>8, <1>9, <1>10, <1>11, <1>12, <1>13, <1>14, RequestMoves

LEMMA RespondKeeps ==
    ASSUME IngestInv, NEW r \in Requests, Respond(r)
    PROVE  IngestInv'
  <1>0. StateTyped
    BY DEF IngestInv
  <1>1. PICK q : q = req[r]
    OBVIOUS
  <1>2. /\ q \in Request /\ WebhookInv(q) /\ IsFiniteSet(EngineCalls(q))
        /\ q.to = "falco" => Cardinality(FromOf(r)) = Cardinality(EngineCalls(q))
        /\ q.pc = "dispatch" /\ q.to \in Receivers /\ q.at > Todo(q)
    BY <1>1, RequestKind DEF Respond
  <1>3. PICK c : c = [q EXCEPT !.pc = "done", !.answer = 200]
    OBVIOUS
  <1>4. /\ c \in Request /\ c.pc = "done" /\ c.to = q.to /\ c.items = q.items
        /\ c.sent = q.sent
        /\ c.fns = q.fns /\ c.at = q.at /\ c.calls = q.calls /\ c.answer = 200
        /\ c.before = q.before
    BY <1>2, <1>3 DEF Request
  <1>5. req' = [req EXCEPT ![r] = c]
    <2>1. req' = [req EXCEPT ![r].pc = "done", ![r].answer = 200]
      BY DEF Respond
    <2>2. req \in [Requests -> Request]
      BY <1>0 DEF StateTyped
    <2>3. req' = [req EXCEPT ![r] = [req[r] EXCEPT !.pc = "done", !.answer = 200]]
      BY <2>1, <2>2
    <2> QED BY <1>1, <1>3, <2>3
  <1>6. WebhookInv(c)
    <2>1. /\ Called(q) /\ q.items \in Seq({x \in Range(q.items) : IsEvent(x)})
          /\ q.to = "falco" => /\ \A i \in DOMAIN q.items : q.items[i].host \in Tenants
                              /\ q.items = q.sent
      BY <1>2 DEF WebhookInv
    <2>2. Todo(q) \in Nat /\ q.at \in Nat
      BY <1>2, <2>1, TodoNat, RequestFields
    <2>3. Todo(c) = Todo(q) /\ \A n : CallAt(c, n) = CallAt(q, n)
      BY <1>4 DEF Todo, CallAt
    <2>4. Called(c)
      BY <1>4, <2>1, <2>3 DEF Called
    <2>5. c.at = Todo(c) + 1
      BY <1>2, <1>4, <2>1, <2>2, <2>3 DEF Called
    <2> QED BY <1>4, <2>1, <2>4, <2>5 DEF WebhookInv
  <1>9. StreamInv(c) /\ c.to # "" /\ c.pc # "ready"
    BY <1>2, <1>4 DEF StreamInv, Receivers
  <1>10. EngineCalls(c) = EngineCalls(q)
    BY <1>4 DEF EngineCalls
  <1>11. /\ UNCHANGED <<clock, pending, cb, buffer, ingested, handlers, log>>
         /\ inputs' = inputs
    BY DEF Respond
  <1>12. inputs' \in 0 .. MaxInputs /\ inputs <= inputs'
    BY <1>0, <1>11, InputsStay
  <1>13. Grows(r)
    <2>1. req'[r] = c
      BY <1>0, <1>5 DEF StateTyped
    <2> QED BY <1>1, <1>4, <2>1 DEF Grows
  <1>14. c.to = "falco" => Cardinality(FromOf(r)) = Cardinality(EngineCalls(c))
    BY <1>2, <1>4, <1>10
  <1> QED BY <1>2, <1>4, <1>5, <1>6, <1>9, <1>10, <1>11, <1>12, <1>13, <1>14, RequestMoves

-----------------------------------------------------------------------------
(* Streams *)

LEMMA ParseEveStreamKeeps ==
    ASSUME IngestInv, NEW r \in Requests, NEW lines \in Streams, NEW h \in Handlers,
           ParseEveStream(r, lines, h)
    PROVE  IngestInv'
  <1>0. StateTyped
    BY DEF IngestInv
  <1>1. PICK q : q = req[r]
    OBVIOUS
  <1>2. q = Ready /\ q \in Request
    BY <1>1, ReadyFacts, ReadyType DEF ParseEveStream
  <1>3. PICK fns : fns = <<h>>
    OBVIOUS
  <1>4. fns \in Seq(Fns) /\ Len(fns) = 1 /\ lines \in Bodies
    BY <1>3 DEF Fns, Bodies
  <1>5. PICK c : c = [q EXCEPT !.pc = "stream", !.to = "stream", !.items = lines, !.fns = fns]
    OBVIOUS
  <1>6. /\ c \in Request /\ c.pc = "stream" /\ c.to = "stream" /\ c.items = lines
        /\ c.fns = fns /\ c.at = q.at /\ c.calls = q.calls /\ c.answer = q.answer
    BY <1>2, <1>4, <1>5 DEF Request
  <1>7. q.at = 1 /\ q.calls = <<>> /\ q.answer = 0 /\ q.to = ""
    BY <1>2, ReadyIs
  <1>8. req' = [req EXCEPT ![r] = c]
    BY <1>1, <1>3, <1>5 DEF ParseEveStream
  <1>9. StreamInv(c)
    <2>1. Len(lines) \in Nat
      BY StreamsAssumption
    <2>0. c.at = 1 /\ c.calls = <<>> /\ c.items = lines
      BY <1>6, <1>7
    <2>2. /\ Len(c.calls) = 0 /\ DOMAIN c.calls = {}
      BY <2>0
    <2>3. 1 .. c.at - 1 = {}
      BY <2>0
    <2>4. {c.calls[n][1] : n \in DOMAIN c.calls} = {i \in 1 .. c.at - 1 : IsEvent(c.items[i])}
      BY <2>2, <2>3
    <2>5. c.at \in 1 .. Len(c.items) + 1
      BY <2>0, <2>1
    <2> QED BY <1>4, <1>6, <1>7, <2>2, <2>3, <2>4, <2>5 DEF StreamInv
  <1>10. WebhookInv(c) /\ c.to # "" /\ c.to # "falco" /\ c.pc # "ready"
    BY <1>6 DEF WebhookInv, Receivers
  <1>11. /\ UNCHANGED <<clock, pending, cb, buffer, ingested, handlers, log>>
         /\ inputs < MaxInputs /\ inputs' = inputs + 1
    BY DEF ParseEveStream
  <1>12. inputs' \in 0 .. MaxInputs /\ inputs <= inputs'
    BY <1>0, <1>11, InputsGrow
  <1>13. IsFiniteSet(EngineCalls(c))
    BY <1>6, <1>7, NoCalls
  <1>14. Grows(r)
    BY <1>1, <1>7 DEF Grows
  <1> QED BY <1>6, <1>8, <1>9, <1>10, <1>11, <1>12, <1>13, <1>14, RequestMoves

\* What the next line makes of a stream at an event, at a line without one, at
\* a broken line and at the end.
AtEvent(q) == [q EXCEPT !.at = q.at + 1, !.answer = q.answer + 1,
                        !.calls = Append(q.calls, <<q.at, q.fns[1]>>)]
AtBlank(q) == [q EXCEPT !.at = q.at + 1]
AtBroken(q) == [q EXCEPT !.pc = "failed"]
AtEnd(q) == [q EXCEPT !.pc = "done"]

LEMMA CallsGrow ==
    ASSUME NEW q \in Request, NEW c, NEW call, c.calls = Append(q.calls, call)
    PROVE  /\ Len(c.calls) = Len(q.calls) + 1 /\ DOMAIN c.calls = 1 .. Len(q.calls) + 1
           /\ c.calls[Len(q.calls) + 1] = call
           /\ \A n \in 1 .. Len(q.calls) : c.calls[n] = q.calls[n]
           /\ Len(q.calls) + 1 \notin EngineCalls(q)
           /\ EngineCalls(c) = IF call[2] = "engine" THEN EngineCalls(q) \cup {Len(q.calls) + 1}
                                                     ELSE EngineCalls(q)
  <1>0. /\ q.calls \in Seq(Range(q.calls)) /\ Len(q.calls) \in Nat
        /\ DOMAIN q.calls = 1 .. Len(q.calls)
    BY RequestFields
  <1>1. /\ Len(c.calls) = Len(q.calls) + 1 /\ DOMAIN c.calls = 1 .. Len(q.calls) + 1
        /\ c.calls[Len(q.calls) + 1] = call
        /\ \A n \in 1 .. Len(q.calls) : c.calls[n] = q.calls[n]
    BY <1>0, AppendFacts
  <1>2. Len(q.calls) + 1 \notin EngineCalls(q)
    BY <1>0 DEF EngineCalls
  <1>3. EngineCalls(c) = IF call[2] = "engine" THEN EngineCalls(q) \cup {Len(q.calls) + 1}
                                               ELSE EngineCalls(q)
    BY <1>0, <1>1 DEF EngineCalls
  <1> QED BY <1>1, <1>2, <1>3

LEMMA EngineCallsFinite ==
    ASSUME NEW q \in Request, NEW c, NEW call, c.calls = Append(q.calls, call),
           IsFiniteSet(EngineCalls(q))
    PROVE  IsFiniteSet(EngineCalls(c))
  <1>1. CASE call[2] = "engine"
    <2>1. EngineCalls(c) = EngineCalls(q) \cup {Len(q.calls) + 1}
      BY <1>1, CallsGrow
    <2> QED BY <2>1, FS_AddElement
  <1>2. CASE call[2] # "engine"
    <2>1. EngineCalls(c) = EngineCalls(q)
      BY <1>2, CallsGrow
    <2> QED BY <2>1
  <1> QED BY <1>1, <1>2

LEMMA LineFacts ==
    ASSUME NEW q \in Request, StreamInv(q), q.to = "stream", q.pc = "stream"
    PROVE  /\ q.items \in Streams /\ Len(q.items) \in Nat /\ DOMAIN q.items = 1 .. Len(q.items)
           /\ \A i \in 1 .. Len(q.items) :
                 q.items[i].kind \in {"event", "blank", "comment", "bad", "long"}
           /\ q.at \in 1 .. Len(q.items) + 1 /\ Len(q.fns) = 1 /\ q.fns[1] \in Fns
           /\ q.answer = Len(q.calls)
           /\ \A i \in 1 .. q.at - 1 : q.items[i].kind \notin {"bad", "long"}
           /\ {q.calls[n][1] : n \in DOMAIN q.calls} = {i \in 1 .. q.at - 1 : IsEvent(q.items[i])}
  <1>1. /\ q.items \in Streams /\ q.at \in 1 .. Len(q.items) + 1 /\ Len(q.fns) = 1
        /\ q.answer = Len(q.calls)
        /\ \A i \in 1 .. q.at - 1 : q.items[i].kind \notin {"bad", "long"}
        /\ {q.calls[n][1] : n \in DOMAIN q.calls} = {i \in 1 .. q.at - 1 : IsEvent(q.items[i])}
    BY DEF StreamInv
  <1>2. q.items \in Seq([kind : {"event", "blank", "comment", "bad", "long"}])
    BY <1>1, StreamsAssumption
  <1>3. /\ Len(q.items) \in Nat /\ DOMAIN q.items = 1 .. Len(q.items)
        /\ \A i \in 1 .. Len(q.items) :
              q.items[i].kind \in {"event", "blank", "comment", "bad", "long"}
    <2>1. /\ Len(q.items) \in Nat /\ DOMAIN q.items = 1 .. Len(q.items)
          /\ \A i \in DOMAIN q.items :
                q.items[i] \in [kind : {"event", "blank", "comment", "bad", "long"}]
      BY <1>2, SeqFacts
    <2> QED BY <2>1
  <1>4. q.fns[1] \in Fns
    <2>1. q.fns \in Seq(Fns)
      BY RequestFields
    <2>2. DOMAIN q.fns = 1 .. Len(q.fns) /\ \A j \in DOMAIN q.fns : q.fns[j] \in Fns
      BY <2>1, SeqFacts
    <2> QED BY <1>1, <2>2
  <1> QED BY <1>1, <1>3, <1>4

LEMMA LineMoves ==
    ASSUME NEW q \in Request, StreamInv(q), q.to = "stream", q.pc = "stream",
           IsFiniteSet(EngineCalls(q)), NEW c,
           \/ q.at <= Len(q.items) /\ q.items[q.at].kind = "event" /\ c = AtEvent(q)
           \/ q.at <= Len(q.items) /\ q.items[q.at].kind \in {"blank", "comment"} /\ c = AtBlank(q)
           \/ q.at <= Len(q.items) /\ q.items[q.at].kind \in {"bad", "long"} /\ c = AtBroken(q)
           \/ ~(q.at <= Len(q.items)) /\ c = AtEnd(q)
    PROVE  /\ c \in Request /\ StreamInv(c) /\ c.to = "stream" /\ c.pc # "ready"
           /\ IsFiniteSet(EngineCalls(c))
  <1>0. /\ q.items \in Streams /\ Len(q.items) \in Nat /\ DOMAIN q.items = 1 .. Len(q.items)
        /\ \A i \in 1 .. Len(q.items) :
              q.items[i].kind \in {"event", "blank", "comment", "bad", "long"}
        /\ q.at \in 1 .. Len(q.items) + 1 /\ Len(q.fns) = 1 /\ q.fns[1] \in Fns
        /\ q.answer = Len(q.calls) /\ Len(q.calls) \in Nat /\ q.at \in Nat
        /\ DOMAIN q.calls = 1 .. Len(q.calls)
        /\ \A i \in 1 .. q.at - 1 : q.items[i].kind \notin {"bad", "long"}
        /\ {q.calls[n][1] : n \in DOMAIN q.calls} = {i \in 1 .. q.at - 1 : IsEvent(q.items[i])}
    BY LineFacts, RequestFields
  <1>1. CASE q.at <= Len(q.items) /\ q.items[q.at].kind = "event" /\ c = AtEvent(q)
    <2>1. PICK call : call = <<q.at, q.fns[1]>>
      OBVIOUS
    <2>2. /\ call \in Nat \X Fns /\ call[1] = q.at
      BY <1>0, <2>1
    <2>3. Append(q.calls, call) \in Seq(Nat \X Fns)
      <3>1. q.calls \in Seq(Nat \X Fns)
        BY RequestFields
      <3> QED BY <2>2, <3>1, AppendProperties
    <2>4. PICK at2, an2, calls2 : /\ at2 = q.at + 1 /\ an2 = q.answer + 1
                                  /\ calls2 = Append(q.calls, call)
      OBVIOUS
    <2>5. c = [q EXCEPT !.at = at2, !.answer = an2, !.calls = calls2]
      BY <1>1, <2>1, <2>4 DEF AtEvent
    <2>6. at2 \in Nat \ {0} /\ an2 \in Nat /\ calls2 \in Seq(Nat \X Fns)
      BY <1>0, <2>3, <2>4
    <2>7. /\ c \in Request /\ c.pc = q.pc /\ c.to = q.to /\ c.items = q.items /\ c.fns = q.fns
          /\ c.at = at2 /\ c.calls = calls2 /\ c.answer = an2
      BY <2>5, <2>6 DEF Request
    <2>8. /\ Len(c.calls) = Len(q.calls) + 1 /\ DOMAIN c.calls = 1 .. Len(q.calls) + 1
          /\ c.calls[Len(q.calls) + 1] = call
          /\ \A n \in 1 .. Len(q.calls) : c.calls[n] = q.calls[n]
          /\ IsFiniteSet(EngineCalls(c))
      <3>1. c.calls = Append(q.calls, call)
        BY <2>4, <2>7
      <3>2. /\ Len(c.calls) = Len(q.calls) + 1 /\ DOMAIN c.calls = 1 .. Len(q.calls) + 1
            /\ c.calls[Len(q.calls) + 1] = call
            /\ \A n \in 1 .. Len(q.calls) : c.calls[n] = q.calls[n]
        BY <3>1, CallsGrow
      <3>3. IsFiniteSet(EngineCalls(c))
        BY <3>1, EngineCallsFinite
      <3> QED BY <3>2, <3>3
    <2>9. {c.calls[n][1] : n \in DOMAIN c.calls} = {q.calls[n][1] : n \in DOMAIN q.calls} \cup {q.at}
      <3>1. DOMAIN q.calls = 1 .. Len(q.calls) /\ Len(q.calls) \in Nat
        BY <1>0
      <3>2. DOMAIN c.calls = DOMAIN q.calls \cup {Len(q.calls) + 1}
        BY <2>8, <3>1
      <3>3. /\ c.calls[Len(q.calls) + 1][1] = q.at
            /\ \A n \in DOMAIN q.calls : c.calls[n][1] = q.calls[n][1]
        BY <2>2, <2>8, <3>1
      <3>4. ASSUME NEW n \in DOMAIN c.calls
            PROVE  c.calls[n][1] \in {q.calls[m][1] : m \in DOMAIN q.calls} \cup {q.at}
        BY <3>2, <3>3
      <3>5. ASSUME NEW n \in DOMAIN q.calls
            PROVE  q.calls[n][1] \in {c.calls[m][1] : m \in DOMAIN c.calls}
        BY <3>2, <3>3
      <3>6. q.at \in {c.calls[m][1] : m \in DOMAIN c.calls}
        BY <3>2, <3>3
      <3> QED BY <3>4, <3>5, <3>6
    <2>10. {i \in 1 .. c.at - 1 : IsEvent(c.items[i])}
              = {i \in 1 .. q.at - 1 : IsEvent(q.items[i])} \cup {q.at}
      <3>1. IsEvent(q.items[q.at]) /\ 1 .. c.at - 1 = (1 .. q.at - 1) \cup {q.at}
        BY <1>0, <1>1, <2>4, <2>7 DEF IsEvent
      <3> QED BY <2>7, <3>1
    <2>11. \A i \in 1 .. c.at - 1 : c.items[i].kind \notin {"bad", "long"}
      BY <1>0, <1>1, <2>4, <2>7
    <2>12. c.at \in 1 .. Len(c.items) + 1 /\ c.answer = Len(c.calls)
      BY <1>0, <1>1, <2>4, <2>7, <2>8
    <2>13. StreamInv(c)
      BY <1>0, <2>7, <2>9, <2>10, <2>11, <2>12 DEF StreamInv
    <2> QED BY <2>7, <2>8, <2>13
  <1>2. CASE q.at <= Len(q.items) /\ q.items[q.at].kind \in {"blank", "comment"} /\ c = AtBlank(q)
    <2>1. PICK at2 : at2 = q.at + 1
      OBVIOUS
    <2>2. c = [q EXCEPT !.at = at2] /\ at2 \in Nat \ {0}
      BY <1>0, <1>2, <2>1 DEF AtBlank
    <2>3. /\ c \in Request /\ c.pc = q.pc /\ c.to = q.to /\ c.items = q.items /\ c.fns = q.fns
          /\ c.at = at2 /\ c.calls = q.calls /\ c.answer = q.answer
      BY <2>2 DEF Request
    <2>4. {i \in 1 .. c.at - 1 : IsEvent(c.items[i])} = {i \in 1 .. q.at - 1 : IsEvent(q.items[i])}
      <3>1. ~IsEvent(q.items[q.at]) /\ 1 .. c.at - 1 = (1 .. q.at - 1) \cup {q.at}
        BY <1>0, <1>2, <2>1, <2>3 DEF IsEvent
      <3> QED BY <2>3, <3>1
    <2>5. \A i \in 1 .. c.at - 1 : c.items[i].kind \notin {"bad", "long"}
      BY <1>0, <1>2, <2>1, <2>3
    <2>6. c.at \in 1 .. Len(c.items) + 1
      BY <1>0, <1>2, <2>1, <2>3
    <2>9. {c.calls[n][1] : n \in DOMAIN c.calls} = {i \in 1 .. c.at - 1 : IsEvent(c.items[i])}
      BY <1>0, <2>3, <2>4
    <2>7. StreamInv(c)
      BY <1>0, <2>3, <2>5, <2>6, <2>9 DEF StreamInv
    <2>8. EngineCalls(c) = EngineCalls(q)
      BY <2>3 DEF EngineCalls
    <2> QED BY <2>3, <2>7, <2>8
  <1>3. ASSUME NEW pc, pc \in {"failed", "done"}, c = [q EXCEPT !.pc = pc],
               pc = "failed" => q.at <= Len(q.items) /\ q.items[q.at].kind \in {"bad", "long"},
               pc = "done" => q.at = Len(q.items) + 1
        PROVE  /\ c \in Request /\ StreamInv(c) /\ c.to = "stream" /\ c.pc # "ready"
               /\ IsFiniteSet(EngineCalls(c))
    <2>1. /\ c \in Request /\ c.pc = pc /\ c.to = q.to /\ c.items = q.items /\ c.fns = q.fns
          /\ c.at = q.at /\ c.calls = q.calls /\ c.answer = q.answer
      BY <1>3 DEF Request
    <2>4. {c.calls[n][1] : n \in DOMAIN c.calls} = {i \in 1 .. c.at - 1 : IsEvent(c.items[i])}
      <3>1. /\ {i \in 1 .. c.at - 1 : IsEvent(c.items[i])}
                  = {i \in 1 .. q.at - 1 : IsEvent(q.items[i])}
            /\ {c.calls[n][1] : n \in DOMAIN c.calls} = {q.calls[n][1] : n \in DOMAIN q.calls}
        BY <2>1
      <3> QED BY <1>0, <3>1
    <2>5. \A i \in 1 .. c.at - 1 : c.items[i].kind \notin {"bad", "long"}
      BY <1>0, <2>1
    <2>2. StreamInv(c)
      BY <1>0, <1>3, <2>1, <2>4, <2>5 DEF StreamInv
    <2>3. EngineCalls(c) = EngineCalls(q)
      BY <2>1 DEF EngineCalls
    <2> QED BY <1>3, <2>1, <2>2, <2>3
  <1>4. CASE q.at <= Len(q.items) /\ q.items[q.at].kind \in {"bad", "long"} /\ c = AtBroken(q)
    BY <1>3, <1>4 DEF AtBroken
  <1>5. CASE ~(q.at <= Len(q.items)) /\ c = AtEnd(q)
    <2>1. q.at = Len(q.items) + 1
      BY <1>0, <1>5
    <2> QED BY <1>3, <1>5, <2>1 DEF AtEnd
  <1> QED BY <1>1, <1>2, <1>4, <1>5

LEMMA ReadLineKeeps ==
    ASSUME IngestInv, NEW r \in Requests, ReadLine(r)
    PROVE  IngestInv'
  <1>0. StateTyped
    BY DEF IngestInv
  <1>1. PICK q : q = req[r]
    OBVIOUS
  <1>2. /\ q \in Request /\ StreamInv(q) /\ q.pc = "stream" /\ q.to = "stream"
        /\ IsFiniteSet(EngineCalls(q))
    BY <1>1, RequestKind DEF ReadLine
  <1>3. PICK kind : kind = IF q.at <= Len(q.items) THEN q.items[q.at].kind ELSE "eof"
    OBVIOUS
  <1>4. req' = [req EXCEPT ![r] = CASE kind = "event"                -> AtEvent(q)
                                    [] kind \in {"blank", "comment"} -> AtBlank(q)
                                    [] kind \in {"bad", "long"}      -> AtBroken(q)
                                    [] kind = "eof"                  -> AtEnd(q)]
    BY <1>1, <1>3 DEF ReadLine, AtEvent, AtBlank, AtBroken, AtEnd
  <1>5. q.at <= Len(q.items) => kind \in {"event", "blank", "comment", "bad", "long"}
    BY <1>2, <1>3, LineFacts
  <1>6. PICK c : /\ req' = [req EXCEPT ![r] = c]
                 /\ \/ q.at <= Len(q.items) /\ kind = "event" /\ c = AtEvent(q)
                    \/ q.at <= Len(q.items) /\ kind \in {"blank", "comment"} /\ c = AtBlank(q)
                    \/ q.at <= Len(q.items) /\ kind \in {"bad", "long"} /\ c = AtBroken(q)
                    \/ ~(q.at <= Len(q.items)) /\ c = AtEnd(q)
    <2>1. CASE ~(q.at <= Len(q.items))
      BY <1>3, <1>4, <2>1
    <2>2. CASE q.at <= Len(q.items)
      BY <1>4, <1>5, <2>2
    <2> QED BY <2>1, <2>2
  <1>7. /\ c \in Request /\ StreamInv(c) /\ c.to = "stream" /\ c.pc # "ready"
        /\ IsFiniteSet(EngineCalls(c))
    BY <1>2, <1>3, <1>6, LineMoves
  <1>8. WebhookInv(c)
    BY <1>7 DEF WebhookInv, Receivers
  <1>9. /\ UNCHANGED <<clock, pending, cb, buffer, ingested, handlers, log>>
        /\ inputs' = inputs
    BY DEF ReadLine
  <1>10. inputs' \in 0 .. MaxInputs /\ inputs <= inputs'
    BY <1>0, <1>9, InputsStay
  <1>11. Grows(r)
    BY <1>1, <1>2 DEF Grows
  <1> QED BY <1>6, <1>7, <1>8, <1>9, <1>10, <1>11, RequestMoves

-----------------------------------------------------------------------------
(* The two loops of a receiver *)

\* The item and the handler of the n-th call.
Row(q, n) == ((n - 1) \div Len(q.fns)) + 1
Col(q, n) == ((n - 1) % Len(q.fns)) + 1

LEMMA DivMod ==
    ASSUME NEW f \in Nat \ {0}, NEW a \in Nat
    PROVE  /\ a \div f \in Nat /\ a % f \in 0 .. f - 1
           /\ a = f * (a \div f) + (a % f)
  OBVIOUS

LEMMA DivModOf ==
    ASSUME NEW f \in Nat \ {0}, NEW d \in Nat, NEW m \in 0 .. f - 1, NEW a, a = f * d + m
    PROVE  a \div f = d /\ a % f = m
  OBVIOUS

LEMMA Factors ==
    ASSUME NEW l \in Nat, NEW f \in Nat
    PROVE  /\ l * f # 0 => f # 0
           /\ \A d, m \in Nat : f * d + m < l * f => d < l
  <1>1. l * f # 0 => f # 0
    OBVIOUS
  <1>2. ASSUME NEW d \in Nat, NEW m \in Nat, f * d + m < l * f PROVE d < l
    BY <1>2
  <1> QED BY <1>1, <1>2

LEMMA CallAtFacts ==
    ASSUME NEW q, Len(q.items) \in Nat, Len(q.fns) \in Nat, NEW n \in 1 .. Todo(q)
    PROVE  /\ Row(q, n) \in 1 .. Len(q.items) /\ Col(q, n) \in 1 .. Len(q.fns)
           /\ n = Len(q.fns) * (Row(q, n) - 1) + Col(q, n) /\ Len(q.fns) # 0
           /\ CallAt(q, n) = <<Row(q, n), q.fns[Col(q, n)]>>
  <1>1. PICK l \in Nat, f \in Nat : l = Len(q.items) /\ f = Len(q.fns)
    OBVIOUS
  <1>2. n \in 1 .. l * f /\ l * f \in Nat
    BY <1>1, NatTimes DEF Todo
  <1>3. f # 0
    BY <1>2, Factors
  <1>4. PICK a \in Nat : a = n - 1
    BY <1>2
  <1>5. PICK d, m : d = a \div f /\ m = a % f
    OBVIOUS
  <1>6. d \in Nat /\ m \in 0 .. f - 1 /\ a = f * d + m
    BY <1>3, <1>5, DivMod
  <1>7. d < l
    <2>1. f * d + m < l * f /\ m \in Nat
      BY <1>2, <1>4, <1>6
    <2> QED BY <1>6, <2>1, Factors
  <1>8. Row(q, n) = d + 1 /\ Col(q, n) = m + 1
    BY <1>1, <1>4, <1>5 DEF Row, Col
  <1>9. Row(q, n) \in 1 .. l /\ Col(q, n) \in 1 .. f
    BY <1>6, <1>7, <1>8
  <1>10. n = f * (Row(q, n) - 1) + Col(q, n)
    BY <1>2, <1>4, <1>6, <1>8
  <1> QED BY <1>1, <1>3, <1>9, <1>10 DEF CallAt, Row, Col

LEMMA Lexicographic ==
    ASSUME NEW f \in Nat, NEW c \in 1 .. f, NEW d \in 1 .. f, NEW a \in Nat, NEW b \in Nat,
           f * a + c < f * b + d
    PROVE  a < b \/ (a = b /\ c < d)
  <1>1. CASE b < a
    <2>1. f * b + f <= f * a
      <3>1. PICK e \in Nat : a = b + 1 + e
        <4>1. a - b - 1 \in Nat /\ a = b + 1 + (a - b - 1)
          BY <1>1
        <4> QED BY <4>1
      <3>2. f * a = f * b + f + f * e /\ f * e \in Nat /\ f * b \in Nat
        BY <3>1
      <3> QED BY <3>2
    <2>2. f * a \in Nat /\ f * b \in Nat
      BY NatTimes
    <2> QED BY <2>1, <2>2
  <1>2. CASE b = a
    <2>1. f * a \in Nat
      BY NatTimes
    <2> QED BY <1>2, <2>1
  <1> QED BY <1>1, <1>2

LEMMA CallOrder ==
    ASSUME NEW q, Len(q.items) \in Nat, Len(q.fns) \in Nat,
           NEW m \in 1 .. Todo(q), NEW n \in 1 .. Todo(q), m < n
    PROVE  \/ Row(q, m) < Row(q, n)
           \/ Row(q, m) = Row(q, n) /\ Col(q, m) < Col(q, n)
  <1>1. /\ Row(q, m) \in Nat \ {0} /\ Row(q, n) \in Nat \ {0}
        /\ Col(q, m) \in 1 .. Len(q.fns) /\ Col(q, n) \in 1 .. Len(q.fns)
        /\ m = Len(q.fns) * (Row(q, m) - 1) + Col(q, m)
        /\ n = Len(q.fns) * (Row(q, n) - 1) + Col(q, n)
    <2>1. /\ Row(q, m) \in 1 .. Len(q.items) /\ Col(q, m) \in 1 .. Len(q.fns)
          /\ m = Len(q.fns) * (Row(q, m) - 1) + Col(q, m)
      BY CallAtFacts
    <2>2. /\ Row(q, n) \in 1 .. Len(q.items) /\ Col(q, n) \in 1 .. Len(q.fns)
          /\ n = Len(q.fns) * (Row(q, n) - 1) + Col(q, n)
      BY CallAtFacts
    <2> QED BY <2>1, <2>2
  <1>2. PICK a, b, c, d : /\ a = Row(q, m) - 1 /\ b = Row(q, n) - 1
                          /\ c = Col(q, m) /\ d = Col(q, n)
    OBVIOUS
  <1>3. a \in Nat /\ b \in Nat
    BY <1>1, <1>2
  <1>4. a < b \/ (a = b /\ c < d)
    <2>1. PICK f \in Nat : f = Len(q.fns)
      OBVIOUS
    <2>2. c \in 1 .. f /\ d \in 1 .. f /\ m = f * a + c /\ n = f * b + d
      BY <1>1, <1>2, <2>1
    <2>3. f * a + c < f * b + d
      BY <2>2
    <2> QED BY <1>3, <2>2, <2>3, Lexicographic
  <1> QED BY <1>1, <1>2, <1>4

LEMMA CallIndex ==
    ASSUME NEW q, Len(q.items) \in Nat, Len(q.fns) \in Nat,
           NEW i \in 1 .. Len(q.items), NEW j \in 1 .. Len(q.fns)
    PROVE  \E n \in 1 .. Todo(q) : Row(q, n) = i /\ Col(q, n) = j
  <1>1. PICK l \in Nat, f \in Nat : l = Len(q.items) /\ f = Len(q.fns)
    OBVIOUS
  <1>2. PICK d \in Nat, m \in 0 .. f - 1 : d = i - 1 /\ m = j - 1
    BY <1>1
  <1>3. PICK a : a = f * d + m
    OBVIOUS
  <1>4. f \in Nat \ {0} /\ d < l
    BY <1>1, <1>2
  <1>5. a \div f = d /\ a % f = m
    BY <1>2, <1>3, <1>4, DivModOf
  <1>6. a \in Nat /\ a < l * f
    <2>1. f * d \in Nat
      BY NatTimes
    <2>2. PICK e \in Nat : l = d + 1 + e
      <3>1. l - d - 1 \in Nat /\ l = d + 1 + (l - d - 1)
        BY <1>4
      <3> QED BY <3>1
    <2>3. l * f = f * d + f + f * e /\ f * e \in Nat
      BY <2>2
    <2> QED BY <1>3, <1>4, <2>1, <2>3
  <1>7. a + 1 \in 1 .. Todo(q)
    <2>1. l * f \in Nat /\ Todo(q) = l * f
      BY <1>1, NatTimes DEF Todo
    <2> QED BY <1>6, <2>1
  <1>8. (a + 1) - 1 = a /\ d + 1 = i /\ m + 1 = j
    BY <1>1, <1>2, <1>6
  <1>9. Row(q, a + 1) = i /\ Col(q, a + 1) = j
    BY <1>1, <1>5, <1>8 DEF Row, Col
  <1> QED BY <1>7, <1>9

-----------------------------------------------------------------------------
(* Steps that store *)

LEMMA StoreEntry ==
    ASSUME StateTyped, IngestedOnce, EntryInv, IsFiniteSet(Entries),
           NEW event, NEW from, NEW msg, Store(event, from, msg),
           NEW k \in Keys, k = <<event.tenant, event.type>>,
           \A x \in Entries : EntryOf(x).from[1] = from[1] => EntryOf(x).from[2] < from[2],
           from[2] \in Nat,
           ingested' = Cardinality(Entries) + 1 + Cardinality(InFlight'),
           clock \in Nat, clock' \in Nat, clock <= clock', \A r \in Requests : Grows(r),
           NEW e, e = Entry(event, from, msg), FromMessage(e)' \/ FromPost(e)'
    PROVE  /\ IngestedOnce' /\ EntryInv' /\ IsFiniteSet(Entries')
           /\ log' = [j \in Keys |-> log'[j]] /\ buffer' = [j \in Keys |-> buffer'[j]]
           /\ \A j \in Keys : log'[j] \in Seq(Range(log'[j]))
           /\ \A s : s # from[1] => NoNew(s) /\ FromOf(s)' = FromOf(s)
           /\ \E z : /\ z \notin Entries /\ Entries' = Entries \cup {z}
                     /\ EntryOf(z)' = e /\ \A x \in Entries : EntryOf(x)' = EntryOf(x)
                     /\ z \notin FromOf(from[1]) /\ FromOf(from[1])' = FromOf(from[1]) \cup {z}
  <1>0. \A j \in Keys : buffer[j] = Recent(log[j])
    BY OnceParts
  <1>1. IngestedOnce' /\ IsFiniteSet(Entries')
    BY StoreKeeps
  <1>2. /\ log' = [j \in Keys |-> log'[j]] /\ buffer' = [j \in Keys |-> buffer'[j]]
        /\ \A j \in Keys : log'[j] \in Seq(Range(log'[j]))
    BY <1>0, StoreFacts
  <1>3. PICK z : /\ z = <<k, Len(log[k]) + 1>> /\ z \notin Entries
                 /\ Entries' = Entries \cup {z} /\ EntryOf(z)' = e
                 /\ \A x \in Entries : EntryOf(x)' = EntryOf(x)
    BY <1>0, StoreFacts
  <1>4. e.from = from /\ e.event = event
    BY DEF Entry
  <1>5. ASSUME NEW s, s # from[1] PROVE NoNew(s) /\ FromOf(s)' = FromOf(s)
    <2>1. NoNew(s)
      BY <1>3, <1>4, <1>5 DEF NoNew
    <2> QED BY <1>3, <2>1, FromOfStays
  <1>6. z \notin FromOf(from[1]) /\ FromOf(from[1])' = FromOf(from[1]) \cup {z}
    <2>1. z \notin FromOf(from[1])
      BY <1>3 DEF FromOf
    <2>2. z \in Entries' /\ (EntryOf(z).from)'[1] = from[1]
      BY <1>3, <1>4
    <2>3. ASSUME NEW x \in Entries PROVE x \in Entries' /\ (EntryOf(x).from)' = EntryOf(x).from
      BY <1>3
    <2>4. ASSUME NEW x \in Entries', x # z PROVE x \in Entries
      BY <1>3, <2>4
    <2>5. ASSUME NEW x \in FromOf(from[1])' PROVE x \in FromOf(from[1]) \cup {z}
      <3>1. x \in Entries' /\ (EntryOf(x).from)'[1] = from[1]
        BY <2>5 DEF FromOf
      <3>2. CASE x # z
        <4>1. x \in Entries /\ (EntryOf(x).from)' = EntryOf(x).from
          BY <2>3, <2>4, <3>1, <3>2
        <4>2. EntryOf(x).from[1] = from[1]
          BY <3>1, <4>1
        <4> QED BY <4>1, <4>2 DEF FromOf
      <3> QED BY <3>2
    <2>6. ASSUME NEW x \in FromOf(from[1]) \cup {z} PROVE x \in FromOf(from[1])'
      <3>1. CASE x = z
        BY <2>2, <3>1 DEF FromOf
      <3>2. CASE x \in FromOf(from[1])
        <4>1. x \in Entries /\ EntryOf(x).from[1] = from[1]
          BY <3>2 DEF FromOf
        <4>2. x \in Entries' /\ (EntryOf(x).from)'[1] = from[1]
          BY <2>3, <4>1
        <4> QED BY <4>2 DEF FromOf
      <3> QED BY <3>1, <3>2
    <2> QED BY <2>1, <2>5, <2>6
  <1>7. EntryInv'
    <2>1. ASSUME NEW x \in Entries'
          PROVE  /\ FromMessage(EntryOf(x))' \/ FromPost(EntryOf(x))'
                 /\ x[1] = <<(EntryOf(x).event.tenant)', (EntryOf(x).event.type)'>>
      <3>1. PICK y : y = EntryOf(x)'
        OBVIOUS
      <3>2. /\ FromMessage(y)' \/ FromPost(y)'
            /\ x[1] = <<y.event.tenant, y.event.type>>
        <4>1. CASE x = z
          <5>1. y = e
            BY <1>3, <3>1, <4>1
          <5>2. x[1] = k
            BY <1>3, <4>1
          <5> QED BY <1>4, <5>1, <5>2
        <4>2. CASE x \in Entries
          <5>1. y = EntryOf(x)
            BY <1>3, <3>1, <4>2
          <5>2. /\ FromMessage(EntryOf(x)) \/ FromPost(EntryOf(x))
                /\ x[1] = <<EntryOf(x).event.tenant, EntryOf(x).event.type>>
            BY <4>2 DEF EntryInv
          <5>3. /\ FromMessage(y) \/ FromPost(y)
                /\ x[1] = <<y.event.tenant, y.event.type>>
            BY <5>1, <5>2
          <5> QED BY <5>3, OriginStays
        <4> QED BY <1>3, <4>1, <4>2
      <3>3. FromMessage(EntryOf(x))' \/ FromPost(EntryOf(x))'
        BY <3>1, <3>2 DEF FromMessage, FromPost
      <3> QED BY <3>1, <3>2, <3>3
    <2> QED BY <2>1 DEF EntryInv
  <1> QED BY <1>1, <1>2, <1>3, <1>5, <1>6, <1>7

\* The next call of a request and what it makes of the request.
AfterCall(q) == [q EXCEPT !.at = q.at + 1, !.calls = Append(q.calls, CallAt(q, q.at))]

LEMMA DispatchFacts ==
    ASSUME NEW q \in Request, WebhookInv(q), q.to \in Receivers, q.pc = "dispatch",
           q.at <= Todo(q), IsFiniteSet(EngineCalls(q)), NEW c, c = AfterCall(q)
    PROVE  /\ c \in Request /\ WebhookInv(c) /\ StreamInv(c) /\ c.to = q.to /\ c.pc = "dispatch"
           /\ c.items = q.items /\ c.calls = Append(q.calls, CallAt(q, q.at))
           /\ DOMAIN c.calls = 1 .. q.at /\ c.calls[q.at] = CallAt(q, q.at)
           /\ DOMAIN q.calls = 1 .. q.at - 1 /\ \A n \in 1 .. q.at - 1 : c.calls[n] = q.calls[n]
           /\ Len(q.items) \in Nat /\ Len(q.fns) \in Nat /\ q.at \in 1 .. Todo(q)
           /\ DOMAIN q.items = 1 .. Len(q.items)
           /\ Called(q) /\ (q.to = "falco" => \A i \in DOMAIN q.items : q.items[i].host \in Tenants)
           /\ CallAt(q, q.at) = <<Row(q, q.at), q.fns[Col(q, q.at)]>>
           /\ Row(q, q.at) \in 1 .. Len(q.items)
           /\ IsFiniteSet(EngineCalls(c))
           /\ q.at \notin EngineCalls(q)
           /\ CallAt(q, q.at)[2] = "engine" => EngineCalls(c) = EngineCalls(q) \cup {q.at}
           /\ CallAt(q, q.at)[2] # "engine" => EngineCalls(c) = EngineCalls(q)
  <1>1. /\ Called(q) /\ q.items \in Seq({x \in Range(q.items) : IsEvent(x)})
        /\ q.to = "falco" => /\ \A i \in DOMAIN q.items : q.items[i].host \in Tenants
                            /\ q.items = q.sent
        /\ q.answer = 0
    BY DEF WebhookInv
  <1>2. /\ q.fns \in Seq(Fns) /\ Len(q.fns) \in Nat /\ q.at \in Nat \ {0}
        /\ q.calls \in Seq(Nat \X Fns) /\ Len(q.calls) \in Nat /\ q.before \in Nat
        /\ DOMAIN q.calls = 1 .. Len(q.calls)
    BY RequestFields
  <1>3. Len(q.items) \in Nat /\ Todo(q) \in Nat /\ DOMAIN q.items = 1 .. Len(q.items)
    BY <1>1, <1>2, TodoNat, SeqFacts
  <1>4. q.at \in 1 .. Todo(q) /\ Len(q.calls) = q.at - 1
    BY <1>1, <1>2, <1>3 DEF Called
  <1>5. PICK call : call = CallAt(q, q.at)
    OBVIOUS
  <1>6. /\ call = <<Row(q, q.at), q.fns[Col(q, q.at)]>>
        /\ Row(q, q.at) \in 1 .. Len(q.items) /\ Col(q, q.at) \in 1 .. Len(q.fns)
    BY <1>2, <1>3, <1>4, <1>5, CallAtFacts
  <1>7. call \in Nat \X Fns
    <2>1. DOMAIN q.fns = 1 .. Len(q.fns) /\ \A j \in DOMAIN q.fns : q.fns[j] \in Fns
      BY <1>2, SeqFacts
    <2>2. q.fns[Col(q, q.at)] \in Fns /\ Row(q, q.at) \in Nat
      BY <1>3, <1>6, <2>1
    <2> QED BY <1>6, <2>2
  <1>8. PICK at2, calls2 : at2 = q.at + 1 /\ calls2 = Append(q.calls, call)
    OBVIOUS
  <1>9. at2 \in Nat \ {0} /\ calls2 \in Seq(Nat \X Fns)
    BY <1>2, <1>7, <1>8, AppendProperties
  <1>10. c = [q EXCEPT !.at = at2, !.calls = calls2]
    BY <1>5, <1>8 DEF AfterCall
  <1>11. /\ c \in Request /\ c.pc = q.pc /\ c.to = q.to /\ c.items = q.items /\ c.fns = q.fns
         /\ c.at = at2 /\ c.calls = calls2 /\ c.answer = q.answer /\ c.before = q.before
         /\ c.sent = q.sent
    BY <1>9, <1>10 DEF Request
  <1>12. c.calls = Append(q.calls, call) /\ Len(q.calls) + 1 = q.at
    BY <1>2, <1>4, <1>8, <1>11
  <1>13. /\ Len(c.calls) = Len(q.calls) + 1 /\ DOMAIN c.calls = 1 .. Len(q.calls) + 1
         /\ c.calls[Len(q.calls) + 1] = call
         /\ \A n \in 1 .. Len(q.calls) : c.calls[n] = q.calls[n]
         /\ Len(q.calls) + 1 \notin EngineCalls(q)
    BY <1>12, CallsGrow
  <1>14. /\ Len(c.calls) = q.at /\ DOMAIN c.calls = 1 .. q.at /\ c.calls[q.at] = call
         /\ DOMAIN q.calls = 1 .. q.at - 1
         /\ \A n \in 1 .. q.at - 1 : c.calls[n] = q.calls[n]
         /\ q.at \notin EngineCalls(q)
    BY <1>2, <1>4, <1>12, <1>13
  <1>15. IsFiniteSet(EngineCalls(c))
    BY <1>12, EngineCallsFinite
  <1>16. /\ call[2] = "engine" => EngineCalls(c) = EngineCalls(q) \cup {q.at}
         /\ call[2] # "engine" => EngineCalls(c) = EngineCalls(q)
    <2>1. EngineCalls(c) = IF call[2] = "engine" THEN EngineCalls(q) \cup {Len(q.calls) + 1}
                                                 ELSE EngineCalls(q)
      BY <1>12, CallsGrow
    <2> QED BY <1>12, <2>1
  <1>17. Called(c)
    <2>1. Todo(c) = Todo(q) /\ \A n : CallAt(c, n) = CallAt(q, n)
      BY <1>11 DEF Todo, CallAt
    <2>2. Len(c.calls) = c.at - 1 /\ c.at <= Todo(c) + 1
      BY <1>2, <1>3, <1>4, <1>8, <1>11, <1>14, <2>1
    <2>3. ASSUME NEW n \in DOMAIN c.calls PROVE c.calls[n] = CallAt(c, n)
      <3>1. CASE n = q.at
        BY <1>5, <1>14, <2>1, <3>1
      <3>2. CASE n # q.at
        <4>1. n \in 1 .. q.at - 1
          BY <1>2, <1>14, <3>2
        <4> QED BY <1>1, <1>14, <2>1, <4>1 DEF Called
      <3> QED BY <3>1, <3>2
    <2>4. /\ c.before <= Len(c.fns) /\ Len(c.fns) <= Len(handlers[c.to])
          /\ \A j \in 1 .. Len(c.fns) : c.fns[j] = handlers[c.to][j]
      BY <1>1, <1>11 DEF Called
    <2> QED BY <2>2, <2>3, <2>4 DEF Called
  <1>18. WebhookInv(c)
    BY <1>1, <1>11, <1>17 DEF WebhookInv
  <1>19. StreamInv(c)
    BY <1>11 DEF StreamInv, Receivers
  <1> QED BY <1>1, <1>2, <1>3, <1>4, <1>5, <1>6, <1>11, <1>12, <1>14, <1>15, <1>16, <1>18, <1>19

LEMMA DispatchMoves ==
    ASSUME IngestInv, NEW r \in Requests, Dispatch(r), NEW q, q = req[r], NEW c, c = AfterCall(q)
    PROVE  /\ q \in Request /\ WebhookInv(q) /\ q.to \in Receivers /\ q.pc = "dispatch"
           /\ q.at <= Todo(q) /\ IsFiniteSet(EngineCalls(q))
           /\ q.to = "falco" => Cardinality(FromOf(r)) = Cardinality(EngineCalls(q))
           /\ req' = [req EXCEPT ![r] = c] /\ Grows(r)
  <1>1. /\ q \in Request /\ WebhookInv(q) /\ q.to \in Receivers /\ q.pc = "dispatch"
        /\ q.at <= Todo(q) /\ IsFiniteSet(EngineCalls(q))
        /\ q.to = "falco" => Cardinality(FromOf(r)) = Cardinality(EngineCalls(q))
    BY RequestKind DEF Dispatch
  <1>2. req \in [Requests -> Request]
    BY DEF IngestInv, StateTyped
  <1>3. req' = [req EXCEPT ![r] = c]
    <2>1. PICK call : call = CallAt(q, q.at)
      OBVIOUS
    <2>2. req' = [req EXCEPT ![r].at = @ + 1, ![r].calls = Append(@, call)]
      BY <2>1 DEF Dispatch
    <2>3. req' = [req EXCEPT ![r] = [req[r] EXCEPT !.at = req[r].at + 1,
                                                   !.calls = Append(req[r].calls, call)]]
      BY <1>2, <2>2
    <2> QED BY <2>1, <2>3 DEF AfterCall
  <1>4. Grows(r)
    <2>1. /\ c.to = q.to /\ c.items = q.items /\ DOMAIN c.calls = 1 .. q.at
          /\ DOMAIN q.calls = 1 .. q.at - 1 /\ \A n \in 1 .. q.at - 1 : c.calls[n] = q.calls[n]
      BY <1>1, DispatchFacts
    <2>2. req'[r] = c
      BY <1>2, <1>3
    <2>3. \A n \in 1 .. q.at - 1 : n \in 1 .. q.at
      <3>1. q.at \in Nat \ {0}
        BY <1>1, RequestFields
      <3> QED BY <3>1
    <2> QED BY <2>1, <2>2, <2>3 DEF Grows
  <1> QED BY <1>1, <1>3, <1>4

\* A call of a handler other than the engine's.
LEMMA OtherCallKeeps ==
    ASSUME IngestInv, NEW r \in Requests, Dispatch(r),
           ~(req[r].to = "falco" /\ CallAt(req[r], req[r].at)[2] = "engine")
    PROVE  IngestInv'
  <1>1. PICK q : q = req[r]
    OBVIOUS
  <1>2. PICK c : c = AfterCall(q)
    OBVIOUS
  <1>3. /\ q \in Request /\ WebhookInv(q) /\ q.to \in Receivers /\ q.pc = "dispatch"
        /\ q.at <= Todo(q) /\ IsFiniteSet(EngineCalls(q))
        /\ q.to = "falco" => Cardinality(FromOf(r)) = Cardinality(EngineCalls(q))
        /\ req' = [req EXCEPT ![r] = c] /\ Grows(r)
    BY <1>1, <1>2, DispatchMoves
  <1>4. /\ c \in Request /\ WebhookInv(c) /\ StreamInv(c) /\ c.to = q.to /\ c.pc = "dispatch"
        /\ IsFiniteSet(EngineCalls(c))
        /\ CallAt(q, q.at)[2] # "engine" => EngineCalls(c) = EngineCalls(q)
    BY <1>2, <1>3, DispatchFacts
  <1>5. c.to # "" /\ c.pc # "ready"
    BY <1>3, <1>4 DEF Receivers
  <1>6. c.to = "falco" => Cardinality(FromOf(r)) = Cardinality(EngineCalls(c))
    BY <1>1, <1>3, <1>4
  <1>7. UNCHANGED <<clock, pending, cb, buffer, ingested, handlers, log>> /\ inputs' = inputs
    BY DEF Dispatch
  <1>8. inputs' \in 0 .. MaxInputs /\ inputs <= inputs'
    BY <1>7, InputsStay DEF IngestInv
  <1> QED BY <1>3, <1>4, <1>5, <1>6, <1>7, <1>8, RequestMoves

\* The engine was called for earlier items only.
LEMMA EngineOrder ==
    ASSUME IngestInv, NEW r \in Requests, NEW q, q = req[r], q.to = "falco", q.pc = "dispatch",
           q.at <= Todo(q), CallAt(q, q.at)[2] = "engine",
           NEW x \in Entries, EntryOf(x).from[1] = r
    PROVE  EntryOf(x).from[2] < Row(q, q.at)
  <1>1. q \in Request /\ WebhookInv(q) /\ IsFiniteSet(EngineCalls(q)) /\ q.to \in Receivers
    BY RequestKind
  <1>2. PICK c : c = AfterCall(q)
    OBVIOUS
  <1>3. /\ DOMAIN q.calls = 1 .. q.at - 1 /\ Len(q.items) \in Nat /\ Len(q.fns) \in Nat
        /\ q.at \in 1 .. Todo(q) /\ Called(q)
        /\ CallAt(q, q.at) = <<Row(q, q.at), q.fns[Col(q, q.at)]>>
    BY <1>1, <1>2, DispatchFacts
  <1>4. FromPost(EntryOf(x))
    <2>1. FromMessage(EntryOf(x)) \/ FromPost(EntryOf(x))
      BY DEF IngestInv, EntryInv
    <2> QED BY <2>1, RequestsAssumption DEF FromMessage
  <1>5. PICK i : i = EntryOf(x).from[2]
    OBVIOUS
  <1>6. PICK n \in DOMAIN q.calls : q.calls[n] = <<i, "engine">>
    BY <1>4, <1>5 DEF FromPost
  <1>7. n \in 1 .. Todo(q) /\ n < q.at /\ q.at \in Nat
    <2>1. Todo(q) \in Nat
      BY <1>3, NatTimes DEF Todo
    <2> QED BY <1>3, <1>6, <2>1
  <1>8. q.calls[n] = CallAt(q, n)
    BY <1>3, <1>6 DEF Called
  <1>9. CallAt(q, n) = <<Row(q, n), q.fns[Col(q, n)]>> /\ Col(q, n) \in 1 .. Len(q.fns)
    BY <1>3, <1>7, CallAtFacts
  <1>10. Col(q, q.at) \in 1 .. Len(q.fns)
    BY <1>3, CallAtFacts
  <1>11. Row(q, n) = i /\ q.fns[Col(q, n)] = "engine" /\ q.fns[Col(q, q.at)] = "engine"
    BY <1>3, <1>6, <1>8, <1>9
  <1>12. Col(q, n) = Col(q, q.at)
    <2>1. /\ Len(q.fns) <= Len(handlers[q.to])
          /\ \A j \in 1 .. Len(q.fns) : q.fns[j] = handlers[q.to][j]
      BY <1>3 DEF Called
    <2>2. DOMAIN handlers[q.to] = 1 .. Len(handlers[q.to]) /\ Len(handlers[q.to]) \in Nat
      BY <1>1 DEF IngestInv, StateTyped
    <2>3. Col(q, n) \in DOMAIN handlers[q.to] /\ Col(q, q.at) \in DOMAIN handlers[q.to]
      BY <1>3, <1>9, <1>10, <2>1, <2>2
    <2>4. handlers[q.to][Col(q, n)] = handlers[q.to][Col(q, q.at)]
      BY <1>9, <1>10, <1>11, <2>1
    <2> QED BY <1>1, <2>3, <2>4 DEF IngestInv, HandlersOnce
  <1>13. Row(q, n) < Row(q, q.at)
    <2>1. \/ Row(q, n) < Row(q, q.at)
          \/ Row(q, n) = Row(q, q.at) /\ Col(q, n) < Col(q, q.at)
      BY <1>3, <1>7, CallOrder
    <2> QED BY <1>3, <1>9, <1>12, <2>1
  <1> QED BY <1>5, <1>11, <1>13

\* A call of the engine's handler.
LEMMA EngineCallKeeps ==
    ASSUME IngestInv, NEW r \in Requests, Dispatch(r),
           req[r].to = "falco", CallAt(req[r], req[r].at)[2] = "engine"
    PROVE  IngestInv'
  <1>0. /\ StateTyped /\ EntryInv /\ IngestedOnce /\ HandlersOnce
        /\ IsFiniteSet(Entries) /\ IsFiniteSet(InFlight)
    BY DEF IngestInv
  <1>1. PICK q : q = req[r]
    OBVIOUS
  <1>2. PICK c : c = AfterCall(q)
    OBVIOUS
  <1>3. /\ q \in Request /\ WebhookInv(q) /\ q.to \in Receivers /\ q.pc = "dispatch"
        /\ q.at <= Todo(q) /\ IsFiniteSet(EngineCalls(q)) /\ q.to = "falco"
        /\ Cardinality(FromOf(r)) = Cardinality(EngineCalls(q))
        /\ req' = [req EXCEPT ![r] = c] /\ Grows(r)
    BY <1>1, <1>2, DispatchMoves
  <1>4. /\ c \in Request /\ WebhookInv(c) /\ StreamInv(c) /\ c.to = q.to /\ c.pc = "dispatch"
        /\ c.items = q.items /\ DOMAIN c.calls = 1 .. q.at /\ c.calls[q.at] = CallAt(q, q.at)
        /\ Len(q.items) \in Nat /\ DOMAIN q.items = 1 .. Len(q.items)
        /\ q.at \in 1 .. Todo(q)
        /\ \A i \in DOMAIN q.items : q.items[i].host \in Tenants
        /\ CallAt(q, q.at) = <<Row(q, q.at), q.fns[Col(q, q.at)]>>
        /\ Row(q, q.at) \in 1 .. Len(q.items)
        /\ IsFiniteSet(EngineCalls(c)) /\ q.at \notin EngineCalls(q)
        /\ EngineCalls(c) = EngineCalls(q) \cup {q.at}
    BY <1>1, <1>2, <1>3, DispatchFacts
  <1>5. PICK i, alert, from : i = Row(q, q.at) /\ alert = q.items[i] /\ from = <<r, i>>
    OBVIOUS
  <1>6. PICK event, msg : event = FalcoWebhookEvent(alert, clock) /\ msg = [data |-> alert]
    OBVIOUS
  <1>7. CallAt(q, q.at)[1] = i
    BY <1>4, <1>5
  <1>8. /\ clock' = clock + 1 /\ ingested' = ingested + 1 /\ Store(event, from, msg)
        /\ inputs' = inputs /\ pending' = pending /\ cb' = cb /\ handlers' = handlers
    BY <1>1, <1>5, <1>6, <1>7 DEF Dispatch, IngestFalcoAlert
  <1>9. clock \in Nat /\ clock' \in Nat /\ clock <= clock' /\ ingested \in Nat
    BY <1>0, <1>8 DEF StateTyped
  <1>10. i \in DOMAIN q.items /\ i \in Nat /\ from[1] = r /\ from[2] = i
    BY <1>4, <1>5
  <1>11. PICK k : k = <<event.tenant, event.type>>
    OBVIOUS
  <1>12. k \in Keys
    <2>1. SoundEvent(event, alert.host)
      BY <1>6, <1>9, WebhookEvent
    <2>2. alert.host \in Tenants
      BY <1>4, <1>5, <1>10
    <2> QED BY <1>11, <2>1, <2>2 DEF SoundEvent, Keys, EventTypes
  <1>13. \A x \in Entries : EntryOf(x).from[1] = from[1] => EntryOf(x).from[2] < from[2]
    BY <1>1, <1>3, <1>5, <1>10, EngineOrder
  <1>14. /\ req'[r] = c /\ \A p \in Requests \ {r} : req'[p] = req[p]
         /\ req' \in [Requests -> Request]
    BY <1>0, <1>3, <1>4 DEF StateTyped
  <1>15. \A p \in Requests : Grows(p)
    BY <1>3, <1>14 DEF Grows
  <1>16. InFlight' = InFlight
    BY <1>8 DEF InFlight
  <1>17. ingested' = Cardinality(Entries) + 1 + Cardinality(InFlight')
    <2>1. Cardinality(Entries) \in Nat /\ Cardinality(InFlight) \in Nat
      BY <1>0, FS_CardinalityType
    <2>2. ingested = Cardinality(Entries) + Cardinality(InFlight)
      BY <1>0, OnceParts
    <2> QED BY <1>8, <1>16, <2>1, <2>2
  <1>18. PICK e : e = Entry(event, from, msg)
    OBVIOUS
  <1>19. e.event = event /\ e.from = from /\ e.msg = msg /\ msg.data = alert
    BY <1>6, <1>18 DEF Entry
  <1>20. FromPost(e)'
    <2>1. \E n \in DOMAIN c.calls : c.calls[n] = <<i, "engine">>
      <3>1. c.calls[q.at] = <<i, "engine">> /\ q.at \in DOMAIN c.calls
        <4>1. q.fns[Col(q, q.at)] = "engine"
          BY <1>1, <1>4
        <4>2. q.at \in 1 .. q.at
          BY <1>4
        <4> QED BY <1>4, <1>5, <4>1, <4>2
      <3> QED BY <3>1
    <2>2. \E t \in 0 .. clock' : event = FalcoWebhookEvent(alert, t)
      <3>1. clock \in 0 .. clock'
        BY <1>9
      <3> QED BY <1>6, <3>1
    <2>3. /\ e.from[1] = r /\ e.from[2] = i /\ e.msg = [data |-> c.items[i]]
          /\ e.msg.data = alert /\ e.event = event /\ i \in DOMAIN c.items /\ c.to = "falco"
      BY <1>3, <1>4, <1>5, <1>6, <1>10, <1>19
    <2> QED BY <1>14, <2>1, <2>2, <2>3 DEF FromPost
  <1>21. /\ IngestedOnce' /\ EntryInv' /\ IsFiniteSet(Entries')
         /\ log' = [j \in Keys |-> log'[j]] /\ buffer' = [j \in Keys |-> buffer'[j]]
         /\ \A j \in Keys : log'[j] \in Seq(Range(log'[j]))
         /\ \A s : s # from[1] => NoNew(s) /\ FromOf(s)' = FromOf(s)
         /\ \E z : z \notin FromOf(from[1]) /\ FromOf(from[1])' = FromOf(from[1]) \cup {z}
    BY <1>0, <1>8, <1>9, <1>10, <1>11, <1>12, <1>13, <1>15, <1>17, <1>18, <1>20, StoreEntry
  <1>22. StateTyped'
    <2>1. ingested' \in Nat
      BY <1>8, <1>9
    <2> QED BY <1>0, <1>8, <1>9, <1>14, <1>21, <2>1 DEF StateTyped
  <1>23. ASSUME NEW s \in allSubjects PROVE SubscriptionInv(s)'
    <2>1. SubscriptionInv(s) /\ NoNew(s)
      BY <1>10, <1>21, RequestsAssumption DEF IngestInv
    <2>2. inputs <= inputs'
      BY <1>0, <1>8, InputsStay
    <2>3. cb'[s] = cb[s] /\ pending'[s] = pending[s]
      BY <1>8
    <2> QED BY <1>0, <1>9, <1>22, <2>1, <2>2, <2>3, SubscriptionStays
  <1>24. HandlersGrow /\ HandlersOnce'
    BY <1>0, <1>8, HandlersStay DEF HandlersOnce
  <1>25. ASSUME NEW p \in Requests PROVE RequestInv(p)'
    <2>1. CASE p # r
      <3>1. RequestInv(p) /\ req'[p] = req[p] /\ FromOf(p)' = FromOf(p)
        BY <1>10, <1>14, <1>21, <2>1 DEF IngestInv
      <3> QED BY <1>0, <1>24, <3>1, RequestStays
    <2>2. CASE p = r
      <3>1. WebhookInv(c)'
        BY <1>4, <1>24, WebhookStays
      <3>2. StreamInv(c)'
        BY <1>4 DEF StreamInv, IsEvent
      <3>3. WebhookInv(req[r])' /\ StreamInv(req[r])'
        BY <1>14, <3>1, <3>2, RequestIs
      <3>4. Cardinality(FromOf(r)') = Cardinality(EngineCalls(c))
        <4>1. PICK z : z \notin FromOf(r) /\ FromOf(r)' = FromOf(r) \cup {z}
          BY <1>10, <1>21
        <4>2. IsFiniteSet(FromOf(r))
          <5>1. FromOf(r) \subseteq Entries
            BY DEF FromOf
          <5> QED BY <1>0, <5>1, FS_Subset
        <4>3. Cardinality(FromOf(r)') = Cardinality(FromOf(r)) + 1
          BY <4>1, <4>2, FS_AddElement
        <4>4. Cardinality(EngineCalls(c)) = Cardinality(EngineCalls(q)) + 1
          BY <1>3, <1>4, FS_AddElement
        <4> QED BY <1>3, <4>3, <4>4
      <3>5. c.to # "" /\ c.pc # "ready"
        BY <1>3, <1>4
      <3> QED BY <1>4, <1>14, <2>2, <3>3, <3>4, <3>5 DEF RequestInv
    <2> QED BY <2>1, <2>2
  <1> QED BY <1>0, <1>16, <1>21, <1>22, <1>23, <1>24, <1>25 DEF IngestInv

LEMMA DispatchKeeps ==
    ASSUME IngestInv, NEW r \in Requests, Dispatch(r)
    PROVE  IngestInv'
  BY OtherCallKeeps, EngineCallKeeps

-----------------------------------------------------------------------------
(* Subscriptions *)

LEMMA IdleIs == Idle.n = 0
  BY DEF Idle

LEMMA PendingFacts ==
    ASSUME StateTyped, NEW s \in allSubjects
    PROVE  /\ inputs \in Nat /\ inputs \in 0 .. MaxInputs
           /\ pending[s] \in Seq([n : Nat, msg : Messages])
           /\ pending[s] \in Seq(Range(pending[s])) /\ Len(pending[s]) \in Nat
           /\ DOMAIN pending[s] = 1 .. Len(pending[s])
           /\ \A j \in DOMAIN pending[s] : pending[s][j].n \in Nat /\ pending[s][j].msg \in Messages
  <1>1. inputs \in 0 .. MaxInputs /\ pending \in [allSubjects -> Seq([n : Nat, msg : Messages])]
    BY DEF StateTyped
  <1>2. inputs \in Nat
    BY <1>1, IngestAssumption
  <1>3. pending[s] \in Seq([n : Nat, msg : Messages])
    BY <1>1
  <1>4. /\ pending[s] \in Seq(Range(pending[s])) /\ Len(pending[s]) \in Nat
        /\ DOMAIN pending[s] = 1 .. Len(pending[s])
        /\ \A j \in DOMAIN pending[s] : pending[s][j] \in [n : Nat, msg : Messages]
    BY <1>3, SeqFacts
  <1> QED BY <1>1, <1>2, <1>3, <1>4

LEMMA AppendEventKeeps ==
    ASSUME IngestInv, NEW s \in allSubjects, AppendEvent(s)
    PROVE  IngestInv'
  <1>0. /\ StateTyped /\ EntryInv /\ IngestedOnce /\ HandlersOnce
        /\ IsFiniteSet(Entries) /\ IsFiniteSet(InFlight) /\ SubscriptionInv(s)
    BY DEF IngestInv
  <1>1. PICK event, from, msg : event = cb[s].event /\ from = <<s, cb[s].n>> /\ msg = cb[s].msg
    OBVIOUS
  <1>2. /\ cb[s].n # 0 /\ Store(event, from, msg) /\ cb' = [cb EXCEPT ![s] = Idle]
        /\ clock' = clock /\ inputs' = inputs /\ pending' = pending /\ ingested' = ingested
        /\ handlers' = handlers /\ req' = req
    BY <1>1 DEF AppendEvent
  <1>3. clock \in Nat /\ clock' \in Nat /\ clock <= clock'
    BY <1>0, <1>2, ClockStays
  <1>4. /\ msg \in Messages /\ Parses(msg) /\ cb[s].n \in Nat
        /\ \E t \in 0 .. clock : event = parseEvent(msg, t)
    BY <1>0, <1>1, <1>2 DEF SubscriptionInv
  <1>5. from[1] = s /\ from[2] = cb[s].n /\ from[2] \in Nat
    BY <1>1, <1>4
  <1>6. PICK k : k = <<event.tenant, event.type>>
    OBVIOUS
  <1>7. k \in Keys
    <2>1. PICK t \in 0 .. clock : event = parseEvent(msg, t)
      BY <1>4
    <2>2. t \in Nat
      BY <1>3
    <2>3. SoundEvent(event, extractTenantID(msg.subject)) /\ extractTenantID(msg.subject) \in Tenants
      BY <1>4, <2>1, <2>2, EventFacts
    <2> QED BY <1>6, <2>3 DEF SoundEvent, Keys, EventTypes
  <1>8. \A x \in Entries : EntryOf(x).from[1] = from[1] => EntryOf(x).from[2] < from[2]
    BY <1>0, <1>2, <1>5 DEF SubscriptionInv
  <1>9. /\ cb'[s] = Idle /\ \A u \in allSubjects \ {s} : cb'[u] = cb[u]
        /\ cb' = [u \in allSubjects |-> cb'[u]]
    <2>1. cb = [u \in allSubjects |-> cb[u]]
      BY <1>0 DEF StateTyped
    <2> QED BY <1>2, <2>1
  <1>10. s \in InFlight /\ InFlight' = InFlight \ {s}
    BY <1>2, <1>9, IdleIs DEF InFlight
  <1>11. ingested' = Cardinality(Entries) + 1 + Cardinality(InFlight')
    <2>1. /\ Cardinality(Entries) \in Nat /\ Cardinality(InFlight) \in Nat
      BY <1>0, FS_CardinalityType
    <2>2. Cardinality(InFlight') = Cardinality(InFlight) - 1
      BY <1>0, <1>10, FS_RemoveElement
    <2>3. ingested = Cardinality(Entries) + Cardinality(InFlight)
      BY <1>0, OnceParts
    <2> QED BY <1>2, <2>1, <2>2, <2>3
  <1>12. IsFiniteSet(InFlight')
    BY <1>0, <1>10, FS_RemoveElement
  <1>13. \A p \in Requests : Grows(p)
    BY <1>2 DEF Grows
  <1>14. PICK e : e = Entry(event, from, msg)
    OBVIOUS
  <1>15. e.event = event /\ e.from = from /\ e.msg = msg
    BY <1>14 DEF Entry
  <1>16. FromMessage(e)'
    BY <1>2, <1>4, <1>5, <1>15 DEF FromMessage
  <1>17. /\ IngestedOnce' /\ EntryInv' /\ IsFiniteSet(Entries')
         /\ log' = [j \in Keys |-> log'[j]] /\ buffer' = [j \in Keys |-> buffer'[j]]
         /\ \A j \in Keys : log'[j] \in Seq(Range(log'[j]))
         /\ \A u : u # from[1] => NoNew(u) /\ FromOf(u)' = FromOf(u)
         /\ \E z : /\ z \notin Entries /\ Entries' = Entries \cup {z}
                   /\ EntryOf(z)' = e /\ \A x \in Entries : EntryOf(x)' = EntryOf(x)
    BY <1>0, <1>2, <1>3, <1>5, <1>6, <1>7, <1>8, <1>11, <1>13, <1>14, <1>16, StoreEntry
  <1>18. StateTyped'
    BY <1>0, <1>2, <1>9, <1>17 DEF StateTyped
  <1>19. ASSUME NEW u \in allSubjects PROVE SubscriptionInv(u)'
    <2>1. CASE u # s
      <3>1. SubscriptionInv(u) /\ NoNew(u) /\ cb'[u] = cb[u] /\ pending'[u] = pending[u]
        BY <1>2, <1>5, <1>9, <1>17, <2>1 DEF IngestInv
      <3>2. inputs <= inputs'
        BY <1>0, <1>2, InputsStay
      <3> QED BY <1>0, <1>3, <1>18, <3>1, <3>2, SubscriptionStays
    <2>2. CASE u = s
      <3>1. inputs \in Nat /\ \A j \in DOMAIN pending[s] : pending[s][j].n \in Nat
        BY <1>0, PendingFacts
      <3>2. /\ cb[s].n <= inputs /\ Len(pending[s]) <= PendingCap
            /\ \A j \in DOMAIN pending[s] :
                  /\ cb[s].n < pending[s][j].n /\ pending[s][j].n <= inputs
                  /\ \A i \in 1 .. j - 1 : pending[s][i].n < pending[s][j].n
        BY <1>0 DEF SubscriptionInv
      <3>3. cb'[s].n = 0 /\ pending'[s] = pending[s] /\ inputs' = inputs
        BY <1>2, <1>9, IdleIs
      <3>4. ASSUME NEW x \in Entries', (EntryOf(x).from)'[1] = s
            PROVE  /\ \A j \in DOMAIN pending'[s] : (EntryOf(x).from)'[2] < pending'[s][j].n
                   /\ (EntryOf(x).from)'[2] \in 0 .. inputs'
        <4>1. PICK z : /\ z \notin Entries /\ Entries' = Entries \cup {z} /\ EntryOf(z)' = e
                       /\ \A y \in Entries : EntryOf(y)' = EntryOf(y)
          BY <1>17
        <4>2. CASE x = z
          <5>1. (EntryOf(x).from)'[2] = cb[s].n
            BY <1>5, <1>15, <4>1, <4>2
          <5> QED BY <1>4, <3>1, <3>2, <3>3, <5>1
        <4>3. CASE x \in Entries
          <5>1. PICK y : y = EntryOf(x) /\ EntryOf(x)' = y
            BY <4>1, <4>3
          <5>2. y.from[1] = s
            BY <3>4, <5>1
          <5>3. /\ \A j \in DOMAIN pending[s] : y.from[2] < pending[s][j].n
                /\ y.from[2] \in 0 .. inputs
            BY <1>0, <4>3, <5>1, <5>2 DEF SubscriptionInv
          <5> QED BY <3>3, <5>1, <5>3
        <4> QED BY <4>1, <4>2, <4>3
      <3>5. /\ cb'[s].n <= inputs' /\ Len(pending'[s]) <= PendingCap
            /\ \A j \in DOMAIN pending'[s] :
                  /\ cb'[s].n < pending'[s][j].n /\ pending'[s][j].n <= inputs'
                  /\ \A i \in 1 .. j - 1 : pending'[s][i].n < pending'[s][j].n
        BY <1>4, <3>1, <3>2, <3>3
      <3> QED BY <2>2, <3>3, <3>4, <3>5 DEF SubscriptionInv
    <2> QED BY <2>1, <2>2
  <1>20. HandlersGrow /\ HandlersOnce'
    BY <1>0, <1>2, HandlersStay DEF HandlersOnce
  <1>21. ASSUME NEW p \in Requests PROVE RequestInv(p)'
    <2>1. RequestInv(p) /\ req'[p] = req[p] /\ FromOf(p)' = FromOf(p)
      BY <1>2, <1>5, <1>17, RequestsAssumption DEF IngestInv
    <2> QED BY <1>0, <1>20, <2>1, RequestStays
  <1> QED BY <1>12, <1>17, <1>18, <1>19, <1>20, <1>21 DEF IngestInv

\* A step that leaves the log, the requests and the handlers alone.
LEMMA QuietKeeps ==
    ASSUME IngestInv, log' = log, buffer' = buffer, req' = req, HandlersGrow, HandlersOnce',
           clock <= clock', StateTyped', IsFiniteSet(InFlight'),
           ingested' + Cardinality(InFlight) = ingested + Cardinality(InFlight'),
           \A s \in allSubjects : SubscriptionInv(s)'
    PROVE  IngestInv'
  <1>0. /\ StateTyped /\ EntryInv /\ IngestedOnce
        /\ IsFiniteSet(Entries) /\ IsFiniteSet(InFlight)
    BY DEF IngestInv
  <1>1. clock \in Nat /\ clock' \in Nat /\ ingested \in Nat /\ ingested' \in Nat
    BY <1>0 DEF StateTyped
  <1>2. \A p \in Requests : Grows(p)
    BY DEF Grows
  <1>3. EntryInv'
    BY <1>0, <1>1, <1>2, EntryInvStays
  <1>4. IngestedOnce'
    BY <1>0, <1>1, OnceStays
  <1>5. Entries' = Entries
    BY EntriesStay
  <1>6. ASSUME NEW p \in Requests PROVE RequestInv(p)'
    <2>1. RequestInv(p) /\ req'[p] = req[p] /\ FromOf(p)' = FromOf(p)
      BY QuietLog DEF IngestInv
    <2> QED BY <1>0, <2>1, RequestStays
  <1> QED BY <1>0, <1>3, <1>4, <1>5, <1>6 DEF IngestInv

LEMMA OnEventKeeps ==
    ASSUME IngestInv, NEW w \in Receivers, NEW h \in Handlers, OnEvent(w, h)
    PROVE  IngestInv'
  <1>0. StateTyped /\ HandlersOnce /\ IsFiniteSet(InFlight)
    BY DEF IngestInv
  <1>1. /\ h \notin Range(handlers[w]) /\ handlers' = [handlers EXCEPT ![w] = Append(@, h)]
        /\ clock' = clock /\ inputs' = inputs /\ pending' = pending /\ cb' = cb
        /\ buffer' = buffer /\ ingested' = ingested /\ req' = req /\ log' = log
    BY DEF OnEvent
  <1>2. handlers \in [Receivers -> Seq(Fns)] /\ h \in Fns
    BY <1>0 DEF StateTyped, Fns
  <1>3. /\ handlers' \in [Receivers -> Seq(Fns)] /\ handlers'[w] = Append(handlers[w], h)
        /\ \A v \in Receivers \ {w} : handlers'[v] = handlers[v]
    <2>1. handlers[w] \in Seq(Fns)
      BY <1>2
    <2>2. Append(handlers[w], h) \in Seq(Fns)
      BY <1>2, <2>1, AppendProperties
    <2> QED BY <1>1, <1>2, <2>2
  <1>4. /\ Len(handlers[w]) \in Nat /\ DOMAIN handlers[w] = 1 .. Len(handlers[w])
        /\ Len(handlers'[w]) = Len(handlers[w]) + 1
        /\ DOMAIN handlers'[w] = 1 .. Len(handlers[w]) + 1
        /\ handlers'[w][Len(handlers[w]) + 1] = h
        /\ \A j \in 1 .. Len(handlers[w]) : handlers'[w][j] = handlers[w][j]
    <2>1. handlers[w] \in Seq(Range(handlers[w]))
      <3>1. handlers[w] \in Seq(Fns)
        BY <1>2
      <3> QED BY <3>1, SeqFacts
    <2> QED BY <1>3, <2>1, AppendFacts
  <1>5. HandlersGrow
    <2> SUFFICES ASSUME NEW v \in Receivers
                 PROVE  /\ Len(handlers[v]) \in Nat /\ Len(handlers'[v]) \in Nat
                        /\ Len(handlers[v]) <= Len(handlers'[v])
                        /\ \A j \in 1 .. Len(handlers[v]) : handlers'[v][j] = handlers[v][j]
      BY DEF HandlersGrow
    <2>1. CASE v = w
      BY <1>4, <2>1
    <2>2. CASE v # w
      <3>1. Len(handlers[v]) \in Nat
        BY <1>2
      <3> QED BY <1>3, <2>2, <3>1
    <2> QED BY <2>1, <2>2
  <1>6. HandlersOnce'
    <2> SUFFICES ASSUME NEW v \in Receivers, NEW i \in DOMAIN handlers'[v],
                        NEW j \in DOMAIN handlers'[v], handlers'[v][i] = handlers'[v][j]
                 PROVE  i = j
      BY DEF HandlersOnce
    <2>1. CASE v # w
      BY <1>0, <1>3, <2>1 DEF HandlersOnce
    <2>2. CASE v = w
      <3>1. \A n \in 1 .. Len(handlers[w]) : handlers[w][n] # h
        BY <1>1, <1>4 DEF Range
      <3>2. \A m, n \in 1 .. Len(handlers[w]) : handlers[w][m] = handlers[w][n] => m = n
        BY <1>0, <1>4 DEF HandlersOnce
      <3> DEFINE n == Len(handlers[w])
      <3>3. /\ i \in 1 .. n + 1 /\ j \in 1 .. n + 1 /\ n \in Nat
            /\ handlers'[w][i] = handlers'[w][j]
        BY <1>4, <2>2
      <3>4. CASE i \in 1 .. n /\ j \in 1 .. n
        BY <1>4, <3>2, <3>3, <3>4
      <3>5. CASE i = n + 1 /\ j \in 1 .. n
        BY <1>4, <3>1, <3>3, <3>5
      <3>6. CASE i \in 1 .. n /\ j = n + 1
        BY <1>4, <3>1, <3>3, <3>6
      <3> HIDE DEF n
      <3>7. \/ i \in 1 .. n /\ j \in 1 .. n
            \/ i = n + 1 /\ j \in 1 .. n
            \/ i \in 1 .. n /\ j = n + 1
            \/ i = n + 1 /\ j = n + 1
        BY <3>3
      <3> QED BY <3>4, <3>5, <3>6, <3>7
    <2> QED BY <2>1, <2>2
  <1>7. StateTyped'
    BY <1>0, <1>1, <1>3 DEF StateTyped
  <1>8. clock <= clock' /\ inputs <= inputs'
    BY <1>0, <1>1, ClockStays, InputsStay
  <1>9. ASSUME NEW s \in allSubjects PROVE SubscriptionInv(s)'
    <2>1. SubscriptionInv(s) /\ NoNew(s) /\ cb'[s] = cb[s] /\ pending'[s] = pending[s]
      BY <1>1, QuietLog DEF IngestInv
    <2> QED BY <1>0, <1>7, <1>8, <2>1, SubscriptionStays
  <1>10. InFlight' = InFlight
    BY <1>1 DEF InFlight
  <1> QED BY <1>0, <1>1, <1>5, <1>6, <1>7, <1>8, <1>9, <1>10, QuietKeeps

LEMMA PublishKeeps ==
    ASSUME IngestInv, NEW m \in Messages, Publish(m)
    PROVE  IngestInv'
  <1>0. StateTyped /\ HandlersOnce /\ IsFiniteSet(InFlight)
    BY DEF IngestInv
  <1>1. PICK e : e = [n |-> inputs', msg |-> m]
    OBVIOUS
  <1>2. /\ inputs < MaxMessages /\ inputs' = inputs + 1
        /\ pending' = [s \in allSubjects |->
              IF matchesSubject(m.subject, s) /\ Len(pending[s]) < PendingCap
              THEN Append(pending[s], e) ELSE pending[s]]
        /\ clock' = clock /\ cb' = cb /\ buffer' = buffer /\ ingested' = ingested
        /\ handlers' = handlers /\ req' = req /\ log' = log
    BY <1>1 DEF Publish
  <1>3. inputs \in Nat /\ inputs' \in Nat /\ inputs <= inputs' /\ inputs' \in 0 .. MaxInputs
    <2>1. inputs \in 0 .. MaxInputs
      BY <1>0 DEF StateTyped
    <2>2. inputs \in Nat /\ MaxInputs \in Nat /\ MaxMessages \in 0 .. MaxInputs
      BY <2>1, IngestAssumption
    <2> QED BY <1>2, <2>2
  <1>4. e.n = inputs' /\ e \in [n : Nat, msg : Messages]
    BY <1>1, <1>3
  <1>5. \A s \in allSubjects : \/ pending'[s] = pending[s]
                               \/ Len(pending[s]) < PendingCap /\ pending'[s] = Append(pending[s], e)
    <2> SUFFICES ASSUME NEW s \in allSubjects
                 PROVE  \/ pending'[s] = pending[s]
                        \/ Len(pending[s]) < PendingCap /\ pending'[s] = Append(pending[s], e)
      OBVIOUS
    <2>1. pending'[s] = IF matchesSubject(m.subject, s) /\ Len(pending[s]) < PendingCap
                        THEN Append(pending[s], e) ELSE pending[s]
      BY <1>2
    <2>2. CASE matchesSubject(m.subject, s) /\ Len(pending[s]) < PendingCap
      BY <2>1, <2>2
    <2>3. CASE ~(matchesSubject(m.subject, s) /\ Len(pending[s]) < PendingCap)
      BY <2>1, <2>3
    <2> QED BY <2>2, <2>3
  <1>6. StateTyped'
    <2>1. ASSUME NEW s \in allSubjects PROVE pending'[s] \in Seq([n : Nat, msg : Messages])
      <3>1. pending[s] \in Seq([n : Nat, msg : Messages])
        BY <1>0, PendingFacts
      <3> DEFINE T == [n : Nat, msg : Messages]
      <3>2. pending[s] \in Seq(T) /\ e \in T
        BY <1>4, <3>1
      <3> HIDE DEF T
      <3>3. Append(pending[s], e) \in Seq(T)
        BY <3>2, AppendProperties
      <3>4. pending'[s] \in Seq(T)
        BY <1>5, <3>2, <3>3
      <3> QED BY <3>4 DEF T
    <2>2. pending' \in [allSubjects -> Seq([n : Nat, msg : Messages])]
      <3>1. pending' = [s \in allSubjects |-> pending'[s]]
        BY <1>2
      <3> QED BY <2>1, <3>1
    <2> QED BY <1>0, <1>2, <1>3, <2>2 DEF StateTyped
  <1>7. clock <= clock' /\ HandlersGrow /\ HandlersOnce' /\ InFlight' = InFlight
    BY <1>0, <1>2, ClockStays, HandlersStay DEF HandlersOnce, InFlight
  <1>8. ASSUME NEW s \in allSubjects PROVE SubscriptionInv(s)'
    <2>1. SubscriptionInv(s) /\ NoNew(s) /\ cb'[s] = cb[s]
      BY <1>2, QuietLog DEF IngestInv
    <2>2. CASE pending'[s] = pending[s]
      BY <1>0, <1>3, <1>6, <1>7, <2>1, <2>2, SubscriptionStays
    <2>3. CASE Len(pending[s]) < PendingCap /\ pending'[s] = Append(pending[s], e)
      <3>1. /\ pending[s] \in Seq(Range(pending[s])) /\ Len(pending[s]) \in Nat
            /\ DOMAIN pending[s] = 1 .. Len(pending[s])
            /\ \A j \in DOMAIN pending[s] : pending[s][j].n \in Nat
        BY <1>0, PendingFacts
      <3>2. /\ Len(pending'[s]) = Len(pending[s]) + 1
            /\ DOMAIN pending'[s] = 1 .. Len(pending[s]) + 1
            /\ pending'[s][Len(pending[s]) + 1] = e
            /\ \A j \in 1 .. Len(pending[s]) : pending'[s][j] = pending[s][j]
        BY <2>3, <3>1, AppendFacts
      <3>3. Entries' = Entries /\ \A x : EntryOf(x)' = EntryOf(x)
        BY <1>2, EntriesStay
      <3>4. /\ cb[s].n \in Nat /\ cb[s].n <= inputs
            /\ cb[s].n # 0 => /\ cb[s].msg \in Messages /\ Parses(cb[s].msg)
                              /\ \E t \in 0 .. clock : cb[s].event = parseEvent(cb[s].msg, t)
            /\ \A j \in 1 .. Len(pending[s]) :
                  /\ cb[s].n < pending[s][j].n /\ pending[s][j].n <= inputs
                  /\ \A i \in 1 .. j - 1 : pending[s][i].n < pending[s][j].n
        BY <2>1, <3>1 DEF SubscriptionInv
      <3>5. ASSUME NEW x \in Entries', (EntryOf(x).from)'[1] = s
            PROVE  /\ cb'[s].n # 0 => (EntryOf(x).from)'[2] < cb'[s].n
                   /\ \A j \in DOMAIN pending'[s] : (EntryOf(x).from)'[2] < pending'[s][j].n
                   /\ (EntryOf(x).from)'[2] \in 0 .. inputs'
        <4>1. PICK y : y = EntryOf(x) /\ EntryOf(x)' = y
          BY <3>3
        <4>2. x \in Entries /\ y.from[1] = s
          BY <3>3, <3>5, <4>1
        <4>3. /\ cb[s].n # 0 => y.from[2] < cb[s].n
              /\ \A j \in DOMAIN pending[s] : y.from[2] < pending[s][j].n
              /\ y.from[2] \in 0 .. inputs
          BY <2>1, <4>1, <4>2 DEF SubscriptionInv
        <4>4. y.from[2] < inputs' /\ y.from[2] \in 0 .. inputs'
          BY <1>2, <1>3, <4>3
        <4>5. ASSUME NEW j \in DOMAIN pending'[s] PROVE y.from[2] < pending'[s][j].n
          <5>1. CASE j = Len(pending[s]) + 1
            BY <1>4, <3>2, <4>4, <5>1
          <5>2. CASE j # Len(pending[s]) + 1
            BY <3>1, <3>2, <4>3, <5>2
          <5> QED BY <5>1, <5>2
        <4> QED BY <2>1, <4>1, <4>3, <4>4, <4>5
      <3>6. cb'[s].n <= inputs' /\ Len(pending'[s]) <= PendingCap
        <4>1. PendingCap \in Nat
          BY IngestAssumption
        <4> QED BY <1>3, <2>1, <2>3, <3>1, <3>2, <3>4, <4>1
      <3>7. ASSUME NEW j \in DOMAIN pending'[s]
            PROVE  /\ cb'[s].n < pending'[s][j].n /\ pending'[s][j].n <= inputs'
                   /\ \A i \in 1 .. j - 1 : pending'[s][i].n < pending'[s][j].n
        <4>1. CASE j = Len(pending[s]) + 1
          <5>1. pending'[s][j].n = inputs'
            BY <1>4, <3>2, <4>1
          <5>2. \A i \in 1 .. j - 1 : pending'[s][i].n <= inputs /\ pending'[s][i].n \in Nat
            BY <3>1, <3>2, <3>4, <4>1
          <5> QED BY <1>2, <1>3, <2>1, <3>4, <5>1, <5>2
        <4>2. CASE j # Len(pending[s]) + 1
          <5>1. j \in 1 .. Len(pending[s]) /\ \A i \in 1 .. j - 1 : i \in 1 .. Len(pending[s])
            BY <3>1, <3>2, <4>2
          <5>2. /\ pending'[s][j] = pending[s][j] /\ pending[s][j].n \in Nat
                /\ \A i \in 1 .. j - 1 : pending'[s][i] = pending[s][i]
            BY <3>1, <3>2, <5>1
          <5> QED BY <1>3, <2>1, <3>4, <5>1, <5>2
        <4> QED BY <4>1, <4>2
      <3>8. /\ cb'[s].n \in Nat
            /\ cb'[s].n # 0 => /\ cb'[s].msg \in Messages /\ Parses(cb'[s].msg)
                               /\ \E t \in 0 .. clock' : cb'[s].event = parseEvent(cb'[s].msg, t)
        BY <1>2, <2>1, <3>4
      <3> QED BY <3>5, <3>6, <3>7, <3>8 DEF SubscriptionInv
    <2> QED BY <1>5, <2>2, <2>3
  <1> QED BY <1>0, <1>2, <1>6, <1>7, <1>8, QuietKeeps

\* What a subscription holds after it has taken its first message; the entries
\* of the subscription are older.
LEMMA TakeFacts ==
    ASSUME NEW s \in allSubjects, StateTyped, SubscriptionInv(s), pending[s] # <<>>, cb[s].n = 0,
           NEW p, p = Tail(pending[s]), NEW n, n \in {0, pending[s][1].n}
    PROVE  /\ p \in Seq([n : Nat, msg : Messages]) /\ n \in Nat /\ n <= inputs
           /\ Len(p) <= PendingCap
           /\ \A x \in Entries : EntryOf(x).from[1] = s =>
                 /\ n # 0 => EntryOf(x).from[2] < n
                 /\ \A j \in DOMAIN p : EntryOf(x).from[2] < p[j].n
                 /\ EntryOf(x).from[2] \in 0 .. inputs
           /\ \A j \in DOMAIN p : /\ n < p[j].n /\ p[j].n <= inputs
                                  /\ \A i \in 1 .. j - 1 : p[i].n < p[j].n
  <1>1. /\ inputs \in Nat /\ pending[s] \in Seq([n : Nat, msg : Messages])
        /\ pending[s] \in Seq(Range(pending[s])) /\ Len(pending[s]) \in Nat
        /\ DOMAIN pending[s] = 1 .. Len(pending[s])
        /\ \A j \in DOMAIN pending[s] : pending[s][j].n \in Nat
    BY PendingFacts
  <1>2. /\ Len(pending[s]) \in Nat \ {0} /\ Len(p) = Len(pending[s]) - 1
        /\ DOMAIN p = 1 .. Len(pending[s]) - 1
        /\ \A i \in 1 .. Len(pending[s]) - 1 : p[i] = pending[s][i + 1]
    BY <1>1, TailFacts
  <1>3. p \in Seq([n : Nat, msg : Messages])
    <2> DEFINE T == [n : Nat, msg : Messages]
    <2>1. pending[s] \in Seq(T)
      BY <1>1
    <2> HIDE DEF T
    <2>2. p \in Seq(T)
      BY <2>1, HeadTailProperties
    <2> QED BY <2>2 DEF T
  <1>4. /\ Len(pending[s]) <= PendingCap
        /\ \A j \in 1 .. Len(pending[s]) :
              /\ 0 < pending[s][j].n /\ pending[s][j].n <= inputs
              /\ \A i \in 1 .. j - 1 : pending[s][i].n < pending[s][j].n
    BY <1>1 DEF SubscriptionInv
  <1>5. n \in Nat /\ n <= inputs
    BY <1>1, <1>2, <1>4
  <1>6. Len(p) <= PendingCap
    BY <1>2, <1>4, IngestAssumption
  <1>7. ASSUME NEW j \in DOMAIN p
        PROVE  /\ n < p[j].n /\ p[j].n <= inputs
               /\ \A i \in 1 .. j - 1 : p[i].n < p[j].n
    <2>1. /\ j \in 1 .. Len(pending[s]) - 1 /\ j + 1 \in 1 .. Len(pending[s])
          /\ p[j] = pending[s][j + 1] /\ 1 \in 1 .. (j + 1) - 1
      BY <1>2
    <2>2. n < p[j].n /\ p[j].n <= inputs
      BY <1>4, <2>1
    <2>3. ASSUME NEW i \in 1 .. j - 1 PROVE p[i].n < p[j].n
      <3>1. /\ i \in 1 .. Len(pending[s]) - 1 /\ i + 1 \in 1 .. (j + 1) - 1
        BY <1>2, <2>1
      <3>2. p[i] = pending[s][i + 1]
        BY <1>2, <3>1
      <3> QED BY <1>4, <2>1, <3>1, <3>2
    <2> QED BY <2>2, <2>3
  <1>8. ASSUME NEW x \in Entries, EntryOf(x).from[1] = s
        PROVE  /\ n # 0 => EntryOf(x).from[2] < n
               /\ \A j \in DOMAIN p : EntryOf(x).from[2] < p[j].n
               /\ EntryOf(x).from[2] \in 0 .. inputs
    <2>1. /\ \A j \in DOMAIN pending[s] : EntryOf(x).from[2] < pending[s][j].n
          /\ EntryOf(x).from[2] \in 0 .. inputs
      BY <1>8 DEF SubscriptionInv
    <2>2. 1 \in DOMAIN pending[s]
      BY <1>1, <1>2
    <2>3. \A j \in DOMAIN p : j + 1 \in DOMAIN pending[s] /\ p[j] = pending[s][j + 1]
      BY <1>1, <1>2
    <2> QED BY <2>1, <2>2, <2>3
  <1> QED BY <1>3, <1>5, <1>6, <1>7, <1>8

LEMMA processEventKeeps ==
    ASSUME IngestInv, NEW s \in allSubjects, processEvent(s)
    PROVE  IngestInv'
  <1>0. StateTyped /\ HandlersOnce /\ IsFiniteSet(InFlight) /\ SubscriptionInv(s)
    BY DEF IngestInv
  <1>1. PICK m, p : m = pending[s][1] /\ p = Tail(pending[s])
    OBVIOUS
  <1>2. PICK held : held = [n |-> m.n, event |-> parseEvent(m.msg, clock), msg |-> m.msg]
    OBVIOUS
  <1>3. /\ cb[s].n = 0 /\ pending[s] # <<>> /\ pending' = [pending EXCEPT ![s] = p]
        /\ Parses(m.msg) => /\ cb' = [cb EXCEPT ![s] = held]
                            /\ clock' = clock + 1 /\ ingested' = ingested + 1
        /\ ~Parses(m.msg) => cb' = cb /\ clock' = clock /\ ingested' = ingested
        /\ inputs' = inputs /\ buffer' = buffer /\ handlers' = handlers /\ req' = req
        /\ log' = log
    BY <1>1, <1>2 DEF processEvent
  <1>4. PICK n : n = IF Parses(m.msg) THEN m.n ELSE 0
    OBVIOUS
  <1>5. /\ p \in Seq([n : Nat, msg : Messages]) /\ n \in Nat /\ n <= inputs
        /\ Len(p) <= PendingCap
        /\ \A x \in Entries : EntryOf(x).from[1] = s =>
              /\ n # 0 => EntryOf(x).from[2] < n
              /\ \A j \in DOMAIN p : EntryOf(x).from[2] < p[j].n
              /\ EntryOf(x).from[2] \in 0 .. inputs
        /\ \A j \in DOMAIN p : /\ n < p[j].n /\ p[j].n <= inputs
                               /\ \A i \in 1 .. j - 1 : p[i].n < p[j].n
    <2>1. n \in {0, pending[s][1].n}
      BY <1>1, <1>4
    <2>2. cb[s].n = 0 /\ pending[s] # <<>> /\ p = Tail(pending[s])
      BY <1>1, <1>3
    <2>3. StateTyped /\ SubscriptionInv(s)
      BY <1>0
    <2> QED BY <2>1, <2>2, <2>3, TakeFacts
  <1>6. m.msg \in Messages /\ m.n \in Nat \ {0}
    <2>1. /\ Len(pending[s]) \in Nat /\ DOMAIN pending[s] = 1 .. Len(pending[s])
          /\ pending[s] \in Seq(Range(pending[s]))
          /\ \A j \in DOMAIN pending[s] : pending[s][j].n \in Nat /\ pending[s][j].msg \in Messages
      BY <1>0, PendingFacts
    <2>2. Len(pending[s]) \in Nat \ {0}
      BY <1>3, <2>1, TailFacts
    <2>3. 1 \in DOMAIN pending[s]
      BY <2>1, <2>2
    <2>4. cb[s].n < pending[s][1].n
      BY <1>0, <2>3 DEF SubscriptionInv
    <2> QED BY <1>1, <1>3, <2>1, <2>3, <2>4
  <1>7. /\ pending'[s] = p /\ \A u \in allSubjects \ {s} : pending'[u] = pending[u]
        /\ pending' \in [allSubjects -> Seq([n : Nat, msg : Messages])]
    <2>1. pending \in [allSubjects -> Seq([n : Nat, msg : Messages])]
      BY <1>0 DEF StateTyped
    <2> QED BY <1>3, <1>5, <2>1
  <1>8. /\ \A u \in allSubjects \ {s} : cb'[u] = cb[u]
        /\ cb' = [u \in allSubjects |-> cb'[u]]
        /\ cb'[s] = IF Parses(m.msg) THEN held ELSE cb[s]
    <2>1. cb = [u \in allSubjects |-> cb[u]]
      BY <1>0 DEF StateTyped
    <2>2. CASE Parses(m.msg)
      <3>1. cb' = [cb EXCEPT ![s] = held]
        BY <1>3, <2>2
      <3> QED BY <2>1, <2>2, <3>1
    <2>3. CASE ~Parses(m.msg)
      BY <1>3, <2>1, <2>3
    <2> QED BY <2>2, <2>3
  <1>9. /\ held.n = m.n /\ held.msg = m.msg /\ held.event = parseEvent(m.msg, clock)
    BY <1>2
  <1>10. cb'[s].n = n
    BY <1>3, <1>4, <1>8, <1>9
  <1>11. clock \in Nat /\ clock' \in Nat /\ clock <= clock' /\ ingested' \in Nat /\ ingested \in Nat
    <2>1. clock \in Nat /\ ingested \in Nat
      BY <1>0 DEF StateTyped
    <2> QED BY <1>3, <2>1
  <1>12. StateTyped'
    BY <1>0, <1>3, <1>7, <1>8, <1>11 DEF StateTyped
  <1>13. HandlersGrow /\ HandlersOnce' /\ inputs <= inputs'
    BY <1>0, <1>3, HandlersStay, InputsStay DEF HandlersOnce
  <1>14. /\ IsFiniteSet(InFlight')
         /\ ingested' + Cardinality(InFlight) = ingested + Cardinality(InFlight')
    <2>1. s \notin InFlight /\ Cardinality(InFlight) \in Nat
      BY <1>0, <1>3, FS_CardinalityType DEF InFlight
    <2>2. CASE Parses(m.msg)
      <3>1. InFlight' = InFlight \cup {s}
        <4>1. cb'[s].n # 0
          BY <1>4, <1>6, <1>10, <2>2
        <4> QED BY <1>8, <4>1 DEF InFlight
      <3>2. IsFiniteSet(InFlight') /\ Cardinality(InFlight') = Cardinality(InFlight) + 1
        BY <1>0, <2>1, <3>1, FS_AddElement
      <3>3. ingested' = ingested + 1
        BY <1>3, <2>2
      <3> QED BY <1>11, <2>1, <3>2, <3>3
    <2>3. CASE ~Parses(m.msg)
      <3>1. InFlight' = InFlight /\ ingested' = ingested
        BY <1>3, <2>3 DEF InFlight
      <3> QED BY <1>0, <1>11, <2>1, <3>1
    <2> QED BY <2>2, <2>3
  <1>15. ASSUME NEW u \in allSubjects PROVE SubscriptionInv(u)'
    <2>1. CASE u # s
      <3>1. SubscriptionInv(u) /\ NoNew(u) /\ cb'[u] = cb[u] /\ pending'[u] = pending[u]
        BY <1>3, <1>7, <1>8, <2>1, QuietLog DEF IngestInv
      <3> QED BY <1>0, <1>11, <1>12, <1>13, <3>1, SubscriptionStays
    <2>2. CASE u = s
      <3>1. Entries' = Entries /\ \A x : EntryOf(x)' = EntryOf(x)
        BY <1>3, EntriesStay
      <3>2. cb'[s].n # 0 => /\ cb'[s].msg \in Messages /\ Parses(cb'[s].msg)
                            /\ \E t \in 0 .. clock' : cb'[s].event = parseEvent(cb'[s].msg, t)
        <4>1. SUFFICES ASSUME cb'[s].n # 0
                       PROVE  /\ cb'[s].msg \in Messages /\ Parses(cb'[s].msg)
                              /\ \E t \in 0 .. clock' : cb'[s].event = parseEvent(cb'[s].msg, t)
          OBVIOUS
        <4>2. Parses(m.msg) /\ cb'[s] = held
          BY <1>4, <1>8, <1>10, <4>1
        <4>3. clock \in 0 .. clock'
          BY <1>11
        <4> QED BY <1>6, <1>9, <4>2, <4>3
      <3>3. ASSUME NEW x \in Entries', (EntryOf(x).from)'[1] = s
            PROVE  /\ cb'[s].n # 0 => (EntryOf(x).from)'[2] < cb'[s].n
                   /\ \A j \in DOMAIN pending'[s] : (EntryOf(x).from)'[2] < pending'[s][j].n
                   /\ (EntryOf(x).from)'[2] \in 0 .. inputs'
        <4>1. PICK y : y = EntryOf(x) /\ EntryOf(x)' = y
          BY <3>1
        <4>2. x \in Entries /\ y.from[1] = s
          BY <3>1, <3>3, <4>1
        <4>3. /\ n # 0 => y.from[2] < n
              /\ \A j \in DOMAIN p : y.from[2] < p[j].n
              /\ y.from[2] \in 0 .. inputs
          BY <1>5, <4>1, <4>2
        <4> QED BY <1>3, <1>7, <1>10, <4>1, <4>3
      <3>4. /\ cb'[s].n \in Nat /\ cb'[s].n <= inputs' /\ Len(pending'[s]) <= PendingCap
            /\ \A j \in DOMAIN pending'[s] :
                  /\ cb'[s].n < pending'[s][j].n /\ pending'[s][j].n <= inputs'
                  /\ \A i \in 1 .. j - 1 : pending'[s][i].n < pending'[s][j].n
        BY <1>3, <1>5, <1>7, <1>10
      <3> QED BY <2>2, <3>2, <3>3, <3>4 DEF SubscriptionInv
    <2> QED BY <2>1, <2>2
  <1> QED BY <1>3, <1>11, <1>12, <1>13, <1>14, <1>15, QuietKeeps

-----------------------------------------------------------------------------
(* The inductive invariant *)

LEMMA InitKeeps == Init => IngestInv
  <1> SUFFICES ASSUME Init PROVE IngestInv
    OBVIOUS
  <1>1. /\ clock = Start /\ inputs = 0 /\ ingested = 0
        /\ pending = [s \in allSubjects |-> <<>>] /\ cb = [s \in allSubjects |-> Idle]
        /\ buffer = [k \in Keys |-> <<>>] /\ log = [k \in Keys |-> <<>>]
        /\ handlers = [w \in Receivers |-> IF w = "falco" THEN <<"engine">> ELSE <<>>]
        /\ req = [r \in Requests |-> Ready]
    BY DEF Init
  <1>2. Entries = {}
    BY <1>1, EntriesAre
  <1>3. InFlight = {}
    BY <1>1, IdleIs DEF InFlight
  <1>4. /\ IsFiniteSet(Entries) /\ IsFiniteSet(InFlight)
        /\ Cardinality(Entries) = 0 /\ Cardinality(InFlight) = 0
    BY <1>2, <1>3, FS_EmptySet
  <1>5. StateTyped
    <2>1. clock \in Nat /\ inputs \in 0 .. MaxInputs /\ ingested \in Nat
      BY <1>1, IngestAssumption
    <2>2. pending \in [allSubjects -> Seq([n : Nat, msg : Messages])]
      BY <1>1
    <2>3. /\ cb = [s \in allSubjects |-> cb[s]] /\ log = [k \in Keys |-> log[k]]
          /\ buffer = [k \in Keys |-> buffer[k]]
      BY <1>1
    <2>4. \A k \in Keys : log[k] \in Seq(Range(log[k]))
      BY <1>1
    <2>5. handlers \in [Receivers -> Seq(Fns)]
      <3>1. <<"engine">> \in Seq(Fns) /\ <<>> \in Seq(Fns)
        BY DEF Fns
      <3> QED BY <1>1, <3>1
    <2>6. req \in [Requests -> Request]
      BY <1>1, ReadyType
    <2> QED BY <2>1, <2>2, <2>3, <2>4, <2>5, <2>6 DEF StateTyped
  <1>6. EntryInv
    BY <1>2 DEF EntryInv
  <1>7. IngestedOnce
    <2>1. \A k \in Keys : Len(log[k]) = 0
      BY <1>1
    <2>2. ASSUME NEW k \in Keys PROVE buffer[k] = Recent(log[k])
      <3>1. Min({0, BufferCap}) = 0
        BY MinFacts, IngestAssumption
      <3>2. 1 .. 0 = {}
        OBVIOUS
      <3>3. Recent(log[k]) = <<>>
        <4>1. PICK f : f = Recent(log[k])
          OBVIOUS
        <4>2. DOMAIN f = 1 .. 0
          BY <2>1, <3>1, <4>1 DEF Recent
        <4>3. f = [i \in 1 .. 0 |-> f[i]]
          <5>1. f = [i \in DOMAIN f |-> f[i]]
            BY <4>1 DEF Recent
          <5> QED BY <4>2, <5>1
        <4>4. f \in Seq(Range(f)) /\ Len(f) = 0
          BY <4>3, FunSeq
        <4> QED BY <4>1, <4>4, EmptySeq
      <3> QED BY <1>1, <3>3
    <2>3. ingested = Cardinality(Entries) + Cardinality(InFlight)
      BY <1>1, <1>4
    <2>4. \A k \in Keys : \A i, j \in 1 .. Len(log[k]) :
             i < j /\ log[k][i].from[1] = log[k][j].from[1]
             => log[k][i].from[2] < log[k][j].from[2]
      BY <2>1
    <2> QED BY <1>2, <2>2, <2>3, <2>4, OnceParts
  <1>8. HandlersOnce
    <2> SUFFICES ASSUME NEW w \in Receivers, NEW i \in DOMAIN handlers[w],
                        NEW j \in DOMAIN handlers[w]
                 PROVE  i = j
      BY DEF HandlersOnce
    <2>1. DOMAIN handlers[w] \subseteq {1}
      <3>1. DOMAIN <<"engine">> = {1} /\ DOMAIN <<>> = {}
        OBVIOUS
      <3>2. handlers[w] \in {<<"engine">>, <<>>}
        BY <1>1
      <3> QED BY <3>1, <3>2
    <2> QED BY <2>1
  <1>9. ASSUME NEW s \in allSubjects PROVE SubscriptionInv(s)
    <2>1. cb[s].n = 0 /\ pending[s] = <<>>
      BY <1>1, IdleIs
    <2>2. DOMAIN pending[s] = {} /\ Len(pending[s]) = 0
      BY <2>1
    <2> QED BY <1>1, <1>2, <2>1, <2>2, IngestAssumption DEF SubscriptionInv
  <1>10. ASSUME NEW r \in Requests PROVE RequestInv(r)
    <2>1. req[r] = Ready
      BY <1>1
    <2>2. WebhookInv(Ready) /\ StreamInv(Ready)
      BY ReadyIs DEF WebhookInv, StreamInv, Receivers
    <2>3. IsFiniteSet(EngineCalls(Ready)) /\ Ready.to # "falco" /\ Ready.to = ""
      BY ReadyIs, NoCalls
    <2> QED BY <2>1, <2>2, <2>3 DEF RequestInv
  <1> QED BY <1>4, <1>5, <1>6, <1>7, <1>8, <1>9, <1>10 DEF IngestInv

LEMMA StutterKeeps == ASSUME IngestInv, UNCHANGED vars PROVE IngestInv'
  <1>0. StateTyped /\ HandlersOnce /\ IsFiniteSet(InFlight)
    BY DEF IngestInv
  <1>1. /\ clock' = clock /\ inputs' = inputs /\ pending' = pending /\ cb' = cb
        /\ buffer' = buffer /\ ingested' = ingested /\ handlers' = handlers /\ req' = req
        /\ log' = log
    BY DEF vars
  <1>2. StateTyped'
    BY <1>0, <1>1 DEF StateTyped
  <1>3. clock <= clock' /\ inputs <= inputs' /\ HandlersGrow /\ HandlersOnce' /\ InFlight' = InFlight
    BY <1>0, <1>1, ClockStays, InputsStay, HandlersStay DEF HandlersOnce, InFlight
  <1>4. ASSUME NEW s \in allSubjects PROVE SubscriptionInv(s)'
    <2>1. SubscriptionInv(s) /\ NoNew(s) /\ cb'[s] = cb[s] /\ pending'[s] = pending[s]
      BY <1>1, QuietLog DEF IngestInv
    <2> QED BY <1>0, <1>2, <1>3, <2>1, SubscriptionStays
  <1> QED BY <1>0, <1>1, <1>2, <1>3, <1>4, QuietKeeps

LEMMA NextKeeps == IngestInv /\ [Next]_vars => IngestInv'
  <1> SUFFICES ASSUME IngestInv, [Next]_vars PROVE IngestInv'
    OBVIOUS
  <1>1. ASSUME NEW m \in Messages, Publish(m) PROVE IngestInv'
    BY <1>1, PublishKeeps
  <1>2. ASSUME NEW s \in allSubjects, processEvent(s) PROVE IngestInv'
    BY <1>2, processEventKeeps
  <1>3. ASSUME NEW s \in allSubjects, AppendEvent(s) PROVE IngestInv'
    BY <1>3, AppendEventKeeps
  <1>4. ASSUME NEW w \in Receivers, NEW h \in Handlers, OnEvent(w, h) PROVE IngestInv'
    BY <1>4, OnEventKeeps
  <1>5. ASSUME NEW r \in Requests, NEW p \in Posts, ServeHTTP(r, p) PROVE IngestInv'
    BY <1>5, ServeHTTPKeeps
  <1>6. ASSUME NEW r \in Requests, Snapshot(r) PROVE IngestInv'
    BY <1>6, SnapshotKeeps
  <1>7. ASSUME NEW r \in Requests, Dispatch(r) PROVE IngestInv'
    BY <1>7, DispatchKeeps
  <1>8. ASSUME NEW r \in Requests, Respond(r) PROVE IngestInv'
    BY <1>8, RespondKeeps
  <1>9. ASSUME NEW r \in Requests, NEW l \in Streams, NEW h \in Handlers,
               ParseEveStream(r, l, h)
        PROVE  IngestInv'
    BY <1>9, ParseEveStreamKeeps
  <1>10. ASSUME NEW r \in Requests, ReadLine(r) PROVE IngestInv'
    BY <1>10, ReadLineKeeps
  <1>11. CASE UNCHANGED vars
    BY <1>11, StutterKeeps
  <1> QED BY <1>1, <1>2, <1>3, <1>4, <1>5, <1>6, <1>7, <1>8, <1>9, <1>10, <1>11 DEF Next

LEMMA IngestInvariant == Spec => []IngestInv
  BY InitKeeps, NextKeeps, PTL DEF Spec

-----------------------------------------------------------------------------
(* What the invariant says of a request that has ended *)

\* The calls of an accepted request are those of the two loops.
LoopsDone(q) ==
    /\ Len(q.items) \in Nat /\ DOMAIN q.items = 1 .. Len(q.items) /\ Len(q.fns) \in Nat
    /\ DOMAIN q.calls = 1 .. Todo(q)
    /\ \A n \in 1 .. Todo(q) :
          /\ q.calls[n] = <<Row(q, n), q.fns[Col(q, n)]>> /\ Col(q, n) \in 1 .. Len(q.fns)
          /\ n = Len(q.fns) * (Row(q, n) - 1) + Col(q, n)
    /\ q.before \in Nat /\ q.before <= Len(q.fns)
    /\ \A j \in 1 .. Len(q.fns) : j \in DOMAIN handlers[q.to] /\ q.fns[j] = handlers[q.to][j]
    /\ \A i, j \in DOMAIN handlers[q.to] : handlers[q.to][i] = handlers[q.to][j] => i = j

LEMMA AcceptedCalls ==
    ASSUME IngestInv, NEW r \in Requests, NEW q, q = req[r], q.to \in Receivers, q.answer = 200
    PROVE  LoopsDone(q)
  <1>1. q \in Request /\ WebhookInv(q)
    BY RequestKind
  <1>2. /\ q.items \in Seq({x \in Range(q.items) : IsEvent(x)}) /\ Called(q) /\ q.at = Todo(q) + 1
    BY <1>1 DEF WebhookInv
  <1>3. /\ q.fns \in Seq(Fns) /\ Len(q.fns) \in Nat /\ q.before \in Nat
        /\ Len(q.calls) \in Nat /\ DOMAIN q.calls = 1 .. Len(q.calls)
    BY <1>1, RequestFields
  <1>4. Len(q.items) \in Nat /\ Todo(q) \in Nat /\ DOMAIN q.items = 1 .. Len(q.items)
    BY <1>2, <1>3, TodoNat, SeqFacts
  <1>5. DOMAIN q.calls = 1 .. Todo(q)
    BY <1>2, <1>3, <1>4 DEF Called
  <1>6. ASSUME NEW n \in 1 .. Todo(q)
        PROVE  /\ q.calls[n] = <<Row(q, n), q.fns[Col(q, n)]>> /\ Col(q, n) \in 1 .. Len(q.fns)
               /\ n = Len(q.fns) * (Row(q, n) - 1) + Col(q, n)
    <2>1. q.calls[n] = CallAt(q, n)
      BY <1>2, <1>5 DEF Called
    <2> QED BY <1>3, <1>4, <2>1, CallAtFacts
  <1>7. /\ q.before <= Len(q.fns) /\ Len(q.fns) <= Len(handlers[q.to])
        /\ \A j \in 1 .. Len(q.fns) : q.fns[j] = handlers[q.to][j]
    BY <1>2 DEF Called
  <1>8. Len(handlers[q.to]) \in Nat /\ DOMAIN handlers[q.to] = 1 .. Len(handlers[q.to])
    <2>1. handlers[q.to] \in Seq(Fns)
      BY DEF IngestInv, StateTyped
    <2> QED BY <2>1, SeqFacts
  <1>9. \A j \in 1 .. Len(q.fns) : j \in DOMAIN handlers[q.to]
    BY <1>3, <1>7, <1>8
  <1>10. \A i, j \in DOMAIN handlers[q.to] : handlers[q.to][i] = handlers[q.to][j] => i = j
    BY DEF IngestInv, HandlersOnce
  <1> QED BY <1>3, <1>4, <1>5, <1>6, <1>7, <1>9, <1>10 DEF LoopsDone

CallsOf(q, i, h) == {n \in DOMAIN q.calls : q.calls[n] = <<i, h>>}
PlaceIn(fns, h) == CHOOSE j \in DOMAIN fns : fns[j] = h

LEMMA CalledOnce ==
    ASSUME IngestInv, NEW r \in Requests, NEW q, q = req[r], q.to \in Receivers, q.answer = 200,
           NEW i \in DOMAIN q.items, NEW j \in 1 .. q.before
    PROVE  Cardinality(CallsOf(q, i, handlers[q.to][j])) = 1
  <1>1. /\ Len(q.items) \in Nat /\ DOMAIN q.items = 1 .. Len(q.items) /\ Len(q.fns) \in Nat
        /\ DOMAIN q.calls = 1 .. Todo(q)
        /\ \A n \in 1 .. Todo(q) :
              /\ q.calls[n] = <<Row(q, n), q.fns[Col(q, n)]>> /\ Col(q, n) \in 1 .. Len(q.fns)
              /\ n = Len(q.fns) * (Row(q, n) - 1) + Col(q, n)
        /\ q.before \in Nat /\ q.before <= Len(q.fns)
        /\ \A c \in 1 .. Len(q.fns) : c \in DOMAIN handlers[q.to] /\ q.fns[c] = handlers[q.to][c]
        /\ \A c, d \in DOMAIN handlers[q.to] : handlers[q.to][c] = handlers[q.to][d] => c = d
    <2>1. LoopsDone(q)
      BY AcceptedCalls
    <2> QED BY <2>1 DEF LoopsDone
  <1>2. j \in 1 .. Len(q.fns) /\ i \in 1 .. Len(q.items)
    BY <1>1
  <1>3. PICK m \in 1 .. Todo(q) : Row(q, m) = i /\ Col(q, m) = j
    BY <1>1, <1>2, CallIndex
  <1>4. q.calls[m] = <<i, handlers[q.to][j]>>
    BY <1>1, <1>2, <1>3
  <1>5. ASSUME NEW n \in DOMAIN q.calls, q.calls[n] = <<i, handlers[q.to][j]>> PROVE n = m
    <2>1. q.calls[n] = <<Row(q, n), q.fns[Col(q, n)]>> /\ Col(q, n) \in 1 .. Len(q.fns)
      BY <1>1
    <2>2. Row(q, n) = i /\ q.fns[Col(q, n)] = handlers[q.to][j]
      BY <1>5, <2>1
    <2>3. Col(q, n) = j
      <3>1. /\ Col(q, n) \in DOMAIN handlers[q.to] /\ j \in DOMAIN handlers[q.to]
            /\ handlers[q.to][Col(q, n)] = handlers[q.to][j]
        BY <1>1, <1>2, <2>1, <2>2
      <3> QED BY <1>1, <3>1
    <2>4. /\ n = Len(q.fns) * (Row(q, n) - 1) + Col(q, n)
          /\ m = Len(q.fns) * (Row(q, m) - 1) + Col(q, m)
      BY <1>1
    <2> QED BY <1>3, <2>2, <2>3, <2>4
  <1>6. CallsOf(q, i, handlers[q.to][j]) = {m}
    BY <1>1, <1>3, <1>4, <1>5 DEF CallsOf
  <1>7. Cardinality({m}) = 1
    BY FS_Singleton
  <1> QED BY <1>6, <1>7

LEMMA CalledInOrder ==
    ASSUME IngestInv, NEW r \in Requests, NEW q, q = req[r], q.to \in Receivers, q.answer = 200,
           NEW m \in DOMAIN q.calls, NEW n \in DOMAIN q.calls, m < n
    PROVE  \/ q.calls[m][1] < q.calls[n][1]
           \/ /\ q.calls[m][1] = q.calls[n][1]
              /\ PlaceIn(handlers[q.to], q.calls[m][2]) < PlaceIn(handlers[q.to], q.calls[n][2])
  <1>1. /\ Len(q.items) \in Nat /\ Len(q.fns) \in Nat /\ DOMAIN q.calls = 1 .. Todo(q)
        /\ \A c \in 1 .. Todo(q) :
              q.calls[c] = <<Row(q, c), q.fns[Col(q, c)]>> /\ Col(q, c) \in 1 .. Len(q.fns)
        /\ \A c \in 1 .. Len(q.fns) : c \in DOMAIN handlers[q.to] /\ q.fns[c] = handlers[q.to][c]
        /\ \A c, d \in DOMAIN handlers[q.to] : handlers[q.to][c] = handlers[q.to][d] => c = d
    <2>1. LoopsDone(q)
      BY AcceptedCalls
    <2> QED BY <2>1 DEF LoopsDone
  <1>2. \/ Row(q, m) < Row(q, n)
        \/ Row(q, m) = Row(q, n) /\ Col(q, m) < Col(q, n)
    BY <1>1, CallOrder
  <1>3. ASSUME NEW c \in DOMAIN q.calls
        PROVE  /\ q.calls[c][1] = Row(q, c)
               /\ PlaceIn(handlers[q.to], q.calls[c][2]) = Col(q, c)
    <2>1. /\ q.calls[c][1] = Row(q, c) /\ q.calls[c][2] = q.fns[Col(q, c)]
          /\ Col(q, c) \in 1 .. Len(q.fns)
      BY <1>1
    <2>2. PICK h : h = q.calls[c][2]
      OBVIOUS
    <2>3. Col(q, c) \in DOMAIN handlers[q.to] /\ handlers[q.to][Col(q, c)] = h
      BY <1>1, <2>1, <2>2
    <2>4. \A j \in DOMAIN handlers[q.to] : handlers[q.to][j] = h => j = Col(q, c)
      BY <1>1, <2>3
    <2>5. PlaceIn(handlers[q.to], h) = Col(q, c)
      BY <2>3, <2>4 DEF PlaceIn
    <2> QED BY <2>1, <2>2, <2>5
  <1> QED BY <1>2, <1>3

\* The last conjunct of AllOrNothing.
StreamDone(q) ==
    q.to = "stream" /\ q.pc \in {"done", "failed"} =>
    /\ q.answer = Len(q.calls)
    /\ {q.calls[n][1] : n \in DOMAIN q.calls} =
          {i \in DOMAIN q.items : /\ IsEvent(q.items[i])
                                  /\ \A j \in 1 .. i : ~(q.items[j].kind \in {"bad", "long"})}
    /\ q.pc = "done" <=> \A i \in DOMAIN q.items : ~(q.items[i].kind \in {"bad", "long"})

LEMMA StreamEnds ==
    ASSUME IngestInv, NEW r \in Requests, NEW q, q = req[r]
    PROVE  StreamDone(q)
  <1> SUFFICES ASSUME q.to = "stream", q.pc \in {"done", "failed"}
                 PROVE  /\ q.answer = Len(q.calls)
                        /\ {q.calls[n][1] : n \in DOMAIN q.calls} =
                              {i \in DOMAIN q.items :
                                  /\ IsEvent(q.items[i])
                                  /\ \A j \in 1 .. i : ~(q.items[j].kind \in {"bad", "long"})}
                        /\ q.pc = "done" <=>
                              \A i \in DOMAIN q.items : ~(q.items[i].kind \in {"bad", "long"})
    BY DEF StreamDone
  <1>1. StreamInv(q)
    BY RequestKind
  <1>2. /\ q.items \in Streams /\ q.answer = Len(q.calls) /\ q.at \in 1 .. Len(q.items) + 1
        /\ \A i \in 1 .. q.at - 1 : ~(q.items[i].kind \in {"bad", "long"})
        /\ {q.calls[n][1] : n \in DOMAIN q.calls} = {i \in 1 .. q.at - 1 : IsEvent(q.items[i])}
        /\ q.pc = "failed" => q.at <= Len(q.items) /\ q.items[q.at].kind \in {"bad", "long"}
        /\ q.pc = "done" => q.at = Len(q.items) + 1
    BY <1>1 DEF StreamInv
  <1>3. Len(q.items) \in Nat /\ DOMAIN q.items = 1 .. Len(q.items)
    <2>1. q.items \in Seq([kind : {"event", "blank", "comment", "bad", "long"}])
      BY <1>2, StreamsAssumption
    <2> QED BY <2>1, SeqFacts
  <1>4. q.at \in Nat
    BY <1>2, <1>3
  <1>5. q.pc = "done" <=> \A i \in DOMAIN q.items : ~(q.items[i].kind \in {"bad", "long"})
    <2>1. CASE q.pc = "done"
      BY <1>2, <1>3, <2>1
    <2>2. CASE q.pc = "failed"
      BY <1>2, <1>3, <2>2
    <2> QED BY <2>1, <2>2
  <1>6. ASSUME NEW i
        PROVE  i \in 1 .. q.at - 1 <=>
                  /\ i \in DOMAIN q.items
                  /\ \A j \in 1 .. i : ~(q.items[j].kind \in {"bad", "long"})
    <2>1. CASE q.pc = "done"
      BY <1>2, <1>3, <1>4, <2>1
    <2>2. CASE q.pc = "failed"
      <3>1. q.at \in 1 .. Len(q.items) /\ q.items[q.at].kind \in {"bad", "long"}
        BY <1>2, <1>3, <1>4, <2>2
      <3> QED BY <1>2, <1>3, <1>4, <3>1
    <2> QED BY <2>1, <2>2
  <1>7. {i \in 1 .. q.at - 1 : IsEvent(q.items[i])} =
           {i \in DOMAIN q.items : /\ IsEvent(q.items[i])
                                   /\ \A j \in 1 .. i : ~(q.items[j].kind \in {"bad", "long"})}
    BY <1>6
  <1> QED BY <1>2, <1>5, <1>7

\* The second and the third conjunct.
LoopsOrdered(q) ==
    q.to \in Receivers /\ q.answer = 200 =>
    /\ \A i \in DOMAIN q.items : \A j \in 1 .. q.before :
          Cardinality(CallsOf(q, i, handlers[q.to][j])) = 1
    /\ \A m, n \in DOMAIN q.calls : m < n =>
          \/ q.calls[m][1] < q.calls[n][1]
          \/ /\ q.calls[m][1] = q.calls[n][1]
             /\ PlaceIn(handlers[q.to], q.calls[m][2]) < PlaceIn(handlers[q.to], q.calls[n][2])
EngineLogged(r, q) ==
    q.to = "falco" => /\ Cardinality(FromOf(r)) = Cardinality(EngineCalls(q))
                      /\ q.answer = 200 => q.items = q.sent

LEMMA RequestsEnd == ASSUME IngestInv PROVE AllOrNothing
  <1>1. ASSUME NEW r \in Requests, NEW q, q = req[r]
        PROVE  /\ q.to \in Receivers /\ q.answer >= 400 => q.calls = <<>>
               /\ LoopsOrdered(q) /\ EngineLogged(r, q) /\ StreamDone(q)
    <2>1. q.to \in Receivers /\ q.answer >= 400 => q.calls = <<>>
      BY <1>1, RequestKind DEF WebhookInv
    <2>2. LoopsOrdered(q)
      <3> SUFFICES ASSUME q.to \in Receivers, q.answer = 200
                   PROVE  /\ \A i \in DOMAIN q.items : \A j \in 1 .. q.before :
                                Cardinality(CallsOf(q, i, handlers[q.to][j])) = 1
                          /\ \A m, n \in DOMAIN q.calls : m < n =>
                                \/ q.calls[m][1] < q.calls[n][1]
                                \/ /\ q.calls[m][1] = q.calls[n][1]
                                   /\ PlaceIn(handlers[q.to], q.calls[m][2])
                                         < PlaceIn(handlers[q.to], q.calls[n][2])
        BY DEF LoopsOrdered
      <3>1. ASSUME NEW i \in DOMAIN q.items, NEW j \in 1 .. q.before
            PROVE  Cardinality(CallsOf(q, i, handlers[q.to][j])) = 1
        BY <1>1, CalledOnce
      <3>2. ASSUME NEW m \in DOMAIN q.calls, NEW n \in DOMAIN q.calls, m < n
            PROVE  \/ q.calls[m][1] < q.calls[n][1]
                   \/ /\ q.calls[m][1] = q.calls[n][1]
                      /\ PlaceIn(handlers[q.to], q.calls[m][2]) < PlaceIn(handlers[q.to], q.calls[n][2])
        BY <1>1, <3>2, CalledInOrder
      <3> QED BY <3>1, <3>2
    <2>3. EngineLogged(r, q)
      BY <1>1, RequestKind DEF EngineLogged, WebhookInv, Receivers
    <2>4. StreamDone(q)
      BY <1>1, StreamEnds
    <2> QED BY <2>1, <2>2, <2>3, <2>4
  <1>2. ASSUME NEW r \in Requests
        PROVE  /\ req[r].to \in Receivers /\ req[r].answer >= 400 => req[r].calls = <<>>
               /\ LoopsOrdered(req[r]) /\ EngineLogged(r, req[r]) /\ StreamDone(req[r])
    BY <1>1
  <1>3. ASSUME NEW r \in Requests PROVE
          LET q == req[r]
              Broken(i) == q.items[i].kind \in {"bad", "long"}
              CallsFor(i, h) == {n \in DOMAIN q.calls : q.calls[n] = <<i, h>>}
              Place(h) == CHOOSE j \in DOMAIN handlers[q.to] : handlers[q.to][j] = h
          IN
          /\ q.to \in Receivers /\ q.answer >= 400 => q.calls = <<>>
          /\ q.to \in Receivers /\ q.answer = 200 =>
                /\ \A i \in DOMAIN q.items : \A j \in 1 .. q.before :
                      Cardinality(CallsFor(i, handlers[q.to][j])) = 1
                /\ \A m, n \in DOMAIN q.calls : m < n =>
                      \/ q.calls[m][1] < q.calls[n][1]
                      \/ /\ q.calls[m][1] = q.calls[n][1]
                         /\ Place(q.calls[m][2]) < Place(q.calls[n][2])
          /\ q.to = "falco" =>
                /\ Cardinality({x \in Entries : EntryOf(x).from[1] = r}) =
                      Cardinality({n \in DOMAIN q.calls : q.calls[n][2] = "engine"})
                /\ q.answer = 200 => q.items = q.sent
          /\ q.to = "stream" /\ q.pc \in {"done", "failed"} =>
                /\ q.answer = Len(q.calls)
                /\ {q.calls[n][1] : n \in DOMAIN q.calls} =
                      {i \in DOMAIN q.items : IsEvent(q.items[i]) /\ \A j \in 1 .. i : ~Broken(j)}
                /\ q.pc = "done" <=> \A i \in DOMAIN q.items : ~Broken(i)
    <2> DEFINE q == req[r]
               Broken(i) == q.items[i].kind \in {"bad", "long"}
               CallsFor(i, h) == {n \in DOMAIN q.calls : q.calls[n] = <<i, h>>}
               Place(h) == CHOOSE j \in DOMAIN handlers[q.to] : handlers[q.to][j] = h
    <2>1. \A i, h : CallsFor(i, h) = CallsOf(q, i, h)
      BY DEF CallsOf
    <2>2. \A h : Place(h) = PlaceIn(handlers[q.to], h)
      BY DEF PlaceIn
    <2>3. q.to \in Receivers /\ q.answer = 200 =>
             /\ \A i \in DOMAIN q.items : \A j \in 1 .. q.before :
                   Cardinality(CallsFor(i, handlers[q.to][j])) = 1
             /\ \A m, n \in DOMAIN q.calls : m < n =>
                   \/ q.calls[m][1] < q.calls[n][1]
                   \/ /\ q.calls[m][1] = q.calls[n][1]
                      /\ Place(q.calls[m][2]) < Place(q.calls[n][2])
      <3> HIDE DEF CallsFor, Place
      <3> QED BY <1>2, <2>1, <2>2 DEF LoopsOrdered
    <2>4. q.to = "falco" =>
             /\ Cardinality({x \in Entries : EntryOf(x).from[1] = r}) =
                   Cardinality({n \in DOMAIN q.calls : q.calls[n][2] = "engine"})
             /\ q.answer = 200 => q.items = q.sent
      BY <1>2 DEF EngineLogged, FromOf, EngineCalls
    <2>5. q.to = "stream" /\ q.pc \in {"done", "failed"} =>
             /\ q.answer = Len(q.calls)
             /\ {q.calls[n][1] : n \in DOMAIN q.calls} =
                   {i \in DOMAIN q.items : IsEvent(q.items[i]) /\ \A j \in 1 .. i : ~Broken(j)}
             /\ q.pc = "done" <=> \A i \in DOMAIN q.items : ~Broken(i)
      BY <1>2 DEF StreamDone
    <2> QED BY <1>2, <2>3, <2>4, <2>5
  <1> QED BY <1>3 DEF AllOrNothing

-----------------------------------------------------------------------------
(* The theorems *)

\* What a parser makes of a message or of an alert is sound.
LEMMA EntryIsSound ==
    ASSUME StateTyped, EntryInv, NEW x \in Entries, NEW ev, ev = EntryOf(x).event
    PROVE  SoundEvent(ev, ev.tenant)
  <1>1. FromMessage(EntryOf(x)) \/ FromPost(EntryOf(x))
    BY DEF EntryInv
  <1>2. clock \in Nat
    BY DEF StateTyped
  <1>3. CASE FromMessage(EntryOf(x))
    <2>1. PICK msg : msg = EntryOf(x).msg
      OBVIOUS
    <2>2. PICK t \in 0 .. clock : ev = parseEvent(msg, t)
      BY <1>3, <2>1 DEF FromMessage
    <2>3. msg \in Messages /\ Parses(msg) /\ t \in Nat
      BY <1>2, <1>3, <2>1 DEF FromMessage
    <2>4. SoundEvent(ev, extractTenantID(msg.subject))
      BY <2>2, <2>3, EventFacts
    <2> QED BY <2>4 DEF SoundEvent
  <1>4. CASE FromPost(EntryOf(x))
    <2>1. PICK alert : alert = EntryOf(x).msg.data
      OBVIOUS
    <2>2. PICK t \in 0 .. clock : ev = FalcoWebhookEvent(alert, t)
      BY <1>4, <2>1 DEF FromPost
    <2>3. t \in Nat
      BY <1>2
    <2>4. SoundEvent(ev, alert.host)
      BY <2>2, <2>3, WebhookEvent
    <2> QED BY <2>4 DEF SoundEvent
  <1> QED BY <1>1, <1>3, <1>4

LEMMA BufferIsTyped ==
    ASSUME StateTyped, EntryInv, IngestedOnce, NEW k \in Keys
    PROVE  /\ Len(buffer[k]) <= BufferCap
           /\ \A i \in DOMAIN buffer[k] :
                 LET e == buffer[k][i] IN
                 /\ <<e.tenant, e.type>> = k /\ e.time \in Int /\ e.id # <<"">>
                 /\ e.source \in {"netguard", "wazuh", "falco", "suricata"} \/ e.type = "fim"
                       => e.severity \in 1 .. 5
  <1>1. PICK l, n, m, b : l = log[k] /\ n = Len(l) /\ m = Min({n, BufferCap}) /\ b = buffer[k]
    OBVIOUS
  <1>2. n \in Nat /\ DOMAIN l = 1 .. n /\ BufferCap \in Nat
    <2>1. log[k] \in Seq(Range(log[k]))
      BY DEF StateTyped
    <2>2. Len(log[k]) \in Nat /\ DOMAIN log[k] = 1 .. Len(log[k])
      BY <2>1, SeqFacts
    <2> QED BY <1>1, <2>2, IngestAssumption
  <1>3. m = (IF n <= BufferCap THEN n ELSE BufferCap) /\ m \in Nat /\ m <= BufferCap /\ m <= n
    BY <1>1, <1>2, MinFacts
  <1>4. b = [i \in 1 .. m |-> l[i + n - m].event]
    BY <1>1, OnceParts DEF Recent
  <1>5. Len(b) = m /\ DOMAIN b = 1 .. m
    <2>1. b = [i \in 1 .. m |-> b[i]]
      BY <1>4
    <2> QED BY <1>3, <1>4, <2>1, FunSeq
  <1>6. ASSUME NEW i \in DOMAIN b, NEW e, e = b[i]
        PROVE  /\ <<e.tenant, e.type>> = k /\ e.time \in Int /\ e.id # <<"">>
               /\ e.source \in {"netguard", "wazuh", "falco", "suricata"} \/ e.type = "fim"
                     => e.severity \in 1 .. 5
    <2>1. i + n - m \in 1 .. n /\ e = l[i + n - m].event
      BY <1>2, <1>3, <1>4, <1>5, <1>6
    <2>2. PICK x : x = <<k, i + n - m>>
      OBVIOUS
    <2>3. x \in Entries /\ EntryOf(x) = l[i + n - m]
      BY <1>1, <1>2, <2>1, <2>2, EntriesAre DEF EntryOf
    <2>4. e = EntryOf(x).event /\ x[1] = k
      BY <2>1, <2>2, <2>3
    <2>5. <<e.tenant, e.type>> = k
      BY <2>3, <2>4 DEF EntryInv
    <2>6. SoundEvent(e, e.tenant)
      BY <2>3, <2>4, EntryIsSound
    <2> QED BY <2>5, <2>6 DEF SoundEvent
  <1> QED BY <1>1, <1>3, <1>5, <1>6

\* Every queue and every buffer of ingestion stays within its limit (PendingCap
\* and maxBufferPerKey), and every event of a buffer is filed under its own
\* tenant and type, with an id, a time (before 1970 when int64(unixMS) wraps)
\* and, where its source states one, a severity from 1 to 5: for every set of
\* messages, posts and streams.
THEOREM IngestTyped == Spec => []TypeOK
  <1>1. IngestInv => TypeOK
    <2> SUFFICES ASSUME IngestInv PROVE TypeOK
      OBVIOUS
    <2>0. StateTyped /\ EntryInv /\ IngestedOnce
      BY DEF IngestInv
    <2>1. clock \in Nat /\ inputs \in 0 .. MaxInputs /\ ingested \in Nat
      BY <2>0 DEF StateTyped
    <2>2. \A s \in allSubjects : Len(pending[s]) <= PendingCap
      BY DEF IngestInv, SubscriptionInv
    <2>3. \A k \in Keys : Len(buffer[k]) <= BufferCap
      BY <2>0, BufferIsTyped
    <2>4. \A k \in Keys : \A i \in DOMAIN buffer[k] :
            LET e == buffer[k][i] IN
            /\ <<e.tenant, e.type>> = k /\ e.time \in Int /\ e.id # <<"">>
            /\ e.source \in {"netguard", "wazuh", "falco", "suricata"} \/ e.type = "fim"
                  => e.severity \in 1 .. 5
      BY <2>0, BufferIsTyped
    <2>5. ASSUME NEW w \in Receivers PROVE Range(handlers[w]) \subseteq Handlers \cup {"engine"}
      <3>1. handlers[w] \in Seq(Fns)
        BY <2>0 DEF StateTyped
      <3>2. \A j \in DOMAIN handlers[w] : handlers[w][j] \in Fns
        BY <3>1, SeqFacts
      <3> QED BY <3>2 DEF Range, Fns
    <2>6. \A r \in Requests :
             req[r].pc \in {"ready", "parsed", "dispatch", "stream", "done", "failed"}
      <3>1. \A r \in Requests : req[r] \in Request
        BY <2>0 DEF StateTyped
      <3> QED BY <3>1, RequestFields
    <2> QED BY <2>1, <2>2, <2>3, <2>4, <2>5, <2>6 DEF TypeOK
  <1> QED BY <1>1, IngestInvariant, PTL

\* Every event counted by EventsIngested was appended once or is about to be; a
\* buffer holds the most recent events of its key, before pruneBuffer; and the
\* events of one subscription, or of one webhook request, keep their order,
\* however the callbacks and the requests interleave between their two critical
\* sections.
THEOREM StoredOnceInOrder == Spec => []IngestedOnce
  <1>1. IngestInv => IngestedOnce
    BY DEF IngestInv
  <1> QED BY <1>1, IngestInvariant, PTL

\* The order of severity of each source survives its parser, and an internal
\* address, IPv6 included, is an indicator of a network sensor's event only if a
\* client asked for it by name or isPrivateIP overlooks it, which it does for
\* fe80::/10, for ::1 written in full and for fc00::/7 in capitals and for
\* nothing else: for every message and every address.
THEOREM SeveritiesKept == Spec => []Normalised
  <1>1. IngestInv => Normalised
    BY LogIsNormalised DEF IngestInv
  <1> QED BY <1>1, IngestInvariant, PTL

\* A refused request calls no handler; an accepted one calls each handler that
\* was registered before it came once, and in order, for each event within the
\* limit on a body, which for Falco is each event posted, while Suricata's NDJSON
\* may lose what lies behind the limit; and a stream delivers the events before
\* its first broken line: for every number of handlers, items and concurrent
\* requests, wherever the limit falls.
THEOREM RequestsAllOrNothing == Spec => []AllOrNothing
  <1>1. IngestInv => AllOrNothing
    BY RequestsEnd
  <1> QED BY <1>1, IngestInvariant, PTL
=============================================================================
