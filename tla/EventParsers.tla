---------------------------- MODULE EventParsers ----------------------------
(***************************************************************************)
(* internal/correlation/ingestor.go: from a NATS message to the            *)
(* NormalizedEvent the rules see.  A subject is the sequence of its        *)
(* segments; a payload is a record of the raw struct's fields the event    *)
(* depends on, with ok = FALSE when json.Unmarshal rejects it.  "" is an   *)
(* absent string, 0 an absent time, Garbled a timestamp that is no         *)
(* RFC3339.  Titles, descriptions and letter case are left out; the keys   *)
(* of RawData are in DefaultRules.                                         *)
(* now stands for time.Now(), and with it for the uuid made at that time.  *)
(***************************************************************************)
EXTENDS Integers, Sequences

CONSTANTS
    Octets,     \* address -> its bytes
    Written,    \* address -> how its text is written, where an IPv6 address has a choice:
                \* "short" is RFC 5952's, "full" has every digit, "upper" begins with a capital
    MsLimit     \* 2^63: from here on an unsigned number of milliseconds is negative as int64

ASSUME OctetsAssumption ==
    /\ \A ip \in DOMAIN Octets : Octets[ip] \in Seq(0 .. 255) /\ Len(Octets[ip]) \in {4, 16}
    /\ Written \in [DOMAIN Octets -> {"short", "full", "upper"}]
    /\ MsLimit \in Nat

Garbled == -1

SubjProcessEvent   == <<"kubric", "*", "endpoint", "process", "v1">>
SubjFimEvent       == <<"kubric", "*", "endpoint", "fim", "v1">>
SubjNetworkEvent   == <<"kubric", "*", "network", "activity", "v1">>
SubjNetworkAlert   == <<"kubric", "*", "detection", "network_ids", "v1">>
SubjThresholdAlert == <<"kubric", "*", "detection", "threshold", "v1">>
SubjWazuhAlert     == <<"kubric", "*", "wazuh", "alert", "v1">>
SubjFalcoAlert     == <<"kubric", "*", "falco", "alert", "v1">>
SubjSuricataAlert  == <<"kubric", "*", "suricata", "alert", "v1">>

allSubjects == {SubjProcessEvent, SubjFimEvent, SubjNetworkEvent, SubjNetworkAlert,
                SubjThresholdAlert, SubjWazuhAlert, SubjFalcoAlert, SubjSuricataAlert}

extractTenantID(subject) ==
    IF Len(subject) < 3 \/ subject[1] # "kubric" THEN "" ELSE subject[2]

matchesSubject(subject, pattern) ==
    /\ Len(subject) = Len(pattern)
    /\ \A i \in DOMAIN pattern : pattern[i] \in {"*", subject[i]}

-----------------------------------------------------------------------------
(* Conversions *)

\* A time, or Garbled; of an rfc that can be read the parser returns the time it states.
parseTimestamp(rfc, unixMS, now) ==
    CASE rfc # 0 -> rfc
      [] rfc = 0 /\ unixMS <= 0 -> now
      [] rfc = 0 /\ unixMS > 0  -> IF unixMS < MsLimit THEN unixMS ELSE unixMS - 2 * MsLimit

OrNow(ts, now) == IF ts = Garbled THEN now ELSE ts

OrUuid(id, now) == IF id = "" THEN <<"uuid", now>> ELSE <<id>>

parseSeverityString(s) ==
    CASE s \in {"informational", "info", "debug", "notice"} -> 1
      [] s \in {"medium", "warning"}                        -> 3
      [] s \in {"high", "error"}                            -> 4
      [] s \in {"critical", "emergency", "alert"}           -> 5
      [] OTHER                                              -> 2

wazuhLevelToSeverity(level) ==
    CASE level <= 4  -> 1
      [] level \in 5 .. 7   -> 2
      [] level \in 8 .. 10  -> 3
      [] level \in 11 .. 13 -> 4
      [] OTHER -> 5

falcoPriorityToSeverity(p) ==
    CASE p \in {"debug", "informational"}         -> 1
      [] p = "warning"                            -> 3
      [] p = "error"                              -> 4
      [] p \in {"critical", "alert", "emergency"} -> 5
      [] OTHER                                    -> 2

suricataSeverityToKubric_Raw(s) == IF s \in 1 .. 3 THEN s ELSE 1  \* mutant: not inverted

suricataSeverityToKubric(s) == IF s \in 1 .. 3 THEN 5 - s ELSE 1

Loopback6 == [i \in 1 .. 16 |-> IF i = 16 THEN 1 ELSE 0]

\* Prefixes of the text, so the spelling decides: "172.2" also covers 172.2 and 172.200 to
\* 172.255, "fc" and "fd" also cover fc::, fc0:: and their like, and not FC00::, and ::1 is
\* recognised in its short form only.  No prefix is there for fe80::/10.
isPrivateIP(ip) ==
    LET b == Octets[ip] IN
    IF Len(b) = 4
    THEN \/ b[1] \in {10, 127}
         \/ b[1] = 172 /\ b[2] \in {2} \cup 16 .. 31 \cup 200 .. 255
         \/ b[1] = 192 /\ b[2] = 168
         \/ b[1] = 169 /\ b[2] = 254
    ELSE \/ Written[ip] # "upper" /\ b[1] \in {252, 253}
         \/ /\ Written[ip] = "short"
            /\ \/ b = Loopback6
               \/ b[1] = 0 /\ b[2] \in {252, 253}
               \/ b[1] = 15 /\ b[2] \in 192 .. 223

Present(s)  == IF s = "" THEN <<>> ELSE <<s>>
Public(ip)  == IF ip = "" THEN <<>> ELSE IF isPrivateIP(ip) THEN <<>> ELSE <<ip>>
First(seq)  == IF seq = <<>> THEN "" ELSE seq[1]
NonEmpty(s) == s # ""

-----------------------------------------------------------------------------
(* The parsers *)

NormalizedEvent(source, type, id, severity, ts, tenant, raw, indicators) ==
    [source |-> source, type |-> type, id |-> id, severity |-> severity, time |-> ts,
     tenant |-> tenant, agent |-> raw.agent, indicators |-> indicators,
     tactic |-> "", technique |-> "", fingerprint |-> <<>>]

parseProcessEvent(tenant, raw, now) ==
    [NormalizedEvent("coresec", "process", OrUuid(raw.id, now), raw.severity,
                     OrNow(parseTimestamp(raw.ts, 0, now), now), tenant, raw, Present(raw.hash))
     EXCEPT !.fingerprint = Present(raw.hash)]

parseFimEvent(tenant, raw, now) ==
    [NormalizedEvent("coresec", "fim", OrUuid(raw.id, now), parseSeverityString(raw.severity),
                     parseTimestamp(0, raw.ts, now), tenant, raw, Present(raw.hash))
     EXCEPT !.fingerprint = Present(raw.hash)]

parseNetworkEvent(tenant, raw, now) ==
    NormalizedEvent("netguard", "network", OrUuid(raw.id, now), 1,
                    parseTimestamp(0, raw.ts, now), tenant, raw, Public(raw.dst))

parseNetworkAlertEvent(tenant, raw, now) ==
    NormalizedEvent("netguard", "alert", OrUuid(raw.id, now), parseSeverityString(raw.severity),
                    parseTimestamp(0, raw.ts, now), tenant, raw,
                    Public(raw.src) \o Public(raw.dst))

parseThresholdAlert(tenant, raw, now) ==
    NormalizedEvent("coresec", "alert", OrUuid(raw.id, now), raw.severity,
                    OrNow(parseTimestamp(raw.ts, 0, now), now), tenant, raw, <<>>)

parseWazuhAlert(tenant, raw, now) ==
    [NormalizedEvent("wazuh", "alert", OrUuid(raw.id, now), wazuhLevelToSeverity(raw.level),
                     OrNow(parseTimestamp(raw.ts, 0, now), now), tenant, raw, Present(raw.ip))
     EXCEPT !.tactic = First(raw.tactics), !.technique = First(raw.techniques)]

parseFalcoAlert(tenant, raw, now) ==
    NormalizedEvent("falco", "alert", OrUuid(raw.id, now), falcoPriorityToSeverity(raw.priority),
                    OrNow(parseTimestamp(raw.ts, 0, now), now), tenant, raw, <<>>)

parseSuricataAlert(tenant, raw, now) ==
    LET ts == OrNow(parseTimestamp(raw.ts, 0, now), now) IN
    NormalizedEvent("suricata", "alert", <<"suricata", raw.flow, ts>>,
                    suricataSeverityToKubric(raw.severity), ts, tenant, raw,
                    Public(raw.src) \o Public(raw.dst) \o Present(raw.host)
                        \o SelectSeq(raw.queries, NonEmpty))

\* The message can be parsed: its subject has a tenant and a parser, and its
\* payload is an object of the right shape.
Parses(msg) ==
    /\ extractTenantID(msg.subject) # ""
    /\ \E p \in allSubjects : matchesSubject(msg.subject, p)
    /\ msg.data.ok

parseEvent(msg, now) ==
    LET tenant == extractTenantID(msg.subject)
        Is(pattern) == matchesSubject(msg.subject, pattern)
    IN  CASE Is(SubjProcessEvent)   -> parseProcessEvent(tenant, msg.data, now)
          [] Is(SubjFimEvent)       -> parseFimEvent(tenant, msg.data, now)
          [] Is(SubjNetworkEvent)   -> parseNetworkEvent(tenant, msg.data, now)
          [] Is(SubjNetworkAlert)   -> parseNetworkAlertEvent(tenant, msg.data, now)
          [] Is(SubjThresholdAlert) -> parseThresholdAlert(tenant, msg.data, now)
          [] Is(SubjWazuhAlert)     -> parseWazuhAlert(tenant, msg.data, now)
          [] Is(SubjFalcoAlert)     -> parseFalcoAlert(tenant, msg.data, now)
          [] Is(SubjSuricataAlert)  -> parseSuricataAlert(tenant, msg.data, now)

\* Engine.IngestFalcoAlert's event: the host is taken for the tenant.
FalcoWebhookEvent(alert, now) ==
    [NormalizedEvent("falco", "alert", <<"uuid", now>>, falcoPriorityToSeverity(alert.priority),
                     now, alert.host, [agent |-> alert.host], <<>>)
     EXCEPT !.fingerprint = <<alert.rule, alert.host>>]
=============================================================================
