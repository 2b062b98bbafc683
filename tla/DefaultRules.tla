---------------------------- MODULE DefaultRules ----------------------------
(***************************************************************************)
(* internal/correlation/rules.go: the rules the engine starts with, and    *)
(* the keys of RawData that ingestor.go gives the events they look at (the *)
(* JSON names of the raw structs).  Times are seconds.                     *)
(***************************************************************************)
EXTENDS Integers, Sequences

Cond(source, etype, fields, minCount) ==
    [source |-> source, etype |-> etype, fields |-> fields, minCount |-> minCount]
Rule(severity, window, threshold, conditions) ==
    [severity |-> severity, window |-> window, threshold |-> threshold,
     conditions |-> conditions]

Outbound(minCount) == Cond("netguard", "network", {"direction"}, minCount)

ruleR001LateralMovement ==
    Rule(4, 30, 0, <<Cond("coresec", "process", {}, 1), Outbound(1)>>)
ruleR002DefenseEvasionEncoded ==
    Rule(4, 120, 0, <<Cond("coresec", "process", {"cmdline"}, 1), Cond("coresec", "fim", {}, 1)>>)
ruleR003CredentialDumping ==
    Rule(5, 60, 0, <<Cond("coresec", "process", {"cmdline"}, 1), Outbound(1)>>)
ruleR004C2Beaconing == Rule(4, 300, 5, <<Outbound(5)>>)
ruleR005RansomwareIndicators == Rule(5, 60, 20, <<Cond("coresec", "fim", {}, 20)>>)
ruleR006PrivilegeEscalation ==
    Rule(4, 30, 0, <<Cond("coresec", "process", {"user"}, 1),
                     Cond("wazuh", "alert", {"rule_group"}, 1)>>)
ruleR007DataExfiltration ==
    Rule(5, 300, 0, <<Cond("coresec", "fim", {"path"}, 1), Outbound(1)>>)
ruleR008WazuhCoreSec ==
    Rule(3, 120, 0, <<Cond("wazuh", "alert", {}, 1), Cond("coresec", "process", {}, 1)>>)

DefaultRuleSet ==
    <<ruleR001LateralMovement, ruleR002DefenseEvasionEncoded, ruleR003CredentialDumping,
      ruleR004C2Beaconing, ruleR005RansomwareIndicators, ruleR006PrivilegeEscalation,
      ruleR007DataExfiltration, ruleR008WazuhCoreSec>>

-----------------------------------------------------------------------------
Common == {"tenant_id", "agent_id"}
Ends   == {"src_ip", "src_port"}

rawProcessEvent ==
    Common \cup {"event_id", "timestamp", "class_uid", "severity_id", "activity_id", "pid",
                 "ppid", "executable", "cmdline", "user", "blake3_hash"}
rawFimEvent ==
    Common \cup {"event_id", "timestamp", "class_uid", "activity_id", "path", "old_hash",
                 "new_hash", "severity"}
rawNetworkActivity ==
    Common \cup Ends \cup {"event_id", "timestamp_ms", "class_uid", "dst_ip", "dst_port",
                           "protocol", "direction", "bytes_in", "bytes_out", "payload_hex"}
rawIdsAlert ==
    Common \cup Ends \cup {"event_id", "timestamp", "rule_id", "rule_name", "dst_ip", "dst_port",
                           "protocol", "severity", "class_uid"}
rawThresholdAlert ==
    Common \cup {"alert_id", "timestamp", "metric_name", "value", "threshold", "severity",
                 "message"}
\* parseWazuhAlert adds rule_group.
rawWazuhAlert ==
    Common \cup {"alert_id", "timestamp", "rule", "agent", "data", "decoder", "location",
                 "rule_group"}
rawFalcoAlert ==
    Common \cup {"alert_id", "time", "priority", "rule", "output", "source", "tags",
                 "output_fields"}
rawSuricataAlert ==
    Common \cup Ends \cup {"timestamp", "flow_id", "event_type", "dest_ip", "dest_port", "proto",
                           "alert", "http", "dns"}

Parsed(source, etype, keys) == [source |-> source, etype |-> etype, keys |-> keys]
Produced ==
    {Parsed("coresec", "process", rawProcessEvent), Parsed("coresec", "fim", rawFimEvent),
     Parsed("netguard", "network", rawNetworkActivity), Parsed("netguard", "alert", rawIdsAlert),
     Parsed("coresec", "alert", rawThresholdAlert), Parsed("wazuh", "alert", rawWazuhAlert),
     Parsed("falco", "alert", rawFalcoAlert), Parsed("suricata", "alert", rawSuricataAlert)}

bufferWindow    == 300
maxBufferPerKey == 1000
dedupTTL        == 3600

\* Every built-in rule can fire: a parser produces the fields each condition
\* looks at, the buffer keeps events for the rule's window and has room for as
\* many as it asks for, and the dedup cache remembers a detection for longer
\* than it is suppressed.
ASSUME RulesCanFire ==
    \A i \in DOMAIN DefaultRuleSet :
        LET rule == DefaultRuleSet[i] IN
        /\ rule.window <= bufferWindow /\ 2 * rule.window < dedupTTL
        /\ \A j \in DOMAIN rule.conditions :
              LET cond == rule.conditions[j] IN
              /\ \E p \in Produced : /\ cond.source = p.source /\ cond.etype = p.etype
                                     /\ cond.fields \subseteq p.keys
              /\ cond.minCount <= maxBufferPerKey /\ rule.threshold <= maxBufferPerKey
=============================================================================
