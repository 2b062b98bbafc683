-------------------------- MODULE CorrelationRules --------------------------
(***************************************************************************)
(* The pure part of internal/correlation: which buffered events satisfy a  *)
(* rule (matchRule, matchCondition) and the deduplication key of a match   *)
(* (fingerprint).                                                          *)
(*                                                                         *)
(* An event is a record                                                    *)
(*   [id, tenant, agent, source, etype, title, ts, seq]                    *)
(* where seq is its place in the order of arrival.  Its id comes from the  *)
(* message (raw.EventID, raw.AlertID), so a message delivered twice is     *)
(* buffered twice under one id; and different messages may have one id     *)
(* too, for sensors make them from a flow, a pid or an address and a time  *)
(* in seconds.                                                             *)
(*                                                                         *)
(* A rule is a record                                                      *)
(*   [window, severity, threshold, conditions]                             *)
(* and is identified by its position in Rules (rule.ID in the code).  A    *)
(* condition's FieldMatch is abstracted to the set of titles whose fields  *)
(* contain every required substring.                                       *)
(***************************************************************************)
EXTENDS Integers, Sequences, FiniteSets

CONSTANTS
    Tenants,       \* tenant ids
    UpToColon,     \* tenant id -> the part before its first colon
    EventTypes,    \* "process", "network", "fim", "alert"
    Rules          \* the active rule set, a sequence of rule records

RuleIDs == DOMAIN Rules

matchCondition(cond, ev) ==
    /\ cond.source \in {"any", ev.source}
    /\ cond.etype \in {"any", ev.etype}
    /\ ev.title \in cond.titles

\* The number of events a condition needs: MinCount (at least one), raised
\* to the rule's Threshold.
Required(rule, cond) ==
    LET atLeastOne == IF cond.minCount <= 0 THEN 1 ELSE cond.minCount
    IN  IF rule.threshold > 0 /\ atLeastOne < rule.threshold
        THEN rule.threshold ELSE atLeastOne

\* The buffer keys whose events are evaluated for a tenant: a key is
\* tenant:type, and the evaluator takes what is before its first colon.
KeysOf(tenant) == {k \in Tenants \X EventTypes : UpToColon[k[1]] = tenant}

\* Mutant: the event at the cutoff is counted in.
EventsAfter_AtCutoff(buf, tenant, cutoff) ==
    {ev \in UNION {buf[k] : k \in KeysOf(tenant)} : ev.ts >= cutoff}

\* A tenant's buffered events after the cutoff; buf is keyed by
\* <<tenant, event type>>.
EventsAfter(buf, tenant, cutoff) ==
    {ev \in UNION {buf[k] : k \in KeysOf(tenant)} : ev.ts > cutoff}

\* The order of a tenant's events: key by key as the map was iterated (order),
\* and by arrival within a key.
Earlier(e, f, order) ==
    LET Place(ev) == order[<<ev.tenant, ev.etype>>] IN
    Place(e) < Place(f) \/ (Place(e) = Place(f) /\ e.seq < f.seq)

\* The events of a match, one per event id, or {} when some condition has too
\* few hits.  The hits are counted before duplicates are removed, as in the
\* code; of one id the first hit of the first condition that has one is kept.
matchRule(rule, events, order) ==
    LET hits(c) == {ev \in events : matchCondition(rule.conditions[c], ev)}
        kept(c) == {ev \in hits(c) :
                       /\ \A d \in 1 .. c - 1 : \A e \in hits(d) : e.id # ev.id
                       /\ \A e \in hits(c) : e.id = ev.id => ~Earlier(e, ev, order)}
    IN  IF \A c \in DOMAIN rule.conditions :
              Cardinality(hits(c)) >= Required(rule, rule.conditions[c])
        THEN UNION {kept(c) : c \in DOMAIN rule.conditions}
        ELSE {}

\* ruleID + tenantID + the set of (agentID, eventType, title) of the events.
fingerprint(events, r, tenant) ==
    [rule   |-> r,
     tenant |-> tenant,
     parts  |-> {<<ev.agent, ev.etype, ev.title>> : ev \in events}]
=============================================================================
