--------------------------- MODULE IncidentViews ---------------------------
(***************************************************************************)
(* What leaves the correlation engine: the answers of the detection API    *)
(* (noc/handler_detection.go with the query methods of engine.go) and what *)
(* a dispatch sends to TheHive and Shuffle.  Pure operators, compared with *)
(* reference definitions over the bounded inputs at the end.               *)
(*                                                                         *)
(* A query parameter is <<>> when absent and <<n>> otherwise; one that is  *)
(* no number is treated by every handler as a number out of range.  Map    *)
(* iteration and sort.Slice leave the order of equal times open, so a      *)
(* listing is the set of answers the build can give.  A text is a record   *)
(* of what classifyIndicator looks at.                                     *)
(***************************************************************************)
EXTENDS Integers, Sequences, FiniteSets
LOCAL INSTANCE SequencesExt

\* sort.Slice over the elements of S by increasing rank.
Sorted(S, rank) ==
    {s \in SetToSeqs(S) : \A i, j \in DOMAIN s : rank[s[i]] < rank[s[j]] => i < j}

Limited(s, limit) == IF limit > 0 /\ Len(s) > limit THEN SubSeq(s, 1, limit) ELSE s
Page(s, limit, offset) ==
    IF offset >= Len(s) THEN <<>> ELSE Limited(SubSeq(s, offset + 1, Len(s)), limit)

ListIncidents(incidents, tenantID, severity, status, limit, offset) ==
    LET result == {inc \in incidents : /\ tenantID \in {"", inc.tenant}
                                       /\ severity <= 0 \/ inc.severity = severity
                                       /\ status \in {"", inc.status}}
        newest == [inc \in result |-> -inc.createdAt]
    IN  {Page(s, limit, offset) : s \in Sorted(result, newest)}

\* since and until are <<>> for the zero time; an event's prefix is the part
\* of its buffer key before the first colon.
ListTimeline(buffer, tenantID, since, until, limit) ==
    LET result == {ev \in buffer : /\ ev.prefix = tenantID
                                   /\ since = <<>> \/ ev.ts > since[1]
                                   /\ until = <<>> \/ ev.ts < until[1]}
        oldest == [ev \in result |-> ev.ts]
    IN  {Limited(s, limit) : s \in Sorted(result, oldest)}

-----------------------------------------------------------------------------
Refused == {[code |-> 422, data |-> <<>>]}
OK(answers) == {[code |-> 200, data |-> a] : a \in answers}
InRange(raw, range, default) ==
    IF raw # <<>> /\ raw[1] \in range THEN raw[1] ELSE default

listIncidents(incidents, q) ==
    IF \/ q.tenant_id = ""
       \/ q.severity # <<>> /\ q.severity[1] \notin 1..5
       \/ q.status \notin {"", "new", "investigating", "resolved"}
    THEN Refused
    ELSE OK(ListIncidents(incidents, q.tenant_id, InRange(q.severity, 1..5, 0), q.status,
                          InRange(q.limit, 1..500, 50),
                          IF q.offset # <<>> /\ q.offset[1] >= 0 THEN q.offset[1] ELSE 0))

\* fiveMinutes is in the unit of now.
listTimeline(buffer, q, now, fiveMinutes) ==
    LET since == IF q.since = <<>> THEN now - fiveMinutes ELSE q.since[1]
        until == IF q.until = <<>> THEN now ELSE q.until[1]
    IN  IF q.tenant_id = "" \/ since > until THEN Refused
        ELSE OK(ListTimeline(buffer, q.tenant_id, <<since>>, <<until>>,
                             InRange(q.limit, 1..2000, 200)))

-----------------------------------------------------------------------------
mapSeverityToTheHive(s) ==
    CASE s <= 2 -> 1 [] s = 3 -> 2 [] s = 4 -> 3 [] OTHER -> 4

\* labels: parts between dots; digits: every part has only digits (or is empty).
classifyIndicator(ind) ==
    IF ind.labels = 4 THEN IF ind.digits THEN "ip" ELSE "domain"
    ELSE IF ind.len \in {32, 40, 64, 128} THEN "hash"
    ELSE IF ind.http THEN "url" ELSE "other"

\* The indicators of the events, each one where it is first met.
Unique(events) ==
    FoldLeft(LAMBDA seen, ind : IF ind \in ToSet(seen) THEN seen ELSE Append(seen, ind),
             <<>>, FlattenSeq([i \in DOMAIN events |-> events[i].indicators]))

extractObservables(events) ==
    LET uniq == Unique(events)
    IN  [i \in DOMAIN uniq |-> [dataType |-> classifyIndicator(uniq[i]), data |-> uniq[i]]]

\* The payload is made from the copy that was dispatched: thehive is what it
\* was before dispatchToTheHive stored the alert's id.
buildShufflePayload(inc) ==
    [status |-> inc.status, thehive_alert_id |-> inc.thehive,
     event_ids |-> [i \in DOMAIN inc.events |-> inc.events[i].id],
     indicators |-> Unique(inc.events)]

\* tags: a sequence over "severity", "tactic", "generic" (the tag of this
\* incident's severity, of its tactic, kubric-correlation) and others.
selectShuffleWorkflow(workflows, tactic) ==
    LET tagged(tag) == {i \in DOMAIN workflows : /\ workflows[i].isValid
                                                 /\ tag \in ToSet(workflows[i].tags)}
        last(tag)   == CHOOSE i \in tagged(tag) : \A j \in tagged(tag) : j <= i
        id(tag)     == workflows[last(tag)].id
    IN  CASE tagged("severity") # {} -> id("severity")
          [] tagged("severity") = {} /\ tactic # "" /\ tagged("tactic") # {} -> id("tactic")
          [] OTHER -> IF tagged("generic") # {} THEN id("generic") ELSE ""

-----------------------------------------------------------------------------
(* Bounded inputs and what is expected of the operators on them *)

LOCAL Inc(id, time) ==
    [id |-> id, tenant |-> "t", severity |-> 3, status |-> "new", createdAt |-> time]
LOCAL Apart == {Inc(1, 10), Inc(2, 20), Inc(3, 30), [Inc(4, 40) EXCEPT !.tenant = "u"],
                [Inc(5, 50) EXCEPT !.status = "resolved"]}
LOCAL Tied  == {Inc(1, 10), Inc(2, 10), Inc(3, 30)}
LOCAL Walk(incidents, limit) ==
    {FlattenSeq(pages) : pages \in
        {p \in [1..4 -> UNION {ListIncidents(incidents, "t", 0, "new", limit, n) : n \in 0..12}] :
            \A n \in 1..4 : p[n] \in ListIncidents(incidents, "t", 0, "new", limit, (n - 1) * limit)}}

\* A client that walks through the pages of listIncidents meets every matching
\* incident once, newest first, when no two were created at the same time.
ASSUME PagesTile == \A limit \in 1..4 : Walk(Apart, limit) = {<<Inc(3, 30), Inc(2, 20), Inc(1, 10)>>}

\* Incidents of one evaluation share their time, and each request sorts the
\* map anew: a client may then meet one of them twice and miss another.
ASSUME TiedPagesMayRepeat ==
    \E walk \in Walk(Tied, 2) : ToSet(walk) # Tied /\ Len(walk) = Cardinality(Tied)

\* A timeline that is cut keeps the events that happened first.
ASSUME TimelineKeepsFirst ==
    LET buffer == {[id |-> i, prefix |-> "t", ts |-> i \div 2] : i \in 1..5}
    IN  \A limit \in 1..5 : \A s \in ListTimeline(buffer, "t", <<>>, <<3>>, limit) :
            /\ Cardinality(ToSet(s)) = Len(s)
            /\ \A ev \in buffer \ ToSet(s), i \in DOMAIN s : s[i].ts <= ev.ts

\* TheHive's severities keep the order of Kubric's, and the alerts that
\* dispatchToTheHive promotes are those of its two highest.
ASSUME SeverityOrderKept ==
    \A s, t \in 0..6 : /\ s <= t => mapSeverityToTheHive(s) <= mapSeverityToTheHive(t)
                       /\ s >= 4 <=> mapSeverityToTheHive(s) >= 3

\* Each indicator is sent to TheHive once, in the order of first appearance.
ASSUME ObservablesComplete ==
    \A a, b, c \in 1..3 :
        LET events == <<[indicators |-> <<a, b>>], [indicators |-> <<>>], [indicators |-> <<c>>]>>
            first  == <<a, b, c>>
            pos(x) == CHOOSE i \in 1..3 : first[i] = x /\ \A j \in 1..(i - 1) : first[j] # x
            uniq   == Unique(events)
        IN  /\ ToSet(uniq) = {a, b, c}
            /\ \A i, j \in DOMAIN uniq : i < j => pos(uniq[i]) < pos(uniq[j])

\* selectShuffleWorkflow's comment: "Priority: exact severity tag > MITRE
\* tactic tag > generic".
ASSUME WorkflowPriority ==
    LET rank(wf) == IF ~wf.isValid THEN 0
                    ELSE IF "severity" \in ToSet(wf.tags) THEN 3
                    ELSE IF "tactic" \in ToSet(wf.tags) THEN 2
                    ELSE IF "generic" \in ToSet(wf.tags) THEN 1 ELSE 0
        Wfs(id) == [id : {id}, isValid : BOOLEAN,
                    tags : {<<>>, <<"generic">>, <<"tactic">>, <<"severity", "generic">>,
                            <<"tactic", "severity">>, <<"other">>}]
    IN  \A v \in Wfs("v"), w \in Wfs("w") :
            LET chosen == selectShuffleWorkflow(<<v, w>>, "TA0008")
            IN  CASE chosen = "v" -> rank(v) > rank(w)
                  [] chosen = "w" -> rank(w) > 0 /\ rank(w) >= rank(v)
                  [] OTHER -> rank(v) = 0 /\ rank(w) = 0
=============================================================================
