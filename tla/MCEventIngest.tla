--------------------------- MODULE MCEventIngest ---------------------------
(* Messages for every parser, bodies that are accepted and refused, and   *)
(* streams that end and that fail.  DefaultRules brings its assumption.   *)
EXTENDS EventIngest, DefaultRules, TLC

MCOctets ==
    [lan  |-> <<172, 20, 0, 7>>, wan |-> <<203, 0, 113, 9>>, odd |-> <<172, 200, 1, 1>>,
     ula  |-> [i \in 1 .. 16 |-> IF i = 1 THEN 253 ELSE 0],
     ll   |-> [i \in 1 .. 16 |-> CASE i = 1 -> 254 [] i = 2 -> 128 [] OTHER -> 0],
     lo   |-> Loopback6, lo2 |-> Loopback6]

MCWritten == [ip \in DOMAIN MCOctets |-> IF ip = "lo2" THEN "full" ELSE "short"]

Msg(pattern, tenant, data) ==
    [subject |-> [pattern EXCEPT ![2] = tenant], data |-> data @@ [ok |-> TRUE, agent |-> "a"]]

Suri(sev, ts, src, dst, host) ==
    [ts |-> ts, flow |-> 7, severity |-> sev, src |-> src, dst |-> dst, host |-> host,
     queries |-> <<"", "q">>]
Wazuh(level) == [id |-> "w", ts |-> Garbled, level |-> level, ip |-> "lan",
                 tactics |-> <<"ta">>, techniques |-> <<>>]

MCMessages ==
    {Msg(SubjProcessEvent, "t", [id |-> "", ts |-> 5, severity |-> 0, hash |-> "h"]),
     Msg(SubjFimEvent, "t", [id |-> "f", ts |-> 1500, severity |-> "high", hash |-> ""]),
     Msg(SubjNetworkEvent, "t", [id |-> "n", ts |-> 0, dst |-> "ll"]),
     Msg(SubjNetworkAlert, "t", [id |-> "i", ts |-> 7, severity |-> "critical",
                                 src |-> "lo", dst |-> "odd"]),
     Msg(SubjThresholdAlert, "t", [id |-> "x", ts |-> 0, severity |-> 9]),
     Msg(SubjWazuhAlert, "t", Wazuh(10)), Msg(SubjWazuhAlert, "u", Wazuh(14)),
     Msg(SubjFalcoAlert, "t", [id |-> "", ts |-> 8, priority |-> "notice"]),
     Msg(SubjSuricataAlert, "t", Suri(1, 9, "lan", "wan", "")),
     Msg(SubjSuricataAlert, "t", Suri(3, 0, "ula", "lo2", "lan")),
     Msg(SubjSuricataAlert, "t", [ok |-> FALSE])}

Alert(host, priority) == [kind |-> "event", rule |-> "rule", host |-> host, priority |-> priority]
Line(kind) == [kind |-> kind]
Post(to, form, items) ==
    [to |-> to, method |-> "POST", secret |-> TRUE,
     body |-> [form |-> form, items |-> items, fits |-> Len(items), torn |-> FALSE]]
Cut(post, fits, torn) == [post EXCEPT !.body.fits = fits, !.body.torn = torn]

MCPosts ==
    {Post("falco", "array", <<Alert("t", "error"), Alert("t", "emergency")>>),
     Post("falco", "single", <<Alert("u", "debug")>>),
     Post("falco", "array", <<Alert("t", "alert"), Line("bad")>>),
     [Post("falco", "single", <<Alert("t", "alert")>>) EXCEPT !.secret = FALSE],
     Post("suricata", "none", <<>>),
     Cut(Post("falco", "array", <<Alert("t", "error"), Alert("t", "alert")>>), 1, TRUE),
     Cut(Post("suricata", "ndjson", <<Line("event"), Line("blank"), Line("event"), Line("event")>>),
         3, FALSE),
     Post("suricata", "ndjson", <<Line("event"), Line("comment")>>)}

MCStreams ==
    {<<Line("comment"), Line("event"), Line("event")>>, <<Line("event"), Line("long")>>}

MCSymmetry == Permutations(Requests)
=============================================================================
