------------------------- MODULE IntegrationRoutes -------------------------
(***************************************************************************)
(* The security-tool clients of the NOC server and the HTTP handlers that  *)
(* use them, as tables: what each client method asks of the tool, what the *)
(* client takes for a success, and what each handler refuses before it     *)
(* calls the client.  IntegrationGateway gives them their behaviour.       *)
(***************************************************************************)
LOCAL INSTANCE Naturals

\* The optional clients of integrationHandler; "otx" stands for the OTX key
\* of the ITDR service.  The ITDR service itself is always there.
Clients == {"wazuh", "velociraptor", "thehive", "cortex", "falco",
            "osquery", "shuffle", "bloodhound", "itdr", "otx"}

(***************************************************************************)
(* A call of a client method: the tool it reaches, the HTTP method, and    *)
(* whether it makes the tool do something.  What a caller's own query does *)
(* (VQL, Cypher, SQL) is not known, so it counts as doing something.       *)
(***************************************************************************)
Read(api)       == [api |-> api, verb |-> "GET",  acts |-> FALSE]
Search(api)     == [api |-> api, verb |-> "POST", acts |-> FALSE]
Act(api, verb)  == [api |-> api, verb |-> verb,   acts |-> TRUE]

wazuh_ListAgents          == Read("wazuh")
wazuh_GetAgent            == Read("wazuh")
wazuh_RestartAgent_Get    == Act("wazuh", "GET")     \* mutant
wazuh_RestartAgent        == Act("wazuh", "PUT")
wazuh_ListAlerts          == Read("wazuh")
wazuh_ListSCAPolicies     == Read("wazuh")
wazuh_ListSyscheckFiles   == Read("wazuh")
wazuh_RunActiveResponse   == Act("wazuh", "PUT")
velociraptor_SearchClients   == Read("velociraptor")
velociraptor_GetClient       == Read("velociraptor")
velociraptor_CreateHunt      == Act("velociraptor", "POST")
velociraptor_ListHunts       == Read("velociraptor")
velociraptor_GetHunt         == Read("velociraptor")
velociraptor_GetHuntResults  == Read("velociraptor")
velociraptor_CollectArtifact == Act("velociraptor", "POST")
velociraptor_RunVQL          == Act("velociraptor", "POST")
thehive_CreateAlert    == Act("thehive", "POST")
thehive_GetAlert       == Read("thehive")
thehive_PromoteAlert   == Act("thehive", "POST")
thehive_CreateCase     == Act("thehive", "POST")
thehive_GetCase        == Read("thehive")
thehive_UpdateCase     == Act("thehive", "PATCH")
thehive_ListCases      == Search("thehive")
thehive_AddObservable  == Act("thehive", "POST")
thehive_CreateTask     == Act("thehive", "POST")
cortex_ListAnalyzers   == Read("cortex")
cortex_Analyze         == Act("cortex", "POST")
cortex_GetJob          == Read("cortex")
cortex_GetJobReport    == Read("cortex")
cortex_RunResponder    == Act("cortex", "POST")
osquery_ListHosts      == Read("osquery")
osquery_GetHost        == Read("osquery")
osquery_RunLiveQuery   == Act("osquery", "POST")
bloodhound_ListDomains     == Read("bloodhound")
bloodhound_RunCypher       == Act("bloodhound", "POST")
bloodhound_ListAttackPaths == Read("bloodhound")
shuffle_ListWorkflows      == Read("shuffle")
shuffle_ExecuteWorkflow    == Act("shuffle", "POST")
\* The ITDR service: its rule files (a listing that cannot fail), the MISP
\* files, the OTX service, a script it starts, and the two clients it shares
\* with the gateway.
itdr_ListAssets                 == Read("none")
itdr_ListMispTaxonomies         == Read("itdr")
itdr_RunCypherQueryFile         == bloodhound_RunCypher
itdr_LookupOTXIndicator         == Read("otx")
itdr_RunIdentityResponderScript == Act("itdr", "EXEC")
itdr_RunCortexIdentityResponder == cortex_RunResponder

(***************************************************************************)
(* What comes back: an HTTP status (an exit code for a script) and a body. *)
(* "error" is Wazuh's envelope with a non-zero error field.                *)
(***************************************************************************)
Bodies  == {"json", "error", "empty", "garbage"}

Is2xx(reply) == reply.status \in {200, 201}

wazuh_accepts_Status(reply) == reply.status = 200    \* mutant: error field ignored
\* Each client's own idea of success.
wazuh_accepts(reply)        == reply.status = 200 /\ reply.body = "json"
velociraptor_accepts(reply) == Is2xx(reply) /\ reply.body = "json"
thehive_accepts(verb, reply) ==    \* UpdateCase does not read the body
    Is2xx(reply) /\ (reply.body # "garbage" \/ verb = "PATCH")
cortex_accepts(reply)       == Is2xx(reply) /\ reply.body # "garbage"
bloodhound_accepts(reply)   == Is2xx(reply) /\ reply.body # "garbage"
osquery_accepts(reply)      == Is2xx(reply) /\ reply.body = "json"
shuffle_accepts(reply)      == Is2xx(reply) /\ reply.body = "json"
otx_accepts(reply)          == Is2xx(reply) /\ reply.body = "json"
itdr_accepts(reply)         == reply.status = 200

Accepts(op, reply) ==
    LET api == op.api IN
    CASE api = "wazuh"        -> wazuh_accepts(reply)
      [] api = "velociraptor" -> velociraptor_accepts(reply)
      [] api = "thehive"      -> thehive_accepts(op.verb, reply)
      [] api = "cortex"       -> cortex_accepts(reply)
      [] api = "bloodhound"   -> bloodhound_accepts(reply)
      [] api = "osquery"      -> osquery_accepts(reply)
      [] api = "shuffle"      -> shuffle_accepts(reply)
      [] api = "otx"          -> otx_accepts(reply)
      [] api = "itdr"         -> itdr_accepts(reply)

\* What a tool may answer when it has done what was asked, and when it has
\* not.  Only Wazuh reports a failure in the body of a 200.
RepliesDone(api)   == [status : {200, 201}, body : Bodies \ {"error"}]
RepliesUndone(api) ==
    [status : {500}, body : {"empty"}]
      \cup (IF api = "wazuh" THEN [status : {200}, body : {"error"}] ELSE {})

(***************************************************************************)
(* The handlers: the client that must be configured, the codes with which  *)
(* the handler itself refuses a bad request (400 a body that is not JSON   *)
(* or a host id that is not a number, 422 a missing field, 502 where the   *)
(* ITDR service refuses), the method called, and the code of a success.    *)
(***************************************************************************)
Route(client, refuse, op, ok) ==
    [client |-> client, refuse |-> refuse, op |-> op, ok |-> ok]

wazuhListAgents     == Route("wazuh", {},    wazuh_ListAgents, 200)
wazuhGetAgent       == Route("wazuh", {},    wazuh_GetAgent, 200)
wazuhListAlerts     == Route("wazuh", {},    wazuh_ListAlerts, 200)
wazuhListSCA        == Route("wazuh", {},    wazuh_ListSCAPolicies, 200)
wazuhListSyscheck   == Route("wazuh", {},    wazuh_ListSyscheckFiles, 200)
wazuhActiveResponse == Route("wazuh", {400}, wazuh_RunActiveResponse, 200)
wazuhRestartAgent   == Route("wazuh", {},    wazuh_RestartAgent, 200)
vrSearchClients   == Route("velociraptor", {}, velociraptor_SearchClients, 200)
vrGetClient       == Route("velociraptor", {}, velociraptor_GetClient, 200)
vrCreateHunt      == Route("velociraptor", {400, 422}, velociraptor_CreateHunt, 201)
vrListHunts       == Route("velociraptor", {}, velociraptor_ListHunts, 200)
vrGetHunt         == Route("velociraptor", {}, velociraptor_GetHunt, 200)
vrGetHuntResults  == Route("velociraptor", {}, velociraptor_GetHuntResults, 200)
vrCollectArtifact == Route("velociraptor", {400, 422}, velociraptor_CollectArtifact, 201)
vrRunVQL          == Route("velociraptor", {400, 422}, velociraptor_RunVQL, 200)
thCreateAlert   == Route("thehive", {400}, thehive_CreateAlert, 201)
thGetAlert      == Route("thehive", {},    thehive_GetAlert, 200)
thPromoteAlert  == Route("thehive", {},    thehive_PromoteAlert, 201)
thCreateCase    == Route("thehive", {400}, thehive_CreateCase, 201)
thListCases     == Route("thehive", {},    thehive_ListCases, 200)
thGetCase       == Route("thehive", {},    thehive_GetCase, 200)
thUpdateCase    == Route("thehive", {400}, thehive_UpdateCase, 200)
thAddObservable == Route("thehive", {400}, thehive_AddObservable, 201)
thAddTask       == Route("thehive", {400}, thehive_CreateTask, 201)
cxListAnalyzers == Route("cortex", {},         cortex_ListAnalyzers, 200)
cxRunAnalyzer   == Route("cortex", {400, 422}, cortex_Analyze, 201)
cxGetJob        == Route("cortex", {},         cortex_GetJob, 200)
cxGetJobReport  == Route("cortex", {},         cortex_GetJobReport, 200)
oqListHosts     == Route("osquery", {},         osquery_ListHosts, 200)
oqGetHost       == Route("osquery", {400},      osquery_GetHost, 200)
oqRunLiveQuery  == Route("osquery", {400, 422}, osquery_RunLiveQuery, 200)
bhListDomains     == Route("bloodhound", {},         bloodhound_ListDomains, 200)
bhRunCypher       == Route("bloodhound", {400, 422}, bloodhound_RunCypher, 200)
bhListAttackPaths == Route("bloodhound", {},         bloodhound_ListAttackPaths, 200)
itdrListAssets              == Route("itdr", {}, itdr_ListAssets, 200)
itdrListMispTaxonomies      == Route("itdr", {}, itdr_ListMispTaxonomies, 200)
itdrRunBloodHoundCypherFile == Route("itdr", {400, 422, 502}, itdr_RunCypherQueryFile, 200)
itdrLookupOTX               == Route("itdr", {502}, itdr_LookupOTXIndicator, 200)
itdrRunIdentityResponder    == Route("itdr", {400, 502}, itdr_RunIdentityResponderScript, 200)
itdrRunCortexResponder      == Route("itdr", {400, 502}, itdr_RunCortexIdentityResponder, 201)
shListWorkflows   == Route("shuffle", {},    shuffle_ListWorkflows, 200)
shExecuteWorkflow == Route("shuffle", {400}, shuffle_ExecuteWorkflow, 201)

\* The routes RegisterRoutes mounts under /integrations.
Routes == {
    wazuhListAgents, wazuhGetAgent, wazuhListAlerts, wazuhListSCA,
    wazuhListSyscheck, wazuhActiveResponse, wazuhRestartAgent,
    vrSearchClients, vrGetClient, vrCreateHunt, vrListHunts, vrGetHunt,
    vrGetHuntResults, vrCollectArtifact, vrRunVQL,
    thCreateAlert, thGetAlert, thPromoteAlert, thCreateCase, thListCases,
    thGetCase, thUpdateCase, thAddObservable, thAddTask,
    cxListAnalyzers, cxRunAnalyzer, cxGetJob, cxGetJobReport,
    oqListHosts, oqGetHost, oqRunLiveQuery,
    bhListDomains, bhRunCypher, bhListAttackPaths,
    itdrListAssets, itdrListMispTaxonomies, itdrRunBloodHoundCypherFile,
    itdrLookupOTX, itdrRunIdentityResponder, itdrRunCortexResponder,
    shListWorkflows, shExecuteWorkflow }
=============================================================================
