--------------------------- MODULE RegistryRoutes ---------------------------
(***************************************************************************)
(* The records the services keep in Postgres and the HTTP handlers that    *)
(* read and write them: NOC clusters and agents, VDR findings, KIC         *)
(* assessments and K-SVC tenants.  Tables only; ServiceRegistry gives them *)
(* their behaviour.                                                        *)
(***************************************************************************)

(***************************************************************************)
(* What a method of a store does to its table: insert a row under a new    *)
(* UUID, claim a key chosen by the caller, upsert by identity, update or   *)
(* delete by key, or read.                                                 *)
(***************************************************************************)
CreateCluster == "insert"
GetCluster    == "get"
ListClusters  == "list"
UpdateCluster == "update"
DeleteCluster == "delete"
Heartbeat     == "upsert"
GetAgent      == "get"
UpdateAgent   == "update"
ListAgents    == "list"
FindingStore_Create       == "insert"
FindingStore_Get          == "get"
FindingStore_List         == "list"
FindingStore_UpdateStatus == "update"
AssessmentStore_Create       == "insert"
AssessmentStore_Get          == "get"
AssessmentStore_List         == "list"
AssessmentStore_UpdateStatus == "update"
TenantStore_Create == "claim"
TenantStore_Get    == "get"
TenantStore_List   == "list"
TenantStore_Update == "update"
TenantStore_Delete == "delete"

Writes == {"insert", "claim", "upsert", "update", "delete"}

(***************************************************************************)
(* A handler: its method of the store, the codes with which it refuses a   *)
(* request itself (400 not JSON, 422 a field that is missing or not        *)
(* allowed), the code of a success, of a row that is not there and of any  *)
(* other database error, and the roles allowed beside kubric:admin.        *)
(***************************************************************************)
Handler(kind, refuse, ok, none, failed, roles) ==
    [kind |-> kind, first |-> FALSE, refuse |-> refuse, after |-> {},
     ok |-> ok, none |-> none, failed |-> failed, roles |-> roles]

Readers == {"analyst", "readonly"}

cluster_create == Handler(CreateCluster, {400, 422}, 201, 500, 500, {})
cluster_list   == Handler(ListClusters, {422}, 200, 500, 500, Readers)
cluster_get    == Handler(GetCluster, {}, 200, 404, 500, Readers)
cluster_update == Handler(UpdateCluster, {400, 422}, 200, 404, 500, {})
\* The row is read first, for the event; what the delete itself misses is a 500.
cluster_delete == [Handler(DeleteCluster, {}, 204, 500, 500, {}) EXCEPT !.first = TRUE]

agent_heartbeat == Handler(Heartbeat, {400, 422}, 200, 500, 500, {"agent"})
agent_list      == Handler(ListAgents, {422}, 200, 500, 500, Readers)
agent_get       == Handler(GetAgent, {}, 200, 404, 500, Readers)
agent_update    == Handler(UpdateAgent, {400, 422}, 200, 404, 500, {"analyst"})

finding_create       == Handler(FindingStore_Create, {400, 422}, 201, 500, 500, {"analyst"})
finding_list         == Handler(FindingStore_List, {422}, 200, 500, 500, Readers)
finding_get          == Handler(FindingStore_Get, {}, 200, 404, 500, Readers)
finding_updateStatus == Handler(FindingStore_UpdateStatus, {400, 422}, 200, 404, 500, {"analyst"})

assessment_create       == Handler(AssessmentStore_Create, {400, 422}, 201, 500, 500, {"analyst"})
assessment_list         == Handler(AssessmentStore_List, {422}, 200, 500, 500, Readers)
assessment_get          == Handler(AssessmentStore_Get, {}, 200, 404, 500, Readers)
assessment_updateStatus ==
    Handler(AssessmentStore_UpdateStatus, {400, 422}, 200, 404, 500, {"analyst"})

\* A tenant's create answers 409 whatever error the database returns.
tenant_create == Handler(TenantStore_Create, {400, 422}, 201, 409, 409, {})
tenant_get    == Handler(TenantStore_Get, {}, 200, 404, 500, Readers)
tenant_list   == Handler(TenantStore_List, {}, 200, 500, 500, Readers)
tenant_update == Handler(TenantStore_Update, {400}, 200, 404, 500, {})
tenant_delete == Handler(TenantStore_Delete, {}, 204, 404, 500, {})
\* Both read the tenant, then answer 409 without a Stripe customer or call Stripe.
createSubscription ==
    [Handler(TenantStore_Get, {400, 422}, 201, 404, 404, {}) EXCEPT !.after = {409, 502}]
getBillingPortal ==
    [Handler(TenantStore_Get, {}, 200, 404, 404, {"analyst"}) EXCEPT !.after = {409, 502}]

\* What each server's buildRouter mounts.
clusterRoutes    == {cluster_create, cluster_list, cluster_get, cluster_update, cluster_delete}
agentRoutes      == {agent_heartbeat, agent_list, agent_get, agent_update}
findingRoutes    == {finding_create, finding_list, finding_get, finding_updateStatus}
assessmentRoutes ==
    {assessment_create, assessment_list, assessment_get, assessment_updateStatus}
tenantRoutes     == {tenant_create, tenant_get, tenant_list, tenant_update, tenant_delete,
                     createSubscription, getBillingPortal}

Tables == {"clusters", "agents", "findings", "assessments", "tenants"}

Routes == [clusters    |-> clusterRoutes,
           agents      |-> agentRoutes,
           findings    |-> findingRoutes,
           assessments |-> assessmentRoutes,
           tenants     |-> tenantRoutes]

\* The subject an event is published on, kubric.{tenant}.{category}.{class}.v1.
NATSSubject(tenant, category, class) ==
    [tenant |-> tenant, category |-> category, class |-> class]

PublishClusterEvent(tenant)    == NATSSubject(tenant, "noc", "cluster")
PublishAgentEvent(tenant)      == NATSSubject(tenant, "noc", "agent")
PublishFindingEvent(tenant)    == NATSSubject(tenant, "vuln", "finding")
PublishAssessmentEvent(tenant) == NATSSubject(tenant, "compliance", "assessment")
PublishTenantEvent(tenant)     == NATSSubject(tenant, "tenant", "lifecycle")

Subject(table, tenant) ==
    CASE table = "clusters"    -> PublishClusterEvent(tenant)
      [] table = "agents"      -> PublishAgentEvent(tenant)
      [] table = "findings"    -> PublishFindingEvent(tenant)
      [] table = "assessments" -> PublishAssessmentEvent(tenant)
      [] table = "tenants"     -> PublishTenantEvent(tenant)
=============================================================================
