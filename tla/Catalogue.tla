------------------------------ MODULE Catalogue ------------------------------
(***************************************************************************)
(* The methods of the generated client, thousandeyes/thousandeyes_api: for *)
(* each package what its service.go calls. The path is that of the         *)
(* comment "URL:", which is the specification's, and the slots are its     *)
(* placeholders; the arguments are those of the signature, which the       *)
(* format of endpoint is filled with. (The placeholder "type" is typeParam *)
(* there, Go having a word of that name.)                                  *)
(***************************************************************************)

Method(verb, path, slots, args, body, result, paginated) ==
  [verb |-> verb, path |-> path, slots |-> slots, args |-> args, filled |-> args,
   body |-> body, result |-> result, paginated |-> paginated]

Get(path, slots, args)    == Method("GET", path, slots, args, FALSE, TRUE, FALSE)
Post(path, slots, args)   == Method("POST", path, slots, args, TRUE, TRUE, FALSE)
Put(path, slots, args)    == Method("PUT", path, slots, args, TRUE, TRUE, FALSE)
Patch(path, slots, args)  == Method("PATCH", path, slots, args, TRUE, TRUE, FALSE)
Delete(path, slots, args) == Method("DELETE", path, slots, args, FALSE, FALSE, FALSE)

(* GetPaginated and PostPaginated.                                          *)
GetPages(path, slots, args)  == Method("GET", path, slots, args, FALSE, TRUE, TRUE)
PostPages(path, slots, args) == Method("POST", path, slots, args, TRUE, TRUE, TRUE)

(* A method that lacks a body or a result others of its verb have.           *)
Bare(method, body, result) == [method EXCEPT !.body = body, !.result = result]

-----------------------------------------------------------------------------
AccountGroups ==
  {Get("/account-groups", {}, {}), Post("/account-groups", {}, {}),
   Delete("/account-groups/{id}", {"id"}, {"id"}),
   Get("/account-groups/{id}", {"id"}, {"id"}), Put("/account-groups/{id}", {"id"}, {"id"})}

AgentProxies == {Get("/agents/proxies", {}, {})}

AgentToAgentInstantTests == {Post("/tests/agent-to-agent/instant", {}, {})}

AgentToAgentTests ==
  {Get("/tests/agent-to-agent", {}, {}), Post("/tests/agent-to-agent", {}, {}),
   Delete("/tests/agent-to-agent/{testId}", {"testId"}, {"testId"}),
   Get("/tests/agent-to-agent/{testId}", {"testId"}, {"testId"}),
   Put("/tests/agent-to-agent/{testId}", {"testId"}, {"testId"})}

AgentToServerEndpointDynamicTests ==
  {Get("/endpoint/tests/dynamic-tests/agent-to-server", {}, {}),
   Post("/endpoint/tests/dynamic-tests/agent-to-server", {}, {}),
   Delete("/endpoint/tests/dynamic-tests/agent-to-server/{testId}", {"testId"}, {"testId"}),
   Get("/endpoint/tests/dynamic-tests/agent-to-server/{testId}", {"testId"}, {"testId"}),
   Patch("/endpoint/tests/dynamic-tests/agent-to-server/{testId}", {"testId"}, {"testId"})}

AgentToServerEndpointInstantScheduledTests ==
  {Post("/endpoint/tests/scheduled-tests/agent-to-server/instant", {}, {})}

AgentToServerEndpointScheduledTests ==
  {Get("/endpoint/tests/scheduled-tests/agent-to-server", {}, {}),
   Post("/endpoint/tests/scheduled-tests/agent-to-server", {}, {}),
   Delete("/endpoint/tests/scheduled-tests/agent-to-server/{testId}", {"testId"}, {"testId"}),
   Get("/endpoint/tests/scheduled-tests/agent-to-server/{testId}", {"testId"}, {"testId"}),
   Patch("/endpoint/tests/scheduled-tests/agent-to-server/{testId}", {"testId"}, {"testId"})}

AgentToServerInstantTests == {Post("/tests/agent-to-server/instant", {}, {})}

AgentToServerTests ==
  {Get("/tests/agent-to-server", {}, {}), Post("/tests/agent-to-server", {}, {}),
   Delete("/tests/agent-to-server/{testId}", {"testId"}, {"testId"}),
   Get("/tests/agent-to-server/{testId}", {"testId"}, {"testId"}),
   Put("/tests/agent-to-server/{testId}", {"testId"}, {"testId"})}

AlertRules ==
  {Get("/alerts/rules", {}, {}), Post("/alerts/rules", {}, {}),
   Delete("/alerts/rules/{ruleId}", {"ruleId"}, {"ruleId"}),
   Get("/alerts/rules/{ruleId}", {"ruleId"}, {"ruleId"}),
   Put("/alerts/rules/{ruleId}", {"ruleId"}, {"ruleId"})}

AlertSuppressionWindows ==
  {Get("/alert-suppression-windows", {}, {}), Post("/alert-suppression-windows", {}, {}),
   Delete("/alert-suppression-windows/{windowId}", {"windowId"}, {"windowId"}),
   Get("/alert-suppression-windows/{windowId}", {"windowId"}, {"windowId"}),
   Put("/alert-suppression-windows/{windowId}", {"windowId"}, {"windowId"})}

Alerts ==
  {GetPages("/alerts", {}, {}), Get("/alerts/{alertId}", {"alertId"}, {"alertId"})}

APIInstantTests == {Post("/tests/api/instant", {}, {})}

APITestResults ==
  {GetPages("/test-results/{testId}/api", {"testId"}, {"testId"}),
   Get("/test-results/{testId}/api/agent/{agentId}/round/{roundId}",
        {"testId", "agentId", "roundId"}, {"testId", "agentId", "roundId"})}

APITests ==
  {Get("/tests/api", {}, {}), Post("/tests/api", {}, {}),
   Delete("/tests/api/{testId}", {"testId"}, {"testId"}),
   Get("/tests/api/{testId}", {"testId"}, {"testId"}),
   Put("/tests/api/{testId}", {"testId"}, {"testId"})}

APIToken == {Bare(Post("/api-tokens", {}, {}), FALSE, TRUE)}

AutonomousSystemPrefixes == {Get("/autonomous-systems/{asn}/prefixes", {"asn"}, {"asn"})}

BGPMonitors == {Get("/monitors", {}, {})}

BGPTests ==
  {Get("/tests/bgp", {}, {}), Post("/tests/bgp", {}, {}),
   Delete("/tests/bgp/{testId}", {"testId"}, {"testId"}),
   Get("/tests/bgp/{testId}", {"testId"}, {"testId"}),
   Put("/tests/bgp/{testId}", {"testId"}, {"testId"})}

CloudAndEnterpriseAgentNotificationRules ==
  {Get("/agents/notification-rules", {}, {}),
   Get("/agents/notification-rules/{notificationRuleId}",
        {"notificationRuleId"}, {"notificationRuleId"})}

CloudAndEnterpriseAgents ==
  {Get("/agents", {}, {}), Delete("/agents/{agentId}", {"agentId"}, {"agentId"}),
   Get("/agents/{agentId}", {"agentId"}, {"agentId"}),
   Put("/agents/{agentId}", {"agentId"}, {"agentId"})}

CloudInsightsIntegrationPolicySettings ==
  {Get("/cloud-insights/integration/aws/policy/settings", {}, {}),
   Put("/cloud-insights/integration/aws/policy/settings", {}, {}),
   Get("/cloud-insights/integration/azure/policy/settings", {}, {}),
   Put("/cloud-insights/integration/azure/policy/settings", {}, {})}

CloudInsightsIntegrations ==
  {Get("/cloud-insights/integration/aws", {}, {}),
   Post("/cloud-insights/integration/aws/flow-logs", {}, {}),
   Get("/cloud-insights/integration/aws/flow-logs/policies", {}, {}),
   Post("/cloud-insights/integration/aws/inventory", {}, {}),
   Get("/cloud-insights/integration/aws/inventory/policies", {}, {}),
   Delete("/cloud-insights/integration/aws/{integrationId}",
        {"integrationId"}, {"integrationId"}),
   Get("/cloud-insights/integration/aws/{integrationId}", {"integrationId"}, {"integrationId"}),
   Get("/cloud-insights/integration/azure", {}, {}),
   Post("/cloud-insights/integration/azure/flow-logs", {}, {}),
   Put("/cloud-insights/integration/azure/flow-logs/{integrationId}",
        {"integrationId"}, {"integrationId"}),
   Post("/cloud-insights/integration/azure/inventory", {}, {}),
   Put("/cloud-insights/integration/azure/inventory/{integrationId}",
        {"integrationId"}, {"integrationId"}),
   Delete("/cloud-insights/integration/azure/{integrationId}",
        {"integrationId"}, {"integrationId"}),
   Get("/cloud-insights/integration/azure/{integrationId}",
        {"integrationId"}, {"integrationId"})}

CredentialVaultOperations ==
  {Get("/operations/credential-vault", {}, {}),
   Post("/operations/credential-vault", {}, {}),
   Delete("/operations/credential-vault/{id}", {"id"}, {"id"}),
   Get("/operations/credential-vault/{id}", {"id"}, {"id"}),
   Put("/operations/credential-vault/{id}", {"id"}, {"id"})}

Credentials ==
  {Get("/credentials", {}, {}), Post("/credentials", {}, {}),
   Delete("/credentials/{id}", {"id"}, {"id"}), Get("/credentials/{id}", {"id"}, {"id"}),
   Put("/credentials/{id}", {"id"}, {"id"})}

CyberArkConjurConnectors ==
  {Get("/connectors/conjur", {}, {}), Post("/connectors/conjur", {}, {}),
   Delete("/connectors/conjur/{id}", {"id"}, {"id"}),
   Get("/connectors/conjur/{id}", {"id"}, {"id"}),
   Put("/connectors/conjur/{id}", {"id"}, {"id"}),
   Get("/connectors/conjur/{id}/operations", {"id"}, {"id"}),
   Put("/connectors/conjur/{id}/operations", {"id"}, {"id"})}

DashboardSnapshots ==
  {GetPages("/dashboard-snapshots", {}, {}), Post("/dashboard-snapshots", {}, {}),
   Delete("/dashboard-snapshots/{snapshotId}", {"snapshotId"}, {"snapshotId"}),
   Get("/dashboard-snapshots/{snapshotId}", {"snapshotId"}, {"snapshotId"}),
   Bare(Patch("/dashboard-snapshots/{snapshotId}",
        {"snapshotId"}, {"snapshotId"}), TRUE, FALSE),
   Get("/dashboard-snapshots/{snapshotId}/widgets/{widgetId}",
        {"snapshotId", "widgetId"}, {"snapshotId", "widgetId"})}

Dashboards ==
  {Get("/dashboards", {}, {}), Post("/dashboards", {}, {}),
   Delete("/dashboards/{dashboardId}", {"dashboardId"}, {"dashboardId"}),
   Get("/dashboards/{dashboardId}", {"dashboardId"}, {"dashboardId"}),
   Put("/dashboards/{dashboardId}", {"dashboardId"}, {"dashboardId"}),
   GetPages("/dashboards/{dashboardId}/widgets/{widgetId}",
        {"dashboardId", "widgetId"}, {"dashboardId", "widgetId"}),
   Get("/dashboards/{dashboardId}/widgets/{widgetId}/cards/{cardId}",
        {"dashboardId", "widgetId", "cardId"}, {"dashboardId", "widgetId", "cardId"}),
   Get("/dashboards/{dashboardId}/widgets/{widgetId}/columns/{columnId}",
        {"dashboardId", "widgetId", "columnId"}, {"dashboardId", "widgetId", "columnId"})}

DashboardsFilters ==
  {Get("/dashboards/filters", {}, {}), Post("/dashboards/filters", {}, {}),
   Delete("/dashboards/filters/{id}", {"id"}, {"id"}),
   Get("/dashboards/filters/{id}", {"id"}, {"id"}),
   Put("/dashboards/filters/{id}", {"id"}, {"id"})}

DNSServerInstantTests == {Post("/tests/dns-server/instant", {}, {})}

DNSServerTestResults ==
  {GetPages("/test-results/{testId}/dns-server", {"testId"}, {"testId"}),
   GetPages("/test-results/{testId}/dns-server/{serverId}",
        {"testId", "serverId"}, {"testId", "serverId"})}

DNSServerTests ==
  {Get("/tests/dns-server", {}, {}), Post("/tests/dns-server", {}, {}),
   Delete("/tests/dns-server/{testId}", {"testId"}, {"testId"}),
   Get("/tests/dns-server/{testId}", {"testId"}, {"testId"}),
   Put("/tests/dns-server/{testId}", {"testId"}, {"testId"})}

DNSTraceInstantTests == {Post("/tests/dns-trace/instant", {}, {})}

DNSTraceTestResults ==
  {GetPages("/test-results/{testId}/dns-trace", {"testId"}, {"testId"})}

DNSTraceTests ==
  {Get("/tests/dns-trace", {}, {}), Post("/tests/dns-trace", {}, {}),
   Delete("/tests/dns-trace/{testId}", {"testId"}, {"testId"}),
   Get("/tests/dns-trace/{testId}", {"testId"}, {"testId"}),
   Put("/tests/dns-trace/{testId}", {"testId"}, {"testId"})}

DNSSECInstantTests == {Post("/tests/dnssec/instant", {}, {})}

DNSSECTestResults == {GetPages("/test-results/{testId}/dnssec", {"testId"}, {"testId"})}

DNSSECTests ==
  {Get("/tests/dnssec", {}, {}), Post("/tests/dnssec", {}, {}),
   Delete("/tests/dnssec/{testId}", {"testId"}, {"testId"}),
   Get("/tests/dnssec/{testId}", {"testId"}, {"testId"}),
   Put("/tests/dnssec/{testId}", {"testId"}, {"testId"})}

Emulation ==
  {Get("/emulated-devices", {}, {}), Post("/emulated-devices", {}, {}),
   Get("/user-agents", {}, {})}

EndpointAgentLabels ==
  {GetPages("/endpoint/labels", {}, {}), Post("/endpoint/labels", {}, {}),
   Delete("/endpoint/labels/{id}", {"id"}, {"id"}),
   Get("/endpoint/labels/{id}", {"id"}, {"id"}),
   Patch("/endpoint/labels/{id}", {"id"}, {"id"})}

EndpointAgentLogItems ==
  {GetPages("/endpoint/agents/{agentId}/logs", {"agentId"}, {"agentId"})}

EndpointAgents ==
  {GetPages("/endpoint/agents", {}, {}), Get("/endpoint/agents/connection-string", {}, {}),
   PostPages("/endpoint/agents/filter", {}, {}),
   Delete("/endpoint/agents/{agentId}", {"agentId"}, {"agentId"}),
   Get("/endpoint/agents/{agentId}", {"agentId"}, {"agentId"}),
   Patch("/endpoint/agents/{agentId}", {"agentId"}, {"agentId"}),
   Bare(Post("/endpoint/agents/{agentId}/disable", {"agentId"}, {"agentId"}), FALSE, TRUE),
   Bare(Post("/endpoint/agents/{agentId}/enable", {"agentId"}, {"agentId"}), FALSE, TRUE)}

EndpointAgentsTransfer ==
  {Post("/endpoint/agents/transfer/bulk", {}, {}),
   Bare(Post("/endpoint/agents/{agentId}/transfer", {"agentId"}, {"agentId"}), TRUE, FALSE)}

EndpointProxies == {Get("/endpoint/proxies", {}, {})}

EndpointRealUserTests == {Get("/endpoint/tests/real-user-tests", {}, {})}

EndpointScheduledTests == {Get("/endpoint/tests/scheduled-tests", {}, {})}

EnterpriseAgentCluster ==
  {Post("/agents/{agentId}/cluster/assign", {"agentId"}, {"agentId"}),
   Post("/agents/{agentId}/cluster/unassign", {"agentId"}, {"agentId"})}

Events ==
  {GetPages("/events", {}, {}), Get("/events/{id}", {"id"}, {"id"})}

FTPServerInstantTests == {Post("/tests/ftp-server/instant", {}, {})}

FTPServerTests ==
  {Get("/tests/ftp-server", {}, {}), Post("/tests/ftp-server", {}, {}),
   Delete("/tests/ftp-server/{testId}", {"testId"}, {"testId"}),
   Get("/tests/ftp-server/{testId}", {"testId"}, {"testId"}),
   Put("/tests/ftp-server/{testId}", {"testId"}, {"testId"})}

GenericConnectors ==
  {Get("/connectors/generic", {}, {}), Post("/connectors/generic", {}, {}),
   Delete("/connectors/generic/{id}", {"id"}, {"id"}),
   Get("/connectors/generic/{id}", {"id"}, {"id"}),
   Put("/connectors/generic/{id}", {"id"}, {"id"}),
   Get("/connectors/generic/{id}/operations", {"id"}, {"id"}),
   Put("/connectors/generic/{id}/operations", {"id"}, {"id"})}

HTTPPageLoadInstantTests == {Post("/tests/page-load/instant", {}, {})}

HTTPServerEndpointInstantScheduledTests ==
  {Post("/endpoint/tests/scheduled-tests/http-server/instant", {}, {})}

HTTPServerEndpointScheduledTestResults ==
  {PostPages("/endpoint/test-results/scheduled-tests/http-server/filter", {}, {}),
   GetPages("/endpoint/test-results/scheduled-tests/{testId}/http-server",
        {"testId"}, {"testId"}),
   PostPages("/endpoint/test-results/scheduled-tests/{testId}/http-server/filter",
        {"testId"}, {"testId"})}

HTTPServerEndpointScheduledTests ==
  {Get("/endpoint/tests/scheduled-tests/http-server", {}, {}),
   Post("/endpoint/tests/scheduled-tests/http-server", {}, {}),
   Delete("/endpoint/tests/scheduled-tests/http-server/{testId}", {"testId"}, {"testId"}),
   Get("/endpoint/tests/scheduled-tests/http-server/{testId}", {"testId"}, {"testId"}),
   Patch("/endpoint/tests/scheduled-tests/http-server/{testId}", {"testId"}, {"testId"})}

HTTPServerInstantTests == {Post("/tests/http-server/instant", {}, {})}

HTTPServerTests ==
  {Get("/tests/http-server", {}, {}), Post("/tests/http-server", {}, {}),
   Delete("/tests/http-server/{testId}", {"testId"}, {"testId"}),
   Get("/tests/http-server/{testId}", {"testId"}, {"testId"}),
   Put("/tests/http-server/{testId}", {"testId"}, {"testId"})}

InstantTests == {Bare(Post("/tests/{testId}/run", {"testId"}, {"testId"}), FALSE, FALSE)}

InternetInsightsCatalogProviders ==
  {Post("/internet-insights/catalog/providers/filter", {}, {}),
   Get("/internet-insights/catalog/providers/{providerId}", {"providerId"}, {"providerId"})}

InternetInsightsOutages ==
  {Get("/internet-insights/outages/app/{outageId}", {"outageId"}, {"outageId"}),
   Post("/internet-insights/outages/filter", {}, {}),
   Get("/internet-insights/outages/net/{outageId}", {"outageId"}, {"outageId"})}

LocalNetworkEndpointTestResults ==
  {Get("/endpoint/test-results/local-networks", {}, {}),
   PostPages("/endpoint/test-results/local-networks/topologies/filter", {}, {}),
   Get("/endpoint/test-results/local-networks/topologies/{networkTopologyId}",
        {"networkTopologyId"}, {"networkTopologyId"})}

LocalProblems == {Get("/agents/local-problems", {}, {})}

NetworkBGPTestResults ==
  {GetPages("/test-results/{testId}/bgp", {"testId"}, {"testId"}),
   Get("/test-results/{testId}/bgp/routes/prefix/{prefixId}/round/{roundId}",
        {"testId", "prefixId", "roundId"}, {"testId", "prefixId", "roundId"})}

NetworkDynamicEndpointTestResults ==
  {PostPages("/endpoint/test-results/dynamic-tests/{testId}/network/filter",
        {"testId"}, {"testId"}),
   GetPages("/endpoint/test-results/dynamic-tests/{testId}/path-vis", {"testId"}, {"testId"}),
   Get("/endpoint/test-results/dynamic-tests/{testId}/path-vis/agent/{agentId}/round/{roundId}",
        {"testId", "agentId", "roundId"}, {"testId", "agentId", "roundId"})}

NetworkEndpointScheduledTestResults ==
  {PostPages("/endpoint/test-results/scheduled-tests/network/filter", {}, {}),
   PostPages("/endpoint/test-results/scheduled-tests/{testId}/network/filter",
        {"testId"}, {"testId"}),
   GetPages("/endpoint/test-results/scheduled-tests/{testId}/path-vis", {"testId"}, {"testId"}),
   Get("/endpoint/test-results/scheduled-tests/{testId}/path-vis/agent/{agentId}/round/{roundId}",
        {"testId", "agentId", "roundId"}, {"testId", "agentId", "roundId"})}

NetworkTestResults ==
  {GetPages("/test-results/{testId}/network", {"testId"}, {"testId"}),
   GetPages("/test-results/{testId}/path-vis", {"testId"}, {"testId"}),
   Get("/test-results/{testId}/path-vis/agent/{agentId}/round/{roundId}",
        {"testId", "agentId", "roundId"}, {"testId", "agentId", "roundId"})}

OperationConnectors ==
  {Get("/operations/{type}/{id}/connectors", {"type", "id"}, {"type", "id"}),
   Put("/operations/{type}/{id}/connectors", {"type", "id"}, {"type", "id"})}

PageLoadTests ==
  {Get("/tests/page-load", {}, {}), Post("/tests/page-load", {}, {}),
   Delete("/tests/page-load/{testId}", {"testId"}, {"testId"}),
   Get("/tests/page-load/{testId}", {"testId"}, {"testId"}),
   Put("/tests/page-load/{testId}", {"testId"}, {"testId"})}

PanoramaConnectors ==
  {Get("/connectors/panorama", {}, {}), Post("/connectors/panorama", {}, {}),
   Delete("/connectors/panorama/{id}", {"id"}, {"id"}),
   Get("/connectors/panorama/{id}", {"id"}, {"id"}),
   Put("/connectors/panorama/{id}", {"id"}, {"id"}),
   Get("/connectors/panorama/{id}/operations", {"id"}, {"id"}),
   Put("/connectors/panorama/{id}/operations", {"id"}, {"id"})}

PathVisualizationInterfaceGroups ==
  {Get("/network/path-vis/interface-groups", {}, {}),
   Post("/network/path-vis/interface-groups", {}, {}),
   Delete("/network/path-vis/interface-groups/{interfaceGroupId}",
        {"interfaceGroupId"}, {"interfaceGroupId"}),
   Put("/network/path-vis/interface-groups/{interfaceGroupId}",
        {"interfaceGroupId"}, {"interfaceGroupId"})}

Permissions == {Get("/permissions", {}, {})}

Quotas ==
  {Get("/quotas", {}, {}), Post("/quotas/account-groups/assign", {}, {}),
   Bare(Post("/quotas/account-groups/unassign", {}, {}), TRUE, FALSE),
   Post("/quotas/assign", {}, {}), Bare(Post("/quotas/unassign", {}, {}), TRUE, FALSE)}

RealUserEndpointTestResults ==
  {PostPages("/endpoint/test-results/real-user-tests/filter", {}, {}),
   PostPages("/endpoint/test-results/real-user-tests/networks/filter", {}, {}),
   PostPages("/endpoint/test-results/real-user-tests/pages/filter", {}, {}),
   Get("/endpoint/test-results/real-user-tests/{id}", {"id"}, {"id"}),
   Get("/endpoint/test-results/real-user-tests/{id}/pages/{pageId}",
        {"id", "pageId"}, {"id", "pageId"})}

Roles ==
  {Get("/roles", {}, {}), Post("/roles", {}, {}), Delete("/roles/{id}", {"id"}, {"id"}),
   Get("/roles/{id}", {"id"}, {"id"}), Put("/roles/{id}", {"id"}, {"id"})}

RunEndpointInstantScheduledTests ==
  {Bare(Post("/endpoint/tests/scheduled-tests/{testId}/run",
        {"testId"}, {"testId"}), FALSE, TRUE)}

SIPServerInstantTests == {Post("/tests/sip-server/instant", {}, {})}

SIPServerTests ==
  {Get("/tests/sip-server", {}, {}), Post("/tests/sip-server", {}, {}),
   Delete("/tests/sip-server/{testId}", {"testId"}, {"testId"}),
   Get("/tests/sip-server/{testId}", {"testId"}, {"testId"}),
   Put("/tests/sip-server/{testId}", {"testId"}, {"testId"})}

Streaming ==
  {Get("/streams", {}, {}), Post("/streams", {}, {}),
   Delete("/streams/{id}", {"id"}, {"id"}), Get("/streams/{id}", {"id"}, {"id"}),
   Put("/streams/{id}", {"id"}, {"id"})}

TagAssignment ==
  {Post("/tags/assign", {}, {}), Post("/tags/unassign", {}, {}),
   Post("/tags/{id}/assign", {"id"}, {"id"}),
   Bare(Post("/tags/{id}/unassign", {"id"}, {"id"}), TRUE, FALSE)}

Tags ==
  {Get("/tags", {}, {}), Post("/tags", {}, {}), Post("/tags/bulk", {}, {}),
   Delete("/tags/{id}", {"id"}, {"id"}), Get("/tags/{id}", {"id"}, {"id"}),
   Put("/tags/{id}", {"id"}, {"id"})}

Templates ==
  {Get("/templates", {}, {}), Post("/templates", {}, {}),
   Delete("/templates/{id}", {"id"}, {"id"}), Get("/templates/{id}", {"id"}, {"id"}),
   Put("/templates/{id}", {"id"}, {"id"}), Post("/templates/{id}/deploy", {"id"}, {"id"}),
   Get("/templates/{id}/sharing-settings", {"id"}, {"id"}),
   Put("/templates/{id}/sharing-settings", {"id"}, {"id"})}

TestSnapshots == {Post("/tests/{testId}/snapshot", {"testId"}, {"testId"})}

Tests ==
  {Get("/tests", {}, {}), Get("/tests/{testId}/history", {"testId"}, {"testId"})}

TestsAssignmentOnAgents ==
  {Post("/agents/{agentId}/tests/assign", {"agentId"}, {"agentId"}),
   Post("/agents/{agentId}/tests/override", {"agentId"}, {"agentId"}),
   Post("/agents/{agentId}/tests/unassign", {"agentId"}, {"agentId"})}

Usage ==
  {Get("/usage", {}, {}), GetPages("/usage/units/enterprise-agents", {}, {}),
   GetPages("/usage/units/tests", {}, {})}

UserEvents == {GetPages("/audit-user-events", {}, {})}

Users ==
  {Get("/users", {}, {}), Post("/users", {}, {}), Get("/users/current", {}, {}),
   Delete("/users/{id}", {"id"}, {"id"}), Get("/users/{id}", {"id"}, {"id"}),
   Put("/users/{id}", {"id"}, {"id"})}

VoiceInstantTests == {Post("/tests/voice/instant", {}, {})}

VoiceRTPServerTestResults ==
  {GetPages("/test-results/{testId}/rtp-server", {"testId"}, {"testId"})}

VoiceSIPServerTestResults ==
  {GetPages("/test-results/{testId}/sip-server", {"testId"}, {"testId"})}

VoiceTests ==
  {Get("/tests/voice", {}, {}), Post("/tests/voice", {}, {}),
   Delete("/tests/voice/{testId}", {"testId"}, {"testId"}),
   Get("/tests/voice/{testId}", {"testId"}, {"testId"}),
   Put("/tests/voice/{testId}", {"testId"}, {"testId"})}

WebFTPServerTestResults ==
  {GetPages("/test-results/{testId}/ftp-server", {"testId"}, {"testId"})}

WebHTTPServerTestResults ==
  {GetPages("/test-results/{testId}/http-server", {"testId"}, {"testId"})}

WebPageLoadTestResults ==
  {GetPages("/test-results/{testId}/page-load", {"testId"}, {"testId"}),
   Get("/test-results/{testId}/page-load/agent/{agentId}/round/{roundId}",
        {"testId", "agentId", "roundId"}, {"testId", "agentId", "roundId"})}

WebTransactionInstantTests == {Post("/tests/web-transactions/instant", {}, {})}

WebTransactionTests ==
  {Get("/tests/web-transactions", {}, {}), Post("/tests/web-transactions", {}, {}),
   Delete("/tests/web-transactions/{testId}", {"testId"}, {"testId"}),
   Get("/tests/web-transactions/{testId}", {"testId"}, {"testId"}),
   Put("/tests/web-transactions/{testId}", {"testId"}, {"testId"})}

WebTransactionsTestResults ==
  {GetPages("/test-results/{testId}/web-transactions", {"testId"}, {"testId"}),
   Get("/test-results/{testId}/web-transactions/agent/{agentId}/round/{roundId}",
        {"testId", "agentId", "roundId"}, {"testId", "agentId", "roundId"}),
   Get("/test-results/{testId}/web-transactions/agent/{agentId}/round/{roundId}/console-logs",
        {"testId", "agentId", "roundId"}, {"testId", "agentId", "roundId"}),
   Get("/test-results/{testId}/web-transactions/agent/{agentId}/round/{roundId}/page/{pageId}",
        {"testId", "agentId", "roundId", "pageId"}, {"testId", "agentId", "roundId", "pageId"})}

WebhookOperations ==
  {Get("/operations/webhooks", {}, {}), Post("/operations/webhooks", {}, {}),
   Delete("/operations/webhooks/{id}", {"id"}, {"id"}),
   Get("/operations/webhooks/{id}", {"id"}, {"id"}),
   Put("/operations/webhooks/{id}", {"id"}, {"id"})}

Services ==
  UNION {AccountGroups, AgentProxies, AgentToAgentInstantTests,
         AgentToAgentTests, AgentToServerEndpointDynamicTests,
         AgentToServerEndpointInstantScheduledTests,
         AgentToServerEndpointScheduledTests, AgentToServerInstantTests,
         AgentToServerTests, AlertRules, AlertSuppressionWindows, Alerts,
         APIInstantTests, APITestResults, APITests, APIToken,
         AutonomousSystemPrefixes, BGPMonitors, BGPTests,
         CloudAndEnterpriseAgentNotificationRules, CloudAndEnterpriseAgents,
         CloudInsightsIntegrationPolicySettings, CloudInsightsIntegrations,
         CredentialVaultOperations, Credentials, CyberArkConjurConnectors,
         DashboardSnapshots, Dashboards, DashboardsFilters,
         DNSServerInstantTests, DNSServerTestResults, DNSServerTests,
         DNSTraceInstantTests, DNSTraceTestResults, DNSTraceTests,
         DNSSECInstantTests, DNSSECTestResults, DNSSECTests, Emulation,
         EndpointAgentLabels, EndpointAgentLogItems, EndpointAgents,
         EndpointAgentsTransfer, EndpointProxies, EndpointRealUserTests,
         EndpointScheduledTests, EnterpriseAgentCluster, Events,
         FTPServerInstantTests, FTPServerTests, GenericConnectors,
         HTTPPageLoadInstantTests, HTTPServerEndpointInstantScheduledTests,
         HTTPServerEndpointScheduledTestResults,
         HTTPServerEndpointScheduledTests, HTTPServerInstantTests,
         HTTPServerTests, InstantTests, InternetInsightsCatalogProviders,
         InternetInsightsOutages, LocalNetworkEndpointTestResults,
         LocalProblems, NetworkBGPTestResults,
         NetworkDynamicEndpointTestResults,
         NetworkEndpointScheduledTestResults, NetworkTestResults,
         OperationConnectors, PageLoadTests, PanoramaConnectors,
         PathVisualizationInterfaceGroups, Permissions, Quotas,
         RealUserEndpointTestResults, Roles, RunEndpointInstantScheduledTests,
         SIPServerInstantTests, SIPServerTests, Streaming, TagAssignment, Tags,
         Templates, TestSnapshots, Tests, TestsAssignmentOnAgents, Usage,
         UserEvents, Users, VoiceInstantTests, VoiceRTPServerTestResults,
         VoiceSIPServerTestResults, VoiceTests, WebFTPServerTestResults,
         WebHTTPServerTestResults, WebPageLoadTestResults,
         WebTransactionInstantTests, WebTransactionTests,
         WebTransactionsTestResults, WebhookOperations}

=============================================================================
