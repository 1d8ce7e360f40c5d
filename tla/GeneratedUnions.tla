-------------------------- MODULE GeneratedUnions ---------------------------
(***************************************************************************)
(* The unions of thousandeyes/thousandeyes_api: for each package that has  *)
(* one, the enumeration that types its discriminator, and the kinds that   *)
(* UnmarshalJSON has a case for.                                           *)
(***************************************************************************)

Union(package, type, kinds) == [package |-> package, type |-> type, kinds |-> kinds]

agent_to_server_endpoint_dynamic_tests_EndpointAgentSelectorConfig ==
  Union("agent_to_server_endpoint_dynamic_tests", "EndpointAgentSelectorConfigType",
    {"agent-labels", "agent-tags", "all-agents", "specific-agents"})
agent_to_server_endpoint_instant_scheduled_tests_EndpointAgentSelectorConfig ==
  Union("agent_to_server_endpoint_instant_scheduled_tests", "EndpointAgentSelectorConfigType",
    {"agent-labels", "agent-tags", "all-agents", "specific-agents"})
agent_to_server_endpoint_scheduled_tests_EndpointAgentSelectorConfig ==
  Union("agent_to_server_endpoint_scheduled_tests", "EndpointAgentSelectorConfigType",
    {"agent-labels", "agent-tags", "all-agents", "specific-agents"})

\* Mutant of cloud_and_enterprise_agents_AgentDetails: a variant was skipped, because
\* its schema did not resolve.
cloud_and_enterprise_agents_AgentDetailsSkipping ==
  Union("cloud_and_enterprise_agents", "AgentDetailsType", {"cloud", "enterprise"})

cloud_and_enterprise_agents_AgentDetails ==
  Union("cloud_and_enterprise_agents", "AgentDetailsType",
    {"cloud", "enterprise", "enterprise-cluster"})
dashboard_snapshots_ApiWidget ==
  Union("dashboard_snapshots", "ApiWidgetType",
    {"Agent Status", "Alert List", "Bar Chart: Grouped", "Bar Chart: Stacked", "Box and Whiskers",
     "Color Grid", "Heatmap", "List", "Map", "Multi Metric Table", "Number", "Pie Chart", "Table",
     "Test Table", "Time Series: Line", "Time Series: Stacked Area"})
dashboards_ApiWidget ==
  Union("dashboards", "ApiWidgetType",
    {"Agent Status", "Alert List", "Bar Chart: Grouped", "Bar Chart: Stacked", "Box and Whiskers",
     "Color Grid", "Heatmap", "List", "Map", "Multi Metric Table", "Number", "Pie Chart", "Table",
     "Test Table", "Time Series: Line", "Time Series: Stacked Area"})
endpoint_scheduled_tests_EndpointAgentSelectorConfig ==
  Union("endpoint_scheduled_tests", "EndpointAgentSelectorConfigType",
    {"agent-labels", "agent-tags", "all-agents", "specific-agents"})
enterprise_agent_cluster_AgentDetails ==
  Union("enterprise_agent_cluster", "AgentDetailsType",
    {"cloud", "enterprise", "enterprise-cluster"})
events_EventDetail ==
  Union("events", "EventDetailType",
    {"agent", "agent-branch", "agent-local", "application", "dns", "dns-name", "dns-server",
     "domain", "gateway", "name-server", "network", "network-pop", "proxy", "target",
     "target-network", "vpn", "wireless"})
generic_connectors_GenericConnectorAuth ==
  Union("generic_connectors", "GenericConnectorAuthType",
    {"basic", "bearer-token", "oauth-auth-code", "oauth-client-credentials", "other-token"})
http_server_endpoint_instant_scheduled_tests_EndpointAgentSelectorConfig ==
  Union("http_server_endpoint_instant_scheduled_tests", "EndpointAgentSelectorConfigType",
    {"agent-labels", "agent-tags", "all-agents", "specific-agents"})
http_server_endpoint_scheduled_test_results_EndpointAgentSelectorConfig ==
  Union("http_server_endpoint_scheduled_test_results", "EndpointAgentSelectorConfigType",
    {"agent-labels", "agent-tags", "all-agents", "specific-agents"})
http_server_endpoint_scheduled_tests_EndpointAgentSelectorConfig ==
  Union("http_server_endpoint_scheduled_tests", "EndpointAgentSelectorConfigType",
    {"agent-labels", "agent-tags", "all-agents", "specific-agents"})
network_dynamic_endpoint_test_results_EndpointAgentSelectorConfig ==
  Union("network_dynamic_endpoint_test_results", "EndpointAgentSelectorConfigType",
    {"agent-labels", "agent-tags", "all-agents", "specific-agents"})
network_endpoint_scheduled_test_results_EndpointAgentSelectorConfig ==
  Union("network_endpoint_scheduled_test_results", "EndpointAgentSelectorConfigType",
    {"agent-labels", "agent-tags", "all-agents", "specific-agents"})
network_endpoint_scheduled_test_results_EndpointScheduledTest ==
  Union("network_endpoint_scheduled_test_results", "EndpointScheduledTestType",
    {"agent-to-server", "http-server"})
panorama_connectors_PanoramaConnectorAuth ==
  Union("panorama_connectors", "PanoramaConnectorAuthType", {"other-token", "pan-key-gen"})
templates_TestConfigurationTemplate ==
  Union("templates", "TestConfigurationTemplateType",
    {"agent-to-agent", "agent-to-server", "bgp", "dns-server", "dns-trace", "http-server",
     "page-load", "sip-server", "voice", "web-transactions"})
tests_assignment_on_agents_AgentDetails ==
  Union("tests_assignment_on_agents", "AgentDetailsType",
    {"cloud", "enterprise", "enterprise-cluster"})

-----------------------------------------------------------------------------
AllUnions ==
  {agent_to_server_endpoint_dynamic_tests_EndpointAgentSelectorConfig,
   agent_to_server_endpoint_instant_scheduled_tests_EndpointAgentSelectorConfig,
   agent_to_server_endpoint_scheduled_tests_EndpointAgentSelectorConfig,
   cloud_and_enterprise_agents_AgentDetails, dashboard_snapshots_ApiWidget, dashboards_ApiWidget,
   endpoint_scheduled_tests_EndpointAgentSelectorConfig, enterprise_agent_cluster_AgentDetails,
   events_EventDetail, generic_connectors_GenericConnectorAuth,
   http_server_endpoint_instant_scheduled_tests_EndpointAgentSelectorConfig,
   http_server_endpoint_scheduled_test_results_EndpointAgentSelectorConfig,
   http_server_endpoint_scheduled_tests_EndpointAgentSelectorConfig,
   network_dynamic_endpoint_test_results_EndpointAgentSelectorConfig,
   network_endpoint_scheduled_test_results_EndpointAgentSelectorConfig,
   network_endpoint_scheduled_test_results_EndpointScheduledTest,
   panorama_connectors_PanoramaConnectorAuth, templates_TestConfigurationTemplate,
   tests_assignment_on_agents_AgentDetails}

=============================================================================
