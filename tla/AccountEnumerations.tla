------------------------ MODULE AccountEnumerations -------------------------
(***************************************************************************)
(* The enumerations of thousandeyes/thousandeyes_api: the packages of      *)
(* the account: alerts, agents, events, tags, connectors.                  *)
(***************************************************************************)
EXTENDS OpenEnums

account_groups_CloudEnterpriseAgentType ==
  Strings("account_groups", "CloudEnterpriseAgentType",
    <<"cloud", "enterprise-cluster", "enterprise">>)
account_groups_EnterpriseAgentIpv6Policy ==
  Strings("account_groups", "EnterpriseAgentIpv6Policy",
    <<"force-ipv4", "prefer-ipv6", "force-ipv6">>)
account_groups_EnterpriseAgentState ==
  Strings("account_groups", "EnterpriseAgentState", <<"online", "offline", "disabled">>)
account_groups_ErrorDetailCode ==
  Strings("account_groups", "ErrorDetailCode",
    <<"agent-version-outdated", "browserbot-version-outdated", "appliance-version-outdated",
      "clock-offset", "os-end-of-installation-support", "os-end-of-support", "os-end-of-life",
      "nat-traversal-error">>)
account_groups_NetworkProviderType ==
  Strings("account_groups", "NetworkProviderType",
    <<"unknown", "isp", "cdn", "stub", "cloud-provider", "carrier">>)
account_groups_TestInterval ==
  Ints("account_groups", "TestInterval", <<"60", "120", "300", "600", "900", "1800", "3600">>)
account_groups_TestType ==
  Strings("account_groups", "TestType",
    <<"api", "agent-to-agent", "agent-to-server", "bgp", "http-server", "page-load",
      "web-transactions", "ftp-server", "dns-trace", "dns-server", "dnssec", "sip-server",
      "voice">>)

agent_proxies_ProxyAuthType ==
  Strings("agent_proxies", "ProxyAuthType", <<"basic", "ntlm", "kerberos", "unknown">>)
agent_proxies_ProxyType == Strings("agent_proxies", "ProxyType", <<"static", "pac">>)

alert_rules_AlertDirection ==
  Strings("alert_rules", "AlertDirection", <<"to-target", "from-target", "bidirectional">>)
alert_rules_AlertGroupType ==
  Strings("alert_rules", "AlertGroupType",
    <<"bgp", "browser-session", "cloud-enterprise", "endpoint">>)
alert_rules_AlertRoundsViolationMode ==
  Strings("alert_rules", "AlertRoundsViolationMode", <<"exact", "any", "auto">>)
alert_rules_AlertTestType ==
  Strings("alert_rules", "AlertTestType",
    <<"api", "agent-to-agent", "agent-to-server", "bgp", "http-server", "page-load",
      "web-transactions", "ftp-server", "dns-trace", "dns-server", "dnssec", "sip-server",
      "voice", "endpoint-http-server", "endpoint-network-server", "endpoint-path-trace">>)
alert_rules_AlertType ==
  Strings("alert_rules", "AlertType",
    <<"page-load", "http-server", "end-to-end-server", "end-to-end-agent", "voice", "dns-server",
      "dns-trace", "dnssec", "bgp", "path-trace", "ftp", "sip-server", "transactions",
      "web-transactions", "agent", "network-outage", "application-outage", "device-device",
      "device-interface", "endpoint-network-server", "endpoint-http-server",
      "endpoint-path-trace", "endpoint-browser-sessions-agent",
      "endpoint-browser-sessions-application", "api", "web-transaction", "unknown">>)
alert_rules_CustomWebhookIntegrationType ==
  Strings("alert_rules", "CustomWebhookIntegrationType", <<"custom-webhook">>)
alert_rules_SensitivityLevel ==
  Strings("alert_rules", "SensitivityLevel", <<"high", "medium", "low">>)
alert_rules_Severity ==
  Strings("alert_rules", "Severity", <<"info", "major", "minor", "critical", "unknown">>)
alert_rules_TestInterval ==
  Ints("alert_rules", "TestInterval", <<"60", "120", "300", "600", "900", "1800", "3600">>)
alert_rules_ThirdPartyIntegrationType ==
  Strings("alert_rules", "ThirdPartyIntegrationType",
    <<"pager-duty", "slack", "app-dynamics", "service-now">>)
alert_rules_WebhookIntegrationType ==
  Strings("alert_rules", "WebhookIntegrationType", <<"webhook">>)

alert_suppression_windows_AlertSuppressionWindowState ==
  Strings("alert_suppression_windows", "AlertSuppressionWindowState",
    <<"active", "inactive", "ended">>)
alert_suppression_windows_DaysOfWeek ==
  Strings("alert_suppression_windows", "DaysOfWeek",
    <<"sun", "mon", "tue", "wed", "thu", "fri", "sat">>)
alert_suppression_windows_EndRepeatType ==
  Strings("alert_suppression_windows", "EndRepeatType", <<"count", "never", "date">>)
alert_suppression_windows_IntervalType ==
  Strings("alert_suppression_windows", "IntervalType", <<"day", "week", "month">>)
alert_suppression_windows_RepeatType ==
  Strings("alert_suppression_windows", "RepeatType", <<"day", "week", "month", "custom">>)
alert_suppression_windows_TestInterval ==
  Ints("alert_suppression_windows", "TestInterval",
    <<"60", "120", "300", "600", "900", "1800", "3600">>)
alert_suppression_windows_TestType ==
  Strings("alert_suppression_windows", "TestType",
    <<"api", "agent-to-agent", "agent-to-server", "bgp", "http-server", "page-load",
      "web-transactions", "ftp-server", "dns-trace", "dns-server", "dnssec", "sip-server",
      "voice">>)

\* Mutant of alerts_AlertType: the package is of an older specification.
alerts_AlertTypeLeftBehind == Strings("alerts", "AlertType", <<"page-load", "http-server">>)

alerts_AlertType ==
  Strings("alerts", "AlertType",
    <<"page-load", "http-server", "end-to-end-server", "end-to-end-agent", "voice", "dns-server",
      "dns-trace", "dnssec", "bgp", "path-trace", "ftp", "sip-server", "transactions",
      "web-transactions", "agent", "network-outage", "application-outage", "device-device",
      "device-interface", "endpoint-network-server", "endpoint-http-server",
      "endpoint-path-trace", "endpoint-browser-sessions-agent",
      "endpoint-browser-sessions-application", "api", "web-transaction", "unknown">>)
alerts_Severity ==
  Strings("alerts", "Severity", <<"info", "major", "minor", "critical", "unknown">>)
alerts_State == Strings("alerts", "State", <<"clear", "trigger">>)

autonomous_system_prefixes_PrefixAssociationType ==
  Strings("autonomous_system_prefixes", "PrefixAssociationType",
    <<"announced", "rpki", "allocated", "unknown">>)

cloud_and_enterprise_agent_notification_rules_AlertIntegrationType ==
  Strings("cloud_and_enterprise_agent_notification_rules", "AlertIntegrationType",
    <<"pager-duty", "slack">>)
cloud_and_enterprise_agent_notification_rules_CloudEnterpriseAgentType ==
  Strings("cloud_and_enterprise_agent_notification_rules", "CloudEnterpriseAgentType",
    <<"cloud", "enterprise-cluster", "enterprise">>)
cloud_and_enterprise_agent_notification_rules_NetworkProviderType ==
  Strings("cloud_and_enterprise_agent_notification_rules", "NetworkProviderType",
    <<"unknown", "isp", "cdn", "stub", "cloud-provider", "carrier">>)

cloud_and_enterprise_agents_AgentDetailsType ==
  Strings("cloud_and_enterprise_agents", "AgentDetailsType",
    <<"cloud", "enterprise", "enterprise-cluster">>)
cloud_and_enterprise_agents_AgentIpv6Policy ==
  Strings("cloud_and_enterprise_agents", "AgentIpv6Policy",
    <<"force-ipv4", "prefer-ipv6", "force-ipv6">>)
cloud_and_enterprise_agents_EnterpriseAgentIpv6Policy ==
  Strings("cloud_and_enterprise_agents", "EnterpriseAgentIpv6Policy",
    <<"force-ipv4", "prefer-ipv6", "force-ipv6">>)
cloud_and_enterprise_agents_EnterpriseAgentState ==
  Strings("cloud_and_enterprise_agents", "EnterpriseAgentState",
    <<"online", "offline", "disabled">>)
cloud_and_enterprise_agents_ErrorDetailCode ==
  Strings("cloud_and_enterprise_agents", "ErrorDetailCode",
    <<"agent-version-outdated", "browserbot-version-outdated", "appliance-version-outdated",
      "clock-offset", "os-end-of-installation-support", "os-end-of-support", "os-end-of-life",
      "nat-traversal-error">>)
cloud_and_enterprise_agents_NetworkProviderType ==
  Strings("cloud_and_enterprise_agents", "NetworkProviderType",
    <<"unknown", "isp", "cdn", "stub", "cloud-provider", "carrier">>)
cloud_and_enterprise_agents_TestInterval ==
  Ints("cloud_and_enterprise_agents", "TestInterval",
    <<"60", "120", "300", "600", "900", "1800", "3600">>)
cloud_and_enterprise_agents_TestType ==
  Strings("cloud_and_enterprise_agents", "TestType",
    <<"api", "agent-to-agent", "agent-to-server", "bgp", "http-server", "page-load",
      "web-transactions", "ftp-server", "dns-trace", "dns-server", "dnssec", "sip-server",
      "voice">>)

cloud_insights_integration_policy_settings_AwsRegion ==
  Strings("cloud_insights_integration_policy_settings", "AwsRegion",
    <<"us-east-1", "us-east-2", "us-west-1", "us-west-2", "ca-central-1", "ca-west-1",
      "mx-central-1", "sa-east-1", "eu-central-1", "eu-west-1", "eu-west-2", "eu-south-1",
      "eu-west-3", "eu-south-2", "eu-north-1", "eu-central-2", "il-central-1", "me-south-1",
      "me-central-1", "af-south-1", "ap-east-1", "ap-south-2", "ap-southeast-3", "ap-southeast-5",
      "ap-southeast-4", "ap-southeast-7", "ap-south-1", "ap-northeast-3", "ap-northeast-2",
      "ap-southeast-1", "ap-southeast-2", "ap-northeast-1">>)
cloud_insights_integration_policy_settings_AwsResourceGroupType ==
  Strings("cloud_insights_integration_policy_settings", "AwsResourceGroupType",
    <<"cloudfront", "ec2", "eks-ecs", "global-accelerator", "direct-connect", "s3-bucket",
      "network-firewall", "global-network">>)
cloud_insights_integration_policy_settings_AzureResourceGroupType ==
  Strings("cloud_insights_integration_policy_settings", "AzureResourceGroupType",
    <<"afd", "security", "express-route", "virtual-wan", "traffic-manager", "networking">>)
cloud_insights_integration_policy_settings_SubscriptionsPolicyRuleAction ==
  Strings("cloud_insights_integration_policy_settings", "SubscriptionsPolicyRuleAction",
    <<"include", "exclude">>)
cloud_insights_integration_policy_settings_SubscriptionsPolicyRuleField ==
  Strings("cloud_insights_integration_policy_settings", "SubscriptionsPolicyRuleField",
    <<"subscription-id", "subscription-name">>)

credential_vault_operations_OperationStatus ==
  Strings("credential_vault_operations", "OperationStatus",
    <<"pending", "connected", "failing", "unverified">>)
credential_vault_operations_OperationType ==
  Strings("credential_vault_operations", "OperationType", <<"webhook">>)

cyberark_conjur_connectors_AuthenticationType ==
  Strings("cyberark_conjur_connectors", "AuthenticationType",
    <<"basic", "bearer-token", "oauth-auth-code", "oauth-client-credentials", "other-token",
      "conjur-host">>)
cyberark_conjur_connectors_ConnectorType ==
  Strings("cyberark_conjur_connectors", "ConnectorType", <<"generic">>)

enterprise_agent_cluster_AgentDetailsType ==
  Strings("enterprise_agent_cluster", "AgentDetailsType",
    <<"cloud", "enterprise", "enterprise-cluster">>)
enterprise_agent_cluster_EnterpriseAgentIpv6Policy ==
  Strings("enterprise_agent_cluster", "EnterpriseAgentIpv6Policy",
    <<"force-ipv4", "prefer-ipv6", "force-ipv6">>)
enterprise_agent_cluster_EnterpriseAgentState ==
  Strings("enterprise_agent_cluster", "EnterpriseAgentState", <<"online", "offline", "disabled">>)
enterprise_agent_cluster_ErrorDetailCode ==
  Strings("enterprise_agent_cluster", "ErrorDetailCode",
    <<"agent-version-outdated", "browserbot-version-outdated", "appliance-version-outdated",
      "clock-offset", "os-end-of-installation-support", "os-end-of-support", "os-end-of-life",
      "nat-traversal-error">>)
enterprise_agent_cluster_NetworkProviderType ==
  Strings("enterprise_agent_cluster", "NetworkProviderType",
    <<"unknown", "isp", "cdn", "stub", "cloud-provider", "carrier">>)
enterprise_agent_cluster_TestInterval ==
  Ints("enterprise_agent_cluster", "TestInterval",
    <<"60", "120", "300", "600", "900", "1800", "3600">>)
enterprise_agent_cluster_TestType ==
  Strings("enterprise_agent_cluster", "TestType",
    <<"api", "agent-to-agent", "agent-to-server", "bgp", "http-server", "page-load",
      "web-transactions", "ftp-server", "dns-trace", "dns-server", "dnssec", "sip-server",
      "voice">>)

events_EventAffectedAgentType ==
  Strings("events", "EventAffectedAgentType",
    <<"cloud", "enterprise-cluster", "enterprise", "enterprise-lite", "enterprise-pulse",
      "enterprise-csc">>)
events_EventAgentType ==
  Strings("events", "EventAgentType", <<"cloud-enterprise-agent", "endpoint-agent">>)
events_EventAlertSeverity ==
  Strings("events", "EventAlertSeverity", <<"high", "medium", "low", "unknown">>)
events_EventDetailType ==
  Strings("events", "EventDetailType",
    <<"agent", "agent-branch", "agent-local", "application", "dns", "dns-name", "dns-server",
      "domain", "gateway", "name-server", "network", "network-pop", "proxy", "target",
      "target-network", "vpn", "wireless">>)
events_EventState == Strings("events", "EventState", <<"active", "resolved">>)
events_EventType ==
  Strings("events", "EventType",
    <<"agent-local", "network-pop", "network", "dns", "target", "target-network", "proxy",
      "agent", "application", "wireless", "gateway", "dns-server", "dns-name", "vpn",
      "agent-branch", "domain", "name-server">>)
events_TestType ==
  Strings("events", "TestType",
    <<"api", "agent-to-agent", "agent-to-server", "bgp", "http-server", "page-load",
      "web-transactions", "ftp-server", "dns-trace", "dns-server", "dnssec", "sip-server",
      "voice">>)

generic_connectors_AuthenticationType ==
  Strings("generic_connectors", "AuthenticationType",
    <<"basic", "bearer-token", "oauth-auth-code", "oauth-client-credentials", "other-token",
      "conjur-host">>)
generic_connectors_ConnectorType == Strings("generic_connectors", "ConnectorType", <<"generic">>)
generic_connectors_GenericConnectorAuthType ==
  Strings("generic_connectors", "GenericConnectorAuthType",
    <<"basic", "bearer-token", "oauth-auth-code", "oauth-client-credentials", "other-token">>)

internet_insights_outages_OutageScope ==
  Strings("internet_insights_outages", "OutageScope", <<"all", "with-affected-test">>)

panorama_connectors_PanoramaConnectorAuthType ==
  Strings("panorama_connectors", "PanoramaConnectorAuthType", <<"other-token", "pan-key-gen">>)

streaming_DataModelVersion == Strings("streaming", "DataModelVersion", <<"v1", "v2">>)
streaming_EndpointType == Strings("streaming", "EndpointType", <<"grpc", "http">>)
streaming_Signal == Strings("streaming", "Signal", <<"metric", "trace", "log">>)
streaming_StreamStatusType ==
  Strings("streaming", "StreamStatusType", <<"connected", "pending", "failing">>)
streaming_StreamType == Strings("streaming", "StreamType", <<"opentelemetry", "splunk-hec">>)
streaming_TestMatchDomain == Strings("streaming", "TestMatchDomain", <<"cea", "endpoint">>)
streaming_TestType ==
  Strings("streaming", "TestType",
    <<"api", "agent-to-agent", "agent-to-server", "bgp", "http-server", "page-load",
      "web-transactions", "ftp-server", "dns-trace", "dns-server", "dnssec", "sip-server",
      "voice">>)

tag_assignment_AssignmentType ==
  Strings("tag_assignment", "AssignmentType",
    <<"test", "v-agent", "endpoint-test", "dashboard", "connected-devices-test">>)

tags_AccessType == Strings("tags", "AccessType", <<"all", "partner", "system">>)
tags_AssignmentType ==
  Strings("tags", "AssignmentType",
    <<"test", "v-agent", "endpoint-test", "dashboard", "connected-devices-test">>)
tags_ObjectType ==
  Strings("tags", "ObjectType",
    <<"test", "dashboard", "endpoint-test", "v-agent", "connected-devices-test",
      "endpoint-agent">>)
tags_TagFilterMode == Strings("tags", "TagFilterMode", <<"in", "not-in">>)
tags_TagFilterScope == Strings("tags", "TagFilterScope", <<"default", "custom">>)
tags_TagMatchType == Strings("tags", "TagMatchType", <<"and", "or">>)
tags_Type == Strings("tags", "Type", <<"static", "dynamic">>)

tests_assignment_on_agents_AgentDetailsType ==
  Strings("tests_assignment_on_agents", "AgentDetailsType",
    <<"cloud", "enterprise", "enterprise-cluster">>)
tests_assignment_on_agents_EnterpriseAgentIpv6Policy ==
  Strings("tests_assignment_on_agents", "EnterpriseAgentIpv6Policy",
    <<"force-ipv4", "prefer-ipv6", "force-ipv6">>)
tests_assignment_on_agents_EnterpriseAgentState ==
  Strings("tests_assignment_on_agents", "EnterpriseAgentState",
    <<"online", "offline", "disabled">>)
tests_assignment_on_agents_ErrorDetailCode ==
  Strings("tests_assignment_on_agents", "ErrorDetailCode",
    <<"agent-version-outdated", "browserbot-version-outdated", "appliance-version-outdated",
      "clock-offset", "os-end-of-installation-support", "os-end-of-support", "os-end-of-life",
      "nat-traversal-error">>)
tests_assignment_on_agents_NetworkProviderType ==
  Strings("tests_assignment_on_agents", "NetworkProviderType",
    <<"unknown", "isp", "cdn", "stub", "cloud-provider", "carrier">>)
tests_assignment_on_agents_TestInterval ==
  Ints("tests_assignment_on_agents", "TestInterval",
    <<"60", "120", "300", "600", "900", "1800", "3600">>)
tests_assignment_on_agents_TestType ==
  Strings("tests_assignment_on_agents", "TestType",
    <<"api", "agent-to-agent", "agent-to-server", "bgp", "http-server", "page-load",
      "web-transactions", "ftp-server", "dns-trace", "dns-server", "dnssec", "sip-server",
      "voice">>)

webhook_operations_OperationCategory ==
  Strings("webhook_operations", "OperationCategory",
    <<"alerts", "recommendations", "traffic-monitoring">>)
webhook_operations_OperationStatus ==
  Strings("webhook_operations", "OperationStatus",
    <<"pending", "connected", "failing", "unverified">>)
webhook_operations_OperationType == Strings("webhook_operations", "OperationType", <<"webhook">>)

-----------------------------------------------------------------------------
AllAccountEnumerations ==
  {account_groups_CloudEnterpriseAgentType, account_groups_EnterpriseAgentIpv6Policy,
   account_groups_EnterpriseAgentState, account_groups_ErrorDetailCode,
   account_groups_NetworkProviderType, account_groups_TestInterval, account_groups_TestType,
   agent_proxies_ProxyAuthType, agent_proxies_ProxyType, alert_rules_AlertDirection,
   alert_rules_AlertGroupType, alert_rules_AlertRoundsViolationMode, alert_rules_AlertTestType,
   alert_rules_AlertType, alert_rules_CustomWebhookIntegrationType, alert_rules_SensitivityLevel,
   alert_rules_Severity, alert_rules_TestInterval, alert_rules_ThirdPartyIntegrationType,
   alert_rules_WebhookIntegrationType, alert_suppression_windows_AlertSuppressionWindowState,
   alert_suppression_windows_DaysOfWeek, alert_suppression_windows_EndRepeatType,
   alert_suppression_windows_IntervalType, alert_suppression_windows_RepeatType,
   alert_suppression_windows_TestInterval, alert_suppression_windows_TestType, alerts_AlertType,
   alerts_Severity, alerts_State, autonomous_system_prefixes_PrefixAssociationType,
   cloud_and_enterprise_agent_notification_rules_AlertIntegrationType,
   cloud_and_enterprise_agent_notification_rules_CloudEnterpriseAgentType,
   cloud_and_enterprise_agent_notification_rules_NetworkProviderType,
   cloud_and_enterprise_agents_AgentDetailsType, cloud_and_enterprise_agents_AgentIpv6Policy,
   cloud_and_enterprise_agents_EnterpriseAgentIpv6Policy,
   cloud_and_enterprise_agents_EnterpriseAgentState, cloud_and_enterprise_agents_ErrorDetailCode,
   cloud_and_enterprise_agents_NetworkProviderType, cloud_and_enterprise_agents_TestInterval,
   cloud_and_enterprise_agents_TestType, cloud_insights_integration_policy_settings_AwsRegion,
   cloud_insights_integration_policy_settings_AwsResourceGroupType,
   cloud_insights_integration_policy_settings_AzureResourceGroupType,
   cloud_insights_integration_policy_settings_SubscriptionsPolicyRuleAction,
   cloud_insights_integration_policy_settings_SubscriptionsPolicyRuleField,
   credential_vault_operations_OperationStatus, credential_vault_operations_OperationType,
   cyberark_conjur_connectors_AuthenticationType, cyberark_conjur_connectors_ConnectorType,
   enterprise_agent_cluster_AgentDetailsType, enterprise_agent_cluster_EnterpriseAgentIpv6Policy,
   enterprise_agent_cluster_EnterpriseAgentState, enterprise_agent_cluster_ErrorDetailCode,
   enterprise_agent_cluster_NetworkProviderType, enterprise_agent_cluster_TestInterval,
   enterprise_agent_cluster_TestType, events_EventAffectedAgentType, events_EventAgentType,
   events_EventAlertSeverity, events_EventDetailType, events_EventState, events_EventType,
   events_TestType, generic_connectors_AuthenticationType, generic_connectors_ConnectorType,
   generic_connectors_GenericConnectorAuthType, internet_insights_outages_OutageScope,
   panorama_connectors_PanoramaConnectorAuthType, streaming_DataModelVersion,
   streaming_EndpointType, streaming_Signal, streaming_StreamStatusType, streaming_StreamType,
   streaming_TestMatchDomain, streaming_TestType, tag_assignment_AssignmentType, tags_AccessType,
   tags_AssignmentType, tags_ObjectType, tags_TagFilterMode, tags_TagFilterScope,
   tags_TagMatchType, tags_Type, tests_assignment_on_agents_AgentDetailsType,
   tests_assignment_on_agents_EnterpriseAgentIpv6Policy,
   tests_assignment_on_agents_EnterpriseAgentState, tests_assignment_on_agents_ErrorDetailCode,
   tests_assignment_on_agents_NetworkProviderType, tests_assignment_on_agents_TestInterval,
   tests_assignment_on_agents_TestType, webhook_operations_OperationCategory,
   webhook_operations_OperationStatus, webhook_operations_OperationType}

=============================================================================
