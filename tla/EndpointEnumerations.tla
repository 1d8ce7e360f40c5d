------------------------ MODULE EndpointEnumerations ------------------------
(***************************************************************************)
(* The enumerations of thousandeyes/thousandeyes_api: the packages of      *)
(* endpoint agents and their tests.                                        *)
(***************************************************************************)
EXTENDS OpenEnums

agent_to_server_endpoint_dynamic_tests_EndpointAgentSelectorConfigType ==
  Strings("agent_to_server_endpoint_dynamic_tests", "EndpointAgentSelectorConfigType",
    <<"agent-labels", "agent-tags", "all-agents", "specific-agents">>)
agent_to_server_endpoint_dynamic_tests_EndpointIpVersionIn ==
  Strings("agent_to_server_endpoint_dynamic_tests", "EndpointIpVersionIn",
    <<"V4_ONLY", "V6_ONLY", "V6_PREFER", "OS_DEFAULT">>)
agent_to_server_endpoint_dynamic_tests_EndpointTestAgentSelectorType ==
  Strings("agent_to_server_endpoint_dynamic_tests", "EndpointTestAgentSelectorType",
    <<"all-agents", "specific-agents", "agent-labels", "agent-tags">>)
agent_to_server_endpoint_dynamic_tests_EndpointTestProtocol ==
  Strings("agent_to_server_endpoint_dynamic_tests", "EndpointTestProtocol",
    <<"icmp", "icmp-with-tcp-connect", "tcp", "prefer-tcp", "ast-autodetect", "autodetect">>)
agent_to_server_endpoint_dynamic_tests_TestInterval ==
  Ints("agent_to_server_endpoint_dynamic_tests", "TestInterval",
    <<"60", "120", "300", "600", "900", "1800", "3600">>)
agent_to_server_endpoint_dynamic_tests_TestProbeMode ==
  Strings("agent_to_server_endpoint_dynamic_tests", "TestProbeMode", <<"auto", "sack", "syn">>)
agent_to_server_endpoint_dynamic_tests_TestProbeModeResponse ==
  Strings("agent_to_server_endpoint_dynamic_tests", "TestProbeModeResponse",
    <<"auto", "sack", "syn", "syn-pcap", "syn-socket", "unknown">>)

agent_to_server_endpoint_instant_scheduled_tests_EndpointAgentSelectorConfigType ==
  Strings("agent_to_server_endpoint_instant_scheduled_tests", "EndpointAgentSelectorConfigType",
    <<"agent-labels", "agent-tags", "all-agents", "specific-agents">>)
agent_to_server_endpoint_instant_scheduled_tests_EndpointIpVersionIn ==
  Strings("agent_to_server_endpoint_instant_scheduled_tests", "EndpointIpVersionIn",
    <<"V4_ONLY", "V6_ONLY", "V6_PREFER", "OS_DEFAULT">>)
agent_to_server_endpoint_instant_scheduled_tests_EndpointTestAgentSelectorType ==
  Strings("agent_to_server_endpoint_instant_scheduled_tests", "EndpointTestAgentSelectorType",
    <<"all-agents", "specific-agents", "agent-labels", "agent-tags">>)
agent_to_server_endpoint_instant_scheduled_tests_EndpointTestProtocol ==
  Strings("agent_to_server_endpoint_instant_scheduled_tests", "EndpointTestProtocol",
    <<"icmp", "icmp-with-tcp-connect", "tcp", "prefer-tcp", "ast-autodetect", "autodetect">>)
agent_to_server_endpoint_instant_scheduled_tests_TestInterval ==
  Ints("agent_to_server_endpoint_instant_scheduled_tests", "TestInterval",
    <<"60", "120", "300", "600", "900", "1800", "3600">>)
agent_to_server_endpoint_instant_scheduled_tests_TestProbeModeResponse ==
  Strings("agent_to_server_endpoint_instant_scheduled_tests", "TestProbeModeResponse",
    <<"auto", "sack", "syn", "syn-pcap", "syn-socket", "unknown">>)

agent_to_server_endpoint_scheduled_tests_EndpointAgentSelectorConfigType ==
  Strings("agent_to_server_endpoint_scheduled_tests", "EndpointAgentSelectorConfigType",
    <<"agent-labels", "agent-tags", "all-agents", "specific-agents">>)
agent_to_server_endpoint_scheduled_tests_EndpointIpVersionIn ==
  Strings("agent_to_server_endpoint_scheduled_tests", "EndpointIpVersionIn",
    <<"V4_ONLY", "V6_ONLY", "V6_PREFER", "OS_DEFAULT">>)
agent_to_server_endpoint_scheduled_tests_EndpointTestAgentSelectorType ==
  Strings("agent_to_server_endpoint_scheduled_tests", "EndpointTestAgentSelectorType",
    <<"all-agents", "specific-agents", "agent-labels", "agent-tags">>)
agent_to_server_endpoint_scheduled_tests_EndpointTestProtocol ==
  Strings("agent_to_server_endpoint_scheduled_tests", "EndpointTestProtocol",
    <<"icmp", "icmp-with-tcp-connect", "tcp", "prefer-tcp", "ast-autodetect", "autodetect">>)
agent_to_server_endpoint_scheduled_tests_TestInterval ==
  Ints("agent_to_server_endpoint_scheduled_tests", "TestInterval",
    <<"60", "120", "300", "600", "900", "1800", "3600">>)
agent_to_server_endpoint_scheduled_tests_TestProbeMode ==
  Strings("agent_to_server_endpoint_scheduled_tests", "TestProbeMode", <<"auto", "sack", "syn">>)
agent_to_server_endpoint_scheduled_tests_TestProbeModeResponse ==
  Strings("agent_to_server_endpoint_scheduled_tests", "TestProbeModeResponse",
    <<"auto", "sack", "syn", "syn-pcap", "syn-socket", "unknown">>)

endpoint_agent_labels_FilterType ==
  Strings("endpoint_agent_labels", "FilterType",
    <<"agent-id", "public-network", "local-network", "connection", "gateway", "platform",
      "agent-type", "vpn-vendor", "vpn-gateway-address", "vpn-client-network",
      "vpn-client-address", "ip-address-family", "ssid", "bssid", "hostname", "username", "asn">>)
endpoint_agent_labels_LabelFilterMode ==
  Strings("endpoint_agent_labels", "LabelFilterMode", <<"in", "not-in">>)
endpoint_agent_labels_MatchType == Strings("endpoint_agent_labels", "MatchType", <<"and", "or">>)

endpoint_agent_log_items_EndpointAgentLogItemType ==
  Strings("endpoint_agent_log_items", "EndpointAgentLogItemType",
    <<"wifi", "vpn", "online-offline", "state-changes">>)
endpoint_agent_log_items_EndpointOnlineOfflineLogItemType ==
  Strings("endpoint_agent_log_items", "EndpointOnlineOfflineLogItemType",
    <<"online", "offline", "unknown">>)
endpoint_agent_log_items_EndpointStateChangesLogItemType ==
  Strings("endpoint_agent_log_items", "EndpointStateChangesLogItemType",
    <<"recover", "enabled", "deleted", "disabled">>)
endpoint_agent_log_items_EndpointVpnLogItemType ==
  Strings("endpoint_agent_log_items", "EndpointVpnLogItemType",
    <<"vpn-connect", "vpn-disconnect", "unknown">>)
endpoint_agent_log_items_EndpointVpnType ==
  Strings("endpoint_agent_log_items", "EndpointVpnType",
    <<"openvpn", "cisco-anyconnect", "palo-alto-globalprotect", "viscosity",
      "ivanti-connect-secure", "zscaler-internet-access", "f5-big-ip", "pptp", "l2tp", "sstp",
      "ikev2", "auto", "unknown">>)
endpoint_agent_log_items_EndpointWifiLogItemType ==
  Strings("endpoint_agent_log_items", "EndpointWifiLogItemType",
    <<"wifi-change", "wifi-connect", "wifi-disconnect", "wifi-connection-failure", "unknown">>)
endpoint_agent_log_items_EndpointWirelessConnectionFailureType ==
  Strings("endpoint_agent_log_items", "EndpointWirelessConnectionFailureType",
    <<"init", "auth", "assoc", "eap", "dhcp", "unknown">>)

endpoint_agents_AddressType ==
  Strings("endpoint_agents", "AddressType",
    <<"loopback", "unspecified", "unique-local", "link-local", "unique-global">>)
endpoint_agents_AgentLicenseType ==
  Strings("endpoint_agents", "AgentLicenseType", <<"essentials", "advantage", "embedded">>)
endpoint_agents_AgentSearchSortKey ==
  Strings("endpoint_agents", "AgentSearchSortKey",
    <<"platform", "osVersion", "name", "userName", "city", "serialNumber">>)
endpoint_agents_BatteryLevel ==
  Strings("endpoint_agents", "BatteryLevel", <<"high", "medium", "low">>)
endpoint_agents_BrowserType ==
  Strings("endpoint_agents", "BrowserType",
    <<"chrome", "chrome-canary", "chromium", "ie", "edge", "unknown">>)
endpoint_agents_ConditionalOperator ==
  Strings("endpoint_agents", "ConditionalOperator", <<"and", "or">>)
endpoint_agents_InterfaceHardwareType ==
  Strings("endpoint_agents", "InterfaceHardwareType",
    <<"unknown", "wireless", "ethernet", "modem", "virtual", "loopback", "other">>)
endpoint_agents_Platform ==
  Strings("endpoint_agents", "Platform",
    <<"windows", "roomos", "phoneos", "elux", "cisco-wireless", "cisco-wireless-cloud", "linux",
      "mac", "android", "unknown">>)
endpoint_agents_SortOrder == Strings("endpoint_agents", "SortOrder", <<"asc", "desc">>)
endpoint_agents_Status == Strings("endpoint_agents", "Status", <<"enabled", "disabled">>)
endpoint_agents_ThresholdFilterOperator ==
  Strings("endpoint_agents", "ThresholdFilterOperator", <<"gte", "lte">>)
endpoint_agents_VpnType ==
  Strings("endpoint_agents", "VpnType",
    <<"cisco-anyconnect", "palo-alto-globalprotect", "ivanti-connect-secure",
      "zscaler-internet-access", "f5-big-ip">>)

endpoint_proxies_EndpointProxyAuthType ==
  Strings("endpoint_proxies", "EndpointProxyAuthType", <<"none", "basic", "ntlm">>)
endpoint_proxies_EndpointProxyType ==
  Strings("endpoint_proxies", "EndpointProxyType",
    <<"static", "pac", "direct", "system", "interactive-user-proxy">>)

endpoint_real_user_tests_EndpointMonitoringSettingsType ==
  Strings("endpoint_real_user_tests", "EndpointMonitoringSettingsType",
    <<"all-agents", "specific-agents", "agent-labels", "agent-tags">>)

endpoint_scheduled_tests_EndpointAgentSelectorConfigType ==
  Strings("endpoint_scheduled_tests", "EndpointAgentSelectorConfigType",
    <<"agent-labels", "agent-tags", "all-agents", "specific-agents">>)
endpoint_scheduled_tests_EndpointScheduledTestType ==
  Strings("endpoint_scheduled_tests", "EndpointScheduledTestType",
    <<"agent-to-server", "http-server">>)
endpoint_scheduled_tests_EndpointTestProtocol ==
  Strings("endpoint_scheduled_tests", "EndpointTestProtocol",
    <<"icmp", "icmp-with-tcp-connect", "tcp", "prefer-tcp", "ast-autodetect", "autodetect">>)
endpoint_scheduled_tests_TestInterval ==
  Ints("endpoint_scheduled_tests", "TestInterval",
    <<"60", "120", "300", "600", "900", "1800", "3600">>)
endpoint_scheduled_tests_TestProbeModeResponse ==
  Strings("endpoint_scheduled_tests", "TestProbeModeResponse",
    <<"auto", "sack", "syn", "syn-pcap", "syn-socket", "unknown">>)

http_server_endpoint_instant_scheduled_tests_EndpointAgentSelectorConfigType ==
  Strings("http_server_endpoint_instant_scheduled_tests", "EndpointAgentSelectorConfigType",
    <<"agent-labels", "agent-tags", "all-agents", "specific-agents">>)
http_server_endpoint_instant_scheduled_tests_EndpointIpVersionIn ==
  Strings("http_server_endpoint_instant_scheduled_tests", "EndpointIpVersionIn",
    <<"V4_ONLY", "V6_ONLY", "V6_PREFER", "OS_DEFAULT">>)
http_server_endpoint_instant_scheduled_tests_EndpointTestAgentSelectorType ==
  Strings("http_server_endpoint_instant_scheduled_tests", "EndpointTestAgentSelectorType",
    <<"all-agents", "specific-agents", "agent-labels", "agent-tags">>)
http_server_endpoint_instant_scheduled_tests_EndpointTestAuthType ==
  Strings("http_server_endpoint_instant_scheduled_tests", "EndpointTestAuthType",
    <<"none", "basic", "ntlm">>)
http_server_endpoint_instant_scheduled_tests_EndpointTestProtocol ==
  Strings("http_server_endpoint_instant_scheduled_tests", "EndpointTestProtocol",
    <<"icmp", "icmp-with-tcp-connect", "tcp", "prefer-tcp", "ast-autodetect", "autodetect">>)
http_server_endpoint_instant_scheduled_tests_TestInterval ==
  Ints("http_server_endpoint_instant_scheduled_tests", "TestInterval",
    <<"60", "120", "300", "600", "900", "1800", "3600">>)
http_server_endpoint_instant_scheduled_tests_TestProbeMode ==
  Strings("http_server_endpoint_instant_scheduled_tests", "TestProbeMode",
    <<"auto", "sack", "syn">>)
http_server_endpoint_instant_scheduled_tests_TestProbeModeResponse ==
  Strings("http_server_endpoint_instant_scheduled_tests", "TestProbeModeResponse",
    <<"auto", "sack", "syn", "syn-pcap", "syn-socket", "unknown">>)
http_server_endpoint_instant_scheduled_tests_TestSslVersionId ==
  Strings("http_server_endpoint_instant_scheduled_tests", "TestSslVersionId",
    <<"0", "3", "4", "5", "6", "7">>)

http_server_endpoint_scheduled_tests_EndpointAgentSelectorConfigType ==
  Strings("http_server_endpoint_scheduled_tests", "EndpointAgentSelectorConfigType",
    <<"agent-labels", "agent-tags", "all-agents", "specific-agents">>)
http_server_endpoint_scheduled_tests_EndpointIpVersionIn ==
  Strings("http_server_endpoint_scheduled_tests", "EndpointIpVersionIn",
    <<"V4_ONLY", "V6_ONLY", "V6_PREFER", "OS_DEFAULT">>)
http_server_endpoint_scheduled_tests_EndpointTestAgentSelectorType ==
  Strings("http_server_endpoint_scheduled_tests", "EndpointTestAgentSelectorType",
    <<"all-agents", "specific-agents", "agent-labels", "agent-tags">>)
http_server_endpoint_scheduled_tests_EndpointTestAuthType ==
  Strings("http_server_endpoint_scheduled_tests", "EndpointTestAuthType",
    <<"none", "basic", "ntlm">>)
http_server_endpoint_scheduled_tests_EndpointTestProtocol ==
  Strings("http_server_endpoint_scheduled_tests", "EndpointTestProtocol",
    <<"icmp", "icmp-with-tcp-connect", "tcp", "prefer-tcp", "ast-autodetect", "autodetect">>)
http_server_endpoint_scheduled_tests_TestInterval ==
  Ints("http_server_endpoint_scheduled_tests", "TestInterval",
    <<"60", "120", "300", "600", "900", "1800", "3600">>)
http_server_endpoint_scheduled_tests_TestProbeMode ==
  Strings("http_server_endpoint_scheduled_tests", "TestProbeMode", <<"auto", "sack", "syn">>)
http_server_endpoint_scheduled_tests_TestProbeModeResponse ==
  Strings("http_server_endpoint_scheduled_tests", "TestProbeModeResponse",
    <<"auto", "sack", "syn", "syn-pcap", "syn-socket", "unknown">>)
http_server_endpoint_scheduled_tests_TestSslVersionId ==
  Strings("http_server_endpoint_scheduled_tests", "TestSslVersionId",
    <<"0", "3", "4", "5", "6", "7">>)

-----------------------------------------------------------------------------
AllEndpointEnumerations ==
  {agent_to_server_endpoint_dynamic_tests_EndpointAgentSelectorConfigType,
   agent_to_server_endpoint_dynamic_tests_EndpointIpVersionIn,
   agent_to_server_endpoint_dynamic_tests_EndpointTestAgentSelectorType,
   agent_to_server_endpoint_dynamic_tests_EndpointTestProtocol,
   agent_to_server_endpoint_dynamic_tests_TestInterval,
   agent_to_server_endpoint_dynamic_tests_TestProbeMode,
   agent_to_server_endpoint_dynamic_tests_TestProbeModeResponse,
   agent_to_server_endpoint_instant_scheduled_tests_EndpointAgentSelectorConfigType,
   agent_to_server_endpoint_instant_scheduled_tests_EndpointIpVersionIn,
   agent_to_server_endpoint_instant_scheduled_tests_EndpointTestAgentSelectorType,
   agent_to_server_endpoint_instant_scheduled_tests_EndpointTestProtocol,
   agent_to_server_endpoint_instant_scheduled_tests_TestInterval,
   agent_to_server_endpoint_instant_scheduled_tests_TestProbeModeResponse,
   agent_to_server_endpoint_scheduled_tests_EndpointAgentSelectorConfigType,
   agent_to_server_endpoint_scheduled_tests_EndpointIpVersionIn,
   agent_to_server_endpoint_scheduled_tests_EndpointTestAgentSelectorType,
   agent_to_server_endpoint_scheduled_tests_EndpointTestProtocol,
   agent_to_server_endpoint_scheduled_tests_TestInterval,
   agent_to_server_endpoint_scheduled_tests_TestProbeMode,
   agent_to_server_endpoint_scheduled_tests_TestProbeModeResponse,
   endpoint_agent_labels_FilterType, endpoint_agent_labels_LabelFilterMode,
   endpoint_agent_labels_MatchType, endpoint_agent_log_items_EndpointAgentLogItemType,
   endpoint_agent_log_items_EndpointOnlineOfflineLogItemType,
   endpoint_agent_log_items_EndpointStateChangesLogItemType,
   endpoint_agent_log_items_EndpointVpnLogItemType, endpoint_agent_log_items_EndpointVpnType,
   endpoint_agent_log_items_EndpointWifiLogItemType,
   endpoint_agent_log_items_EndpointWirelessConnectionFailureType, endpoint_agents_AddressType,
   endpoint_agents_AgentLicenseType, endpoint_agents_AgentSearchSortKey,
   endpoint_agents_BatteryLevel, endpoint_agents_BrowserType, endpoint_agents_ConditionalOperator,
   endpoint_agents_InterfaceHardwareType, endpoint_agents_Platform, endpoint_agents_SortOrder,
   endpoint_agents_Status, endpoint_agents_ThresholdFilterOperator, endpoint_agents_VpnType,
   endpoint_proxies_EndpointProxyAuthType, endpoint_proxies_EndpointProxyType,
   endpoint_real_user_tests_EndpointMonitoringSettingsType,
   endpoint_scheduled_tests_EndpointAgentSelectorConfigType,
   endpoint_scheduled_tests_EndpointScheduledTestType,
   endpoint_scheduled_tests_EndpointTestProtocol, endpoint_scheduled_tests_TestInterval,
   endpoint_scheduled_tests_TestProbeModeResponse,
   http_server_endpoint_instant_scheduled_tests_EndpointAgentSelectorConfigType,
   http_server_endpoint_instant_scheduled_tests_EndpointIpVersionIn,
   http_server_endpoint_instant_scheduled_tests_EndpointTestAgentSelectorType,
   http_server_endpoint_instant_scheduled_tests_EndpointTestAuthType,
   http_server_endpoint_instant_scheduled_tests_EndpointTestProtocol,
   http_server_endpoint_instant_scheduled_tests_TestInterval,
   http_server_endpoint_instant_scheduled_tests_TestProbeMode,
   http_server_endpoint_instant_scheduled_tests_TestProbeModeResponse,
   http_server_endpoint_instant_scheduled_tests_TestSslVersionId,
   http_server_endpoint_scheduled_tests_EndpointAgentSelectorConfigType,
   http_server_endpoint_scheduled_tests_EndpointIpVersionIn,
   http_server_endpoint_scheduled_tests_EndpointTestAgentSelectorType,
   http_server_endpoint_scheduled_tests_EndpointTestAuthType,
   http_server_endpoint_scheduled_tests_EndpointTestProtocol,
   http_server_endpoint_scheduled_tests_TestInterval,
   http_server_endpoint_scheduled_tests_TestProbeMode,
   http_server_endpoint_scheduled_tests_TestProbeModeResponse,
   http_server_endpoint_scheduled_tests_TestSslVersionId}

=============================================================================
