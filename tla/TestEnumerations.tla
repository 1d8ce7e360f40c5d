-------------------------- MODULE TestEnumerations --------------------------
(***************************************************************************)
(* The enumerations of thousandeyes/thousandeyes_api: the packages of      *)
(* tests.                                                                  *)
(***************************************************************************)
EXTENDS OpenEnums

agent_to_agent_tests_AgentToAgentTestProtocol ==
  Strings("agent_to_agent_tests", "AgentToAgentTestProtocol", <<"tcp", "udp">>)
agent_to_agent_tests_AlertDirection ==
  Strings("agent_to_agent_tests", "AlertDirection",
    <<"to-target", "from-target", "bidirectional">>)
agent_to_agent_tests_AlertRoundsViolationMode ==
  Strings("agent_to_agent_tests", "AlertRoundsViolationMode", <<"exact", "any", "auto">>)
agent_to_agent_tests_AlertType ==
  Strings("agent_to_agent_tests", "AlertType",
    <<"page-load", "http-server", "end-to-end-server", "end-to-end-agent", "voice", "dns-server",
      "dns-trace", "dnssec", "bgp", "path-trace", "ftp", "sip-server", "transactions",
      "web-transactions", "agent", "network-outage", "application-outage", "device-device",
      "device-interface", "endpoint-network-server", "endpoint-http-server",
      "endpoint-path-trace", "endpoint-browser-sessions-agent",
      "endpoint-browser-sessions-application", "api", "web-transaction", "unknown">>)
agent_to_agent_tests_CloudEnterpriseAgentType ==
  Strings("agent_to_agent_tests", "CloudEnterpriseAgentType",
    <<"cloud", "enterprise-cluster", "enterprise">>)
agent_to_agent_tests_MonitorType ==
  Strings("agent_to_agent_tests", "MonitorType", <<"public", "private">>)
agent_to_agent_tests_NetworkProviderType ==
  Strings("agent_to_agent_tests", "NetworkProviderType",
    <<"unknown", "isp", "cdn", "stub", "cloud-provider", "carrier">>)
agent_to_agent_tests_SensitivityLevel ==
  Strings("agent_to_agent_tests", "SensitivityLevel", <<"high", "medium", "low">>)
agent_to_agent_tests_Severity ==
  Strings("agent_to_agent_tests", "Severity", <<"info", "major", "minor", "critical", "unknown">>)
agent_to_agent_tests_TestDirection ==
  Strings("agent_to_agent_tests", "TestDirection",
    <<"to-target", "from-target", "bidirectional">>)
agent_to_agent_tests_TestDscpId ==
  Strings("agent_to_agent_tests", "TestDscpId",
    <<"0", "8", "16", "24", "32", "40", "48", "56", "10", "12", "14", "18", "20", "22", "26",
      "28", "30", "34", "36", "38", "46", "44">>)
agent_to_agent_tests_TestInterval ==
  Ints("agent_to_agent_tests", "TestInterval",
    <<"60", "120", "300", "600", "900", "1800", "3600">>)
agent_to_agent_tests_TestPathTraceMode ==
  Strings("agent_to_agent_tests", "TestPathTraceMode", <<"classic", "in-session">>)

agent_to_server_tests_AlertDirection ==
  Strings("agent_to_server_tests", "AlertDirection",
    <<"to-target", "from-target", "bidirectional">>)
agent_to_server_tests_AlertRoundsViolationMode ==
  Strings("agent_to_server_tests", "AlertRoundsViolationMode", <<"exact", "any", "auto">>)
agent_to_server_tests_AlertType ==
  Strings("agent_to_server_tests", "AlertType",
    <<"page-load", "http-server", "end-to-end-server", "end-to-end-agent", "voice", "dns-server",
      "dns-trace", "dnssec", "bgp", "path-trace", "ftp", "sip-server", "transactions",
      "web-transactions", "agent", "network-outage", "application-outage", "device-device",
      "device-interface", "endpoint-network-server", "endpoint-http-server",
      "endpoint-path-trace", "endpoint-browser-sessions-agent",
      "endpoint-browser-sessions-application", "api", "web-transaction", "unknown">>)
agent_to_server_tests_CloudEnterpriseAgentType ==
  Strings("agent_to_server_tests", "CloudEnterpriseAgentType",
    <<"cloud", "enterprise-cluster", "enterprise">>)
agent_to_server_tests_MonitorType ==
  Strings("agent_to_server_tests", "MonitorType", <<"public", "private">>)
agent_to_server_tests_NetworkProviderType ==
  Strings("agent_to_server_tests", "NetworkProviderType",
    <<"unknown", "isp", "cdn", "stub", "cloud-provider", "carrier">>)
agent_to_server_tests_SensitivityLevel ==
  Strings("agent_to_server_tests", "SensitivityLevel", <<"high", "medium", "low">>)
agent_to_server_tests_Severity ==
  Strings("agent_to_server_tests", "Severity",
    <<"info", "major", "minor", "critical", "unknown">>)
agent_to_server_tests_TestDscpId ==
  Strings("agent_to_server_tests", "TestDscpId",
    <<"0", "8", "16", "24", "32", "40", "48", "56", "10", "12", "14", "18", "20", "22", "26",
      "28", "30", "34", "36", "38", "46", "44">>)
agent_to_server_tests_TestInterval ==
  Ints("agent_to_server_tests", "TestInterval",
    <<"60", "120", "300", "600", "900", "1800", "3600">>)
agent_to_server_tests_TestIpv6Policy ==
  Strings("agent_to_server_tests", "TestIpv6Policy",
    <<"force-ipv4", "prefer-ipv6", "force-ipv6", "use-agent-policy">>)
agent_to_server_tests_TestPathTraceMode ==
  Strings("agent_to_server_tests", "TestPathTraceMode", <<"classic", "in-session">>)
agent_to_server_tests_TestProbeMode ==
  Strings("agent_to_server_tests", "TestProbeMode", <<"auto", "sack", "syn">>)
agent_to_server_tests_TestProtocol ==
  Strings("agent_to_server_tests", "TestProtocol", <<"tcp", "icmp", "udp">>)

api_tests_AlertDirection ==
  Strings("api_tests", "AlertDirection", <<"to-target", "from-target", "bidirectional">>)
api_tests_AlertRoundsViolationMode ==
  Strings("api_tests", "AlertRoundsViolationMode", <<"exact", "any", "auto">>)
api_tests_AlertType ==
  Strings("api_tests", "AlertType",
    <<"page-load", "http-server", "end-to-end-server", "end-to-end-agent", "voice", "dns-server",
      "dns-trace", "dnssec", "bgp", "path-trace", "ftp", "sip-server", "transactions",
      "web-transactions", "agent", "network-outage", "application-outage", "device-device",
      "device-interface", "endpoint-network-server", "endpoint-http-server",
      "endpoint-path-trace", "endpoint-browser-sessions-agent",
      "endpoint-browser-sessions-application", "api", "web-transaction", "unknown">>)
api_tests_ApiClientAuthentication ==
  Strings("api_tests", "ApiClientAuthentication", <<"basic-auth-header", "in-body">>)
api_tests_ApiRequestAssertionName ==
  Strings("api_tests", "ApiRequestAssertionName", <<"status-code", "response-body">>)
api_tests_ApiRequestAssertionOperator ==
  Strings("api_tests", "ApiRequestAssertionOperator",
    <<"is", "is-not", "includes", "not-includes", "matches", "not-matches">>)
api_tests_ApiRequestAuthType ==
  Strings("api_tests", "ApiRequestAuthType", <<"none", "basic", "bearer-token", "oauth2">>)
api_tests_ApiRequestMethod ==
  Strings("api_tests", "ApiRequestMethod", <<"get", "post", "put", "delete", "patch">>)
api_tests_CloudEnterpriseAgentType ==
  Strings("api_tests", "CloudEnterpriseAgentType",
    <<"cloud", "enterprise-cluster", "enterprise">>)
api_tests_MonitorType == Strings("api_tests", "MonitorType", <<"public", "private">>)
api_tests_NetworkProviderType ==
  Strings("api_tests", "NetworkProviderType",
    <<"unknown", "isp", "cdn", "stub", "cloud-provider", "carrier">>)
api_tests_SensitivityLevel ==
  Strings("api_tests", "SensitivityLevel", <<"high", "medium", "low">>)
api_tests_Severity ==
  Strings("api_tests", "Severity", <<"info", "major", "minor", "critical", "unknown">>)
api_tests_TestInterval ==
  Ints("api_tests", "TestInterval", <<"60", "120", "300", "600", "900", "1800", "3600">>)
api_tests_TestPathTraceMode ==
  Strings("api_tests", "TestPathTraceMode", <<"classic", "in-session">>)
api_tests_TestProbeMode == Strings("api_tests", "TestProbeMode", <<"auto", "sack", "syn">>)
api_tests_TestProtocol == Strings("api_tests", "TestProtocol", <<"tcp", "icmp", "udp">>)
api_tests_TestSslVersionId ==
  Strings("api_tests", "TestSslVersionId", <<"0", "3", "4", "5", "6", "7">>)
api_tests_TestVaultCredentialTarget ==
  Strings("api_tests", "TestVaultCredentialTarget", <<"username", "password", "script">>)

bgp_monitors_MonitorType == Strings("bgp_monitors", "MonitorType", <<"public", "private">>)

bgp_tests_AlertDirection ==
  Strings("bgp_tests", "AlertDirection", <<"to-target", "from-target", "bidirectional">>)
bgp_tests_AlertRoundsViolationMode ==
  Strings("bgp_tests", "AlertRoundsViolationMode", <<"exact", "any", "auto">>)
bgp_tests_AlertType ==
  Strings("bgp_tests", "AlertType",
    <<"page-load", "http-server", "end-to-end-server", "end-to-end-agent", "voice", "dns-server",
      "dns-trace", "dnssec", "bgp", "path-trace", "ftp", "sip-server", "transactions",
      "web-transactions", "agent", "network-outage", "application-outage", "device-device",
      "device-interface", "endpoint-network-server", "endpoint-http-server",
      "endpoint-path-trace", "endpoint-browser-sessions-agent",
      "endpoint-browser-sessions-application", "api", "web-transaction", "unknown">>)
bgp_tests_MonitorType == Strings("bgp_tests", "MonitorType", <<"public", "private">>)
bgp_tests_SensitivityLevel ==
  Strings("bgp_tests", "SensitivityLevel", <<"high", "medium", "low">>)
bgp_tests_Severity ==
  Strings("bgp_tests", "Severity", <<"info", "major", "minor", "critical", "unknown">>)

dns_server_tests_AlertDirection ==
  Strings("dns_server_tests", "AlertDirection", <<"to-target", "from-target", "bidirectional">>)
dns_server_tests_AlertRoundsViolationMode ==
  Strings("dns_server_tests", "AlertRoundsViolationMode", <<"exact", "any", "auto">>)
dns_server_tests_AlertType ==
  Strings("dns_server_tests", "AlertType",
    <<"page-load", "http-server", "end-to-end-server", "end-to-end-agent", "voice", "dns-server",
      "dns-trace", "dnssec", "bgp", "path-trace", "ftp", "sip-server", "transactions",
      "web-transactions", "agent", "network-outage", "application-outage", "device-device",
      "device-interface", "endpoint-network-server", "endpoint-http-server",
      "endpoint-path-trace", "endpoint-browser-sessions-agent",
      "endpoint-browser-sessions-application", "api", "web-transaction", "unknown">>)
dns_server_tests_CloudEnterpriseAgentType ==
  Strings("dns_server_tests", "CloudEnterpriseAgentType",
    <<"cloud", "enterprise-cluster", "enterprise">>)
dns_server_tests_DnsQueryClass == Strings("dns_server_tests", "DnsQueryClass", <<"in", "ch">>)
dns_server_tests_MonitorType ==
  Strings("dns_server_tests", "MonitorType", <<"public", "private">>)
dns_server_tests_NetworkProviderType ==
  Strings("dns_server_tests", "NetworkProviderType",
    <<"unknown", "isp", "cdn", "stub", "cloud-provider", "carrier">>)
dns_server_tests_SensitivityLevel ==
  Strings("dns_server_tests", "SensitivityLevel", <<"high", "medium", "low">>)
dns_server_tests_Severity ==
  Strings("dns_server_tests", "Severity", <<"info", "major", "minor", "critical", "unknown">>)
dns_server_tests_TestDnsTransportProtocol ==
  Strings("dns_server_tests", "TestDnsTransportProtocol", <<"udp", "tcp">>)
dns_server_tests_TestInterval ==
  Ints("dns_server_tests", "TestInterval", <<"60", "120", "300", "600", "900", "1800", "3600">>)
dns_server_tests_TestIpv6Policy ==
  Strings("dns_server_tests", "TestIpv6Policy",
    <<"force-ipv4", "prefer-ipv6", "force-ipv6", "use-agent-policy">>)
dns_server_tests_TestPathTraceMode ==
  Strings("dns_server_tests", "TestPathTraceMode", <<"classic", "in-session">>)
dns_server_tests_TestProbeMode ==
  Strings("dns_server_tests", "TestProbeMode", <<"auto", "sack", "syn">>)
dns_server_tests_TestProtocol ==
  Strings("dns_server_tests", "TestProtocol", <<"tcp", "icmp", "udp">>)

dns_trace_tests_AlertDirection ==
  Strings("dns_trace_tests", "AlertDirection", <<"to-target", "from-target", "bidirectional">>)
dns_trace_tests_AlertRoundsViolationMode ==
  Strings("dns_trace_tests", "AlertRoundsViolationMode", <<"exact", "any", "auto">>)
dns_trace_tests_AlertType ==
  Strings("dns_trace_tests", "AlertType",
    <<"page-load", "http-server", "end-to-end-server", "end-to-end-agent", "voice", "dns-server",
      "dns-trace", "dnssec", "bgp", "path-trace", "ftp", "sip-server", "transactions",
      "web-transactions", "agent", "network-outage", "application-outage", "device-device",
      "device-interface", "endpoint-network-server", "endpoint-http-server",
      "endpoint-path-trace", "endpoint-browser-sessions-agent",
      "endpoint-browser-sessions-application", "api", "web-transaction", "unknown">>)
dns_trace_tests_CloudEnterpriseAgentType ==
  Strings("dns_trace_tests", "CloudEnterpriseAgentType",
    <<"cloud", "enterprise-cluster", "enterprise">>)
dns_trace_tests_DnsQueryClass == Strings("dns_trace_tests", "DnsQueryClass", <<"in", "ch">>)
dns_trace_tests_NetworkProviderType ==
  Strings("dns_trace_tests", "NetworkProviderType",
    <<"unknown", "isp", "cdn", "stub", "cloud-provider", "carrier">>)
dns_trace_tests_SensitivityLevel ==
  Strings("dns_trace_tests", "SensitivityLevel", <<"high", "medium", "low">>)
dns_trace_tests_Severity ==
  Strings("dns_trace_tests", "Severity", <<"info", "major", "minor", "critical", "unknown">>)
dns_trace_tests_TestDnsTransportProtocol ==
  Strings("dns_trace_tests", "TestDnsTransportProtocol", <<"udp", "tcp">>)
dns_trace_tests_TestInterval ==
  Ints("dns_trace_tests", "TestInterval", <<"60", "120", "300", "600", "900", "1800", "3600">>)

dnssec_tests_AlertDirection ==
  Strings("dnssec_tests", "AlertDirection", <<"to-target", "from-target", "bidirectional">>)
dnssec_tests_AlertRoundsViolationMode ==
  Strings("dnssec_tests", "AlertRoundsViolationMode", <<"exact", "any", "auto">>)
dnssec_tests_AlertType ==
  Strings("dnssec_tests", "AlertType",
    <<"page-load", "http-server", "end-to-end-server", "end-to-end-agent", "voice", "dns-server",
      "dns-trace", "dnssec", "bgp", "path-trace", "ftp", "sip-server", "transactions",
      "web-transactions", "agent", "network-outage", "application-outage", "device-device",
      "device-interface", "endpoint-network-server", "endpoint-http-server",
      "endpoint-path-trace", "endpoint-browser-sessions-agent",
      "endpoint-browser-sessions-application", "api", "web-transaction", "unknown">>)
dnssec_tests_CloudEnterpriseAgentType ==
  Strings("dnssec_tests", "CloudEnterpriseAgentType",
    <<"cloud", "enterprise-cluster", "enterprise">>)
dnssec_tests_DnsQueryClass == Strings("dnssec_tests", "DnsQueryClass", <<"in", "ch">>)
dnssec_tests_NetworkProviderType ==
  Strings("dnssec_tests", "NetworkProviderType",
    <<"unknown", "isp", "cdn", "stub", "cloud-provider", "carrier">>)
dnssec_tests_SensitivityLevel ==
  Strings("dnssec_tests", "SensitivityLevel", <<"high", "medium", "low">>)
dnssec_tests_Severity ==
  Strings("dnssec_tests", "Severity", <<"info", "major", "minor", "critical", "unknown">>)
dnssec_tests_TestInterval ==
  Ints("dnssec_tests", "TestInterval", <<"60", "120", "300", "600", "900", "1800", "3600">>)

emulation_EmulatedDeviceCategory ==
  Strings("emulation", "EmulatedDeviceCategory", <<"desktop", "laptop", "phone", "tablet">>)

ftp_server_tests_AlertDirection ==
  Strings("ftp_server_tests", "AlertDirection", <<"to-target", "from-target", "bidirectional">>)
ftp_server_tests_AlertRoundsViolationMode ==
  Strings("ftp_server_tests", "AlertRoundsViolationMode", <<"exact", "any", "auto">>)
ftp_server_tests_AlertType ==
  Strings("ftp_server_tests", "AlertType",
    <<"page-load", "http-server", "end-to-end-server", "end-to-end-agent", "voice", "dns-server",
      "dns-trace", "dnssec", "bgp", "path-trace", "ftp", "sip-server", "transactions",
      "web-transactions", "agent", "network-outage", "application-outage", "device-device",
      "device-interface", "endpoint-network-server", "endpoint-http-server",
      "endpoint-path-trace", "endpoint-browser-sessions-agent",
      "endpoint-browser-sessions-application", "api", "web-transaction", "unknown">>)
ftp_server_tests_CloudEnterpriseAgentType ==
  Strings("ftp_server_tests", "CloudEnterpriseAgentType",
    <<"cloud", "enterprise-cluster", "enterprise">>)
ftp_server_tests_FtpServerRequestType ==
  Strings("ftp_server_tests", "FtpServerRequestType", <<"download", "upload", "list">>)
ftp_server_tests_MonitorType ==
  Strings("ftp_server_tests", "MonitorType", <<"public", "private">>)
ftp_server_tests_NetworkProviderType ==
  Strings("ftp_server_tests", "NetworkProviderType",
    <<"unknown", "isp", "cdn", "stub", "cloud-provider", "carrier">>)
ftp_server_tests_SensitivityLevel ==
  Strings("ftp_server_tests", "SensitivityLevel", <<"high", "medium", "low">>)
ftp_server_tests_Severity ==
  Strings("ftp_server_tests", "Severity", <<"info", "major", "minor", "critical", "unknown">>)
ftp_server_tests_TestInterval ==
  Ints("ftp_server_tests", "TestInterval", <<"60", "120", "300", "600", "900", "1800", "3600">>)
ftp_server_tests_TestIpv6Policy ==
  Strings("ftp_server_tests", "TestIpv6Policy",
    <<"force-ipv4", "prefer-ipv6", "force-ipv6", "use-agent-policy">>)
ftp_server_tests_TestPathTraceMode ==
  Strings("ftp_server_tests", "TestPathTraceMode", <<"classic", "in-session">>)
ftp_server_tests_TestProbeMode ==
  Strings("ftp_server_tests", "TestProbeMode", <<"auto", "sack", "syn">>)
ftp_server_tests_TestProtocol ==
  Strings("ftp_server_tests", "TestProtocol", <<"tcp", "icmp", "udp">>)

http_server_tests_AlertDirection ==
  Strings("http_server_tests", "AlertDirection", <<"to-target", "from-target", "bidirectional">>)
http_server_tests_AlertRoundsViolationMode ==
  Strings("http_server_tests", "AlertRoundsViolationMode", <<"exact", "any", "auto">>)
http_server_tests_AlertType ==
  Strings("http_server_tests", "AlertType",
    <<"page-load", "http-server", "end-to-end-server", "end-to-end-agent", "voice", "dns-server",
      "dns-trace", "dnssec", "bgp", "path-trace", "ftp", "sip-server", "transactions",
      "web-transactions", "agent", "network-outage", "application-outage", "device-device",
      "device-interface", "endpoint-network-server", "endpoint-http-server",
      "endpoint-path-trace", "endpoint-browser-sessions-agent",
      "endpoint-browser-sessions-application", "api", "web-transaction", "unknown">>)
http_server_tests_CloudEnterpriseAgentType ==
  Strings("http_server_tests", "CloudEnterpriseAgentType",
    <<"cloud", "enterprise-cluster", "enterprise">>)
http_server_tests_MonitorType ==
  Strings("http_server_tests", "MonitorType", <<"public", "private">>)
http_server_tests_NetworkProviderType ==
  Strings("http_server_tests", "NetworkProviderType",
    <<"unknown", "isp", "cdn", "stub", "cloud-provider", "carrier">>)
http_server_tests_OAuthAuthType ==
  Strings("http_server_tests", "OAuthAuthType", <<"none", "basic", "ntlm">>)
http_server_tests_RequestMethod ==
  Strings("http_server_tests", "RequestMethod", <<"get", "post">>)
http_server_tests_SensitivityLevel ==
  Strings("http_server_tests", "SensitivityLevel", <<"high", "medium", "low">>)
http_server_tests_Severity ==
  Strings("http_server_tests", "Severity", <<"info", "major", "minor", "critical", "unknown">>)
http_server_tests_TestAuthType ==
  Strings("http_server_tests", "TestAuthType", <<"none", "basic", "ntlm", "kerberos", "oauth">>)
http_server_tests_TestInterval ==
  Ints("http_server_tests", "TestInterval", <<"60", "120", "300", "600", "900", "1800", "3600">>)
http_server_tests_TestIpv6Policy ==
  Strings("http_server_tests", "TestIpv6Policy",
    <<"force-ipv4", "prefer-ipv6", "force-ipv6", "use-agent-policy">>)
http_server_tests_TestPathTraceMode ==
  Strings("http_server_tests", "TestPathTraceMode", <<"classic", "in-session">>)
http_server_tests_TestProbeMode ==
  Strings("http_server_tests", "TestProbeMode", <<"auto", "sack", "syn">>)
http_server_tests_TestProtocol ==
  Strings("http_server_tests", "TestProtocol", <<"tcp", "icmp", "udp">>)
http_server_tests_TestSslVersionId ==
  Strings("http_server_tests", "TestSslVersionId", <<"0", "3", "4", "5", "6", "7">>)
http_server_tests_TestVaultCredentialTarget ==
  Strings("http_server_tests", "TestVaultCredentialTarget", <<"username", "password", "script">>)

page_load_tests_AlertDirection ==
  Strings("page_load_tests", "AlertDirection", <<"to-target", "from-target", "bidirectional">>)
page_load_tests_AlertRoundsViolationMode ==
  Strings("page_load_tests", "AlertRoundsViolationMode", <<"exact", "any", "auto">>)
page_load_tests_AlertType ==
  Strings("page_load_tests", "AlertType",
    <<"page-load", "http-server", "end-to-end-server", "end-to-end-agent", "voice", "dns-server",
      "dns-trace", "dnssec", "bgp", "path-trace", "ftp", "sip-server", "transactions",
      "web-transactions", "agent", "network-outage", "application-outage", "device-device",
      "device-interface", "endpoint-network-server", "endpoint-http-server",
      "endpoint-path-trace", "endpoint-browser-sessions-agent",
      "endpoint-browser-sessions-application", "api", "web-transaction", "unknown">>)
page_load_tests_CloudEnterpriseAgentType ==
  Strings("page_load_tests", "CloudEnterpriseAgentType",
    <<"cloud", "enterprise-cluster", "enterprise">>)
page_load_tests_MonitorType == Strings("page_load_tests", "MonitorType", <<"public", "private">>)
page_load_tests_NetworkProviderType ==
  Strings("page_load_tests", "NetworkProviderType",
    <<"unknown", "isp", "cdn", "stub", "cloud-provider", "carrier">>)
page_load_tests_OAuthAuthType ==
  Strings("page_load_tests", "OAuthAuthType", <<"none", "basic", "ntlm">>)
page_load_tests_RequestMethod == Strings("page_load_tests", "RequestMethod", <<"get", "post">>)
page_load_tests_SensitivityLevel ==
  Strings("page_load_tests", "SensitivityLevel", <<"high", "medium", "low">>)
page_load_tests_Severity ==
  Strings("page_load_tests", "Severity", <<"info", "major", "minor", "critical", "unknown">>)
page_load_tests_TestAuthType ==
  Strings("page_load_tests", "TestAuthType", <<"none", "basic", "ntlm", "kerberos", "oauth">>)
page_load_tests_TestChromiumTrack ==
  Strings("page_load_tests", "TestChromiumTrack", <<"stable", "latest">>)
page_load_tests_TestHttpInterval ==
  Ints("page_load_tests", "TestHttpInterval",
    <<"60", "120", "300", "600", "900", "1800", "3600">>)
page_load_tests_TestInterval ==
  Ints("page_load_tests", "TestInterval", <<"60", "120", "300", "600", "900", "1800", "3600">>)
page_load_tests_TestPageLoadingStrategy ==
  Strings("page_load_tests", "TestPageLoadingStrategy", <<"normal", "eager", "none">>)
page_load_tests_TestPathTraceMode ==
  Strings("page_load_tests", "TestPathTraceMode", <<"classic", "in-session">>)
page_load_tests_TestProbeMode ==
  Strings("page_load_tests", "TestProbeMode", <<"auto", "sack", "syn">>)
page_load_tests_TestProtocol ==
  Strings("page_load_tests", "TestProtocol", <<"tcp", "icmp", "udp">>)
page_load_tests_TestSslVersionId ==
  Strings("page_load_tests", "TestSslVersionId", <<"0", "3", "4", "5", "6", "7">>)
page_load_tests_TestSubInterval ==
  Ints("page_load_tests", "TestSubInterval",
    <<"60", "120", "300", "600", "900", "1200", "1800", "3600">>)
page_load_tests_TestVaultCredentialTarget ==
  Strings("page_load_tests", "TestVaultCredentialTarget", <<"username", "password", "script">>)

sip_server_tests_AlertDirection ==
  Strings("sip_server_tests", "AlertDirection", <<"to-target", "from-target", "bidirectional">>)
sip_server_tests_AlertRoundsViolationMode ==
  Strings("sip_server_tests", "AlertRoundsViolationMode", <<"exact", "any", "auto">>)
sip_server_tests_AlertType ==
  Strings("sip_server_tests", "AlertType",
    <<"page-load", "http-server", "end-to-end-server", "end-to-end-agent", "voice", "dns-server",
      "dns-trace", "dnssec", "bgp", "path-trace", "ftp", "sip-server", "transactions",
      "web-transactions", "agent", "network-outage", "application-outage", "device-device",
      "device-interface", "endpoint-network-server", "endpoint-http-server",
      "endpoint-path-trace", "endpoint-browser-sessions-agent",
      "endpoint-browser-sessions-application", "api", "web-transaction", "unknown">>)
sip_server_tests_CloudEnterpriseAgentType ==
  Strings("sip_server_tests", "CloudEnterpriseAgentType",
    <<"cloud", "enterprise-cluster", "enterprise">>)
sip_server_tests_MonitorType ==
  Strings("sip_server_tests", "MonitorType", <<"public", "private">>)
sip_server_tests_NetworkProviderType ==
  Strings("sip_server_tests", "NetworkProviderType",
    <<"unknown", "isp", "cdn", "stub", "cloud-provider", "carrier">>)
sip_server_tests_SensitivityLevel ==
  Strings("sip_server_tests", "SensitivityLevel", <<"high", "medium", "low">>)
sip_server_tests_Severity ==
  Strings("sip_server_tests", "Severity", <<"info", "major", "minor", "critical", "unknown">>)
sip_server_tests_SipTestProtocol ==
  Strings("sip_server_tests", "SipTestProtocol", <<"tcp", "tls", "udp">>)
sip_server_tests_TestInterval ==
  Ints("sip_server_tests", "TestInterval", <<"60", "120", "300", "600", "900", "1800", "3600">>)
sip_server_tests_TestIpv6Policy ==
  Strings("sip_server_tests", "TestIpv6Policy",
    <<"force-ipv4", "prefer-ipv6", "force-ipv6", "use-agent-policy">>)
sip_server_tests_TestPathTraceMode ==
  Strings("sip_server_tests", "TestPathTraceMode", <<"classic", "in-session">>)
sip_server_tests_TestProbeMode ==
  Strings("sip_server_tests", "TestProbeMode", <<"auto", "sack", "syn">>)

test_snapshots_TestInterval ==
  Ints("test_snapshots", "TestInterval", <<"60", "120", "300", "600", "900", "1800", "3600">>)
test_snapshots_TestType ==
  Strings("test_snapshots", "TestType",
    <<"api", "agent-to-agent", "agent-to-server", "bgp", "http-server", "page-load",
      "web-transactions", "ftp-server", "dns-trace", "dns-server", "dnssec", "sip-server",
      "voice">>)

tests_TestInterval ==
  Ints("tests", "TestInterval", <<"60", "120", "300", "600", "900", "1800", "3600">>)
tests_TestType ==
  Strings("tests", "TestType",
    <<"api", "agent-to-agent", "agent-to-server", "bgp", "http-server", "page-load",
      "web-transactions", "ftp-server", "dns-trace", "dns-server", "dnssec", "sip-server",
      "voice">>)

voice_tests_AlertDirection ==
  Strings("voice_tests", "AlertDirection", <<"to-target", "from-target", "bidirectional">>)
voice_tests_AlertRoundsViolationMode ==
  Strings("voice_tests", "AlertRoundsViolationMode", <<"exact", "any", "auto">>)
voice_tests_AlertType ==
  Strings("voice_tests", "AlertType",
    <<"page-load", "http-server", "end-to-end-server", "end-to-end-agent", "voice", "dns-server",
      "dns-trace", "dnssec", "bgp", "path-trace", "ftp", "sip-server", "transactions",
      "web-transactions", "agent", "network-outage", "application-outage", "device-device",
      "device-interface", "endpoint-network-server", "endpoint-http-server",
      "endpoint-path-trace", "endpoint-browser-sessions-agent",
      "endpoint-browser-sessions-application", "api", "web-transaction", "unknown">>)
voice_tests_CloudEnterpriseAgentType ==
  Strings("voice_tests", "CloudEnterpriseAgentType",
    <<"cloud", "enterprise-cluster", "enterprise">>)
voice_tests_MonitorType == Strings("voice_tests", "MonitorType", <<"public", "private">>)
voice_tests_NetworkProviderType ==
  Strings("voice_tests", "NetworkProviderType",
    <<"unknown", "isp", "cdn", "stub", "cloud-provider", "carrier">>)
voice_tests_SensitivityLevel ==
  Strings("voice_tests", "SensitivityLevel", <<"high", "medium", "low">>)
voice_tests_Severity ==
  Strings("voice_tests", "Severity", <<"info", "major", "minor", "critical", "unknown">>)
voice_tests_TestDscpId ==
  Strings("voice_tests", "TestDscpId",
    <<"0", "8", "16", "24", "32", "40", "48", "56", "10", "12", "14", "18", "20", "22", "26",
      "28", "30", "34", "36", "38", "46", "44">>)
voice_tests_TestInterval ==
  Ints("voice_tests", "TestInterval", <<"60", "120", "300", "600", "900", "1800", "3600">>)

web_transaction_tests_AlertDirection ==
  Strings("web_transaction_tests", "AlertDirection",
    <<"to-target", "from-target", "bidirectional">>)
web_transaction_tests_AlertRoundsViolationMode ==
  Strings("web_transaction_tests", "AlertRoundsViolationMode", <<"exact", "any", "auto">>)
web_transaction_tests_AlertType ==
  Strings("web_transaction_tests", "AlertType",
    <<"page-load", "http-server", "end-to-end-server", "end-to-end-agent", "voice", "dns-server",
      "dns-trace", "dnssec", "bgp", "path-trace", "ftp", "sip-server", "transactions",
      "web-transactions", "agent", "network-outage", "application-outage", "device-device",
      "device-interface", "endpoint-network-server", "endpoint-http-server",
      "endpoint-path-trace", "endpoint-browser-sessions-agent",
      "endpoint-browser-sessions-application", "api", "web-transaction", "unknown">>)
web_transaction_tests_CloudEnterpriseAgentType ==
  Strings("web_transaction_tests", "CloudEnterpriseAgentType",
    <<"cloud", "enterprise-cluster", "enterprise">>)
web_transaction_tests_MonitorType ==
  Strings("web_transaction_tests", "MonitorType", <<"public", "private">>)
web_transaction_tests_NetworkProviderType ==
  Strings("web_transaction_tests", "NetworkProviderType",
    <<"unknown", "isp", "cdn", "stub", "cloud-provider", "carrier">>)
web_transaction_tests_OAuthAuthType ==
  Strings("web_transaction_tests", "OAuthAuthType", <<"none", "basic", "ntlm">>)
web_transaction_tests_RequestMethod ==
  Strings("web_transaction_tests", "RequestMethod", <<"get", "post">>)
web_transaction_tests_SensitivityLevel ==
  Strings("web_transaction_tests", "SensitivityLevel", <<"high", "medium", "low">>)
web_transaction_tests_Severity ==
  Strings("web_transaction_tests", "Severity",
    <<"info", "major", "minor", "critical", "unknown">>)
web_transaction_tests_TestAuthType ==
  Strings("web_transaction_tests", "TestAuthType",
    <<"none", "basic", "ntlm", "kerberos", "oauth">>)
web_transaction_tests_TestChromiumTrack ==
  Strings("web_transaction_tests", "TestChromiumTrack", <<"stable", "latest">>)
web_transaction_tests_TestInterval ==
  Ints("web_transaction_tests", "TestInterval",
    <<"60", "120", "300", "600", "900", "1800", "3600">>)
web_transaction_tests_TestPageLoadingStrategy ==
  Strings("web_transaction_tests", "TestPageLoadingStrategy", <<"normal", "eager", "none">>)
web_transaction_tests_TestPathTraceMode ==
  Strings("web_transaction_tests", "TestPathTraceMode", <<"classic", "in-session">>)
web_transaction_tests_TestProbeMode ==
  Strings("web_transaction_tests", "TestProbeMode", <<"auto", "sack", "syn">>)
web_transaction_tests_TestProtocol ==
  Strings("web_transaction_tests", "TestProtocol", <<"tcp", "icmp", "udp">>)
web_transaction_tests_TestSslVersionId ==
  Strings("web_transaction_tests", "TestSslVersionId", <<"0", "3", "4", "5", "6", "7">>)
web_transaction_tests_TestSubInterval ==
  Ints("web_transaction_tests", "TestSubInterval",
    <<"60", "120", "300", "600", "900", "1200", "1800", "3600">>)
web_transaction_tests_TestVaultCredentialTarget ==
  Strings("web_transaction_tests", "TestVaultCredentialTarget",
    <<"username", "password", "script">>)

-----------------------------------------------------------------------------
AllTestEnumerations ==
  {agent_to_agent_tests_AgentToAgentTestProtocol, agent_to_agent_tests_AlertDirection,
   agent_to_agent_tests_AlertRoundsViolationMode, agent_to_agent_tests_AlertType,
   agent_to_agent_tests_CloudEnterpriseAgentType, agent_to_agent_tests_MonitorType,
   agent_to_agent_tests_NetworkProviderType, agent_to_agent_tests_SensitivityLevel,
   agent_to_agent_tests_Severity, agent_to_agent_tests_TestDirection,
   agent_to_agent_tests_TestDscpId, agent_to_agent_tests_TestInterval,
   agent_to_agent_tests_TestPathTraceMode, agent_to_server_tests_AlertDirection,
   agent_to_server_tests_AlertRoundsViolationMode, agent_to_server_tests_AlertType,
   agent_to_server_tests_CloudEnterpriseAgentType, agent_to_server_tests_MonitorType,
   agent_to_server_tests_NetworkProviderType, agent_to_server_tests_SensitivityLevel,
   agent_to_server_tests_Severity, agent_to_server_tests_TestDscpId,
   agent_to_server_tests_TestInterval, agent_to_server_tests_TestIpv6Policy,
   agent_to_server_tests_TestPathTraceMode, agent_to_server_tests_TestProbeMode,
   agent_to_server_tests_TestProtocol, api_tests_AlertDirection,
   api_tests_AlertRoundsViolationMode, api_tests_AlertType, api_tests_ApiClientAuthentication,
   api_tests_ApiRequestAssertionName, api_tests_ApiRequestAssertionOperator,
   api_tests_ApiRequestAuthType, api_tests_ApiRequestMethod, api_tests_CloudEnterpriseAgentType,
   api_tests_MonitorType, api_tests_NetworkProviderType, api_tests_SensitivityLevel,
   api_tests_Severity, api_tests_TestInterval, api_tests_TestPathTraceMode,
   api_tests_TestProbeMode, api_tests_TestProtocol, api_tests_TestSslVersionId,
   api_tests_TestVaultCredentialTarget, bgp_monitors_MonitorType, bgp_tests_AlertDirection,
   bgp_tests_AlertRoundsViolationMode, bgp_tests_AlertType, bgp_tests_MonitorType,
   bgp_tests_SensitivityLevel, bgp_tests_Severity, dns_server_tests_AlertDirection,
   dns_server_tests_AlertRoundsViolationMode, dns_server_tests_AlertType,
   dns_server_tests_CloudEnterpriseAgentType, dns_server_tests_DnsQueryClass,
   dns_server_tests_MonitorType, dns_server_tests_NetworkProviderType,
   dns_server_tests_SensitivityLevel, dns_server_tests_Severity,
   dns_server_tests_TestDnsTransportProtocol, dns_server_tests_TestInterval,
   dns_server_tests_TestIpv6Policy, dns_server_tests_TestPathTraceMode,
   dns_server_tests_TestProbeMode, dns_server_tests_TestProtocol, dns_trace_tests_AlertDirection,
   dns_trace_tests_AlertRoundsViolationMode, dns_trace_tests_AlertType,
   dns_trace_tests_CloudEnterpriseAgentType, dns_trace_tests_DnsQueryClass,
   dns_trace_tests_NetworkProviderType, dns_trace_tests_SensitivityLevel,
   dns_trace_tests_Severity, dns_trace_tests_TestDnsTransportProtocol,
   dns_trace_tests_TestInterval, dnssec_tests_AlertDirection,
   dnssec_tests_AlertRoundsViolationMode, dnssec_tests_AlertType,
   dnssec_tests_CloudEnterpriseAgentType, dnssec_tests_DnsQueryClass,
   dnssec_tests_NetworkProviderType, dnssec_tests_SensitivityLevel, dnssec_tests_Severity,
   dnssec_tests_TestInterval, emulation_EmulatedDeviceCategory, ftp_server_tests_AlertDirection,
   ftp_server_tests_AlertRoundsViolationMode, ftp_server_tests_AlertType,
   ftp_server_tests_CloudEnterpriseAgentType, ftp_server_tests_FtpServerRequestType,
   ftp_server_tests_MonitorType, ftp_server_tests_NetworkProviderType,
   ftp_server_tests_SensitivityLevel, ftp_server_tests_Severity, ftp_server_tests_TestInterval,
   ftp_server_tests_TestIpv6Policy, ftp_server_tests_TestPathTraceMode,
   ftp_server_tests_TestProbeMode, ftp_server_tests_TestProtocol,
   http_server_tests_AlertDirection, http_server_tests_AlertRoundsViolationMode,
   http_server_tests_AlertType, http_server_tests_CloudEnterpriseAgentType,
   http_server_tests_MonitorType, http_server_tests_NetworkProviderType,
   http_server_tests_OAuthAuthType, http_server_tests_RequestMethod,
   http_server_tests_SensitivityLevel, http_server_tests_Severity, http_server_tests_TestAuthType,
   http_server_tests_TestInterval, http_server_tests_TestIpv6Policy,
   http_server_tests_TestPathTraceMode, http_server_tests_TestProbeMode,
   http_server_tests_TestProtocol, http_server_tests_TestSslVersionId,
   http_server_tests_TestVaultCredentialTarget, page_load_tests_AlertDirection,
   page_load_tests_AlertRoundsViolationMode, page_load_tests_AlertType,
   page_load_tests_CloudEnterpriseAgentType, page_load_tests_MonitorType,
   page_load_tests_NetworkProviderType, page_load_tests_OAuthAuthType,
   page_load_tests_RequestMethod, page_load_tests_SensitivityLevel, page_load_tests_Severity,
   page_load_tests_TestAuthType, page_load_tests_TestChromiumTrack,
   page_load_tests_TestHttpInterval, page_load_tests_TestInterval,
   page_load_tests_TestPageLoadingStrategy, page_load_tests_TestPathTraceMode,
   page_load_tests_TestProbeMode, page_load_tests_TestProtocol, page_load_tests_TestSslVersionId,
   page_load_tests_TestSubInterval, page_load_tests_TestVaultCredentialTarget,
   sip_server_tests_AlertDirection, sip_server_tests_AlertRoundsViolationMode,
   sip_server_tests_AlertType, sip_server_tests_CloudEnterpriseAgentType,
   sip_server_tests_MonitorType, sip_server_tests_NetworkProviderType,
   sip_server_tests_SensitivityLevel, sip_server_tests_Severity, sip_server_tests_SipTestProtocol,
   sip_server_tests_TestInterval, sip_server_tests_TestIpv6Policy,
   sip_server_tests_TestPathTraceMode, sip_server_tests_TestProbeMode,
   test_snapshots_TestInterval, test_snapshots_TestType, tests_TestInterval, tests_TestType,
   voice_tests_AlertDirection, voice_tests_AlertRoundsViolationMode, voice_tests_AlertType,
   voice_tests_CloudEnterpriseAgentType, voice_tests_MonitorType, voice_tests_NetworkProviderType,
   voice_tests_SensitivityLevel, voice_tests_Severity, voice_tests_TestDscpId,
   voice_tests_TestInterval, web_transaction_tests_AlertDirection,
   web_transaction_tests_AlertRoundsViolationMode, web_transaction_tests_AlertType,
   web_transaction_tests_CloudEnterpriseAgentType, web_transaction_tests_MonitorType,
   web_transaction_tests_NetworkProviderType, web_transaction_tests_OAuthAuthType,
   web_transaction_tests_RequestMethod, web_transaction_tests_SensitivityLevel,
   web_transaction_tests_Severity, web_transaction_tests_TestAuthType,
   web_transaction_tests_TestChromiumTrack, web_transaction_tests_TestInterval,
   web_transaction_tests_TestPageLoadingStrategy, web_transaction_tests_TestPathTraceMode,
   web_transaction_tests_TestProbeMode, web_transaction_tests_TestProtocol,
   web_transaction_tests_TestSslVersionId, web_transaction_tests_TestSubInterval,
   web_transaction_tests_TestVaultCredentialTarget}

=============================================================================
