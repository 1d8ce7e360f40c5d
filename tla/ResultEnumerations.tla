------------------------- MODULE ResultEnumerations -------------------------
(***************************************************************************)
(* The enumerations of thousandeyes/thousandeyes_api: the packages of      *)
(* test results and of outages.                                            *)
(***************************************************************************)
EXTENDS OpenEnums

api_test_results_ApiRequestStepType ==
  Strings("api_test_results", "ApiRequestStepType", <<"default", "oauth2">>)
api_test_results_TestInterval ==
  Ints("api_test_results", "TestInterval", <<"60", "120", "300", "600", "900", "1800", "3600">>)
api_test_results_TestType ==
  Strings("api_test_results", "TestType",
    <<"api", "agent-to-agent", "agent-to-server", "bgp", "http-server", "page-load",
      "web-transactions", "ftp-server", "dns-trace", "dns-server", "dnssec", "sip-server",
      "voice">>)

dns_server_test_results_TestInterval ==
  Ints("dns_server_test_results", "TestInterval",
    <<"60", "120", "300", "600", "900", "1800", "3600">>)
dns_server_test_results_TestType ==
  Strings("dns_server_test_results", "TestType",
    <<"api", "agent-to-agent", "agent-to-server", "bgp", "http-server", "page-load",
      "web-transactions", "ftp-server", "dns-trace", "dns-server", "dnssec", "sip-server",
      "voice">>)

dns_trace_test_results_TestInterval ==
  Ints("dns_trace_test_results", "TestInterval",
    <<"60", "120", "300", "600", "900", "1800", "3600">>)
dns_trace_test_results_TestType ==
  Strings("dns_trace_test_results", "TestType",
    <<"api", "agent-to-agent", "agent-to-server", "bgp", "http-server", "page-load",
      "web-transactions", "ftp-server", "dns-trace", "dns-server", "dnssec", "sip-server",
      "voice">>)

dnssec_test_results_TestInterval ==
  Ints("dnssec_test_results", "TestInterval",
    <<"60", "120", "300", "600", "900", "1800", "3600">>)
dnssec_test_results_TestType ==
  Strings("dnssec_test_results", "TestType",
    <<"api", "agent-to-agent", "agent-to-server", "bgp", "http-server", "page-load",
      "web-transactions", "ftp-server", "dns-trace", "dns-server", "dnssec", "sip-server",
      "voice">>)

http_server_endpoint_scheduled_test_results_ApplicationScoreQuality ==
  Strings("http_server_endpoint_scheduled_test_results", "ApplicationScoreQuality",
    <<"great", "good", "poor">>)
http_server_endpoint_scheduled_test_results_BatteryLevel ==
  Strings("http_server_endpoint_scheduled_test_results", "BatteryLevel",
    <<"high", "medium", "low">>)
http_server_endpoint_scheduled_test_results_ConditionalOperator ==
  Strings("http_server_endpoint_scheduled_test_results", "ConditionalOperator", <<"and", "or">>)
http_server_endpoint_scheduled_test_results_EndpointAgentSelectorConfigType ==
  Strings("http_server_endpoint_scheduled_test_results", "EndpointAgentSelectorConfigType",
    <<"agent-labels", "agent-tags", "all-agents", "specific-agents">>)
http_server_endpoint_scheduled_test_results_EndpointTestAuthType ==
  Strings("http_server_endpoint_scheduled_test_results", "EndpointTestAuthType",
    <<"none", "basic", "ntlm">>)
http_server_endpoint_scheduled_test_results_EndpointTestProtocol ==
  Strings("http_server_endpoint_scheduled_test_results", "EndpointTestProtocol",
    <<"icmp", "icmp-with-tcp-connect", "tcp", "prefer-tcp", "ast-autodetect", "autodetect">>)
http_server_endpoint_scheduled_test_results_HttpEndpointTestsDataSearchSortKey ==
  Strings("http_server_endpoint_scheduled_test_results", "HttpEndpointTestsDataSearchSortKey",
    <<"round-id", "response-time", "dns-time", "connect-time", "ssl-time", "wait-time",
      "response-code", "wire-size">>)
http_server_endpoint_scheduled_test_results_HttpErrorType ==
  Strings("http_server_endpoint_scheduled_test_results", "HttpErrorType",
    <<"connect", "dns", "http", "none", "send", "ssl", "receive">>)
http_server_endpoint_scheduled_test_results_HttpThresholdFilterName ==
  Strings("http_server_endpoint_scheduled_test_results", "HttpThresholdFilterName",
    <<"response-time", "dns-time", "connect-time", "throughput", "ssl-time", "wait-time",
      "application-score">>)
http_server_endpoint_scheduled_test_results_InterfaceHardwareType ==
  Strings("http_server_endpoint_scheduled_test_results", "InterfaceHardwareType",
    <<"unknown", "wireless", "ethernet", "modem", "virtual", "loopback", "other">>)
http_server_endpoint_scheduled_test_results_Platform ==
  Strings("http_server_endpoint_scheduled_test_results", "Platform",
    <<"windows", "roomos", "phoneos", "elux", "cisco-wireless", "cisco-wireless-cloud", "linux",
      "mac", "android", "unknown">>)
http_server_endpoint_scheduled_test_results_SortOrder ==
  Strings("http_server_endpoint_scheduled_test_results", "SortOrder", <<"asc", "desc">>)
http_server_endpoint_scheduled_test_results_TestInterval ==
  Ints("http_server_endpoint_scheduled_test_results", "TestInterval",
    <<"60", "120", "300", "600", "900", "1800", "3600">>)
http_server_endpoint_scheduled_test_results_TestProbeModeResponse ==
  Strings("http_server_endpoint_scheduled_test_results", "TestProbeModeResponse",
    <<"auto", "sack", "syn", "syn-pcap", "syn-socket", "unknown">>)
http_server_endpoint_scheduled_test_results_TestProtocol ==
  Strings("http_server_endpoint_scheduled_test_results", "TestProtocol", <<"tcp", "icmp", "udp">>)
http_server_endpoint_scheduled_test_results_TestSslVersionId ==
  Strings("http_server_endpoint_scheduled_test_results", "TestSslVersionId",
    <<"0", "3", "4", "5", "6", "7">>)
http_server_endpoint_scheduled_test_results_ThresholdFilterOperator ==
  Strings("http_server_endpoint_scheduled_test_results", "ThresholdFilterOperator",
    <<"gte", "lte">>)
http_server_endpoint_scheduled_test_results_VpnType ==
  Strings("http_server_endpoint_scheduled_test_results", "VpnType",
    <<"cisco-anyconnect", "palo-alto-globalprotect", "ivanti-connect-secure",
      "zscaler-internet-access", "f5-big-ip">>)

local_network_endpoint_test_results_ApplicationScoreQuality ==
  Strings("local_network_endpoint_test_results", "ApplicationScoreQuality",
    <<"great", "good", "poor">>)
local_network_endpoint_test_results_BatteryLevel ==
  Strings("local_network_endpoint_test_results", "BatteryLevel", <<"high", "medium", "low">>)
local_network_endpoint_test_results_ConditionalOperator ==
  Strings("local_network_endpoint_test_results", "ConditionalOperator", <<"and", "or">>)
local_network_endpoint_test_results_InterfaceHardwareType ==
  Strings("local_network_endpoint_test_results", "InterfaceHardwareType",
    <<"unknown", "wireless", "ethernet", "modem", "virtual", "loopback", "other">>)
local_network_endpoint_test_results_LocalNetworksThresholdFilterName ==
  Strings("local_network_endpoint_test_results", "LocalNetworksThresholdFilterName",
    <<"vpn-score", "avg-rtt", "mean-dev-rtt", "loss">>)
local_network_endpoint_test_results_NetworkTopologyType ==
  Strings("local_network_endpoint_test_results", "NetworkTopologyType",
    <<"vpn", "proxy", "gateway", "dns", "unknown">>)
local_network_endpoint_test_results_Platform ==
  Strings("local_network_endpoint_test_results", "Platform",
    <<"windows", "roomos", "phoneos", "elux", "cisco-wireless", "cisco-wireless-cloud", "linux",
      "mac", "android", "unknown">>)
local_network_endpoint_test_results_ThresholdFilterOperator ==
  Strings("local_network_endpoint_test_results", "ThresholdFilterOperator", <<"gte", "lte">>)

network_bgp_test_results_TestInterval ==
  Ints("network_bgp_test_results", "TestInterval",
    <<"60", "120", "300", "600", "900", "1800", "3600">>)
network_bgp_test_results_TestType ==
  Strings("network_bgp_test_results", "TestType",
    <<"api", "agent-to-agent", "agent-to-server", "bgp", "http-server", "page-load",
      "web-transactions", "ftp-server", "dns-trace", "dns-server", "dnssec", "sip-server",
      "voice">>)

network_dynamic_endpoint_test_results_ApplicationScoreQuality ==
  Strings("network_dynamic_endpoint_test_results", "ApplicationScoreQuality",
    <<"great", "good", "poor">>)
network_dynamic_endpoint_test_results_BatteryLevel ==
  Strings("network_dynamic_endpoint_test_results", "BatteryLevel", <<"high", "medium", "low">>)
network_dynamic_endpoint_test_results_ConditionalOperator ==
  Strings("network_dynamic_endpoint_test_results", "ConditionalOperator", <<"and", "or">>)
network_dynamic_endpoint_test_results_EndpointAgentSelectorConfigType ==
  Strings("network_dynamic_endpoint_test_results", "EndpointAgentSelectorConfigType",
    <<"agent-labels", "agent-tags", "all-agents", "specific-agents">>)
network_dynamic_endpoint_test_results_EndpointTestProtocol ==
  Strings("network_dynamic_endpoint_test_results", "EndpointTestProtocol",
    <<"icmp", "icmp-with-tcp-connect", "tcp", "prefer-tcp", "ast-autodetect", "autodetect">>)
network_dynamic_endpoint_test_results_EndpointTestResultProtocol ==
  Strings("network_dynamic_endpoint_test_results", "EndpointTestResultProtocol",
    <<"icmp", "tcp", "udp", "prefer-tcp", "ast-autodetect", "autodetect", "unknown">>)
network_dynamic_endpoint_test_results_EndpointTestsDataSearchSortKey ==
  Strings("network_dynamic_endpoint_test_results", "EndpointTestsDataSearchSortKey",
    <<"round-id", "loss", "latency", "jitter", "cpu", "memory", "signal-quality">>)
network_dynamic_endpoint_test_results_EndpointZtaSegmentType ==
  Strings("network_dynamic_endpoint_test_results", "EndpointZtaSegmentType",
    <<"zta_ingress", "zta_service">>)
network_dynamic_endpoint_test_results_InterfaceHardwareType ==
  Strings("network_dynamic_endpoint_test_results", "InterfaceHardwareType",
    <<"unknown", "wireless", "ethernet", "modem", "virtual", "loopback", "other">>)
network_dynamic_endpoint_test_results_Platform ==
  Strings("network_dynamic_endpoint_test_results", "Platform",
    <<"windows", "roomos", "phoneos", "elux", "cisco-wireless", "cisco-wireless-cloud", "linux",
      "mac", "android", "unknown">>)
network_dynamic_endpoint_test_results_SortOrder ==
  Strings("network_dynamic_endpoint_test_results", "SortOrder", <<"asc", "desc">>)
network_dynamic_endpoint_test_results_TcpPathTraceModeResponse ==
  Strings("network_dynamic_endpoint_test_results", "TcpPathTraceModeResponse",
    <<"auto", "syn", "syn-pcap", "unknown", "data-in-session-with-decrementing-ttl",
      "data-in-session">>)
network_dynamic_endpoint_test_results_TestInterval ==
  Ints("network_dynamic_endpoint_test_results", "TestInterval",
    <<"60", "120", "300", "600", "900", "1800", "3600">>)
network_dynamic_endpoint_test_results_TestProbeModeResponse ==
  Strings("network_dynamic_endpoint_test_results", "TestProbeModeResponse",
    <<"auto", "sack", "syn", "syn-pcap", "syn-socket", "unknown">>)
network_dynamic_endpoint_test_results_TestProtocol ==
  Strings("network_dynamic_endpoint_test_results", "TestProtocol", <<"tcp", "icmp", "udp">>)
network_dynamic_endpoint_test_results_ThresholdFilterName ==
  Strings("network_dynamic_endpoint_test_results", "ThresholdFilterName",
    <<"loss", "latency", "jitter", "cpu", "memory", "signal-quality", "application-score",
      "zta-ingress-loss", "zta-service-loss", "zta-ingress-avg-latency",
      "zta-service-avg-latency", "zta-ingress-jitter", "zta-service-jitter">>)
network_dynamic_endpoint_test_results_ThresholdFilterOperator ==
  Strings("network_dynamic_endpoint_test_results", "ThresholdFilterOperator", <<"gte", "lte">>)
network_dynamic_endpoint_test_results_UdpPathTraceModeResponse ==
  Strings("network_dynamic_endpoint_test_results", "UdpPathTraceModeResponse",
    <<"stun-pcap", "unknown">>)
network_dynamic_endpoint_test_results_UdpProbeModeResponse ==
  Strings("network_dynamic_endpoint_test_results", "UdpProbeModeResponse",
    <<"stun-pcap", "unknown">>)
network_dynamic_endpoint_test_results_VpnType ==
  Strings("network_dynamic_endpoint_test_results", "VpnType",
    <<"cisco-anyconnect", "palo-alto-globalprotect", "ivanti-connect-secure",
      "zscaler-internet-access", "f5-big-ip">>)

network_endpoint_scheduled_test_results_ApplicationScoreQuality ==
  Strings("network_endpoint_scheduled_test_results", "ApplicationScoreQuality",
    <<"great", "good", "poor">>)
network_endpoint_scheduled_test_results_BatteryLevel ==
  Strings("network_endpoint_scheduled_test_results", "BatteryLevel", <<"high", "medium", "low">>)
network_endpoint_scheduled_test_results_ConditionalOperator ==
  Strings("network_endpoint_scheduled_test_results", "ConditionalOperator", <<"and", "or">>)
network_endpoint_scheduled_test_results_EndpointAgentSelectorConfigType ==
  Strings("network_endpoint_scheduled_test_results", "EndpointAgentSelectorConfigType",
    <<"agent-labels", "agent-tags", "all-agents", "specific-agents">>)
network_endpoint_scheduled_test_results_EndpointScheduledTestType ==
  Strings("network_endpoint_scheduled_test_results", "EndpointScheduledTestType",
    <<"agent-to-server", "http-server">>)
network_endpoint_scheduled_test_results_EndpointTestAuthType ==
  Strings("network_endpoint_scheduled_test_results", "EndpointTestAuthType",
    <<"none", "basic", "ntlm">>)
network_endpoint_scheduled_test_results_EndpointTestProtocol ==
  Strings("network_endpoint_scheduled_test_results", "EndpointTestProtocol",
    <<"icmp", "icmp-with-tcp-connect", "tcp", "prefer-tcp", "ast-autodetect", "autodetect">>)
network_endpoint_scheduled_test_results_EndpointTestResultProtocol ==
  Strings("network_endpoint_scheduled_test_results", "EndpointTestResultProtocol",
    <<"icmp", "tcp", "udp", "prefer-tcp", "ast-autodetect", "autodetect", "unknown">>)
network_endpoint_scheduled_test_results_EndpointTestsDataSearchSortKey ==
  Strings("network_endpoint_scheduled_test_results", "EndpointTestsDataSearchSortKey",
    <<"round-id", "loss", "latency", "jitter", "cpu", "memory", "signal-quality">>)
network_endpoint_scheduled_test_results_EndpointZtaSegmentType ==
  Strings("network_endpoint_scheduled_test_results", "EndpointZtaSegmentType",
    <<"zta_ingress", "zta_service">>)
network_endpoint_scheduled_test_results_InterfaceHardwareType ==
  Strings("network_endpoint_scheduled_test_results", "InterfaceHardwareType",
    <<"unknown", "wireless", "ethernet", "modem", "virtual", "loopback", "other">>)
network_endpoint_scheduled_test_results_Platform ==
  Strings("network_endpoint_scheduled_test_results", "Platform",
    <<"windows", "roomos", "phoneos", "elux", "cisco-wireless", "cisco-wireless-cloud", "linux",
      "mac", "android", "unknown">>)
network_endpoint_scheduled_test_results_SortOrder ==
  Strings("network_endpoint_scheduled_test_results", "SortOrder", <<"asc", "desc">>)
network_endpoint_scheduled_test_results_TcpPathTraceModeResponse ==
  Strings("network_endpoint_scheduled_test_results", "TcpPathTraceModeResponse",
    <<"auto", "syn", "syn-pcap", "unknown", "data-in-session-with-decrementing-ttl",
      "data-in-session">>)
network_endpoint_scheduled_test_results_TestInterval ==
  Ints("network_endpoint_scheduled_test_results", "TestInterval",
    <<"60", "120", "300", "600", "900", "1800", "3600">>)
network_endpoint_scheduled_test_results_TestProbeModeResponse ==
  Strings("network_endpoint_scheduled_test_results", "TestProbeModeResponse",
    <<"auto", "sack", "syn", "syn-pcap", "syn-socket", "unknown">>)
network_endpoint_scheduled_test_results_TestProtocol ==
  Strings("network_endpoint_scheduled_test_results", "TestProtocol", <<"tcp", "icmp", "udp">>)
network_endpoint_scheduled_test_results_TestSslVersionId ==
  Strings("network_endpoint_scheduled_test_results", "TestSslVersionId",
    <<"0", "3", "4", "5", "6", "7">>)
network_endpoint_scheduled_test_results_ThresholdFilterName ==
  Strings("network_endpoint_scheduled_test_results", "ThresholdFilterName",
    <<"loss", "latency", "jitter", "cpu", "memory", "signal-quality", "application-score",
      "zta-ingress-loss", "zta-service-loss", "zta-ingress-avg-latency",
      "zta-service-avg-latency", "zta-ingress-jitter", "zta-service-jitter">>)
network_endpoint_scheduled_test_results_ThresholdFilterOperator ==
  Strings("network_endpoint_scheduled_test_results", "ThresholdFilterOperator", <<"gte", "lte">>)
network_endpoint_scheduled_test_results_UdpPathTraceModeResponse ==
  Strings("network_endpoint_scheduled_test_results", "UdpPathTraceModeResponse",
    <<"stun-pcap", "unknown">>)
network_endpoint_scheduled_test_results_VpnType ==
  Strings("network_endpoint_scheduled_test_results", "VpnType",
    <<"cisco-anyconnect", "palo-alto-globalprotect", "ivanti-connect-secure",
      "zscaler-internet-access", "f5-big-ip">>)

network_test_results_PathVisDirection ==
  Strings("network_test_results", "PathVisDirection", <<"to-target", "from-target">>)
network_test_results_TestDirection ==
  Strings("network_test_results", "TestDirection",
    <<"to-target", "from-target", "bidirectional">>)
network_test_results_TestInterval ==
  Ints("network_test_results", "TestInterval",
    <<"60", "120", "300", "600", "900", "1800", "3600">>)
network_test_results_TestType ==
  Strings("network_test_results", "TestType",
    <<"api", "agent-to-agent", "agent-to-server", "bgp", "http-server", "page-load",
      "web-transactions", "ftp-server", "dns-trace", "dns-server", "dnssec", "sip-server",
      "voice">>)

real_user_endpoint_test_results_InterfaceHardwareType ==
  Strings("real_user_endpoint_test_results", "InterfaceHardwareType",
    <<"unknown", "wireless", "ethernet", "modem", "virtual", "loopback", "other">>)
real_user_endpoint_test_results_Platform ==
  Strings("real_user_endpoint_test_results", "Platform",
    <<"windows", "roomos", "phoneos", "elux", "cisco-wireless", "cisco-wireless-cloud", "linux",
      "mac", "android", "unknown">>)
real_user_endpoint_test_results_Trigger ==
  Strings("real_user_endpoint_test_results", "Trigger", <<"auto", "user">>)

voice_rtp_server_test_results_TestInterval ==
  Ints("voice_rtp_server_test_results", "TestInterval",
    <<"60", "120", "300", "600", "900", "1800", "3600">>)
voice_rtp_server_test_results_TestType ==
  Strings("voice_rtp_server_test_results", "TestType",
    <<"api", "agent-to-agent", "agent-to-server", "bgp", "http-server", "page-load",
      "web-transactions", "ftp-server", "dns-trace", "dns-server", "dnssec", "sip-server",
      "voice">>)

voice_sip_server_test_results_SipServerErrorType ==
  Strings("voice_sip_server_test_results", "SipServerErrorType",
    <<"none", "dns", "connect", "register", "invite", "option", "server", "ssl">>)
voice_sip_server_test_results_TestInterval ==
  Ints("voice_sip_server_test_results", "TestInterval",
    <<"60", "120", "300", "600", "900", "1800", "3600">>)
voice_sip_server_test_results_TestType ==
  Strings("voice_sip_server_test_results", "TestType",
    <<"api", "agent-to-agent", "agent-to-server", "bgp", "http-server", "page-load",
      "web-transactions", "ftp-server", "dns-trace", "dns-server", "dnssec", "sip-server",
      "voice">>)

web_ftp_server_test_results_TestInterval ==
  Ints("web_ftp_server_test_results", "TestInterval",
    <<"60", "120", "300", "600", "900", "1800", "3600">>)
web_ftp_server_test_results_TestType ==
  Strings("web_ftp_server_test_results", "TestType",
    <<"api", "agent-to-agent", "agent-to-server", "bgp", "http-server", "page-load",
      "web-transactions", "ftp-server", "dns-trace", "dns-server", "dnssec", "sip-server",
      "voice">>)

web_http_server_test_results_DnsMeasurementProtocol ==
  Strings("web_http_server_test_results", "DnsMeasurementProtocol",
    <<"unspecified", "udp", "tcp", "dot", "doh">>)
web_http_server_test_results_DnsOpcode ==
  Strings("web_http_server_test_results", "DnsOpcode",
    <<"query", "iquery", "status", "unknown-3", "unknown-4", "unknown-5", "unknown-6",
      "unknown-7", "unknown-8", "unknown-9", "unknown-10", "unknown-11", "unknown-12",
      "unknown-13", "unknown-14", "unknown-15">>)
web_http_server_test_results_DnsQr ==
  Strings("web_http_server_test_results", "DnsQr", <<"query", "response">>)
web_http_server_test_results_DnsResourceRecordClass ==
  Strings("web_http_server_test_results", "DnsResourceRecordClass", <<"unknown", "in">>)
web_http_server_test_results_DnsResourceRecordType ==
  Strings("web_http_server_test_results", "DnsResourceRecordType",
    <<"unknown", "a", "cname", "aaaa">>)
web_http_server_test_results_DnsResponseCode ==
  Strings("web_http_server_test_results", "DnsResponseCode",
    <<"noerror", "formerr", "servfail", "nxdomain", "notimp", "refused", "yxdomain", "yxrrset",
      "nxrrset", "notauth", "notzone", "unknown-11", "unknown-12", "unknown-13", "unknown-14",
      "unknown-15", "badvers", "badkey", "badtime", "badmode", "badname", "badalg", "badtrunc",
      "badcookie">>)
web_http_server_test_results_TestInterval ==
  Ints("web_http_server_test_results", "TestInterval",
    <<"60", "120", "300", "600", "900", "1800", "3600">>)
web_http_server_test_results_TestType ==
  Strings("web_http_server_test_results", "TestType",
    <<"api", "agent-to-agent", "agent-to-server", "bgp", "http-server", "page-load",
      "web-transactions", "ftp-server", "dns-trace", "dns-server", "dnssec", "sip-server",
      "voice">>)

web_page_load_test_results_TestInterval ==
  Ints("web_page_load_test_results", "TestInterval",
    <<"60", "120", "300", "600", "900", "1800", "3600">>)
web_page_load_test_results_TestType ==
  Strings("web_page_load_test_results", "TestType",
    <<"api", "agent-to-agent", "agent-to-server", "bgp", "http-server", "page-load",
      "web-transactions", "ftp-server", "dns-trace", "dns-server", "dnssec", "sip-server",
      "voice">>)

web_transactions_test_results_TestInterval ==
  Ints("web_transactions_test_results", "TestInterval",
    <<"60", "120", "300", "600", "900", "1800", "3600">>)
web_transactions_test_results_TestType ==
  Strings("web_transactions_test_results", "TestType",
    <<"api", "agent-to-agent", "agent-to-server", "bgp", "http-server", "page-load",
      "web-transactions", "ftp-server", "dns-trace", "dns-server", "dnssec", "sip-server",
      "voice">>)

-----------------------------------------------------------------------------
AllResultEnumerations ==
  {api_test_results_ApiRequestStepType, api_test_results_TestInterval, api_test_results_TestType,
   dns_server_test_results_TestInterval, dns_server_test_results_TestType,
   dns_trace_test_results_TestInterval, dns_trace_test_results_TestType,
   dnssec_test_results_TestInterval, dnssec_test_results_TestType,
   http_server_endpoint_scheduled_test_results_ApplicationScoreQuality,
   http_server_endpoint_scheduled_test_results_BatteryLevel,
   http_server_endpoint_scheduled_test_results_ConditionalOperator,
   http_server_endpoint_scheduled_test_results_EndpointAgentSelectorConfigType,
   http_server_endpoint_scheduled_test_results_EndpointTestAuthType,
   http_server_endpoint_scheduled_test_results_EndpointTestProtocol,
   http_server_endpoint_scheduled_test_results_HttpEndpointTestsDataSearchSortKey,
   http_server_endpoint_scheduled_test_results_HttpErrorType,
   http_server_endpoint_scheduled_test_results_HttpThresholdFilterName,
   http_server_endpoint_scheduled_test_results_InterfaceHardwareType,
   http_server_endpoint_scheduled_test_results_Platform,
   http_server_endpoint_scheduled_test_results_SortOrder,
   http_server_endpoint_scheduled_test_results_TestInterval,
   http_server_endpoint_scheduled_test_results_TestProbeModeResponse,
   http_server_endpoint_scheduled_test_results_TestProtocol,
   http_server_endpoint_scheduled_test_results_TestSslVersionId,
   http_server_endpoint_scheduled_test_results_ThresholdFilterOperator,
   http_server_endpoint_scheduled_test_results_VpnType,
   local_network_endpoint_test_results_ApplicationScoreQuality,
   local_network_endpoint_test_results_BatteryLevel,
   local_network_endpoint_test_results_ConditionalOperator,
   local_network_endpoint_test_results_InterfaceHardwareType,
   local_network_endpoint_test_results_LocalNetworksThresholdFilterName,
   local_network_endpoint_test_results_NetworkTopologyType,
   local_network_endpoint_test_results_Platform,
   local_network_endpoint_test_results_ThresholdFilterOperator,
   network_bgp_test_results_TestInterval, network_bgp_test_results_TestType,
   network_dynamic_endpoint_test_results_ApplicationScoreQuality,
   network_dynamic_endpoint_test_results_BatteryLevel,
   network_dynamic_endpoint_test_results_ConditionalOperator,
   network_dynamic_endpoint_test_results_EndpointAgentSelectorConfigType,
   network_dynamic_endpoint_test_results_EndpointTestProtocol,
   network_dynamic_endpoint_test_results_EndpointTestResultProtocol,
   network_dynamic_endpoint_test_results_EndpointTestsDataSearchSortKey,
   network_dynamic_endpoint_test_results_EndpointZtaSegmentType,
   network_dynamic_endpoint_test_results_InterfaceHardwareType,
   network_dynamic_endpoint_test_results_Platform,
   network_dynamic_endpoint_test_results_SortOrder,
   network_dynamic_endpoint_test_results_TcpPathTraceModeResponse,
   network_dynamic_endpoint_test_results_TestInterval,
   network_dynamic_endpoint_test_results_TestProbeModeResponse,
   network_dynamic_endpoint_test_results_TestProtocol,
   network_dynamic_endpoint_test_results_ThresholdFilterName,
   network_dynamic_endpoint_test_results_ThresholdFilterOperator,
   network_dynamic_endpoint_test_results_UdpPathTraceModeResponse,
   network_dynamic_endpoint_test_results_UdpProbeModeResponse,
   network_dynamic_endpoint_test_results_VpnType,
   network_endpoint_scheduled_test_results_ApplicationScoreQuality,
   network_endpoint_scheduled_test_results_BatteryLevel,
   network_endpoint_scheduled_test_results_ConditionalOperator,
   network_endpoint_scheduled_test_results_EndpointAgentSelectorConfigType,
   network_endpoint_scheduled_test_results_EndpointScheduledTestType,
   network_endpoint_scheduled_test_results_EndpointTestAuthType,
   network_endpoint_scheduled_test_results_EndpointTestProtocol,
   network_endpoint_scheduled_test_results_EndpointTestResultProtocol,
   network_endpoint_scheduled_test_results_EndpointTestsDataSearchSortKey,
   network_endpoint_scheduled_test_results_EndpointZtaSegmentType,
   network_endpoint_scheduled_test_results_InterfaceHardwareType,
   network_endpoint_scheduled_test_results_Platform,
   network_endpoint_scheduled_test_results_SortOrder,
   network_endpoint_scheduled_test_results_TcpPathTraceModeResponse,
   network_endpoint_scheduled_test_results_TestInterval,
   network_endpoint_scheduled_test_results_TestProbeModeResponse,
   network_endpoint_scheduled_test_results_TestProtocol,
   network_endpoint_scheduled_test_results_TestSslVersionId,
   network_endpoint_scheduled_test_results_ThresholdFilterName,
   network_endpoint_scheduled_test_results_ThresholdFilterOperator,
   network_endpoint_scheduled_test_results_UdpPathTraceModeResponse,
   network_endpoint_scheduled_test_results_VpnType, network_test_results_PathVisDirection,
   network_test_results_TestDirection, network_test_results_TestInterval,
   network_test_results_TestType, real_user_endpoint_test_results_InterfaceHardwareType,
   real_user_endpoint_test_results_Platform, real_user_endpoint_test_results_Trigger,
   voice_rtp_server_test_results_TestInterval, voice_rtp_server_test_results_TestType,
   voice_sip_server_test_results_SipServerErrorType, voice_sip_server_test_results_TestInterval,
   voice_sip_server_test_results_TestType, web_ftp_server_test_results_TestInterval,
   web_ftp_server_test_results_TestType, web_http_server_test_results_DnsMeasurementProtocol,
   web_http_server_test_results_DnsOpcode, web_http_server_test_results_DnsQr,
   web_http_server_test_results_DnsResourceRecordClass,
   web_http_server_test_results_DnsResourceRecordType,
   web_http_server_test_results_DnsResponseCode, web_http_server_test_results_TestInterval,
   web_http_server_test_results_TestType, web_page_load_test_results_TestInterval,
   web_page_load_test_results_TestType, web_transactions_test_results_TestInterval,
   web_transactions_test_results_TestType}

=============================================================================
