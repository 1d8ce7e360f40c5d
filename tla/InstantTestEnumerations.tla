---------------------- MODULE InstantTestEnumerations -----------------------
(***************************************************************************)
(* The enumerations of thousandeyes/thousandeyes_api: the packages of      *)
(* instant tests.                                                          *)
(***************************************************************************)
EXTENDS OpenEnums

agent_to_agent_instant_tests_AgentToAgentTestProtocol ==
  Strings("agent_to_agent_instant_tests", "AgentToAgentTestProtocol", <<"tcp", "udp">>)
agent_to_agent_instant_tests_CloudEnterpriseAgentType ==
  Strings("agent_to_agent_instant_tests", "CloudEnterpriseAgentType",
    <<"cloud", "enterprise-cluster", "enterprise">>)
agent_to_agent_instant_tests_NetworkProviderType ==
  Strings("agent_to_agent_instant_tests", "NetworkProviderType",
    <<"unknown", "isp", "cdn", "stub", "cloud-provider", "carrier">>)
agent_to_agent_instant_tests_TestDirection ==
  Strings("agent_to_agent_instant_tests", "TestDirection",
    <<"to-target", "from-target", "bidirectional">>)
agent_to_agent_instant_tests_TestDscpId ==
  Strings("agent_to_agent_instant_tests", "TestDscpId",
    <<"0", "8", "16", "24", "32", "40", "48", "56", "10", "12", "14", "18", "20", "22", "26",
      "28", "30", "34", "36", "38", "46", "44">>)
agent_to_agent_instant_tests_TestPathTraceMode ==
  Strings("agent_to_agent_instant_tests", "TestPathTraceMode", <<"classic", "in-session">>)

agent_to_server_instant_tests_CloudEnterpriseAgentType ==
  Strings("agent_to_server_instant_tests", "CloudEnterpriseAgentType",
    <<"cloud", "enterprise-cluster", "enterprise">>)
agent_to_server_instant_tests_NetworkProviderType ==
  Strings("agent_to_server_instant_tests", "NetworkProviderType",
    <<"unknown", "isp", "cdn", "stub", "cloud-provider", "carrier">>)
agent_to_server_instant_tests_TestDscpId ==
  Strings("agent_to_server_instant_tests", "TestDscpId",
    <<"0", "8", "16", "24", "32", "40", "48", "56", "10", "12", "14", "18", "20", "22", "26",
      "28", "30", "34", "36", "38", "46", "44">>)
agent_to_server_instant_tests_TestIpv6Policy ==
  Strings("agent_to_server_instant_tests", "TestIpv6Policy",
    <<"force-ipv4", "prefer-ipv6", "force-ipv6", "use-agent-policy">>)
agent_to_server_instant_tests_TestPathTraceMode ==
  Strings("agent_to_server_instant_tests", "TestPathTraceMode", <<"classic", "in-session">>)
agent_to_server_instant_tests_TestProbeMode ==
  Strings("agent_to_server_instant_tests", "TestProbeMode", <<"auto", "sack", "syn">>)
agent_to_server_instant_tests_TestProtocol ==
  Strings("agent_to_server_instant_tests", "TestProtocol", <<"tcp", "icmp", "udp">>)

api_instant_tests_ApiClientAuthentication ==
  Strings("api_instant_tests", "ApiClientAuthentication", <<"basic-auth-header", "in-body">>)
api_instant_tests_ApiRequestAssertionName ==
  Strings("api_instant_tests", "ApiRequestAssertionName", <<"status-code", "response-body">>)
api_instant_tests_ApiRequestAssertionOperator ==
  Strings("api_instant_tests", "ApiRequestAssertionOperator",
    <<"is", "is-not", "includes", "not-includes", "matches", "not-matches">>)
api_instant_tests_ApiRequestAuthType ==
  Strings("api_instant_tests", "ApiRequestAuthType",
    <<"none", "basic", "bearer-token", "oauth2">>)
api_instant_tests_ApiRequestMethod ==
  Strings("api_instant_tests", "ApiRequestMethod", <<"get", "post", "put", "delete", "patch">>)
api_instant_tests_CloudEnterpriseAgentType ==
  Strings("api_instant_tests", "CloudEnterpriseAgentType",
    <<"cloud", "enterprise-cluster", "enterprise">>)
api_instant_tests_NetworkProviderType ==
  Strings("api_instant_tests", "NetworkProviderType",
    <<"unknown", "isp", "cdn", "stub", "cloud-provider", "carrier">>)
api_instant_tests_TestPathTraceMode ==
  Strings("api_instant_tests", "TestPathTraceMode", <<"classic", "in-session">>)
api_instant_tests_TestProbeMode ==
  Strings("api_instant_tests", "TestProbeMode", <<"auto", "sack", "syn">>)
api_instant_tests_TestProtocol ==
  Strings("api_instant_tests", "TestProtocol", <<"tcp", "icmp", "udp">>)
api_instant_tests_TestSslVersionId ==
  Strings("api_instant_tests", "TestSslVersionId", <<"0", "3", "4", "5", "6", "7">>)
api_instant_tests_TestVaultCredentialTarget ==
  Strings("api_instant_tests", "TestVaultCredentialTarget", <<"username", "password", "script">>)

dns_server_instant_tests_CloudEnterpriseAgentType ==
  Strings("dns_server_instant_tests", "CloudEnterpriseAgentType",
    <<"cloud", "enterprise-cluster", "enterprise">>)
dns_server_instant_tests_DnsQueryClass ==
  Strings("dns_server_instant_tests", "DnsQueryClass", <<"in", "ch">>)
dns_server_instant_tests_NetworkProviderType ==
  Strings("dns_server_instant_tests", "NetworkProviderType",
    <<"unknown", "isp", "cdn", "stub", "cloud-provider", "carrier">>)
dns_server_instant_tests_TestDnsTransportProtocol ==
  Strings("dns_server_instant_tests", "TestDnsTransportProtocol", <<"udp", "tcp">>)
dns_server_instant_tests_TestIpv6Policy ==
  Strings("dns_server_instant_tests", "TestIpv6Policy",
    <<"force-ipv4", "prefer-ipv6", "force-ipv6", "use-agent-policy">>)
dns_server_instant_tests_TestPathTraceMode ==
  Strings("dns_server_instant_tests", "TestPathTraceMode", <<"classic", "in-session">>)
dns_server_instant_tests_TestProbeMode ==
  Strings("dns_server_instant_tests", "TestProbeMode", <<"auto", "sack", "syn">>)
dns_server_instant_tests_TestProtocol ==
  Strings("dns_server_instant_tests", "TestProtocol", <<"tcp", "icmp", "udp">>)

dns_trace_instant_tests_CloudEnterpriseAgentType ==
  Strings("dns_trace_instant_tests", "CloudEnterpriseAgentType",
    <<"cloud", "enterprise-cluster", "enterprise">>)
dns_trace_instant_tests_DnsQueryClass ==
  Strings("dns_trace_instant_tests", "DnsQueryClass", <<"in", "ch">>)
dns_trace_instant_tests_NetworkProviderType ==
  Strings("dns_trace_instant_tests", "NetworkProviderType",
    <<"unknown", "isp", "cdn", "stub", "cloud-provider", "carrier">>)
dns_trace_instant_tests_TestDnsTransportProtocol ==
  Strings("dns_trace_instant_tests", "TestDnsTransportProtocol", <<"udp", "tcp">>)

dnssec_instant_tests_CloudEnterpriseAgentType ==
  Strings("dnssec_instant_tests", "CloudEnterpriseAgentType",
    <<"cloud", "enterprise-cluster", "enterprise">>)
dnssec_instant_tests_DnsQueryClass ==
  Strings("dnssec_instant_tests", "DnsQueryClass", <<"in", "ch">>)
dnssec_instant_tests_NetworkProviderType ==
  Strings("dnssec_instant_tests", "NetworkProviderType",
    <<"unknown", "isp", "cdn", "stub", "cloud-provider", "carrier">>)

ftp_server_instant_tests_CloudEnterpriseAgentType ==
  Strings("ftp_server_instant_tests", "CloudEnterpriseAgentType",
    <<"cloud", "enterprise-cluster", "enterprise">>)
ftp_server_instant_tests_FtpServerRequestType ==
  Strings("ftp_server_instant_tests", "FtpServerRequestType", <<"download", "upload", "list">>)
ftp_server_instant_tests_NetworkProviderType ==
  Strings("ftp_server_instant_tests", "NetworkProviderType",
    <<"unknown", "isp", "cdn", "stub", "cloud-provider", "carrier">>)
ftp_server_instant_tests_TestIpv6Policy ==
  Strings("ftp_server_instant_tests", "TestIpv6Policy",
    <<"force-ipv4", "prefer-ipv6", "force-ipv6", "use-agent-policy">>)
ftp_server_instant_tests_TestPathTraceMode ==
  Strings("ftp_server_instant_tests", "TestPathTraceMode", <<"classic", "in-session">>)
ftp_server_instant_tests_TestProbeMode ==
  Strings("ftp_server_instant_tests", "TestProbeMode", <<"auto", "sack", "syn">>)
ftp_server_instant_tests_TestProtocol ==
  Strings("ftp_server_instant_tests", "TestProtocol", <<"tcp", "icmp", "udp">>)

http_page_load_instant_tests_CloudEnterpriseAgentType ==
  Strings("http_page_load_instant_tests", "CloudEnterpriseAgentType",
    <<"cloud", "enterprise-cluster", "enterprise">>)
http_page_load_instant_tests_NetworkProviderType ==
  Strings("http_page_load_instant_tests", "NetworkProviderType",
    <<"unknown", "isp", "cdn", "stub", "cloud-provider", "carrier">>)
http_page_load_instant_tests_OAuthAuthType ==
  Strings("http_page_load_instant_tests", "OAuthAuthType", <<"none", "basic", "ntlm">>)
http_page_load_instant_tests_RequestMethod ==
  Strings("http_page_load_instant_tests", "RequestMethod", <<"get", "post">>)
http_page_load_instant_tests_TestAuthType ==
  Strings("http_page_load_instant_tests", "TestAuthType",
    <<"none", "basic", "ntlm", "kerberos", "oauth">>)
http_page_load_instant_tests_TestChromiumTrack ==
  Strings("http_page_load_instant_tests", "TestChromiumTrack", <<"stable", "latest">>)
http_page_load_instant_tests_TestPageLoadingStrategy ==
  Strings("http_page_load_instant_tests", "TestPageLoadingStrategy",
    <<"normal", "eager", "none">>)
http_page_load_instant_tests_TestPathTraceMode ==
  Strings("http_page_load_instant_tests", "TestPathTraceMode", <<"classic", "in-session">>)
http_page_load_instant_tests_TestProbeMode ==
  Strings("http_page_load_instant_tests", "TestProbeMode", <<"auto", "sack", "syn">>)
http_page_load_instant_tests_TestProtocol ==
  Strings("http_page_load_instant_tests", "TestProtocol", <<"tcp", "icmp", "udp">>)
http_page_load_instant_tests_TestSslVersionId ==
  Strings("http_page_load_instant_tests", "TestSslVersionId", <<"0", "3", "4", "5", "6", "7">>)
http_page_load_instant_tests_TestVaultCredentialTarget ==
  Strings("http_page_load_instant_tests", "TestVaultCredentialTarget",
    <<"username", "password", "script">>)

http_server_instant_tests_CloudEnterpriseAgentType ==
  Strings("http_server_instant_tests", "CloudEnterpriseAgentType",
    <<"cloud", "enterprise-cluster", "enterprise">>)
http_server_instant_tests_NetworkProviderType ==
  Strings("http_server_instant_tests", "NetworkProviderType",
    <<"unknown", "isp", "cdn", "stub", "cloud-provider", "carrier">>)
http_server_instant_tests_OAuthAuthType ==
  Strings("http_server_instant_tests", "OAuthAuthType", <<"none", "basic", "ntlm">>)
http_server_instant_tests_RequestMethod ==
  Strings("http_server_instant_tests", "RequestMethod", <<"get", "post">>)
http_server_instant_tests_TestAuthType ==
  Strings("http_server_instant_tests", "TestAuthType",
    <<"none", "basic", "ntlm", "kerberos", "oauth">>)
http_server_instant_tests_TestIpv6Policy ==
  Strings("http_server_instant_tests", "TestIpv6Policy",
    <<"force-ipv4", "prefer-ipv6", "force-ipv6", "use-agent-policy">>)
http_server_instant_tests_TestPathTraceMode ==
  Strings("http_server_instant_tests", "TestPathTraceMode", <<"classic", "in-session">>)
http_server_instant_tests_TestProbeMode ==
  Strings("http_server_instant_tests", "TestProbeMode", <<"auto", "sack", "syn">>)
http_server_instant_tests_TestProtocol ==
  Strings("http_server_instant_tests", "TestProtocol", <<"tcp", "icmp", "udp">>)
http_server_instant_tests_TestSslVersionId ==
  Strings("http_server_instant_tests", "TestSslVersionId", <<"0", "3", "4", "5", "6", "7">>)
http_server_instant_tests_TestVaultCredentialTarget ==
  Strings("http_server_instant_tests", "TestVaultCredentialTarget",
    <<"username", "password", "script">>)

sip_server_instant_tests_CloudEnterpriseAgentType ==
  Strings("sip_server_instant_tests", "CloudEnterpriseAgentType",
    <<"cloud", "enterprise-cluster", "enterprise">>)
sip_server_instant_tests_NetworkProviderType ==
  Strings("sip_server_instant_tests", "NetworkProviderType",
    <<"unknown", "isp", "cdn", "stub", "cloud-provider", "carrier">>)
sip_server_instant_tests_SipTestProtocol ==
  Strings("sip_server_instant_tests", "SipTestProtocol", <<"tcp", "tls", "udp">>)
sip_server_instant_tests_TestIpv6Policy ==
  Strings("sip_server_instant_tests", "TestIpv6Policy",
    <<"force-ipv4", "prefer-ipv6", "force-ipv6", "use-agent-policy">>)
sip_server_instant_tests_TestPathTraceMode ==
  Strings("sip_server_instant_tests", "TestPathTraceMode", <<"classic", "in-session">>)
sip_server_instant_tests_TestProbeMode ==
  Strings("sip_server_instant_tests", "TestProbeMode", <<"auto", "sack", "syn">>)

voice_instant_tests_CloudEnterpriseAgentType ==
  Strings("voice_instant_tests", "CloudEnterpriseAgentType",
    <<"cloud", "enterprise-cluster", "enterprise">>)
voice_instant_tests_NetworkProviderType ==
  Strings("voice_instant_tests", "NetworkProviderType",
    <<"unknown", "isp", "cdn", "stub", "cloud-provider", "carrier">>)
voice_instant_tests_TestDscpId ==
  Strings("voice_instant_tests", "TestDscpId",
    <<"0", "8", "16", "24", "32", "40", "48", "56", "10", "12", "14", "18", "20", "22", "26",
      "28", "30", "34", "36", "38", "46", "44">>)

web_transaction_instant_tests_CloudEnterpriseAgentType ==
  Strings("web_transaction_instant_tests", "CloudEnterpriseAgentType",
    <<"cloud", "enterprise-cluster", "enterprise">>)
web_transaction_instant_tests_NetworkProviderType ==
  Strings("web_transaction_instant_tests", "NetworkProviderType",
    <<"unknown", "isp", "cdn", "stub", "cloud-provider", "carrier">>)
web_transaction_instant_tests_OAuthAuthType ==
  Strings("web_transaction_instant_tests", "OAuthAuthType", <<"none", "basic", "ntlm">>)
web_transaction_instant_tests_RequestMethod ==
  Strings("web_transaction_instant_tests", "RequestMethod", <<"get", "post">>)
web_transaction_instant_tests_TestAuthType ==
  Strings("web_transaction_instant_tests", "TestAuthType",
    <<"none", "basic", "ntlm", "kerberos", "oauth">>)
web_transaction_instant_tests_TestChromiumTrack ==
  Strings("web_transaction_instant_tests", "TestChromiumTrack", <<"stable", "latest">>)
web_transaction_instant_tests_TestPageLoadingStrategy ==
  Strings("web_transaction_instant_tests", "TestPageLoadingStrategy",
    <<"normal", "eager", "none">>)
web_transaction_instant_tests_TestPathTraceMode ==
  Strings("web_transaction_instant_tests", "TestPathTraceMode", <<"classic", "in-session">>)
web_transaction_instant_tests_TestProbeMode ==
  Strings("web_transaction_instant_tests", "TestProbeMode", <<"auto", "sack", "syn">>)
web_transaction_instant_tests_TestProtocol ==
  Strings("web_transaction_instant_tests", "TestProtocol", <<"tcp", "icmp", "udp">>)
web_transaction_instant_tests_TestSslVersionId ==
  Strings("web_transaction_instant_tests", "TestSslVersionId", <<"0", "3", "4", "5", "6", "7">>)
web_transaction_instant_tests_TestVaultCredentialTarget ==
  Strings("web_transaction_instant_tests", "TestVaultCredentialTarget",
    <<"username", "password", "script">>)

-----------------------------------------------------------------------------
AllInstantTestEnumerations ==
  {agent_to_agent_instant_tests_AgentToAgentTestProtocol,
   agent_to_agent_instant_tests_CloudEnterpriseAgentType,
   agent_to_agent_instant_tests_NetworkProviderType, agent_to_agent_instant_tests_TestDirection,
   agent_to_agent_instant_tests_TestDscpId, agent_to_agent_instant_tests_TestPathTraceMode,
   agent_to_server_instant_tests_CloudEnterpriseAgentType,
   agent_to_server_instant_tests_NetworkProviderType, agent_to_server_instant_tests_TestDscpId,
   agent_to_server_instant_tests_TestIpv6Policy, agent_to_server_instant_tests_TestPathTraceMode,
   agent_to_server_instant_tests_TestProbeMode, agent_to_server_instant_tests_TestProtocol,
   api_instant_tests_ApiClientAuthentication, api_instant_tests_ApiRequestAssertionName,
   api_instant_tests_ApiRequestAssertionOperator, api_instant_tests_ApiRequestAuthType,
   api_instant_tests_ApiRequestMethod, api_instant_tests_CloudEnterpriseAgentType,
   api_instant_tests_NetworkProviderType, api_instant_tests_TestPathTraceMode,
   api_instant_tests_TestProbeMode, api_instant_tests_TestProtocol,
   api_instant_tests_TestSslVersionId, api_instant_tests_TestVaultCredentialTarget,
   dns_server_instant_tests_CloudEnterpriseAgentType, dns_server_instant_tests_DnsQueryClass,
   dns_server_instant_tests_NetworkProviderType,
   dns_server_instant_tests_TestDnsTransportProtocol, dns_server_instant_tests_TestIpv6Policy,
   dns_server_instant_tests_TestPathTraceMode, dns_server_instant_tests_TestProbeMode,
   dns_server_instant_tests_TestProtocol, dns_trace_instant_tests_CloudEnterpriseAgentType,
   dns_trace_instant_tests_DnsQueryClass, dns_trace_instant_tests_NetworkProviderType,
   dns_trace_instant_tests_TestDnsTransportProtocol,
   dnssec_instant_tests_CloudEnterpriseAgentType, dnssec_instant_tests_DnsQueryClass,
   dnssec_instant_tests_NetworkProviderType, ftp_server_instant_tests_CloudEnterpriseAgentType,
   ftp_server_instant_tests_FtpServerRequestType, ftp_server_instant_tests_NetworkProviderType,
   ftp_server_instant_tests_TestIpv6Policy, ftp_server_instant_tests_TestPathTraceMode,
   ftp_server_instant_tests_TestProbeMode, ftp_server_instant_tests_TestProtocol,
   http_page_load_instant_tests_CloudEnterpriseAgentType,
   http_page_load_instant_tests_NetworkProviderType, http_page_load_instant_tests_OAuthAuthType,
   http_page_load_instant_tests_RequestMethod, http_page_load_instant_tests_TestAuthType,
   http_page_load_instant_tests_TestChromiumTrack,
   http_page_load_instant_tests_TestPageLoadingStrategy,
   http_page_load_instant_tests_TestPathTraceMode, http_page_load_instant_tests_TestProbeMode,
   http_page_load_instant_tests_TestProtocol, http_page_load_instant_tests_TestSslVersionId,
   http_page_load_instant_tests_TestVaultCredentialTarget,
   http_server_instant_tests_CloudEnterpriseAgentType,
   http_server_instant_tests_NetworkProviderType, http_server_instant_tests_OAuthAuthType,
   http_server_instant_tests_RequestMethod, http_server_instant_tests_TestAuthType,
   http_server_instant_tests_TestIpv6Policy, http_server_instant_tests_TestPathTraceMode,
   http_server_instant_tests_TestProbeMode, http_server_instant_tests_TestProtocol,
   http_server_instant_tests_TestSslVersionId,
   http_server_instant_tests_TestVaultCredentialTarget,
   sip_server_instant_tests_CloudEnterpriseAgentType,
   sip_server_instant_tests_NetworkProviderType, sip_server_instant_tests_SipTestProtocol,
   sip_server_instant_tests_TestIpv6Policy, sip_server_instant_tests_TestPathTraceMode,
   sip_server_instant_tests_TestProbeMode, voice_instant_tests_CloudEnterpriseAgentType,
   voice_instant_tests_NetworkProviderType, voice_instant_tests_TestDscpId,
   web_transaction_instant_tests_CloudEnterpriseAgentType,
   web_transaction_instant_tests_NetworkProviderType, web_transaction_instant_tests_OAuthAuthType,
   web_transaction_instant_tests_RequestMethod, web_transaction_instant_tests_TestAuthType,
   web_transaction_instant_tests_TestChromiumTrack,
   web_transaction_instant_tests_TestPageLoadingStrategy,
   web_transaction_instant_tests_TestPathTraceMode, web_transaction_instant_tests_TestProbeMode,
   web_transaction_instant_tests_TestProtocol, web_transaction_instant_tests_TestSslVersionId,
   web_transaction_instant_tests_TestVaultCredentialTarget}

=============================================================================
