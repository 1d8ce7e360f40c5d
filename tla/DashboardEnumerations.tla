----------------------- MODULE DashboardEnumerations ------------------------
(***************************************************************************)
(* The enumerations of thousandeyes/thousandeyes_api: the packages of      *)
(* dashboards, their snapshots, and templates.                             *)
(***************************************************************************)
EXTENDS OpenEnums

dashboard_snapshots_AgentStatusDatasource ==
  Strings("dashboard_snapshots", "AgentStatusDatasource",
    <<"ALERTS", "DEVICES", "DNSP", "ENDPOINT_AGENTS", "ENDPOINT_SCHEDULED_TEST",
      "ENDPOINT_AST_TEST", "ENDPOINT_BROWSER_SESSION", "ENDPOINT_LOCAL_NETWORK",
      "ENDPOINT_LOCAL_NETWORK_WIRELESS", "ROUTING", "CLOUD_AND_ENTERPRISE_AGENTS",
      "INTERNET_INSIGHTS", "APPDYNAMICS_SERVICE_HEALTH", "CLOUD_NATIVE_MONITORING",
      "TRAFFIC_INSIGHTS_MONITORING">>)
dashboard_snapshots_AlertListAlertType ==
  Strings("dashboard_snapshots", "AlertListAlertType",
    <<"network-end-to-end-server", "network-end-to-end-agent", "network-path-trace", "dns-server",
      "dns-trace", "dnssec", "dns-plus-domain", "dns-plus-server", "web-http-server",
      "web-page-load", "web-transaction-classic", "web-transaction", "api", "web-ftp-server",
      "voice-sip-server", "voice-rtp-stream", "device", "device-interface",
      "endpoint-end-to-end-server", "endpoint-web-http-server", "endpoint-path-trace",
      "browser-session-agent", "browser-session-application", "routing-bgp">>)
dashboard_snapshots_AlertListDatasource ==
  Strings("dashboard_snapshots", "AlertListDatasource",
    <<"ALERTS", "DEVICES", "DNSP", "ENDPOINT_AGENTS", "ENDPOINT_SCHEDULED_TEST",
      "ENDPOINT_AST_TEST", "ENDPOINT_BROWSER_SESSION", "ENDPOINT_LOCAL_NETWORK",
      "ENDPOINT_LOCAL_NETWORK_WIRELESS", "ROUTING", "CLOUD_AND_ENTERPRISE_AGENTS",
      "INTERNET_INSIGHTS", "APPDYNAMICS_SERVICE_HEALTH", "CLOUD_NATIVE_MONITORING",
      "TRAFFIC_INSIGHTS_MONITORING">>)
dashboard_snapshots_ApiAggregateProperty ==
  Strings("dashboard_snapshots", "ApiAggregateProperty",
    <<"TIME", "NONE", "ALL", "SOURCE", "AGENT", "MONITOR", "CONTINENT", "COUNTRY", "REGION",
      "TARGET_AGENT", "SOURCE_AND_TARGET_AGENT", "TEST", "SERVER", "TEST_LABEL", "TEST_TAG",
      "AGENT_LABEL", "AGENT_TAG", "TRANSACTION_STEP", "TRANSACTION_PAGE",
      "WEB_TRANSACTION_MARKER", "WEB_TRANSACTION_MARKER_INTERNAL", "WEB_TRANSACTION_PAGE",
      "WEB_TRANSACTION_PAGE_INTERNAL", "EYEBROW_MACHINE_ID", "EYEBROW_CLIENT_ID", "EYEBROW_HOST",
      "EYEBROW_NETWORK_ID", "EYEBROW_WHOIS_RANGE_ID", "EYEBROW_PLATFORM", "EYEBROW_CONNECTION",
      "EYEBROW_GEONAME_ID", "EYEBROW_LABEL", "EYEBROW_DOMAIN", "EYEBROW_TEST",
      "EYEBROW_AGENT_TYPE", "EYEBROW_TARGET_IP", "EYEBROW_NET_TARGET_IP",
      "ENDPOINT_CELLULAR_CARRIER_NAME", "ENDPOINT_CELLULAR_NETWORK_GEN",
      "ENDPOINT_CELLULAR_NETWORK_SUBTYPE", "EYEBROW_GATEWAY", "EYEBROW_SSID", "SSID",
      "EYEBROW_BSSID", "BSSID", "EYEBROW_VPN_VENDOR", "EYEBROW_VPN_GATEWAY",
      "EYEBROW_PROXY_ADDRESS", "EYEBROW_NETWORK_PROBE_DNS_SERVER",
      "EYEBROW_DESTINATION_IP_ADDRESS", "EYEBROW_SESSION_ERRORS", "EYEBROW_ASN",
      "DEVICE_INTERFACE", "DEVICE", "DEVICE_CLASS", "DEVICE_INTERFACE_TYPE",
      "INSIGHTS_CATALOG_PROVIDER", "INSIGHTS_ASN", "ASN", "INSIGHTS_LOCATION",
      "INSIGHTS_AFFECTED_TEST", "INSIGHTS_AFFECTED_DOMAIN",
      "INSIGHTS_AFFECTED_INTERFACE_LOCATION", "INSIGHTS_AFFECTED_INTERFACE_IP",
      "INSIGHTS_DESTINATION_LOCATION", "INSIGHTS_DESTINATION_ASN", "INSIGHTS_DESTINATION_PREFIX",
      "INSIGHTS_APPLICATION", "INSIGHTS_ERROR_TYPE", "INSIGHTS_AFFECTED_DOMAIN_LOCATION",
      "INSIGHTS_AFFECTED_SERVER_LOCATION", "APPDYNAMICS_APPLICATION", "APPDYNAMICS_SERVICE",
      "DOMAIN", "EYEBROW_ORG_NAME", "EYEBROW_USER", "EYEBROW_AGENT", "EYEBROW_AGENT_TAG",
      "EYEBROW_COMPUTER_NAME", "CLOUD_NATIVE_MONITORING-ALL", "CLOUD_NATIVE_MONITORING-ACCOUNT",
      "CLOUD_NATIVE_MONITORING-REGION", "CLOUD_NATIVE_MONITORING-AVAILABILITY_ZONE",
      "CLOUD_NATIVE_MONITORING-VPC", "CLOUD_NATIVE_MONITORING-SUBNET",
      "CLOUD_NATIVE_MONITORING-TYPE", "CLOUD_NATIVE_MONITORING-SERVICE_PROVIDER",
      "CLOUD_NATIVE_MONITORING-REMOTE_ACCOUNT", "CLOUD_NATIVE_MONITORING-REMOTE_REGION",
      "CLOUD_NATIVE_MONITORING-REMOTE_AVAILABILITY_ZONE", "CLOUD_NATIVE_MONITORING-REMOTE_VPC",
      "CLOUD_NATIVE_MONITORING-REMOTE_SUBNET", "CLOUD_NATIVE_MONITORING-REMOTE_TYPE",
      "CLOUD_NATIVE_MONITORING-REMOTE_SERVICE_PROVIDER", "TRAFFIC_INSIGHTS_MONITORING-ALL",
      "TRAFFIC_INSIGHTS_MONITORING-GEOLOC", "TRAFFIC_INSIGHTS_MONITORING-DEVICE",
      "TRAFFIC_INSIGHTS_MONITORING-DEVICE_IFNAME", "TRAFFIC_INSIGHTS_MONITORING-APPLICATION">>)
dashboard_snapshots_ApiWidgetFixedYScalePrefix ==
  Strings("dashboard_snapshots", "ApiWidgetFixedYScalePrefix",
    <<"Kbps", "Mbps", "Gbps", "Kbitps", "Mbitps", "Gbitps", "Kpps", "Mpps", "Gpps">>)
dashboard_snapshots_ApiWidgetType ==
  Strings("dashboard_snapshots", "ApiWidgetType",
    <<"Agent Status", "Alert List", "Bar Chart: Grouped", "Bar Chart: Stacked",
      "Box and Whiskers", "Color Grid", "Heatmap", "List", "Map", "Multi Metric Table", "Number",
      "Pie Chart", "Table", "Test Table", "Time Series: Line", "Time Series: Stacked Area">>)
dashboard_snapshots_AswRepeat ==
  Strings("dashboard_snapshots", "AswRepeat",
    <<"none", "every-day", "alt-every-day", "every-week", "every-two-week", "every-month",
      "every-three-month", "custom">>)
dashboard_snapshots_AswRepeatUnit ==
  Strings("dashboard_snapshots", "AswRepeatUnit", <<"day", "week", "month">>)
dashboard_snapshots_BoxAndWhiskersDatasource ==
  Strings("dashboard_snapshots", "BoxAndWhiskersDatasource",
    <<"ALERTS", "CLOUD_AND_ENTERPRISE_AGENTS", "DEVICES", "ENDPOINT_AGENTS", "ENDPOINT_AST_TEST",
      "ENDPOINT_BROWSER_SESSION", "ENDPOINT_LOCAL_NETWORK", "ENDPOINT_LOCAL_NETWORK_WIRELESS",
      "ENDPOINT_SCHEDULED_TEST", "INTERNET_INSIGHTS", "ROUTING", "CLOUD_NATIVE_MONITORING",
      "TRAFFIC_INSIGHTS_MONITORING">>)
dashboard_snapshots_ColorGridDatasource ==
  Strings("dashboard_snapshots", "ColorGridDatasource",
    <<"THIRD_PARTY_APPLICATIONS", "ALERTS", "CLOUD_AND_ENTERPRISE_AGENTS", "DEVICES",
      "ENDPOINT_AGENTS", "ENDPOINT_AST_TEST", "ENDPOINT_BROWSER_SESSION",
      "ENDPOINT_LOCAL_NETWORK", "ENDPOINT_LOCAL_NETWORK_WIRELESS", "ENDPOINT_SCHEDULED_TEST",
      "INTERNET_INSIGHTS", "ROUTING", "CLOUD_NATIVE_MONITORING", "TRAFFIC_INSIGHTS_MONITORING">>)
dashboard_snapshots_DashboardLayoutType ==
  Strings("dashboard_snapshots", "DashboardLayoutType", <<"grid", "vertical">>)
dashboard_snapshots_DashboardMetric ==
  Strings("dashboard_snapshots", "DashboardMetric",
    <<"ONE_WAY_NET_LOSS_TO_TARGET", "ONE_WAY_NET_LATENCY_TO_TARGET",
      "ONE_WAY_NET_JITTER_TO_TARGET", "ONE_WAY_NET_THROUGHPUT_TO_TARGET",
      "ONE_WAY_NET_ERROR_TO_TARGET", "ONE_WAY_NET_LOSS_FROM_TARGET",
      "ONE_WAY_NET_LATENCY_FROM_TARGET", "ONE_WAY_NET_JITTER_FROM_TARGET",
      "ONE_WAY_NET_THROUGHPUT_FROM_TARGET", "ONE_WAY_NET_ERROR_FROM_TARGET",
      "ONE_WAY_NET_LOSS_BIDIRECTIONAL", "ONE_WAY_NET_LATENCY_BIDIRECTIONAL",
      "ONE_WAY_NET_JITTER_BIDIRECTIONAL", "ONE_WAY_NET_THROUGHPUT_BIDIRECTIONAL",
      "ONE_WAY_NET_ERROR_BIDIRECTIONAL", "NET_LOSS", "NET_LATENCY", "NET_JITTER", "NET_BANDWIDTH",
      "NET_CAPACITY", "PROXY_NET_LOSS", "PROXY_NET_LATENCY", "PROXY_NET_JITTER",
      "WEB_AVAILABILITY", "WEB_THROUGHPUT", "WEB_DNS", "WEB_CONNECT", "WEB_SSL", "WEB_WAIT",
      "WEB_TTFB", "WEB_RECEIVE", "WEB_REDIRECT", "WEB_FETCH", "WEB_AUTHENTICATION_ERROR_COUNT",
      "WEB_DNS_ERROR_COUNT", "WEB_CONNECT_ERROR_COUNT", "WEB_SSL_ERROR_COUNT",
      "WEB_SEND_ERROR_COUNT", "WEB_RECEIVE_ERROR_COUNT", "WEB_HTTP_ERROR_COUNT",
      "WEB_CONTENT_ERROR_COUNT", "WEB_TOTAL_ERROR_COUNT", "FTP_AVAILABILITY", "FTP_THROUGHPUT",
      "FTP_DNS", "FTP_CONNECT", "FTP_SSL", "FTP_NEGOTIATION", "FTP_WAIT", "FTP_TTFB",
      "FTP_TRANSFER", "FTP_TOTAL", "FTP_DNS_ERROR_COUNT", "FTP_CONNECT_ERROR_COUNT",
      "FTP_SSL_ERROR_COUNT", "FTP_NEGOTIATION_ERROR_COUNT", "FTP_TRANSFER_ERROR_COUNT",
      "FTP_FTP_ERROR_COUNT", "FTP_CONTENT_ERROR_COUNT", "FTP_TOTAL_ERROR_COUNT",
      "WEB_PAGE_LOAD_DOM_TIME", "WEB_PAGE_LOAD", "WEB_PAGE_TTFB", "WEB_PAGE_COMPONENT_COUNT",
      "WEB_PAGE_ERROR_COUNT", "WEB_PAGE_LOAD_COMPLETION_RATE", "CLASSIC_TRANSACTION_TIME",
      "CLASSIC_TRANSACTION_COMPLETION", "CLASSIC_TRANSACTION_STEP_TIME",
      "CLASSIC_TRANSACTION_PAGE_TIME", "TRANSACTION_MARKER_TIME_DECOMPOSED",
      "TRANSACTION_PAGE_LOAD_TIME_DECOMPOSED", "TRANSACTION_PAGE_TIME_DECOMPOSED",
      "TRANSACTION_PAGE_LOAD_DOM_TIME_DECOMPOSED", "TRANSACTION_TIME", "TRANSACTION_TIMEOUT",
      "TRANSACTION_ASSERT_ERROR", "TRANSACTION_OTHER_ERROR", "TRANSACTION_PAGE_ERROR",
      "TRANSACTION_COMPLETION", "TRANSACTION_ERROR", "TRANSACTION_MARKER_TIME",
      "TRANSACTION_PAGE_TIME", "TRANSACTION_PAGE_LOAD_TIME", "TRANSACTION_PAGE_LOAD_DOM_TIME",
      "API_TRANSACTION_TIME", "API_REQUEST_CALL_TIME", "API_REQUEST_DNS_TIME",
      "API_REQUEST_CONNECT_TIME", "API_REQUEST_SSL_TIME", "API_REQUEST_SEND_TIME",
      "API_REQUEST_WAIT_TIME", "API_REQUEST_BLOCK_TIME", "API_REQUEST_RECEIVE_TIME",
      "API_REQUEST_ASSERT_ERROR_COUNT", "API_REQUEST_COMPLETION", "API_REQUEST_OTHER_ERROR_COUNT",
      "VOIP_DISCARDS", "VOIP_LATENCY", "VOIP_LOSS", "VOIP_MOS", "VOIP_PDV", "SIP_AVAILABILITY",
      "SIP_DNS", "SIP_CONNECT", "SIP_REDIRECT", "SIP_REGISTER", "SIP_OPTIONS", "SIP_INVITE",
      "SIP_WAIT", "SIP_RESPONSE_TIME", "SIP_TOTAL_TIME", "SIP_DNS_ERROR_COUNT",
      "SIP_CONNECT_ERROR_COUNT", "SIP_REGISTER_ERROR_COUNT", "SIP_OPTIONS_ERROR_COUNT",
      "SIP_INVITE_ERROR_COUNT", "SIP_TOTAL_ERROR_COUNT", "DNS_SERVER_AVAILABILITY",
      "DNS_SERVER_TIME", "DNS_TRACE_AVAILABILITY", "DNS_TRACE_QUERY_COUNT",
      "DNS_TRACE_QUERY_TIME", "DNSSEC_VALIDITY", "DNSP_AVAILABILITY", "DNSP_TIME",
      "DNSP_SERVER_TIME", "BGP_REACHABILITY", "BGP_PATH_CHANGES", "ALERT_COUNT",
      "ALERT_COUNT_AGENT", "ALERT_COUNT_BGP", "ALERT_COUNT_DNSP", "ENDPOINT_SAMPLE_COUNT",
      "ENDPOINT_NET_LOSS", "ENDPOINT_NET_LATENCY", "ENDPOINT_NET_JITTER",
      "ENDPOINT_NET_CONNECT_FAILURES", "ENDPOINT_NET_CPU_LOAD_PERCENT",
      "ENDPOINT_NET_MEMORY_LOAD_PERCENT", "ENDPOINT_NET_VPN_LOSS", "ENDPOINT_NET_VPN_LATENCY",
      "ENDPOINT_PAGE_COUNT", "ENDPOINT_WEB_COMPLETION", "ENDPOINT_WEB_RESPONSE_TIME",
      "ENDPOINT_WEB_PAGE_LOAD", "ENDPOINT_WEB_PAGE_LOAD_DOM_TIME",
      "ENDPOINT_WEB_EXPERIENCE_SCORE", "ENDPOINT_WEB_BROWSER_ERROR_COUNT",
      "ENDPOINT_GATEWAY_PROBE_COUNT", "ENDPOINT_GATEWAY_COMBINED_TRANSMISSION_RATE",
      "ENDPOINT_GATEWAY_SIGNAL_QUALITY", "ENDPOINT_GATEWAY_LOSS", "ENDPOINT_GATEWAY_LATENCY",
      "ENDPOINT_GATEWAY_AGENT_SCORE", "ENDPOINT_GATEWAY_SCORE",
      "ENDPOINT_GATEWAY_CONNECTION_SCORE", "ENDPOINT_GATEWAY_PROXY_LOSS",
      "ENDPOINT_GATEWAY_PROXY_LATENCY", "ENDPOINT_GATEWAY_PROXY_SCORE",
      "ENDPOINT_GATEWAY_VPN_LOSS", "ENDPOINT_GATEWAY_VPN_LATENCY", "ENDPOINT_GATEWAY_VPN_SCORE",
      "ENDPOINT_GATEWAY_DNS_LOSS", "ENDPOINT_GATEWAY_DNS_LATENCY", "ENDPOINT_GATEWAY_DNS_TIME",
      "ENDPOINT_GATEWAY_CPU_LOAD_PERCENT", "ENDPOINT_GATEWAY_MEMORY_LOAD_PERCENT",
      "EYEBROW_GATEWAY_WIRELESS_CHANNEL_SWAP_EVENTS",
      "EYEBROW_GATEWAY_WIRELESS_RETRANSMISSION_RATE", "EYEBROW_GATEWAY_WIRELESS_ROAMING_EVENTS",
      "EYEBROW_GATEWAY_WIRELESS_SIGNAL_QUALITY", "EYEBROW_GATEWAY_WIRELESS_THROUGHPUT",
      "ENDPOINT_CELLULAR_RSSI", "ENDPOINT_CELLULAR_RSRP", "ENDPOINT_CELLULAR_RSRQ",
      "ENDPOINT_CELLULAR_SINR", "ENDPOINT_AST_TEST_NET_LOSS", "ENDPOINT_AST_TEST_NET_JITTER",
      "ENDPOINT_AST_TEST_NET_LATENCY", "ENDPOINT_AST_TEST_NET_CPU_LOAD_PERCENT",
      "ENDPOINT_AST_TEST_NET_MEMORY_LOAD_PERCENT", "ENDPOINT_AST_TEST_VPN_LOSS",
      "ENDPOINT_AST_TEST_VPN_LATENCY", "ENDPOINT_AST_TEST_TCP_CONNECTION_ERROR_COUNT",
      "ENDPOINT_AST_TEST_APPLICATION_SCORE", "ENDPOINT_GATEWAY_WIRELESS_CHANNEL_SWAP_EVENTS",
      "ENDPOINT_GATEWAY_WIRELESS_RETRANSMISSION_RATE", "ENDPOINT_GATEWAY_WIRELESS_ROAMING_EVENTS",
      "ENDPOINT_GATEWAY_WIRELESS_SIGNAL_QUALITY", "ENDPOINT_GATEWAY_WIRELESS_THROUGHPUT",
      "ENDPOINT_TEST_NET_LOSS", "ENDPOINT_TEST_NET_JITTER", "ENDPOINT_TEST_NET_LATENCY",
      "ENDPOINT_TEST_NET_CPU_LOAD_PERCENT", "ENDPOINT_TEST_NET_MEMORY_LOAD_PERCENT",
      "ENDPOINT_TEST_VPN_LOSS", "ENDPOINT_TEST_VPN_LATENCY",
      "ENDPOINT_TEST_TCP_CONNECTION_ERROR_COUNT", "ENDPOINT_TEST_APPLICATION_SCORE",
      "ENDPOINT_TEST_HTTP_AVAILABILITY", "ENDPOINT_TEST_HTTP_WAIT", "ENDPOINT_TEST_HTTP_SSL",
      "ENDPOINT_TEST_HTTP_CONNECT", "ENDPOINT_TEST_HTTP_DNS_LOOKUP",
      "ENDPOINT_TEST_HTTP_RESPONSE_TIME", "ENDPOINT_TEST_HTTP_THROUGHPUT",
      "ENDPOINT_TEST_HTTP_APPLICATION_SCORE", "DEVICE_AVAILABILITY", "DEVICE_THROUGHPUT_INPUT",
      "DEVICE_THROUGHPUT_OUTPUT", "DEVICE_DISCARDS_INPUT", "DEVICE_DISCARDS_OUTPUT",
      "DEVICE_ERRORS_INPUT", "DEVICE_ERRORS_OUTPUT", "DEVICE_DISCARDS_AND_ERRORS_INPUT",
      "DEVICE_DISCARDS_AND_ERRORS_OUTPUT", "DEVICE_INTERFACES_UP",
      "DEVICE_INTERFACES_WITH_STATE_CHANGES", "NETWORK_OUTAGES_OUTAGES",
      "NETWORK_OUTAGES_LOCATIONS", "NETWORK_OUTAGES_INTERFACES", "NETWORK_OUTAGES_AFFECTED_TESTS",
      "APPLICATION_OUTAGES_AFFECTED_TESTS", "APPLICATION_OUTAGES_SERVERS",
      "APPLICATION_OUTAGES_LOCATIONS", "APPLICATION_OUTAGES_OUTAGES",
      "APPDYNAMICS_SERVICE_HEALTH", "CLOUD_NATIVE_MONITORING-ACCEPTED_TOTAL_THROUGHPUT",
      "CLOUD_NATIVE_MONITORING-ACCEPTED_OUTBOUND_THROUGHPUT",
      "CLOUD_NATIVE_MONITORING-ACCEPTED_INBOUND_THROUGHPUT",
      "CLOUD_NATIVE_MONITORING-ACCEPTED_INTERNAL_THROUGHPUT",
      "CLOUD_NATIVE_MONITORING-REJECTED_TOTAL_THROUGHPUT",
      "CLOUD_NATIVE_MONITORING-REJECTED_OUTBOUND_THROUGHPUT",
      "CLOUD_NATIVE_MONITORING-REJECTED_INBOUND_THROUGHPUT",
      "CLOUD_NATIVE_MONITORING-REJECTED_INTERNAL_THROUGHPUT",
      "CLOUD_NATIVE_MONITORING-TOTAL_CONNECTION_RATE", "CLOUD_NATIVE_MONITORING-CONNECTION_RATE",
      "CLOUD_NATIVE_MONITORING-INTERNAL_CONNECTION_RATE", "CLOUD_NATIVE_MONITORING-ALL_EVENTS",
      "CLOUD_NATIVE_MONITORING-CONFIGURATION_CHANGE_EVENTS",
      "CLOUD_NATIVE_MONITORING-AUTOSCALING_EVENTS",
      "TRAFFIC_INSIGHTS_MONITORING-TOTAL_THROUGHPUT",
      "TRAFFIC_INSIGHTS_MONITORING-DOWNSTREAM_THROUGHPUT",
      "TRAFFIC_INSIGHTS_MONITORING-UPSTREAM_THROUGHPUT",
      "TRAFFIC_INSIGHTS_MONITORING-CONNECTION_RATE">>)
dashboard_snapshots_DashboardMetricDirection ==
  Strings("dashboard_snapshots", "DashboardMetricDirection",
    <<"TO_TARGET", "FROM_TARGET", "BIDIRECTIONAL">>)
dashboard_snapshots_EnterpriseAgentState ==
  Strings("dashboard_snapshots", "EnterpriseAgentState", <<"online", "offline", "disabled">>)
dashboard_snapshots_GeoMapDatasource ==
  Strings("dashboard_snapshots", "GeoMapDatasource",
    <<"ALERTS", "CLOUD_AND_ENTERPRISE_AGENTS", "ENDPOINT_AGENTS", "ENDPOINT_AST_TEST",
      "ENDPOINT_BROWSER_SESSION", "ENDPOINT_LOCAL_NETWORK", "ENDPOINT_LOCAL_NETWORK_WIRELESS",
      "ENDPOINT_SCHEDULED_TEST", "INTERNET_INSIGHTS", "ROUTING", "CLOUD_NATIVE_MONITORING",
      "TRAFFIC_INSIGHTS_MONITORING">>)
dashboard_snapshots_GroupedBarChartDatasource ==
  Strings("dashboard_snapshots", "GroupedBarChartDatasource",
    <<"ALERTS", "CLOUD_AND_ENTERPRISE_AGENTS", "DEVICES", "ENDPOINT_AGENTS", "ENDPOINT_AST_TEST",
      "ENDPOINT_BROWSER_SESSION", "ENDPOINT_LOCAL_NETWORK", "ENDPOINT_LOCAL_NETWORK_WIRELESS",
      "ENDPOINT_SCHEDULED_TEST", "INTERNET_INSIGHTS", "ROUTING", "CLOUD_NATIVE_MONITORING",
      "TRAFFIC_INSIGHTS_MONITORING">>)
dashboard_snapshots_HeatmapDatasource ==
  Strings("dashboard_snapshots", "HeatmapDatasource",
    <<"ALERTS", "CLOUD_AND_ENTERPRISE_AGENTS", "DEVICES", "ENDPOINT_AGENTS", "ENDPOINT_AST_TEST",
      "ENDPOINT_BROWSER_SESSION", "ENDPOINT_LOCAL_NETWORK", "ENDPOINT_LOCAL_NETWORK_WIRELESS",
      "ENDPOINT_SCHEDULED_TEST", "INTERNET_INSIGHTS", "ROUTING", "CLOUD_NATIVE_MONITORING",
      "TRAFFIC_INSIGHTS_MONITORING">>)
dashboard_snapshots_LegacyAgentWidgetShow ==
  Strings("dashboard_snapshots", "LegacyAgentWidgetShow",
    <<"Owned Agents", "All Assigned Agents">>)
dashboard_snapshots_LegacyAgentWidgetType ==
  Strings("dashboard_snapshots", "LegacyAgentWidgetType",
    <<"Enterprise Agents", "Endpoint Agents">>)
dashboard_snapshots_LegacyAlertListAlertType ==
  Strings("dashboard_snapshots", "LegacyAlertListAlertType",
    <<"Network - End-to-End (Server)", "Network - End-to-End (Agent)", "Network - Path Trace",
      "DNS Server", "DNS Trace", "DNSSEC", "DNS+ Domain", "DNS+ Server", "Web - HTTP Server",
      "Web - Page Load", "Web - Transaction (Classic)", "Web - Transaction", "API",
      "Web - FTP Server", "Voice - SIP Server", "Voice - RTP Stream", "Device",
      "Device Interface", "Endpoint - End-to-End (Server)", "EndpointWeb - HTTP Server",
      "Endpoint - Path Trace", "Browser Sessions - Agent", "Browser Sessions - Application",
      "Routing - BGP">>)
dashboard_snapshots_LegacyDurationUnit ==
  Strings("dashboard_snapshots", "LegacyDurationUnit", <<"Minutes", "Hours", "Days">>)
dashboard_snapshots_LegacyWidgetSortDirection ==
  Strings("dashboard_snapshots", "LegacyWidgetSortDirection", <<"Ascending", "Descending">>)
dashboard_snapshots_LegacyWidgetSortProperty ==
  Strings("dashboard_snapshots", "LegacyWidgetSortProperty", <<"Alphabetical", "Value">>)
dashboard_snapshots_ListDatasource ==
  Strings("dashboard_snapshots", "ListDatasource", <<"EVENT_DETECTION">>)
dashboard_snapshots_MetricGroup ==
  Strings("dashboard_snapshots", "MetricGroup",
    <<"AGENT_TO_AGENT", "AGENT_TO_SERVER", "HTTP_SERVER", "FTP_SERVER", "PAGE_LOAD",
      "TRANSACTIONS_CLASSIC", "TRANSACTIONS", "API", "ENDPOINT_BROWSER_SESSION_NETWORK",
      "ENDPOINT_BROWSER_SESSION_SYSTEM", "ENDPOINT_BROWSER_SESSION_VISITED_PAGES",
      "ENDPOINT_SCHEDULED_TEST_HTTP_SERVER", "ENDPOINT_SCHEDULED_TEST_NETWORK",
      "ENDPOINT_SCHEDULED_TEST_SYSTEM", "ENDPOINT_AST_TEST_NETWORK", "ENDPOINT_AST_TEST_SYSTEM",
      "ENDPOINT_LOCAL_NETWORK_GATEWAY", "ENDPOINT_LOCAL_NETWORK_AGENTS",
      "ENDPOINT_LOCAL_NETWORK_DNS", "ENDPOINT_LOCAL_NETWORK_NETWORK_ACCESS",
      "ENDPOINT_LOCAL_NETWORK_PROXY", "ENDPOINT_LOCAL_NETWORK_SYSTEM",
      "ENDPOINT_LOCAL_NETWORK_VPN", "ENDPOINT_LOCAL_NETWORK_WIRELESS",
      "ENDPOINT_LOCAL_NETWORK_CELLULAR", "BGP", "DEVICE", "VOIP", "SIP", "ALERTS", "DNS",
      "DOMAIN_TRACE", "DNSSEC", "DNSP", "NETWORK_OUTAGES", "APPLICATION_OUTAGES",
      "APPDYNAMICS_SERVICE_HEALTH", "CLOUD_NATIVE_MONITORING-TRAFFIC_FLOW",
      "CLOUD_NATIVE_MONITORING-EVENTS", "TRAFFIC_INSIGHTS_MONITORING-TRAFFIC_FLOW">>)
dashboard_snapshots_MultiMetricsTableDatasource ==
  Strings("dashboard_snapshots", "MultiMetricsTableDatasource",
    <<"ALERTS", "CLOUD_AND_ENTERPRISE_AGENTS", "DEVICES", "ENDPOINT_AGENTS", "ENDPOINT_AST_TEST",
      "ENDPOINT_BROWSER_SESSION", "ENDPOINT_LOCAL_NETWORK", "ENDPOINT_LOCAL_NETWORK_WIRELESS",
      "ENDPOINT_SCHEDULED_TEST", "INTERNET_INSIGHTS", "ROUTING", "CLOUD_NATIVE_MONITORING",
      "TRAFFIC_INSIGHTS_MONITORING">>)
dashboard_snapshots_NumbersCardDatasource ==
  Strings("dashboard_snapshots", "NumbersCardDatasource",
    <<"ALERTS", "CLOUD_AND_ENTERPRISE_AGENTS", "DEVICES", "ENDPOINT_AGENTS", "ENDPOINT_AST_TEST",
      "ENDPOINT_BROWSER_SESSION", "ENDPOINT_LOCAL_NETWORK", "ENDPOINT_LOCAL_NETWORK_WIRELESS",
      "ENDPOINT_SCHEDULED_TEST", "INTERNET_INSIGHTS", "ROUTING", "CLOUD_NATIVE_MONITORING",
      "TRAFFIC_INSIGHTS_MONITORING">>)
dashboard_snapshots_PieChartDatasource ==
  Strings("dashboard_snapshots", "PieChartDatasource",
    <<"CLOUD_AND_ENTERPRISE_AGENTS", "ENDPOINT_AGENTS", "ENDPOINT_BROWSER_SESSION",
      "ENDPOINT_SCHEDULED_TEST", "CLOUD_NATIVE_MONITORING", "TRAFFIC_INSIGHTS_MONITORING">>)
dashboard_snapshots_RefreshRate ==
  Strings("dashboard_snapshots", "RefreshRate", <<"off", "2m", "5m", "10m", "15m", "30m", "60m">>)
dashboard_snapshots_StackedAreaChartDatasource ==
  Strings("dashboard_snapshots", "StackedAreaChartDatasource",
    <<"CLOUD_AND_ENTERPRISE_AGENTS", "ENDPOINT_AGENTS", "ENDPOINT_BROWSER_SESSION",
      "ENDPOINT_SCHEDULED_TEST", "CLOUD_NATIVE_MONITORING", "TRAFFIC_INSIGHTS_MONITORING">>)
dashboard_snapshots_StackedBarChartDatasource ==
  Strings("dashboard_snapshots", "StackedBarChartDatasource",
    <<"CLOUD_AND_ENTERPRISE_AGENTS", "ENDPOINT_AGENTS", "ENDPOINT_BROWSER_SESSION",
      "ENDPOINT_SCHEDULED_TEST", "CLOUD_NATIVE_MONITORING", "TRAFFIC_INSIGHTS_MONITORING">>)
dashboard_snapshots_TableDatasource ==
  Strings("dashboard_snapshots", "TableDatasource",
    <<"ALERTS", "CLOUD_AND_ENTERPRISE_AGENTS", "DEVICES", "ENDPOINT_AGENTS", "ENDPOINT_AST_TEST",
      "ENDPOINT_BROWSER_SESSION", "ENDPOINT_LOCAL_NETWORK", "ENDPOINT_LOCAL_NETWORK_WIRELESS",
      "ENDPOINT_SCHEDULED_TEST", "INTERNET_INSIGHTS", "ROUTING", "CLOUD_NATIVE_MONITORING",
      "TRAFFIC_INSIGHTS_MONITORING">>)
dashboard_snapshots_TestTableDatasource ==
  Strings("dashboard_snapshots", "TestTableDatasource",
    <<"ALERTS", "DEVICES", "DNSP", "ENDPOINT_AGENTS", "ENDPOINT_SCHEDULED_TEST",
      "ENDPOINT_AST_TEST", "ENDPOINT_BROWSER_SESSION", "ENDPOINT_LOCAL_NETWORK",
      "ENDPOINT_LOCAL_NETWORK_WIRELESS", "ROUTING", "CLOUD_AND_ENTERPRISE_AGENTS",
      "INTERNET_INSIGHTS", "APPDYNAMICS_SERVICE_HEALTH", "CLOUD_NATIVE_MONITORING",
      "TRAFFIC_INSIGHTS_MONITORING">>)
dashboard_snapshots_TestTableFilterKey ==
  Strings("dashboard_snapshots", "TestTableFilterKey",
    <<"Anything", "Test Name", "Target", "Test ID", "Test type", "Label ID", "Tag ID">>)
dashboard_snapshots_TestTableFilterType ==
  Strings("dashboard_snapshots", "TestTableFilterType", <<"all", "any">>)
dashboard_snapshots_TimeseriesDatasource ==
  Strings("dashboard_snapshots", "TimeseriesDatasource",
    <<"ALERTS", "CLOUD_AND_ENTERPRISE_AGENTS", "DEVICES", "ENDPOINT_AGENTS", "ENDPOINT_AST_TEST",
      "ENDPOINT_BROWSER_SESSION", "ENDPOINT_LOCAL_NETWORK", "ENDPOINT_LOCAL_NETWORK_WIRELESS",
      "ENDPOINT_SCHEDULED_TEST", "INTERNET_INSIGHTS", "ROUTING", "CLOUD_NATIVE_MONITORING",
      "TRAFFIC_INSIGHTS_MONITORING">>)
dashboard_snapshots_VisualMode ==
  Strings("dashboard_snapshots", "VisualMode", <<"Full", "Half screen">>)
dashboard_snapshots_WidgetMeasureType ==
  Strings("dashboard_snapshots", "WidgetMeasureType",
    <<"MINIMUM", "MAXIMUM", "MEAN", "MEDIAN", "NTH_PERCENTILE", "PERCPOSITIVE", "PERCZERO",
      "STDDEV", "TOTAL", "VALUES", "SUM", "CLOUD_NATIVE_MONITORING-MEAN",
      "CLOUD_NATIVE_MONITORING-SUM", "TRAFFIC_INSIGHTS_MONITORING-SUM",
      "TRAFFIC_INSIGHTS_MONITORING-MEAN">>)

dashboards_AgentStatusDatasource ==
  Strings("dashboards", "AgentStatusDatasource",
    <<"ALERTS", "DEVICES", "DNSP", "ENDPOINT_AGENTS", "ENDPOINT_SCHEDULED_TEST",
      "ENDPOINT_AST_TEST", "ENDPOINT_BROWSER_SESSION", "ENDPOINT_LOCAL_NETWORK",
      "ENDPOINT_LOCAL_NETWORK_WIRELESS", "ROUTING", "CLOUD_AND_ENTERPRISE_AGENTS",
      "INTERNET_INSIGHTS", "APPDYNAMICS_SERVICE_HEALTH", "CLOUD_NATIVE_MONITORING",
      "TRAFFIC_INSIGHTS_MONITORING">>)
dashboards_AlertListAlertType ==
  Strings("dashboards", "AlertListAlertType",
    <<"network-end-to-end-server", "network-end-to-end-agent", "network-path-trace", "dns-server",
      "dns-trace", "dnssec", "dns-plus-domain", "dns-plus-server", "web-http-server",
      "web-page-load", "web-transaction-classic", "web-transaction", "api", "web-ftp-server",
      "voice-sip-server", "voice-rtp-stream", "device", "device-interface",
      "endpoint-end-to-end-server", "endpoint-web-http-server", "endpoint-path-trace",
      "browser-session-agent", "browser-session-application", "routing-bgp">>)
dashboards_AlertListDatasource ==
  Strings("dashboards", "AlertListDatasource",
    <<"ALERTS", "DEVICES", "DNSP", "ENDPOINT_AGENTS", "ENDPOINT_SCHEDULED_TEST",
      "ENDPOINT_AST_TEST", "ENDPOINT_BROWSER_SESSION", "ENDPOINT_LOCAL_NETWORK",
      "ENDPOINT_LOCAL_NETWORK_WIRELESS", "ROUTING", "CLOUD_AND_ENTERPRISE_AGENTS",
      "INTERNET_INSIGHTS", "APPDYNAMICS_SERVICE_HEALTH", "CLOUD_NATIVE_MONITORING",
      "TRAFFIC_INSIGHTS_MONITORING">>)
dashboards_ApiAggregateProperty ==
  Strings("dashboards", "ApiAggregateProperty",
    <<"TIME", "NONE", "ALL", "SOURCE", "AGENT", "MONITOR", "CONTINENT", "COUNTRY", "REGION",
      "TARGET_AGENT", "SOURCE_AND_TARGET_AGENT", "TEST", "SERVER", "TEST_LABEL", "TEST_TAG",
      "AGENT_LABEL", "AGENT_TAG", "TRANSACTION_STEP", "TRANSACTION_PAGE",
      "WEB_TRANSACTION_MARKER", "WEB_TRANSACTION_MARKER_INTERNAL", "WEB_TRANSACTION_PAGE",
      "WEB_TRANSACTION_PAGE_INTERNAL", "EYEBROW_MACHINE_ID", "EYEBROW_CLIENT_ID", "EYEBROW_HOST",
      "EYEBROW_NETWORK_ID", "EYEBROW_WHOIS_RANGE_ID", "EYEBROW_PLATFORM", "EYEBROW_CONNECTION",
      "EYEBROW_GEONAME_ID", "EYEBROW_LABEL", "EYEBROW_DOMAIN", "EYEBROW_TEST",
      "EYEBROW_AGENT_TYPE", "EYEBROW_TARGET_IP", "EYEBROW_NET_TARGET_IP",
      "ENDPOINT_CELLULAR_CARRIER_NAME", "ENDPOINT_CELLULAR_NETWORK_GEN",
      "ENDPOINT_CELLULAR_NETWORK_SUBTYPE", "EYEBROW_GATEWAY", "EYEBROW_SSID", "SSID",
      "EYEBROW_BSSID", "BSSID", "EYEBROW_VPN_VENDOR", "EYEBROW_VPN_GATEWAY",
      "EYEBROW_PROXY_ADDRESS", "EYEBROW_NETWORK_PROBE_DNS_SERVER",
      "EYEBROW_DESTINATION_IP_ADDRESS", "EYEBROW_SESSION_ERRORS", "EYEBROW_ASN",
      "DEVICE_INTERFACE", "DEVICE", "DEVICE_CLASS", "DEVICE_INTERFACE_TYPE",
      "INSIGHTS_CATALOG_PROVIDER", "INSIGHTS_ASN", "ASN", "INSIGHTS_LOCATION",
      "INSIGHTS_AFFECTED_TEST", "INSIGHTS_AFFECTED_DOMAIN",
      "INSIGHTS_AFFECTED_INTERFACE_LOCATION", "INSIGHTS_AFFECTED_INTERFACE_IP",
      "INSIGHTS_DESTINATION_LOCATION", "INSIGHTS_DESTINATION_ASN", "INSIGHTS_DESTINATION_PREFIX",
      "INSIGHTS_APPLICATION", "INSIGHTS_ERROR_TYPE", "INSIGHTS_AFFECTED_DOMAIN_LOCATION",
      "INSIGHTS_AFFECTED_SERVER_LOCATION", "APPDYNAMICS_APPLICATION", "APPDYNAMICS_SERVICE",
      "DOMAIN", "EYEBROW_ORG_NAME", "EYEBROW_USER", "EYEBROW_AGENT", "EYEBROW_AGENT_TAG",
      "EYEBROW_COMPUTER_NAME", "CLOUD_NATIVE_MONITORING-ALL", "CLOUD_NATIVE_MONITORING-ACCOUNT",
      "CLOUD_NATIVE_MONITORING-REGION", "CLOUD_NATIVE_MONITORING-AVAILABILITY_ZONE",
      "CLOUD_NATIVE_MONITORING-VPC", "CLOUD_NATIVE_MONITORING-SUBNET",
      "CLOUD_NATIVE_MONITORING-TYPE", "CLOUD_NATIVE_MONITORING-SERVICE_PROVIDER",
      "CLOUD_NATIVE_MONITORING-REMOTE_ACCOUNT", "CLOUD_NATIVE_MONITORING-REMOTE_REGION",
      "CLOUD_NATIVE_MONITORING-REMOTE_AVAILABILITY_ZONE", "CLOUD_NATIVE_MONITORING-REMOTE_VPC",
      "CLOUD_NATIVE_MONITORING-REMOTE_SUBNET", "CLOUD_NATIVE_MONITORING-REMOTE_TYPE",
      "CLOUD_NATIVE_MONITORING-REMOTE_SERVICE_PROVIDER", "TRAFFIC_INSIGHTS_MONITORING-ALL",
      "TRAFFIC_INSIGHTS_MONITORING-GEOLOC", "TRAFFIC_INSIGHTS_MONITORING-DEVICE",
      "TRAFFIC_INSIGHTS_MONITORING-DEVICE_IFNAME", "TRAFFIC_INSIGHTS_MONITORING-APPLICATION">>)
dashboards_ApiWidgetFixedYScalePrefix ==
  Strings("dashboards", "ApiWidgetFixedYScalePrefix",
    <<"Kbps", "Mbps", "Gbps", "Kbitps", "Mbitps", "Gbitps", "Kpps", "Mpps", "Gpps">>)
dashboards_ApiWidgetType ==
  Strings("dashboards", "ApiWidgetType",
    <<"Agent Status", "Alert List", "Bar Chart: Grouped", "Bar Chart: Stacked",
      "Box and Whiskers", "Color Grid", "Heatmap", "List", "Map", "Multi Metric Table", "Number",
      "Pie Chart", "Table", "Test Table", "Time Series: Line", "Time Series: Stacked Area">>)
dashboards_AswRepeat ==
  Strings("dashboards", "AswRepeat",
    <<"none", "every-day", "alt-every-day", "every-week", "every-two-week", "every-month",
      "every-three-month", "custom">>)
dashboards_AswRepeatUnit == Strings("dashboards", "AswRepeatUnit", <<"day", "week", "month">>)
dashboards_BoxAndWhiskersDatasource ==
  Strings("dashboards", "BoxAndWhiskersDatasource",
    <<"ALERTS", "CLOUD_AND_ENTERPRISE_AGENTS", "DEVICES", "ENDPOINT_AGENTS", "ENDPOINT_AST_TEST",
      "ENDPOINT_BROWSER_SESSION", "ENDPOINT_LOCAL_NETWORK", "ENDPOINT_LOCAL_NETWORK_WIRELESS",
      "ENDPOINT_SCHEDULED_TEST", "INTERNET_INSIGHTS", "ROUTING", "CLOUD_NATIVE_MONITORING",
      "TRAFFIC_INSIGHTS_MONITORING">>)
dashboards_ColorGridDatasource ==
  Strings("dashboards", "ColorGridDatasource",
    <<"THIRD_PARTY_APPLICATIONS", "ALERTS", "CLOUD_AND_ENTERPRISE_AGENTS", "DEVICES",
      "ENDPOINT_AGENTS", "ENDPOINT_AST_TEST", "ENDPOINT_BROWSER_SESSION",
      "ENDPOINT_LOCAL_NETWORK", "ENDPOINT_LOCAL_NETWORK_WIRELESS", "ENDPOINT_SCHEDULED_TEST",
      "INTERNET_INSIGHTS", "ROUTING", "CLOUD_NATIVE_MONITORING", "TRAFFIC_INSIGHTS_MONITORING">>)
dashboards_DashboardLayoutType ==
  Strings("dashboards", "DashboardLayoutType", <<"grid", "vertical">>)
dashboards_DashboardMetric ==
  Strings("dashboards", "DashboardMetric",
    <<"ONE_WAY_NET_LOSS_TO_TARGET", "ONE_WAY_NET_LATENCY_TO_TARGET",
      "ONE_WAY_NET_JITTER_TO_TARGET", "ONE_WAY_NET_THROUGHPUT_TO_TARGET",
      "ONE_WAY_NET_ERROR_TO_TARGET", "ONE_WAY_NET_LOSS_FROM_TARGET",
      "ONE_WAY_NET_LATENCY_FROM_TARGET", "ONE_WAY_NET_JITTER_FROM_TARGET",
      "ONE_WAY_NET_THROUGHPUT_FROM_TARGET", "ONE_WAY_NET_ERROR_FROM_TARGET",
      "ONE_WAY_NET_LOSS_BIDIRECTIONAL", "ONE_WAY_NET_LATENCY_BIDIRECTIONAL",
      "ONE_WAY_NET_JITTER_BIDIRECTIONAL", "ONE_WAY_NET_THROUGHPUT_BIDIRECTIONAL",
      "ONE_WAY_NET_ERROR_BIDIRECTIONAL", "NET_LOSS", "NET_LATENCY", "NET_JITTER", "NET_BANDWIDTH",
      "NET_CAPACITY", "PROXY_NET_LOSS", "PROXY_NET_LATENCY", "PROXY_NET_JITTER",
      "WEB_AVAILABILITY", "WEB_THROUGHPUT", "WEB_DNS", "WEB_CONNECT", "WEB_SSL", "WEB_WAIT",
      "WEB_TTFB", "WEB_RECEIVE", "WEB_REDIRECT", "WEB_FETCH", "WEB_AUTHENTICATION_ERROR_COUNT",
      "WEB_DNS_ERROR_COUNT", "WEB_CONNECT_ERROR_COUNT", "WEB_SSL_ERROR_COUNT",
      "WEB_SEND_ERROR_COUNT", "WEB_RECEIVE_ERROR_COUNT", "WEB_HTTP_ERROR_COUNT",
      "WEB_CONTENT_ERROR_COUNT", "WEB_TOTAL_ERROR_COUNT", "FTP_AVAILABILITY", "FTP_THROUGHPUT",
      "FTP_DNS", "FTP_CONNECT", "FTP_SSL", "FTP_NEGOTIATION", "FTP_WAIT", "FTP_TTFB",
      "FTP_TRANSFER", "FTP_TOTAL", "FTP_DNS_ERROR_COUNT", "FTP_CONNECT_ERROR_COUNT",
      "FTP_SSL_ERROR_COUNT", "FTP_NEGOTIATION_ERROR_COUNT", "FTP_TRANSFER_ERROR_COUNT",
      "FTP_FTP_ERROR_COUNT", "FTP_CONTENT_ERROR_COUNT", "FTP_TOTAL_ERROR_COUNT",
      "WEB_PAGE_LOAD_DOM_TIME", "WEB_PAGE_LOAD", "WEB_PAGE_TTFB", "WEB_PAGE_COMPONENT_COUNT",
      "WEB_PAGE_ERROR_COUNT", "WEB_PAGE_LOAD_COMPLETION_RATE", "CLASSIC_TRANSACTION_TIME",
      "CLASSIC_TRANSACTION_COMPLETION", "CLASSIC_TRANSACTION_STEP_TIME",
      "CLASSIC_TRANSACTION_PAGE_TIME", "TRANSACTION_MARKER_TIME_DECOMPOSED",
      "TRANSACTION_PAGE_LOAD_TIME_DECOMPOSED", "TRANSACTION_PAGE_TIME_DECOMPOSED",
      "TRANSACTION_PAGE_LOAD_DOM_TIME_DECOMPOSED", "TRANSACTION_TIME", "TRANSACTION_TIMEOUT",
      "TRANSACTION_ASSERT_ERROR", "TRANSACTION_OTHER_ERROR", "TRANSACTION_PAGE_ERROR",
      "TRANSACTION_COMPLETION", "TRANSACTION_ERROR", "TRANSACTION_MARKER_TIME",
      "TRANSACTION_PAGE_TIME", "TRANSACTION_PAGE_LOAD_TIME", "TRANSACTION_PAGE_LOAD_DOM_TIME",
      "API_TRANSACTION_TIME", "API_REQUEST_CALL_TIME", "API_REQUEST_DNS_TIME",
      "API_REQUEST_CONNECT_TIME", "API_REQUEST_SSL_TIME", "API_REQUEST_SEND_TIME",
      "API_REQUEST_WAIT_TIME", "API_REQUEST_BLOCK_TIME", "API_REQUEST_RECEIVE_TIME",
      "API_REQUEST_ASSERT_ERROR_COUNT", "API_REQUEST_COMPLETION", "API_REQUEST_OTHER_ERROR_COUNT",
      "VOIP_DISCARDS", "VOIP_LATENCY", "VOIP_LOSS", "VOIP_MOS", "VOIP_PDV", "SIP_AVAILABILITY",
      "SIP_DNS", "SIP_CONNECT", "SIP_REDIRECT", "SIP_REGISTER", "SIP_OPTIONS", "SIP_INVITE",
      "SIP_WAIT", "SIP_RESPONSE_TIME", "SIP_TOTAL_TIME", "SIP_DNS_ERROR_COUNT",
      "SIP_CONNECT_ERROR_COUNT", "SIP_REGISTER_ERROR_COUNT", "SIP_OPTIONS_ERROR_COUNT",
      "SIP_INVITE_ERROR_COUNT", "SIP_TOTAL_ERROR_COUNT", "DNS_SERVER_AVAILABILITY",
      "DNS_SERVER_TIME", "DNS_TRACE_AVAILABILITY", "DNS_TRACE_QUERY_COUNT",
      "DNS_TRACE_QUERY_TIME", "DNSSEC_VALIDITY", "DNSP_AVAILABILITY", "DNSP_TIME",
      "DNSP_SERVER_TIME", "BGP_REACHABILITY", "BGP_PATH_CHANGES", "ALERT_COUNT",
      "ALERT_COUNT_AGENT", "ALERT_COUNT_BGP", "ALERT_COUNT_DNSP", "ENDPOINT_SAMPLE_COUNT",
      "ENDPOINT_NET_LOSS", "ENDPOINT_NET_LATENCY", "ENDPOINT_NET_JITTER",
      "ENDPOINT_NET_CONNECT_FAILURES", "ENDPOINT_NET_CPU_LOAD_PERCENT",
      "ENDPOINT_NET_MEMORY_LOAD_PERCENT", "ENDPOINT_NET_VPN_LOSS", "ENDPOINT_NET_VPN_LATENCY",
      "ENDPOINT_PAGE_COUNT", "ENDPOINT_WEB_COMPLETION", "ENDPOINT_WEB_RESPONSE_TIME",
      "ENDPOINT_WEB_PAGE_LOAD", "ENDPOINT_WEB_PAGE_LOAD_DOM_TIME",
      "ENDPOINT_WEB_EXPERIENCE_SCORE", "ENDPOINT_WEB_BROWSER_ERROR_COUNT",
      "ENDPOINT_GATEWAY_PROBE_COUNT", "ENDPOINT_GATEWAY_COMBINED_TRANSMISSION_RATE",
      "ENDPOINT_GATEWAY_SIGNAL_QUALITY", "ENDPOINT_GATEWAY_LOSS", "ENDPOINT_GATEWAY_LATENCY",
      "ENDPOINT_GATEWAY_AGENT_SCORE", "ENDPOINT_GATEWAY_SCORE",
      "ENDPOINT_GATEWAY_CONNECTION_SCORE", "ENDPOINT_GATEWAY_PROXY_LOSS",
      "ENDPOINT_GATEWAY_PROXY_LATENCY", "ENDPOINT_GATEWAY_PROXY_SCORE",
      "ENDPOINT_GATEWAY_VPN_LOSS", "ENDPOINT_GATEWAY_VPN_LATENCY", "ENDPOINT_GATEWAY_VPN_SCORE",
      "ENDPOINT_GATEWAY_DNS_LOSS", "ENDPOINT_GATEWAY_DNS_LATENCY", "ENDPOINT_GATEWAY_DNS_TIME",
      "ENDPOINT_GATEWAY_CPU_LOAD_PERCENT", "ENDPOINT_GATEWAY_MEMORY_LOAD_PERCENT",
      "EYEBROW_GATEWAY_WIRELESS_CHANNEL_SWAP_EVENTS",
      "EYEBROW_GATEWAY_WIRELESS_RETRANSMISSION_RATE", "EYEBROW_GATEWAY_WIRELESS_ROAMING_EVENTS",
      "EYEBROW_GATEWAY_WIRELESS_SIGNAL_QUALITY", "EYEBROW_GATEWAY_WIRELESS_THROUGHPUT",
      "ENDPOINT_CELLULAR_RSSI", "ENDPOINT_CELLULAR_RSRP", "ENDPOINT_CELLULAR_RSRQ",
      "ENDPOINT_CELLULAR_SINR", "ENDPOINT_AST_TEST_NET_LOSS", "ENDPOINT_AST_TEST_NET_JITTER",
      "ENDPOINT_AST_TEST_NET_LATENCY", "ENDPOINT_AST_TEST_NET_CPU_LOAD_PERCENT",
      "ENDPOINT_AST_TEST_NET_MEMORY_LOAD_PERCENT", "ENDPOINT_AST_TEST_VPN_LOSS",
      "ENDPOINT_AST_TEST_VPN_LATENCY", "ENDPOINT_AST_TEST_TCP_CONNECTION_ERROR_COUNT",
      "ENDPOINT_AST_TEST_APPLICATION_SCORE", "ENDPOINT_GATEWAY_WIRELESS_CHANNEL_SWAP_EVENTS",
      "ENDPOINT_GATEWAY_WIRELESS_RETRANSMISSION_RATE", "ENDPOINT_GATEWAY_WIRELESS_ROAMING_EVENTS",
      "ENDPOINT_GATEWAY_WIRELESS_SIGNAL_QUALITY", "ENDPOINT_GATEWAY_WIRELESS_THROUGHPUT",
      "ENDPOINT_TEST_NET_LOSS", "ENDPOINT_TEST_NET_JITTER", "ENDPOINT_TEST_NET_LATENCY",
      "ENDPOINT_TEST_NET_CPU_LOAD_PERCENT", "ENDPOINT_TEST_NET_MEMORY_LOAD_PERCENT",
      "ENDPOINT_TEST_VPN_LOSS", "ENDPOINT_TEST_VPN_LATENCY",
      "ENDPOINT_TEST_TCP_CONNECTION_ERROR_COUNT", "ENDPOINT_TEST_APPLICATION_SCORE",
      "ENDPOINT_TEST_HTTP_AVAILABILITY", "ENDPOINT_TEST_HTTP_WAIT", "ENDPOINT_TEST_HTTP_SSL",
      "ENDPOINT_TEST_HTTP_CONNECT", "ENDPOINT_TEST_HTTP_DNS_LOOKUP",
      "ENDPOINT_TEST_HTTP_RESPONSE_TIME", "ENDPOINT_TEST_HTTP_THROUGHPUT",
      "ENDPOINT_TEST_HTTP_APPLICATION_SCORE", "DEVICE_AVAILABILITY", "DEVICE_THROUGHPUT_INPUT",
      "DEVICE_THROUGHPUT_OUTPUT", "DEVICE_DISCARDS_INPUT", "DEVICE_DISCARDS_OUTPUT",
      "DEVICE_ERRORS_INPUT", "DEVICE_ERRORS_OUTPUT", "DEVICE_DISCARDS_AND_ERRORS_INPUT",
      "DEVICE_DISCARDS_AND_ERRORS_OUTPUT", "DEVICE_INTERFACES_UP",
      "DEVICE_INTERFACES_WITH_STATE_CHANGES", "NETWORK_OUTAGES_OUTAGES",
      "NETWORK_OUTAGES_LOCATIONS", "NETWORK_OUTAGES_INTERFACES", "NETWORK_OUTAGES_AFFECTED_TESTS",
      "APPLICATION_OUTAGES_AFFECTED_TESTS", "APPLICATION_OUTAGES_SERVERS",
      "APPLICATION_OUTAGES_LOCATIONS", "APPLICATION_OUTAGES_OUTAGES",
      "APPDYNAMICS_SERVICE_HEALTH", "CLOUD_NATIVE_MONITORING-ACCEPTED_TOTAL_THROUGHPUT",
      "CLOUD_NATIVE_MONITORING-ACCEPTED_OUTBOUND_THROUGHPUT",
      "CLOUD_NATIVE_MONITORING-ACCEPTED_INBOUND_THROUGHPUT",
      "CLOUD_NATIVE_MONITORING-ACCEPTED_INTERNAL_THROUGHPUT",
      "CLOUD_NATIVE_MONITORING-REJECTED_TOTAL_THROUGHPUT",
      "CLOUD_NATIVE_MONITORING-REJECTED_OUTBOUND_THROUGHPUT",
      "CLOUD_NATIVE_MONITORING-REJECTED_INBOUND_THROUGHPUT",
      "CLOUD_NATIVE_MONITORING-REJECTED_INTERNAL_THROUGHPUT",
      "CLOUD_NATIVE_MONITORING-TOTAL_CONNECTION_RATE", "CLOUD_NATIVE_MONITORING-CONNECTION_RATE",
      "CLOUD_NATIVE_MONITORING-INTERNAL_CONNECTION_RATE", "CLOUD_NATIVE_MONITORING-ALL_EVENTS",
      "CLOUD_NATIVE_MONITORING-CONFIGURATION_CHANGE_EVENTS",
      "CLOUD_NATIVE_MONITORING-AUTOSCALING_EVENTS",
      "TRAFFIC_INSIGHTS_MONITORING-TOTAL_THROUGHPUT",
      "TRAFFIC_INSIGHTS_MONITORING-DOWNSTREAM_THROUGHPUT",
      "TRAFFIC_INSIGHTS_MONITORING-UPSTREAM_THROUGHPUT",
      "TRAFFIC_INSIGHTS_MONITORING-CONNECTION_RATE">>)
dashboards_DashboardMetricDirection ==
  Strings("dashboards", "DashboardMetricDirection",
    <<"TO_TARGET", "FROM_TARGET", "BIDIRECTIONAL">>)
dashboards_EnterpriseAgentState ==
  Strings("dashboards", "EnterpriseAgentState", <<"online", "offline", "disabled">>)
dashboards_GeoMapDatasource ==
  Strings("dashboards", "GeoMapDatasource",
    <<"ALERTS", "CLOUD_AND_ENTERPRISE_AGENTS", "ENDPOINT_AGENTS", "ENDPOINT_AST_TEST",
      "ENDPOINT_BROWSER_SESSION", "ENDPOINT_LOCAL_NETWORK", "ENDPOINT_LOCAL_NETWORK_WIRELESS",
      "ENDPOINT_SCHEDULED_TEST", "INTERNET_INSIGHTS", "ROUTING", "CLOUD_NATIVE_MONITORING",
      "TRAFFIC_INSIGHTS_MONITORING">>)
dashboards_GroupedBarChartDatasource ==
  Strings("dashboards", "GroupedBarChartDatasource",
    <<"ALERTS", "CLOUD_AND_ENTERPRISE_AGENTS", "DEVICES", "ENDPOINT_AGENTS", "ENDPOINT_AST_TEST",
      "ENDPOINT_BROWSER_SESSION", "ENDPOINT_LOCAL_NETWORK", "ENDPOINT_LOCAL_NETWORK_WIRELESS",
      "ENDPOINT_SCHEDULED_TEST", "INTERNET_INSIGHTS", "ROUTING", "CLOUD_NATIVE_MONITORING",
      "TRAFFIC_INSIGHTS_MONITORING">>)
dashboards_HeatmapDatasource ==
  Strings("dashboards", "HeatmapDatasource",
    <<"ALERTS", "CLOUD_AND_ENTERPRISE_AGENTS", "DEVICES", "ENDPOINT_AGENTS", "ENDPOINT_AST_TEST",
      "ENDPOINT_BROWSER_SESSION", "ENDPOINT_LOCAL_NETWORK", "ENDPOINT_LOCAL_NETWORK_WIRELESS",
      "ENDPOINT_SCHEDULED_TEST", "INTERNET_INSIGHTS", "ROUTING", "CLOUD_NATIVE_MONITORING",
      "TRAFFIC_INSIGHTS_MONITORING">>)
dashboards_LegacyAgentWidgetShow ==
  Strings("dashboards", "LegacyAgentWidgetShow", <<"Owned Agents", "All Assigned Agents">>)
dashboards_LegacyAgentWidgetType ==
  Strings("dashboards", "LegacyAgentWidgetType", <<"Enterprise Agents", "Endpoint Agents">>)
dashboards_LegacyAlertListAlertType ==
  Strings("dashboards", "LegacyAlertListAlertType",
    <<"Network - End-to-End (Server)", "Network - End-to-End (Agent)", "Network - Path Trace",
      "DNS Server", "DNS Trace", "DNSSEC", "DNS+ Domain", "DNS+ Server", "Web - HTTP Server",
      "Web - Page Load", "Web - Transaction (Classic)", "Web - Transaction", "API",
      "Web - FTP Server", "Voice - SIP Server", "Voice - RTP Stream", "Device",
      "Device Interface", "Endpoint - End-to-End (Server)", "EndpointWeb - HTTP Server",
      "Endpoint - Path Trace", "Browser Sessions - Agent", "Browser Sessions - Application",
      "Routing - BGP">>)
dashboards_LegacyDurationUnit ==
  Strings("dashboards", "LegacyDurationUnit", <<"Minutes", "Hours", "Days">>)
dashboards_LegacyWidgetSortDirection ==
  Strings("dashboards", "LegacyWidgetSortDirection", <<"Ascending", "Descending">>)
dashboards_LegacyWidgetSortProperty ==
  Strings("dashboards", "LegacyWidgetSortProperty", <<"Alphabetical", "Value">>)
dashboards_ListDatasource == Strings("dashboards", "ListDatasource", <<"EVENT_DETECTION">>)
dashboards_MetricGroup ==
  Strings("dashboards", "MetricGroup",
    <<"AGENT_TO_AGENT", "AGENT_TO_SERVER", "HTTP_SERVER", "FTP_SERVER", "PAGE_LOAD",
      "TRANSACTIONS_CLASSIC", "TRANSACTIONS", "API", "ENDPOINT_BROWSER_SESSION_NETWORK",
      "ENDPOINT_BROWSER_SESSION_SYSTEM", "ENDPOINT_BROWSER_SESSION_VISITED_PAGES",
      "ENDPOINT_SCHEDULED_TEST_HTTP_SERVER", "ENDPOINT_SCHEDULED_TEST_NETWORK",
      "ENDPOINT_SCHEDULED_TEST_SYSTEM", "ENDPOINT_AST_TEST_NETWORK", "ENDPOINT_AST_TEST_SYSTEM",
      "ENDPOINT_LOCAL_NETWORK_GATEWAY", "ENDPOINT_LOCAL_NETWORK_AGENTS",
      "ENDPOINT_LOCAL_NETWORK_DNS", "ENDPOINT_LOCAL_NETWORK_NETWORK_ACCESS",
      "ENDPOINT_LOCAL_NETWORK_PROXY", "ENDPOINT_LOCAL_NETWORK_SYSTEM",
      "ENDPOINT_LOCAL_NETWORK_VPN", "ENDPOINT_LOCAL_NETWORK_WIRELESS",
      "ENDPOINT_LOCAL_NETWORK_CELLULAR", "BGP", "DEVICE", "VOIP", "SIP", "ALERTS", "DNS",
      "DOMAIN_TRACE", "DNSSEC", "DNSP", "NETWORK_OUTAGES", "APPLICATION_OUTAGES",
      "APPDYNAMICS_SERVICE_HEALTH", "CLOUD_NATIVE_MONITORING-TRAFFIC_FLOW",
      "CLOUD_NATIVE_MONITORING-EVENTS", "TRAFFIC_INSIGHTS_MONITORING-TRAFFIC_FLOW">>)
dashboards_MultiMetricsTableDatasource ==
  Strings("dashboards", "MultiMetricsTableDatasource",
    <<"ALERTS", "CLOUD_AND_ENTERPRISE_AGENTS", "DEVICES", "ENDPOINT_AGENTS", "ENDPOINT_AST_TEST",
      "ENDPOINT_BROWSER_SESSION", "ENDPOINT_LOCAL_NETWORK", "ENDPOINT_LOCAL_NETWORK_WIRELESS",
      "ENDPOINT_SCHEDULED_TEST", "INTERNET_INSIGHTS", "ROUTING", "CLOUD_NATIVE_MONITORING",
      "TRAFFIC_INSIGHTS_MONITORING">>)
dashboards_NumbersCardDatasource ==
  Strings("dashboards", "NumbersCardDatasource",
    <<"ALERTS", "CLOUD_AND_ENTERPRISE_AGENTS", "DEVICES", "ENDPOINT_AGENTS", "ENDPOINT_AST_TEST",
      "ENDPOINT_BROWSER_SESSION", "ENDPOINT_LOCAL_NETWORK", "ENDPOINT_LOCAL_NETWORK_WIRELESS",
      "ENDPOINT_SCHEDULED_TEST", "INTERNET_INSIGHTS", "ROUTING", "CLOUD_NATIVE_MONITORING",
      "TRAFFIC_INSIGHTS_MONITORING">>)
dashboards_PieChartDatasource ==
  Strings("dashboards", "PieChartDatasource",
    <<"CLOUD_AND_ENTERPRISE_AGENTS", "ENDPOINT_AGENTS", "ENDPOINT_BROWSER_SESSION",
      "ENDPOINT_SCHEDULED_TEST", "CLOUD_NATIVE_MONITORING", "TRAFFIC_INSIGHTS_MONITORING">>)
dashboards_RefreshRate ==
  Strings("dashboards", "RefreshRate", <<"off", "2m", "5m", "10m", "15m", "30m", "60m">>)
dashboards_StackedAreaChartDatasource ==
  Strings("dashboards", "StackedAreaChartDatasource",
    <<"CLOUD_AND_ENTERPRISE_AGENTS", "ENDPOINT_AGENTS", "ENDPOINT_BROWSER_SESSION",
      "ENDPOINT_SCHEDULED_TEST", "CLOUD_NATIVE_MONITORING", "TRAFFIC_INSIGHTS_MONITORING">>)
dashboards_StackedBarChartDatasource ==
  Strings("dashboards", "StackedBarChartDatasource",
    <<"CLOUD_AND_ENTERPRISE_AGENTS", "ENDPOINT_AGENTS", "ENDPOINT_BROWSER_SESSION",
      "ENDPOINT_SCHEDULED_TEST", "CLOUD_NATIVE_MONITORING", "TRAFFIC_INSIGHTS_MONITORING">>)
dashboards_TableDatasource ==
  Strings("dashboards", "TableDatasource",
    <<"ALERTS", "CLOUD_AND_ENTERPRISE_AGENTS", "DEVICES", "ENDPOINT_AGENTS", "ENDPOINT_AST_TEST",
      "ENDPOINT_BROWSER_SESSION", "ENDPOINT_LOCAL_NETWORK", "ENDPOINT_LOCAL_NETWORK_WIRELESS",
      "ENDPOINT_SCHEDULED_TEST", "INTERNET_INSIGHTS", "ROUTING", "CLOUD_NATIVE_MONITORING",
      "TRAFFIC_INSIGHTS_MONITORING">>)
dashboards_TestTableDatasource ==
  Strings("dashboards", "TestTableDatasource",
    <<"ALERTS", "DEVICES", "DNSP", "ENDPOINT_AGENTS", "ENDPOINT_SCHEDULED_TEST",
      "ENDPOINT_AST_TEST", "ENDPOINT_BROWSER_SESSION", "ENDPOINT_LOCAL_NETWORK",
      "ENDPOINT_LOCAL_NETWORK_WIRELESS", "ROUTING", "CLOUD_AND_ENTERPRISE_AGENTS",
      "INTERNET_INSIGHTS", "APPDYNAMICS_SERVICE_HEALTH", "CLOUD_NATIVE_MONITORING",
      "TRAFFIC_INSIGHTS_MONITORING">>)
dashboards_TestTableFilterKey ==
  Strings("dashboards", "TestTableFilterKey",
    <<"Anything", "Test Name", "Target", "Test ID", "Test type", "Label ID", "Tag ID">>)
dashboards_TestTableFilterType == Strings("dashboards", "TestTableFilterType", <<"all", "any">>)
dashboards_TimeseriesDatasource ==
  Strings("dashboards", "TimeseriesDatasource",
    <<"ALERTS", "CLOUD_AND_ENTERPRISE_AGENTS", "DEVICES", "ENDPOINT_AGENTS", "ENDPOINT_AST_TEST",
      "ENDPOINT_BROWSER_SESSION", "ENDPOINT_LOCAL_NETWORK", "ENDPOINT_LOCAL_NETWORK_WIRELESS",
      "ENDPOINT_SCHEDULED_TEST", "INTERNET_INSIGHTS", "ROUTING", "CLOUD_NATIVE_MONITORING",
      "TRAFFIC_INSIGHTS_MONITORING">>)
dashboards_VisualMode == Strings("dashboards", "VisualMode", <<"Full", "Half screen">>)
dashboards_WidgetMeasureType ==
  Strings("dashboards", "WidgetMeasureType",
    <<"MINIMUM", "MAXIMUM", "MEAN", "MEDIAN", "NTH_PERCENTILE", "PERCPOSITIVE", "PERCZERO",
      "STDDEV", "TOTAL", "VALUES", "SUM", "CLOUD_NATIVE_MONITORING-MEAN",
      "CLOUD_NATIVE_MONITORING-SUM", "TRAFFIC_INSIGHTS_MONITORING-SUM",
      "TRAFFIC_INSIGHTS_MONITORING-MEAN">>)

templates_AccessType == Strings("templates", "AccessType", <<"all", "partner", "system">>)
templates_AgentToAgentTestDirectionTemplate ==
  Strings("templates", "AgentToAgentTestDirectionTemplate",
    <<"TO_TARGET", "FROM_TARGET", "BIDIRECTIONAL">>)
templates_AlertRuleSeverityTemplate ==
  Strings("templates", "AlertRuleSeverityTemplate", <<"INFO", "MAJOR", "MINOR", "CRITICAL">>)
templates_AlertRuleTypeTemplate ==
  Strings("templates", "AlertRuleTypeTemplate",
    <<"Page Load", "HTTP Server", "End-to-End (Server)", "End-to-End (Agent)", "Voice",
      "DNS Server", "DNS Trace", "DNSSEC", "Web Transactions", "BGP", "Path Trace", "FTP",
      "SIP Server">>)
templates_AlertRulesSchemaVersion ==
  Strings("templates", "AlertRulesSchemaVersion", <<"v6", "v7">>)
templates_AuthTypeTestTemplate ==
  Strings("templates", "AuthTypeTestTemplate", <<"NONE", "BASIC", "NTLM", "KERBEROS">>)
templates_BooleanNumber == Ints("templates", "BooleanNumber", <<"0", "1">>)
templates_CertificationLevel ==
  Strings("templates", "CertificationLevel", <<"user", "thousandeyes", "partner", "certified">>)
templates_DashboardMetric ==
  Strings("templates", "DashboardMetric",
    <<"ONE_WAY_NET_LOSS_TO_TARGET", "ONE_WAY_NET_LATENCY_TO_TARGET",
      "ONE_WAY_NET_JITTER_TO_TARGET", "ONE_WAY_NET_THROUGHPUT_TO_TARGET",
      "ONE_WAY_NET_ERROR_TO_TARGET", "ONE_WAY_NET_LOSS_FROM_TARGET",
      "ONE_WAY_NET_LATENCY_FROM_TARGET", "ONE_WAY_NET_JITTER_FROM_TARGET",
      "ONE_WAY_NET_THROUGHPUT_FROM_TARGET", "ONE_WAY_NET_ERROR_FROM_TARGET",
      "ONE_WAY_NET_LOSS_BIDIRECTIONAL", "ONE_WAY_NET_LATENCY_BIDIRECTIONAL",
      "ONE_WAY_NET_JITTER_BIDIRECTIONAL", "ONE_WAY_NET_THROUGHPUT_BIDIRECTIONAL",
      "ONE_WAY_NET_ERROR_BIDIRECTIONAL", "NET_LOSS", "NET_LATENCY", "NET_JITTER", "NET_BANDWIDTH",
      "NET_CAPACITY", "PROXY_NET_LOSS", "PROXY_NET_LATENCY", "PROXY_NET_JITTER",
      "WEB_AVAILABILITY", "WEB_THROUGHPUT", "WEB_DNS", "WEB_CONNECT", "WEB_SSL", "WEB_WAIT",
      "WEB_TTFB", "WEB_RECEIVE", "WEB_REDIRECT", "WEB_FETCH", "WEB_AUTHENTICATION_ERROR_COUNT",
      "WEB_DNS_ERROR_COUNT", "WEB_CONNECT_ERROR_COUNT", "WEB_SSL_ERROR_COUNT",
      "WEB_SEND_ERROR_COUNT", "WEB_RECEIVE_ERROR_COUNT", "WEB_HTTP_ERROR_COUNT",
      "WEB_CONTENT_ERROR_COUNT", "WEB_TOTAL_ERROR_COUNT", "FTP_AVAILABILITY", "FTP_THROUGHPUT",
      "FTP_DNS", "FTP_CONNECT", "FTP_SSL", "FTP_NEGOTIATION", "FTP_WAIT", "FTP_TTFB",
      "FTP_TRANSFER", "FTP_TOTAL", "FTP_DNS_ERROR_COUNT", "FTP_CONNECT_ERROR_COUNT",
      "FTP_SSL_ERROR_COUNT", "FTP_NEGOTIATION_ERROR_COUNT", "FTP_TRANSFER_ERROR_COUNT",
      "FTP_FTP_ERROR_COUNT", "FTP_CONTENT_ERROR_COUNT", "FTP_TOTAL_ERROR_COUNT",
      "WEB_PAGE_LOAD_DOM_TIME", "WEB_PAGE_LOAD", "WEB_PAGE_TTFB", "WEB_PAGE_COMPONENT_COUNT",
      "WEB_PAGE_ERROR_COUNT", "WEB_PAGE_LOAD_COMPLETION_RATE", "CLASSIC_TRANSACTION_TIME",
      "CLASSIC_TRANSACTION_COMPLETION", "CLASSIC_TRANSACTION_STEP_TIME",
      "CLASSIC_TRANSACTION_PAGE_TIME", "TRANSACTION_MARKER_TIME_DECOMPOSED",
      "TRANSACTION_PAGE_LOAD_TIME_DECOMPOSED", "TRANSACTION_PAGE_TIME_DECOMPOSED",
      "TRANSACTION_PAGE_LOAD_DOM_TIME_DECOMPOSED", "TRANSACTION_TIME", "TRANSACTION_TIMEOUT",
      "TRANSACTION_ASSERT_ERROR", "TRANSACTION_OTHER_ERROR", "TRANSACTION_PAGE_ERROR",
      "TRANSACTION_COMPLETION", "TRANSACTION_ERROR", "TRANSACTION_MARKER_TIME",
      "TRANSACTION_PAGE_TIME", "TRANSACTION_PAGE_LOAD_TIME", "TRANSACTION_PAGE_LOAD_DOM_TIME",
      "API_TRANSACTION_TIME", "API_REQUEST_CALL_TIME", "API_REQUEST_DNS_TIME",
      "API_REQUEST_CONNECT_TIME", "API_REQUEST_SSL_TIME", "API_REQUEST_SEND_TIME",
      "API_REQUEST_WAIT_TIME", "API_REQUEST_BLOCK_TIME", "API_REQUEST_RECEIVE_TIME",
      "API_REQUEST_ASSERT_ERROR_COUNT", "API_REQUEST_COMPLETION", "API_REQUEST_OTHER_ERROR_COUNT",
      "VOIP_DISCARDS", "VOIP_LATENCY", "VOIP_LOSS", "VOIP_MOS", "VOIP_PDV", "SIP_AVAILABILITY",
      "SIP_DNS", "SIP_CONNECT", "SIP_REDIRECT", "SIP_REGISTER", "SIP_OPTIONS", "SIP_INVITE",
      "SIP_WAIT", "SIP_RESPONSE_TIME", "SIP_TOTAL_TIME", "SIP_DNS_ERROR_COUNT",
      "SIP_CONNECT_ERROR_COUNT", "SIP_REGISTER_ERROR_COUNT", "SIP_OPTIONS_ERROR_COUNT",
      "SIP_INVITE_ERROR_COUNT", "SIP_TOTAL_ERROR_COUNT", "DNS_SERVER_AVAILABILITY",
      "DNS_SERVER_TIME", "DNS_TRACE_AVAILABILITY", "DNS_TRACE_QUERY_COUNT",
      "DNS_TRACE_QUERY_TIME", "DNSSEC_VALIDITY", "DNSP_AVAILABILITY", "DNSP_TIME",
      "DNSP_SERVER_TIME", "BGP_REACHABILITY", "BGP_PATH_CHANGES", "ALERT_COUNT",
      "ALERT_COUNT_AGENT", "ALERT_COUNT_BGP", "ALERT_COUNT_DNSP", "ENDPOINT_SAMPLE_COUNT",
      "ENDPOINT_NET_LOSS", "ENDPOINT_NET_LATENCY", "ENDPOINT_NET_JITTER",
      "ENDPOINT_NET_CONNECT_FAILURES", "ENDPOINT_NET_CPU_LOAD_PERCENT",
      "ENDPOINT_NET_MEMORY_LOAD_PERCENT", "ENDPOINT_NET_VPN_LOSS", "ENDPOINT_NET_VPN_LATENCY",
      "ENDPOINT_PAGE_COUNT", "ENDPOINT_WEB_COMPLETION", "ENDPOINT_WEB_RESPONSE_TIME",
      "ENDPOINT_WEB_PAGE_LOAD", "ENDPOINT_WEB_PAGE_LOAD_DOM_TIME",
      "ENDPOINT_WEB_EXPERIENCE_SCORE", "ENDPOINT_WEB_BROWSER_ERROR_COUNT",
      "ENDPOINT_GATEWAY_PROBE_COUNT", "ENDPOINT_GATEWAY_COMBINED_TRANSMISSION_RATE",
      "ENDPOINT_GATEWAY_SIGNAL_QUALITY", "ENDPOINT_GATEWAY_LOSS", "ENDPOINT_GATEWAY_LATENCY",
      "ENDPOINT_GATEWAY_AGENT_SCORE", "ENDPOINT_GATEWAY_SCORE",
      "ENDPOINT_GATEWAY_CONNECTION_SCORE", "ENDPOINT_GATEWAY_PROXY_LOSS",
      "ENDPOINT_GATEWAY_PROXY_LATENCY", "ENDPOINT_GATEWAY_PROXY_SCORE",
      "ENDPOINT_GATEWAY_VPN_LOSS", "ENDPOINT_GATEWAY_VPN_LATENCY", "ENDPOINT_GATEWAY_VPN_SCORE",
      "ENDPOINT_GATEWAY_DNS_LOSS", "ENDPOINT_GATEWAY_DNS_LATENCY", "ENDPOINT_GATEWAY_DNS_TIME",
      "ENDPOINT_GATEWAY_CPU_LOAD_PERCENT", "ENDPOINT_GATEWAY_MEMORY_LOAD_PERCENT",
      "EYEBROW_GATEWAY_WIRELESS_CHANNEL_SWAP_EVENTS",
      "EYEBROW_GATEWAY_WIRELESS_RETRANSMISSION_RATE", "EYEBROW_GATEWAY_WIRELESS_ROAMING_EVENTS",
      "EYEBROW_GATEWAY_WIRELESS_SIGNAL_QUALITY", "EYEBROW_GATEWAY_WIRELESS_THROUGHPUT",
      "ENDPOINT_CELLULAR_RSSI", "ENDPOINT_CELLULAR_RSRP", "ENDPOINT_CELLULAR_RSRQ",
      "ENDPOINT_CELLULAR_SINR", "ENDPOINT_AST_TEST_NET_LOSS", "ENDPOINT_AST_TEST_NET_JITTER",
      "ENDPOINT_AST_TEST_NET_LATENCY", "ENDPOINT_AST_TEST_NET_CPU_LOAD_PERCENT",
      "ENDPOINT_AST_TEST_NET_MEMORY_LOAD_PERCENT", "ENDPOINT_AST_TEST_VPN_LOSS",
      "ENDPOINT_AST_TEST_VPN_LATENCY", "ENDPOINT_AST_TEST_TCP_CONNECTION_ERROR_COUNT",
      "ENDPOINT_AST_TEST_APPLICATION_SCORE", "ENDPOINT_GATEWAY_WIRELESS_CHANNEL_SWAP_EVENTS",
      "ENDPOINT_GATEWAY_WIRELESS_RETRANSMISSION_RATE", "ENDPOINT_GATEWAY_WIRELESS_ROAMING_EVENTS",
      "ENDPOINT_GATEWAY_WIRELESS_SIGNAL_QUALITY", "ENDPOINT_GATEWAY_WIRELESS_THROUGHPUT",
      "ENDPOINT_TEST_NET_LOSS", "ENDPOINT_TEST_NET_JITTER", "ENDPOINT_TEST_NET_LATENCY",
      "ENDPOINT_TEST_NET_CPU_LOAD_PERCENT", "ENDPOINT_TEST_NET_MEMORY_LOAD_PERCENT",
      "ENDPOINT_TEST_VPN_LOSS", "ENDPOINT_TEST_VPN_LATENCY",
      "ENDPOINT_TEST_TCP_CONNECTION_ERROR_COUNT", "ENDPOINT_TEST_APPLICATION_SCORE",
      "ENDPOINT_TEST_HTTP_AVAILABILITY", "ENDPOINT_TEST_HTTP_WAIT", "ENDPOINT_TEST_HTTP_SSL",
      "ENDPOINT_TEST_HTTP_CONNECT", "ENDPOINT_TEST_HTTP_DNS_LOOKUP",
      "ENDPOINT_TEST_HTTP_RESPONSE_TIME", "ENDPOINT_TEST_HTTP_THROUGHPUT",
      "ENDPOINT_TEST_HTTP_APPLICATION_SCORE", "DEVICE_AVAILABILITY", "DEVICE_THROUGHPUT_INPUT",
      "DEVICE_THROUGHPUT_OUTPUT", "DEVICE_DISCARDS_INPUT", "DEVICE_DISCARDS_OUTPUT",
      "DEVICE_ERRORS_INPUT", "DEVICE_ERRORS_OUTPUT", "DEVICE_DISCARDS_AND_ERRORS_INPUT",
      "DEVICE_DISCARDS_AND_ERRORS_OUTPUT", "DEVICE_INTERFACES_UP",
      "DEVICE_INTERFACES_WITH_STATE_CHANGES", "NETWORK_OUTAGES_OUTAGES",
      "NETWORK_OUTAGES_LOCATIONS", "NETWORK_OUTAGES_INTERFACES", "NETWORK_OUTAGES_AFFECTED_TESTS",
      "APPLICATION_OUTAGES_AFFECTED_TESTS", "APPLICATION_OUTAGES_SERVERS",
      "APPLICATION_OUTAGES_LOCATIONS", "APPLICATION_OUTAGES_OUTAGES",
      "APPDYNAMICS_SERVICE_HEALTH", "CLOUD_NATIVE_MONITORING-ACCEPTED_TOTAL_THROUGHPUT",
      "CLOUD_NATIVE_MONITORING-ACCEPTED_OUTBOUND_THROUGHPUT",
      "CLOUD_NATIVE_MONITORING-ACCEPTED_INBOUND_THROUGHPUT",
      "CLOUD_NATIVE_MONITORING-ACCEPTED_INTERNAL_THROUGHPUT",
      "CLOUD_NATIVE_MONITORING-REJECTED_TOTAL_THROUGHPUT",
      "CLOUD_NATIVE_MONITORING-REJECTED_OUTBOUND_THROUGHPUT",
      "CLOUD_NATIVE_MONITORING-REJECTED_INBOUND_THROUGHPUT",
      "CLOUD_NATIVE_MONITORING-REJECTED_INTERNAL_THROUGHPUT",
      "CLOUD_NATIVE_MONITORING-TOTAL_CONNECTION_RATE", "CLOUD_NATIVE_MONITORING-CONNECTION_RATE",
      "CLOUD_NATIVE_MONITORING-INTERNAL_CONNECTION_RATE", "CLOUD_NATIVE_MONITORING-ALL_EVENTS",
      "CLOUD_NATIVE_MONITORING-CONFIGURATION_CHANGE_EVENTS",
      "CLOUD_NATIVE_MONITORING-AUTOSCALING_EVENTS",
      "TRAFFIC_INSIGHTS_MONITORING-TOTAL_THROUGHPUT",
      "TRAFFIC_INSIGHTS_MONITORING-DOWNSTREAM_THROUGHPUT",
      "TRAFFIC_INSIGHTS_MONITORING-UPSTREAM_THROUGHPUT",
      "TRAFFIC_INSIGHTS_MONITORING-CONNECTION_RATE">>)
templates_DashboardMetricDirection ==
  Strings("templates", "DashboardMetricDirection",
    <<"TO_TARGET", "FROM_TARGET", "BIDIRECTIONAL">>)
templates_DashboardRefreshRateTemplate ==
  Strings("templates", "DashboardRefreshRateTemplate",
    <<"off", "2m", "5m", "10m", "15m", "30m", "60m">>)
templates_DeploymentStrategy ==
  Strings("templates", "DeploymentStrategy", <<"create", "update", "ignore">>)
templates_EndpointAuthTypeEnumTemplate ==
  Strings("templates", "EndpointAuthTypeEnumTemplate",
    <<"NONE", "BASIC", "NTLM", "KERBEROS", "OAUTH", "LEGACY">>)
templates_EndpointIpVersionTemplate ==
  Strings("templates", "EndpointIpVersionTemplate",
    <<"V4_ONLY", "V6_ONLY", "V6_PREFER", "OS_DEFAULT">>)
templates_EndpointMonitoringSettingsTypeTemplate ==
  Strings("templates", "EndpointMonitoringSettingsTypeTemplate",
    <<"ANY_AGENT", "SPECIFIC_AGENTS", "LIST_OF_LABELS">>)
templates_EndpointTcpProbeModeTemplate ==
  Strings("templates", "EndpointTcpProbeModeTemplate", <<"UNKNOWN", "AUTO", "SYN", "SACK">>)
templates_EndpointTestCategoryOptionsTemplate ==
  Strings("templates", "EndpointTestCategoryOptionsTemplate",
    <<"SCHEDULED_TEST", "DYNAMIC_APP_TEST">>)
templates_EndpointTestConfigProtocolTemplate ==
  Strings("templates", "EndpointTestConfigProtocolTemplate",
    <<"UNKNOWN", "ICMP", "TCP", "UDP", "PREFER_TCP", "AUTODETECT">>)
templates_EndpointTestIntervalTemplate ==
  Ints("templates", "EndpointTestIntervalTemplate",
    <<"60", "120", "300", "600", "900", "1800", "3600">>)
templates_EndpointTestTypeOptionsTemplate ==
  Strings("templates", "EndpointTestTypeOptionsTemplate", <<"Http", "Network">>)
templates_FilterContextDataSourceTemplate ==
  Strings("templates", "FilterContextDataSourceTemplate",
    <<"ALERT", "APPDYNAMICS_SERVICE_HEALTH", "DEVICES", "DNSP", "ENDPOINT_AGENTS",
      "INTERNET_INSIGHTS", "ROUTING", "THIRD_PARTY_APPLICATIONS", "VIRTUAL_AGENT">>)
templates_HttpVersionTemplate == Ints("templates", "HttpVersionTemplate", <<"1", "2">>)
templates_LabelTypeTemplate ==
  Strings("templates", "LabelTypeTemplate", <<"tests", "endpoint_tests">>)
templates_LegacyDurationUnit ==
  Strings("templates", "LegacyDurationUnit", <<"Minutes", "Hours", "Days">>)
templates_MetricGroup ==
  Strings("templates", "MetricGroup",
    <<"AGENT_TO_AGENT", "AGENT_TO_SERVER", "HTTP_SERVER", "FTP_SERVER", "PAGE_LOAD",
      "TRANSACTIONS_CLASSIC", "TRANSACTIONS", "API", "ENDPOINT_BROWSER_SESSION_NETWORK",
      "ENDPOINT_BROWSER_SESSION_SYSTEM", "ENDPOINT_BROWSER_SESSION_VISITED_PAGES",
      "ENDPOINT_SCHEDULED_TEST_HTTP_SERVER", "ENDPOINT_SCHEDULED_TEST_NETWORK",
      "ENDPOINT_SCHEDULED_TEST_SYSTEM", "ENDPOINT_AST_TEST_NETWORK", "ENDPOINT_AST_TEST_SYSTEM",
      "ENDPOINT_LOCAL_NETWORK_GATEWAY", "ENDPOINT_LOCAL_NETWORK_AGENTS",
      "ENDPOINT_LOCAL_NETWORK_DNS", "ENDPOINT_LOCAL_NETWORK_NETWORK_ACCESS",
      "ENDPOINT_LOCAL_NETWORK_PROXY", "ENDPOINT_LOCAL_NETWORK_SYSTEM",
      "ENDPOINT_LOCAL_NETWORK_VPN", "ENDPOINT_LOCAL_NETWORK_WIRELESS",
      "ENDPOINT_LOCAL_NETWORK_CELLULAR", "BGP", "DEVICE", "VOIP", "SIP", "ALERTS", "DNS",
      "DOMAIN_TRACE", "DNSSEC", "DNSP", "NETWORK_OUTAGES", "APPLICATION_OUTAGES",
      "APPDYNAMICS_SERVICE_HEALTH", "CLOUD_NATIVE_MONITORING-TRAFFIC_FLOW",
      "CLOUD_NATIVE_MONITORING-EVENTS", "TRAFFIC_INSIGHTS_MONITORING-TRAFFIC_FLOW">>)
templates_PageLoadStrategyTemplate ==
  Strings("templates", "PageLoadStrategyTemplate", <<"none", "eager", "normal">>)
templates_PathTraceModeTemplate ==
  Strings("templates", "PathTraceModeTemplate", <<"classic", "inSession">>)
templates_ProbeModeTemplate ==
  Strings("templates", "ProbeModeTemplate", <<"AUTO", "SACK", "SYN">>)
templates_ResourceInclusion ==
  Strings("templates", "ResourceInclusion", <<"skipped", "included">>)
templates_SharingScope == Strings("templates", "SharingScope", <<"default", "organization">>)
templates_SslVersionIdTemplate ==
  Ints("templates", "SslVersionIdTemplate", <<"0", "3", "4", "5", "6", "7">>)
templates_TagAssignmentObjectType ==
  Strings("templates", "TagAssignmentObjectType",
    <<"test", "endpoint-test", "connected-devices-test", "dashboard">>)
templates_TagObjectTypeTemplate ==
  Strings("templates", "TagObjectTypeTemplate",
    <<"test", "endpoint-test", "connected-devices-test", "dashboard">>)
templates_TemplateGroupingType ==
  Strings("templates", "TemplateGroupingType", <<"test", "user-input">>)
templates_TemplateModule == Strings("templates", "TemplateModule", <<"default">>)
templates_TestConfigurationTemplateType ==
  Strings("templates", "TestConfigurationTemplateType",
    <<"agent-to-agent", "agent-to-server", "bgp", "dns-server", "dns-trace", "http-server",
      "page-load", "sip-server", "voice", "web-transactions">>)
templates_TestInterval ==
  Ints("templates", "TestInterval", <<"60", "120", "300", "600", "900", "1800", "3600">>)
templates_TestsSchemaVersion == Strings("templates", "TestsSchemaVersion", <<"v6", "v7">>)
templates_TransportProtocolTemplate ==
  Strings("templates", "TransportProtocolTemplate", <<"TCP", "UDP">>)
templates_UserInputType ==
  Strings("templates", "UserInputType",
    <<"string", "number", "boolean", "string[]", "number[]", "boolean[]", "agents", "bgpPrefix",
      "tests", "any">>)
templates_VisualMode == Strings("templates", "VisualMode", <<"Full", "Half screen">>)
templates_VoiceIntervalTemplate ==
  Ints("templates", "VoiceIntervalTemplate", <<"300", "600", "900", "1800", "3600">>)
templates_WidgetMeasureType ==
  Strings("templates", "WidgetMeasureType",
    <<"MINIMUM", "MAXIMUM", "MEAN", "MEDIAN", "NTH_PERCENTILE", "PERCPOSITIVE", "PERCZERO",
      "STDDEV", "TOTAL", "VALUES", "SUM", "CLOUD_NATIVE_MONITORING-MEAN",
      "CLOUD_NATIVE_MONITORING-SUM", "TRAFFIC_INSIGHTS_MONITORING-SUM",
      "TRAFFIC_INSIGHTS_MONITORING-MEAN">>)
templates_WidgetType ==
  Strings("templates", "WidgetType",
    <<"Bar Chart: Stacked", "Bar Chart: Grouped", "Heatmap", "Time Series: Line",
      "Time Series: Stacked Area", "Pie Chart", "Table", "Multi Metric Table", "Number",
      "Agent Status", "Color Grid", "Alert List", "List", "Test Table", "Map",
      "Box and Whiskers">>)

-----------------------------------------------------------------------------
AllDashboardEnumerations ==
  {dashboard_snapshots_AgentStatusDatasource, dashboard_snapshots_AlertListAlertType,
   dashboard_snapshots_AlertListDatasource, dashboard_snapshots_ApiAggregateProperty,
   dashboard_snapshots_ApiWidgetFixedYScalePrefix, dashboard_snapshots_ApiWidgetType,
   dashboard_snapshots_AswRepeat, dashboard_snapshots_AswRepeatUnit,
   dashboard_snapshots_BoxAndWhiskersDatasource, dashboard_snapshots_ColorGridDatasource,
   dashboard_snapshots_DashboardLayoutType, dashboard_snapshots_DashboardMetric,
   dashboard_snapshots_DashboardMetricDirection, dashboard_snapshots_EnterpriseAgentState,
   dashboard_snapshots_GeoMapDatasource, dashboard_snapshots_GroupedBarChartDatasource,
   dashboard_snapshots_HeatmapDatasource, dashboard_snapshots_LegacyAgentWidgetShow,
   dashboard_snapshots_LegacyAgentWidgetType, dashboard_snapshots_LegacyAlertListAlertType,
   dashboard_snapshots_LegacyDurationUnit, dashboard_snapshots_LegacyWidgetSortDirection,
   dashboard_snapshots_LegacyWidgetSortProperty, dashboard_snapshots_ListDatasource,
   dashboard_snapshots_MetricGroup, dashboard_snapshots_MultiMetricsTableDatasource,
   dashboard_snapshots_NumbersCardDatasource, dashboard_snapshots_PieChartDatasource,
   dashboard_snapshots_RefreshRate, dashboard_snapshots_StackedAreaChartDatasource,
   dashboard_snapshots_StackedBarChartDatasource, dashboard_snapshots_TableDatasource,
   dashboard_snapshots_TestTableDatasource, dashboard_snapshots_TestTableFilterKey,
   dashboard_snapshots_TestTableFilterType, dashboard_snapshots_TimeseriesDatasource,
   dashboard_snapshots_VisualMode, dashboard_snapshots_WidgetMeasureType,
   dashboards_AgentStatusDatasource, dashboards_AlertListAlertType,
   dashboards_AlertListDatasource, dashboards_ApiAggregateProperty,
   dashboards_ApiWidgetFixedYScalePrefix, dashboards_ApiWidgetType, dashboards_AswRepeat,
   dashboards_AswRepeatUnit, dashboards_BoxAndWhiskersDatasource, dashboards_ColorGridDatasource,
   dashboards_DashboardLayoutType, dashboards_DashboardMetric,
   dashboards_DashboardMetricDirection, dashboards_EnterpriseAgentState,
   dashboards_GeoMapDatasource, dashboards_GroupedBarChartDatasource,
   dashboards_HeatmapDatasource, dashboards_LegacyAgentWidgetShow,
   dashboards_LegacyAgentWidgetType, dashboards_LegacyAlertListAlertType,
   dashboards_LegacyDurationUnit, dashboards_LegacyWidgetSortDirection,
   dashboards_LegacyWidgetSortProperty, dashboards_ListDatasource, dashboards_MetricGroup,
   dashboards_MultiMetricsTableDatasource, dashboards_NumbersCardDatasource,
   dashboards_PieChartDatasource, dashboards_RefreshRate, dashboards_StackedAreaChartDatasource,
   dashboards_StackedBarChartDatasource, dashboards_TableDatasource,
   dashboards_TestTableDatasource, dashboards_TestTableFilterKey, dashboards_TestTableFilterType,
   dashboards_TimeseriesDatasource, dashboards_VisualMode, dashboards_WidgetMeasureType,
   templates_AccessType, templates_AgentToAgentTestDirectionTemplate,
   templates_AlertRuleSeverityTemplate, templates_AlertRuleTypeTemplate,
   templates_AlertRulesSchemaVersion, templates_AuthTypeTestTemplate, templates_BooleanNumber,
   templates_CertificationLevel, templates_DashboardMetric, templates_DashboardMetricDirection,
   templates_DashboardRefreshRateTemplate, templates_DeploymentStrategy,
   templates_EndpointAuthTypeEnumTemplate, templates_EndpointIpVersionTemplate,
   templates_EndpointMonitoringSettingsTypeTemplate, templates_EndpointTcpProbeModeTemplate,
   templates_EndpointTestCategoryOptionsTemplate, templates_EndpointTestConfigProtocolTemplate,
   templates_EndpointTestIntervalTemplate, templates_EndpointTestTypeOptionsTemplate,
   templates_FilterContextDataSourceTemplate, templates_HttpVersionTemplate,
   templates_LabelTypeTemplate, templates_LegacyDurationUnit, templates_MetricGroup,
   templates_PageLoadStrategyTemplate, templates_PathTraceModeTemplate,
   templates_ProbeModeTemplate, templates_ResourceInclusion, templates_SharingScope,
   templates_SslVersionIdTemplate, templates_TagAssignmentObjectType,
   templates_TagObjectTypeTemplate, templates_TemplateGroupingType, templates_TemplateModule,
   templates_TestConfigurationTemplateType, templates_TestInterval, templates_TestsSchemaVersion,
   templates_TransportProtocolTemplate, templates_UserInputType, templates_VisualMode,
   templates_VoiceIntervalTemplate, templates_WidgetMeasureType, templates_WidgetType}

=============================================================================
