------------------------- MODULE MCVendorConversion -------------------------
(***************************************************************************)
(* Each sample log in a run of its own for every converter that may read   *)
(* it, and longer runs in which blank lines, comments, lines that do not   *)
(* parse and logs of other parsers come between.                           *)
(***************************************************************************)
EXTENDS VendorConversion, TLC

-----------------------------------------------------------------------------
(***************************************************************************)
(* Logs of every kind that the vendor parsers tell apart, most of them in  *)
(* the manner of the examples at the end of the parsers' own files.  The   *)
(* text of a log, and the description of a PAN-OS row, is the name of the  *)
(* log; "phrases" lists what the parsers that may read it find in it.      *)
(***************************************************************************)
PlainLog ==
  [kind |-> "log", header |-> FALSE, time |-> "", facility |-> "", severity |-> 0,
   event_id |-> "", message |-> "", forms |-> {}, groups |-> Empty, device |-> "",
   cells |-> Empty, columns |-> 0, located |-> FALSE, pairs |-> Empty, marks |-> {},
   balanced |-> TRUE, dated |-> FALSE, asa |-> None, source |-> "",
   payload |-> Empty, phrases |-> {}, text |-> ""]

-----------------------------------------------------------------------------
(***************************************************************************)
(* PAN-OS rows.                                                            *)
(***************************************************************************)
PanosTime == "2026/08/27 09:32:00"

Row(columns, cells, phrases) ==
  [PlainLog EXCEPT !.located = TRUE, !.dated = TRUE, !.columns = columns,
               !.phrases = phrases,
               !.cells = cells @@ [receive_time |-> PanosTime,
                                   time_generated |-> PanosTime,
                                   serial |-> "PA123456789", vsys |-> "vsys1",
                                   device_name |-> "PA-FW-01"]]

SystemRow(subtype, eventid, module, object, phrases) ==
  Row(26, [type |-> "SYSTEM", subtype |-> subtype, eventid |-> eventid,
           module |-> module, object |-> object, severity |-> "high",
           sequence_number |-> "500001", description |-> ""], phrases)

GpRow(eventid, stage, status, gateway, error, reason, phrases) ==
  Row(49, [type |-> "GLOBALPROTECT", subtype |-> "globalprotect",
           eventid |-> eventid, stage |-> stage, status |-> status,
           gateway |-> gateway, error |-> error, reason |-> reason,
           srcuser |-> "alice", public_ip |-> "203.0.113.10",
           repeat_count |-> "1", portal |-> "gp-portal", description |-> ""],
      phrases)

TrafficRow(subtype, action, cells) ==
  Row(53, [type |-> "TRAFFIC", subtype |-> subtype, action |-> action,
           src |-> "10.0.0.5", dst |-> "198.51.100.10", sessionid |-> "600"] @@ cells,
      {})

SystemRows ==
  [ bgp_peer_established |-> SystemRow("routing", "routed-BGP-peer-enter-established",
      "routed", "ISP-1", {"established", "peer-name", "peer-IP"}),
    ospf_neighbor_down |-> SystemRow("routing", "routed-OSPF-neighbor-down", "routed",
      "10.0.0.2", {"down", "adjacency", "gone down", "neighbor", "interface"}),
    rip_peer_down |-> SystemRow("routing", "routed-RIP-peer-del", "routed",
      "192.0.2.9", {"peer disappeared", "RIP-peer"}),
    bfd_session_down |-> SystemRow("routing", "session-state-change", "bfd",
      "BFD-ISP1", {"down", "bfd ", "changed to down", "interface", "BFD-state",
      "BFD-session", "to-neighbor", "Protocol"}),
    static_route_removed |-> SystemRow("routing", "path-monitor-failure", "routed",
      "192.168.16.0/24", {"path monitoring failed", "route removed",
      "path monitoring", "failed", "destination", "next-hop"}),
    pbf_next_hop_down |-> SystemRow("pbf", "nh-down", "", "Internet-Backup", {"down",
      "up", "nexthop", "nexthop is down", "PBF-rule"}),
    ecmp_enabled |-> SystemRow("routing", "routed-ECMP", "routed", "default",
      {"enabled", "virtual-router"}),
    multicast_interface_state_change |-> SystemRow("routing",
      "routed-PIM-interface-state-changed", "routed", "ethernet1/3",
      {"interface state changed", "interface"}),
    route_table_capacity_reached |-> SystemRow("routing", "route-table-capacity",
      "routed", "routing-table", {"route table capacity reached"}),
    routing_engine_config_failure |-> SystemRow("routing", "routed-config-p1-failed",
      "routed", "routed", {"route daemon", "configuration", "failed"}),
    bgp_peer_down |-> SystemRow("routing", "routed-BGP-peer-left-established",
      "routed", "ISP-1", {"established", "left", "left established", "peer-name",
      "peer-IP"}),
    bgp_prefix_limit_exceeded |-> SystemRow("routing",
      "routed-BGP-peer-prefix-exceeded", "routed", "ISP-1",
      {"maximum allowed prefixes", "peer-name", "peer-IP"}),
    bgp_graceful_restart |-> SystemRow("routing", "routed-BGP-peer-restarted",
      "routed", "ISP-1", {"graceful", "restart", "peer-name", "peer-IP"}),
    bgp_route_refresh |-> SystemRow("routing", "routed-BGP-refresh-sent", "routed",
      "ISP-1", {"route refresh", "peer-name", "peer-IP"}),
    ospf_neighbor_up |-> SystemRow("routing", "routed-OSPF-neighbor-full", "routed",
      "10.0.0.2", {"established", "adjacency", "full adjacency established",
      "neighbor", "interface"}),
    ospf_authentication_failure |-> SystemRow("routing", "routed-OSPF-md5chksum-bad",
      "routed", "OSPF", {}),
    ospf_parameter_mismatch |-> SystemRow("routing",
      "routed-OSPF-hello-hello-intval-bad", "routed", "OSPF", {"mismatch"}),
    rip_authentication_failure |-> SystemRow("routing", "routed-RIP-auth-failed",
      "routed", "RIP", {"authentication", "authentication failure"}),
    bfd_session_up |-> SystemRow("bfd", "session-state-change", "bfd", "BFD-ISP1",
      {"up", "bfd ", "changed to up", " up ", "interface", "BFD-state", "BFD-session",
      "to-neighbor", "Protocol"}),
    bfd_administrative_down |-> SystemRow("bfd", "admin-down", "bfd", "BFD-ISP1",
      {"down", "bfd ", "administrative down", " down ", "interface", "BFD-session",
      "to-neighbor", "Protocol"}),
    static_route_restored |-> SystemRow("routing", "path-monitor-recovery", "routed",
      "192.168.16.0/24", {"path monitoring", "recovered", "route restored",
      "destination", "next-hop"}),
    pbf_next_hop_up |-> SystemRow("pbf", "nh-up", "", "Internet-Backup", {"up",
      "nexthop", "nexthop is up", "PBF-rule"}),
    pbf_rule_bypassed |-> SystemRow("pbf", "nh-down", "", "Internet-Backup", {"up",
      "bypassed", "PBF-rule"}),
    pbf_fqdn_resolution_failure |-> SystemRow("pbf", "pbf-fqdn-down", "", "Cloud-PBF",
      {"fqdn", "unresolved", "nexthop", "PBF-rule"}),
    ecmp_maximum_path_changed |-> SystemRow("routing", "routed-ECMP", "routed",
      "default", {"maximum path changed", "virtual-router"}),
    route_table_invalid_route_rejected |-> SystemRow("routing",
      "routed-RTM-bad-route", "routed", "203.0.113.0/24", {"invalid dynamic route"}),
    unknown_future_routing_event |-> SystemRow("routing",
      "routed-future-feature-event", "routed", "future-routing-object", {}),
    admin_login_failure |-> SystemRow("general", "auth-fail", "auth", "",
      {"failed authentication", "failed", "user", "From", "Reason"}),
    configuration_commit_success |-> SystemRow("general", "general", "general", "",
      {"commit job succeeded", "user"}),
    device_abnormal_restart |-> SystemRow("general", "general", "general", "",
      {"rebooting system", "restarts exhausted", "restart"}),
    interface_down |-> SystemRow("port", "link-change", "", "ethernet1/4", {" down ",
      "port"}),
    high_availability_state_change |-> SystemRow("ha", "state-change", "ha",
      "HA Group 1", {"moved from state", "HA-Group", "from-state", "to-state"}),
    resource_memory_exhaustion |-> SystemRow("general", "general", "general", "",
      {"out of memory", "process-id"}),
    service_ntp_restart |-> SystemRow("ntpd", "restart", "", "NTP", {"restart"}),
    hardware_power_supply_failure |-> SystemRow("hw", "ps-fail", "",
      "Power Supply #2 (right)", {"power supply", "Power-Supply"}),
    certificate_renewal_failure |-> SystemRow("general", "general", "management",
      "device-certificate", {"failed", "error", "certificate", "failed to renew"}),
    firmware_software_upgrade_failure |-> SystemRow("general", "general", "upgrade",
      "10.2.4-h4", {"failed", "system software upgrade", "software", "version"}),
    admin_login_success |-> SystemRow("general", "auth-su", "auth", "admin",
      {"authenticated", "user", "From"}),
    configuration_config_install |-> SystemRow("general", "general", "general",
      "running-configuration", {"config installed", "installed"}),
    device_start |-> SystemRow("general", "system-start", "general", "PA-FW-01",
      {"system started", "started"}),
    device_normal_shutdown |-> SystemRow("general", "shutdown", "management",
      "PA-FW-01", {"system shutdown"}),
    interface_up |-> SystemRow("port", "link-change", "ethernet", "ethernet1/24",
      {" up ", "port"}),
    high_availability_non_functional |-> SystemRow("ha", "state-change", "ha",
      "HA Group 1", {"non-functional", "moved from state", "HA-Group", "from-state",
      "to-state"}),
    resource_storage_exhaustion |-> SystemRow("general", "storage-alert",
      "management", "system-storage", {"no space left"}),
    resource_high_cpu_load |-> SystemRow("general", "resource-alert", "management",
      "management-plane", {"high cpu"}),
    service_start |-> SystemRow("ntpd", "start", "", "NTP", {"started"}),
    service_connected |-> SystemRow("syslog", "syslog-connect", "", "10.0.0.2:514",
      {"connection established"}),
    service_connection_failure |-> SystemRow("syslog", "syslog-connect-fail", "",
      "10.230.240.173:1514", {"failed"}),
    hardware_fan_failure |-> SystemRow("hw", "fan-fai", "", "Fan #4", {"fan", "Fan"}),
    hardware_thermal_failure |-> SystemRow("hw", "thermal-alarm", "",
      "Chassis Temperature", {"temperature"}),
    certificate_expiring |-> SystemRow("general", "general", "management",
      "device-certificate", {"certificate", "expires"}),
    certificate_renewed |-> SystemRow("general", "certificate-renew", "management",
      "device-certificate", {"certificate", "renewed"}),
    firmware_plugin_installed |-> SystemRow("general", "general", "upgrade",
      "vm_series-2.1.4", {"plugin", "installed"}),
    unknown_future_system_event |-> SystemRow("future-system", "future-system-event",
      "future-module", "future-object", {}),
    ike_negotiated |-> SystemRow("vpn", "ikev2-n", "", "Branch-IPSec",
      {"negotiation is succeeded", "established sa", "ike"}),
    ike_proposal_mismatch |-> SystemRow("vpn", "ikev2-neg-fail", "ikemgr",
      "Branch-IPSec", {"failed", "negotiation failed", "proposal does not match",
      "ike"}),
    future_vpn_event |-> SystemRow("vpn", "future-vpn-event", "future-module",
      "Future-IPSec-Tunnel", {}),
    bfd_taken_down_by_hand |-> SystemRow("routing", "session-state-change", "bfd",
      "BFD-ISP1", {"down", "bfd ", "administrative down", "changed to down",
      "interface", "BFD-state", "BFD-session", "to-neighbor", "Protocol"}),
    pbf_bypassed_without_nexthop |-> SystemRow("pbf", "nh-down", "",
      "Internet-Backup", {"up", "bypassed", "nexthop", "next-hop", "PBF-rule"}),
    bfd_row |-> SystemRow("bfd", "session-state-change", "bfd", "BFD-ISP1", {"down",
      "bfd ", "changed to down", " down ", "interface", "BFD-state", "BFD-session",
      "to-neighbor", "Protocol"}),
    ike_phase_1_down |-> SystemRow("crypto", "ike-sa-down", "ikemgr", "Branch-IPSec",
      {" is down", "ike sa is down", "ike"}),
    tunnel_monitor_up |-> SystemRow("vpn", "tunnel-status-up", "", "Branch-IPSec",
      {"tunnel", " is up", "ipsec"}),
    tunnel_monitor_down |-> SystemRow("sslvpn", "tunnel-status-down", "",
      "Branch-IPSec", {"timeout", "dpd", "tunnel", " is down", "ipsec"}),
    gateway_error |-> SystemRow("global-protect", "gp-error", "", "gp-gateway",
      {"error", "ssl"}),
    globalprotect_row |-> SystemRow("globalprotect", "gp-info", "", "gp-gateway",
      {"restart", "started"}),
    syslog_disconnected |-> SystemRow("syslog", "syslog-conn-status", "", "",
      {"connected"}),
    daemon_routing_event |-> SystemRow("general", "routed-daemon-start", "general",
      "", {"route daemon", "started"}) ]

GlobalprotectRows ==
  [ gp_registered |-> GpRow("globalprotectgateway-regist-succ", "connected",
      "success", "gp-gateway", "", "", {"user login succeeded"}),
    gp_login_failed |-> GpRow("globalprotectportal-auth-fail", "login", "failure", "",
      "authentication failed", "authentication rejected", {"authentication failed",
      "failed"}),
    gp_configured |-> GpRow("globalprotectportal-config-succ", "configuration",
      "success", "", "", "", {"configuration generated"}),
    gp_tunnel_created |-> GpRow("globalprotect-tunnel-event", "tunnel", "success",
      "gp-gateway", "", "", {"tunnel creation finished", "ssl"}),
    gp_host_checked |-> GpRow("globalprotect-hip-report", "host-info", "success",
      "gp-gateway", "", "", {"hip report"}),
    gp_gateway_error |-> GpRow("globalprotect-gateway-error", "connected", "failure",
      "gp-gateway", "could not connect to the globalprotect gateway",
      "gateway unavailable", {"failed", "connection failed"}),
    gp_prelogin |-> GpRow("portal-prelogin", "before-login", "pending", "", "", "",
      {}),
    gp_logout |-> GpRow("globalprotectgateway-logout-succ", "logout", "success",
      "gp-gateway", "", "user initiated logout", {"logout succeeded"}),
    gp_login |-> GpRow("globalprotectportal-auth-succ", "login", "success", "", "",
      "", {"authentication succeeded"}),
    gp_configuration_released |-> GpRow("globalprotectgateway-config-release",
      "configuration", "success", "gp-gateway", "", "", {"configuration released"}),
    gp_tunnel_down |-> GpRow("globalprotect-tunnel-down", "tunnel", "failure",
      "gp-gateway", "keep-alive timeout", "keep-alive timeout", {"tunnel is down",
      "timeout"}),
    gp_future_event |-> GpRow("globalprotect-future-event", "future-stage", "pending",
      "gp-gateway", "", "", {}) ]

TrafficRows ==
  [ session_start |-> TrafficRow("start", "allow", [rule |-> "allow-all",
      proto |-> "icmp", sport |-> "0", dport |-> "0", natsport |-> "0",
      natdport |-> "0", natsrc |-> "0.0.0.0"]),
    session_end |-> TrafficRow("end", "allow", [rule |-> "allow-all", proto |-> "udp",
      sport |-> "137", dport |-> "137", natsport |-> "11637",
      natsrc |-> "10.193.16.193", bytes |-> "276", pkts_sent |-> "3",
      session_end_reason |-> "aged-out", srcuser |-> "n/a"]),
    traffic_drop |-> TrafficRow("drop", "deny", [rule |-> "allow-all", proto |-> "6",
      sport |-> "62063", dport |-> "70000"]),
    traffic_deny |-> TrafficRow("deny", "reset-both", [rule |-> "allow-all",
      proto |-> "tcp", sport |-> "ephemeral", dport |-> "443"]),
    future_traffic |-> TrafficRow("future-type", "allow", [rule |-> "",
      proto |-> "tcp", sport |-> "50000", dport |-> "443"]) ]

-----------------------------------------------------------------------------
(***************************************************************************)
(* FortiGate logs, and the rows of its traffic table.                      *)
(***************************************************************************)
Device == [devname |-> "FGT-EDGE-01", devid |-> "FGT60F", vd |-> "root"]

FgLog(fields) ==
  [PlainLog EXCEPT !.pairs = fields @@ [date |-> "2026-08-27", time |-> "09:32:00",
                                    type |-> "event", level |-> "notice"]]

TableRow(missing, columns) ==
  LET all == columns @@ [date |-> "2026-08-27", time |-> "09:32:00",
                         logid |-> "0000000013", type |-> "traffic",
                         subtype |-> "forward", srcip |-> "10.0.0.5",
                         dstip |-> "198.51.100.10", devname |-> "FGT-EDGE-01"]
      row == [c \in DOMAIN all \ missing |-> all[c]]
  IN [PlainLog EXCEPT !.cells = row,
                  !.pairs = [c \in {k \in DOMAIN row : row[k] # ""} |-> row[c]]]

SystemLogs ==
  [ fg_admin_login_failed |-> FgLog([logid |-> "0100032002", subtype |-> "system",
      user |-> "admin", method |-> "ssh", srcip |-> "172.16.200.100",
      action |-> "login", status |-> "failed", logdesc |-> "admin login failed"] @@
      Device),
    fg_configuration_changed |-> FgLog([logid |-> "0100032102", subtype |-> "system",
      logdesc |-> "configuration changed", user |-> "admin",
      ui |-> "https(192.168.244.133)", action |-> "config-change"] @@ Device),
    fg_started |-> FgLog([logid |-> "0100032009", subtype |-> "system",
      logdesc |-> "fortigate started", msg |-> "fortigate started"] @@ Device),
    fg_interface_up |-> FgLog([logid |-> "0100020099", subtype |-> "system",
      logdesc |-> "interface status changed", action |-> "interface-stat-change",
      status |-> "up", msg |-> "interface port1 turned up"] @@ Device),
    fg_daemon_started |-> FgLog([logid |-> "0100020204", subtype |-> "system",
      logdesc |-> "daemon started", action |-> "start", daemon |-> "httpsd",
      pid |-> "2451", msg |-> "daemon started"] @@ Device),
    fg_memory_conserve |-> FgLog([logid |-> "0100022011", subtype |-> "system",
      logdesc |-> "memory conserve mode entered", service |-> "kernel",
      conserve |-> "on"] @@ Device),
    fg_firmware_available |-> FgLog([logid |-> "0100032103", subtype |-> "system",
      logdesc |-> "new firmware available on fortiguard", action |-> "firmware-check",
      status |-> "available", version |-> "7.6.x"] @@ Device),
    fg_admin_login |-> FgLog([logid |-> "0100032001", subtype |-> "system",
      user |-> "admin", method |-> "https", srcip |-> "172.16.200.100",
      action |-> "login", status |-> "success", logdesc |-> "admin login successful"]
      @@ Device),
    fg_admin_logout |-> FgLog([logid |-> "0100032003", subtype |-> "system",
      user |-> "admin", method |-> "https", srcip |-> "172.16.200.100",
      action |-> "logout", status |-> "success",
      logdesc |-> "admin logout successful"] @@ Device),
    fg_reboot |-> FgLog([logid |-> "0100032545", subtype |-> "system",
      logdesc |-> "scheduled daily reboot started", action |-> "reboot",
      msg |-> "scheduled daily reboot started"] @@ Device),
    fg_power_failure |-> FgLog([logid |-> "0100032200", subtype |-> "system",
      logdesc |-> "device shutdown", action |-> "shutdown",
      reason |-> "unexpected power failure",
      msg |-> "device shutdown due to unexpected power failure"] @@ Device),
    fg_interface_down |-> FgLog([logid |-> "0100020099", subtype |-> "system",
      logdesc |-> "interface status changed", action |-> "interface-stat-change",
      status |-> "down", msg |-> "interface port1 turned down"] @@ Device),
    fg_statistics |-> FgLog([logid |-> "0100040704", subtype |-> "system",
      logdesc |-> "system performance statistics", action |-> "perf-stats",
      cpu |-> "6", mem |-> "28", disk |-> "3", sysuptime |-> "86400"] @@ Device),
    fg_firmware_failed |-> FgLog([logid |-> "0100022081", subtype |-> "system",
      logdesc |-> "provisioning of latest firmware failed",
      action |-> "firmware-update", status |-> "failed",
      reason |-> "firmware provisioning failed", version |-> "7.6.x"] @@ Device),
    fg_future_event |-> FgLog([logid |-> "0100099999", subtype |-> "system",
      logdesc |-> "future fortigate system feature event",
      action |-> "future-special-action", user |-> "admin",
      customfield |-> "FORTINET_FUTURE_VALUE", anotherfield |-> "12345"]),
    fg_daemon_error |-> FgLog([logid |-> "0100020205", subtype |-> "system",
      logdesc |-> "daemon error", devname |-> "FGT-EDGE-01"]),
    fg_local_login_denied |-> FgLog([logid |-> "0100032010", subtype |-> "system",
      action |-> "login", status |-> "denied", user |-> "unknown", vd |-> "root"]),
    fg_router_event |-> FgLog([logid |-> "0103020300", subtype |-> "router",
      logdesc |-> "bgp neighbor status changed"] @@ Device),
    fg_unbalanced |-> [FgLog([logid |-> "0100032001", subtype |-> "system"] @@ Device)
      EXCEPT !.balanced = FALSE],
    fg_half_clues |-> [PlainLog EXCEPT !.pairs = [date |-> "2026-08-27",
      devname |-> "FGT-EDGE-01", logid |-> "0100032001", type |-> "event"]],
    fg_enough_clues |-> [PlainLog EXCEPT !.pairs = [date |-> "2026-08-27",
      devname |-> "FGT-EDGE-01", subtype |-> "system", type |-> "event"]] ]

VpnLogs ==
  [ fg_ssl_connection |-> FgLog([logid |-> "0101039943", subtype |-> "vpn",
      logdesc |-> "ssl vpn new connection", action |-> "ssl-new-con", user |-> "n/a",
      remip |-> "203.0.113.10", tunneltype |-> "ssl", reason |-> "n/a"] @@ Device),
    fg_user_tunnel_up |-> FgLog([logid |-> "0101039424", subtype |-> "vpn",
      logdesc |-> "ssl vpn tunnel up", action |-> "tunnel-up", user |-> "alice",
      remip |-> "203.0.113.11", tunneltype |-> "ssl-tunnel"] @@ Device),
    fg_ssl_login_failed |-> FgLog([logid |-> "0101039426", subtype |-> "vpn",
      logdesc |-> "ssl vpn login fail", action |-> "ssl-login-fail",
      tunneltype |-> "ssl-web", remip |-> "203.0.113.25", user |-> "alice",
      reason |-> "sslvpn_login_permission_denied"] @@ Device),
    fg_tunnel_up |-> FgLog([logid |-> "0101039947", subtype |-> "vpn",
      logdesc |-> "ssl vpn tunnel up", action |-> "tunnel-up",
      tunneltype |-> "ssl-tunnel", remip |-> "203.0.113.30",
      tunnelip |-> "10.1.250.2", user |-> "alice",
      reason |-> "dtls tunnel established"] @@ Device),
    fg_tunnel_down |-> FgLog([logid |-> "0101039948", subtype |-> "vpn",
      logdesc |-> "ssl vpn tunnel down", action |-> "tunnel-down",
      tunneltype |-> "ssl-tunnel", remip |-> "203.0.113.30",
      tunnelip |-> "10.1.250.2", user |-> "alice",
      reason |-> "user requested termination of service", duration |-> "1415"] @@
      Device),
    fg_tunnel_error |-> FgLog([logid |-> "0101039951", subtype |-> "vpn",
      logdesc |-> "ssl vpn tunnel error", action |-> "tunnel-error",
      tunneltype |-> "ssl-tunnel", remip |-> "203.0.113.35", user |-> "alice",
      reason |-> "ssl session error"] @@ Device),
    fg_ipsec_negotiated |-> FgLog([logid |-> "0101037129", subtype |-> "vpn",
      logdesc |-> "progress ipsec phase 2", action |-> "negotiate",
      remip |-> "203.0.113.40", locip |-> "198.51.100.10", remport |-> "4500",
      locport |-> "4500", vpntunnel |-> "Branch-VPN", status |-> "success",
      stage |-> "2"] @@ Device),
    fg_ipsec_refused |-> FgLog([logid |-> "0101037128", subtype |-> "ipsec",
      logdesc |-> "progress ipsec phase 1", action |-> "negotiate",
      remip |-> "203.0.113.41", locip |-> "198.51.100.10", vpntunnel |-> "Branch-VPN",
      status |-> "failure", stage |-> "1",
      reason |-> "peer sa proposal not match local policy"]),
    fg_phase_1_error |-> FgLog([logid |-> "0101037999", subtype |-> "vpn",
      action |-> "negotiate", reason |-> "error in proposal", stage |-> "one"] @@
      Device),
    fg_tunnel_dropped |-> FgLog([logid |-> "0101037998", subtype |-> "vpn",
      action |-> "tunnel-down", vpntunnel |-> "Branch-VPN", locport |-> "4500"] @@
      Device) ]

TableRows ==
  [ ft_accepted |-> TableRow({}, [tz |-> "+0530", srcport |-> "51422",
      dstport |-> "443", proto |-> "6", action |-> "accept", level |-> "notice",
      sentbyte |-> "4096", policyid |-> "7", sessionid |-> "12345"]),
    ft_denied |-> TableRow({}, [srcport |-> "51422", dstport |-> "22", proto |-> "6",
      action |-> "deny", policyname |-> "Block External"]),
    ft_closed |-> TableRow({}, [srcport |-> "51422", dstport |-> "53", proto |-> "17",
      action |-> "close", app |-> "dns", appid |-> "16195", duration |-> "30"]),
    ft_future_action |-> TableRow({}, [proto |-> "sctp", action |-> "quarantine",
      srcport |-> "137", dstport |-> "137"]),
    ft_junk_columns |-> TableRow({}, [srcport |-> "ephemeral", dstport |-> "53",
      proto |-> "17", action |-> "accept", policyid |-> "seven"]),
    ft_without_time |-> TableRow({"time"}, [proto |-> "1", action |-> "start"]),
    ft_blank_type |-> TableRow({"type"}, [proto |-> "", action |-> "", srcport |-> "",
      apprisk |-> "elevated"]) ]

-----------------------------------------------------------------------------
(***************************************************************************)
(* Cisco lines.                                                            *)
(***************************************************************************)
CiscoLine(time, facility, severity, eventId, forms, groups) ==
  [PlainLog EXCEPT !.header = TRUE, !.time = time, !.facility = facility,
               !.severity = severity, !.event_id = eventId, !.forms = forms,
               !.groups = groups]

AsaLineAt(time, severity, eventId, forms, groups, keywords) ==
  [CiscoLine(time, "ASA", severity, eventId, forms, groups)
     EXCEPT !.asa = eventId, !.source = "cisco", !.phrases = keywords]

AsaLine(severity, eventId, forms, groups, keywords) ==
  AsaLineAt("Aug 27 2026 09:32:00", severity, eventId, forms, groups, keywords)

IosTime == "Aug 24 16:10:11"

IosLine(facility, severity, eventId, forms, groups) ==
  CiscoLine(IosTime, facility, severity, eventId, forms, groups)

OfRouter(facility, severity, eventId, forms, groups) ==
  [IosLine(facility, severity, eventId, forms, groups) EXCEPT !.device = "R1"]

AsaLines ==
  [ tcp_built |-> AsaLine(6, "302013", {"Built-connection"},
      [direction |-> "outbound", protocol |-> "TCP", connection_id |-> "80421",
      first_interface |-> "inside", first_ip |-> "10.0.0.5", first_port |-> "51422",
      second_interface |-> "outside", second_ip |-> "198.51.100.10",
      second_port |-> "443"], {}),
    tcp_teardown |-> AsaLine(6, "302014", {"Teardown-connection"},
      [protocol |-> "TCP", connection_id |-> "80421", first_interface |-> "outside",
      first_ip |-> "198.51.100.10", first_port |-> "443",
      second_interface |-> "inside", second_ip |-> "10.0.0.5",
      second_port |-> "51422", duration |-> "0:00:30", bytes |-> "4096",
      reason |-> "TCP FINs"], {}),
    udp_teardown |-> AsaLine(6, "302016", {"Teardown-connection"},
      [protocol |-> "UDP", connection_id |-> "80422", first_interface |-> "outside",
      first_ip |-> "198.51.100.10", first_port |-> "53",
      second_interface |-> "inside", second_ip |-> "10.0.0.5",
      second_port |-> "51422"], {}),
    deny |-> AsaLine(4, "106023", {"Deny"}, [protocol |-> "tcp",
      first_interface |-> "outside", first_ip |-> "198.51.100.10",
      first_port |-> "443", second_interface |-> "inside", second_ip |-> "10.0.0.5",
      second_port |-> "22", acl |-> "OUTSIDE_IN"], {}),
    permitted |-> AsaLine(6, "106100", {"access-list"}, [acl |-> "INSIDE_OUT",
      decision |-> "permitted", protocol |-> "udp", first_interface |-> "inside",
      first_ip |-> "10.0.0.5", first_port |-> "51422", second_interface |-> "outside",
      second_ip |-> "198.51.100.10", second_port |-> "53"], {}),
    denied |-> AsaLine(6, "106100", {"access-list"}, [acl |-> "INSIDE_OUT",
      decision |-> "denied", protocol |-> "udp", first_interface |-> "inside",
      first_ip |-> "10.0.0.5", first_port |-> "51422", second_interface |-> "outside",
      second_ip |-> "198.51.100.10", second_port |-> "53"], {}),
    nat_built |-> AsaLine(6, "305011", {"Built-translation"}, [nat_type |-> "dynamic",
      protocol |-> "TCP", first_interface |-> "inside", first_ip |-> "10.0.0.5",
      first_port |-> "51422", second_interface |-> "outside",
      translated_ip |-> "198.51.100.1", translated_port |-> "443"], {}),
    nat_teardown |-> AsaLine(6, "305012", {"Teardown-translation"},
      [nat_type |-> "dynamic", protocol |-> "TCP", first_interface |-> "inside",
      first_ip |-> "10.0.0.5", first_port |-> "51422", second_interface |-> "outside",
      translated_ip |-> "198.51.100.1", translated_port |-> "443",
      duration |-> "0:00:30"], {}),
    icmp_built |-> AsaLineAt("", 6, "302020", {"ICMP-connection"},
      [direction |-> "inbound", foreign_ip |-> "198.51.100.10",
      global_ip |-> "198.51.100.1", local_ip |-> "10.0.0.5"], {}),
    icmp_teardown |-> AsaLine(6, "302021", {"ICMP-connection"},
      [foreign_ip |-> "198.51.100.10", global_ip |-> "198.51.100.1",
      local_ip |-> "10.0.0.5"], {}),
    gre_built |-> AsaLine(6, "302017", {"GRE-connection"}, [direction |-> "inbound",
      first_interface |-> "outside", first_ip |-> "198.51.100.10",
      second_interface |-> "inside", second_ip |-> "10.0.0.5"], {}),
    gre_teardown |-> AsaLine(6, "302018", {"GRE-connection"},
      [direction |-> "inbound", first_interface |-> "outside",
      first_ip |-> "198.51.100.10", second_interface |-> "inside",
      second_ip |-> "10.0.0.5", duration |-> "0:00:30"], {}),
    sctp_built |-> AsaLine(6, "302013", {}, Empty, {}),
    threat_rate |-> AsaLine(4, "733100", {}, Empty, {}),
    without_time |-> AsaLineAt("", 6, "302013", {"Built-connection"},
      [direction |-> "outbound", protocol |-> "TCP", connection_id |-> "80421",
      first_interface |-> "inside", first_ip |-> "10.0.0.5", first_port |-> "51422",
      second_interface |-> "outside", second_ip |-> "198.51.100.10",
      second_port |-> "443"], {}),
    wide_port |-> AsaLine(6, "302013", {"Built-connection"},
      [direction |-> "outbound", protocol |-> "TCP", connection_id |-> "80421",
      first_interface |-> "inside", first_ip |-> "10.0.0.5", first_port |-> "70000",
      second_interface |-> "outside", second_ip |-> "198.51.100.10",
      second_port |-> "443"], {}) ]

AsaVpnLines ==
  [ webvpn_start |-> AsaLine(6, "716001", {"group-user-ip"}, [group |-> "employees",
      user |-> "alice", ip |-> "198.51.100.24"], {"webvpn", "vpn"}),
    webvpn_end |-> AsaLine(6, "716002", {"group-user-ip"}, [group |-> "employees",
      user |-> "alice", ip |-> "198.51.100.24"], {"webvpn", "vpn"}),
    address_assigned |-> AsaLine(4, "722051", {"address-assigned"},
      [group |-> "employees", user |-> "alice", ip |-> "198.51.100.24",
      assigned_ip |-> "10.1.250.2", ipv6 |-> "::"], {}),
    session_disconnected |-> [AsaLine(4, "113019", {"session-disconnected"},
      [group |-> "employees", user |-> "alice", ip |-> "198.51.100.24",
      session_type |-> "SSL", duration |-> "0h:10m:00s", bytes_sent |-> "4096",
      bytes_received |-> "512", reason |-> "User Requested"], {}) EXCEPT !.columns =
      8],
    session_resumed |-> AsaLine(6, "725003", {"resume-session"},
      [interface |-> "outside", src_ip |-> "198.51.100.24", src_port |-> "51422"],
      {}),
    session_terminated |-> AsaLine(5, "722050", {"group-user-ip"},
      [group |-> "employees", user |-> "alice", ip |-> "198.51.100.24",
      reason |-> "SVC not enabled"], {}),
    session_cut_off |-> AsaLine(5, "722050", {"group-user-ip"},
      [group |-> "employees", user |-> "alice", ip |-> "198.51.100.24"], {}),
    unsupported_client |-> AsaLine(6, "722053", {"group-user-ip"},
      [group |-> "employees", user |-> "alice", ip |-> "198.51.100.24"], {}),
    mapping_added |-> AsaLine(5, "746012", {"add-mapping"}, [ip |-> "10.1.250.2",
      user |-> "alice", result |-> "Succeeded"], {"vpn"}),
    mapping_failed |-> AsaLine(5, "746012", {"add-mapping"}, [ip |-> "10.1.250.2",
      user |-> "alice", result |-> "Failed"], {"vpn"}),
    webvpn_redirected |-> AsaLine(6, "716003", {}, Empty, {"webvpn", "vpn"}) ]

\* the reasons of OSPF with a colon: the usual one, and one with another label
TimerExpired == "Neighbor Down: Dead timer expired"
TooManyRetries == "Too many retransmissions: neighbor held down"

IosLines ==
  [ link_up |-> IosLine("LINK", 3, "UPDOWN", {"Interface"}, [interface |-> "Gi0/1",
      state |-> "up"]),
    line_protocol_down |-> IosLine("LINEPROTO", 5, "UPDOWN", {"Line-protocol"},
      [interface |-> "Gi0/1", state |-> "down"]),
    bgp_up |-> IosLine("BGP", 5, "ADJCHANGE", {"neighbor"}, [neighbor |-> "10.0.0.2",
      state |-> "Up"]),
    bgp_down |-> IosLine("BGP", 5, "ADJCHANGE", {"neighbor"},
      [neighbor |-> "10.0.0.2", state |-> "Down", reason |-> "Interface flap"]),
    ospf_full |-> [IosLine("OSPF", 5, "ADJCHG", {"Process"}, [process |-> "1",
      neighbor |-> "10.0.0.2", interface |-> "Gi0/1", old |-> "LOADING",
      new |-> "FULL", reason |-> "Loading Done"]) EXCEPT !.columns = 3],
    ospf_down |-> [IosLine("OSPF", 5, "ADJCHG", {"Process"}, [process |-> "1",
      neighbor |-> "10.0.0.2", interface |-> "Gi0/1", old |-> "FULL", new |-> "DOWN",
      reason |-> TimerExpired]) EXCEPT !.columns = 3],
    ospf_held |-> [IosLine("OSPF", 5, "ADJCHG", {"Process"}, [process |-> "1",
      neighbor |-> "10.0.0.2", interface |-> "Gi0/1", old |-> "FULL", new |-> "DOWN",
      reason |-> TooManyRetries]) EXCEPT !.columns = 3],
    ospf_unexplained |-> [IosLine("OSPF", 5, "ADJCHG", {"Process"}, [process |-> "1",
      neighbor |-> "10.0.0.2", interface |-> "Gi0/1", old |-> "FULL", new |-> "DOWN",
      reason |-> ""]) EXCEPT !.columns = 3],
    ospf_exstart |-> IosLine("OSPF", 5, "ADJCHG", {"Process"}, [process |-> "1",
      neighbor |-> "10.0.0.2", interface |-> "Gi0/1", old |-> "INIT",
      new |-> "EXSTART"]),
    eigrp_down |-> IosLine("DUAL", 5, "NBRCHANGE", {"EIGRP"}, [asn |-> "100",
      neighbor |-> "10.0.0.2", interface |-> "Gi0/1", state |-> "down",
      reason |-> "holding time expired"]),
    isis_up |-> IosLine("CLNS", 5, "ADJCHANGE", {"ISIS"}, [neighbor |-> "R2",
      interface |-> "Gi0/1", state |-> "Up"]),
    configured |-> IosLine("SYS", 5, "CONFIG_I", {"Configured"}, [user |-> "admin",
      src_ip |-> "10.0.0.5"]),
    configured_locally |-> IosLine("SYS", 5, "CONFIG_I", {"Configured"},
      [user |-> "admin"]),
    login_success |-> IosLine("SEC_LOGIN", 5, "LOGIN_SUCCESS", {"Login-Success"},
      [user |-> "admin", src_ip |-> "10.0.0.5", port |-> "22"]),
    login_failed |-> IosLine("SEC_LOGIN", 4, "LOGIN_FAILED", {"Login-failed"},
      [user |-> "admin", src_ip |-> "10.0.0.5", port |-> "22"]),
    acl_denied |-> IosLine("SEC", 6, "IPACCESSLOGP", {"list"}, [acl |-> "101",
      decision |-> "denied", protocol |-> "tcp", src_ip |-> "198.51.100.10",
      src_port |-> "443", dst_ip |-> "10.0.0.5", dst_port |-> "22", packets |-> "1"]),
    acl_permitted |-> IosLine("SEC", 6, "IPACCESSLOGP", {"list"}, [acl |-> "101",
      decision |-> "permitted", protocol |-> "tcp", src_ip |-> "198.51.100.10",
      src_port |-> "443", dst_ip |-> "10.0.0.5", dst_port |-> "22", packets |-> "1"]),
    nat_created |-> IosLine("NAT", 6, "TRANSLATION_CREATE", {"Created"},
      [protocol |-> "tcp", original_ip |-> "10.0.0.5", original_port |-> "51422",
      translated_ip |-> "198.51.100.1", translated_port |-> "443"]),
    nat_deleted |-> IosLine("NAT", 6, "TRANSLATION_DELETE", {"Deleted"},
      [protocol |-> "tcp", original_ip |-> "10.0.0.5", original_port |-> "51422",
      translated_ip |-> "198.51.100.1", translated_port |-> "443"]),
    dhcp_assigned |-> IosLine("DHCPD", 6, "ADDRESS_ASSIGN", {"Assigned"},
      [ip |-> "10.0.0.9", mac |-> "00:11:22:33:44:55"]),
    dhcp_released |-> IosLine("DHCPD", 6, "ADDRESS_RELEASE", {"Released"},
      [ip |-> "10.0.0.9", mac |-> "00:11:22:33:44:55"]),
    reload_requested |-> IosLine("SYS", 5, "RELOAD", {"Reload"}, [user |-> "admin",
      source |-> "console", reason |-> "Upgrade."]),
    cpu_hog |-> IosLine("SYS", 3, "CPUHOG", {"Task"}, [msec |-> "4096",
      process |-> "BGP Scanner"]),
    uptime_clock |-> CiscoLine("00:00:46", "LINK", 3, "UPDOWN", {"Interface"},
      [interface |-> "Gi0/1", state |-> "down"]),
    no_such_day |-> CiscoLine("Feb 30 16:10:11", "LINK", 3, "UPDOWN", {"Interface"},
      [interface |-> "Gi0/1", state |-> "up"]),
    link_flapping |-> IosLine("LINK", 3, "UPDOWN", {}, Empty),
    unknown_facility |-> IosLine("PIM", 6, "INVALID_RP_JOIN", {}, Empty) ]

IosSystemLines ==
  [ system_reload |-> IosLine("SYS", 5, "RELOAD", {"Reload"}, [user |-> "admin",
      source |-> "console", reason |-> "Upgrade."]),
    system_reload_by_hand |-> IosLine("SYS", 5, "RELOAD", {"Reload"},
      [user |-> "admin", source |-> "console", reason |-> "Reload Command"]),
    system_restarted |-> IosLine("SYS", 5, "RESTART", {"System-restarted"},
      [software |-> "Cisco IOS 15.2"]),
    task_ran |-> IosLine("SYS", 3, "CPUHOG", {"Task"}, [msec |-> "4096",
      process |-> "BGP Scanner"]),
    malloc_failed |-> IosLine("SYS", 2, "MALLOCFAIL", {"Memory-allocation"},
      [bytes |-> "4096", address |-> "0x60A1", alignment |-> "16"]),
    malloc_failed_here |-> IosLine("SYS", 2, "MALLOCFAIL", {"Memory-allocation"},
      [bytes |-> "4096"]),
    power_failed |-> IosLine("PLATFORM_ENV", 1, "PWRFAIL", {"Power-supply"},
      [id |-> "PS1"]),
    fan_failed |-> IosLine("PLATFORM_ENV", 1, "FANFAIL", {"Fan"}, [id |-> "FAN2"]),
    too_hot |-> IosLine("PLATFORM_ENV", 1, "TEMP", {"Temperature"}, [id |-> "inlet"]),
    crashed |-> IosLine("SYS", 2, "CRASH", {"Process-crashed"},
      [process |-> "BGP Scanner"]),
    interface_broken |-> IosLine("LINK", 3, "ERROR", {"Interface-error"},
      [interface |-> "Gi0/1"]),
    clock_changed |-> IosLine("SYS", 6, "CLOCKUPDATE", {"System-clock"},
      [old |-> "16:10:11", new |-> "16:12:00"]),
    configuration_saved |-> IosLine("SYS", 5, "CONFIG_SAVE", {"Configuration-saved"},
      [destination |-> "startup-config", user |-> "admin"]),
    module_failed |-> IosLine("MODULE", 2, "FAILURE", {"Module"}, [id |-> "3"]),
    module_removed |-> IosLine("MODULE", 2, "REMOVED", {}, Empty),
    no_severity |-> IosLine("SYS", 9, "RESTART", {"System-restarted"},
      [software |-> "Cisco IOS 15.2"]) ]

RoutingLines ==
  [ neighbor_up |-> OfRouter("BGP", 5, "ADJCHANGE", {"neighbor"},
      [neighbor |-> "10.0.0.2", state |-> "Up"]),
    neighbor_down |-> OfRouter("BGP", 5, "ADJCHANGE", {"neighbor"},
      [neighbor |-> "10.0.0.2", state |-> "Down", reason |-> "Interface flap"]),
    prefix_advertised |-> OfRouter("BGP", 6, "UPDATE", {"Advertised-prefix"},
      [prefix |-> "192.0.2.0/24", neighbor |-> "10.0.0.2"]),
    prefix_withdrawn |-> OfRouter("BGP", 6, "UPDATE", {"Withdrawn-prefix"},
      [prefix |-> "192.0.2.0/24", neighbor |-> "10.0.0.2"]),
    adjacency_full |-> [OfRouter("OSPF", 5, "ADJCHG", {"Process"}, [process |-> "1",
      neighbor |-> "10.0.0.2", interface |-> "Gi0/1", old_state |-> "LOADING",
      new_state |-> "FULL", reason |-> "Loading Done"]) EXCEPT !.columns = 3],
    adjacency_down |-> [OfRouter("OSPF", 5, "ADJCHG", {"Process"}, [process |-> "1",
      neighbor |-> "10.0.0.2", interface |-> "Gi0/1", old_state |-> "FULL",
      new_state |-> "DOWN", reason |-> TimerExpired]) EXCEPT !.columns = 3],
    adjacency_held |-> [OfRouter("OSPF", 5, "ADJCHG", {"Process"}, [process |-> "1",
      neighbor |-> "10.0.0.2", interface |-> "Gi0/1", old_state |-> "FULL",
      new_state |-> "DOWN", reason |-> TooManyRetries]) EXCEPT !.columns = 3],
    adjacency_unexplained |-> [OfRouter("OSPF", 5, "ADJCHG", {"Process"},
      [process |-> "1", neighbor |-> "10.0.0.2", interface |-> "Gi0/1",
      old_state |-> "FULL", new_state |-> "DOWN", reason |-> ""])
      EXCEPT !.columns = 3],
    adjacency_exstart |-> OfRouter("OSPF", 5, "ADJCHG", {"Process"}, [process |-> "1",
      neighbor |-> "10.0.0.2", interface |-> "Gi0/1", old_state |-> "INIT",
      new_state |-> "EXSTART"]),
    ospf_route_learned |-> OfRouter("OSPF", 6, "ROUTE", {"learned-via"},
      [prefix |-> "192.0.2.0/24", next_hop |-> "10.0.0.2", metric |-> "16"]),
    ospf_route_removed |-> OfRouter("OSPF", 6, "ROUTE",
      {"removed-from-routing-table"}, [prefix |-> "192.0.2.0/24"]),
    route_added |-> OfRouter("ROUTING", 6, "STATIC", {"added-via"},
      [prefix |-> "192.0.2.0/24", next_hop |-> "10.0.0.2"]),
    route_removed |-> OfRouter("ROUTING", 6, "STATIC", {"removed"},
      [prefix |-> "192.0.2.0/24"]),
    next_hop_changed |-> OfRouter("ROUTING", 6, "STATIC", {"next-hop-changed"},
      [prefix |-> "192.0.2.0/24", old_next_hop |-> "10.0.0.2",
      new_next_hop |-> "10.0.0.5"]),
    route_flapping |-> OfRouter("ROUTING", 6, "STATIC", {}, Empty),
    unnamed_severity |-> OfRouter("BGP", 8, "ADJCHANGE", {"neighbor"},
      [neighbor |-> "10.0.0.2", state |-> "Up"]) ]

-----------------------------------------------------------------------------
(***************************************************************************)
(* The other sources of the demonstration.                                 *)
(***************************************************************************)
LinuxLine(time, forms, groups) ==
  [PlainLog EXCEPT !.source = "linux", !.time = time, !.forms = forms, !.groups = groups]

Payload ==
  [timestamp |-> Text("2026-08-27T09:35:00+0000"), vendor |-> Text("Suricata"),
   product |-> Text("IDS"), signature |-> Text("ET SCAN"), category |-> Text("scan"),
   src_ip |-> Text("10.0.0.5"), src_port |-> Number(51422),
   dest_ip |-> Text("198.51.100.10"), dest_port |-> Number(22), proto |-> Text("TCP"),
   severity |-> Number(1), signature_id |-> Text("2010935"), rev |-> Number(2),
   flow_id |-> Number(99)]

Alert(missing, changes) ==
  [PlainLog EXCEPT !.source = "suricata", !.marks = {"JSON"},
               !.forms = {"object", "source", "alert"},
               !.payload = LET p == changes @@ Payload
                           IN [k \in DOMAIN p \ missing |-> p[k]]]

LinuxLines ==
  [ failed_password |-> LinuxLine("2026-08-27T09:32:00Z", {"Failed-password"},
      [user |-> "admin", ip |-> "10.0.0.15"]),
    sudo_command |-> [LinuxLine("2026-08-27T09:32:00Z", {"sudo"}, [user |-> "deploy",
      command |-> "/usr/bin/systemctl restart agent"]) EXCEPT !.pairs =
      [TTY |-> "pts/0", PWD |-> "/srv/app", USER |-> "root",
      COMMAND |-> "/usr/bin/systemctl"]],
    session_opened |-> LinuxLine("2026-08-27T09:32:00Z", {}, Empty),
    undated_password |-> LinuxLine("", {"Failed-password"}, [user |-> "admin",
      ip |-> "10.0.0.15"]) ]

Alerts ==
  [ alert_critical |-> Alert({}, Empty),
    alert_high |-> Alert({}, [severity |-> Number(2)]),
    alert_medium |-> Alert({}, [severity |-> Number(3)]),
    alert_unrated |-> Alert({}, [severity |-> Number(4)]),
    alert_without_source |->
      [Alert({"vendor", "product"}, Empty) EXCEPT !.forms = {"object", "alert"}],
    alert_with_wide_port |-> Alert({}, [dest_port |-> Number(70000)]),
    alert_without_id |-> Alert({"signature_id"}, Empty),
    alert_without_product |-> Alert({"product"}, Empty),
    alert_without_time |-> Alert({"timestamp"}, Empty) ]

OtherLines ==
  [ blank_line |->
      [PlainLog EXCEPT !.kind = "blank", !.marks = {"blank"}, !.source = "linux"],
    comment_line |-> [PlainLog EXCEPT !.kind = "comment", !.source = "cisco"],
    heartbeat |-> PlainLog,
    cef_line |-> [PlainLog EXCEPT !.marks = {"CEF", "PRI"}],
    leef_line |-> [PlainLog EXCEPT !.marks = {"LEEF"}],
    xml_line |-> [PlainLog EXCEPT !.marks = {"XML"}],
    pri_line |-> [PlainLog EXCEPT !.marks = {"PRI"}],
    short_row |-> [SystemRow("general", "general", "", "", {}) EXCEPT !.columns = 10] ]

-----------------------------------------------------------------------------
Named(name, log) ==
  [log EXCEPT !.text = name, !.message = "message: " \o name,
              !.cells = IF "description" \in DOMAIN log.cells
                        THEN [log.cells EXCEPT !["description"] = name]
                        ELSE log.cells]

MCLogs ==
  LET all == SystemRows @@ GlobalprotectRows @@ TrafficRows
             @@ SystemLogs @@ VpnLogs @@ TableRows
             @@ AsaLines @@ AsaVpnLines @@ IosLines
             @@ IosSystemLines @@ RoutingLines @@ LinuxLines
             @@ Alerts @@ OtherLines
  IN [name \in DOMAIN all |-> Named(name, all[name])]

(***************************************************************************)
(* What is found in short texts: event ids, fields and causes.             *)
(***************************************************************************)
Short ==
  ("routed-BGP-peer-enter-established" :> {"bgp", "enter-established", "^routed-"})
  @@ ("routed-OSPF-neighbor-down" :> {"ospf", "neighbor-down", "^routed-"})
  @@ ("routed-RIP-peer-del" :> {"rip", "peer-del", "^routed-"})
  @@ ("path-monitor-failure" :> {"path-monitor-failure", "^path-monitor-"})
  @@ ("routed-ECMP" :> {"ecmp", "^routed-"})
  @@ ("routed-PIM-interface-state-changed" :>
       {"pim", "interface-state-changed", "^routed-"})
  @@ ("route-table-capacity" :> {"route-table-capacity", "^route-table-"})
  @@ ("routed-config-p1-failed" :> {"routed-config-p1-failed", "^routed-"})
  @@ ("routed-BGP-peer-left-established" :> {"bgp", "left-established", "^routed-"})
  @@ ("routed-BGP-peer-prefix-exceeded" :> {"bgp", "prefix", "exceeded", "^routed-"})
  @@ ("routed-BGP-peer-restarted" :> {"bgp", "^routed-"})
  @@ ("routed-BGP-refresh-sent" :> {"bgp", "^routed-"})
  @@ ("routed-OSPF-neighbor-full" :> {"ospf", "neighbor-full", "^routed-"})
  @@ ("routed-OSPF-md5chksum-bad" :> {"ospf", "md5", "^routed-"})
  @@ ("routed-OSPF-hello-hello-intval-bad" :> {"ospf", "hello", "^routed-"})
  @@ ("routed-RIP-auth-failed" :> {"auth", "rip", "auth-failed", "^routed-"})
  @@ ("admin-down" :> {"admin-down"})
  @@ ("path-monitor-recovery" :> {"path-monitor-recovery", "^path-monitor-"})
  @@ ("pbf-fqdn-down" :> {"pbf-fqdn-down"})
  @@ ("routed-RTM-bad-route" :> {"rtm-bad-route", "^routed-"})
  @@ ("routed-future-feature-event" :> {"^routed-"}) @@ ("auth-fail" :> {"auth-fail"})
  @@ ("restart" :> {"restart", "start"}) @@ ("ps-fail" :> {"ps-fail"})
  @@ ("auth-su" :> {"auth-su"}) @@ ("system-start" :> {"start"})
  @@ ("start" :> {"start"}) @@ ("fan-fai" :> {"fan-fai"})
  @@ ("globalprotectgateway-regist-succ" :> {"regist-succ"})
  @@ ("globalprotectportal-auth-fail" :> {"auth-fail"}) @@ ("failure" :> {"failure"})
  @@ ("authentication failed" :> {"authentication failed", "failed"})
  @@ ("globalprotectportal-config-succ" :> {"config-succ"}) @@ ("ikev2-n" :> {"ike"})
  @@ ("globalprotect-gateway-error" :> {"error"})
  @@ ("could not connect to the globalprotect gateway" :> {"could not connect"})
  @@ ("portal-prelogin" :> {"prelogin"})
  @@ ("globalprotectgateway-logout-succ" :> {"logout-succ"})
  @@ ("globalprotectportal-auth-succ" :> {"auth-succ"})
  @@ ("globalprotectgateway-config-release" :> {"config-release"})
  @@ ("globalprotect-tunnel-down" :> {"tunnel-down"})
  @@ ("keep-alive timeout" :> {"timeout"}) @@ ("ikev2-neg-fail" :> {"ike"})
  @@ ("ike-sa-down" :> {"ike"}) @@ ("tunnel-status-up" :> {"tunnel"})
  @@ ("tunnel-status-down" :> {"tunnel"}) @@ ("sslvpn" :> {"ssl"})
  @@ ("gp-error" :> {"error"}) @@ ("routed-daemon-start" :> {"^routed-", "start"})
  @@ ("failed" :> {"failed"}) @@ ("admin login failed" :> {"failed"})
  @@ ("FGT-EDGE-01" :> {"^FGT"}) @@ ("FGT60F" :> {"^FGT", "^FG"})
  @@ ("configuration changed" :> {"configuration changed"})
  @@ ("interface port1 turned up" :> {"interface-name"})
  @@ ("daemon started" :> {"daemon"})
  @@ ("memory conserve mode entered" :> {"memory conserve"})
  @@ ("device shutdown" :> {"device shutdown"})
  @@ ("device shutdown due to unexpected power failure" :>
       {"unexpected", "power failure", "failure", "device shutdown"})
  @@ ("unexpected power failure" :> {"unexpected", "power failure", "failure"})
  @@ ("interface port1 turned down" :> {"interface-name"})
  @@ ("provisioning of latest firmware failed" :> {"failed"})
  @@ ("firmware provisioning failed" :> {"failed"})
  @@ ("daemon error" :> {"error", "daemon"})
  @@ ("ssl vpn new connection" :> {"vpn", "ssl vpn"}) @@ ("ssl" :> {"ssl"})
  @@ ("ssl vpn tunnel up" :> {"vpn", "ssl vpn"}) @@ ("ssl-tunnel" :> {"ssl"})
  @@ ("ssl vpn login fail" :> {"vpn", "ssl vpn"}) @@ ("ssl-web" :> {"ssl"})
  @@ ("ssl vpn tunnel down" :> {"vpn", "ssl vpn"}) @@ ("tunnel-error" :> {"error"})
  @@ ("ssl vpn tunnel error" :> {"error", "vpn", "ssl vpn"})
  @@ ("ssl session error" :> {"error"}) @@ ("progress ipsec phase 2" :> {"ipsec"})
  @@ ("progress ipsec phase 1" :> {"ipsec"}) @@ ("error in proposal" :> {"error"})

-----------------------------------------------------------------------------
\* the whole numbers in the logs
Whole ==
  {0, 1, 2, 3, 6, 7, 16, 17, 22, 28, 30, 53, 100, 137, 276, 443, 512, 600, 1415,
   2451, 4096, 4500, 11637, 12345, 16195, 50000, 51422, 62063, 70000, 86400, 500001}

MCNumerals == [s \in {ToString(n) : n \in Whole} |-> CHOOSE n \in Whole : ToString(n) = s]

MCIsoForm ==
  (PanosTime :> "2026-08-27T09:32:00") @@ (IosTime :> "2026-08-24T16:10:11")
  @@ ("Aug 27 2026 09:32:00" :> "2026-08-27T09:32:00")
  @@ ("2026-08-27T09:32:00Z" :> "2026-08-27T09:32:00+00:00") @@ ("+0530" :> "+05:30")

MCColonParts ==
  (TimerExpired :> <<"Neighbor Down", "Dead timer expired">>)
  @@ (TooManyRetries :> <<"Too many retransmissions", "neighbor held down">>)

MCUndotted == ("Upgrade." :> "Upgrade")

MCIsoTimes ==
  [t \in {"2026-08-27T09:32:00", "2026-08-24T16:10:11", "2026-08-27T09:32:00+00:00",
          "2026-08-27T09:32:00+05:30", "2026-08-27T09:35:00+0000"} |-> 1787]

\* the words that are compared without case
MCLowerCase ==
  [w \in {"TRAFFIC", "ROUTER", "SYSTEM", "DEVICE", "VPN", "Cisco", "ASA", "IOS",
          "Fortinet", "FortiGate", "Palo Alto Networks", "PAN-OS", "Linux",
          "Suricata", "Neighbor Down", "Up", "Down", "Succeeded", "Failed", "ROUTING",
          "ROUTE",
          "ROUTING_PEER", "BFD_SESSION", "PBF_RULE", "ROUTE_TABLE",
          "ROUTING_DAEMON", "VIRTUAL_ROUTER", "ROUTING_PROTOCOL"} |->
     CASE w = "TRAFFIC" -> "traffic" [] w = "ROUTER" -> "router"
       [] w = "SYSTEM" -> "system" [] w = "DEVICE" -> "device" [] w = "VPN" -> "vpn"
       [] w = "Cisco" -> "cisco" [] w = "ASA" -> "asa" [] w = "IOS" -> "ios"
       [] w = "Fortinet" -> "fortinet" [] w = "FortiGate" -> "fortigate"
       [] w = "Palo Alto Networks" -> "palo alto networks" [] w = "PAN-OS" -> "pan-os"
       [] w = "Linux" -> "linux" [] w = "Suricata" -> "suricata" [] w = "Up" -> "up"
       [] w = "Neighbor Down" -> "neighbor down"
       [] w = "Down" -> "down" [] w = "Succeeded" -> "succeeded"
       [] w = "Failed" -> "failed" [] w = "ROUTING" -> "routing"
       [] w = "ROUTE" -> "route" [] w = "ROUTING_PEER" -> "routing_peer"
       [] w = "BFD_SESSION" -> "bfd_session" [] w = "PBF_RULE" -> "pbf_rule"
       [] w = "ROUTE_TABLE" -> "route_table" [] w = "ROUTING_DAEMON" -> "routing_daemon"
       [] w = "VIRTUAL_ROUTER" -> "virtual_router"
       [] w = "ROUTING_PROTOCOL" -> "routing_protocol"]

MCUpperCase ==
  ("tcp" :> "TCP") @@ ("udp" :> "UDP") @@ ("icmp" :> "ICMP") @@ ("sctp" :> "SCTP")
  @@ ("general" :> "GENERAL") @@ ("ntpd" :> "NTPD") @@ ("syslog" :> "SYSLOG")

MCEventIdOf ==
  LET Ids(log) == IF "logid" \in DOMAIN log.pairs THEN {log.pairs.logid} ELSE {}
      Short5 == {"20099", "20204", "20205", "22011", "22081", "32001", "32002", "32003",
                 "32009", "32010", "32102", "32103", "32200", "32545", "40704", "99999",
                 "37128", "37129", "37998", "37999", "39424", "39426", "39943", "39947",
                 "39948", "39951", "20300", "00013"}
      Leading == {"01000", "01010", "01030", "00000"}
      all == UNION {Ids(MCLogs[n]) : n \in DOMAIN MCLogs}
  IN [id \in all |-> CHOOSE s \in Short5 : \E p \in Leading : p \o s = id]

MCPhrasesIn ==
  LET Texts0(f) == {f[k] : k \in DOMAIN f}
      texts == {""} \cup DOMAIN MCLogs \cup DOMAIN Short
               \cup UNION {Texts0(MCLogs[n].cells) \cup Texts0(MCLogs[n].pairs) :
                             n \in DOMAIN MCLogs}
  IN [t \in texts |->
        (IF t \in DOMAIN MCLogs THEN MCLogs[t].phrases ELSE {})
        \cup (IF t \in DOMAIN Short THEN Short[t] ELSE {})]

-----------------------------------------------------------------------------
Job(converter, logs) == [converter |-> converter, logs |-> logs]

Alone(converter, samples) == {Job(converter, <<n>>) : n \in DOMAIN samples}

PanosRows == SystemRows @@ GlobalprotectRows @@ TrafficRows

SingleJobs ==
  UNION ({Alone(parser, PanosRows) : parser \in PanosParsers}
         \cup {Alone(parser, SystemLogs @@ VpnLogs) :
                 parser \in {"fortigate.system", "fortigate.vpn"}})
  \cup Alone("fortigate.traffic", TableRows) \cup Alone("fortigate.router", RoutingLines)
  \cup Alone("cisco.traffic", AsaLines) \cup Alone("cisco.vpn", AsaVpnLines)
  \cup Alone("cisco.router", IosLines) \cup Alone("cisco.system", IosSystemLines)
  \cup Alone("demo", AsaLines @@ AsaVpnLines @@ Alerts @@ LinuxLines)

MixedJobs ==
  {Job("cisco.traffic", <<"comment_line", "heartbeat", "tcp_built", "blank_line",
                          "webvpn_end", "tcp_teardown">>),
   Job("cisco.vpn", <<"webvpn_start", "heartbeat", "comment_line", "mapping_added">>),
   Job("cisco.router", <<"link_up", "blank_line", "unknown_facility", "bgp_down">>),
   Job("cisco.system", <<"module_removed", "fan_failed", "comment_line", "crashed">>),
   Job("fortigate.router", <<"blank_line", "neighbor_up", "comment_line",
                             "route_removed">>),
   Job("fortigate.traffic", <<"ft_accepted", "blank_line", "ft_denied">>),
   Job("fortigate.system", <<"blank_line", "fg_reboot", "fg_tunnel_dropped",
                             "fg_admin_login">>),
   Job("fortigate.vpn", <<"fg_reboot", "fg_user_tunnel_up", "heartbeat",
                          "fg_tunnel_dropped">>),
   Job("paloalto.router", <<"session_start", "bgp_peer_down", "short_row",
                            "pbf_rule_bypassed">>),
   Job("paloalto.system", <<"heartbeat", "device_start", "gp_login", "interface_up">>),
   Job("paloalto.vpn", <<"bgp_peer_down", "gp_login", "gp_logout">>),
   Job("paloalto.traffic", <<"device_start", "session_start", "session_end">>),
   Job("demo", <<"tcp_built", "webvpn_start", "alert_critical", "failed_password",
                 "blank_line", "sudo_command">>),
   Job("demo", <<"tcp_built", "comment_line", "alert_high">>),
   Job("demo", <<"nat_built", "alert_without_source", "failed_password">>),
   Job("demo", <<"deny", "alert_medium", "failed_password", "session_opened">>)}

MCJobs == SingleJobs \cup MixedJobs
=============================================================================
