---------------------------- MODULE CiscoRouter ----------------------------
(***************************************************************************)
(* The converter of Cisco IOS router logs.                                 *)
(***************************************************************************)
EXTENDS CiscoLog

Patterns ==
  LET translation == {"protocol", "original_ip", "original_port", "translated_ip",
                      "translated_port"}
      translationPorts == {"original_port", "translated_port"}
      login == {"user", "src_ip", "port"}
      lease == {"ip", "mac"}
  IN {Pattern("Interface", {"interface", "state"}, {}),
      Pattern("Line-protocol", {"interface", "state"}, {}),
      Pattern("neighbor", {"neighbor", "state", "reason"}, {}),
      Pattern("Process", {"process", "neighbor", "interface", "old", "new", "reason"},
              {"process"}),
      Pattern("EIGRP", {"asn", "neighbor", "interface", "state", "reason"}, {"asn"}),
      Pattern("ISIS", {"neighbor", "interface", "state"}, {}),
      Pattern("Configured", {"user", "src_ip"}, {}),
      Pattern("Login-Success", login, {"port"}), Pattern("Login-failed", login, {"port"}),
      Pattern("list", {"acl", "decision", "protocol", "src_ip", "src_port", "dst_ip",
                       "dst_port", "packets"}, {"src_port", "dst_port", "packets"}),
      Pattern("Created", translation, translationPorts),
      Pattern("Deleted", translation, translationPorts),
      Pattern("Assigned", lease, {}), Pattern("Released", lease, {}),
      Pattern("Reload", {"user", "source", "reason"}, {}),
      Pattern("Task", {"msec", "process"}, {"msec"})}

Kind(category, subtype) == Texts([category |-> category, subtype |-> subtype])

Object(m, type, name) ==
  [object_type |-> Text(type), object_name |-> Group(m, name)]

\* what changed to "up" or "down"
State(m) == Lower(m.groups.state)

StateChange(m, subtype, what) ==
  Kind("network_activity", subtype)
  ++ [outcome |-> Outcome(State(m) = "up"), action |-> Text(what \o State(m))]

InterfaceState(m, subtype, what) ==
  Parsed(StateChange(m, subtype, what) ++ Object(m, "network_interface", "interface"),
         [interface |-> Group(m, "interface"), new_state |-> Text(State(m))])

ParseLink(m) ==
  Match(m, "Interface", InterfaceState(m, "interface_state", "interface_"))

ParseLineproto(m) ==
  Match(m, "Line-protocol",
        InterfaceState(m, "line_protocol_state", "line_protocol_"))

\* the peer of a routing protocol goes where the destination of traffic goes
Neighbor(m, protocol) ==
  [protocol |-> Text(protocol), dst_ip |-> Group(m, "neighbor")]
  ++ Object(m, "routing_neighbor", "neighbor")

ParseBgp(m) ==
  Match(m, "neighbor", Parsed(
    [reason |-> GivenGroup(m, "reason")] ++ Neighbor(m, "BGP")
    ++ StateChange(m, "bgp_neighbor_state", "neighbor_"),
    [neighbor_ip |-> Group(m, "neighbor"), new_state |-> Text(State(m))]))

\* a state between down and full is a change that succeeded
OspfState(m) ==
  CASE Upper(m.groups.new) = "FULL" ->
         Texts([subtype |-> "ospf_neighbor_state", action |-> "neighbor_up",
                outcome |-> "success"])
    [] Upper(m.groups.new) = "DOWN" ->
         Texts([subtype |-> "ospf_neighbor_state", action |-> "neighbor_down",
                outcome |-> "failure"])
    [] OTHER ->
         Texts([subtype |-> "ospf_adjacency_change",
                action |-> "adjacency_state_change", outcome |-> "success"])

\* Mutant: the label of the reason is kept, and not the reason.
AdjacencyLabel(m) ==
  IF "reason" \in DOMAIN m.groups /\ m.groups.reason \in DOMAIN ColonParts
  THEN Text(ColonParts[m.groups.reason][1]) ELSE GivenGroup(m, "reason")

\* of a reason with a colon, such as "Neighbor Down: Dead timer expired", only what
\* follows the first colon is kept
AdjacencyReason(m) ==
  IF "reason" \in DOMAIN m.groups /\ m.groups.reason \in DOMAIN ColonParts
  THEN ReasonAfterColon(m) ELSE GivenGroup(m, "reason")

ParseOspf(m) ==
  Match(m, "Process", Parsed(
    [category |-> Text("network_activity"), reason |-> AdjacencyReason(m)]
    ++ Neighbor(m, "OSPF") ++ OspfState(m),
    [process_id |-> IntGroup(m, "process"), neighbor_ip |-> Group(m, "neighbor"),
     interface |-> Group(m, "interface"), previous_state |-> UpperGroup(m, "old"),
     new_state |-> UpperGroup(m, "new")]))

ParseEigrp(m) ==
  Match(m, "EIGRP", Parsed(
    [reason |-> Group(m, "reason")] ++ Neighbor(m, "EIGRP")
    ++ StateChange(m, "eigrp_neighbor_state", "neighbor_"),
    [autonomous_system |-> IntGroup(m, "asn"), neighbor_ip |-> Group(m, "neighbor"),
     interface |-> Group(m, "interface"), new_state |-> Text(State(m))]))

\* the neighbor has no address: only the object names it
ParseIsis(m) ==
  Match(m, "ISIS", Parsed(
    [protocol |-> Text("ISIS")] ++ Object(m, "routing_neighbor", "neighbor")
    ++ StateChange(m, "isis_adjacency_state", "adjacency_"),
    [neighbor |-> Group(m, "neighbor"), interface |-> Group(m, "interface"),
     new_state |-> Text(State(m))]))

-----------------------------------------------------------------------------
Device == [object_type |-> Text("network_device")]

ParseConfig(m) ==
  Match(m, "Configured", Parsed(
    Kind("configuration", "configuration_change") ++ Device
    ++ [outcome |-> Outcome(TRUE), user |-> Group(m, "user"),
        src_ip |-> Group(m, "src_ip"), action |-> Text("configuration_changed")],
    Empty))

ParseLogin(m, success) ==
  Match(m, IF success THEN "Login-Success" ELSE "Login-failed", Parsed(
    Kind("authentication", "login") ++ Device
    ++ [outcome |-> Outcome(success),
        action |-> Text(IF success THEN "login_success" ELSE "login_failure"),
        user |-> Group(m, "user"), src_ip |-> Group(m, "src_ip"),
        dst_port |-> IntGroup(m, "port")],
    Empty))

ParseAcl(m) ==
  LET allowed == Chose(m, "decision", "permitted")
  IN Match(m, "list", Parsed(
       Kind("network_activity", "acl_decision")
       ++ Object(m, "access_control_rule", "acl")
       ++ [outcome |-> Outcome(allowed), src_ip |-> Group(m, "src_ip"),
           src_port |-> IntGroup(m, "src_port"), dst_ip |-> Group(m, "dst_ip"),
           dst_port |-> IntGroup(m, "dst_port"),
           protocol |-> UpperGroup(m, "protocol"),
           action |-> Text(IF allowed THEN "allow" ELSE "deny")],
       [access_list |-> Group(m, "acl"), packet_count |-> IntGroup(m, "packets")]))

ParseNat(m, created) ==
  Match(m, IF created THEN "Created" ELSE "Deleted", Parsed(
    Kind("network_activity", "nat_translation")
    ++ Object(m, "nat_translation", "translated_ip")
    ++ [outcome |-> Outcome(TRUE), src_ip |-> Group(m, "original_ip"),
        src_port |-> IntGroup(m, "original_port"),
        protocol |-> UpperGroup(m, "protocol"),
        action |-> Text(IF created THEN "translation_created"
                        ELSE "translation_deleted")],
    [translated_ip |-> Group(m, "translated_ip"),
     translated_port |-> IntGroup(m, "translated_port")]))

ParseDhcp(m, assigned) ==
  Match(m, IF assigned THEN "Assigned" ELSE "Released", Parsed(
    Kind("network_activity", "dhcp") ++ Object(m, "ip_address", "ip")
    ++ [outcome |-> Outcome(TRUE),
        action |-> Text(IF assigned THEN "address_assigned"
                        ELSE "address_released")],
    [ip_address |-> Group(m, "ip"), client_mac |-> Group(m, "mac")]))

ParseReload(m) ==
  Match(m, "Reload", Parsed(
    Kind("system", "device_reload") ++ Device
    ++ [outcome |-> Outcome(TRUE), user |-> Group(m, "user"),
        action |-> Text("device_reload"), reason |-> UndottedGroup(m, "reason")],
    [request_source |-> Group(m, "source")]))

ParseCpuhog(m) ==
  Match(m, "Task", Parsed(
    Kind("system", "resource_usage") ++ Object(m, "process", "process")
    ++ [outcome |-> Outcome(FALSE), action |-> Text("cpu_hog_detected")],
    [runtime_ms |-> IntGroup(m, "msec")]))

(***************************************************************************)
(* The event of a line: facility and event id choose the parser.           *)
(***************************************************************************)
ParseMessage(m) ==
  CASE <<m.facility, m.event_id>> = <<"LINK", "UPDOWN">> -> ParseLink(m)
    [] <<m.facility, m.event_id>> = <<"LINEPROTO", "UPDOWN">> -> ParseLineproto(m)
    [] <<m.facility, m.event_id>> = <<"BGP", "ADJCHANGE">> -> ParseBgp(m)
    [] <<m.facility, m.event_id>> = <<"OSPF", "ADJCHG">> -> ParseOspf(m)
    [] <<m.facility, m.event_id>> = <<"DUAL", "NBRCHANGE">> -> ParseEigrp(m)
    [] <<m.facility, m.event_id>> = <<"CLNS", "ADJCHANGE">> -> ParseIsis(m)
    [] <<m.facility, m.event_id>> = <<"SYS", "CONFIG_I">> -> ParseConfig(m)
    [] <<m.facility, m.event_id>> = <<"SEC_LOGIN", "LOGIN_SUCCESS">> ->
         ParseLogin(m, TRUE)
    [] <<m.facility, m.event_id>> = <<"SEC_LOGIN", "LOGIN_FAILED">> ->
         ParseLogin(m, FALSE)
    [] <<m.facility, m.event_id>> = <<"SEC", "IPACCESSLOGP">> -> ParseAcl(m)
    [] <<m.facility, m.event_id>> = <<"NAT", "TRANSLATION_CREATE">> ->
         ParseNat(m, TRUE)
    [] <<m.facility, m.event_id>> = <<"NAT", "TRANSLATION_DELETE">> ->
         ParseNat(m, FALSE)
    [] <<m.facility, m.event_id>> = <<"DHCPD", "ADDRESS_ASSIGN">> ->
         ParseDhcp(m, TRUE)
    [] <<m.facility, m.event_id>> = <<"DHCPD", "ADDRESS_RELEASE">> ->
         ParseDhcp(m, FALSE)
    [] <<m.facility, m.event_id>> = <<"SYS", "RELOAD">> -> ParseReload(m)
    [] <<m.facility, m.event_id>> = <<"SYS", "CPUHOG">> -> ParseCpuhog(m)
    [] OTHER -> None

ConvertLine(line) ==
  Convert(line, Texts([vendor |-> "Cisco", product |-> "IOS", type |-> "router"]),
          [timestamp |-> Stamp(line), severity |-> SeverityOf(line),
           vendor_event_id |-> VendorEventId(line)],
          ParseMessage(line), "Cisco IOS header not recognized")
=============================================================================
