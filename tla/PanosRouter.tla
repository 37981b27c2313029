---------------------------- MODULE PanosRouter ----------------------------
(***************************************************************************)
(* The PAN-OS parser for routing events.  They are rows of the SYSTEM log: *)
(* "cells" holds the fields of the row by name, "columns" how many it has. *)
(***************************************************************************)
EXTENDS VendorEvent

(***************************************************************************)
(* parse_csv_fields: the row starts at "1," and a time, and is long enough *)
(* to have a description.                                                  *)
(***************************************************************************)
Readable(row) == row.located /\ row.columns >= 15

RouterSystemSubtypes == {"routing", "pbf", "bfd"}

Detect(row) ==
  /\ Readable(row) /\ row.cells.type = "SYSTEM"
  /\ \/ row.cells.subtype \in RouterSystemSubtypes
     \/ HasAny(row.cells.eventid, {"^routed-", "^path-monitor-", "^route-table-"})
     \/ row.cells.module \in {"routed", "routing", "bfd"}

-----------------------------------------------------------------------------
(***************************************************************************)
(* The classification, protocol by protocol.  e is the event id, d the     *)
(* description.                                                            *)
(***************************************************************************)
BgpRules(e, d) ==
  LET Bgp(subtype, outcome, when) ==
        Rule("BGP", subtype, outcome, Has(e, "bgp") /\ when)
  IN << Bgp("PEER_UP", "SUCCESS",
            \/ Has(e, "enter-established")
            \/ Has(d, "established") /\ ~HasAny(d, {"left", "down"})),
        Bgp("PEER_DOWN", "FAILURE",
            \/ HasAny(e, {"left-established", "peer-down"})
            \/ HasAny(d, {"left established", "peer session down"})),
        Bgp("PREFIX_LIMIT_EXCEEDED", "FAILURE",
            \/ Has(e, "prefix") /\ HasAny(e, {"limit", "exceeded"})
            \/ Has(d, "maximum allowed prefixes")),
        Bgp("GRACEFUL_RESTART", "UNKNOWN", HasAll(d, {"graceful", "restart"})),
        Bgp("ROUTE_REFRESH", "SUCCESS",
            Has(e, "route-refresh") \/ Has(d, "route refresh")) >>

OspfRules(e, d) ==
  LET Ospf(subtype, outcome, when) ==
        Rule("OSPF", subtype, outcome, Has(e, "ospf") /\ when)
  IN << Ospf("NEIGHBOR_DOWN", "FAILURE",
             Has(e, "neighbor-down") \/ HasAll(d, {"adjacency", "gone down"})),
        Ospf("NEIGHBOR_UP", "SUCCESS",
             \/ HasAny(e, {"neighbor-up", "neighbor-full"})
             \/ Has(d, "full adjacency established")
             \/ HasAll(d, {"adjacency", "up"})),
        Ospf("AUTHENTICATION_FAILURE", "FAILURE",
             HasAny(e, {"md5", "auth"}) \/ Has(d, "authentication")),
        Ospf("PARAMETER_MISMATCH", "FAILURE",
             Has(e, "hello") \/ Has(d, "mismatch")) >>

RipRules(e, d) ==
  << Rule("RIP", "PEER_DOWN", "FAILURE",
          Has(e, "rip") /\ (Has(e, "peer-del") \/ Has(d, "peer disappeared"))),
     Rule("RIP", "AUTHENTICATION_FAILURE", "FAILURE",
          /\ Has(e, "rip")
          /\ \/ HasAny(e, {"auth-failed", "authtype-bad"})
             \/ Has(d, "authentication failure")) >>

IsBfd(f) ==
  \/ f.module = "bfd" \/ f.subtype = "bfd"
  \/ Has(f.eventid, "bfd") \/ Has(f.description, "bfd ")

AdminDownRule(f) ==
  Rule("BFD", "ADMIN_DOWN", "UNKNOWN",
       IsBfd(f) /\ (\/ Has(f.eventid, "admin-down")
                    \/ Has(f.description, "administrative down")))

SessionDownRule(f) ==
  Rule("BFD", "SESSION_DOWN", "FAILURE",
       IsBfd(f) /\ (\/ HasAny(f.description, {"changed to down", "state down"})
                    \/ HasAny(f.eventid, {"expired-time", "neighbor-down"})))

SessionUpRule(f) ==
  Rule("BFD", "SESSION_UP", "SUCCESS",
       IsBfd(f) /\ HasAny(f.description, {"changed to up", "state up"}))

\* Mutant: the general rule stands before the administrative one.
BfdRulesDownFirst(f) ==
  <<SessionDownRule(f), AdminDownRule(f), SessionUpRule(f)>>

(***************************************************************************)
(* "administrative down" is a kind of "down": its rule comes first.        *)
(***************************************************************************)
BfdRules(f) == <<AdminDownRule(f), SessionDownRule(f), SessionUpRule(f)>>

StaticRouteRules(e, d) ==
  << Rule("STATIC_ROUTE", "ROUTE_REMOVED", "FAILURE",
          \/ Has(e, "path-monitor-failure")
          \/ HasAll(d, {"path monitoring failed", "route removed"})),
     Rule("STATIC_ROUTE", "ROUTE_RESTORED", "SUCCESS",
          \/ Has(e, "path-monitor-recovery")
          \/ HasAll(d, {"path monitoring", "recovered", "route restored"})) >>

(***************************************************************************)
(* A bypassed rule can have the event id nh-down too: its rule comes first.*)
(***************************************************************************)
PbfRules(f) ==
  LET e == f.eventid
      d == f.description
      Pbf(subtype, outcome, when) ==
        Rule("PBF", subtype, outcome, f.subtype = "pbf" /\ when)
  IN << Pbf("FQDN_RESOLUTION_FAILURE", "FAILURE",
            Has(e, "pbf-fqdn-down") \/ HasAll(d, {"fqdn", "unresolved"})),
        Pbf("RULE_BYPASSED", "UNKNOWN", Has(d, "bypassed")),
        Pbf("NEXT_HOP_DOWN", "FAILURE",
            \/ e = "nh-down" /\ Has(d, "nexthop")
            \/ Has(d, "nexthop is down")),
        Pbf("NEXT_HOP_UP", "SUCCESS", e = "nh-up" \/ Has(d, "nexthop is up")) >>

EcmpAndPimRules(e, d) ==
  << Rule("ECMP", "ECMP_ENABLED", "SUCCESS", Has(e, "ecmp") /\ Has(d, "enabled")),
     Rule("ECMP", "MAX_PATH_CHANGED", "UNKNOWN",
          /\ Has(e, "ecmp")
          /\ HasAny(d, {"maximum path changed", "max path changed"})),
     Rule("MULTICAST", "PIM_INTERFACE_STATE_CHANGE", "UNKNOWN",
          /\ Has(e, "pim")
          /\ \/ Has(e, "interface-state-changed")
             \/ Has(d, "interface state changed")) >>

RouteTableRules(e, d) ==
  << Rule("ROUTE_TABLE", "CAPACITY_REACHED", "FAILURE",
          \/ Has(e, "route-table-capacity")
          \/ Has(d, "route table capacity reached")),
     Rule("ROUTE_TABLE", "INVALID_ROUTE_REJECTED", "FAILURE",
          Has(e, "rtm-bad-route") \/ Has(d, "invalid dynamic route")),
     Rule("ROUTING_ENGINE", "CONFIG_LOAD_FAILURE", "FAILURE",
          \/ Has(e, "routed-config-p1-failed")
          \/ HasAll(d, {"route daemon", "configuration", "failed"})) >>

Classify(f) ==
  LET e == f.eventid
      d == f.description
  IN FirstRule(BgpRules(e, d) \o OspfRules(e, d) \o RipRules(e, d) \o BfdRules(f)
               \o StaticRouteRules(e, d) \o PbfRules(f) \o EcmpAndPimRules(e, d)
               \o RouteTableRules(e, d))

-----------------------------------------------------------------------------
ActionOf ==
  [PEER_UP |-> "peer-up", PEER_DOWN |-> "peer-down",
   PREFIX_LIMIT_EXCEEDED |-> "route-limit", GRACEFUL_RESTART |-> "restart",
   ROUTE_REFRESH |-> "route-refresh", NEIGHBOR_UP |-> "neighbor-up",
   NEIGHBOR_DOWN |-> "neighbor-down",
   AUTHENTICATION_FAILURE |-> "authentication",
   PARAMETER_MISMATCH |-> "parameter-check", SESSION_UP |-> "session-up",
   SESSION_DOWN |-> "session-down", ADMIN_DOWN |-> "administrative-down",
   ROUTE_REMOVED |-> "route-remove", ROUTE_RESTORED |-> "route-restore",
   NEXT_HOP_UP |-> "next-hop-up", NEXT_HOP_DOWN |-> "next-hop-down",
   RULE_BYPASSED |-> "rule-bypass",
   FQDN_RESOLUTION_FAILURE |-> "fqdn-resolution", ECMP_ENABLED |-> "enable",
   MAX_PATH_CHANGED |-> "configuration-change",
   PIM_INTERFACE_STATE_CHANGE |-> "state-change",
   CAPACITY_REACHED |-> "capacity-alert",
   INVALID_ROUTE_REJECTED |-> "route-reject",
   CONFIG_LOAD_FAILURE |-> "config-load"]

Action(subtype) ==
  IF subtype \in DOMAIN ActionOf THEN Text(ActionOf[subtype]) ELSE None

\* what every routing event keeps of its row
RowDetails(f) ==
  [system_subtype |-> CleanField(f, "subtype"), module |-> CleanField(f, "module"),
   sequence_number |-> CleanField(f, "sequence_number"),
   description |-> CleanField(f, "description"),
   system_object |-> CleanField(f, "object"),
   device_name |-> CleanField(f, "device_name"),
   virtual_system |-> CleanField(f, "vsys"), serial_number |-> CleanField(f, "serial")]

ProtocolDetails(d, c) ==
  CASE c.type = "BGP" ->
         [routing_protocol |-> Text("BGP"), peer_name |-> Extract(d, "peer-name"),
          peer_ip |-> Extract(d, "peer-IP")]
    [] c.type = "OSPF" ->
         [routing_protocol |-> Text("OSPF"), neighbor_ip |-> Extract(d, "neighbor"),
          interface_name |-> Extract(d, "interface")]
    [] c.type = "RIP" ->
         [routing_protocol |-> Text("RIP"), peer_ip |-> Extract(d, "RIP-peer")]
    [] c.type = "BFD" ->
         [routing_protocol |-> Extract(d, "Protocol"),
          bfd_state |-> Extract(d, "BFD-state"),
          bfd_session |-> Extract(d, "BFD-session"),
          neighbor_ip |-> Extract(d, "to-neighbor"),
          interface_name |-> Extract(d, "interface")]
    [] c.type = "STATIC_ROUTE" ->
         [route_type |-> Text("STATIC"), destination |-> Extract(d, "destination"),
          next_hop |-> Extract(d, "next-hop"),
          monitor_status |-> Text(IF c.subtype = "ROUTE_REMOVED" THEN "DOWN"
                                  ELSE "UP")]
    [] c.type = "PBF" ->
         [routing_method |-> Text("PBF"), pbf_rule |-> Extract(d, "PBF-rule"),
          next_hop |-> Extract(d, "next-hop")]
    [] OTHER -> Empty

ComponentDetails(d, c) ==
  CASE c.type = "ECMP" ->
         [routing_method |-> Text("ECMP"),
          virtual_router |-> Extract(d, "virtual-router")]
    [] c.type = "MULTICAST" ->
         [routing_protocol |-> Text("PIM"), interface_name |-> Extract(d, "interface")]
    [] c.type = "ROUTE_TABLE" ->
         [routing_component |-> Text("ROUTE_TABLE"),
          route_table_operation |-> Text(c.subtype)]
    [] c.type = "ROUTING_ENGINE" ->
         [routing_component |-> Text("ROUTING_DAEMON"),
          routing_engine_operation |-> Text(c.subtype)]
    [] OTHER -> Empty

BuildDetails(f, c) ==
  LET d == f.description
  IN Present(ProtocolDetails(d, c) ++ ComponentDetails(d, c) ++ RowDetails(f))

\* type and name of the object the event is about
BuildObject(f, c) ==
  LET d == f.description
      object == CleanField(f, "object")
      Named(type, pattern) == <<Text(type), Or(Extract(d, pattern), object)>>
      Peer(type, pattern) ==
        IF Has(d, pattern) THEN <<Text(type), Text(pattern)>>
        ELSE <<Text("ROUTING_PROTOCOL"), Text(c.type)>>
  IN CASE c.type = "BGP" -> Named("ROUTING_PEER", "peer-name")
       [] c.type = "OSPF" -> Peer("ROUTING_NEIGHBOR", "neighbor")
       [] c.type = "RIP" -> Peer("ROUTING_PEER", "RIP-peer")
       [] c.type = "BFD" -> Named("BFD_SESSION", "BFD-session")
       [] c.type = "STATIC_ROUTE" -> Named("ROUTE", "destination")
       [] c.type = "PBF" -> Named("PBF_RULE", "PBF-rule")
       [] c.type = "ECMP" -> Named("VIRTUAL_ROUTER", "virtual-router")
       [] c.type = "MULTICAST" -> Named("NETWORK_INTERFACE", "interface")
       [] c.type = "ROUTE_TABLE" ->
            <<Text("ROUTE_TABLE"), Or(object, Text("routing-table"))>>
       [] c.type = "ROUTING_ENGINE" ->
            <<Text("ROUTING_DAEMON"), Or(CleanField(f, "module"), Text("routed"))>>
       [] OTHER -> <<None, object>>

(***************************************************************************)
(* The event of a row that Detect accepts; for any other normalize raises. *)
(* A peer of a routing session is no endpoint: the addresses stay unset.   *)
(***************************************************************************)
NormalizeRow(row) ==
  LET f == row.cells
      c == Classify(f)
      object == BuildObject(f, c)
  IN EventWith(
       [timestamp |-> Timestamp(EitherField(f, "time_generated", "receive_time")),
        vendor |-> PaloAlto, product |-> Text("PAN-OS"),
        category |-> Text("ROUTER"), type |-> Text(c.type),
        subtype |-> Text(c.subtype), outcome |-> Text(c.outcome),
        severity |-> CleanField(f, "severity"), action |-> Action(c.subtype),
        reason |-> IF c.outcome = "FAILURE" THEN CleanField(f, "description")
                   ELSE None,
        object_type |-> object[1], object_name |-> object[2],
        vendor_event_id |-> CleanField(f, "eventid")],
       BuildDetails(f, c), Texts(f))
=============================================================================
