---------------------------- MODULE RoutingLog ----------------------------
(***************************************************************************)
(* The converter of routing logs (fortigate/router.py).  It writes into    *)
(* the event while it parses: what a parser has set stays set when it      *)
(* fails, but for the outcome and the action.                              *)
(***************************************************************************)
EXTENDS CiscoLog

Patterns ==
  {Pattern("neighbor", {"neighbor", "state", "reason"}, {}),
   Pattern("Advertised-prefix", {"prefix", "neighbor"}, {}),
   Pattern("Withdrawn-prefix", {"prefix", "neighbor"}, {}),
   Pattern("Process", {"process", "neighbor", "interface", "old_state", "new_state",
                       "reason"}, {"process"}),
   Pattern("learned-via", {"prefix", "next_hop", "metric"}, {"metric"}),
   Pattern("removed-from-routing-table", {"prefix"}, {}),
   Pattern("added-via", {"prefix", "next_hop"}, {}),
   Pattern("removed", {"prefix"}, {}),
   Pattern("next-hop-changed", {"prefix", "old_next_hop", "new_next_hop"}, {})}

Failed(scalars) == [done |-> FALSE, scalars |-> scalars, details |-> Empty]

Done(scalars, details) == [done |-> TRUE, scalars |-> scalars, details |-> details]

Bgp(m, subtype, object, name) ==
  [subtype |-> Text(subtype), protocol |-> Text("BGP"),
   dst_ip |-> Group(m, "neighbor"), object_type |-> Text(object),
   object_name |-> Group(m, name)]

ParseBgpNeighbor(m) ==
  IF "neighbor" \notin m.forms THEN Failed(Empty)
  ELSE LET state == Lower(m.groups.state)
       IN Done([action |-> Text("neighbor_" \o state),
                outcome |-> Outcome(state = "up"), reason |-> GivenGroup(m, "reason")]
               ++ Bgp(m, "bgp_neighbor_state", "routing_neighbor", "neighbor"),
               [neighbor_ip |-> Group(m, "neighbor"), new_state |-> Text(state)])

ParseBgpRoute(m) ==
  IF {"Advertised-prefix", "Withdrawn-prefix"} \cap m.forms = {} THEN Failed(Empty)
  ELSE Done([outcome |-> Text("success"),
             action |-> Text(IF "Advertised-prefix" \in m.forms
                             THEN "route_advertised" ELSE "route_withdrawn")]
            ++ Bgp(m, "bgp_route_update", "network_prefix", "prefix"),
            [prefix |-> Group(m, "prefix"), neighbor_ip |-> Group(m, "neighbor")])

AdjacencyState(new) ==
  Texts(CASE new = "FULL" ->
               [subtype |-> "ospf_neighbor_state", action |-> "neighbor_up",
                outcome |-> "success"]
          [] new = "DOWN" ->
               [subtype |-> "ospf_neighbor_state", action |-> "neighbor_down",
                outcome |-> "failure"]
          [] OTHER ->
               [subtype |-> "ospf_adjacency_change",
                action |-> "adjacency_state_change", outcome |-> "success"])

NeighborDown == "neighbor down"

\* of a reason that begins with "neighbor down:", in any case, what follows is kept;
\* of every other one all
CleanedReason(m) ==
  IF /\ "reason" \in DOMAIN m.groups /\ m.groups.reason \in DOMAIN ColonParts
     /\ Lower(ColonParts[m.groups.reason][1]) = NeighborDown
  THEN ReasonAfterColon(m) ELSE GivenGroup(m, "reason")

ParseOspfAdjacency(m) ==
  IF "Process" \notin m.forms THEN Failed(Empty)
  ELSE Done([protocol |-> Text("OSPF"), dst_ip |-> Group(m, "neighbor"),
             object_type |-> Text("routing_neighbor"),
             object_name |-> Group(m, "neighbor"), reason |-> CleanedReason(m)]
            ++ AdjacencyState(Upper(m.groups.new_state)),
            [neighbor_ip |-> Group(m, "neighbor"),
             process_id |-> IntGroup(m, "process"),
             interface |-> Group(m, "interface"),
             previous_state |-> UpperGroup(m, "old_state"),
             new_state |-> UpperGroup(m, "new_state")])

ParseOspfRoute(m) ==
  LET Route(action) ==
        [object_name |-> Group(m, "prefix")]
        ++ Texts([subtype |-> "ospf_route_update", protocol |-> "OSPF",
                  outcome |-> "success", action |-> action,
                  object_type |-> "network_prefix"])
  IN IF "learned-via" \in m.forms
     THEN Done([dst_ip |-> Group(m, "next_hop")] ++ Route("route_learned"),
               [prefix |-> Group(m, "prefix"), next_hop |-> Group(m, "next_hop"),
                metric |-> IntGroup(m, "metric")])
     ELSE IF "removed-from-routing-table" \in m.forms
     THEN Done(Route("route_removed"), [prefix |-> Group(m, "prefix")])
     ELSE Failed(Empty)

StaticScalars ==
  Texts([subtype |-> "routing_table_change", outcome |-> "success",
         object_type |-> "network_prefix"])

\* sets a subtype and an object before it knows that it can parse the message
ParseStaticRoute(m) ==
  LET Route(action, details) ==
        Done([action |-> Text(action), object_name |-> Group(m, "prefix")]
             ++ StaticScalars,
             [prefix |-> Group(m, "prefix")] ++ details)
  IN IF "added-via" \in m.forms
     THEN Route("route_added", [next_hop |-> Group(m, "next_hop")])
     ELSE IF "removed" \in m.forms THEN Route("route_removed", Empty)
     ELSE IF "next-hop-changed" \in m.forms
     THEN Route("next_hop_changed",
                [old_next_hop |-> Group(m, "old_next_hop"),
                 new_next_hop |-> Group(m, "new_next_hop")])
     ELSE Failed(StaticScalars)

(***************************************************************************)
(* convert_log.                                                            *)
(***************************************************************************)
ParseMessage(m) ==
  CASE <<m.facility, m.event_id>> = <<"BGP", "ADJCHANGE">> -> ParseBgpNeighbor(m)
    [] <<m.facility, m.event_id>> = <<"BGP", "UPDATE">> -> ParseBgpRoute(m)
    [] <<m.facility, m.event_id>> = <<"OSPF", "ADJCHG">> -> ParseOspfAdjacency(m)
    [] <<m.facility, m.event_id>> = <<"OSPF", "ROUTE">> -> ParseOspfRoute(m)
    [] m.facility = "ROUTING" -> ParseStaticRoute(m)
    [] OTHER -> Failed(Empty)

Base ==
  Texts([vendor |-> "Cisco", product |-> "IOS", category |-> "network_activity",
         type |-> "routing"])

\* a severity without a name is "unknown" here
FromHeader(line) ==
  [timestamp |-> Stamp(line), severity |-> Or(SeverityOf(line), Text("unknown")),
   vendor_event_id |-> VendorEventId(line)]

ConvertLog(line) ==
  LET parsed == ParseMessage(line)
      device == [device |-> Text(line.device)]
  IN IF ~line.header
     THEN EventWith(UnparsedScalars ++ Base, Empty,
                    [parse_error |-> Text("Cisco syslog header not recognized")])
     ELSE IF parsed.done
     THEN EventWith(parsed.scalars ++ FromHeader(line) ++ Base,
                    parsed.details ++ device, Empty)
     ELSE EventWith(UnparsedScalars ++ parsed.scalars ++ FromHeader(line) ++ Base,
                    device, [message |-> Text(line.message)])
=============================================================================
