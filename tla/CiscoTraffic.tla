--------------------------- MODULE CiscoTraffic ---------------------------
(***************************************************************************)
(* The converter of Cisco ASA traffic logs.  The endpoints of a message    *)
(* are "first" and "second" in the order of its text.                      *)
(***************************************************************************)
EXTENDS CiscoLog

First == [ip |-> "first_ip", port |-> "first_port", interface |-> "first_interface"]
Second == [ip |-> "second_ip", port |-> "second_port", interface |-> "second_interface"]

Patterns ==
  LET ports == {"first_port", "second_port"}
      ends == ports \cup {"first_ip", "second_ip", "first_interface",
                         "second_interface"}
      nat == {"nat_type", "protocol", "first_interface", "first_ip", "first_port",
              "second_interface", "translated_ip", "translated_port"}
      natPorts == {"first_port", "translated_port"}
  IN {Pattern("Built-connection",
              ends \cup {"direction", "protocol", "connection_id"}, ports),
      Pattern("Teardown-connection",
              ends \cup {"protocol", "connection_id", "duration", "bytes", "reason"},
              ports \cup {"bytes"}),
      Pattern("Deny", ends \cup {"protocol", "acl"}, ports),
      Pattern("access-list", ends \cup {"acl", "decision", "protocol"}, ports),
      Pattern("Built-translation", nat, natPorts),
      Pattern("Teardown-translation", nat \cup {"duration"}, natPorts),
      Pattern("ICMP-connection", {"direction", "foreign_ip", "global_ip", "local_ip"},
              {}),
      Pattern("GRE-connection", {"direction", "first_interface", "first_ip",
                                 "second_interface", "second_ip", "duration"}, {})}

Addresses(m, source, destination) ==
  [src_ip |-> Group(m, source.ip), src_port |-> IntGroup(m, source.port),
   dst_ip |-> Group(m, destination.ip), dst_port |-> IntGroup(m, destination.port)]

Interfaces(m, source, destination) ==
  [source_interface |-> Group(m, source.interface),
   destination_interface |-> Group(m, destination.interface)]

Session(m, subtype, action) ==
  Texts([subtype |-> subtype, outcome |-> "success", action |-> action])

ParseConnectionStart(m) ==
  Match(m, "Built-connection", Parsed(
    Session(m, "session_start", "connection_built")
    ++ Addresses(m, First, Second)
    ++ [protocol |-> UpperGroup(m, "protocol"),
        object_type |-> Text("network_session"),
        object_name |-> Group(m, "connection_id")],
    Interfaces(m, First, Second)
    ++ [connection_id |-> Group(m, "connection_id"),
        direction |-> LowerGroup(m, "direction")]))

\* the end of a connection names its destination first
ParseConnectionEnd(m) ==
  Match(m, "Teardown-connection", Parsed(
    Session(m, "session_end", "connection_teardown")
    ++ Addresses(m, Second, First)
    ++ [protocol |-> UpperGroup(m, "protocol"), reason |-> GivenGroup(m, "reason"),
        object_type |-> Text("network_session"),
        object_name |-> Group(m, "connection_id")],
    Interfaces(m, Second, First)
    ++ Present([connection_id |-> Group(m, "connection_id"),
                duration |-> Group(m, "duration"), bytes |-> IntGroup(m, "bytes")])))

\* a decision of an access list
Decision(m, allowed, action) ==
  Parsed(
    Addresses(m, First, Second)
    ++ [subtype |-> Text("acl_decision"), outcome |-> Outcome(allowed),
        protocol |-> UpperGroup(m, "protocol"), action |-> Text(action),
        object_type |-> Text("access_control_rule"), object_name |-> Group(m, "acl")],
    Interfaces(m, First, Second) ++ [access_group |-> Group(m, "acl")])

ParseAclDeny(m) == Match(m, "Deny", Decision(m, FALSE, "deny"))

ParseAcl106100(m) ==
  LET permitted == Chose(m, "decision", "permitted")
  IN Match(m, "access-list",
           Decision(m, permitted, IF permitted THEN "allow" ELSE "deny"))

\* only the pattern of a teardown has a duration
Translation(m, action) ==
  Parsed(
    [subtype |-> Text("nat_translation"), outcome |-> Text("success"),
     protocol |-> UpperGroup(m, "protocol"), src_ip |-> Group(m, "first_ip"),
     src_port |-> IntGroup(m, "first_port"), action |-> Text(action),
     object_type |-> Text("nat_translation"),
     object_name |-> Group(m, "translated_ip")],
    Present([nat_type |-> LowerGroup(m, "nat_type"),
             source_interface |-> Group(m, "first_interface"),
             translated_interface |-> Group(m, "second_interface"),
             translated_ip |-> Group(m, "translated_ip"),
             translated_port |-> IntGroup(m, "translated_port"),
             duration |-> Group(m, "duration")]))

ParseNat(m) ==
  IF "Built-translation" \in m.forms THEN Translation(m, "translation_built")
  ELSE Match(m, "Teardown-translation", Translation(m, "translation_teardown"))

\* start and end are told apart by the event id, not by the text
StartOrEnd(m, start) ==
  IF start THEN Session(m, "session_start", "connection_built")
  ELSE Session(m, "session_end", "connection_teardown")

ParseIcmp(m, start) ==
  Match(m, "ICMP-connection", Parsed(
    StartOrEnd(m, start)
    ++ [protocol |-> Text("ICMP"), src_ip |-> Group(m, "local_ip"),
        dst_ip |-> Group(m, "foreign_ip"), object_type |-> Text("network_session")],
    [global_ip |-> Group(m, "global_ip")]
    ++ (IF "direction" \in DOMAIN m.groups
        THEN [direction |-> LowerGroup(m, "direction")] ELSE Empty)))

ParseGre(m, start) ==
  Match(m, "GRE-connection", Parsed(
    StartOrEnd(m, start)
    ++ [protocol |-> Text("GRE"), src_ip |-> Group(m, "first_ip"),
        dst_ip |-> Group(m, "second_ip")],
    Interfaces(m, First, Second)
    ++ Present([direction |-> LowerGroup(m, "direction"),
                duration |-> Group(m, "duration")])))

(***************************************************************************)
(* The event of a line.                                                    *)
(***************************************************************************)
ParseMessage(m) ==
  CASE m.event_id \in {"302013", "302015"} -> ParseConnectionStart(m)
    [] m.event_id \in {"302014", "302016"} -> ParseConnectionEnd(m)
    [] m.event_id = "106023" -> ParseAclDeny(m)
    [] m.event_id = "106100" -> ParseAcl106100(m)
    [] m.event_id \in {"305011", "305012"} -> ParseNat(m)
    [] m.event_id = "302020" -> ParseIcmp(m, TRUE)
    [] m.event_id = "302021" -> ParseIcmp(m, FALSE)
    [] m.event_id = "302017" -> ParseGre(m, TRUE)
    [] m.event_id = "302018" -> ParseGre(m, FALSE)
    [] OTHER -> None

\* the time is kept as it is written
ConvertLine(line) ==
  Convert(line,
          Texts([vendor |-> "Cisco", product |-> "ASA",
                 category |-> "network_activity", type |-> "traffic"]),
          [timestamp |-> IF line.time = "" THEN None ELSE Text(line.time),
           severity |-> SeverityOf(line), vendor_event_id |-> Text(line.event_id)],
          ParseMessage(line), "ASA header not recognized")
=============================================================================
