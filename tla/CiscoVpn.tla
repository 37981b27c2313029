----------------------------- MODULE CiscoVpn -----------------------------
(***************************************************************************)
(* The converter of Cisco ASA VPN logs.                                    *)
(***************************************************************************)
EXTENDS CiscoLog

\* one pattern serves several messages; of them only 722050 looks for a reason, too
Patterns(m) ==
  LET who == {"group", "user", "ip"}
      bytes == {"bytes_sent", "bytes_received"}
  IN {Pattern("group-user-ip",
              who \cup (IF m.event_id = "722050" THEN {"reason"} ELSE {}), {}),
      Pattern("address-assigned", who \cup {"assigned_ip", "ipv6"}, {}),
      Pattern("session-disconnected",
              who \cup bytes \cup {"session_type", "duration", "reason"}, bytes),
      Pattern("resume-session", {"interface", "src_ip", "src_port"}, {"src_port"}),
      Pattern("add-mapping", {"ip", "user", "result"}, {})}

\* what every message about a user's session sets
OfUser(m, category, subtype, outcome, action) ==
  [user |-> Group(m, "user"), src_ip |-> Group(m, "ip"),
   object_name |-> Group(m, "user")]
  ++ Texts([category |-> category, subtype |-> subtype, outcome |-> outcome,
            action |-> action, object_type |-> "vpn_session"])

WebVpn(m) == [group |-> Group(m, "group"), vpn_type |-> Text("WebVPN")]

Parse716001(m) ==
  Match(m, "group-user-ip", Parsed(
    OfUser(m, "authentication", "session_start", "success", "login_success"),
    WebVpn(m)))

Parse716002(m) ==
  Match(m, "group-user-ip", Parsed(
    OfUser(m, "authentication", "session_end", "success", "logout"), WebVpn(m)))

Parse722051(m) ==
  Match(m, "address-assigned", Parsed(
    OfUser(m, "network_activity", "address_assignment", "success",
           "address_assigned"),
    [group |-> Group(m, "group"), assigned_ipv4 |-> Group(m, "assigned_ip"),
     assigned_ipv6 |-> Group(m, "ipv6")]))

Parse113019(m) ==
  Match(m, "session-disconnected", Parsed(
    [protocol |-> UpperGroup(m, "session_type"), reason |-> Group(m, "reason")]
    ++ OfUser(m, "network_activity", "session_end", "success",
              "session_disconnected"),
    [group |-> Group(m, "group"), session_type |-> Group(m, "session_type"),
     duration |-> Group(m, "duration"), bytes_sent |-> IntGroup(m, "bytes_sent"),
     bytes_received |-> IntGroup(m, "bytes_received")]))

Parse725003(m) ==
  Match(m, "resume-session", Parsed(
    [src_ip |-> Group(m, "src_ip"), src_port |-> IntGroup(m, "src_port")]
    ++ Texts([category |-> "network_activity", subtype |-> "session_resume",
              outcome |-> "success", protocol |-> "SSL", action |-> "resume_session",
              object_type |-> "vpn_session"]),
    [interface |-> Group(m, "interface"), vpn_type |-> Text("SSL")]))

\* the reason has a pattern of its own, which may fail
Parse722050(m) ==
  Match(m, "group-user-ip", Parsed(
    [reason |-> Group(m, "reason")]
    ++ OfUser(m, "authentication", "session_end", "failure", "session_terminated"),
    [group |-> Group(m, "group")]))

Parse722053(m) ==
  Match(m, "group-user-ip", Parsed(
    Texts([reason |-> "unknown client user-agent", object_type |-> "vpn_client"])
    ++ OfUser(m, "network_activity", "client_connection", "failure",
              "unsupported_client"),
    [group |-> Group(m, "group")]))

Parse746012(m) ==
  LET success == Chose(m, "result", "succeeded")
  IN Match(m, "add-mapping", Parsed(
       [category |-> Text("authentication"), subtype |-> Text("identity_mapping"),
        outcome |-> Outcome(success), user |-> Group(m, "user"),
        action |-> Text(IF success THEN "ip_user_mapping_added"
                        ELSE "ip_user_mapping_failed"),
        object_type |-> Text("ip_user_mapping"), object_name |-> Group(m, "ip")],
       [assigned_ip |-> Group(m, "ip")]))

(***************************************************************************)
(* The event of a line.                                                    *)
(***************************************************************************)
ParseMessage(m) ==
  CASE m.event_id = "716001" -> Parse716001(m)
    [] m.event_id = "716002" -> Parse716002(m)
    [] m.event_id = "722051" -> Parse722051(m)
    [] m.event_id = "113019" -> Parse113019(m)
    [] m.event_id = "725003" -> Parse725003(m)
    [] m.event_id = "722050" -> Parse722050(m)
    [] m.event_id = "722053" -> Parse722053(m)
    [] m.event_id = "746012" -> Parse746012(m)
    [] OTHER -> None

ConvertLine(line) ==
  Convert(line, Texts([vendor |-> "Cisco", product |-> "ASA", type |-> "vpn"]),
          [timestamp |-> Stamp(line), severity |-> SeverityOf(line),
           vendor_event_id |-> Text(line.event_id)],
          ParseMessage(line), "ASA VPN header not recognized")
=============================================================================
