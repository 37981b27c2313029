--------------------------- MODULE PanosTraffic ---------------------------
(***************************************************************************)
(* The PAN-OS parser for the TRAFFIC log.                                  *)
(***************************************************************************)
EXTENDS VendorEvent

LOCAL INSTANCE TLC

\* parse_csv_fields reads a row of any length
Readable(row) == row.located

Detect(row) == Readable(row) /\ Field(row.cells, "type") = "TRAFFIC"

BlockActions ==
  {"deny", "drop", "drop-icmp", "drop icmp", "reset-client", "reset client",
   "reset-server", "reset server", "reset-both", "reset both"}

OutcomeFromAction(action) ==
  CASE action = "allow" -> "SUCCESS"
    [] action \in BlockActions -> "FAILURE"
    [] OTHER -> "UNKNOWN"

NormalizedAction(action) == Or(Cleaned(action), Text("unknown"))

\* the TRAFFIC log has no severity: it follows from the action
SeverityFromAction(action) ==
  CASE action \in BlockActions -> Text("medium")
    [] action = "allow" -> Text("informational")
    [] OTHER -> Text("unknown")

Classify(f) ==
  LET subtype == Field(f, "subtype")
      outcome == OutcomeFromAction(Field(f, "action"))
  IN CASE subtype = "start" -> Rule("SESSION", "SESSION_START", outcome, TRUE)
       [] subtype = "end" -> Rule("SESSION", "SESSION_END", outcome, TRUE)
       [] subtype = "drop" -> Rule("POLICY", "TRAFFIC_DROP", "FAILURE", TRUE)
       [] subtype = "deny" -> Rule("POLICY", "TRAFFIC_DENY", "FAILURE", TRUE)
       [] OTHER -> Unclassified

-----------------------------------------------------------------------------
NumberOf(f, name) == IF Field(f, name) = "" THEN None ELSE AsNumber(f[name])

ProtocolNames == ("6" :> "TCP") @@ ("17" :> "UDP") @@ ("1" :> "ICMP") @@
                 ("58" :> "ICMPV6")

NormalizeProtocol(value) ==
  CASE value \in NullTexts -> None
    [] value \in DOMAIN ProtocolNames -> Text(ProtocolNames[value])
    [] OTHER -> Text(Upper(value))

\* ICMP has no ports
NormalizePort(f, name, protocol) ==
  IF protocol \in {Text("ICMP"), Text("ICMPV6")} THEN None ELSE NumberOf(f, name)

NatAddress(f, name) ==
  IF Field(f, name) \in {"0.0.0.0", "::", "::0"} THEN None ELSE CleanField(f, name)

NatPort(f, name) ==
  LET port == NumberOf(f, name) IN IF port = Number(0) THEN None ELSE port

TextColumns ==
  [application |-> "app", url_category |-> "category", dst_user |-> "dstuser",
   rule |-> "rule", action_source |-> "action_source", rule_uuid |-> "rule_uuid",
   source_zone |-> "from_zone", destination_zone |-> "to_zone",
   inbound_interface |-> "inbound_if", outbound_interface |-> "outbound_if",
   source_location |-> "srcloc", destination_location |-> "dstloc",
   session_end_reason |-> "session_end_reason", virtual_system |-> "vsys",
   device_name |-> "device_name", serial_number |-> "serial",
   sequence_number |-> "seqno"]

NumberColumns ==
  [policy_id |-> "policy_id", session_id |-> "sessionid",
   repeat_count |-> "repeatcnt", elapsed_seconds |-> "elapsed",
   bytes_total |-> "bytes", bytes_sent |-> "bytes_sent",
   bytes_received |-> "bytes_received", packets_total |-> "packets",
   packets_sent |-> "pkts_sent", packets_received |-> "pkts_received"]

BuildDetails(f) ==
  Present(
    [k \in DOMAIN TextColumns |-> CleanField(f, TextColumns[k])] ++
    [k \in DOMAIN NumberColumns |-> NumberOf(f, NumberColumns[k])] ++
    [start_time |-> Timestamp(Field(f, "start")),
     nat_src_ip |-> NatAddress(f, "natsrc"), nat_dst_ip |-> NatAddress(f, "natdst"),
     nat_src_port |-> NatPort(f, "natsport"),
     nat_dst_port |-> NatPort(f, "natdport")])

(***************************************************************************)
(* The event of a row that Detect accepts; for any other normalize raises. *)
(***************************************************************************)
NormalizeRow(row) ==
  LET f == row.cells
      c == Classify(f)
      protocol == NormalizeProtocol(Field(f, "proto"))
      rule == CleanField(f, "rule")
  IN EventWith(
       [timestamp |-> Timestamp(EitherField(f, "time_generated", "receive_time")),
        vendor |-> PaloAlto, product |-> Text("PAN-OS"),
        category |-> Text("TRAFFIC"), type |-> Text(c.type),
        subtype |-> Text(c.subtype), outcome |-> Text(c.outcome),
        severity |-> SeverityFromAction(Field(f, "action")),
        src_ip |-> CleanField(f, "src"), dst_ip |-> CleanField(f, "dst"),
        protocol |-> protocol, src_port |-> NormalizePort(f, "sport", protocol),
        dst_port |-> NormalizePort(f, "dport", protocol),
        user |-> CleanField(f, "srcuser"),
        action |-> NormalizedAction(Field(f, "action")),
        reason |-> CleanField(f, "session_end_reason"),
        object_type |-> IF rule = None THEN None ELSE Text("SECURITY_RULE"),
        object_name |-> rule],
       BuildDetails(f), Texts(f))
=============================================================================
