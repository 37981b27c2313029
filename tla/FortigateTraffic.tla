------------------------- MODULE FortigateTraffic -------------------------
(***************************************************************************)
(* The converter of a FortiGate traffic table.  A row is the function of   *)
(* its columns; every row is converted.                                    *)
(***************************************************************************)
EXTENDS VendorEvent

LOCAL INSTANCE TLC

EmptyToNone(row, key) == IF Field(row, key) = "" THEN None ELSE Text(row[key])

\* what is no number is dropped
ToInt(row, key) ==
  IF Field(row, key) \in DOMAIN Numerals THEN Number(Numerals[row[key]]) ELSE None

ProtocolNames ==
  ("1" :> "ICMP") @@ ("6" :> "TCP") @@ ("17" :> "UDP") @@ ("47" :> "GRE")
  @@ ("50" :> "ESP") @@ ("51" :> "AH") @@ ("58" :> "ICMPv6")

NormalizeProtocol(row) ==
  LET proto == Field(row, "proto")
  IN IF proto = "" THEN None
     ELSE Text(IF proto \in DOMAIN ProtocolNames THEN ProtocolNames[proto]
               ELSE Upper(proto))

ActionNames ==
  ("accept" :> "allow") @@ ("allow" :> "allow") @@ ("permit" :> "allow")
  @@ ("deny" :> "deny") @@ ("drop" :> "deny") @@ ("reject" :> "deny")
  @@ ("close" :> "close") @@ ("start" :> "start")

NormalizeAction(row) ==
  LET action == Field(row, "action")
  IN IF action = "" THEN None
     ELSE Text(IF action \in DOMAIN ActionNames THEN ActionNames[action] ELSE action)

DeriveOutcome(action) ==
  CASE action \in {Text("allow"), Text("close"), Text("start")} -> Text("success")
    [] action = Text("deny") -> Text("failure")
    [] OTHER -> None

DeriveType(row) ==
  Or(EmptyToNone(row, "type"), Or(EmptyToNone(row, "subtype"), Text("traffic")))

\* the level of the log, or what its action suggests
DeriveSeverity(row, action) ==
  CASE Field(row, "level") # "" -> Text(row.level)
    [] Field(row, "level") = "" /\ action = Text("deny") -> Text("low")
    [] Field(row, "level") = ""
       /\ action \in {Text("allow"), Text("close"), Text("start")} ->
         Text("informational")
    [] OTHER -> Text("unknown")

\* a zone such as +0530 is written +05:30
BuildTimestamp(row) ==
  LET zone == Field(row, "tz")
  IN IF Field(row, "date") = "" \/ Field(row, "time") = "" THEN None
     ELSE Text(row.date \o "T" \o row.time \o
               (IF zone \in DOMAIN IsoForm THEN IsoForm[zone] ELSE zone))

-----------------------------------------------------------------------------
TextDetails ==
  [service |-> "service", session_id |-> "sessionid", source_interface |-> "srcintf",
   destination_interface |-> "dstintf", source_interface_role |-> "srcintfrole",
   destination_interface_role |-> "dstintfrole", policy_name |-> "policyname",
   nat_disposition |-> "trandisp", translated_ip |-> "transip",
   virtual_domain |-> "vd", application |-> "app",
   application_category |-> "appcat", application_risk |-> "apprisk"]

NumberDetails ==
  [duration |-> "duration", bytes_sent |-> "sentbyte", bytes_received |-> "rcvdbyte",
   packets_sent |-> "sentpkt", packets_received |-> "rcvdpkt",
   policy_id |-> "policyid", translated_port |-> "transport",
   application_id |-> "appid"]

ScalarColumns ==
  {"date", "time", "tz", "type", "subtype", "level", "srcip", "srcport", "dstip",
   "dstport", "proto", "action", "logid"}

MappedColumns ==
  ScalarColumns \cup {TextDetails[k] : k \in DOMAIN TextDetails}
                \cup {NumberDetails[k] : k \in DOMAIN NumberDetails}

BuildDetails(row) ==
  Present([k \in DOMAIN TextDetails |-> EmptyToNone(row, TextDetails[k])] ++
          [k \in DOMAIN NumberDetails |-> ToInt(row, NumberDetails[k])])

\* a mapped column is left out, whether or not its value could be used
VendorFields(row) ==
  Present([k \in DOMAIN row \ MappedColumns |-> EmptyToNone(row, k)])

(***************************************************************************)
(* convert_row.                                                            *)
(***************************************************************************)
ConvertRow(row) ==
  LET action == NormalizeAction(row)
  IN EventWith(
       [timestamp |-> BuildTimestamp(row),
        vendor |-> Text("Fortinet"), product |-> Text("FortiGate"),
        category |-> Text("network_activity"), type |-> DeriveType(row),
        subtype |-> EmptyToNone(row, "subtype"), outcome |-> DeriveOutcome(action),
        severity |-> DeriveSeverity(row, action),
        src_ip |-> EmptyToNone(row, "srcip"), src_port |-> ToInt(row, "srcport"),
        dst_ip |-> EmptyToNone(row, "dstip"), dst_port |-> ToInt(row, "dstport"),
        protocol |-> NormalizeProtocol(row), action |-> action,
        vendor_event_id |-> EmptyToNone(row, "logid")],
       BuildDetails(row), VendorFields(row))
=============================================================================
