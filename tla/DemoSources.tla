---------------------------- MODULE DemoSources ----------------------------
(***************************************************************************)
(* What the multi-vendor demonstration makes of one line of its sources:   *)
(* the legacy event and the OCSF binding it is mapped with.  Its FortiGate *)
(* and PAN-OS sources go through semantic packs and are not here.          *)
(*                                                                         *)
(* A line has a "source".  The payload of a Suricata alert is the function *)
(* of the entries that are read; "forms" says which of "object", "source"  *)
(* and "alert" are there.                                                  *)
(***************************************************************************)
EXTENDS VendorEvent

LOCAL INSTANCE TLC

Sources == {"cisco", "suricata", "linux"}

Asa == INSTANCE CiscoTraffic
AsaVpn == INSTANCE CiscoVpn

StatusMappings ==
  ("unknown" :> 0) @@ ("UNKNOWN" :> 0) @@ ("success" :> 1) @@ ("SUCCESS" :> 1)
  @@ ("failure" :> 2) @@ ("FAILURE" :> 2)

\* Mutant: the parsers that write in capitals are forgotten.
SmallStatusMappings == ("unknown" :> 0) @@ ("success" :> 1) @@ ("failure" :> 2)

SeverityMappings ==
  [unknown |-> 0, UNKNOWN |-> 0, debug |-> 1, informational |-> 1, information |-> 1,
   notice |-> 2, low |-> 2, warning |-> 3, medium |-> 3, error |-> 4, high |-> 4,
   alert |-> 5, critical |-> 5, emergency |-> 5, fatal |-> 6]

\* Mutant: bound with the statuses of one way of writing only.
BoundToSmallStatuses(class, activities) ==
  [status |-> "bound", class_uid |-> class, activity_mappings |-> activities,
   status_mappings |-> SmallStatusMappings, severity_mappings |-> SeverityMappings,
   default_severity_id |-> 0]

BoundTo(class, activities) ==
  [status |-> "bound", class_uid |-> class, activity_mappings |-> activities,
   status_mappings |-> StatusMappings, severity_mappings |-> SeverityMappings,
   default_severity_id |-> 0]

NetworkBinding == BoundTo(4001, [traffic |-> 6, SESSION |-> 6, POLICY |-> 6])
AuthenticationBinding == BoundTo(3002, [vpn |-> 1, AUTHENTICATION |-> 1])
ProcessBinding == BoundTo(1007, [PROCESS |-> 1])
DetectionBinding == BoundTo(2004, [ALERT |-> 1])

(***************************************************************************)
(* _trace_fields; the identifiers are those of the stored evidence.        *)
(***************************************************************************)
Traced(event) ==
  [event EXCEPT !.details = Put(event.details, "raw_sha256", Text("raw_sha256"))]

Prepared(event, binding) == [event |-> Traced(event), binding |-> binding]

\* Only the start of a WebVPN session goes to the VPN converter.
IsWebVpnStart(line) == line.asa = "716001" /\ line.severity = 6

\* _iso_cisco_timestamp: a time that strptime() refuses stays as it is
IsoCisco(v) ==
  IF Is("text", v) /\ v[2] \in DOMAIN IsoForm THEN Text(IsoForm[v[2]] \o "+00:00")
  ELSE v

CiscoEvent(line) ==
  LET event == IF IsWebVpnStart(line) THEN AsaVpn!ConvertLine(line)
               ELSE Asa!ConvertLine(line)
  IN Prepared([event EXCEPT !.fields.timestamp = IsoCisco(event.fields.timestamp)],
              IF IsWebVpnStart(line) THEN AuthenticationBinding ELSE NetworkBinding)

-----------------------------------------------------------------------------
\* what has no form of an alert stops the run
IsAlert(line) == {"object", "source", "alert"} \subseteq line.forms

AlertSeverity(payload) ==
  LET level == Lookup(payload, "severity")
  IN Text(CASE level = Number(1) -> "critical" [] level = Number(2) -> "high"
            [] level = Number(3) -> "medium" [] OTHER -> "unknown")

\* str() of the entry: a missing one is the text "None"
SignatureId(payload) ==
  IF "signature_id" \in DOMAIN payload THEN payload.signature_id ELSE Text("None")

AlertScalars ==
  [timestamp |-> "timestamp", vendor |-> "vendor", product |-> "product",
   subtype |-> "signature", src_ip |-> "src_ip", src_port |-> "src_port",
   dst_ip |-> "dest_ip", dst_port |-> "dest_port", protocol |-> "proto",
   reason |-> "category", object_name |-> "signature"]

SuricataEvent(line) ==
  LET payload == line.payload
  IN Prepared(
       EventWith(
         [k \in DOMAIN AlertScalars |-> Lookup(payload, AlertScalars[k])]
         ++ Texts([category |-> "detection_finding", type |-> "ALERT",
                   outcome |-> "UNKNOWN", action |-> "alert",
                   object_type |-> "ids_signature"])
         ++ [severity |-> AlertSeverity(payload),
             vendor_event_id |-> SignatureId(payload)],
         [flow_id |-> Lookup(payload, "flow_id"),
          signature_revision |-> Lookup(payload, "rev"),
          tier0_preserved_before_demo_projection |-> Text("True")],
         payload),
       DetectionBinding)

-----------------------------------------------------------------------------
(***************************************************************************)
(* The parser for Linux syslog lines.  "Failed-password" and "sudo" stand  *)
(* for its two patterns; what they capture is in the groups of the line.   *)
(***************************************************************************)
LinuxBase ==
  Texts([vendor |-> "Linux", product |-> "Syslog",
         category |-> "system_activity", type |-> "SYSTEM_EVENT",
         subtype |-> "SYSLOG", severity |-> "informational"])

LinuxFailure(line) ==
  [src_ip |-> Text(line.groups.ip), user |-> Text(line.groups.user)]
  ++ Texts([category |-> "authentication", type |-> "AUTHENTICATION",
            subtype |-> "AUTH_FAILURE", outcome |-> "FAILURE",
            severity |-> "medium", action |-> "authentication_failure"])

LinuxCommand(line) ==
  [user |-> Text(line.groups.user), object_name |-> Text(line.groups.command)]
  ++ Texts([type |-> "PROCESS", subtype |-> "SUDO_COMMAND", outcome |-> "SUCCESS",
            action |-> "command_execution", object_type |-> "COMMAND"])

(***************************************************************************)
(* The event of a line that is not blank; parse raises for a blank one.    *)
(* The whole text is kept, and the time is not looked for.                 *)
(***************************************************************************)
LinuxParse(line) ==
  LET kept == [message |-> Text(line.text)]
  IN IF "Failed-password" \in line.forms
     THEN EventWith(LinuxFailure(line) ++ LinuxBase, Empty, kept)
     ELSE IF "sudo" \in line.forms
     THEN EventWith(LinuxCommand(line) ++ LinuxBase,
                    [command |-> Text(line.groups.command)], kept)
     ELSE EventWith(LinuxBase, Empty, kept)

\* _leading_iso_timestamp: the first word of the line, when it is a time
LeadingIso(line) ==
  IF line.time \in DOMAIN IsoForm THEN Text(IsoForm[line.time]) ELSE None

\* every line that is no authentication is bound as a process
LinuxEvent(line) ==
  LET event == [LinuxParse(line) EXCEPT !.fields.timestamp = LeadingIso(line)]
  IN Prepared(event, IF event.fields.type = Text("AUTHENTICATION")
                     THEN AuthenticationBinding ELSE ProcessBinding)

(***************************************************************************)
(* The event of a line that does not stop the run.                         *)
(***************************************************************************)
PrepareLine(line) ==
  CASE line.source = "cisco" -> CiscoEvent(line)
    [] line.source = "suricata" -> SuricataEvent(line)
    [] line.source = "linux" -> LinuxEvent(line)
=============================================================================
