--------------------------- MODULE VendorParsers ---------------------------
(***************************************************************************)
(* The vendor parsers by name: what each accepts, and what it makes of a   *)
(* log.  A log is a record with all that any parser or detector sees:      *)
(*   kind      "log", "blank" or "comment"                                 *)
(*   text      what is written to the raw file                             *)
(*   header, time, facility, severity, event_id, message, forms, groups,   *)
(*   device    see CiscoLog and DemoSources                                *)
(*   cells, columns, located                                               *)
(*             see the PAN-OS parsers                                      *)
(*   pairs     see the FortiGate parsers                                   *)
(*   marks, balanced, dated, asa                                           *)
(*             see Detection                                               *)
(*   source, payload                                                       *)
(*             see DemoSources                                             *)
(***************************************************************************)
EXTENDS DemoSources

CONSTANT EventIdOf  \* the last five digits of each FortiGate log id

Ios == INSTANCE CiscoRouter
IosSystem == INSTANCE CiscoSystem
Routing == INSTANCE RoutingLog
FgTraffic == INSTANCE FortigateTraffic
FgSystem == INSTANCE FortigateSystem
FgVpn == INSTANCE FortigateVpn
PaTraffic == INSTANCE PanosTraffic
PaVpn == INSTANCE PanosVpn
PaRouter == INSTANCE PanosRouter
PaSystem == INSTANCE PanosSystem
Engine == INSTANCE Detection

CiscoConverters == {"cisco.traffic", "cisco.vpn", "cisco.router", "cisco.system"}
LineConverters == CiscoConverters \cup {"fortigate.router"}
TableConverters == {"fortigate.traffic"}
PanosParsers == {"paloalto.traffic", "paloalto.vpn", "paloalto.router",
                 "paloalto.system"}
ListParsers == PanosParsers \cup {"fortigate.system", "fortigate.vpn"}

Converters == LineConverters \cup TableConverters \cup ListParsers \cup {"demo"}

(***************************************************************************)
(* What detect() of the parser says of the log.                            *)
(***************************************************************************)
Accepts(parser, log) ==
  CASE parser = "paloalto.traffic" -> PaTraffic!Detect(log)
    [] parser = "paloalto.vpn" -> PaVpn!Detect(log)
    [] parser = "paloalto.router" -> PaRouter!Detect(log)
    [] parser = "paloalto.system" -> PaSystem!Detect(log)
    [] parser = "fortigate.system" -> FgSystem!Detect(log.pairs)
    [] parser = "fortigate.vpn" -> FgVpn!Detect(log.pairs)

(***************************************************************************)
(* What convert(), convert_log(), convert_row() or normalize() returns.    *)
(***************************************************************************)
Convert(converter, log) ==
  CASE converter = "cisco.traffic" -> Asa!ConvertLine(log)
    [] converter = "cisco.vpn" -> AsaVpn!ConvertLine(log)
    [] converter = "cisco.router" -> Ios!ConvertLine(log)
    [] converter = "cisco.system" -> IosSystem!ConvertLine(log)
    [] converter = "fortigate.router" -> Routing!ConvertLog(log)
    [] converter = "fortigate.traffic" -> FgTraffic!ConvertRow(log.cells)
    [] converter = "fortigate.system" -> FgSystem!NormalizeLog(log.pairs)
    [] converter = "fortigate.vpn" -> FgVpn!NormalizeLog(log.pairs)
    [] converter = "paloalto.traffic" -> PaTraffic!NormalizeRow(log)
    [] converter = "paloalto.vpn" -> PaVpn!NormalizeRow(log)
    [] converter = "paloalto.router" -> PaRouter!NormalizeRow(log)
    [] converter = "paloalto.system" -> PaSystem!NormalizeRow(log)
    [] converter = "demo" -> PrepareLine(log).event
=============================================================================
