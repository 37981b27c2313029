---------------------------- MODULE PanosSystem ----------------------------
(***************************************************************************)
(* The PAN-OS parser for the operational events of the SYSTEM log.         *)
(***************************************************************************)
EXTENDS VendorEvent

Readable(row) == row.located /\ row.columns >= 15

VpnSystemSubtypes == {"vpn", "sslvpn", "global-protect", "crypto"}

RouterSystemSubtypes == {"routing", "pbf"}

ServiceSubtypes ==
  {"dhcp", "dnsproxy", "ntpd", "pppoe", "userid", "url-filtering", "satd",
   "sslmgr", "syslog"}

(***************************************************************************)
(* Every SYSTEM event that no other parser is named for.                   *)
(***************************************************************************)
Detect(row) ==
  /\ Readable(row) /\ row.cells.type = "SYSTEM"
  /\ row.cells.subtype \notin VpnSystemSubtypes
  /\ row.cells.subtype \notin RouterSystemSubtypes

-----------------------------------------------------------------------------
(***************************************************************************)
(* The classification; e is the event id, d the description.               *)
(***************************************************************************)
AdministrationRules(e, d) ==
  << Rule("ADMINISTRATION", "ADMIN_LOGIN_FAILURE", "FAILURE",
          \/ Has(e, "auth-fail")
          \/ HasAny(d, {"failed authentication", "authentication failed"})),
     Rule("ADMINISTRATION", "ADMIN_LOGIN_SUCCESS", "SUCCESS",
          \/ HasAny(e, {"auth-su", "auth-succ"})
          \/ HasAny(d, {"authenticated", "login succeeded"})) >>

ConfigurationRules(d) ==
  << Rule("CONFIGURATION", "COMMIT_SUCCESS", "SUCCESS",
          HasAny(d, {"commit job succeeded", "commit succeeded"})),
     Rule("CONFIGURATION", "CONFIG_INSTALL", "SUCCESS",
          HasAny(d, {"config installed", "configuration installed"})) >>

DeviceRules(d) ==
  LET abnormal ==
        HasAny(d, {"unexpected", "failure", "failed", "error", "power loss"})
  IN << Rule("DEVICE", "DEVICE_RESTART", "FAILURE",
             HasAny(d, {"rebooting system", "restarts exhausted"})),
        Rule("DEVICE", "DEVICE_START", "SUCCESS",
             HasAny(d, {"system started", "system startup", "device started"})),
        Rule("DEVICE", "DEVICE_SHUTDOWN",
             IF abnormal THEN "FAILURE" ELSE "UNKNOWN",
             HasAny(d, {"system shutdown", "shutting down",
                        "device shutdown"})) >>

InterfaceRules(f) ==
  LET Port(subtype, outcome, phrases) ==
        Rule("INTERFACE", subtype, outcome,
             /\ f.subtype \in {"port", "lacp"}
             /\ HasAny(f.description, phrases))
  IN << Port("INTERFACE_DOWN", "UNKNOWN", {" down ", "link down", "moved out of"}),
        Port("INTERFACE_UP", "SUCCESS", {" up ", "link up", "moved into"}) >>

HaRules(f) ==
  LET Ha(subtype, outcome, phrase) ==
        Rule("HIGH_AVAILABILITY", subtype, outcome,
             "ha" \in {f.subtype, f.module} /\ Has(f.description, phrase))
  IN << Ha("HA_NON_FUNCTIONAL", "FAILURE", "non-functional"),
        Ha("HA_STATE_CHANGE", "UNKNOWN", "moved from state") >>

ResourceRules(d) ==
  << Rule("RESOURCE", "MEMORY_EXHAUSTION", "FAILURE",
          HasAny(d, {"out of memory", "memory exhaustion", "not enough memory"})),
     Rule("RESOURCE", "STORAGE_EXHAUSTION", "FAILURE",
          HasAny(d, {"not enough space", "disk full", "storage exhausted",
                     "no space left"})),
     Rule("RESOURCE", "HIGH_LOAD", "UNKNOWN",
          HasAny(d, {"high cpu", "high load", "resource utilization"})) >>

HardwareRules(f) ==
  LET e == f.eventid
      d == f.description
      Hardware(subtype, when) ==
        Rule("HARDWARE", subtype, "FAILURE", f.subtype = "hw" /\ when)
  IN << Hardware("POWER_SUPPLY_FAILURE", Has(d, "power supply") \/ Has(e, "ps-fail")),
        Hardware("FAN_FAILURE", Has(d, "fan") \/ HasAny(e, {"fan-fai", "fan-fail"})),
        Hardware("THERMAL_FAILURE", HasAny(d, {"thermal", "temperature"})) >>

CertificateRules(d) ==
  LET Certificate(subtype, outcome, phrases) ==
        Rule("CERTIFICATE", subtype, outcome,
             Has(d, "certificate") /\ HasAny(d, phrases))
  IN << Certificate("CERTIFICATE_RENEWAL_FAILURE", "FAILURE",
                    {"failed to renew", "renewal failed"}),
        Certificate("CERTIFICATE_EXPIRING", "UNKNOWN", {"expires", "expiring"}),
        Certificate("CERTIFICATE_RENEWED", "SUCCESS",
                    {"renewed", "renewal succeeded"}) >>

FirmwareRules(d) ==
  << Rule("FIRMWARE", "SOFTWARE_UPDATE_FAILURE", "FAILURE",
          \/ HasAll(d, {"system software upgrade", "failed"})
          \/ Has(d, "failed to install software")),
     Rule("FIRMWARE", "SOFTWARE_INSTALL", "SUCCESS",
          HasAny(d, {"software", "plugin"}) /\ Has(d, "installed")) >>

ServiceRules(f) ==
  LET e == f.eventid
      d == f.description
      Service(subtype, outcome, when) ==
        Rule("SERVICE", subtype, outcome, f.subtype \in ServiceSubtypes /\ when)
  IN << Service("SERVICE_RESTART", "SUCCESS", Has(e, "restart") \/ Has(d, "restart")),
        Service("SERVICE_CONNECTED", "SUCCESS",
                HasAny(d, {"connection established", "connected"})),
        Service("SERVICE_ERROR", "FAILURE",
                HasAny(d, {"failed", "failure", "error"})),
        Service("SERVICE_START", "SUCCESS", Has(d, "started") \/ Has(e, "start")) >>

Classify(f) ==
  LET e == f.eventid
      d == f.description
  IN FirstRule(AdministrationRules(e, d) \o ConfigurationRules(d) \o DeviceRules(d)
               \o InterfaceRules(f) \o HaRules(f) \o ResourceRules(d)
               \o HardwareRules(f) \o CertificateRules(d) \o FirmwareRules(d)
               \o ServiceRules(f))

-----------------------------------------------------------------------------
ActionOf ==
  [ADMIN_LOGIN_SUCCESS |-> "login", ADMIN_LOGIN_FAILURE |-> "login",
   COMMIT_SUCCESS |-> "commit", CONFIG_INSTALL |-> "install",
   DEVICE_START |-> "start", DEVICE_RESTART |-> "restart",
   DEVICE_SHUTDOWN |-> "shutdown", INTERFACE_UP |-> "interface-up",
   INTERFACE_DOWN |-> "interface-down", HA_STATE_CHANGE |-> "state-change",
   HA_NON_FUNCTIONAL |-> "state-change", MEMORY_EXHAUSTION |-> "resource-alert",
   STORAGE_EXHAUSTION |-> "resource-alert", HIGH_LOAD |-> "resource-alert",
   SERVICE_START |-> "start", SERVICE_RESTART |-> "restart",
   SERVICE_CONNECTED |-> "connect", SERVICE_ERROR |-> "error",
   POWER_SUPPLY_FAILURE |-> "hardware-alert", FAN_FAILURE |-> "hardware-alert",
   THERMAL_FAILURE |-> "hardware-alert",
   CERTIFICATE_EXPIRING |-> "certificate-check",
   CERTIFICATE_RENEWED |-> "certificate-renew",
   CERTIFICATE_RENEWAL_FAILURE |-> "certificate-renew",
   SOFTWARE_INSTALL |-> "install", SOFTWARE_UPDATE_FAILURE |-> "update"]

Action(subtype) ==
  IF subtype \in DOMAIN ActionOf THEN Text(ActionOf[subtype]) ELSE None

\* what every system event keeps of its row
RowDetails(f) ==
  [system_subtype |-> CleanField(f, "subtype"), module |-> CleanField(f, "module"),
   sequence_number |-> CleanField(f, "sequence_number"),
   description |-> CleanField(f, "description"),
   system_object |-> CleanField(f, "object"),
   device_name |-> CleanField(f, "device_name"),
   virtual_system |-> CleanField(f, "vsys"), serial_number |-> CleanField(f, "serial")]

\* services are named by their subtype in upper case
ServiceName(f) ==
  IF f.subtype \in NullTexts THEN None ELSE Text(Upper(f.subtype))

OperationDetails(f, c) ==
  LET d == f.description
  IN CASE c.type = "ADMINISTRATION" ->
            [authentication_user |-> Extract(d, "user"),
             authentication_source_ip |-> Extract(d, "From"),
             authentication_reason |-> Extract(d, "Reason")]
       [] c.type = "CONFIGURATION" -> [configuration_user |-> Extract(d, "user")]
       [] c.type = "DEVICE" -> [device_operation |-> Text(c.subtype)]
       [] c.type = "INTERFACE" ->
            [interface_name |-> Extract(d, "port"),
             interface_status |-> Text(IF c.subtype = "INTERFACE_UP" THEN "UP"
                                       ELSE "DOWN")]
       [] c.type = "HIGH_AVAILABILITY" ->
            [ha_group |-> Extract(d, "HA-Group"),
             previous_state |-> Extract(d, "from-state"),
             new_state |-> Extract(d, "to-state")]
       [] OTHER -> Empty

ResourceTypes ==
  [MEMORY_EXHAUSTION |-> "MEMORY", STORAGE_EXHAUSTION |-> "STORAGE",
   HIGH_LOAD |-> "SYSTEM_LOAD"]

\* the pattern that names the broken part; a sensor has no name
HardwareParts ==
  [POWER_SUPPLY_FAILURE |-> "Power-Supply", FAN_FAILURE |-> "Fan",
   THERMAL_FAILURE |-> "no-name"]

HardwareTypes ==
  [POWER_SUPPLY_FAILURE |-> "POWER_SUPPLY", FAN_FAILURE |-> "FAN",
   THERMAL_FAILURE |-> "THERMAL_SENSOR"]

AssetDetails(f, c) ==
  LET d == f.description
  IN CASE c.type = "RESOURCE" ->
            [resource_type |-> Text(ResourceTypes[c.subtype]),
             process_id |-> Extract(d, "process-id")]
       [] c.type = "SERVICE" ->
            [service_name |-> ServiceName(f), service_operation |-> Text(c.subtype)]
       [] c.type = "HARDWARE" ->
            [hardware_type |-> Text(HardwareTypes[c.subtype]),
             hardware_name |-> Extract(d, HardwareParts[c.subtype])]
       [] c.type = "CERTIFICATE" ->
            [certificate_type |-> Text("DEVICE_CERTIFICATE"),
             certificate_operation |-> Text(c.subtype)]
       [] c.type = "FIRMWARE" ->
            [software_version |-> Extract(d, "version"),
             software_operation |-> Text(c.subtype)]
       [] OTHER -> Empty

BuildDetails(f, c) ==
  Present(OperationDetails(f, c) ++ AssetDetails(f, c) ++ RowDetails(f))

\* type and name of the object the event is about
BuildObject(f, c) ==
  LET d == f.description
      object == CleanField(f, "object")
  IN CASE c.type = "ADMINISTRATION" -> <<Text("ADMIN_USER"), Extract(d, "user")>>
       [] c.type = "CONFIGURATION" -> <<Text("CONFIGURATION"), object>>
       [] c.type = "DEVICE" -> <<Text("DEVICE"), CleanField(f, "device_name")>>
       [] c.type = "INTERFACE" -> <<Text("NETWORK_INTERFACE"), Extract(d, "port")>>
       [] c.type = "HIGH_AVAILABILITY" -> <<Text("HA_GROUP"), Extract(d, "HA-Group")>>
       [] c.type = "RESOURCE" -> <<Text("SYSTEM_RESOURCE"), Text(c.subtype)>>
       [] c.type = "SERVICE" -> <<Text("SERVICE"), ServiceName(f)>>
       [] c.subtype = "POWER_SUPPLY_FAILURE" ->
            <<Text("POWER_SUPPLY"), Extract(d, "Power-Supply")>>
       [] c.subtype = "FAN_FAILURE" -> <<Text("FAN"), Extract(d, "Fan")>>
       [] c.subtype = "THERMAL_FAILURE" -> <<Text("HARDWARE_COMPONENT"), object>>
       [] c.type = "CERTIFICATE" ->
            <<Text("CERTIFICATE"), Text("device-certificate")>>
       [] c.type = "FIRMWARE" -> <<Text("SOFTWARE"), Or(Extract(d, "version"), object)>>
       [] OTHER -> <<None, object>>

(***************************************************************************)
(* The event of a row that Detect accepts; for any other normalize raises. *)
(***************************************************************************)
NormalizeRow(row) ==
  LET f == row.cells
      d == f.description
      c == Classify(f)
      object == BuildObject(f, c)
  IN EventWith(
       [timestamp |-> Timestamp(EitherField(f, "time_generated", "receive_time")),
        vendor |-> PaloAlto, product |-> Text("PAN-OS"),
        category |-> Text("SYSTEM"), type |-> Text(c.type),
        subtype |-> Text(c.subtype), outcome |-> Text(c.outcome),
        severity |-> CleanField(f, "severity"),
        user |-> Extract(d, "user"), src_ip |-> Extract(d, "From"),
        action |-> Action(c.subtype),
        reason |-> IF c.outcome = "FAILURE" THEN Or(Extract(d, "Reason"), Cleaned(d))
                   ELSE Extract(d, "Reason"),
        object_type |-> object[1], object_name |-> object[2],
        vendor_event_id |-> CleanField(f, "eventid")],
       BuildDetails(f, c), Texts(f))
=============================================================================
