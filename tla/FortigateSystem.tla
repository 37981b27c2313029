-------------------------- MODULE FortigateSystem --------------------------
(***************************************************************************)
(* The FortiGate parser for system events.                                 *)
(***************************************************************************)
EXTENDS FortigateLog

ConfigurationIds == {"32099", "32102", "32104", "44544", "44545"}

SystemEventIds ==
  ConfigurationIds \cup
  {"32001", "32002", "32003", "32009", "32545", "20099", "20204", "40704", "22011",
   "32103", "22081"}

Detect(f) == Field(f, "subtype") = "system" \/ ShortLogId(f) \in SystemEventIds

-----------------------------------------------------------------------------
\* the phrases in the fields that the code joins into one text
TextOf(f) ==
  UNION {PhrasesIn[Field(f, n)] : n \in {"action", "status", "logdesc", "msg", "reason"}}

Identified(f, ids, type, subtype, outcome) ==
  Rule(type, subtype, outcome, ShortLogId(f) \in ids)

AdministrationRules(f) ==
  << Identified(f, {"32001"}, "ADMINISTRATION", "ADMIN_LOGIN_SUCCESS", "SUCCESS"),
     Identified(f, {"32002"}, "ADMINISTRATION", "ADMIN_LOGIN_FAILURE", "FAILURE"),
     Identified(f, {"32003"}, "ADMINISTRATION", "ADMIN_LOGOUT", "SUCCESS") >>

ConfigurationRules(f) ==
  << Identified(f, ConfigurationIds, "CONFIGURATION", "CONFIG_CHANGE", "SUCCESS"),
     Rule("CONFIGURATION", "CONFIG_CHANGE", "SUCCESS",
          TextOf(f) \cap {"configuration changed", "config changed"} # {}) >>

AbnormalShutdown ==
  {"unexpected", "power failure", "power loss", "integrity check failed", "error",
   "failure"}

DeviceRules(f) ==
  << Identified(f, {"32009"}, "DEVICE", "DEVICE_START", "SUCCESS"),
     Identified(f, {"32545"}, "DEVICE", "DEVICE_RESTART", "SUCCESS"),
     Rule("DEVICE", "DEVICE_SHUTDOWN",
          IF TextOf(f) \cap AbnormalShutdown # {} THEN "FAILURE" ELSE "UNKNOWN",
          \/ Field(f, "action") = "shutdown"
          \/ TextOf(f) \cap {"device shutdown", "system shutdown"} # {}) >>

InterfaceRules(f) ==
  LET Status(subtype, outcome, when) ==
        Rule("INTERFACE", subtype, outcome, ShortLogId(f) = "20099" /\ when)
  IN << Status("INTERFACE_UP", "SUCCESS", Field(f, "status") = "up"),
        Status("INTERFACE_DOWN", "UNKNOWN", Field(f, "status") = "down"),
        Status("INTERFACE_STATUS_CHANGE", "UNKNOWN", TRUE) >>

ServiceRules(f) ==
  << Identified(f, {"20204"}, "SERVICE", "DAEMON_START", "SUCCESS"),
     Rule("SERVICE", "DAEMON_ERROR", "FAILURE",
          "daemon" \in TextOf(f) /\ TextOf(f) \cap {"error", "failed"} # {}) >>

ResourceRules(f) ==
  << Identified(f, {"40704"}, "RESOURCE", "PERFORMANCE_STATISTICS", "UNKNOWN"),
     Identified(f, {"22011"}, "RESOURCE", "MEMORY_CONSERVE_ENTERED", "FAILURE"),
     Identified(f, {"32103"}, "FIRMWARE", "FIRMWARE_AVAILABLE", "UNKNOWN"),
     Identified(f, {"22081"}, "FIRMWARE", "FIRMWARE_UPDATE_FAILURE", "FAILURE") >>

FallbackRules(f) ==
  LET Login(subtype, outcome, statuses) ==
        Rule("ADMINISTRATION", subtype, outcome,
             Field(f, "action") = "login" /\ Field(f, "status") \in statuses)
  IN << Login("ADMIN_LOGIN_SUCCESS", "SUCCESS", {"success", "successful"}),
        Login("ADMIN_LOGIN_FAILURE", "FAILURE", {"failed", "failure", "denied"}),
        Rule("RESOURCE", "MEMORY_CONSERVE_ENTERED", "FAILURE",
             \/ "memory conserve" \in TextOf(f)
             \/ Field(f, "conserve") = "on" /\ Field(f, "service") = "kernel") >>

Classify(f) ==
  FirstRule(AdministrationRules(f) \o ConfigurationRules(f) \o DeviceRules(f)
            \o InterfaceRules(f) \o ServiceRules(f) \o ResourceRules(f)
            \o FallbackRules(f))

-----------------------------------------------------------------------------
\* an explicit field, or the name after "Interface" in the message
InterfaceName(f) ==
  LET explicit == IF Field(f, "interface") # "" THEN f.interface
                  ELSE EitherField(f, "intf", "dev")
  IN IF explicit # "" THEN Clean(explicit)
     ELSE Extract(Field(f, "msg"), "interface-name")

Either(f, a, b) == Clean(EitherField(f, a, b))

ManagementDetails(f, type) ==
  CASE type = "ADMINISTRATION" ->
         [admin_method |-> Clean(Field(f, "method")),
          interface |-> Clean(Field(f, "ui")),
          admin_profile |-> Clean(Field(f, "profile")),
          session_serial |-> Clean(Field(f, "sn"))]
    [] type = "CONFIGURATION" ->
         [configuration_path |-> Either(f, "cfgpath", "path"),
          configuration_object |-> Either(f, "cfgobj", "object"),
          transaction_id |-> Clean(Field(f, "cfgtid")),
          management_interface |-> Clean(Field(f, "ui")),
          module |-> Clean(Field(f, "module")),
          submodule |-> Clean(Field(f, "submodule"))]
    [] type = "DEVICE" ->
         [device_id |-> Clean(Field(f, "devid")),
          virtual_domain |-> Clean(Field(f, "vd")),
          device_name |-> Either(f, "devname", "hostname")]
    [] OTHER -> Empty

Meters ==
  [cpu_percent |-> "cpu", memory_percent |-> "mem", disk_percent |-> "disk",
   total_sessions |-> "totalsession", session_setup_rate |-> "setuprate",
   disk_log_rate |-> "disklograte", fortianalyzer_log_rate |-> "fazlograte",
   free_disk_storage |-> "freediskstorage", system_uptime |-> "sysuptime"]

ResourceDetails(f) ==
  [k \in DOMAIN Meters \cup {"conserve_mode", "resource_service"} |->
     CASE k = "conserve_mode" ->
            IF Field(f, "conserve") = "on" THEN Text("True") ELSE None
       [] k = "resource_service" -> Clean(Field(f, "service"))
       [] OTHER -> Converted(ValueOf(f, Meters[k]))]

BuildDetails(f, type) ==
  Present(
    CASE type = "INTERFACE" -> [interface_name |-> InterfaceName(f),
                                interface_status |-> Clean(Field(f, "status"))]
      [] type = "SERVICE" -> [service_name |-> Either(f, "daemon", "service"),
                              process_id |-> Converted(ValueOf(f, "pid"))]
      [] type = "FIRMWARE" -> [firmware_version |-> Either(f, "version", "firmware"),
                               firmware_status |-> Clean(Field(f, "status"))]
      [] type = "RESOURCE" -> ResourceDetails(f)
      [] OTHER -> ManagementDetails(f, type))

BuildObject(f, type) ==
  CASE type = "INTERFACE" -> <<Text("NETWORK_INTERFACE"), InterfaceName(f)>>
    [] type = "SERVICE" -> <<Text("SYSTEM_SERVICE"), Either(f, "daemon", "service")>>
    [] type = "FIRMWARE" -> <<Text("FIRMWARE"), Either(f, "version", "firmware")>>
    [] OTHER -> <<None, None>>

(***************************************************************************)
(* The event of a log that Detect accepts; for any other normalize raises. *)
(***************************************************************************)
NormalizeLog(f) ==
  LET c == Classify(f)
      object == BuildObject(f, c.type)
  IN EventWith(
       [timestamp |-> BuildTimestamp(f),
        vendor |-> Text("Fortinet"), product |-> Text("FortiGate"),
        category |-> Text("SYSTEM"), type |-> Text(c.type),
        subtype |-> Text(c.subtype), outcome |-> Text(c.outcome),
        severity |-> Clean(Field(f, "level")),
        src_ip |-> Either(f, "srcip", "remip"),
        src_port |-> Converted(EitherValue(f, "srcport", "remport")),
        dst_ip |-> Either(f, "dstip", "locip"),
        dst_port |-> Converted(EitherValue(f, "dstport", "locport")),
        protocol |-> NormalizeProtocol(EitherValue(f, "proto", "protocol")),
        user |-> Clean(Field(f, "user")), action |-> Clean(Field(f, "action")),
        reason |-> Either(f, "reason", "error_reason"),
        object_type |-> object[1], object_name |-> object[2],
        vendor_event_id |-> ValueOf(f, "logid")],
       BuildDetails(f, c.type), Texts(f))
=============================================================================
