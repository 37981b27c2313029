---------------------------- MODULE CiscoSystem ----------------------------
(***************************************************************************)
(* The converter of Cisco IOS system logs.                                 *)
(***************************************************************************)
EXTENDS CiscoLog

Patterns ==
  {Pattern("Reload", {"user", "source", "reason"}, {}),
   Pattern("System-restarted", {"software"}, {}),
   Pattern("Task", {"msec", "process"}, {"msec"}),
   Pattern("Memory-allocation", {"bytes", "address", "alignment"},
           {"bytes", "alignment"}),
   Pattern("Power-supply", {"id"}, {}), Pattern("Fan", {"id"}, {}),
   Pattern("Temperature", {"id"}, {}), Pattern("Process-crashed", {"process"}, {}),
   Pattern("Interface-error", {"interface"}, {}), Pattern("Module", {"id"}, {}),
   Pattern("System-clock", {"old", "new"}, {}),
   Pattern("Configuration-saved", {"destination", "user"}, {})}

What(subtype, outcome, action, object) ==
  Texts([subtype |-> subtype, outcome |-> outcome, action |-> action,
         object_type |-> object])

Named(m, name) == [object_name |-> Group(m, name)]

ParseReload(m) ==
  Match(m, "Reload", Parsed(
    What("device_reload", "success", "device_reload", "network_device")
    ++ [user |-> Group(m, "user"), reason |-> UndottedGroup(m, "reason")],
    [request_source |-> Group(m, "source")]))

ParseRestart(m) ==
  Match(m, "System-restarted", Parsed(
    What("device_restart", "success", "system_restarted", "network_device"),
    [software |-> Group(m, "software")]))

ParseCpuhog(m) ==
  Match(m, "Task", Parsed(
    What("resource_usage", "failure", "cpu_hog_detected", "process")
    ++ Named(m, "process"),
    [runtime_ms |-> IntGroup(m, "msec")]))

ParseMallocfail(m) ==
  Match(m, "Memory-allocation", Parsed(
    What("memory_error", "failure", "memory_allocation_failed", "memory"),
    Present([requested_bytes |-> IntGroup(m, "bytes"),
             address |-> Group(m, "address"),
             alignment |-> IntGroup(m, "alignment")])))

\* a part that failed, named by what the pattern captures
Broken(m, form, subtype, action, object, name) ==
  Match(m, form, Parsed(What(subtype, "failure", action, object) ++ Named(m, name),
                        Empty))

ParsePowerFailure(m) ==
  Broken(m, "Power-supply", "hardware", "power_supply_failed", "power_supply", "id")

ParseFanFailure(m) == Broken(m, "Fan", "hardware", "fan_failed", "fan", "id")

ParseTemperature(m) ==
  Broken(m, "Temperature", "hardware", "temperature_threshold_exceeded",
         "temperature_sensor", "id")

ParseCrash(m) ==
  Broken(m, "Process-crashed", "process_failure", "process_crashed", "process",
         "process")

ParseInterfaceError(m) ==
  Broken(m, "Interface-error", "hardware", "interface_hardware_error",
         "network_interface", "interface")

ParseModuleFailure(m) ==
  Broken(m, "Module", "module_failure", "module_failure", "hardware_module", "id")

ParseClockUpdate(m) ==
  Match(m, "System-clock", Parsed(
    What("clock_change", "success", "clock_changed", "system_clock"),
    [old_time |-> Group(m, "old"), new_time |-> Group(m, "new")]))

ParseConfigSave(m) ==
  Match(m, "Configuration-saved", Parsed(
    What("configuration_save", "success", "configuration_saved", "configuration")
    ++ Named(m, "destination") ++ [user |-> Group(m, "user")],
    [destination |-> Group(m, "destination")]))

(***************************************************************************)
(* The event of a line.                                                    *)
(***************************************************************************)
ParseMessage(m) ==
  CASE <<m.facility, m.event_id>> = <<"SYS", "RELOAD">> -> ParseReload(m)
    [] <<m.facility, m.event_id>> = <<"SYS", "RESTART">> -> ParseRestart(m)
    [] <<m.facility, m.event_id>> = <<"SYS", "CPUHOG">> -> ParseCpuhog(m)
    [] <<m.facility, m.event_id>> = <<"SYS", "MALLOCFAIL">> -> ParseMallocfail(m)
    [] <<m.facility, m.event_id>> = <<"PLATFORM_ENV", "PWRFAIL">> ->
         ParsePowerFailure(m)
    [] <<m.facility, m.event_id>> = <<"PLATFORM_ENV", "FANFAIL">> ->
         ParseFanFailure(m)
    [] <<m.facility, m.event_id>> = <<"PLATFORM_ENV", "TEMP">> -> ParseTemperature(m)
    [] <<m.facility, m.event_id>> = <<"SYS", "CRASH">> -> ParseCrash(m)
    [] <<m.facility, m.event_id>> = <<"LINK", "ERROR">> -> ParseInterfaceError(m)
    [] <<m.facility, m.event_id>> = <<"SYS", "CLOCKUPDATE">> -> ParseClockUpdate(m)
    [] <<m.facility, m.event_id>> = <<"SYS", "CONFIG_SAVE">> -> ParseConfigSave(m)
    [] <<m.facility, m.event_id>> = <<"MODULE", "FAILURE">> -> ParseModuleFailure(m)
    [] OTHER -> None

ConvertLine(line) ==
  Convert(line,
          Texts([vendor |-> "Cisco", product |-> "IOS", category |-> "system",
                 type |-> "system"]),
          [timestamp |-> Stamp(line), severity |-> SeverityOf(line),
           vendor_event_id |-> VendorEventId(line)],
          ParseMessage(line), "Cisco system header not recognized")
=============================================================================
