---------------------------- MODULE MCEventPath ----------------------------
(***************************************************************************)
(* Small packs in the manner of the ones in the repository, raw logs with  *)
(* every kind of value in the fields they read, and legacy events with the *)
(* value kinds, vendors and collisions that the mapper tells apart.        *)
(***************************************************************************)
EXTENDS EventPath, TLC

MCNumerals == ("0" :> 0) @@ ("443" :> 443) @@ ("70000" :> 70000)
                @@ ("-1" :> -1)
MCIsoTimes == ("2024-01-01T10:00:00" :> 1704)
                @@ ("1969-01-01T00:00:00" :> -31)
MCLowerCase == ("ALLOW" :> "allow") @@ ("TRAFFIC" :> "traffic")
                 @@ ("N/A" :> "n/a") @@ ("Fortinet" :> "fortinet")
                 @@ ("FortiGate" :> "fortigate") @@ ("PAN-OS" :> "pan-os")
                 @@ ("Palo Alto Networks" :> "palo alto networks")
                 @@ ("Cisco" :> "cisco") @@ ("ASA" :> "asa")
MCUpperCase == ("traffic" :> "TRAFFIC") @@ ("icmp" :> "ICMP")
                 @@ ("allow" :> "ALLOW")

Operation ==
  [op |-> "clean", target |-> <<"reason">>, source |-> None, sources |-> <<>>,
   value |-> None, mapping |-> Empty, protocol_source |-> None,
   formats |-> Empty]

Constant(key, word) ==
  [Operation EXCEPT !.op = "constant", !.target = <<key>>, !.value = Text(word)]

From(op, target, key) ==
  [Operation EXCEPT !.op = op, !.target = target, !.source = key]

Protocols == ("6" :> "TCP") @@ ("1" :> "ICMP")
Dates == "2024/01/01 10:00:00" :> "2024-01-01T10:00:00"

PortOf(key, target) ==
  [From("port", target, key) EXCEPT !.mapping = Protocols,
                                    !.protocol_source = "proto"]

TimeOf(sources) ==
  [Operation EXCEPT !.op = "timestamp", !.target = <<"timestamp">>,
                    !.sources = sources, !.formats = Dates]

Rule(type, subtype, outcome, fromAction) ==
  [type |-> type, subtype |-> subtype, outcome |-> outcome,
   outcome_from_action |-> fromAction]

Spec0(category, default, rules) ==
  [source_field |-> "subtype", action_field |-> "action",
   category |-> category, default_type |-> default,
   default_subtype |-> "UNKNOWN", default_outcome |-> "UNKNOWN",
   rules |-> rules, action_outcomes |-> "allow" :> "SUCCESS"]

Syntax(format, names, extra, value) ==
  [input_format |-> format, field_names |-> names,
   preserve_extra_fields |-> extra, required_field |-> "type",
   required_value |-> value, null_values |-> {"", "n/a"}]

Deferred ==
  [status |-> "deferred", class_uid |-> None, activity_mappings |-> Empty,
   status_mappings |-> Empty, severity_mappings |-> Empty,
   default_severity_id |-> None]

Bound(class, activities, severities) ==
  [status |-> "bound", class_uid |-> class, activity_mappings |-> activities,
   status_mappings |-> ("SUCCESS" :> 1) @@ ("FAILURE" :> 2) @@ ("UNKNOWN" :> 0),
   severity_mappings |-> severities, default_severity_id |-> 0]

Traffic == ("SESSION" :> 6) @@ ("POLICY" :> 6) @@ ("UNKNOWN" :> 99)

PanosPack ==
  [manifest |-> [pack_id |-> "paloalto.panos.traffic",
                 vendor |-> "Palo Alto Networks", product |-> "PAN-OS",
                 event_family |-> "traffic"],
   syntax |-> Syntax("csv", <<"type", "subtype", "action", "proto", "sport",
                              "date">>, TRUE, "TRAFFIC"),
   classification |->
     Spec0("TRAFFIC", "UNKNOWN",
           ("end" :> Rule("SESSION", "SESSION_END", None, TRUE))
             @@ ("deny" :> Rule("POLICY", "TRAFFIC_DENY", "FAILURE", FALSE))),
   operations |-> <<Constant("vendor", "Palo Alto Networks"),
                    Constant("product", "PAN-OS"),
                    TimeOf(<<"date">>),
                    PortOf("sport", <<"src_port">>),
                    From("clean", <<"action">>, "action"),
                    From("nat_port", <<"details", "nat_src_port">>, "sport")>>,
   preserve_vendor_fields |-> TRUE,
   ocsf_binding |-> Bound(4001, Traffic, Empty)]

FortiPack ==
  [manifest |-> [pack_id |-> "fortinet.fortigate.traffic",
                 vendor |-> "Fortinet", product |-> "FortiGate",
                 event_family |-> "traffic"],
   syntax |-> Syntax("key_value", <<>>, TRUE, "traffic"),
   classification |->
     Spec0("network_activity", "traffic",
           "forward" :> Rule("traffic", "forward", None, TRUE)),
   operations |-> <<Constant("vendor", "Fortinet"),
                    Constant("product", "FortiGate"),
                    TimeOf(<<"date", "time">>),
                    [Operation EXCEPT !.op = "map", !.target = <<"severity">>,
                       !.sources = <<"level", "action">>,
                       !.value = Text("unknown"),
                       !.mapping = ("notice" :> "low") @@ ("allow" :> "info")],
                    From("to_int", <<"src_port">>, "sport"),
                    From("clean", <<"src_ip">>, "srcip"),
                    From("nat_ip", <<"details", "session_id">>, "srcip"),
                    [From("protocol", <<"protocol">>, "proto")
                       EXCEPT !.mapping = Protocols],
                    [From("constant_if_present", <<"object_type">>, "srcip")
                       EXCEPT !.value = Text("host")]>>,
   preserve_vendor_fields |-> TRUE,
   ocsf_binding |-> Bound(4001, "traffic" :> 6,
                          ("low" :> 2) @@ ("unknown" :> 0))]

\* declares a severity OCSF does not have, writes a protected field, or
\* neither, and keeps no vendor fields
DemoPack(target, severity) ==
  [FortiPack EXCEPT
     !.manifest.pack_id = "demo",
     !.operations = <<Constant("vendor", "DemoVendor"),
                      Constant("product", "DemoFirewall"),
                      TimeOf(<<"date", "time">>),
                      Constant("severity", "low"),
                      From("clean", target, "action")>>,
     !.preserve_vendor_fields = FALSE,
     !.ocsf_binding = Bound(4001, "traffic" :> 99, "low" :> severity)]

MCPacks ==
  {PanosPack, FortiPack,
   [PanosPack EXCEPT !.syntax.preserve_extra_fields = FALSE,
                     !.ocsf_binding = Deferred],
   [PanosPack EXCEPT !.syntax.required_field = "kind"],
   DemoPack(<<"user">>, 2), DemoPack(<<"outcome">>, 2),
   DemoPack(<<"details", "unmapped_fields">>, 2), DemoPack(<<"user">>, 42)}

-----------------------------------------------------------------------------
Row(subtype, action, port, date) ==
  <<"traffic", subtype, action, "1", port, date, "extra">>

Rows ==
  {<<Row(subtype, action, port, date)>> :
     subtype \in {"end", "deny", "other"}, action \in {"ALLOW", "drop", "N/A"},
     port \in {"0", "443", "70000", "n/a"},
     date \in {"2024/01/01 10:00:00", "1969-01-01T00:00:00", "yesterday"}}

Tokens ==
  {<<<<"type", type>>, <<"word">>, <<"", "x">>, <<"subtype", "forward">>,
     <<"level", level>>, <<"action", "ALLOW">>, <<"sport", port>>,
     <<"srcip", ip>>, <<"proto", proto>>, <<"date", date[1]>>,
     <<"time", date[2]>>>> :
     type \in {"traffic", "event"}, level \in {"", "notice", "panic"},
     port \in {"443", "none"}, ip \in {"", "0.0.0.0", "ip1"},
     proto \in {"6", "icmp"},
     date \in {<<"2024/01/01", "10:00:00">>, <<"", "">>}}

MCLogs ==
  {[rows |-> rows, tokens |-> <<>>, malformed |-> TRUE] :
     rows \in Rows \cup {<<>>, <<<<"x">>, Row("end", "allow", "443", "")>>,
                         <<<<"TRAFFIC", "end">>>>}}
  \cup {[rows |-> <<>>, tokens |-> tokens, malformed |-> FALSE] :
          tokens \in Tokens}

MCIds == {[u_id |-> "EVT-1", raw_id |-> "RAW-1"], [u_id |-> "EVT-1", raw_id |-> ""]}

-----------------------------------------------------------------------------
Vendors == {<<"Fortinet", "FortiGate">>, <<"Cisco", "ASA">>,
            <<"Palo Alto Networks", "PAN-OS">>}

Kinds == {[category |-> "TRAFFIC", type |-> "SESSION", subtype |-> "start",
           object_type |-> "nat_translation"],
          [category |-> "system", type |-> "device", subtype |-> "",
           object_type |-> ""],
          [category |-> "network", type |-> "routing", subtype |-> "route",
           object_type |-> "route"]}

KnownDetails ==
  [k \in {"session_id", "bytes", "source_interface", "device_id",
          "translated_port", "application"} |->
     CASE k = "session_id" -> Number(443)
       [] k = "translated_port" -> Text("443")
       [] k = "bytes" -> Text("many")
       [] OTHER -> Text(k)]

Preserves(f) == Put(KnownDetails, "unmapped_fields", f)

MCDetails ==
  {KnownDetails, Preserves(Text("note")),
   Preserves(Mapping("src_port" :> Text("old"))),
   Preserves(Mapping("src_port" :> Blank)),
   Preserves(Mapping(("src_port" :> Text("old"))
                       @@ ("legacy_src_port" :> Text("older"))
                       @@ ("foo" :> Text("oldest")))),
   Preserves(Mapping(("foo" :> Blank) @@ ("mapping_status" :> Text("old"))))}

MCExtras == {<<>>, <<<<"foo", Text("bar")>>>>,
             <<<<"legacy_src_port", Text("new")>>, <<"mapping_status", Blank>>>>}

Times == {None, Text("1969-01-01T00:00:00"), Text("2024-01-01T10:00:00"),
          Text("junk")}

MCParserEvents ==
  {[EmptyLegacyEvent EXCEPT
      !.fields = [k \in ScalarKeys |->
         CASE k \in {"u_id", "raw_id"} -> Text("EVT-2")
           [] k = "vendor" -> Text(vendor[1])
           [] k = "product" -> Text(vendor[2])
           [] k = "timestamp" -> time
           [] k = "src_port" -> port
           [] k = "src_ip" -> Text("ip1")
           [] k = "severity" -> Text("low")
           [] k \in DOMAIN kind -> Text(kind[k])
           [] OTHER -> None],
      !.details = details, !.extra = extra,
      !.vendor_fields = vendorFields] :
     vendor \in Vendors, kind \in Kinds, time \in Times,
     port \in {Number(443), Text("-1"), Text("port")},
     details \in MCDetails, extra \in MCExtras,
     vendorFields \in {Empty, "x" :> Text("y")}}

MCParserBindings ==
  {Bound(3002, ("SESSION" :> 99) @@ ("device" :> 1), "low" :> 2),
   Bound(1001, "SESSION" :> 1, Empty), Deferred}

MCDetections ==
  {[vendor |-> None, product |-> None, format |-> Text("json")],
   [vendor |-> Text("Cisco"), product |-> Text("ASA"), format |-> None]}

MCStructures == {Empty, "value" :> Text("deny"), "text" :> Blank}

MCDroppedSets == {{}, {FieldLabel("src_ip"), VendorLabel("x")},
                  {FieldLabel("debug_blob")}}

MCSourceCounts == {None, 0, 12}
=============================================================================
