---------------------------- MODULE PackRuntime ----------------------------
(***************************************************************************)
(* SemanticPackRuntime: the interpreter of a declarative semantic pack.    *)
(* It turns one raw log into a legacy event: structural parsing,           *)
(* classification, the PAN-OS severity rule, the operations of the pack in *)
(* their order, and the copy of the source fields.                         *)
(*                                                                         *)
(* A raw log is what the structural parsers can make of it: the CSV row at *)
(* each occurrence of the payload marker (empty when csv cannot read it),  *)
(* and its shell tokens, <<key, value>> when they have an equals sign.     *)
(***************************************************************************)
EXTENDS LegacyEvent, SequencesExt

CONSTANTS
  Packs,   \* semantic packs whose signature verifies
  Logs,    \* raw logs
  Ids      \* [u_id, raw_id] of the evidence; a blank one is refused

VARIABLES
  pack,     \* self.pack, and with it the binding of the event
  log,      \* the raw log of the run
  source,   \* what parse_fields returned
  event,    \* the legacy event under construction
  done,     \* how many operations have been executed
  at        \* where run() stands

runtimeVars == <<pack, log, source, event, done, at>>

-----------------------------------------------------------------------------
(***************************************************************************)
(* Pack models: what pydantic accepts as an operation.                     *)
(***************************************************************************)
SourceOperations ==
  {"clean", "map", "to_int", "protocol", "nat_ip", "nat_port",
   "constant_if_present"}

AllowedOperations == SourceOperations \cup {"constant", "port", "timestamp"}

Given(name) == name \notin {None, ""}

WellShaped(o) ==
  /\ o.op \in AllowedOperations
  /\ o.op \in SourceOperations =>
       Given(o.source) \/ (o.op = "map" /\ o.sources # <<>>)
  /\ o.op \in {"map", "protocol", "port"} => DOMAIN o.mapping # {}
  /\ o.op = "port" => Given(o.source) /\ Given(o.protocol_source)
  /\ o.op = "timestamp" => o.sources # <<>> /\ DOMAIN o.formats # {}

(***************************************************************************)
(* _clean: a text, or None if the pack lists it as a null value.           *)
(***************************************************************************)
Clean(s) ==
  IF s = None \/ Lower(s) \in pack.syntax.null_values THEN None ELSE s

CleanText(s) == IF Clean(s) = None THEN None ELSE Text(Clean(s))

\* _to_int keeps what it cannot convert
ToInt(s) ==
  IF s \in {None, ""} THEN None
  ELSE IF s \in DOMAIN Numerals THEN Number(Numerals[s]) ELSE Text(s)

Protocol(s, mapping) ==
  IF Clean(s) = None THEN None
  ELSE IF Lower(s) \in DOMAIN mapping THEN Text(mapping[Lower(s)])
  ELSE Text(Upper(s))

\* zero ports of ICMP are no ports
Port(s, protocol) ==
  IF protocol \in {Text("ICMP"), Text("ICMPV6")} /\ ToInt(s) = Number(0)
    THEN None ELSE ToInt(s)

(***************************************************************************)
(* The timestamp operation: the first source a format reads, else the      *)
(* sources joined, else the first source as it is.  "formats" is the       *)
(* function from the texts they read to the ISO form.                      *)
(***************************************************************************)
Join(words, separator) ==
  FoldLeft(LAMBDA text, word : text \o separator \o word, Head(words),
           Tail(words))

Timestamp(values, formats) ==
  LET candidates ==
        values \o (IF Len(values) > 1
                     THEN <<Join(values, " "),
                            values[1] \o "T" \o Join(Tail(values), "")>>
                     ELSE <<>>)
      read == SelectSeq(candidates, LAMBDA text : text \in DOMAIN formats)
  IN IF values = <<>> THEN None
     ELSE IF read = <<>> THEN Text(Head(values))
     ELSE Text(formats[Head(read)])

Cleaned(sources) ==
  SelectSeq([i \in DOMAIN sources |-> Clean(Lookup(source, sources[i]))],
            LAMBDA value : value # None)

MapOperation(o) ==
  LET selected == Cleaned(IF o.sources # <<>> THEN o.sources ELSE <<o.source>>)
  IN IF selected = <<>> \/ Lower(Head(selected)) \notin DOMAIN o.mapping
       THEN o.value
       ELSE Text(o.mapping[Lower(Head(selected))])

(***************************************************************************)
(* _execute_operation                                                      *)
(***************************************************************************)
Execute(o) ==
  LET s == Lookup(source, o.source)
      protocol == Protocol(Lookup(source, o.protocol_source), o.mapping)
  IN CASE o.op = "constant"  -> o.value
       [] o.op = "clean"     -> CleanText(s)
       [] o.op = "map"       -> MapOperation(o)
       [] o.op = "to_int"    -> ToInt(s)
       [] o.op = "protocol"  -> Protocol(s, o.mapping)
       [] o.op = "port"      -> Port(s, protocol)
       [] o.op = "timestamp" -> Timestamp(Cleaned(o.sources), o.formats)
       [] o.op = "nat_ip"    -> IF Clean(s) \in {"0", "0.0.0.0", "::"}
                                  THEN None ELSE CleanText(s)
       [] o.op = "nat_port"  -> IF ToInt(s) = Number(0) THEN None ELSE ToInt(s)
       [] o.op = "constant_if_present" ->
            IF Clean(s) = None THEN None ELSE o.value

-----------------------------------------------------------------------------
(***************************************************************************)
(* Structural parsing.                                                     *)
(***************************************************************************)
Satisfies(s) ==
  Clean(s) # None /\ Upper(s) = Upper(pack.syntax.required_value)

RequiredColumn ==
  CHOOSE i \in DOMAIN pack.syntax.field_names :
    /\ pack.syntax.field_names[i] = pack.syntax.required_field
    /\ \A j \in 1 .. i - 1 :
         pack.syntax.field_names[j] # pack.syntax.required_field

\* _extract_payload: the candidates whose required column has the value
Payloads ==
  {i \in DOMAIN log.rows : /\ RequiredColumn <= Len(log.rows[i])
                           /\ Satisfies(log.rows[i][RequiredColumn])}

ColumnName(i) ==
  IF i <= Len(pack.syntax.field_names) THEN pack.syntax.field_names[i]
                                       ELSE "field_" \o ToString(i - 1)

\* dict assignments in order: the last one of a key stays
Assigned(pairs, taken) ==
  [k \in {pairs[i][1] : i \in taken} |->
     pairs[Max({i \in taken : pairs[i][1] = k})][2]]

RowFields(row) ==
  LET kept == IF pack.syntax.preserve_extra_fields THEN Len(row)
              ELSE Min({Len(row), Len(pack.syntax.field_names)})
  IN Assigned([i \in 1 .. kept |-> <<ColumnName(i), row[i]>>], 1 .. kept)

TokenFields ==
  Assigned(log.tokens, {i \in DOMAIN log.tokens : /\ Len(log.tokens[i]) = 2
                                                  /\ log.tokens[i][1] # ""})

(***************************************************************************)
(* parse_fields raises on an empty or malformed log, when the required     *)
(* field is no column, when no payload is found, and when the fields it    *)
(* assembled do not have the required value.                               *)
(***************************************************************************)
Parses ==
  IF pack.syntax.input_format = "csv"
    THEN /\ pack.syntax.required_field \in ToSet(pack.syntax.field_names)
         /\ Payloads # {}
    ELSE ~log.malformed

ParsedFields ==
  IF pack.syntax.input_format = "csv" THEN RowFields(log.rows[Min(Payloads)])
                                      ELSE TokenFields

ParseFields ==
  /\ at = "parse"
  /\ IF Parses /\ Satisfies(Lookup(ParsedFields, pack.syntax.required_field))
       THEN source' = ParsedFields /\ at' = "classify"
       ELSE source' = source /\ at' = "raised"
  /\ UNCHANGED <<pack, log, event, done>>

-----------------------------------------------------------------------------
(***************************************************************************)
(* Classification is fixed by the pack's rules before any operation.       *)
(***************************************************************************)
LoweredField(key) ==
  LET s == Clean(Lookup(source, key)) IN IF s = None THEN "" ELSE Lower(s)

Classification ==
  LET spec == pack.classification
      subtype == LoweredField(spec.source_field)
      action == LoweredField(spec.action_field)
      default == [category |-> Text(spec.category),
                  type |-> Text(spec.default_type),
                  subtype |-> Text(spec.default_subtype),
                  outcome |-> Text(spec.default_outcome)]
      rule == spec.rules[subtype]
      outcome ==
        IF rule.outcome_from_action /\ action \in DOMAIN spec.action_outcomes
          THEN Text(spec.action_outcomes[action])
        ELSE IF ~rule.outcome_from_action /\ rule.outcome # None
          THEN Text(rule.outcome)
        ELSE default.outcome
  IN IF subtype \notin DOMAIN spec.rules THEN default
     ELSE [category |-> default.category, type |-> Text(rule.type),
           subtype |-> Text(rule.subtype), outcome |-> outcome]

IsPanosTraffic(p) ==
  p.manifest = [pack_id |-> "paloalto.panos.traffic",
                vendor |-> "Palo Alto Networks", product |-> "PAN-OS",
                event_family |-> "traffic"]

DeniedActions ==
  {"deny", "drop", "drop-icmp", "drop icmp", "reset-client", "reset client",
   "reset-server", "reset server", "reset-both", "reset both"}

\* _apply_panos_traffic_severity
PanosSeverity ==
  LET action == LoweredField(pack.classification.action_field)
  IN Text(IF action = "allow" THEN "informational"
          ELSE IF action \in DeniedActions THEN "medium" ELSE "unknown")

ApplyClassification ==
  /\ at = "classify"
  /\ event' = [event EXCEPT !.fields =
       [k \in ScalarKeys |->
          IF k \in DOMAIN Classification THEN Classification[k]
          ELSE IF k = "severity" /\ IsPanosTraffic(pack) THEN PanosSeverity
          ELSE @[k]]]
  /\ at' = "operate"
  /\ UNCHANGED <<pack, log, source, done>>

(***************************************************************************)
(* _set_target: a pack may write the scalar fields that neither the        *)
(* classification nor the traceability owns, and entries of details.       *)
(***************************************************************************)
ProtectedTargets ==
  {"u_id", "raw_id", "category", "type", "subtype", "outcome", "details",
   "vendor_fields"}

\* Mutant: outcome is left to the operations.
AllowedTargetWithOutcome(target) ==
  IF Len(target) = 1
    THEN target[1] \in LegacyEventKeys \ (ProtectedTargets \ {"outcome"})
    ELSE Len(target) = 2 /\ target[1] = "details" /\ target[2] # ""

AllowedTarget(target) ==
  IF Len(target) = 1
    THEN target[1] \in LegacyEventKeys \ ProtectedTargets
    ELSE Len(target) = 2 /\ target[1] = "details" /\ target[2] # ""

WithTarget(target, v) ==
  IF Len(target) = 1 THEN [event EXCEPT !.fields[target[1]] = v]
  ELSE IF v = None THEN event
  ELSE [event EXCEPT !.details = Put(@, target[2], v)]

ExecuteOperation ==
  /\ at = "operate"
  /\ done < Len(pack.operations)
  /\ LET o == pack.operations[done + 1]
     IN IF AllowedTarget(o.target)
          THEN /\ event' = WithTarget(o.target, Execute(o))
               /\ done' = done + 1
               /\ UNCHANGED at
          ELSE at' = "raised" /\ UNCHANGED <<event, done>>
  /\ UNCHANGED <<pack, log, source>>

PreserveVendorFields ==
  /\ at = "operate"
  /\ done = Len(pack.operations)
  /\ event' = [event EXCEPT !.vendor_fields =
                 IF pack.preserve_vendor_fields
                   THEN [k \in DOMAIN source |-> Text(source[k])] ELSE @]
  /\ at' = "parsed"
  /\ UNCHANGED <<pack, log, source, done>>

(***************************************************************************)
(* The constructor replaces the severity mappings of the PAN-OS Traffic    *)
(* binding by those of the severities the runtime itself assigns.          *)
(***************************************************************************)
PanosOcsfSeverities ==
  [severity \in {"informational", "medium", "unknown"} |->
     CASE severity = "informational" -> 1
       [] severity = "medium" -> 3
       [] severity = "unknown" -> 0]

RuntimePack(p) ==
  IF IsPanosTraffic(p)
    THEN [p EXCEPT !.ocsf_binding.severity_mappings = PanosOcsfSeverities]
    ELSE p

Run(p, l, ids) ==
  /\ at = "idle"
  /\ pack' = RuntimePack(p)
  /\ log' = l
  /\ event' = [EmptyLegacyEvent EXCEPT !.fields.u_id = Text(ids.u_id),
                                       !.fields.raw_id = Text(ids.raw_id)]
  /\ at' = IF "" \in {ids.u_id, ids.raw_id} THEN "raised" ELSE "parse"
  /\ UNCHANGED <<source, done>>

RuntimeStep ==
  \/ ParseFields
  \/ ApplyClassification
  \/ ExecuteOperation
  \/ PreserveVendorFields
=============================================================================
