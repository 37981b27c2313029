----------------------------- MODULE EventPath -----------------------------
(***************************************************************************)
(* One event from its raw log, or from the fields a vendor parser or       *)
(* Tier 0 made of it, to its CommonEvent, its fidelity report and its OCSF *)
(* event.  The demos drive these steps in this order for each event.       *)
(***************************************************************************)
EXTENDS PackRuntime, MappingFidelity, OcsfMapping

CONSTANTS
  ParserEvents,   \* legacy events of vendor parsers
  Detections,     \* [vendor, product, format] a detection hands to Tier 0
  Structures,     \* what Tier 0 extracts: from names to texts
  ParserBindings, \* OCSF bindings configured for events of parsers
  DroppedSets,    \* sets of labels a caller declares dropped
  SourceCounts    \* source field counts a caller knows, and None

(***************************************************************************)
(* Packs, their operations and their bindings are pydantic models that     *)
(* forbid other fields.  A dictionary has finitely many keys.              *)
(***************************************************************************)
FiniteMapping(v) == Is("mapping", v) => IsFiniteSet(DOMAIN v[2])

ASSUME PacksAreModels ==
  \A p \in Packs :
    /\ IsRecord(p, {"manifest", "syntax", "classification", "operations",
                    "preserve_vendor_fields", "ocsf_binding"})
    /\ IsList(p.syntax.field_names) /\ IsList(p.operations)
    /\ \A o \in ToSet(p.operations) : FiniteMapping(o.value)
    /\ IsRecord(p.ocsf_binding,
                {"status", "class_uid", "activity_mappings", "status_mappings",
                 "severity_mappings", "default_severity_id"})

\* A raw log is a text, which csv and shlex read into lists.
ASSUME LogsAreTexts ==
  /\ None \notin Logs
  /\ \A l \in Logs : /\ IsList(l.tokens) /\ IsList(l.rows)
                     /\ \A row \in ToSet(l.rows) : IsList(row)

\* what Tier 0 extracts is a dictionary
ASSUME StructuresAreDictionaries ==
  \A extracted \in Structures : IsFiniteSet(DOMAIN extracted)

ASSUME ParserEventsAreDictionaries == \A e \in ParserEvents : IsDictionary(e)

VARIABLES
  common,  \* the CommonEvent, or None
  report,  \* the fidelity report, or None
  ocsf     \* the OCSF event, or None

pathVars == <<common, report, ocsf>>
vars == <<runtimeVars, pathVars>>

NoPack == None

Init ==
  /\ pack = NoPack /\ log = None
  /\ source = Empty /\ event = EmptyLegacyEvent /\ done = 0
  /\ at = "idle"
  /\ common = None /\ report = None /\ ocsf = None

(***************************************************************************)
(* A pack is loaded only if its models validate.                           *)
(***************************************************************************)
ValidPack(p) ==
  /\ \A o \in ToSet(p.operations) : WellShaped(o)
  /\ LegalBinding(p.ocsf_binding)

RunPack(p, l, ids) ==
  /\ Run(p, l, ids)
  /\ ValidPack(p)
  /\ UNCHANGED pathVars

StepPack == RuntimeStep /\ UNCHANGED pathVars

\* an event of a parser; "pack" then stands only for its configured binding
ParseWithoutPack(e, binding) ==
  /\ at = "idle"
  /\ LegalBinding(binding)
  /\ event' = e
  /\ pack' = [ocsf_binding |-> binding]
  /\ at' = "parsed"
  /\ UNCHANGED <<log, source, done, pathVars>>

(***************************************************************************)
(* Tier0Fallback.parse: only the identity the detection established, and   *)
(* the structure as vendor fields.                                         *)
(***************************************************************************)
Tier0Event(detected, extracted) ==
  [EmptyLegacyEvent EXCEPT
     !.fields.vendor = detected.vendor, !.fields.product = detected.product,
     !.details = Put(Empty, "tier0", Mapping(Put(Empty, "detected_format",
                                                 detected.format))),
     !.vendor_fields = [k \in DOMAIN extracted |-> extracted[k]],
     !.extra = <<<<"mapping_status", Text("incomplete")>>>>]

(***************************************************************************)
(* The pipeline gives the identifiers of the evidence to what Tier 0 made. *)
(***************************************************************************)
ParseTier0(detected, extracted, binding, ids) ==
  /\ at = "idle"
  /\ LegalBinding(binding)
  /\ event' = [Tier0Event(detected, extracted) EXCEPT
                 !.fields.u_id = Text(ids.u_id),
                 !.fields.raw_id = Text(ids.raw_id)]
  /\ pack' = [ocsf_binding |-> binding]
  /\ at' = "parsed"
  /\ UNCHANGED <<log, source, done, pathVars>>

-----------------------------------------------------------------------------
(***************************************************************************)
(* NormalizationEngine.normalize.  It raises for a value of the wrong type *)
(* or out of its range, and when the clocks of the caller disagree.        *)
(***************************************************************************)
Normalize(status, inOrder) ==
  /\ at = "parsed"
  /\ LET result == MapLegacyEvent(event, status)
     IN IF Accepted(result) /\ inOrder
          THEN common' = result /\ at' = "normalized"
          ELSE at' = "raised" /\ UNCHANGED common
  /\ UNCHANGED <<pack, log, source, event, done, report, ocsf>>

\* Mutant: the event keeps the status of the mapper.
AuditOnly(dropped, sourceCount) ==
  /\ at = "normalized"
  /\ report' = Evaluate(event, common, dropped, sourceCount)
  /\ at' = IF Overlaps(report') THEN "raised" ELSE "audited"
  /\ UNCHANGED <<pack, log, source, event, done, common, ocsf>>

(***************************************************************************)
(* normalize_with_fidelity: the audit decides the status of the event.     *)
(***************************************************************************)
Audit(dropped, sourceCount) ==
  /\ at = "normalized"
  /\ report' = Evaluate(event, common, dropped, sourceCount)
  /\ IF Overlaps(report')
       THEN at' = "raised" /\ UNCHANGED common
       ELSE /\ at' = "audited"
            /\ common' = [common EXCEPT !.mapping_status =
                                          report'.mapping_status]
  /\ UNCHANGED <<pack, log, source, event, done, ocsf>>

\* callers of plain normalize() do without the audit
MapToOcsf ==
  /\ at \in {"normalized", "audited"}
  /\ IF pack.ocsf_binding.status = "deferred"
     THEN at' = "deferred" /\ UNCHANGED ocsf
     ELSE IF ~Binds(common, pack.ocsf_binding)
     THEN at' = "unbound" /\ UNCHANGED ocsf
     ELSE /\ ocsf' = OcsfEvent(common, pack.ocsf_binding)
          /\ at' = IF Validates(ocsf') THEN "mapped" ELSE "invalid"
  /\ UNCHANGED <<pack, log, source, event, done, common, report>>

NextEvent ==
  /\ at \in {"raised", "deferred", "unbound", "invalid", "mapped"}
  /\ at' = "idle"
  /\ pack' = NoPack /\ log' = None
  /\ source' = Empty /\ event' = EmptyLegacyEvent /\ done' = 0
  /\ common' = None /\ report' = None /\ ocsf' = None

Begin ==
  /\ at = "idle"
  /\ \/ \E p \in Packs, l \in Logs, ids \in Ids : RunPack(p, l, ids)
     \/ \E e \in ParserEvents, binding \in ParserBindings :
          ParseWithoutPack(e, binding)
     \/ \E detected \in Detections, extracted \in Structures,
           binding \in ParserBindings, ids \in Ids :
          ParseTier0(detected, extracted, binding, ids)

Next ==
  \/ Begin
  \/ StepPack
  \/ \E status \in {"mapped", "incomplete"}, inOrder \in BOOLEAN :
       Normalize(status, inOrder)
  \/ \E dropped \in DroppedSets, sourceCount \in SourceCounts :
       Audit(dropped, sourceCount)
  \/ MapToOcsf
  \/ NextEvent

Spec == Init /\ [][Next]_vars

-----------------------------------------------------------------------------
Positions ==
  {"idle", "parse", "classify", "operate", "parsed", "normalized", "audited",
   "raised", "deferred", "unbound", "invalid", "mapped"}

CommonFields == {"mapping_status", "slots", "details", "vendor_fields"}

OcsfFields ==
  {"class_uid", "category_uid", "activity_id", "activity_name", "type_uid",
   "time", "severity_id", "status_id", "product", "src_ip", "dst_ip",
   "protocol", "u_id", "raw_id"}

\* The shape of the state at each position of the path.
TypeOK ==
  /\ at \in Positions
  /\ done \in 0 .. (IF log = None THEN 0 ELSE Len(pack.operations))
  /\ IsRecord(event, EventFields) /\ IsRecord(event.fields, ScalarKeys)
  /\ at \in {"normalized", "audited", "deferred", "unbound", "invalid",
             "mapped"} => IsRecord(common, CommonFields)
  /\ common # None =>
       /\ common.mapping_status \in {"mapped", "incomplete"}
       /\ \A slot \in Ports :
            common.slots[slot] # None => common.slots[slot][2] \in 0 .. MaxPort
  /\ IF at \in {"invalid", "mapped"} THEN IsRecord(ocsf, OcsfFields)
                                     ELSE ocsf = None

IsPackRun == log # None

Classified == IsPackRun /\ at \notin {"parse", "classify", "raised"}

(***************************************************************************)
(* Whatever its operations are, a pack cannot change what the              *)
(* classification said (_set_target, PROTECTED_OPERATION_TARGETS), nor     *)
(* take source fields out of the event: at the end of run() they are all   *)
(* there as they were parsed.                                              *)
(***************************************************************************)
ClassificationStands ==
  Classified =>
    /\ \A k \in DOMAIN Classification : event.fields[k] = Classification[k]
    /\ at # "operate" /\ pack.preserve_vendor_fields =>
         event.vendor_fields = [k \in DOMAIN source |-> Text(source[k])]

(***************************************************************************)
(* map_legacy_common_event loses no value: each is in its slot, or under   *)
(* details.unmapped_fields whatever name it got there; what was already    *)
(* preserved, and every other detail, is still there.                      *)
(***************************************************************************)
NothingLost ==
  common # None =>
    LET unmapped == UnmappedFields(common.details)
        Kept(v) == \E name \in DOMAIN unmapped : unmapped[name] = v
        before == UnmappedFields(event.details)
    IN /\ \A k \in SemanticKeys :
            Meaningful(event.fields[k]) =>
              common.slots[FieldSlot[k]] # None \/ Kept(event.fields[k])
       /\ \A entry \in ToSet(event.extra) : Kept(entry[2])
       /\ \A name \in DOMAIN before : unmapped[name] = before[name]
       /\ \A k \in DOMAIN event.details \ {"unmapped_fields"} :
            common.details[k] = event.details[k]
       /\ common.vendor_fields = event.vendor_fields

(***************************************************************************)
(* A parser may fill details.unmapped_fields itself and use the name of a  *)
(* known field there.  The audit, which looks at names only, then takes    *)
(* the entry for the field: an entry with a value hides a field that was   *)
(* mapped, a blank one hides the failure of its conversion.                *)
(***************************************************************************)
Hidden ==
  LET before == UnmappedFields(event.details)
  IN {k \in SemanticKeys \cap DOMAIN before :
        /\ Audited(event.fields[k])
        /\ Audited(before[k]) <=> ~Unplaced(event, k)}

(***************************************************************************)
(* So may a parser use the name of another top-level entry there, which is *)
(* then preserved under a second name: its own name no longer tells the    *)
(* audit that it is preserved, unless what has the name counts itself.     *)
(***************************************************************************)
Shadowed ==
  {k \in ExtraKeys(event) :
     IF k \in ControlFields THEN k \in DOMAIN UnmappedFields(event.details)
                            ELSE k \notin PreservedKeys(common)}

(***************************************************************************)
(* "Conversion failures such as malformed timestamp or port must not       *)
(* remain counted as mapped" (normalization/fidelity.py): a field counted  *)
(* as mapped is in its slot, a detail in the details.                      *)
(***************************************************************************)
MappedIsRepresented ==
  report # None =>
    /\ \A k \in SemanticKeys \ Hidden :
         FieldLabel(k) \in report.mapped => common.slots[FieldSlot[k]] # None
    /\ \A k \in DOMAIN event.details :
         DetailLabel(k) \in report.mapped =>
           k \in DOMAIN common.details /\ common.details[k] = event.details[k]

(***************************************************************************)
(* The audit counts every meaningful value once: no value is left out      *)
(* because another one has its name, and none is counted twice because it  *)
(* was preserved, under whatever name (fields_extracted, and with it both  *)
(* coverages).                                                             *)
(***************************************************************************)
EveryItemOnce ==
  report # None /\ report.dropped = {} /\ Hidden = {} /\ Shadowed = {} =>
    Cardinality(report.mapped \cup report.unmapped) =
      Cardinality({k \in SemanticKeys : Audited(event.fields[k])})
      + Cardinality(AuditedKeys(event.details) \ ReservedDetails)
      + Cardinality(AuditedKeys(event.vendor_fields))
      + Cardinality(ExtraKeys(event) \ ControlFields)
      + Cardinality(AuditedKeys(UnmappedFields(event.details))
                      \ ControlFields)

(***************************************************************************)
(* The three dispositions exclude each other (the ValueError for an        *)
(* overlap is never raised), and an event that went through the audit says *)
(* "mapped" only if nothing in it is unmapped or dropped                   *)
(* (NormalizationEngine.normalize_with_fidelity).                          *)
(***************************************************************************)
StatusSound ==
  report # None =>
    /\ report.mapped \cap report.unmapped = {}
    /\ report.dropped \cap (report.mapped \cup report.unmapped) = {}
    /\ common.mapping_status = "mapped" =>
         report.unmapped = {} /\ report.dropped = {}

(***************************************************************************)
(* What load-time validation of a binding is for: an event it maps is      *)
(* rejected by OCSFValidator only for what the event itself says, a time   *)
(* before 1970 or a blank name for the activity "other".                   *)
(***************************************************************************)
BoundEventsValidate ==
  at = "invalid" =>
    \/ ocsf.time < 0
    \/ ocsf.activity_id = Other /\ ocsf.activity_name = Blank
=============================================================================
