-------------------------- MODULE EventPathProofs --------------------------
(***************************************************************************)
(* Proofs about the event path, for any packs, logs, parser events and     *)
(* detections, whatever the conversions are.                               *)
(***************************************************************************)
EXTENDS EventPath, NormalizationProofs

ClassificationKeys == {"category", "type", "subtype", "outcome"}

(***************************************************************************)
(* The event a pack builds is a legacy event at every step of the runtime, *)
(* and between two events there is no log.                                 *)
(***************************************************************************)
RuntimeInv ==
  /\ at \in {"parse", "classify", "operate"} =>
       /\ IsRecord(event, EventFields)
       /\ IsRecord(event.fields, ScalarKeys)
  /\ at = "idle" => log = None

(***************************************************************************)
(* Classification of the source fields holds its four keys only.           *)
(***************************************************************************)
LEMMA ClassificationDomain == DOMAIN Classification = ClassificationKeys
BY DEF Classification, ClassificationKeys

LEMMA EmptyEventShape ==
  /\ IsRecord(EmptyLegacyEvent, EventFields)
  /\ IsRecord(EmptyLegacyEvent.fields, ScalarKeys)
BY DEF IsRecord, EmptyLegacyEvent, EventFields

(***************************************************************************)
(* An operation writes no key of the classification, and keeps the shape.  *)
(***************************************************************************)
LEMMA TargetKeepsClassification ==
  ASSUME NEW target, NEW v,
         IsRecord(event, EventFields), IsRecord(event.fields, ScalarKeys),
         AllowedTarget(target)
  PROVE  /\ IsRecord(WithTarget(target, v), EventFields)
         /\ IsRecord(WithTarget(target, v).fields, ScalarKeys)
         /\ \A k \in ClassificationKeys :
              WithTarget(target, v).fields[k] = event.fields[k]
<1>1. CASE Len(target) = 1
  <2>1. target[1] \notin ClassificationKeys
    BY <1>1 DEF AllowedTarget, ProtectedTargets, ClassificationKeys
  <2>2. WithTarget(target, v) = [event EXCEPT !.fields[target[1]] = v]
    BY <1>1 DEF WithTarget
  <2> QED
    BY <2>1, <2>2 DEF IsRecord, EventFields
<1>2. CASE Len(target) # 1 /\ v = None
  BY <1>2 DEF WithTarget
<1>3. CASE Len(target) # 1 /\ v # None
  <2>1. WithTarget(target, v)
          = [event EXCEPT !.details = Put(event.details, target[2], v)]
    BY <1>3 DEF WithTarget, EventFields, IsRecord
  <2> QED
    BY <2>1 DEF IsRecord, EventFields
<1> QED
  BY <1>1, <1>2, <1>3

LEMMA RuntimeInvInit == Init => RuntimeInv
BY DEF Init, RuntimeInv

LEMMA RuntimeInvStep == RuntimeInv /\ [Next]_vars => RuntimeInv'
<1> SUFFICES ASSUME RuntimeInv, [Next]_vars PROVE RuntimeInv'
  OBVIOUS
<1>1. CASE Begin
  <2>1. ASSUME NEW p \in Packs, NEW l \in Logs, NEW ids \in Ids,
               RunPack(p, l, ids)
        PROVE  RuntimeInv'
    <3>1. event' = [EmptyLegacyEvent EXCEPT
                      !.fields.u_id = Text(ids.u_id),
                      !.fields.raw_id = Text(ids.raw_id)]
      BY <2>1 DEF RunPack, Run
    <3>2. IsRecord(event', EventFields) /\ IsRecord(event'.fields, ScalarKeys)
      BY <3>1, EmptyEventShape DEF IsRecord, EventFields, ScalarKeys
    <3>3. at' \in {"raised", "parse"}
      BY <2>1 DEF RunPack, Run
    <3> QED
      BY <3>2, <3>3 DEF RuntimeInv
  <2>2. ASSUME NEW e, NEW binding, ParseWithoutPack(e, binding)
        PROVE  RuntimeInv'
    BY <2>2 DEF ParseWithoutPack, RuntimeInv
  <2>3. ASSUME NEW detected, NEW extracted, NEW binding, NEW ids,
               ParseTier0(detected, extracted, binding, ids)
        PROVE  RuntimeInv'
    BY <2>3 DEF ParseTier0, RuntimeInv
  <2> QED
    BY <1>1, <2>1, <2>2, <2>3 DEF Begin
<1>2. CASE StepPack
  <2>1. CASE ParseFields
    BY <2>1 DEF ParseFields, RuntimeInv
  <2>2. CASE ApplyClassification
    <3>1. IsRecord(event', EventFields) /\ IsRecord(event'.fields, ScalarKeys)
      BY <2>2 DEF ApplyClassification, RuntimeInv, IsRecord, EventFields
    <3> QED
      BY <2>2, <3>1 DEF ApplyClassification, RuntimeInv
  <2>3. CASE ExecuteOperation
    BY <2>3, TargetKeepsClassification DEF ExecuteOperation, RuntimeInv
  <2>4. CASE PreserveVendorFields
    BY <2>4 DEF PreserveVendorFields, RuntimeInv
  <2> QED
    BY <1>2, <2>1, <2>2, <2>3, <2>4 DEF StepPack, RuntimeStep
<1>3. ASSUME NEW status, NEW inOrder, Normalize(status, inOrder)
      PROVE  RuntimeInv'
  BY <1>3 DEF Normalize, RuntimeInv
<1>4. ASSUME NEW dropped, NEW sourceCount, Audit(dropped, sourceCount)
      PROVE  RuntimeInv'
  BY <1>4 DEF Audit, RuntimeInv
<1>5. CASE MapToOcsf
  BY <1>5 DEF MapToOcsf, RuntimeInv
<1>6. CASE NextEvent
  BY <1>6 DEF NextEvent, RuntimeInv
<1>7. CASE UNCHANGED vars
  BY <1>7 DEF vars, runtimeVars, RuntimeInv
<1> QED
  BY <1>1, <1>2, <1>3, <1>4, <1>5, <1>6, <1>7 DEF Next

-----------------------------------------------------------------------------
(***************************************************************************)
(* The classification of an event stands from its rule on.                 *)
(***************************************************************************)
LEMMA ClassificationInit == Init => ClassificationStands
BY DEF Init, ClassificationStands, Classified, IsPackRun

LEMMA ClassificationStep ==
  RuntimeInv /\ ClassificationStands /\ [Next]_vars => ClassificationStands'
<1> SUFFICES ASSUME RuntimeInv, ClassificationStands, [Next]_vars
             PROVE  ClassificationStands'
  OBVIOUS
<1> USE ClassificationDomain
<1>1. ASSUME UNCHANGED <<pack, log, source, event>>,
             Classified' => Classified /\ at # "operate"
      PROVE  ClassificationStands'
  <2>1. Classification' = Classification
    BY <1>1 DEF Classification, LoweredField, Clean
  <2> QED
    BY <1>1, <2>1 DEF ClassificationStands
<1>2. CASE Begin
  BY <1>2 DEF Begin, RunPack, Run, ParseWithoutPack, ParseTier0, RuntimeInv,
     ClassificationStands, Classified, IsPackRun
<1>3. CASE StepPack
  <2>1. CASE ParseFields
    BY <2>1 DEF ParseFields, ClassificationStands, Classified
  <2>2. CASE ApplyClassification
    <3>1. Classification' = Classification
      BY <2>2 DEF ApplyClassification, Classification, LoweredField, Clean
    <3>2. \A k \in ClassificationKeys : event'.fields[k] = Classification[k]
      BY <2>2 DEF ApplyClassification, RuntimeInv, IsRecord, EventFields,
         ClassificationKeys, ScalarKeys, SemanticKeys
    <3> QED
      BY <2>2, <3>1, <3>2 DEF ApplyClassification, ClassificationStands
  <2>3. CASE ExecuteOperation
    <3>1. Classification' = Classification
      BY <2>3 DEF ExecuteOperation, Classification, LoweredField, Clean
    <3> DEFINE o == pack.operations[done + 1]
    <3>2. CASE AllowedTarget(o.target)
      <4>1. event' = WithTarget(o.target, Execute(o))
        BY <2>3, <3>2 DEF ExecuteOperation
      <4>2. \A k \in ClassificationKeys : event'.fields[k] = event.fields[k]
        BY <2>3, <3>2, <4>1, TargetKeepsClassification
           DEF ExecuteOperation, RuntimeInv
      <4> QED
        BY <2>3, <3>1, <3>2, <4>2
           DEF ExecuteOperation, ClassificationStands, Classified, IsPackRun
    <3>3. CASE ~AllowedTarget(o.target)
      BY <2>3, <3>3
         DEF ExecuteOperation, ClassificationStands, Classified, IsPackRun
    <3> QED
      BY <3>2, <3>3
  <2>4. CASE PreserveVendorFields
    <3>1. Classification' = Classification
      BY <2>4 DEF PreserveVendorFields, Classification, LoweredField, Clean
    <3>2. /\ event'.fields = event.fields
          /\ pack.preserve_vendor_fields =>
               event'.vendor_fields = [k \in DOMAIN source |-> Text(source[k])]
      BY <2>4 DEF PreserveVendorFields, RuntimeInv, IsRecord, EventFields
    <3>3. UNCHANGED <<pack, source, log>> /\ at = "operate"
      BY <2>4 DEF PreserveVendorFields
    <3> QED
      BY <3>1, <3>2, <3>3 DEF ClassificationStands, Classified, IsPackRun
  <2> QED
    BY <1>3, <2>1, <2>2, <2>3, <2>4 DEF StepPack, RuntimeStep
<1>4. ASSUME NEW status, NEW inOrder, Normalize(status, inOrder)
      PROVE  ClassificationStands'
  BY <1>1, <1>4 DEF Normalize, Classified, IsPackRun
<1>5. ASSUME NEW dropped, NEW sourceCount, Audit(dropped, sourceCount)
      PROVE  ClassificationStands'
  BY <1>1, <1>5 DEF Audit, Classified, IsPackRun
<1>6. CASE MapToOcsf
  BY <1>1, <1>6 DEF MapToOcsf, Classified, IsPackRun
<1>7. CASE NextEvent
  BY <1>7 DEF NextEvent, ClassificationStands, Classified, IsPackRun
<1>8. CASE UNCHANGED vars
  <2>1. Classification' = Classification
    BY <1>8 DEF vars, runtimeVars, Classification, LoweredField, Clean
  <2> QED
    BY <1>8, <2>1
       DEF vars, runtimeVars, ClassificationStands, Classified, IsPackRun
<1> QED
  BY <1>2, <1>3, <1>4, <1>5, <1>6, <1>7, <1>8 DEF Next

(***************************************************************************)
(* No operation of a pack changes what its classification said, and the    *)
(* source fields a pack preserves are all in the event                     *)
(* (SemanticPackRuntime.run).                                              *)
(***************************************************************************)
THEOREM ClassificationAlwaysStands == Spec => []ClassificationStands
<1>1. Init => RuntimeInv /\ ClassificationStands
  BY RuntimeInvInit, ClassificationInit
<1>2. RuntimeInv /\ ClassificationStands /\ [Next]_vars
        => RuntimeInv' /\ ClassificationStands'
  BY RuntimeInvStep, ClassificationStep
<1> QED
  BY <1>1, <1>2, PTL DEF Spec

-----------------------------------------------------------------------------
(***************************************************************************)
(* The report belongs to the event being audited, and no entry besides the *)
(* known fields has the name of one.                                       *)
(***************************************************************************)
AuditInv ==
  /\ \A i \in DOMAIN event.extra : event.extra[i][1] \notin LegacyEventKeys
  /\ at \in {"idle", "parse", "classify", "operate", "parsed", "normalized"}
       => report = None
  /\ at = "normalized" => IsRecord(common, CommonFields)
  /\ StatusSound

LEMMA ExtraKeysAreNoFields ==
  ASSUME NEW legacy,
         \A i \in DOMAIN legacy.extra :
           legacy.extra[i][1] \notin LegacyEventKeys
  PROVE  ExtraKeys(legacy) \cap SemanticKeys = {}
BY DEF ExtraKeys, ToSet, LegacyEventKeys, ScalarKeys

(***************************************************************************)
(* The dispositions of the audit exclude each other.                       *)
(***************************************************************************)
LEMMA DispositionsExclude ==
  ASSUME NEW legacy, NEW result, NEW dropped,
         ExtraKeys(legacy) \cap SemanticKeys = {}
  PROVE  /\ Mapped(legacy, result, dropped)
              \cap Unmapped(legacy, result, dropped) = {}
         /\ dropped \cap (Mapped(legacy, result, dropped)
                            \cup Unmapped(legacy, result, dropped)) = {}
<1>1. ASSUME NEW label \in ClaimedMapped(legacy)
      PROVE  \/ \E k \in SemanticKeys : label = FieldLabel(k)
             \/ \E k : label = DetailLabel(k)
  BY DEF ClaimedMapped
<1>2. ASSUME NEW label \in Unmapped(legacy, result, dropped)
      PROVE  \/ \E k \in ExtraKeys(legacy) : label = FieldLabel(k)
             \/ \E k : label = VendorLabel(k)
             \/ \E k : label = UnmappedLabel(k)
  BY DEF Unmapped, ClaimedUnmapped
<1>3. ClaimedMapped(legacy) \cap Unmapped(legacy, result, dropped) = {}
  BY <1>1, <1>2 DEF FieldLabel, DetailLabel, VendorLabel, UnmappedLabel
<1>4. Mapped(legacy, result, dropped) \subseteq ClaimedMapped(legacy) \ dropped
  BY DEF Mapped
<1>5. Unmapped(legacy, result, dropped) \cap dropped = {}
  BY DEF Unmapped
<1> QED
  BY <1>3, <1>4, <1>5

LEMMA AuditInvInit == Init => AuditInv
BY DEF Init, AuditInv, StatusSound, EmptyLegacyEvent

LEMMA AuditInvStep == RuntimeInv /\ AuditInv /\ [Next]_vars => AuditInv'
<1> SUFFICES ASSUME RuntimeInv, AuditInv, [Next]_vars PROVE AuditInv'
  OBVIOUS
<1>1. CASE Begin
  <2>1. ASSUME NEW p \in Packs, NEW l \in Logs, NEW ids \in Ids,
               RunPack(p, l, ids)
        PROVE  AuditInv'
    <3>1. event'.extra = <<>>
      BY <2>1 DEF RunPack, Run, EmptyLegacyEvent
    <3>2. DOMAIN event'.extra = {}
      BY <3>1
    <3>3. at = "idle" /\ at' \in {"raised", "parse"}
      BY <2>1 DEF RunPack, Run
    <3>4. UNCHANGED <<common, report>>
      BY <2>1 DEF RunPack, pathVars
    <3> QED
      BY <3>2, <3>3, <3>4 DEF AuditInv, StatusSound
  <2>2. ASSUME NEW e \in ParserEvents, NEW binding,
               ParseWithoutPack(e, binding)
        PROVE  AuditInv'
    BY <2>2, ParserEventsAreDictionaries
       DEF ParseWithoutPack, pathVars, AuditInv, StatusSound, IsDictionary
  <2>3. ASSUME NEW detected, NEW extracted, NEW binding, NEW ids,
               ParseTier0(detected, extracted, binding, ids)
        PROVE  AuditInv'
    <3>1. event'.extra = <<<<"mapping_status", Text("incomplete")>>>>
      BY <2>3 DEF ParseTier0, Tier0Event, EmptyLegacyEvent
    <3>2. \A i \in DOMAIN event'.extra : event'.extra[i][1] = "mapping_status"
      BY <3>1
    <3> QED
      BY <2>3, <3>2 DEF ParseTier0, pathVars, AuditInv, StatusSound,
         LegacyEventKeys, ScalarKeys, ControlKeys, SemanticKeys
  <2> QED
    BY <1>1, <2>1, <2>2, <2>3 DEF Begin
<1>2. CASE StepPack
  <2>1. at \in {"parse", "classify", "operate"}
    BY <1>2 DEF StepPack, RuntimeStep, ParseFields, ApplyClassification,
       ExecuteOperation, PreserveVendorFields
  <2>2. event'.extra = event.extra
    <3>1. CASE ParseFields
      BY <3>1 DEF ParseFields
    <3>2. CASE ApplyClassification
      BY <2>1, <3>2 DEF ApplyClassification, RuntimeInv, IsRecord, EventFields
    <3>3. CASE ExecuteOperation
      BY <2>1, <3>3
         DEF ExecuteOperation, WithTarget, RuntimeInv, IsRecord, EventFields
    <3>4. CASE PreserveVendorFields
      BY <2>1, <3>4 DEF PreserveVendorFields, RuntimeInv, IsRecord, EventFields
    <3> QED
      BY <1>2, <3>1, <3>2, <3>3, <3>4 DEF StepPack, RuntimeStep
  <2>3. at' # "normalized"
    BY <1>2 DEF StepPack, RuntimeStep, ParseFields, ApplyClassification,
       ExecuteOperation, PreserveVendorFields
  <2> QED
    BY <1>2, <2>1, <2>2, <2>3 DEF StepPack, pathVars, AuditInv, StatusSound
<1>3. ASSUME NEW status, NEW inOrder, Normalize(status, inOrder)
      PROVE  AuditInv'
  <2>1. IsRecord(MapLegacyEvent(event, status), CommonFields)
    BY DEF MapLegacyEvent, IsRecord, CommonFields
  <2> QED
    BY <1>3, <2>1 DEF Normalize, AuditInv, StatusSound
<1>4. ASSUME NEW dropped, NEW sourceCount, Audit(dropped, sourceCount)
      PROVE  AuditInv'
  <2>1. /\ report'.mapped = Mapped(event, common, dropped)
        /\ report'.unmapped = Unmapped(event, common, dropped)
        /\ report'.dropped = dropped
        /\ report'.mapping_status =
             ResultStatus(common.mapping_status,
                          Unmapped(event, common, dropped), dropped)
    BY <1>4 DEF Audit, Evaluate
  <2>2. /\ report'.mapped \cap report'.unmapped = {}
        /\ report'.dropped \cap (report'.mapped \cup report'.unmapped) = {}
    BY <2>1, DispositionsExclude, ExtraKeysAreNoFields DEF AuditInv
  <2>3. common'.mapping_status = report'.mapping_status /\ at' = "audited"
    BY <1>4, <2>2 DEF Audit, Overlaps, AuditInv, IsRecord, CommonFields
  <2>4. common'.mapping_status = "mapped" =>
          report'.unmapped = {} /\ report'.dropped = {}
    BY <2>1, <2>3 DEF ResultStatus
  <2> QED
    BY <1>4, <2>2, <2>3, <2>4 DEF Audit, AuditInv, StatusSound
<1>5. CASE MapToOcsf
  BY <1>5 DEF MapToOcsf, AuditInv, StatusSound
<1>6. CASE NextEvent
  BY <1>6 DEF NextEvent, AuditInv, StatusSound, EmptyLegacyEvent
<1>7. CASE UNCHANGED vars
  BY <1>7 DEF vars, runtimeVars, pathVars, AuditInv, StatusSound
<1> QED
  BY <1>1, <1>2, <1>3, <1>4, <1>5, <1>6, <1>7 DEF Next

(***************************************************************************)
(* The three dispositions of the fidelity audit exclude each other, and an *)
(* audited event says "mapped" only if nothing in it is unmapped or        *)
(* dropped (NormalizationEngine.normalize_with_fidelity).                  *)
(***************************************************************************)
THEOREM StatusAlwaysSound == Spec => []StatusSound
<1>1. Init => RuntimeInv /\ AuditInv
  BY RuntimeInvInit, AuditInvInit
<1>2. RuntimeInv /\ AuditInv /\ [Next]_vars => RuntimeInv' /\ AuditInv'
  BY RuntimeInvStep, AuditInvStep
<1>3. AuditInv => StatusSound
  BY DEF AuditInv
<1> QED
  BY <1>1, <1>2, <1>3, PTL DEF Spec

-----------------------------------------------------------------------------
BindingFields ==
  {"status", "class_uid", "activity_mappings", "status_mappings",
   "severity_mappings", "default_severity_id"}

UsableBinding(binding) == binding.status = "deferred" \/ LegalBinding(binding)

\* what the validators say of the slots that OCSFValidator looks at again
ValidatedSlots(slots) ==
  /\ slots["vendor.product"] # Blank
  /\ slots["timestamps.event_time"] # None
       => slots["timestamps.event_time"][2] \in Int

(***************************************************************************)
(* The binding in use is one that loaded, the overlay included, and the    *)
(* CommonEvent one that was accepted.                                      *)
(***************************************************************************)
BindingInv ==
  /\ at # "idle" => UsableBinding(pack.ocsf_binding)
  /\ at \in {"normalized", "audited"} =>
       /\ IsRecord(common, CommonFields)
       /\ ValidatedSlots(common.slots)
  /\ BoundEventsValidate

LEMMA OverlayIsUsable ==
  ASSUME NEW p \in Packs, LegalBinding(p.ocsf_binding)
  PROVE  UsableBinding(RuntimePack(p).ocsf_binding)
<1>1. CASE ~IsPanosTraffic(p)
  BY <1>1 DEF RuntimePack, UsableBinding
<1>2. CASE IsPanosTraffic(p)
  <2> DEFINE b == p.ocsf_binding
             overlaid == RuntimePack(p).ocsf_binding
  <2>1. overlaid = [b EXCEPT !.severity_mappings = PanosOcsfSeverities]
    BY <1>2, PacksAreModels DEF RuntimePack, IsRecord
  <2>2. /\ overlaid.severity_mappings = PanosOcsfSeverities
        /\ \A f \in BindingFields \ {"severity_mappings"} : overlaid[f] = b[f]
    BY <2>1, PacksAreModels DEF IsRecord, BindingFields
  <2>3. Ranges(PanosOcsfSeverities) \subseteq SeverityIds
    BY DEF Ranges, PanosOcsfSeverities, SeverityIds
  <2> QED
    BY <2>2, <2>3 DEF UsableBinding, LegalBinding, BindingFields
<1> QED
  BY <1>1, <1>2

LEMMA AcceptedSlots ==
  ASSUME NEW result, Accepted(result)
  PROVE  ValidatedSlots(result.slots)
<1>1. /\ \A slot \in Slots : WellTyped(slot, result.slots[slot])
      /\ NonEmptyText(result)
  BY DEF Accepted, ValidateEvent
<1>2. "timestamps.event_time" \in Slots /\ "vendor.product" \in Required
  BY DEF Slots, FieldSlot, Required
<1>3. WellTyped("timestamps.event_time", result.slots["timestamps.event_time"])
  BY <1>1, <1>2
<1>4. result.slots["timestamps.event_time"] # None =>
        result.slots["timestamps.event_time"][2] \in Int
  BY <1>3 DEF WellTyped
<1>5. result.slots["vendor.product"] # Blank
  BY <1>1, <1>2 DEF NonEmptyText
<1> QED
  BY <1>4, <1>5 DEF ValidatedSlots

(***************************************************************************)
(* The tables of the registry agree with what the validator expects.       *)
(***************************************************************************)
LEMMA RegistryIsConsistent ==
  ASSUME NEW class \in DOMAIN CategoryOf, NEW activity \in ActivitiesOf[class]
  PROVE  /\ class \in Nat /\ CategoryOf[class] \in Nat /\ activity \in Nat
         /\ TypeUid(class, activity) \in Nat
<1>1. class \in {0, 1001, 1007, 2004, 3002, 4001, 4014}
  BY DEF CategoryOf
<1>2. CategoryOf[class] = class \div 1000
  BY DEF CategoryOf
<1>3. class \in Nat /\ class \div 1000 \in Nat
  BY <1>1
<1>4. activity \in 0 .. 99
  BY DEF ActivitiesOf, NoActivities, CategoryOf
<1>5. activity \in Nat
  BY <1>4
<1>6. class * 100 + activity \in Nat
  BY <1>3, <1>5
<1> QED
  BY <1>2, <1>3, <1>5, <1>6 DEF TypeUid

LEMMA BoundEventValidates ==
  ASSUME NEW result, NEW binding,
         LegalBinding(binding), binding.status # "deferred",
         Binds(result, binding), ValidatedSlots(result.slots)
  PROVE  LET e == OcsfEvent(result, binding)
         IN \/ Validates(e)
            \/ e.time < 0
            \/ e.activity_id = Other /\ e.activity_name = Blank
<1> DEFINE e == OcsfEvent(result, binding)
           type == result.slots["classification.type"]
           severity == result.slots["classification.severity"]
<1>1. /\ type # None
      /\ e.class_uid \in DOMAIN CategoryOf
      /\ e.activity_id \in ActivitiesOf[e.class_uid]
      /\ e.activity_id = Other => e.activity_name = type
  BY DEF Binds, Lists, Is, LegalBinding, Ranges, OcsfEvent
<1>2. e.severity_id \in SeverityIds
  <2>1. CASE severity = None
    BY <2>1 DEF LegalBinding, OcsfEvent
  <2>2. CASE severity # None
    <3>1. Lists(binding.severity_mappings, severity)
      BY <2>2 DEF Binds
    <3>2. e.severity_id = binding.severity_mappings[severity[2]]
      BY <2>2 DEF OcsfEvent
    <3> QED
      BY <3>1, <3>2 DEF Lists, LegalBinding, Ranges
  <2> QED
    BY <2>1, <2>2
<1>3. e.time \in Int
  BY DEF Binds, ValidatedSlots, OcsfEvent
<1>4. /\ e.category_uid = CategoryOf[e.class_uid]
      /\ e.type_uid = TypeUid(e.class_uid, e.activity_id)
      /\ e.product # Blank
  BY DEF OcsfEvent, ValidatedSlots
<1>5. /\ e.class_uid \in Nat /\ e.category_uid \in Nat
      /\ e.activity_id \in Nat /\ e.type_uid \in Nat /\ e.severity_id \in Nat
  BY <1>1, <1>2, <1>4, RegistryIsConsistent DEF SeverityIds
<1>6. ASSUME e.time >= 0, ~(e.activity_id = Other /\ e.activity_name = Blank)
      PROVE  Validates(e)
  <2>1. e.time \in Nat
    BY <1>3, <1>6
  <2>2. e.activity_id = Other => e.activity_name \notin {None, Blank}
    BY <1>1, <1>6
  <2> HIDE DEF e
  <2> QED
    BY <1>1, <1>2, <1>4, <1>5, <2>1, <2>2 DEF Validates
<1> QED
  BY <1>3, <1>6

LEMMA BindingInvInit == Init => BindingInv
BY DEF Init, BindingInv, BoundEventsValidate

LEMMA BindingInvStep == BindingInv /\ [Next]_vars => BindingInv'
<1> SUFFICES ASSUME BindingInv, [Next]_vars PROVE BindingInv'
  OBVIOUS
<1> USE DEF BoundEventsValidate
<1>1. CASE Begin
  <2>1. ASSUME NEW p \in Packs, NEW l \in Logs, NEW ids \in Ids,
               RunPack(p, l, ids)
        PROVE  BindingInv'
    <3>1. UsableBinding(pack'.ocsf_binding)
      BY <2>1, OverlayIsUsable DEF RunPack, Run, ValidPack
    <3> QED
      BY <2>1, <3>1 DEF RunPack, Run, BindingInv
  <2>2. ASSUME NEW e, NEW binding, ParseWithoutPack(e, binding)
        PROVE  BindingInv'
    BY <2>2 DEF ParseWithoutPack, BindingInv, UsableBinding
  <2>3. ASSUME NEW detected, NEW extracted, NEW binding, NEW ids,
               ParseTier0(detected, extracted, binding, ids)
        PROVE  BindingInv'
    BY <2>3 DEF ParseTier0, BindingInv, UsableBinding
  <2> QED
    BY <1>1, <2>1, <2>2, <2>3 DEF Begin
<1>2. CASE StepPack
  <2>1. /\ at' \notin {"idle", "normalized", "audited", "invalid"}
        /\ at # "idle" /\ UNCHANGED <<pack, common, ocsf>>
    BY <1>2 DEF StepPack, RuntimeStep, ParseFields, ApplyClassification,
       ExecuteOperation, PreserveVendorFields, pathVars
  <2> QED
    BY <2>1 DEF BindingInv
<1>3. ASSUME NEW status, NEW inOrder, Normalize(status, inOrder)
      PROVE  BindingInv'
  <2> DEFINE result == MapLegacyEvent(event, status)
  <2>1. IsRecord(result, CommonFields)
    BY DEF MapLegacyEvent, IsRecord, CommonFields
  <2>2. Accepted(result) => ValidatedSlots(result.slots)
    BY AcceptedSlots
  <2> HIDE DEF result
  <2>3. \/ at' = "raised"
        \/ at' = "normalized" /\ common' = result /\ Accepted(result)
    BY <1>3 DEF Normalize, result
  <2>4. at # "idle" /\ pack' = pack
    BY <1>3 DEF Normalize
  <2> QED
    BY <2>1, <2>2, <2>3, <2>4 DEF BindingInv
<1>4. ASSUME NEW dropped, NEW sourceCount, Audit(dropped, sourceCount)
      PROVE  BindingInv'
  <2>1. \/ at' = "raised"
        \/ /\ at' = "audited"
           /\ common' = [common EXCEPT !.mapping_status =
                                         report'.mapping_status]
    BY <1>4 DEF Audit
  <2>2. at = "normalized" /\ pack' = pack
    BY <1>4 DEF Audit
  <2>3. at' = "audited" =>
          IsRecord(common', CommonFields) /\ common'.slots = common.slots
    BY <2>1, <2>2 DEF BindingInv, IsRecord, CommonFields
  <2> QED
    BY <2>1, <2>2, <2>3 DEF BindingInv
<1>5. CASE MapToOcsf
  <2>1. at \in {"normalized", "audited"} /\ pack' = pack
    BY <1>5 DEF MapToOcsf
  <2>2. \/ at' \in {"deferred", "unbound", "mapped"}
        \/ /\ at' = "invalid"
           /\ pack.ocsf_binding.status # "deferred"
           /\ Binds(common, pack.ocsf_binding)
           /\ ocsf' = OcsfEvent(common, pack.ocsf_binding)
           /\ ~Validates(ocsf')
    BY <1>5 DEF MapToOcsf
  <2>3. at' = "invalid" =>
          \/ ocsf'.time < 0
          \/ ocsf'.activity_id = Other /\ ocsf'.activity_name = Blank
    BY <2>1, <2>2, BoundEventValidates DEF BindingInv, UsableBinding
  <2> QED
    BY <2>1, <2>2, <2>3 DEF BindingInv
<1>6. CASE NextEvent
  BY <1>6 DEF NextEvent, BindingInv
<1>7. CASE UNCHANGED vars
  BY <1>7 DEF vars, runtimeVars, pathVars, BindingInv
<1> QED
  BY <1>1, <1>2, <1>3, <1>4, <1>5, <1>6, <1>7 DEF Next

(***************************************************************************)
(* An OCSF event that a loaded binding made is rejected only for a time    *)
(* before 1970 or a blank name of the activity "other"                     *)
(* (OcsfBinding.validate_ocsf_binding against OCSFValidator.validate).     *)
(***************************************************************************)
THEOREM BoundEventsAlwaysValidate == Spec => []BoundEventsValidate
<1>1. BindingInv => BoundEventsValidate
  BY DEF BindingInv
<1> QED
  BY <1>1, BindingInvInit, BindingInvStep, PTL DEF Spec

-----------------------------------------------------------------------------
(***************************************************************************)
(* The event a pack builds stays a dictionary whatever the operations of   *)
(* the pack write, because each of their values is one.                    *)
(***************************************************************************)
Loaded(p) ==
  /\ IsList(p.syntax.field_names) /\ IsList(p.operations)
  /\ \A o \in ToSet(p.operations) : WellShaped(o) /\ FiniteMapping(o.value)

PackInv ==
  /\ IsDictionary(event)
  /\ IsFiniteSet(DOMAIN source)
  /\ at \in {"parse", "classify", "operate"} => log # None
  /\ log # None => /\ log \in Logs /\ Loaded(pack)
                   /\ done \in 0 .. Len(pack.operations)
  /\ log = None => done = 0
  /\ at = "idle" => log = None

LEMMA ImageIsFinite ==
  ASSUME NEW S, NEW f, IsFiniteSet(S), f = [s \in S |-> f[s]]
  PROVE  IsFiniteSet({f[s] : s \in S})
<1> DEFINE T == {f[s] : s \in S}
<1>1. f \in [S -> T]
  OBVIOUS
<1>2. f \in Surjection(S, T)
  BY <1>1 DEF Surjection
<1> HIDE DEF T
<1>3. IsFiniteSet(T)
  BY <1>2, FS_Surjection
<1> QED
  BY <1>3 DEF T

LEMMA ListIsFinite ==
  ASSUME NEW s, IsList(s)
  PROVE  /\ Len(s) \in Nat /\ DOMAIN s = 1 .. Len(s)
         /\ IsFiniteSet(DOMAIN s)
<1>1. Len(s) \in Nat /\ DOMAIN s = 1 .. Len(s)
  BY LenProperties DEF IsList
<1>2. IsFiniteSet(1 .. Len(s))
  BY <1>1, FS_Interval
<1> QED
  BY <1>1, <1>2

LEMMA AssignedIsFinite ==
  ASSUME NEW pairs, NEW taken, IsFiniteSet(taken)
  PROVE  IsFiniteSet(DOMAIN Assigned(pairs, taken))
<1> DEFINE f == [i \in taken |-> pairs[i][1]]
<1>1. f = [i \in taken |-> f[i]]
  OBVIOUS
<1>2. DOMAIN Assigned(pairs, taken) = {f[i] : i \in taken}
  BY DEF Assigned
<1> HIDE DEF f
<1> QED
  BY <1>1, <1>2, ImageIsFinite

(***************************************************************************)
(* parse_fields returns finitely many fields.                              *)
(***************************************************************************)
LEMMA ParsedFieldsAreFinite ==
  ASSUME log \in Logs, Loaded(pack), Parses
  PROVE  IsFiniteSet(DOMAIN ParsedFields)
<1>1. CASE pack.syntax.input_format = "csv"
  <2>1. /\ IsList(log.rows) /\ \A row \in ToSet(log.rows) : IsList(row)
        /\ IsList(pack.syntax.field_names)
    BY LogsAreTexts DEF Loaded
  <2>2. Payloads \in SUBSET DOMAIN log.rows /\ Payloads # {}
    BY <1>1 DEF Parses, Payloads
  <2>3. Payloads \in SUBSET Nat
    <3>1. DOMAIN log.rows = 1 .. Len(log.rows)
      BY <2>1, ListIsFinite
    <3> HIDE DEF Payloads
    <3> QED
      BY <2>2, <3>1
  <2>4. Min(Payloads) \in DOMAIN log.rows
    BY <2>2, <2>3, LeastIsMin
  <2> DEFINE row == log.rows[Min(Payloads)]
             columns == Len(pack.syntax.field_names)
             kept == IF pack.syntax.preserve_extra_fields THEN Len(row)
                     ELSE Min({Len(row), columns})
  <2>5. Len(row) \in Nat /\ columns \in Nat
    <3>1. row \in ToSet(log.rows)
      BY <2>4 DEF ToSet
    <3> QED
      BY <2>1, <3>1, ListIsFinite
  <2>6. kept \in Nat
    <3> HIDE DEF row, columns
    <3>1. {Len(row), columns} \in SUBSET Nat /\ {Len(row), columns} # {}
      BY <2>5
    <3>2. Min({Len(row), columns}) \in {Len(row), columns}
      BY <3>1, LeastIsMin
    <3>3. Min({Len(row), columns}) \in Nat
      BY <2>5, <3>2
    <3> QED
      BY <2>5, <3>3
  <2>7. RowFields(row)
          = Assigned([i \in 1 .. kept |-> <<ColumnName(i), row[i]>>], 1 .. kept)
    BY DEF RowFields
  <2>8. ParsedFields = RowFields(row)
    BY <1>1 DEF ParsedFields
  <2> HIDE DEF kept, row
  <2>9. IsFiniteSet(1 .. kept)
    BY <2>6, FS_Interval
  <2> QED
    BY <2>7, <2>8, <2>9, AssignedIsFinite
<1>2. CASE pack.syntax.input_format # "csv"
  <2> DEFINE taken == {i \in DOMAIN log.tokens : /\ Len(log.tokens[i]) = 2
                                                /\ log.tokens[i][1] # ""}
  <2>1. IsFiniteSet(DOMAIN log.tokens)
    BY LogsAreTexts, ListIsFinite
  <2>2. taken \in SUBSET DOMAIN log.tokens
    OBVIOUS
  <2>3. IsFiniteSet(taken)
    BY <2>1, <2>2, FS_Subset
  <2>4. ParsedFields = Assigned(log.tokens, taken)
    BY <1>2 DEF ParsedFields, TokenFields
  <2> HIDE DEF taken
  <2> QED
    BY <2>3, <2>4, AssignedIsFinite
<1> QED
  BY <1>1, <1>2

(***************************************************************************)
(* No operation makes an endless dictionary: a constant is one the pack    *)
(* holds, and everything else is a text or a number.                       *)
(***************************************************************************)
LEMMA TextsAreNoMappings ==
  /\ FiniteMapping(None)
  /\ \A s : FiniteMapping(Text(s))
  /\ \A n : FiniteMapping(Number(n))
BY DEF FiniteMapping, Is, Text, Number

LEMMA ExecutedIsFinite ==
  ASSUME NEW o, WellShaped(o), FiniteMapping(o.value)
  PROVE  FiniteMapping(Execute(o))
<1> USE TextsAreNoMappings
<1>1. \A s : FiniteMapping(CleanText(s)) /\ FiniteMapping(ToInt(s))
  BY DEF CleanText, ToInt
<1>2. \A s, m : FiniteMapping(Protocol(s, m))
  BY DEF Protocol
<1>3. \A s, p : FiniteMapping(Port(s, p))
  BY <1>1 DEF Port
<1>4. \A values, formats : FiniteMapping(Timestamp(values, formats))
  BY DEF Timestamp
<1>5. FiniteMapping(MapOperation(o))
  BY DEF MapOperation
<1>6. o.op \in AllowedOperations
  BY DEF WellShaped
<1>7. \/ Execute(o) \in {o.value, None, MapOperation(o)}
      \/ \E s : Execute(o) \in {CleanText(s), ToInt(s)}
      \/ \E s, m : Execute(o) = Protocol(s, m)
      \/ \E s, p : Execute(o) = Port(s, p)
      \/ \E values, formats : Execute(o) = Timestamp(values, formats)
  BY <1>6 DEF Execute, AllowedOperations, SourceOperations
<1> QED
  BY <1>1, <1>2, <1>3, <1>4, <1>5, <1>7

LEMMA PutKeepsFinite ==
  ASSUME NEW details, NEW k, NEW v, FiniteMapping(v),
         IsFiniteSet(DOMAIN details), IsFiniteSet(DOMAIN UnmappedFields(details))
  PROVE  /\ IsFiniteSet(DOMAIN Put(details, k, v))
         /\ IsFiniteSet(DOMAIN UnmappedFields(Put(details, k, v)))
<1>1. DOMAIN Put(details, k, v) = DOMAIN details \cup {k}
  BY DEF Put
<1>2. IsFiniteSet(DOMAIN Put(details, k, v))
  BY <1>1, FS_AddElement
<1>3. CASE k # "unmapped_fields"
  <2>1. Lookup(Put(details, k, v), "unmapped_fields")
          = Lookup(details, "unmapped_fields")
    BY <1>3 DEF Lookup, Put
  <2>2. UnmappedFields(Put(details, k, v)) = UnmappedFields(details)
    BY <2>1 DEF UnmappedFields
  <2> QED
    BY <1>2, <2>2
<1>4. CASE k = "unmapped_fields"
  <2>1. Lookup(Put(details, k, v), "unmapped_fields") = v
    BY <1>4 DEF Lookup, Put
  <2>2. UnmappedFields(Put(details, k, v))
          = IF v = None THEN Empty
            ELSE IF Is("mapping", v) THEN v[2]
            ELSE Put(Empty, "legacy_unmapped_fields", v)
    BY <2>1 DEF UnmappedFields
  <2>3. DOMAIN Empty = {} /\ IsFiniteSet({})
    BY FS_EmptySet DEF Empty
  <2>4. DOMAIN Put(Empty, "legacy_unmapped_fields", v)
          = {} \cup {"legacy_unmapped_fields"}
    BY <2>3 DEF Put
  <2>5. IsFiniteSet(DOMAIN Put(Empty, "legacy_unmapped_fields", v))
    BY <2>3, <2>4, FS_AddElement
  <2> QED
    BY <1>2, <2>2, <2>3, <2>5 DEF FiniteMapping
<1> QED
  BY <1>3, <1>4

LEMMA EmptyIsDictionary == IsDictionary(EmptyLegacyEvent)
<1>1. /\ EmptyLegacyEvent.details = Empty
      /\ EmptyLegacyEvent.vendor_fields = Empty
      /\ EmptyLegacyEvent.extra = <<>>
  BY DEF EmptyLegacyEvent
<1>2. DOMAIN Empty = {} /\ UnmappedFields(Empty) = Empty /\ IsFiniteSet({})
  BY FS_EmptySet DEF Empty, UnmappedFields, Lookup
<1>3. DOMAIN <<>> = {} /\ IsList(<<>>)
  BY DEF IsList
<1> QED
  BY <1>1, <1>2, <1>3, EmptyEventShape DEF IsDictionary

\* a dictionary with other scalar fields is one
LEMMA FieldsAreNoKeys ==
  ASSUME NEW old, IsDictionary(old), NEW new,
         IsRecord(new, EventFields), IsRecord(new.fields, ScalarKeys),
         new.details = old.details, new.vendor_fields = old.vendor_fields,
         new.extra = old.extra
  PROVE  IsDictionary(new)
BY DEF IsDictionary

LEMMA WithTargetIsDictionary ==
  ASSUME IsDictionary(event), NEW target, NEW v, FiniteMapping(v),
         AllowedTarget(target)
  PROVE  IsDictionary(WithTarget(target, v))
<1> DEFINE new == WithTarget(target, v)
<1>1. IsRecord(event, EventFields) /\ IsRecord(event.fields, ScalarKeys)
  BY DEF IsDictionary
<1>2. IsRecord(new, EventFields) /\ IsRecord(new.fields, ScalarKeys)
  BY <1>1, TargetKeepsClassification
<1>3. CASE Len(target) = 1
  <2>1. new = [event EXCEPT !.fields[target[1]] = v]
    BY <1>3 DEF WithTarget
  <2>2. /\ new.details = event.details /\ new.extra = event.extra
        /\ new.vendor_fields = event.vendor_fields
    BY <1>1, <2>1 DEF IsRecord, EventFields
  <2> HIDE DEF new
  <2> QED
    BY <1>2, <2>2, FieldsAreNoKeys DEF new
<1>4. CASE Len(target) # 1 /\ v = None
  BY <1>4 DEF WithTarget
<1>5. CASE Len(target) # 1 /\ v # None
  <2>1. new = [event EXCEPT !.details = Put(event.details, target[2], v)]
    BY <1>1, <1>5 DEF WithTarget, EventFields, IsRecord
  <2>2. /\ new.details = Put(event.details, target[2], v)
        /\ new.extra = event.extra
        /\ new.vendor_fields = event.vendor_fields
    BY <1>1, <2>1 DEF IsRecord, EventFields
  <2>3. /\ IsFiniteSet(DOMAIN event.details)
        /\ IsFiniteSet(DOMAIN UnmappedFields(event.details))
    BY DEF IsDictionary
  <2>4. /\ IsFiniteSet(DOMAIN Put(event.details, target[2], v))
        /\ IsFiniteSet(DOMAIN UnmappedFields(Put(event.details, target[2], v)))
    BY <2>3, PutKeepsFinite
  <2> HIDE DEF new
  <2> QED
    BY <1>2, <2>2, <2>4 DEF IsDictionary, new
<1> QED
  BY <1>3, <1>4, <1>5

(***************************************************************************)
(* What the overlay leaves alone.                                          *)
(***************************************************************************)
LEMMA OverlayIsLoaded ==
  ASSUME NEW p \in Packs, ValidPack(p)
  PROVE  Loaded(RuntimePack(p))
<1>1. /\ RuntimePack(p).syntax = p.syntax
      /\ RuntimePack(p).operations = p.operations
  BY PacksAreModels DEF RuntimePack, IsRecord
<1> QED
  BY <1>1, PacksAreModels DEF Loaded, ValidPack

LEMMA StatusIsNoKey == "mapping_status" \in STRING \ LegacyEventKeys
<1>1. "mapping_status" \notin LegacyEventKeys
  BY DEF LegacyEventKeys, ScalarKeys, ControlKeys, SemanticKeys
<1>2. {"mapping_status"} \subseteq STRING \cap {"mapping_status"}
  BY Zenon
<1> QED
  BY <1>1, <1>2

LEMMA Tier0IsDictionary ==
  ASSUME NEW detected, NEW extracted \in Structures, NEW ids
  PROVE  IsDictionary([Tier0Event(detected, extracted) EXCEPT
                         !.fields.u_id = Text(ids.u_id),
                         !.fields.raw_id = Text(ids.raw_id)])
<1> DEFINE found == Put(Empty, "detected_format", detected.format)
           details == Put(Empty, "tier0", Mapping(found))
           extra == <<<<"mapping_status", Text("incomplete")>>>>
           e == [Tier0Event(detected, extracted) EXCEPT
                   !.fields.u_id = Text(ids.u_id),
                   !.fields.raw_id = Text(ids.raw_id)]
<1>1. /\ IsRecord(e, EventFields) /\ IsRecord(e.fields, ScalarKeys)
      /\ e.details = details /\ e.extra = extra
      /\ e.vendor_fields = [k \in DOMAIN extracted |-> extracted[k]]
  BY DEF Tier0Event, EmptyLegacyEvent, IsRecord, EventFields, ScalarKeys
<1>2. /\ DOMAIN Empty = {} /\ UnmappedFields(Empty) = Empty
      /\ IsFiniteSet(DOMAIN Empty)
  BY FS_EmptySet DEF Empty, UnmappedFields, Lookup
<1>3. FiniteMapping(Mapping(found))
  <2>1. DOMAIN found = DOMAIN Empty \cup {"detected_format"}
    BY DEF Put
  <2>2. IsFiniteSet(DOMAIN found)
    BY <1>2, <2>1, FS_AddElement
  <2> HIDE DEF found
  <2>3. Mapping(found)[2] = found
    BY DEF Mapping
  <2> QED
    BY <2>2, <2>3 DEF FiniteMapping
<1>4. IsFiniteSet(DOMAIN details) /\ IsFiniteSet(DOMAIN UnmappedFields(details))
  <2> HIDE DEF found
  <2> QED
    BY <1>2, <1>3, PutKeepsFinite
<1>5. /\ IsList(extra) /\ DOMAIN extra = {1} /\ extra[1][1] = "mapping_status"
  <2>1. DOMAIN extra = {1} /\ extra[1][1] = "mapping_status"
    OBVIOUS
  <2>2. ToSet(extra) = {extra[1]}
    BY <2>1 DEF ToSet
  <2> QED
    BY <2>1, <2>2 DEF IsList
<1>6. "mapping_status" \in STRING \ LegacyEventKeys
  BY StatusIsNoKey
<1>7. IsFiniteSet(DOMAIN e.vendor_fields)
  BY <1>1, StructuresAreDictionaries
<1> HIDE DEF e, details, extra
<1>8. IsDictionary(e)
  BY <1>1, <1>4, <1>5, <1>6, <1>7 DEF IsDictionary
<1> QED
  BY <1>8 DEF e

LEMMA PackInvInit == Init => PackInv
<1>1. DOMAIN Empty = {} /\ IsFiniteSet({})
  BY FS_EmptySet DEF Empty
<1> QED
  BY <1>1, EmptyIsDictionary DEF Init, PackInv

LEMMA PackInvStep == PackInv /\ [Next]_vars => PackInv'
<1> SUFFICES ASSUME PackInv, [Next]_vars PROVE PackInv'
  OBVIOUS
<1>1. CASE Begin
  <2>1. ASSUME NEW p \in Packs, NEW l \in Logs, NEW ids \in Ids,
               RunPack(p, l, ids)
        PROVE  PackInv'
    <3>1. IsDictionary(event')
      <4>1. event' = [EmptyLegacyEvent EXCEPT
                        !.fields.u_id = Text(ids.u_id),
                        !.fields.raw_id = Text(ids.raw_id)]
        BY <2>1 DEF RunPack, Run
      <4>2. /\ IsRecord(event', EventFields)
            /\ IsRecord(event'.fields, ScalarKeys)
            /\ event'.details = EmptyLegacyEvent.details
            /\ event'.vendor_fields = EmptyLegacyEvent.vendor_fields
            /\ event'.extra = EmptyLegacyEvent.extra
        BY <4>1, EmptyEventShape DEF IsRecord, EventFields, ScalarKeys
      <4> QED
        BY <4>2, EmptyIsDictionary, FieldsAreNoKeys
    <3>2. /\ pack' = RuntimePack(p) /\ log' = l /\ at' \in {"raised", "parse"}
          /\ at = "idle" /\ UNCHANGED <<source, done>> /\ ValidPack(p)
      BY <2>1 DEF RunPack, Run
    <3>3. Loaded(pack') /\ log' # None
      BY <3>2, OverlayIsLoaded, LogsAreTexts
    <3>4. Len(pack'.operations) \in Nat
      BY <3>3, ListIsFinite DEF Loaded
    <3>5. done' = 0 /\ done' \in 0 .. Len(pack'.operations)
      BY <3>2, <3>4 DEF PackInv
    <3> QED
      BY <3>1, <3>2, <3>3, <3>5 DEF PackInv
  <2>2. ASSUME NEW e \in ParserEvents, NEW binding, ParseWithoutPack(e, binding)
        PROVE  PackInv'
    BY <2>2, ParserEventsAreDictionaries DEF ParseWithoutPack, PackInv
  <2>3. ASSUME NEW detected, NEW extracted \in Structures, NEW binding, NEW ids,
               ParseTier0(detected, extracted, binding, ids)
        PROVE  PackInv'
    BY <2>3, Tier0IsDictionary DEF ParseTier0, PackInv
  <2> QED
    BY <1>1, <2>1, <2>2, <2>3 DEF Begin
<1>2. CASE StepPack
  <2>1. /\ at \in {"parse", "classify", "operate"}
        /\ at' \in {"classify", "operate", "parsed", "raised"}
        /\ UNCHANGED <<pack, log>>
    BY <1>2 DEF StepPack, RuntimeStep, ParseFields, ApplyClassification,
       ExecuteOperation, PreserveVendorFields
  <2>2. /\ log # None /\ log \in Logs /\ Loaded(pack)
        /\ Len(pack.operations) \in Nat /\ done \in 0 .. Len(pack.operations)
    BY <2>1, ListIsFinite DEF PackInv, Loaded
  <2>3. IsRecord(event, EventFields) /\ IsRecord(event.fields, ScalarKeys)
    BY DEF PackInv, IsDictionary
  <2>4. CASE ParseFields
    <3>1. IsFiniteSet(DOMAIN source')
      BY <2>2, <2>4, ParsedFieldsAreFinite DEF ParseFields, PackInv
    <3>2. UNCHANGED <<event, done>>
      BY <2>4 DEF ParseFields
    <3> QED
      BY <2>1, <2>2, <3>1, <3>2 DEF PackInv
  <2>5. CASE ApplyClassification
    <3>1. /\ IsRecord(event', EventFields) /\ IsRecord(event'.fields, ScalarKeys)
          /\ event'.details = event.details /\ event'.extra = event.extra
          /\ event'.vendor_fields = event.vendor_fields
      BY <2>3, <2>5 DEF ApplyClassification, IsRecord, EventFields
    <3>2. IsDictionary(event')
      BY <3>1, FieldsAreNoKeys DEF PackInv
    <3>3. UNCHANGED <<source, done>>
      BY <2>5 DEF ApplyClassification
    <3> QED
      BY <2>1, <2>2, <3>2, <3>3 DEF PackInv
  <2>6. CASE ExecuteOperation
    <3> DEFINE o == pack.operations[done + 1]
    <3>1. CASE AllowedTarget(o.target)
      <4>1. /\ event' = WithTarget(o.target, Execute(o)) /\ done' = done + 1
            /\ done < Len(pack.operations) /\ source' = source
        BY <2>6, <3>1 DEF ExecuteOperation
      <4>2. o \in ToSet(pack.operations)
        <5>1. done + 1 \in 1 .. Len(pack.operations)
          BY <2>2, <4>1
        <5>2. DOMAIN pack.operations = 1 .. Len(pack.operations)
          BY <2>2, ListIsFinite DEF Loaded
        <5> QED
          BY <5>1, <5>2 DEF ToSet
      <4>3. FiniteMapping(Execute(o))
        BY <2>2, <4>2, ExecutedIsFinite DEF Loaded
      <4> HIDE DEF o
      <4>4. IsDictionary(event')
        BY <3>1, <4>1, <4>3, WithTargetIsDictionary DEF PackInv
      <4>5. done' \in 0 .. Len(pack.operations)
        BY <2>2, <4>1
      <4> QED
        BY <2>1, <2>2, <4>1, <4>4, <4>5 DEF PackInv
    <3>2. CASE ~AllowedTarget(o.target)
      BY <2>1, <2>2, <2>6, <3>2 DEF ExecuteOperation, PackInv
    <3> QED
      BY <3>1, <3>2
  <2>7. CASE PreserveVendorFields
    <3>1. /\ IsRecord(event', EventFields) /\ event'.fields = event.fields
          /\ event'.details = event.details /\ event'.extra = event.extra
          /\ \/ event'.vendor_fields = event.vendor_fields
             \/ event'.vendor_fields = [k \in DOMAIN source |-> Text(source[k])]
      BY <2>3, <2>7 DEF PreserveVendorFields, IsRecord, EventFields
    <3>2. IsFiniteSet(DOMAIN event'.vendor_fields)
      BY <3>1 DEF PackInv, IsDictionary
    <3>3. IsDictionary(event')
      BY <2>3, <3>1, <3>2 DEF PackInv, IsDictionary
    <3>4. UNCHANGED <<source, done>>
      BY <2>7 DEF PreserveVendorFields
    <3> QED
      BY <2>1, <2>2, <3>3, <3>4 DEF PackInv
  <2> QED
    BY <1>2, <2>4, <2>5, <2>6, <2>7 DEF StepPack, RuntimeStep
<1>3. ASSUME NEW status, NEW inOrder, Normalize(status, inOrder)
      PROVE  PackInv'
  BY <1>3 DEF Normalize, PackInv
<1>4. ASSUME NEW dropped, NEW sourceCount, Audit(dropped, sourceCount)
      PROVE  PackInv'
  BY <1>4 DEF Audit, PackInv
<1>5. CASE MapToOcsf
  BY <1>5 DEF MapToOcsf, PackInv
<1>6. CASE NextEvent
  <2>1. DOMAIN Empty = {} /\ IsFiniteSet({})
    BY FS_EmptySet DEF Empty
  <2> QED
    BY <1>6, <2>1, EmptyIsDictionary DEF NextEvent, PackInv
<1>7. CASE UNCHANGED vars
  BY <1>7 DEF vars, runtimeVars, PackInv
<1> QED
  BY <1>1, <1>2, <1>3, <1>4, <1>5, <1>6, <1>7 DEF Next

-----------------------------------------------------------------------------
(***************************************************************************)
(* There is a CommonEvent from the normalization on, of the right shape.   *)
(***************************************************************************)
EarlyPositions == {"idle", "parse", "classify", "operate", "parsed"}

MappedPositions ==
  {"normalized", "audited", "deferred", "unbound", "invalid", "mapped"}

ShapeOf(result) ==
  /\ IsRecord(result, CommonFields)
  /\ result.mapping_status \in {"mapped", "incomplete"}
  /\ ValidPorts(result)

ShapeInv ==
  /\ at \in Positions
  /\ at \in EarlyPositions => common = None
  /\ at \in MappedPositions \/ common # None => ShapeOf(common)
  /\ IF at \in {"invalid", "mapped"} THEN IsRecord(ocsf, OcsfFields)
                                     ELSE ocsf = None

\* What the mapper returns has all of the fields of such an event.
LEMMA OcsfEventIsRecord ==
  ASSUME NEW c, NEW binding
  PROVE  IsRecord(OcsfEvent(c, binding), OcsfFields)
<1>1. \A a1, a2, a3, a4, a5, a6, a7, a8, a9, a10, a11, a12, a13, a14 :
        IsRecord([class_uid |-> a1, category_uid |-> a2, activity_id |-> a3,
                  activity_name |-> a4, type_uid |-> a5, time |-> a6,
                  severity_id |-> a7, status_id |-> a8, product |-> a9,
                  src_ip |-> a10, dst_ip |-> a11, protocol |-> a12,
                  u_id |-> a13, raw_id |-> a14], OcsfFields)
  BY SMT DEF IsRecord, OcsfFields
<1> QED
  BY <1>1 DEF OcsfEvent

LEMMA ShapeInvInit == Init => ShapeInv
BY DEF Init, ShapeInv, Positions, EarlyPositions, MappedPositions

LEMMA ShapeInvStep == ShapeInv /\ [Next]_vars => ShapeInv'
<1> SUFFICES ASSUME ShapeInv, [Next]_vars PROVE ShapeInv'
  OBVIOUS
<1> USE DEF Positions, EarlyPositions, MappedPositions
<1>1. CASE Begin
  <2>1. /\ at = "idle" /\ at' \in {"raised", "parse", "parsed"}
        /\ UNCHANGED <<common, ocsf>>
    BY <1>1 DEF Begin, RunPack, Run, ParseWithoutPack, ParseTier0, pathVars
  <2> QED
    BY <2>1 DEF ShapeInv
<1>2. CASE StepPack
  <2>1. /\ at \in {"parse", "classify", "operate"}
        /\ at' \in {"classify", "operate", "parsed", "raised"}
        /\ UNCHANGED <<common, ocsf>>
    BY <1>2 DEF StepPack, RuntimeStep, ParseFields, ApplyClassification,
       ExecuteOperation, PreserveVendorFields, pathVars
  <2> QED
    BY <2>1 DEF ShapeInv
<1>3. ASSUME NEW status \in {"mapped", "incomplete"}, NEW inOrder,
             Normalize(status, inOrder)
      PROVE  ShapeInv'
  <2> DEFINE result == MapLegacyEvent(event, status)
  <2>1. IsRecord(result, CommonFields) /\ result.mapping_status = status
    BY DEF MapLegacyEvent, IsRecord, CommonFields
  <2>2. Accepted(result) => ValidPorts(result)
    BY DEF Accepted, ValidateEvent
  <2> HIDE DEF result
  <2>3. \/ at' = "raised" /\ common' = common
        \/ at' = "normalized" /\ common' = result /\ Accepted(result)
    BY <1>3 DEF Normalize, result
  <2>4. at = "parsed" /\ ocsf' = ocsf
    BY <1>3 DEF Normalize
  <2> QED
    BY <2>1, <2>2, <2>3, <2>4 DEF ShapeInv, ShapeOf
<1>4. ASSUME NEW dropped, NEW sourceCount, Audit(dropped, sourceCount)
      PROVE  ShapeInv'
  <2>1. at = "normalized" /\ ocsf' = ocsf /\ ShapeOf(common)
    BY <1>4 DEF Audit, ShapeInv
  <2>2. \/ at' = "raised" /\ common' = common
        \/ /\ at' = "audited"
           /\ common' = [common EXCEPT !.mapping_status =
                                         report'.mapping_status]
    BY <1>4 DEF Audit
  <2>3. report'.mapping_status \in {"mapped", "incomplete"}
    BY <1>4 DEF Audit, Evaluate, ResultStatus
  <2>4. ShapeOf(common')
    <3>1. CASE common' = common
      BY <2>1, <3>1
    <3>2. CASE common' = [common EXCEPT !.mapping_status =
                                          report'.mapping_status]
      <4>1. IsRecord(common, CommonFields) /\ ValidPorts(common)
        BY <2>1 DEF ShapeOf
      <4>2. /\ IsRecord(common', CommonFields)
            /\ common'.slots = common.slots
            /\ common'.mapping_status = report'.mapping_status
        BY <3>2, <4>1 DEF IsRecord, CommonFields
      <4>3. ValidPorts(common')
        BY <4>1, <4>2 DEF ValidPorts
      <4> QED
        BY <2>3, <4>2, <4>3 DEF ShapeOf
    <3> QED
      BY <2>2, <3>1, <3>2
  <2> QED
    BY <2>1, <2>2, <2>4 DEF ShapeInv
<1>5. CASE MapToOcsf
  <2>1. at \in {"normalized", "audited"} /\ common' = common
    BY <1>5 DEF MapToOcsf
  <2>2. \/ at' \in {"deferred", "unbound"} /\ ocsf' = ocsf
        \/ /\ at' \in {"invalid", "mapped"}
           /\ ocsf' = OcsfEvent(common, pack.ocsf_binding)
    BY <1>5 DEF MapToOcsf
  <2>3. IsRecord(OcsfEvent(common, pack.ocsf_binding), OcsfFields)
    BY OcsfEventIsRecord
  <2> QED
    BY <2>1, <2>2, <2>3 DEF ShapeInv
<1>6. CASE NextEvent
  BY <1>6 DEF NextEvent, ShapeInv
<1>7. CASE UNCHANGED vars
  BY <1>7 DEF vars, runtimeVars, pathVars, ShapeInv
<1> QED
  BY <1>1, <1>2, <1>3, <1>4, <1>5, <1>6, <1>7 DEF Next

LEMMA ShapesGiveTypeOK == PackInv /\ ShapeInv => TypeOK
<1> SUFFICES ASSUME PackInv, ShapeInv PROVE TypeOK
  OBVIOUS
<1>1. done \in 0 .. (IF log = None THEN 0 ELSE Len(pack.operations))
  BY DEF PackInv
<1>2. IsRecord(event, EventFields) /\ IsRecord(event.fields, ScalarKeys)
  BY DEF PackInv, IsDictionary
<1>3. common # None =>
        /\ common.mapping_status \in {"mapped", "incomplete"}
        /\ \A slot \in Ports :
             common.slots[slot] # None => common.slots[slot][2] \in 0 .. MaxPort
  <2>1. common # None => ShapeOf(common)
    BY DEF ShapeInv
  <2> QED
    BY <2>1 DEF ShapeOf, ValidPorts
<1>4. at \in MappedPositions => IsRecord(common, CommonFields)
  BY DEF ShapeInv, ShapeOf
<1>5. /\ at \in Positions
      /\ IF at \in {"invalid", "mapped"} THEN IsRecord(ocsf, OcsfFields)
                                         ELSE ocsf = None
  BY DEF ShapeInv
<1> HIDE DEF PackInv, ShapeInv
<1> QED
  BY <1>1, <1>2, <1>3, <1>4, <1>5 DEF TypeOK, MappedPositions

(***************************************************************************)
(* The state has its shape at every position of the path: an accepted      *)
(* CommonEvent has a status and ports in range (validate_common_event),    *)
(* and run() executes each operation once.                                 *)
(***************************************************************************)
THEOREM TypeAlwaysOK == Spec => []TypeOK
<1>1. Init => PackInv /\ ShapeInv
  BY PackInvInit, ShapeInvInit
<1>2. PackInv /\ ShapeInv /\ [Next]_vars => PackInv' /\ ShapeInv'
  BY PackInvStep, ShapeInvStep
<1>3. PackInv /\ ShapeInv => TypeOK
  BY ShapesGiveTypeOK
<1> QED
  BY <1>1, <1>2, <1>3, PTL DEF Spec

-----------------------------------------------------------------------------
(***************************************************************************)
(* What the mapper made of an event, whatever status it was given.         *)
(***************************************************************************)
MadeFrom(legacy, result) ==
  \E status :
    /\ result.slots = MapLegacyEvent(legacy, status).slots
    /\ result.details = MapLegacyEvent(legacy, status).details
    /\ result.vendor_fields = MapLegacyEvent(legacy, status).vendor_fields

Reports(legacy, result, audit) ==
  /\ audit.mapped = Mapped(legacy, result, audit.dropped)
  /\ audit.unmapped = Unmapped(legacy, result, audit.dropped)

(***************************************************************************)
(* From the normalization to the end of the path the CommonEvent is the    *)
(* one made of the event at hand, and the report is about the two; the     *)
(* audit changes nothing but the status.                                   *)
(***************************************************************************)
MadeInv ==
  /\ at \in EarlyPositions => common = None /\ report = None
  /\ at \in MappedPositions \/ common # None \/ report # None =>
       MadeFrom(event, common)
  /\ at = "normalized" => report = None
  /\ report # None => Reports(event, common, report)

\* The audit looks at no more of the CommonEvent than its details.
LEMMA AuditOfDetails ==
  ASSUME NEW legacy, NEW result, NEW other, NEW dropped,
         other.details = result.details
  PROVE  /\ Mapped(legacy, other, dropped) = Mapped(legacy, result, dropped)
         /\ Unmapped(legacy, other, dropped) = Unmapped(legacy, result, dropped)
<1>1. PreservedKeys(other) = PreservedKeys(result)
  BY DEF PreservedKeys
<1> QED
  BY <1>1 DEF Mapped, Unmapped

LEMMA MadeInvInit == Init => MadeInv
BY DEF Init, MadeInv, EarlyPositions, MappedPositions

LEMMA MadeInvStep == ShapeInv /\ MadeInv /\ [Next]_vars => MadeInv'
<1> SUFFICES ASSUME ShapeInv, MadeInv, [Next]_vars PROVE MadeInv'
  OBVIOUS
<1> USE DEF EarlyPositions, MappedPositions
<1>1. CASE Begin
  <2>1. /\ at = "idle" /\ at' \in {"raised", "parse", "parsed"}
        /\ UNCHANGED <<common, report>>
    BY <1>1 DEF Begin, RunPack, Run, ParseWithoutPack, ParseTier0, pathVars
  <2> QED
    BY <2>1 DEF MadeInv
<1>2. CASE StepPack
  <2>1. /\ at \in {"parse", "classify", "operate"}
        /\ at' \in {"classify", "operate", "parsed", "raised"}
        /\ UNCHANGED <<common, report>>
    BY <1>2 DEF StepPack, RuntimeStep, ParseFields, ApplyClassification,
       ExecuteOperation, PreserveVendorFields, pathVars
  <2> QED
    BY <2>1 DEF MadeInv
<1>3. ASSUME NEW status, NEW inOrder, Normalize(status, inOrder)
      PROVE  MadeInv'
  <2>1. /\ common = None /\ report' = None /\ event' = event
        /\ \/ at' = "raised" /\ common' = common
           \/ at' = "normalized" /\ common' = MapLegacyEvent(event, status)
    BY <1>3 DEF Normalize, MadeInv
  <2>2. at' = "normalized" => MadeFrom(event', common')
    BY <2>1 DEF MadeFrom
  <2> QED
    BY <2>1, <2>2 DEF MadeInv
<1>4. ASSUME NEW dropped, NEW sourceCount, Audit(dropped, sourceCount)
      PROVE  MadeInv'
  <2>1. /\ at = "normalized" /\ event' = event /\ MadeFrom(event, common)
        /\ at' \in {"raised", "audited"}
    BY <1>4 DEF Audit, MadeInv
  <2>2. /\ common'.details = common.details /\ common'.slots = common.slots
        /\ common'.vendor_fields = common.vendor_fields
    <3>1. IsRecord(common, CommonFields)
      BY <2>1 DEF ShapeInv, ShapeOf
    <3>2. \/ common' = common
          \/ common' = [common EXCEPT !.mapping_status =
                                        report'.mapping_status]
      BY <1>4 DEF Audit
    <3> QED
      BY <3>1, <3>2 DEF IsRecord, CommonFields
  <2>3. MadeFrom(event', common')
    BY <2>1, <2>2 DEF MadeFrom
  <2>4. Reports(event', common', report')
    <3>1. /\ report'.dropped = dropped
          /\ report'.mapped = Mapped(event, common, dropped)
          /\ report'.unmapped = Unmapped(event, common, dropped)
      BY <1>4 DEF Audit, Evaluate
    <3> QED
      BY <2>1, <2>2, <3>1, AuditOfDetails DEF Reports
  <2> QED
    BY <2>1, <2>3, <2>4 DEF MadeInv
<1>5. CASE MapToOcsf
  BY <1>5 DEF MapToOcsf, MadeInv
<1>6. CASE NextEvent
  BY <1>6 DEF NextEvent, MadeInv
<1>7. CASE UNCHANGED vars
  BY <1>7 DEF vars, runtimeVars, pathVars, MadeInv
<1> QED
  BY <1>1, <1>2, <1>3, <1>4, <1>5, <1>6, <1>7 DEF Next

PathInv == PackInv /\ ShapeInv /\ MadeInv

LEMMA PathInvHolds == Spec => []PathInv
<1>1. Init => PathInv
  BY PackInvInit, ShapeInvInit, MadeInvInit DEF PathInv
<1>2. PathInv /\ [Next]_vars => PathInv'
  BY PackInvStep, ShapeInvStep, MadeInvStep DEF PathInv
<1> QED
  BY <1>1, <1>2, PTL DEF Spec

(***************************************************************************)
(* No value is lost between the legacy event and its CommonEvent           *)
(* (map_legacy_common_event, _preserve_unmapped).                          *)
(***************************************************************************)
THEOREM NothingIsEverLost ==
  ASSUME NoneIsNoValue, SuffixesDiffer, RenamedIsUnknown
  PROVE  Spec => []NothingLost
<1>1. PathInv => NothingLost
  <2> SUFFICES ASSUME PathInv, common # None PROVE NothingLost
    BY DEF NothingLost
  <2>1. PICK status :
          /\ common.slots = MapLegacyEvent(event, status).slots
          /\ common.details = MapLegacyEvent(event, status).details
          /\ common.vendor_fields = MapLegacyEvent(event, status).vendor_fields
    BY DEF PathInv, MadeInv, MadeFrom
  <2>2. Represented(event, MapLegacyEvent(event, status))
    BY EventIsRepresented DEF PathInv, PackInv
  <2>3. Represented(event, common)
    BY <2>1, <2>2 DEF Represented
  <2> QED
    BY <2>3 DEF Represented, NothingLost
<1> QED
  BY <1>1, PathInvHolds, PTL

(***************************************************************************)
(* What the audit counts as mapped is in the CommonEvent (the comment of   *)
(* normalization/fidelity.py about failed conversions).                    *)
(***************************************************************************)
THEOREM MappedIsAlwaysRepresented ==
  ASSUME NoneIsNoValue, SuffixesDiffer, RenamedIsUnknown
  PROVE  Spec => []MappedIsRepresented
<1>1. PathInv => MappedIsRepresented
  <2> SUFFICES ASSUME PathInv, report # None PROVE MappedIsRepresented
    BY DEF MappedIsRepresented
  <2>1. PICK status :
          /\ common.slots = MapLegacyEvent(event, status).slots
          /\ common.details = MapLegacyEvent(event, status).details
          /\ common.vendor_fields = MapLegacyEvent(event, status).vendor_fields
    BY DEF PathInv, MadeInv, MadeFrom
  <2>2. report.mapped = Mapped(event, common, report.dropped)
    BY DEF PathInv, MadeInv, Reports
  <2>3. IsDictionary(event)
    BY DEF PathInv, PackInv
  <2>4. Hidden = HiddenIn(event)
    BY DEF Hidden, HiddenIn
  <2>5. ASSUME NEW k \in SemanticKeys \ Hidden, FieldLabel(k) \in report.mapped
        PROVE  common.slots[FieldSlot[k]] # None
    BY <2>1, <2>2, <2>3, <2>4, <2>5, MappedHasSlot
  <2>6. ASSUME NEW k, DetailLabel(k) \in report.mapped
        PROVE  k \in DOMAIN common.details
                 /\ common.details[k] = event.details[k]
    BY <2>1, <2>2, <2>3, <2>6, MappedDetailIsKept
  <2> QED
    BY <2>5, <2>6 DEF MappedIsRepresented
<1> QED
  BY <1>1, PathInvHolds, PTL

(***************************************************************************)
(* The audit counts every value once (evaluate_mapping_fidelity), except   *)
(* where names mislead it.                                                 *)
(***************************************************************************)
THEOREM EveryItemAlwaysOnce ==
  ASSUME NoneIsNoValue, SuffixesDiffer, RenamedIsUnknown
  PROVE  Spec => []EveryItemOnce
<1>1. PathInv => EveryItemOnce
  <2> SUFFICES ASSUME PathInv, report # None, report.dropped = {},
                      Hidden = {}, Shadowed = {}
               PROVE  EveryItemOnce
    BY DEF EveryItemOnce
  <2>1. PICK status :
          /\ common.slots = MapLegacyEvent(event, status).slots
          /\ common.details = MapLegacyEvent(event, status).details
          /\ common.vendor_fields = MapLegacyEvent(event, status).vendor_fields
    BY DEF PathInv, MadeInv, MadeFrom
  <2>2. /\ report.mapped = Mapped(event, common, {})
        /\ report.unmapped = Unmapped(event, common, {})
    BY DEF PathInv, MadeInv, Reports
  <2>3. IsDictionary(event)
    BY DEF PathInv, PackInv
  <2>4. HiddenIn(event) = {} /\ ShadowedIn(event, common) = {}
    BY DEF Hidden, HiddenIn, Shadowed, ShadowedIn
  <2>5. Cardinality(report.mapped \cup report.unmapped) =
          Cardinality(AuditedFields(event))
          + Cardinality(PlainDetails(event))
          + Cardinality(AuditedKeys(event.vendor_fields))
          + Cardinality(PlainExtra(event))
          + Cardinality(AuditedBefore(event))
    BY <2>1, <2>2, <2>3, <2>4, ItemsCountOnce
  <2> QED
    BY <2>5 DEF EveryItemOnce, AuditedFields, PlainDetails, PlainExtra,
       AuditedBefore
<1> QED
  BY <1>1, PathInvHolds, PTL
=============================================================================
