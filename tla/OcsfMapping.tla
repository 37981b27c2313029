---------------------------- MODULE OcsfMapping ----------------------------
(***************************************************************************)
(* The pinned OCSF 1.9.0 facts, what a pack may bind to them, and          *)
(* map_common_event_to_ocsf with the validation at its end.                *)
(***************************************************************************)
EXTENDS LegacyEvent

CategoryOf ==
  [uid \in {0, 1001, 1007, 2004, 3002, 4001, 4014} |-> uid \div 1000]

NoActivities == {}

\* VERIFIED_ACTIVITY_NAMES: the activities of the classes that list any
ActivitiesOf ==
  [uid \in DOMAIN CategoryOf |->
     CASE uid = 4001 -> 0 .. 7 \cup {99}
       [] uid \in {1007, 3002} -> 0 .. 2 \cup {99}
       [] uid \in {4014, 2004} -> 0 .. 3 \cup {99}
       [] OTHER -> NoActivities]

StatusIds == {0, 1, 2, 99}
SeverityIds == 0 .. 6 \cup {99}
Other == 99

TypeUid(class, activity) == class * 100 + activity

Ranges(f) == {f[k] : k \in DOMAIN f}

\* Mutant: the severities of a binding are not looked at.
LegalWithAnySeverity(binding) ==
  IF binding.status = "deferred"
    THEN binding.class_uid = None
    ELSE /\ binding.class_uid \in DOMAIN CategoryOf
         /\ DOMAIN binding.activity_mappings # {}
         /\ Ranges(binding.activity_mappings) \subseteq
              ActivitiesOf[binding.class_uid]
         /\ Ranges(binding.status_mappings) \subseteq StatusIds

(***************************************************************************)
(* OcsfBinding.validate_ocsf_binding: what a pack file may bind.  A        *)
(* semantic value must not be empty, though it may be blank.               *)
(***************************************************************************)
LegalBinding(binding) ==
  LET mappings == {binding.activity_mappings, binding.status_mappings,
                   binding.severity_mappings}
  IN IF binding.status = "deferred"
       THEN /\ binding.class_uid = None /\ binding.default_severity_id = None
            /\ \A m \in mappings : DOMAIN m = {}
       ELSE /\ binding.class_uid \in DOMAIN CategoryOf
            /\ DOMAIN binding.activity_mappings # {}
            /\ Ranges(binding.activity_mappings) \subseteq
                 ActivitiesOf[binding.class_uid]
            /\ Ranges(binding.status_mappings) \subseteq StatusIds
            /\ Ranges(binding.severity_mappings) \subseteq SeverityIds
            /\ binding.default_severity_id \in SeverityIds

(***************************************************************************)
(* A semantic value the binding does not list is an error, not a default;  *)
(* only an absent severity has one.                                        *)
(***************************************************************************)
Lists(mapping, v) == Is("text", v) /\ v[2] \in DOMAIN mapping

Binds(common, binding) ==
  LET Optional(slot, mapping) ==
        common.slots[slot] = None \/ Lists(mapping, common.slots[slot])
  IN /\ Lists(binding.activity_mappings, common.slots["classification.type"])
     /\ Optional("classification.severity", binding.severity_mappings)
     /\ Optional("classification.outcome", binding.status_mappings)
     /\ common.slots["timestamps.event_time"] # None

(***************************************************************************)
(* build_base_event and what the mapper adds to it.  Of endpoints only the *)
(* addresses are taken over; ports, users and details stay behind, within  *)
(* reach through u_id and raw_id.  The names of class and category and the *)
(* name of a listed activity come from the registry and are left out.      *)
(***************************************************************************)
OcsfEvent(common, binding) ==
  LET slots == common.slots
      type == slots["classification.type"]
      severity == slots["classification.severity"]
      outcome == slots["classification.outcome"]
      activity == binding.activity_mappings[type[2]]
  IN [class_uid |-> binding.class_uid,
      category_uid |-> CategoryOf[binding.class_uid],
      activity_id |-> activity,
      activity_name |-> IF activity = Other THEN type ELSE None,
      type_uid |-> TypeUid(binding.class_uid, activity),
      time |-> slots["timestamps.event_time"][2],
      severity_id |-> IF severity = None THEN binding.default_severity_id
                      ELSE binding.severity_mappings[severity[2]],
      status_id |-> IF outcome = None THEN None
                    ELSE binding.status_mappings[outcome[2]],
      product |-> slots["vendor.product"],
      src_ip |-> slots["src_endpoint.ip"], dst_ip |-> slots["dst_endpoint.ip"],
      protocol |-> slots["network.protocol"],
      u_id |-> slots["traceability.u_id"],
      raw_id |-> slots["traceability.raw_id"]]

(***************************************************************************)
(* OCSFValidator.validate, for the fields such an event has.               *)
(***************************************************************************)
Validates(e) ==
  /\ {e.class_uid, e.category_uid, e.activity_id, e.type_uid, e.time,
      e.severity_id} \subseteq Nat
  /\ e.type_uid = TypeUid(e.class_uid, e.activity_id)
  /\ e.severity_id \in SeverityIds
  /\ e.class_uid \in DOMAIN CategoryOf =>
       /\ e.category_uid = CategoryOf[e.class_uid]
       /\ ActivitiesOf[e.class_uid] # NoActivities =>
            /\ e.activity_id \in ActivitiesOf[e.class_uid]
            /\ e.activity_id = Other => e.activity_name \notin {None, Blank}
  /\ e.product # Blank
=============================================================================
