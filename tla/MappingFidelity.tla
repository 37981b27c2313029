-------------------------- MODULE MappingFidelity --------------------------
(***************************************************************************)
(* evaluate_mapping_fidelity: the audit that says of every meaningful item *)
(* of a parsed event whether it was mapped, left unmapped or dropped.      *)
(* An item is known by its label, <<kind, name>>.                          *)
(***************************************************************************)
EXTENDS Normalization

FieldLabel(key) == <<"field", key>>
DetailLabel(key) == <<"details", key>>
VendorLabel(key) == <<"vendor", key>>
UnmappedLabel(key) == <<"unmapped", key>>

ControlFields == ControlKeys \cup {"mapping_status"}

ReservedDetails == {"unmapped_fields", "dropped_fields", "tier0", "fidelity"}

\* _has_meaningful_value of the audit: an empty dictionary is absent too
Audited(v) == Meaningful(v) /\ v # Mapping(Empty)

AuditedKeys(f) == {k \in DOMAIN f : Audited(f[k])}

ExtraKeys(legacy) ==
  {entry[1] : entry \in {e \in ToSet(legacy.extra) : Audited(e[2])}}

(***************************************************************************)
(* What the fields alone say: known fields and ordinary details count as   *)
(* mapped, other top-level entries and vendor fields as unmapped.          *)
(***************************************************************************)
ClaimedMapped(legacy) ==
  {FieldLabel(k) : k \in {k \in SemanticKeys : Audited(legacy.fields[k])}}
    \cup {DetailLabel(k) : k \in AuditedKeys(legacy.details) \ ReservedDetails}

ClaimedUnmapped(legacy) ==
  {FieldLabel(k) : k \in ExtraKeys(legacy) \ ControlFields}
    \cup {VendorLabel(k) : k \in AuditedKeys(legacy.vendor_fields)}

\* what the normalization preserved because it could not map it
PreservedKeys(common) ==
  AuditedKeys(UnmappedFields(common.details)) \ ControlFields

\* Mutant: a failed conversion stays counted as mapped.
MappedAsClaimed(legacy, common, dropped) == ClaimedMapped(legacy) \ dropped

Mapped(legacy, common, dropped) ==
  (ClaimedMapped(legacy) \ {FieldLabel(k) : k \in PreservedKeys(common)})
    \ dropped

(***************************************************************************)
(* A preserved entry whose top-level field is unmapped already keeps that  *)
(* disposition.  Dropping beats both.                                      *)
(***************************************************************************)
Unmapped(legacy, common, dropped) ==
  (ClaimedUnmapped(legacy)
     \cup {UnmappedLabel(k) :
             k \in {k \in PreservedKeys(common) :
                      FieldLabel(k) \notin ClaimedUnmapped(legacy)}})
    \ dropped

(***************************************************************************)
(* Coverages are pairs <<part, whole>>, or None when the whole is not      *)
(* known, is zero, or is smaller than the part.                            *)
(***************************************************************************)
ExtractionCoverage(audited, sourceCount) ==
  IF sourceCount = None \/ audited > sourceCount THEN None
  ELSE IF sourceCount = 0 THEN <<1, 1>> ELSE <<audited, sourceCount>>

SemanticCoverage(mapped, audited) ==
  IF audited = 0 THEN None ELSE <<mapped, audited>>

ResultStatus(base, unmapped, dropped) ==
  IF base = "incomplete" \/ unmapped # {} \/ dropped # {} THEN "incomplete"
                                                           ELSE "mapped"

Evaluate(legacy, common, dropped, sourceCount) ==
  LET mapped == Mapped(legacy, common, dropped)
      unmapped == Unmapped(legacy, common, dropped)
      audited == Cardinality(mapped \cup unmapped \cup dropped)
  IN [mapping_status |-> ResultStatus(common.mapping_status, unmapped, dropped),
      mapped |-> mapped, unmapped |-> unmapped, dropped |-> dropped,
      extraction_coverage |-> ExtractionCoverage(audited, sourceCount),
      semantic_coverage |-> SemanticCoverage(Cardinality(mapped), audited)]

\* the defensive ValueError of the code
Overlaps(report) == report.mapped \cap report.unmapped # {}
=============================================================================
