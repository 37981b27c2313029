-------------------------- MODULE MCEvidenceStore --------------------------
(***************************************************************************)
(* Small instances of the evidence store for TLC.  The constants are given *)
(* values in the .cfg files; events and metadata are interchangeable.      *)
(***************************************************************************)
EXTENDS EvidenceStoreProofs, TLC

EventSymmetry == Permutations(Events)
=============================================================================
