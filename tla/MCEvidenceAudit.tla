-------------------------- MODULE MCEvidenceAudit --------------------------
(***************************************************************************)
(* Small instances of the evidence audit for TLC: e1 and e2 are the same   *)
(* bytes at two positions of a feed, e3 is another event.                  *)
(***************************************************************************)
EXTENDS EvidenceAudit, TLC

CONSTANTS e1, e2, e3, d1, d2

MCDigestOf == (e1 :> d1) @@ (e2 :> d1) @@ (e3 :> d2)
=============================================================================
