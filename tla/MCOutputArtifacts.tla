-------------------------- MODULE MCOutputArtifacts --------------------------
(* One event of stream runs, and batches of one and of two events, one of    *)
(* them with an event the OCSF mapper defers.                                *)
EXTENDS OutputArtifacts, TLC

CONSTANTS e1, e2, e3, r1, r2

MCBatches == {<<e2>>, <<e1, e2>>, <<e2, e3>>}

Symmetric == Permutations(Runs)
=============================================================================
