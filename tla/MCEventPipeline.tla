-------------------------- MODULE MCEventPipeline --------------------------
(***************************************************************************)
(* Small instances of the pipeline for TLC.  "traffic" is a FortiGate      *)
(* traffic event the packs apply to and "odd" one they do not, "vpn" has   *)
(* no pack and its parser is not registered, "plain" is detected as        *)
(* nothing, and "broken" makes its parser raise.                           *)
(***************************************************************************)
EXTENDS EventPipeline, TLC

CONSTANTS b1, b2, k1, k2

MCParserOf ==
  [e \in Events |->
     CASE e \in {"traffic", "odd", "broken"} -> "fortigate.traffic"
       [] e = "vpn" -> "fortigate.vpn"
       [] OTHER -> None]

MCApplies == Bodies \X (Events \cap {"traffic"})

(***************************************************************************)
(* docs/fortigate_semantic_pack.md: "its Ed25519 signature must match the  *)
(* runtime-controlled `fortigate-traffic-v1` public trust anchor"; k1      *)
(* stands for that key.                                                    *)
(***************************************************************************)
AnchorSignsPack == cache # None => cache.key_id = k1
=============================================================================
