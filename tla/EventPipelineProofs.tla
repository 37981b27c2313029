------------------------ MODULE EventPipelineProofs ------------------------
(***************************************************************************)
(* Proofs about the event pipeline, for any events, packs, keys and        *)
(* parsers and any behaviour of the operators.                             *)
(***************************************************************************)
EXTENDS EventPipeline, TLAPS

IsSigned(pack) == pack = Signed(pack.body, pack.key_id, pack.key_id)

(***************************************************************************)
(* What the control state says of the call and of the last outcome.        *)
(***************************************************************************)
CallInv ==
  /\ call.at # "idle" => call.event \in Events
  /\ call.at \in {"verify", "construct"} => call.pack \in Pack
  /\ call.binding => outcome # None /\ ~call.forensic
                       /\ call.event = outcome.event

(***************************************************************************)
(* The cache is empty while a pack is being loaded, and from then on holds *)
(* the one pack every event is parsed by and bound with.                   *)
(***************************************************************************)
PackInv ==
  /\ call.at \in {"load", "verify", "construct"} =>
       cache = None /\ call.event \in Configured
  /\ call.at = "construct" => IsSigned(call.pack)
  /\ cache # None => IsSigned(cache)
  /\ call.at = "resolved" =>
       call.pack = IF call.event \in Configured THEN cache ELSE None
  /\ outcome # None /\ outcome.result = "pack" =>
       /\ outcome.event \in Configured
       /\ outcome.pack # None
       /\ outcome.pack = cache
       /\ outcome.bound => outcome.binding = outcome.pack
  /\ outcome # None /\ outcome.result # "pack" => outcome.pack = None

(***************************************************************************)
(* A forensic call is past the store only with its event preserved.        *)
(***************************************************************************)
EvidenceInv ==
  /\ call.forensic /\ call.at \notin {"idle", "store"} =>
       call.event \in stored
  /\ EvidenceBacked

(***************************************************************************)
(* While no operator interferes, what is being loaded is what the file     *)
(* holds.                                                                  *)
(***************************************************************************)
SteadyInv ==
  /\ steady /\ call.at = "load" => file # Missing
  /\ steady /\ call.at \in {"verify", "construct"} => call.pack = file
  /\ GoodPackResolves

TypeInv == TypeOK /\ CallInv

-----------------------------------------------------------------------------
LEMMA PackTypes ==
  /\ \A b \in Bodies : Unsigned(b) \in Pack
  /\ \A b \in Bodies, by \in KeyIds, key_id \in KeyIds :
       Signed(b, by, key_id) \in Pack
  /\ \A pack \in Pack, b \in Bodies : [pack EXCEPT !.body = b] \in Pack
BY DEF Unsigned, Signed, Pack, Signature

LEMMA IdleType == Idle \in Call
BY DEF Idle, Call

LEMMA TypeInvInit == Init => TypeInv
<1> SUFFICES ASSUME Init  PROVE TypeInv
  OBVIOUS
<1>1. file \in Pack \cup {Missing, Malformed}
  BY PackTypes DEF Init
<1>2. call \in Call
  BY IdleType DEF Init
<1>3. call.at = "idle" /\ ~call.binding
  BY DEF Init, Idle
<1> QED BY <1>1, <1>2, <1>3 DEF Init, TypeInv, TypeOK, CallInv

(***************************************************************************)
(* The three ways a step moves the call: on to the next look at the file   *)
(* system, to the end of resolve(), and out of process().                  *)
(***************************************************************************)
LEMMA AdvanceType ==
  ASSUME TypeInv, call.at # "idle", UNCHANGED outcome,
         NEW at \in {"resolve", "load", "construct"},
         at = "construct" => call.pack \in Pack,
         call' = [call EXCEPT !.at = at]
  PROVE  call' \in Call /\ CallInv'
BY DEF TypeInv, TypeOK, CallInv, Call

LEMMA ResolvedType ==
  ASSUME TypeInv, call.at # "idle", UNCHANGED outcome,
         NEW pack \in Pack \cup {None}, Resolved(pack)
  PROVE  call' \in Call /\ CallInv'
BY DEF TypeInv, TypeOK, CallInv, Call, Resolved

LEMMA FinishType ==
  ASSUME TypeInv, call.at # "idle", NEW result \in Results,
         NEW pack \in Pack \cup {None},
         NEW ids \in {"event", "parser", None}, Finish(result, pack, ids)
  PROVE  call' \in Call /\ CallInv' /\ outcome' \in Outcome
<1>1. call' = Idle
  BY DEF Finish
<1>2. call.event \in Events /\ call.forensic \in BOOLEAN
  BY DEF TypeInv, TypeOK, CallInv, Call
<1>3. outcome' \in Outcome
  BY <1>2, Zenon DEF Finish, Outcome
<1> QED BY <1>1, <1>3, IdleType DEF CallInv, Idle

LEMMA TypeInvStep == TypeInv /\ [Next]_vars => TypeInv'
<1> SUFFICES ASSUME TypeInv, [Next]_vars  PROVE TypeInv'
  OBVIOUS
<1>1. ASSUME NEW e \in Events, NEW forensic \in BOOLEAN,
             ProcessBytes(e) \/ Process(e, forensic)
      PROVE  TypeInv'
  <2>1. call' \in Call /\ CallInv'
    BY <1>1 DEF TypeInv, TypeOK, CallInv, ProcessBytes, Process, Idle, Call
  <2> QED
    BY <1>1, <2>1 DEF TypeInv, TypeOK, ProcessBytes, Process, operatorVars
<1>2. CASE ResolveBinding
  <2>1. outcome \in Outcome /\ outcome # None
    BY <1>2 DEF ResolveBinding, TypeInv, TypeOK
  <2>2. outcome.event \in Events
    BY <2>1 DEF Outcome
  <2>3. call' \in Call /\ CallInv'
    BY <1>2, <2>1, <2>2 DEF CallInv, ResolveBinding, Idle, Call
  <2> QED
    BY <1>2, <2>3 DEF TypeInv, TypeOK, ResolveBinding, operatorVars
<1>3. CASE StoreEvidence
  <2>1. call.at # "idle" /\ call.event \in Events
    BY <1>3 DEF StoreEvidence, TypeInv, CallInv
  <2>2. call' \in Call /\ CallInv' /\ outcome' \in Outcome \cup {None}
    <3>1. CASE call.event \in Decodable
      BY <1>3, <2>1, <3>1, AdvanceType DEF StoreEvidence, TypeInv, TypeOK
    <3>2. CASE call.event \notin Decodable
      BY <1>3, <2>1, <3>2, FinishType DEF StoreEvidence, Results
    <3> QED BY <3>1, <3>2
  <2> QED
    BY <1>3, <2>1, <2>2 DEF StoreEvidence, TypeInv, TypeOK, operatorVars
<1>4. CASE StoreRaises
  <2>1. call' \in Call /\ CallInv' /\ outcome' \in Outcome
    BY <1>4, FinishType DEF StoreRaises, Results
  <2> QED
    BY <1>4, <2>1 DEF StoreRaises, TypeInv, TypeOK, operatorVars
<1>5. CASE Resolve
  <2>1. call' \in Call /\ CallInv'
    BY <1>5, AdvanceType, ResolvedType DEF Resolve, TypeInv, TypeOK
  <2> QED
    BY <1>5, <2>1 DEF Resolve, TypeInv, TypeOK, operatorVars
<1>6. CASE LoadSemanticPack
  <2>1. call' \in Call /\ CallInv'
    <3>1. CASE file \in {Missing, Malformed}
      BY <1>6, <3>1, ResolvedType DEF LoadSemanticPack
    <3>2. CASE file \in Pack
      <4>1. call' = [call EXCEPT !.at = "verify", !.pack = file]
        BY <1>6, <3>2, SentinelAssumption DEF LoadSemanticPack
      <4>2. call \in Call /\ CallInv /\ call.at = "load" /\ outcome' = outcome
        BY <1>6 DEF LoadSemanticPack, TypeInv, TypeOK
      <4> QED
        BY <3>2, <4>1, <4>2 DEF CallInv, Call
    <3> QED BY <3>1, <3>2 DEF TypeInv, TypeOK
  <2> QED
    BY <1>6, <2>1 DEF LoadSemanticPack, TypeInv, TypeOK, operatorVars
<1>7. CASE VerifySignature
  <2>1. call' \in Call /\ CallInv'
    BY <1>7, AdvanceType, ResolvedType DEF VerifySignature, TypeInv, CallInv
  <2> QED
    BY <1>7, <2>1 DEF VerifySignature, TypeInv, TypeOK, operatorVars
<1>8. CASE ConstructRuntime
  <2>1. call.at # "idle" /\ call.pack \in Pack
    BY <1>8 DEF ConstructRuntime, TypeInv, CallInv
  <2>2. call' \in Call /\ CallInv'
    BY <1>8, <2>1, ResolvedType DEF ConstructRuntime
  <2> QED
    BY <1>8, <2>1, <2>2 DEF ConstructRuntime, TypeInv, TypeOK, operatorVars
<1>9. CASE RunPack \/ Tier0 \/ RegistryParser
  <2>1. /\ call.at # "idle" /\ call.pack \in Pack \cup {None}
        /\ \A ids \in {"event", "parser", None} :
             Traced(ids) \in {"event", "parser", None}
    BY <1>9 DEF RunPack, Tier0, RegistryParser, Traced, TypeInv, TypeOK, Call
  <2>2. call' \in Call /\ CallInv' /\ outcome' \in Outcome
    <3>1. CASE RunPack
      BY <2>1, <3>1, FinishType DEF RunPack, Results
    <3>2. CASE Tier0
      BY <2>1, <3>2, FinishType DEF Tier0, Results
    <3>3. CASE RegistryParser
      BY <2>1, <3>3, FinishType DEF RegistryParser, Results
    <3> QED BY <1>9, <3>1, <3>2, <3>3
  <2> QED
    BY <1>9, <2>2
    DEF RunPack, Tier0, RegistryParser, TypeInv, TypeOK, operatorVars
<1>10. CASE BindPack
  <2>1. outcome \in Outcome /\ call.pack \in Pack \cup {None}
    BY <1>10 DEF BindPack, TypeInv, TypeOK, CallInv, Call
  <2>2. outcome' \in Outcome
    BY <1>10, <2>1 DEF BindPack, Outcome
  <2>3. call' \in Call /\ CallInv'
    BY <1>10, IdleType DEF BindPack, CallInv, Idle
  <2> QED
    BY <1>10, <2>2, <2>3 DEF BindPack, TypeInv, TypeOK, operatorVars
<1>11. CASE Restart
  <2>1. call' \in Call /\ CallInv'
    BY <1>11, IdleType DEF Restart, CallInv, Idle
  <2> QED
    BY <1>11, <2>1 DEF Restart, TypeInv, TypeOK, operatorVars
<1>12. CASE Operator
  <2>1. UNCHANGED <<call, outcome>>
    BY <1>12
    DEF Operator, PutFile, ChangeTrust, SignRead, SignOpen, SignWrite,
        SignDies, pipelineVars
  <2>2. CallInv'
    BY <2>1 DEF TypeInv, CallInv
  <2>3. file' \in Pack \cup {Missing, Malformed}
    <3>1. CASE PutFile
      BY <3>1, PackTypes DEF PutFile
    <3>2. CASE SignWrite
      BY <3>2 DEF SignWrite, NotSigning, TypeInv, TypeOK
    <3>3. CASE SignOpen
      BY <3>3 DEF SignOpen
    <3>4. CASE UNCHANGED file
      BY <3>4 DEF TypeInv, TypeOK
    <3> QED
      BY <1>12, <3>1, <3>2, <3>3, <3>4
      DEF Operator, ChangeTrust, SignRead, SignDies
  <2>4. signing' \in [pack : Pack, open : BOOLEAN] \cup {NotSigning}
    <3>1. ASSUME NEW by \in KeyIds, NEW key_id \in KeyIds,
                 SignRead(by, key_id)
          PROVE  signing' \in [pack : Pack, open : BOOLEAN]
      <4>1. Signed(file.body, by, key_id) \in Pack
        BY <3>1, PackTypes DEF SignRead, Pack
      <4> QED BY <3>1, <4>1 DEF SignRead
    <3>2. CASE SignWrite \/ SignDies
      BY <3>2 DEF SignWrite, SignDies
    <3>3. CASE SignOpen
      <4>1. signing \in [pack : Pack, open : BOOLEAN]
        BY <3>3 DEF SignOpen, NotSigning, TypeInv, TypeOK
      <4> QED BY <3>3, <4>1 DEF SignOpen
    <3>4. CASE UNCHANGED signing
      BY <3>4 DEF TypeInv, TypeOK
    <3> QED
      BY <1>12, <3>1, <3>2, <3>3, <3>4 DEF Operator, PutFile, ChangeTrust
  <2> QED
    BY <1>12, <2>1, <2>2, <2>3, <2>4
    DEF Operator, PutFile, ChangeTrust, SignRead, SignOpen, SignWrite,
        SignDies, TypeInv, TypeOK, pipelineVars
<1>13. CASE UNCHANGED vars
  BY <1>13 DEF vars, TypeInv, TypeOK, CallInv
<1> QED
  BY <1>1, <1>2, <1>3, <1>4, <1>5, <1>6, <1>7, <1>8, <1>9, <1>10, <1>11,
     <1>12, <1>13
  DEF Next, Pipeline

(***************************************************************************)
(* Type correctness of the pipeline, its resolver and the signing tool.    *)
(***************************************************************************)
THEOREM PipelineTypeCorrect == Spec => []TypeOK
<1>1. TypeInv => TypeOK
  BY DEF TypeInv
<1> QED BY <1>1, TypeInvInit, TypeInvStep, PTL DEF Spec

-----------------------------------------------------------------------------
LEMMA PackInvStep ==
  TypeInv /\ TypeInv' /\ PackInv /\ [Next]_vars => PackInv'
<1> SUFFICES ASSUME TypeInv, TypeInv', PackInv, [Next]_vars
             PROVE  PackInv'
  OBVIOUS
<1> USE SentinelAssumption
    DEF TypeInv, TypeOK, CallInv, PackInv, operatorVars, pipelineVars,
        Idle, Call
<1>1. ASSUME NEW e \in Events, NEW forensic \in BOOLEAN,
             ProcessBytes(e) \/ Process(e, forensic)
      PROVE  PackInv'
  <2>1. /\ call'.at = "store" \/ call'.at = "resolve"
        /\ call'.at # "store" /\ call'.forensic => call'.event \in stored
        /\ UNCHANGED <<file, trusted, cache, stored, steady, outcome>>
    BY <1>1 DEF ProcessBytes, Process
  <2> QED BY <2>1
<1>2. CASE ResolveBinding
  BY <1>2 DEF ResolveBinding, Outcome
<1>3. CASE StoreEvidence
  <2>1. CASE call.event \in Decodable
    BY <1>3, <2>1 DEF StoreEvidence
  <2>2. CASE call.event \notin Decodable
    BY <1>3, <2>2 DEF StoreEvidence, Finish
  <2> QED BY <2>1, <2>2
<1>4. CASE StoreRaises
  BY <1>4 DEF StoreRaises, Finish, Outcome
<1>5. CASE Resolve
  <2>1. UNCHANGED <<cache, outcome>>
    BY <1>5 DEF Resolve
  <2>2. CASE call.event \notin Configured
    BY <1>5, <2>1, <2>2 DEF Resolve, Resolved
  <2>3. CASE call.event \in Configured /\ cache # None
    BY <1>5, <2>1, <2>3 DEF Resolve, Resolved
  <2>4. CASE call.event \in Configured /\ cache = None
    BY <1>5, <2>1, <2>4 DEF Resolve, Resolved
  <2> QED BY <2>2, <2>3, <2>4
<1>6. CASE LoadSemanticPack
  <2>1. call.at = "load" /\ UNCHANGED <<cache, outcome>>
    BY <1>6 DEF LoadSemanticPack
  <2>2. CASE file \in {Missing, Malformed}
    BY <1>6, <2>1, <2>2 DEF LoadSemanticPack, Resolved
  <2>3. CASE file \notin {Missing, Malformed}
    BY <1>6, <2>1, <2>3 DEF LoadSemanticPack
  <2> QED BY <2>2, <2>3
<1>7. CASE VerifySignature
  BY <1>7 DEF VerifySignature, Resolved, Verifies, IsSigned
<1>8. CASE ConstructRuntime
  <2>1. cache = None /\ call.event \in Configured /\ IsSigned(call.pack)
    BY <1>8 DEF ConstructRuntime
  <2>2. UNCHANGED outcome /\ (outcome # None => outcome.result # "pack")
    BY <1>8, <2>1 DEF ConstructRuntime
  <2>3. /\ call'.at = "resolved" /\ call'.event = call.event
        /\ call'.pack = cache' /\ cache' \in {None, call.pack}
    BY <1>8, <2>1 DEF ConstructRuntime, Resolved
  <2> QED BY <2>1, <2>2, <2>3
<1>9. CASE RunPack
  BY <1>9 DEF RunPack, Finish, Traced, PackRuns, Outcome
<1>10. CASE Tier0
  BY <1>10 DEF Tier0, Finish, Traced, PackRuns, Outcome
<1>11. CASE RegistryParser
  BY <1>11 DEF RegistryParser, Finish, Traced, PackRuns, Outcome
<1>12. CASE BindPack
  BY <1>12 DEF BindPack, Outcome
<1>13. CASE Restart
  BY <1>13 DEF Restart
<1>14. CASE Operator
  BY <1>14 DEF Operator, PutFile, ChangeTrust, SignRead, SignOpen, SignWrite,
       SignDies
<1>15. CASE UNCHANGED vars
  BY <1>15 DEF vars
<1> QED
  BY <1>1, <1>2, <1>3, <1>4, <1>5, <1>6, <1>7, <1>8, <1>9,
     <1>10, <1>11, <1>12, <1>13, <1>14, <1>15
  DEF Next, Pipeline

(***************************************************************************)
(* RunsOnlySignedPacks: nothing that is cached or has parsed an event      *)
(* lacks a signature over exactly its content by the key it names.         *)
(***************************************************************************)
THEOREM SignedPacksOnly == Spec => []RunsOnlySignedPacks
<1>1. Init => PackInv
  BY SentinelAssumption DEF Init, PackInv, Idle
<1>2. TypeInv /\ PackInv => RunsOnlySignedPacks
  BY SentinelAssumption
  DEF TypeInv, TypeOK, PackInv, RunsOnlySignedPacks, IsSigned
<1> QED BY <1>1, <1>2, TypeInvInit, TypeInvStep,
          PackInvStep, PTL DEF Spec

(***************************************************************************)
(* BindingMatchesFields: the pack an event is bound to OCSF with is the    *)
(* one that parsed it, whatever operators did in between.                  *)
(***************************************************************************)
THEOREM BindingSound == Spec => []BindingMatchesFields
<1>1. Init => PackInv
  BY SentinelAssumption DEF Init, PackInv, Idle
<1>2. TypeInv /\ PackInv => BindingMatchesFields
  BY SentinelAssumption
  DEF TypeInv, TypeOK, PackInv, BindingMatchesFields
<1> QED BY <1>1, <1>2, TypeInvInit, TypeInvStep,
          PackInvStep, PTL DEF Spec

-----------------------------------------------------------------------------
\* Resolving a pack changes neither the call's event nor what was stored or returned.
LEMMA ResolvingKeepsCall ==
  ASSUME TypeInv, Resolve \/ LoadSemanticPack \/ VerifySignature \/ ConstructRuntime
  PROVE  /\ call'.event = call.event /\ call'.forensic = call.forensic
         /\ call.at \notin {"idle", "store"} /\ call'.at \notin {"idle", "store"}
         /\ UNCHANGED <<stored, outcome>>
<1>1. call \in Call
  BY DEF TypeInv, TypeOK
<1>2. ASSUME NEW pack, Resolved(pack)
      PROVE  /\ call'.event = call.event /\ call'.forensic = call.forensic
             /\ call'.at = "resolved"
  BY <1>1, <1>2 DEF Resolved, Call
<1>3. CASE Resolve
  BY <1>1, <1>2, <1>3 DEF Resolve, Call
<1>4. CASE LoadSemanticPack
  BY <1>1, <1>2, <1>4 DEF LoadSemanticPack, Call
<1>5. CASE VerifySignature
  BY <1>1, <1>2, <1>5 DEF VerifySignature, Call
<1>6. CASE ConstructRuntime
  BY <1>1, <1>2, <1>6 DEF ConstructRuntime
<1> QED
  BY <1>3, <1>4, <1>5, <1>6

LEMMA EvidenceInvStep ==
  TypeInv /\ TypeInv' /\ EvidenceInv /\ [Next]_vars => EvidenceInv'
<1> SUFFICES ASSUME TypeInv, TypeInv', EvidenceInv, [Next]_vars
             PROVE  EvidenceInv'
  OBVIOUS
<1> USE SentinelAssumption
    DEF TypeInv, TypeOK, CallInv, EvidenceInv, operatorVars, pipelineVars,
        Idle, Call, EvidenceBacked
<1>1. ASSUME NEW e \in Events, NEW forensic \in BOOLEAN,
             ProcessBytes(e) \/ Process(e, forensic)
      PROVE  EvidenceInv'
  <2>1. /\ call'.at = "store" \/ call'.at = "resolve"
        /\ call'.at # "store" /\ call'.forensic => call'.event \in stored
        /\ UNCHANGED <<file, trusted, cache, stored, steady, outcome>>
    <3>1. CASE ProcessBytes(e)
      BY <3>1 DEF ProcessBytes
    <3>2. CASE Process(e, forensic)
      BY <3>2 DEF Process
    <3> QED BY <1>1, <3>1, <3>2
  <2> QED BY <2>1
<1>2. CASE ResolveBinding
  BY <1>2 DEF ResolveBinding, Outcome
<1>3. CASE StoreEvidence
  BY <1>3 DEF StoreEvidence, Finish, Outcome
<1>4. CASE StoreRaises
  BY <1>4 DEF StoreRaises, Finish, Outcome
<1>5. CASE Resolve \/ LoadSemanticPack \/ VerifySignature \/ ConstructRuntime
  BY <1>5, ResolvingKeepsCall
<1>6. CASE RunPack
  BY <1>6 DEF RunPack, Finish, Traced, PackRuns, Outcome
<1>7. CASE Tier0
  BY <1>7 DEF Tier0, Finish, Traced, PackRuns, Outcome
<1>8. CASE RegistryParser
  BY <1>8 DEF RegistryParser, Finish, Traced, PackRuns, Outcome
<1>9. CASE BindPack
  BY <1>9 DEF BindPack, Outcome
<1>10. CASE Restart
  BY <1>10 DEF Restart
<1>11. CASE Operator
  BY <1>11 DEF Operator, PutFile, ChangeTrust, SignRead, SignOpen, SignWrite,
       SignDies
<1>12. CASE UNCHANGED vars
  BY <1>12 DEF vars
<1> QED
  BY <1>1, <1>2, <1>3, <1>4, <1>5, <1>6, <1>7, <1>8, <1>9, <1>10, <1>11, <1>12
  DEF Next, Pipeline

(***************************************************************************)
(* EvidenceBacked: process_bytes() preserves before anything can fail, and *)
(* every route ends with the identifiers of the evidence.                  *)
(***************************************************************************)
THEOREM AlwaysEvidenceBacked == Spec => []EvidenceBacked
<1>1. Init => EvidenceInv
  BY SentinelAssumption DEF Init, EvidenceInv, EvidenceBacked, Idle
<1>2. TypeInv /\ EvidenceInv => EvidenceBacked
  BY SentinelAssumption
  DEF TypeInv, TypeOK, EvidenceInv, EvidenceBacked
<1> QED BY <1>1, <1>2, TypeInvInit, TypeInvStep,
          EvidenceInvStep, PTL DEF Spec

-----------------------------------------------------------------------------
LEMMA SteadyInvStep ==
  TypeInv /\ TypeInv' /\ SteadyInv /\ [Next]_vars => SteadyInv'
<1> SUFFICES ASSUME TypeInv, TypeInv', SteadyInv, [Next]_vars
             PROVE  SteadyInv'
  OBVIOUS
<1> USE SentinelAssumption
    DEF TypeInv, TypeOK, CallInv, SteadyInv, operatorVars, pipelineVars,
        Idle, Call, GoodPackResolves
<1>1. ASSUME NEW e \in Events, NEW forensic \in BOOLEAN,
             ProcessBytes(e) \/ Process(e, forensic)
      PROVE  SteadyInv'
  <2>1. /\ call'.at = "store" \/ call'.at = "resolve"
        /\ call'.at # "store" /\ call'.forensic => call'.event \in stored
        /\ UNCHANGED <<file, trusted, cache, stored, steady, outcome>>
    BY <1>1 DEF ProcessBytes, Process
  <2> QED BY <2>1 DEF Verifies
<1>2. CASE ResolveBinding
  BY <1>2 DEF ResolveBinding, Verifies
<1>3. CASE StoreEvidence
  BY <1>3 DEF StoreEvidence, Finish, Verifies
<1>4. CASE StoreRaises
  <2>1. call'.at = "idle"
    BY <1>4 DEF StoreRaises, Finish
  <2> QED BY <2>1
<1>5. CASE Resolve
  <2>1. /\ call.at = "resolve" /\ call'.at \in {"resolved", "load"}
        /\ call'.event = call.event /\ UNCHANGED <<file, trusted>>
    BY <1>5 DEF Resolve, Resolved
  <2>2. CASE call.event \notin Configured
    BY <1>5, <2>1, <2>2 DEF Resolve, Resolved
  <2>3. CASE call.event \in Configured /\ cache # None
    BY <1>5, <2>1, <2>3 DEF Resolve, Resolved
  <2>4. CASE call.event \in Configured /\ cache = None
    BY <1>5, <2>1, <2>4 DEF Resolve, Resolved
  <2> QED BY <2>2, <2>3, <2>4
<1>6. CASE LoadSemanticPack
  BY <1>6 DEF LoadSemanticPack, Resolved, Verifies
<1>7. CASE VerifySignature
  BY <1>7 DEF VerifySignature, Resolved, Verifies
<1>8. CASE ConstructRuntime
  <2>1. /\ call.at = "construct" /\ call'.at = "resolved"
        /\ call'.pack = call.pack \/ ~Verifies(call.pack)
        /\ UNCHANGED <<file, trusted, steady>>
    BY <1>8 DEF ConstructRuntime, Resolved
  <2> QED BY <2>1 DEF Verifies
<1>9. CASE RunPack
  BY <1>9 DEF RunPack, Finish, Traced, PackRuns, Verifies
<1>10. CASE Tier0
  BY <1>10 DEF Tier0, Finish, Traced, PackRuns, Verifies
<1>11. CASE RegistryParser
  BY <1>11 DEF RegistryParser, Finish, Traced, PackRuns, Verifies
<1>12. CASE BindPack
  BY <1>12 DEF BindPack, Verifies
<1>13. CASE Restart
  BY <1>13 DEF Restart, Verifies
<1>14. CASE Operator
  BY <1>14 DEF Operator, PutFile, ChangeTrust, SignRead, SignOpen, SignWrite,
       SignDies, Verifies
<1>15. CASE UNCHANGED vars
  BY <1>15 DEF vars, Verifies
<1> QED
  BY <1>1, <1>2, <1>3, <1>4, <1>5, <1>6, <1>7, <1>8, <1>9,
     <1>10, <1>11, <1>12, <1>13, <1>14, <1>15
  DEF Next, Pipeline

(***************************************************************************)
(* GoodPackResolves: a failed load leaves nothing behind that could keep a *)
(* good pack from being used.                                              *)
(***************************************************************************)
THEOREM GoodPackAlwaysResolves == Spec => []GoodPackResolves
<1>1. Init => SteadyInv
  BY SentinelAssumption DEF Init, SteadyInv, GoodPackResolves, Idle
<1>2. TypeInv /\ SteadyInv => GoodPackResolves
  BY SentinelAssumption
  DEF TypeInv, TypeOK, SteadyInv, GoodPackResolves
<1> QED BY <1>1, <1>2, TypeInvInit, TypeInvStep,
          SteadyInvStep, PTL DEF Spec

(***************************************************************************)
(* FallbackUnchanged: whatever becomes of a pack, an event without one is  *)
(* parsed, or refused, as it was before there were packs.                  *)
(***************************************************************************)
THEOREM FallbackAsBefore == Spec => []FallbackUnchanged
<1>1. Init => FallbackUnchanged
  BY DEF Init, FallbackUnchanged
<1>2. TypeInv /\ FallbackUnchanged /\ [Next]_vars => FallbackUnchanged'
  <2> SUFFICES ASSUME TypeInv, FallbackUnchanged, [Next]_vars
               PROVE  FallbackUnchanged'
    OBVIOUS
  <2> USE DEF FallbackUnchanged
  <2>1. CASE UNCHANGED outcome
    BY <2>1
  <2>2. CASE StoreEvidence
    BY <2>2 DEF StoreEvidence, Finish
  <2>3. CASE StoreRaises \/ RunPack
    BY <2>3 DEF StoreRaises, RunPack, Finish
  <2>4. CASE Tier0
    BY <2>4 DEF Tier0, Finish
  <2>5. CASE RegistryParser
    BY <2>5 DEF RegistryParser, Finish
  <2>6. CASE BindPack
    BY <2>6 DEF BindPack, TypeInv, TypeOK, CallInv, Outcome
  <2>7. CASE Restart
    BY <2>7 DEF Restart
  <2> QED
    BY <2>1, <2>2, <2>3, <2>4, <2>5, <2>6, <2>7
    DEF Next, Pipeline, Operator, vars, pipelineVars, ProcessBytes, Process,
        ResolveBinding, Resolve, LoadSemanticPack, VerifySignature,
        ConstructRuntime, PutFile, ChangeTrust, SignRead, SignOpen, SignWrite,
        SignDies
<1> QED BY <1>1, <1>2, TypeInvInit, TypeInvStep, PTL DEF Spec

(***************************************************************************)
(* TrustedWhenCached: what enters the cache is verified under the keys of  *)
(* that very moment.                                                       *)
(***************************************************************************)
THEOREM CachedUnderTrust == Spec => TrustedWhenCached
<1>1. [Next]_vars => (cache' \notin {cache, None} => cache'.key_id \in trusted)
  BY DEF Next, Pipeline, Operator, vars, operatorVars, pipelineVars,
         ProcessBytes, Process, ResolveBinding, StoreEvidence, StoreRaises,
         Resolve, LoadSemanticPack, VerifySignature, ConstructRuntime,
         Verifies, RunPack, Tier0, RegistryParser, BindPack, Restart,
         PutFile, ChangeTrust, SignRead, SignOpen, SignWrite, SignDies
<1> QED BY <1>1, PTL DEF Spec, TrustedWhenCached
=============================================================================
