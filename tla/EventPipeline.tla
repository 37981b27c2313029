--------------------------- MODULE EventPipeline ---------------------------
(***************************************************************************)
(* ProcessingPipeline: the route of one event from its bytes to a parsed   *)
(* event.  The bytes are preserved first, then a semantic pack is tried,   *)
(* then the parser the detection chose, then Tier 0.                       *)
(*                                                                         *)
(* The pack is a file that an operator deploys, edits and signs in place,  *)
(* and the keys it is trusted under are files too; both change while the   *)
(* pipeline runs.  One configured (vendor, product, family) is modelled:   *)
(* the resolver keeps a path and a cache entry per identity and nothing    *)
(* that two identities share.  EvidenceStore has the steps of store().     *)
(***************************************************************************)
CONSTANTS
  Events,       \* pieces of raw bytes the callers hand in
  Decodable,    \* the events whose bytes decode
  Configured,   \* the events detected as the configured identity
  Parsers,      \* parser_ids the detection can choose
  Registered,   \* the parser_ids in the ParserRegistry
  ParserOf,     \* the parser_id the detection chooses, or None
  ParserFails,  \* the events whose parser raises
  Bodies,       \* what packs declare: syntax, semantics and binding
  Applies,      \* the <<body, event>> whose runtime run() does not raise
  KeyIds,       \* key_ids, each naming one Ed25519 key pair
  Missing,      \* no pack file
  Malformed,    \* a pack file that is not JSON, or not a SemanticPack
  None

ASSUME PipelineAssumption ==
  /\ Decodable \subseteq Events
  /\ Configured \subseteq Events
  /\ Registered \subseteq Parsers
  /\ ParserOf \in [Events -> Parsers \cup {None}]
  /\ ParserFails \subseteq Events
  /\ Applies \subseteq Bodies \X Events
  /\ None \notin Parsers \cup KeyIds

(***************************************************************************)
(* A signature is made by the private key of key_id "by" over the          *)
(* canonical bytes of a pack: its body and its key_id.                     *)
(***************************************************************************)
Signature == [by : KeyIds, body : Bodies, key_id : KeyIds]

Pack == [body : Bodies, key_id : KeyIds \cup {None},
         value : Signature \cup {None}]

ASSUME SentinelAssumption ==
  /\ {None, Missing, Malformed} \cap Pack = {}
  /\ Missing # Malformed

Unsigned(body) == [body |-> body, key_id |-> None, value |-> None]

Signed(body, by, key_id) ==
  [body |-> body, key_id |-> key_id,
   value |-> [by |-> by, body |-> body, key_id |-> key_id]]

VARIABLES
  file,      \* the pack file
  trusted,   \* the key_ids with a public key in the trusted-key directory
  signing,   \* sign_semantic_pack_file between its read and its last write
  cache,     \* SemanticPackResolver._runtime_cache
  stored,    \* the events in the evidence store
  call,      \* the pipeline's control state
  steady,    \* history: file and trusted as they were when resolve() began
  outcome    \* what the last call returned or raised

vars == <<file, trusted, signing, cache, stored, call, steady, outcome>>

operatorVars == <<file, trusted, signing>>
pipelineVars == <<cache, stored, call, outcome>>

Results == {"pack", "parser", "tier0", "parser_error", "no_parser",
            "undecodable", "store_error"}

(***************************************************************************)
(* The u_id and raw_id of parsed fields: those of the RawEvent ("event"),  *)
(* the parser's own ("parser"), or None.                                   *)
(***************************************************************************)
Outcome == [event : Events, forensic : BOOLEAN, result : Results,
            pack : Pack \cup {None}, ids : {"event", "parser", None},
            bound : BOOLEAN, binding : Pack \cup {None}]

Call == [at : {"idle", "store", "resolve", "load", "verify", "construct",
               "resolved"},
         event : Events \cup {None}, forensic : BOOLEAN,
         pack : Pack \cup {None}, binding : BOOLEAN]

NotSigning == [pack |-> None, open |-> FALSE]

TypeOK ==
  /\ file \in Pack \cup {Missing, Malformed}
  /\ trusted \subseteq KeyIds
  /\ signing \in [pack : Pack, open : BOOLEAN] \cup {NotSigning}
  /\ cache \in Pack \cup {None}
  /\ stored \subseteq Events
  /\ call \in Call
  /\ steady \in BOOLEAN
  /\ outcome \in Outcome \cup {None}

Idle == [at |-> "idle", event |-> None, forensic |-> FALSE, pack |-> None,
         binding |-> FALSE]

Init ==
  /\ file \in {Missing} \cup {Unsigned(b) : b \in Bodies}
  /\ trusted \in SUBSET KeyIds
  /\ signing = NotSigning
  /\ cache = None
  /\ stored = {}
  /\ call = Idle
  /\ steady = FALSE
  /\ outcome = None

-----------------------------------------------------------------------------
\* Mutant: any signature will do, its bytes are not checked.
VerifiesKeyOnly(pack) == pack.key_id \in trusted /\ pack.value # None

(***************************************************************************)
(* verify_semantic_pack_signature: the key is looked up under the key_id   *)
(* the pack names, and must have signed these canonical bytes.             *)
(***************************************************************************)
Verifies(pack) ==
  /\ pack.key_id \in trusted
  /\ pack = Signed(pack.body, pack.key_id, pack.key_id)

(***************************************************************************)
(* A call begins.  process_bytes() stores before anything else; process()  *)
(* is given a RawEvent, with the identifiers of evidence only if its       *)
(* caller stored it.  Then the caller may ask the resolver once more for   *)
(* the pack, to bind the parsed event to OCSF.                             *)
(***************************************************************************)
ProcessBytes(e) ==
  /\ call.at = "idle"
  /\ call' = [Idle EXCEPT !.at = "store", !.event = e, !.forensic = TRUE]
  /\ UNCHANGED <<operatorVars, cache, stored, steady, outcome>>

Process(e, forensic) ==
  /\ call.at = "idle"
  /\ e \in Decodable
  /\ forensic => e \in stored
  /\ call' = [Idle EXCEPT !.at = "resolve", !.event = e, !.forensic = forensic]
  /\ UNCHANGED <<operatorVars, cache, stored, steady, outcome>>

ResolveBinding ==
  /\ call.at = "idle"
  /\ outcome # None
  /\ outcome.result \in {"pack", "parser", "tier0"}
  /\ call' = [Idle EXCEPT !.at = "resolve", !.event = outcome.event,
                          !.binding = TRUE]
  /\ UNCHANGED <<operatorVars, cache, stored, steady, outcome>>

Finish(result, pack, ids) ==
  /\ outcome' = [event |-> call.event, forensic |-> call.forensic,
                 result |-> result, pack |-> pack, ids |-> ids,
                 bound |-> FALSE, binding |-> None]
  /\ call' = Idle

\* Mutant: the bytes are decoded before they are stored.
StoreDecoded ==
  /\ call.at = "store"
  /\ IF call.event \in Decodable
       THEN /\ stored' = stored \cup {call.event}
            /\ call' = [call EXCEPT !.at = "resolve"]
            /\ UNCHANGED outcome
       ELSE /\ Finish("undecodable", None, None)
            /\ UNCHANGED stored
  /\ UNCHANGED <<operatorVars, cache, steady>>

(***************************************************************************)
(* Store, then decode: undecodable bytes are preserved and the call        *)
(* raises.                                                                 *)
(***************************************************************************)
StoreEvidence ==
  /\ call.at = "store"
  /\ stored' = stored \cup {call.event}
  /\ IF call.event \in Decodable
       THEN /\ call' = [call EXCEPT !.at = "resolve"]
            /\ UNCHANGED outcome
       ELSE Finish("undecodable", None, None)
  /\ UNCHANGED <<operatorVars, cache, steady>>

StoreRaises ==
  /\ call.at = "store"
  /\ Finish("store_error", None, None)
  /\ UNCHANGED <<operatorVars, cache, stored, steady>>

-----------------------------------------------------------------------------
(***************************************************************************)
(* SemanticPackResolver.resolve: each look at the file system is a step.   *)
(* A pack that cannot be loaded is no error and is not remembered.         *)
(***************************************************************************)
Resolved(pack) == call' = [call EXCEPT !.at = "resolved", !.pack = pack]

\* Mutant: the file is loaded for every event.
ResolveUncached ==
  /\ call.at = "resolve"
  /\ steady' = TRUE
  /\ IF call.event \notin Configured \/ file = Missing
       THEN Resolved(None)
       ELSE call' = [call EXCEPT !.at = "load"]
  /\ UNCHANGED <<operatorVars, cache, stored, outcome>>

\* Mutant: a cached pack that is no longer the file's gives no result.
ResolveOnlyCurrent ==
  /\ call.at = "resolve"
  /\ steady' = TRUE
  /\ CASE call.event \notin Configured -> Resolved(None)
       [] call.event \in Configured /\ cache # None ->
            Resolved(IF cache = file THEN cache ELSE None)
       [] call.event \in Configured /\ cache = None /\ file = Missing ->
            Resolved(None)
       [] OTHER -> call' = [call EXCEPT !.at = "load"]
  /\ UNCHANGED <<operatorVars, cache, stored, outcome>>

Resolve ==
  /\ call.at = "resolve"
  /\ steady' = TRUE
  /\ CASE call.event \notin Configured -> Resolved(None)
       [] call.event \in Configured /\ cache # None -> Resolved(cache)
       [] call.event \in Configured /\ cache = None /\ file = Missing ->
            Resolved(None)
       [] OTHER -> call' = [call EXCEPT !.at = "load"]
  /\ UNCHANGED <<operatorVars, cache, stored, outcome>>

\* Mutant: what is read is not validated.
LoadUnvalidated ==
  /\ call.at = "load"
  /\ IF file = Missing
       THEN Resolved(None)
       ELSE call' = [call EXCEPT !.at = "verify", !.pack = file]
  /\ UNCHANGED <<operatorVars, cache, stored, steady, outcome>>

LoadSemanticPack ==
  /\ call.at = "load"
  /\ IF file \in {Missing, Malformed}
       THEN Resolved(None)
       ELSE call' = [call EXCEPT !.at = "verify", !.pack = file]
  /\ UNCHANGED <<operatorVars, cache, stored, steady, outcome>>

VerifySignature ==
  /\ call.at = "verify"
  /\ IF Verifies(call.pack)
       THEN call' = [call EXCEPT !.at = "construct"]
       ELSE Resolved(None)
  /\ UNCHANGED <<operatorVars, cache, stored, steady, outcome>>

\* Mutant: the runtime relies on the loader's verification.
ConstructUnverified ==
  /\ call.at = "construct"
  /\ cache' = call.pack
  /\ Resolved(call.pack)
  /\ UNCHANGED <<operatorVars, stored, steady, outcome>>

(***************************************************************************)
(* SemanticPackRuntime() verifies again before the runtime is cached.      *)
(***************************************************************************)
ConstructRuntime ==
  /\ call.at = "construct"
  /\ IF Verifies(call.pack)
       THEN /\ cache' = call.pack
            /\ Resolved(call.pack)
       ELSE /\ Resolved(None)
            /\ UNCHANGED cache
  /\ UNCHANGED <<operatorVars, stored, steady, outcome>>

-----------------------------------------------------------------------------
(***************************************************************************)
(* The end of process(): an event that came through the evidence store     *)
(* gets its identifiers whatever the route left in the fields.             *)
(***************************************************************************)
Traced(ids) == IF call.forensic THEN "event" ELSE ids

PackRuns == call.pack # None /\ <<call.pack.body, call.event>> \in Applies

RunPack ==
  /\ call.at = "resolved" /\ ~call.binding
  /\ PackRuns
  /\ Finish("pack", call.pack, Traced("event"))
  /\ UNCHANGED <<operatorVars, cache, stored, steady>>

Tier0 ==
  /\ call.at = "resolved" /\ ~call.binding
  /\ ~PackRuns
  /\ ParserOf[call.event] = None
  /\ Finish("tier0", None, Traced(None))
  /\ UNCHANGED <<operatorVars, cache, stored, steady>>

\* Mutant: a parser that is not registered is treated as no parser.
RegistryOrTier0 ==
  /\ call.at = "resolved" /\ ~call.binding
  /\ ~PackRuns
  /\ ParserOf[call.event] # None
  /\ CASE ParserOf[call.event] \notin Registered ->
            Finish("tier0", None, Traced(None))
       [] ParserOf[call.event] \in Registered /\ call.event \in ParserFails ->
            Finish("parser_error", None, None)
       [] OTHER -> Finish("parser", None, Traced("parser"))
  /\ UNCHANGED <<operatorVars, cache, stored, steady>>

RegistryParser ==
  /\ call.at = "resolved" /\ ~call.binding
  /\ ~PackRuns
  /\ ParserOf[call.event] # None
  /\ CASE ParserOf[call.event] \notin Registered ->
            Finish("no_parser", None, None)
       [] ParserOf[call.event] \in Registered /\ call.event \in ParserFails ->
            Finish("parser_error", None, None)
       [] OTHER -> Finish("parser", None, Traced("parser"))
  /\ UNCHANGED <<operatorVars, cache, stored, steady>>

BindPack ==
  /\ call.at = "resolved" /\ call.binding
  /\ outcome' = [outcome EXCEPT !.bound = TRUE, !.binding = call.pack]
  /\ call' = Idle
  /\ UNCHANGED <<operatorVars, cache, stored, steady>>

(***************************************************************************)
(* The process ends, in whatever it is doing, and is started again.        *)
(***************************************************************************)
Restart ==
  /\ cache' = None
  /\ call' = Idle
  /\ outcome' = None
  /\ UNCHANGED <<operatorVars, stored, steady>>

-----------------------------------------------------------------------------
(***************************************************************************)
(* Operators, at any moment.  PutFile: a pack is deployed, unsigned or     *)
(* signed elsewhere, the present one is edited and keeps its signature     *)
(* metadata, or the file is removed or spoilt.                             *)
(***************************************************************************)
PutFile ==
  /\ ~signing.open
  /\ \/ file' \in {Missing, Malformed}
     \/ \E b \in Bodies :
          \/ file' = Unsigned(b)
          \/ \E k \in KeyIds : file' = Signed(b, k, k)
          \/ file \in Pack /\ file' = [file EXCEPT !.body = b]
  /\ file' # file
  /\ steady' = FALSE
  /\ UNCHANGED <<trusted, signing, pipelineVars>>

ChangeTrust(k) ==
  /\ trusted' = IF k \in trusted THEN trusted \ {k} ELSE trusted \cup {k}
  /\ steady' = FALSE
  /\ UNCHANGED <<file, signing, pipelineVars>>

(***************************************************************************)
(* sign_semantic_pack_file with the private key of "by" and a key_id: it   *)
(* reads the pack, opens the same file for writing (which empties it) and  *)
(* writes.  It can die in between.                                         *)
(***************************************************************************)
SignRead(by, key_id) ==
  /\ signing = NotSigning
  /\ file \in Pack
  /\ signing' = [pack |-> Signed(file.body, by, key_id), open |-> FALSE]
  /\ UNCHANGED <<file, trusted, steady, pipelineVars>>

SignOpen ==
  /\ signing.pack # None /\ ~signing.open
  /\ file' = Malformed
  /\ signing' = [signing EXCEPT !.open = TRUE]
  /\ steady' = FALSE
  /\ UNCHANGED <<trusted, pipelineVars>>

SignWrite ==
  /\ signing.open
  /\ file' = signing.pack
  /\ signing' = NotSigning
  /\ steady' = FALSE
  /\ UNCHANGED <<trusted, pipelineVars>>

SignDies ==
  /\ signing # NotSigning
  /\ signing' = NotSigning
  /\ UNCHANGED <<file, trusted, steady, pipelineVars>>

Pipeline ==
  \/ \E e \in Events : ProcessBytes(e)
  \/ \E e \in Events, forensic \in BOOLEAN : Process(e, forensic)
  \/ ResolveBinding \/ StoreEvidence \/ StoreRaises
  \/ Resolve \/ LoadSemanticPack \/ VerifySignature \/ ConstructRuntime
  \/ RunPack \/ Tier0 \/ RegistryParser \/ BindPack
  \/ Restart

Operator ==
  \/ PutFile
  \/ \E k \in KeyIds : ChangeTrust(k)
  \/ \E by, key_id \in KeyIds : SignRead(by, key_id)
  \/ SignOpen \/ SignWrite \/ SignDies

Next == Pipeline \/ Operator

Spec == Init /\ [][Next]_vars
-----------------------------------------------------------------------------
(***************************************************************************)
(* No pack runs, and none is cached, unless the key it names signed it in  *)
(* exactly the form that runs: an edit, a torn write, or a file that       *)
(* changes between the reads never gets a body past the signature.         *)
(***************************************************************************)
RunsOnlySignedPacks ==
  \A pack \in {cache} \cup {o.pack : o \in {outcome} \ {None}} :
    pack # None => pack = Signed(pack.body, pack.key_id, pack.key_id)

(***************************************************************************)
(* A pack enters the cache only while its key is trusted, although the     *)
(* key may go between the loader's verification and the runtime's.         *)
(***************************************************************************)
TrustedWhenCached ==
  [][cache' \notin {cache, None} => cache'.key_id \in trusted]_vars

(***************************************************************************)
(* Whatever process_bytes() returns or raises once the store has answered, *)
(* the bytes are preserved; and what it returns carries the identifiers of *)
(* the evidence, on every route.                                           *)
(***************************************************************************)
EvidenceBacked ==
  outcome # None /\ outcome.forensic /\ outcome.result # "store_error" =>
    /\ outcome.event \in stored
    /\ outcome.result \in {"pack", "parser", "tier0"} => outcome.ids = "event"

(***************************************************************************)
(* An event that a pack parsed is bound to OCSF by that very pack, though  *)
(* the caller resolves it a second time and operators may have replaced,   *)
(* removed or distrusted the file in between.                              *)
(***************************************************************************)
BindingMatchesFields ==
  outcome # None /\ outcome.result = "pack" =>
    /\ cache = outcome.pack
    /\ outcome.bound => outcome.binding = outcome.pack

(***************************************************************************)
(* Trouble with a pack never changes what happens to an event without it:  *)
(* Tier 0 only for events no parser was chosen for, an error only where    *)
(* the registry has no such parser or the parser itself raises.            *)
(***************************************************************************)
FallbackUnchanged ==
  outcome # None =>
    /\ outcome.result = "tier0" => ParserOf[outcome.event] = None
    /\ outcome.result \in {"parser", "parser_error"} =>
         ParserOf[outcome.event] \in Registered
    /\ outcome.result = "no_parser" =>
         ParserOf[outcome.event] \notin Registered \cup {None}
    /\ outcome.result = "parser_error" => outcome.event \in ParserFails

(***************************************************************************)
(* Failing to load a pack is never remembered: once a trusted pack is in   *)
(* place, and stays while resolve() runs, resolve() returns a pack.        *)
(***************************************************************************)
GoodPackResolves ==
  call.at = "resolved" /\ steady /\ call.event \in Configured
    /\ file \in Pack /\ Verifies(file) => call.pack # None

(***************************************************************************)
(* docs/fortigate_semantic_pack.md: "If the pack is absent, malformed,     *)
(* unsigned, untrusted, [...] the resolver returns no result".             *)
(***************************************************************************)
BadPackResolvesToNothing ==
  call.at = "resolved" /\ steady /\ call.pack # None =>
    file \in Pack /\ Verifies(file)
=============================================================================
