--------------------------- MODULE EvidenceAudit ---------------------------
(***************************************************************************)
(* What verify() shows about an evidence directory that something other    *)
(* than store() has changed: bit rot, a partial restore, an edit.          *)
(*                                                                         *)
(* Every verifier in the repository (cli/main.py, frontend/app.py, the     *)
(* traceability demo) constructs a store and calls verify() once, so a     *)
(* verification always reads the manifest and the blobs as they are now.   *)
(* Changes that leave a line unreadable are in EvidenceStore; here every   *)
(* line still parses.  Damage does not compute SHA-256: a changed hash     *)
(* field holds another hash that is around, or one that seals nothing.     *)
(***************************************************************************)
EXTENDS Naturals, Sequences

CONSTANTS
  EventIds,        \* event identifiers; blobs/<raw_id>.bin is named by one
  Digests,         \* SHA-256 digests of raw bytes
  DigestOf,        \* the digest an event identifier is derived from
  Others,          \* stored_at, transport, identity_context, metadata
  Alterable,       \* what damage may hit, see Variants and Damage
  MaxRecords,      \* bound: lines of the manifest
  MaxAlterations,  \* bound: alterations in one behaviour
  Junk             \* stands in a hash that seals no record

ASSUME AuditAssumption ==
  /\ DigestOf \in [EventIds -> Digests]
  /\ MaxRecords \in Nat
  /\ MaxAlterations \in Nat

(***************************************************************************)
(* What the chain hashes of an event: event_id (with raw_id, derived from  *)
(* it) and raw_sha256.  Each can be damaged without the other.             *)
(***************************************************************************)
Identity == [event_id : EventIds, raw_sha256 : Digests]

Chain == INSTANCE EvidenceChain WITH Events <- Identity, Metas <- Others

ASSUME JunkAssumption == Junk \notin Chain!Material

Garbage == <<Junk>>
AnyHash == Seq(Chain!Material \cup {Junk})

(***************************************************************************)
(* A manifest line: the record the chain hash commits to, and the two      *)
(* fields it does not commit to (compute_chain_hash hashes the constant    *)
(* TRACEABILITY_VERSION, not the record's version).                        *)
(***************************************************************************)
Sealed == [event : Identity, meta : Others, chain_index : Nat,
           previous_chain_hash : AnyHash, chain_hash : AnyHash]

ManifestLine == [sealed : Sealed, version : {"1", "altered"},
                 blob_file : EventIds]

Absent == "absent"

VARIABLES
  lines,        \* the manifest
  blobs,        \* digest of what each blob file holds now, or Absent
  written,      \* history: the lines store() has written
  intact,       \* history: number of leading lines never altered
  alterations   \* number of alterations so far

vars == <<lines, blobs, written, intact, alterations>>

TypeOK ==
  /\ lines \in Seq(ManifestLine)
  /\ blobs \in [EventIds -> Digests \cup {Absent}]
  /\ written \subseteq ManifestLine
  /\ intact \in 0 .. Len(lines)
  /\ alterations \in 0 .. MaxAlterations

Init ==
  /\ lines = << >>
  /\ blobs = [e \in EventIds |-> Absent]
  /\ written = {}
  /\ intact = 0
  /\ alterations = 0

Records == [i \in 1 .. Len(lines) |-> lines[i].sealed]

EventId(i) == lines[i].sealed.event.event_id

-----------------------------------------------------------------------------
\* Mutant: the blob is named by the digest of its bytes.
NewLineByDigest(e, other) ==
  [sealed    |-> Chain!NextRecord(Records,
                   [event_id |-> e, raw_sha256 |-> DigestOf[e]], other),
   version   |-> "1",
   blob_file |-> DigestOf[e]]

(***************************************************************************)
(* A whole store() of a new event by a store that has just been opened     *)
(* (EvidenceStore has its steps).  It trusts the manifest it loaded.       *)
(***************************************************************************)
NewLine(e, other) ==
  [sealed    |-> Chain!NextRecord(Records,
                   [event_id |-> e, raw_sha256 |-> DigestOf[e]], other),
   version   |-> "1",
   blob_file |-> e]

Store(e, other) ==
  /\ Len(lines) < MaxRecords
  /\ \A i \in 1 .. Len(lines) : EventId(i) # e
  /\ lines' = Append(lines, NewLine(e, other))
  /\ blobs' = [blobs EXCEPT ![e] = DigestOf[e]]
  /\ written' = written \cup {NewLine(e, other)}
  /\ intact' = IF intact = Len(lines) THEN intact + 1 ELSE intact
  /\ UNCHANGED alterations

(***************************************************************************)
(* The hashes damage can put in a field.                                   *)
(***************************************************************************)
HashesAround ==
  {lines[i].sealed.chain_hash : i \in 1 .. Len(lines)}
    \cup {Garbage, Chain!GENESIS_CHAIN_HASH}

Variants(line, field) ==
  CASE field = "event_id" ->
         {[line EXCEPT !.sealed.event.event_id = e] : e \in EventIds}
    [] field = "raw_sha256" ->
         {[line EXCEPT !.sealed.event.raw_sha256 = d] : d \in Digests}
    [] field = "meta" ->
         {[line EXCEPT !.sealed.meta = o] : o \in Others}
    [] field = "chain_index" ->
         {[line EXCEPT !.sealed.chain_index = n] : n \in 0 .. MaxRecords}
    [] field = "previous_chain_hash" ->
         {[line EXCEPT !.sealed.previous_chain_hash = h] : h \in HashesAround}
    [] field = "chain_hash" ->
         {[line EXCEPT !.sealed.chain_hash = h] : h \in HashesAround}
    [] field = "version" -> {[line EXCEPT !.version = "altered"]}
    [] field = "blob_file" -> {[line EXCEPT !.blob_file = e] : e \in EventIds}
    [] OTHER -> {}

Shorter(n) == IF intact < n THEN intact ELSE n

Alteration ==
  /\ alterations < MaxAlterations
  /\ alterations' = alterations + 1

AlterField(i, field) ==
  /\ Alteration
  /\ \E line \in Variants(lines[i], field) :
       /\ line # lines[i]
       /\ lines' = [lines EXCEPT ![i] = line]
  /\ intact' = Shorter(i - 1)
  /\ UNCHANGED <<blobs, written>>

DropLine(i) ==
  /\ "drop" \in Alterable
  /\ Alteration
  /\ lines' = [j \in 1 .. Len(lines) - 1 |->
                 IF j < i THEN lines[j] ELSE lines[j + 1]]
  /\ intact' = Shorter(i - 1)
  /\ UNCHANGED <<blobs, written>>

(***************************************************************************)
(* A line appears a second time, at the end: a merge of two backups.       *)
(***************************************************************************)
RepeatLine(i) ==
  /\ "repeat" \in Alterable
  /\ Len(lines) < MaxRecords
  /\ Alteration
  /\ lines' = Append(lines, lines[i])
  /\ UNCHANGED <<blobs, written, intact>>

(***************************************************************************)
(* A line comes back as it was once written: a partial restore.            *)
(***************************************************************************)
RestoreLine(i) ==
  /\ "restore" \in Alterable
  /\ Alteration
  /\ \E line \in written :
       /\ line # lines[i]
       /\ lines' = [lines EXCEPT ![i] = line]
  /\ intact' = Shorter(i - 1)
  /\ UNCHANGED <<blobs, written>>

AlterBlob(e, content) ==
  /\ "blob" \in Alterable
  /\ blobs[e] \notin {Absent, content}
  /\ Alteration
  /\ blobs' = [blobs EXCEPT ![e] = content]
  /\ UNCHANGED <<lines, written, intact>>

Damage ==
  \/ \E i \in 1 .. Len(lines) :
       \/ \E field \in Alterable : AlterField(i, field)
       \/ DropLine(i)
       \/ RepeatLine(i)
       \/ RestoreLine(i)
  \/ \E e \in EventIds, content \in Digests \cup {Absent} : AlterBlob(e, content)

Next ==
  \/ \E e \in EventIds, other \in Others : Store(e, other)
  \/ Damage

Spec == Init /\ [][Next]_vars

-----------------------------------------------------------------------------
(***************************************************************************)
(* verify(event_id) of a store opened now: the last line with that         *)
(* identifier is checked, against the file its blob_file names and along   *)
(* the chain as far as its own chain_index says.                           *)
(***************************************************************************)
Places(e) == {i \in 1 .. Len(lines) : EventId(i) = e}

Place(e) == CHOOSE i \in Places(e) : \A j \in Places(e) : j <= i

Passes(e) ==
  /\ Places(e) # {}
  /\ LET line == lines[Place(e)] IN
       /\ blobs[line.blob_file] = line.sealed.event.raw_sha256
       /\ Chain!VerifyChainThrough(Records, line.sealed.chain_index)

(***************************************************************************)
(* The walk of verify(e) reaches the line it verifies.                     *)
(***************************************************************************)
Covered(e) == lines[Place(e)].sealed.chain_index = Place(e)

(***************************************************************************)
(* What a PASS is worth: every line up to the verified one holds, in all   *)
(* hashed fields, a record store() wrote, and the blob holds the bytes     *)
(* that were stored for this event.                                        *)
(***************************************************************************)
PassMeansAsWritten ==
  \A e \in EventIds :
    Passes(e) /\ Covered(e) =>
      /\ \A i \in 1 .. Place(e) :
           \E line \in written : lines[i].sealed = line.sealed
      /\ blobs[lines[Place(e)].blob_file] = DigestOf[e]

(***************************************************************************)
(* The chain hash of a record that passes fixes the whole history before   *)
(* it: it seals exactly the lines that stand there, in this order.  So a   *)
(* verifier that remembers one chain hash cannot be shown another past.    *)
(***************************************************************************)
MaterialOf(record) ==
  [chain_index |-> record.chain_index, event |-> record.event,
   meta |-> record.meta]

PassFixesHistory ==
  \A e \in EventIds :
    Passes(e) /\ Covered(e) =>
      lines[Place(e)].sealed.chain_hash =
        [i \in 1 .. Place(e) |-> MaterialOf(lines[i].sealed)]

(***************************************************************************)
(* Damage stays local: a line before the first altered one still passes,   *)
(* whatever happened to later lines and to other blobs.                    *)
(***************************************************************************)
DamageStaysLocal ==
  \A i \in 1 .. intact :
    LET e == EventId(i) IN
    blobs[e] = DigestOf[e] /\ Places(e) = {i} => Passes(e)

(***************************************************************************)
(* docs/HASH_CHAIN_TRACEABILITY.md: "alteration of a blob or manifest      *)
(* record is detected during verification".                                *)
(***************************************************************************)
AlterationDetected ==
  \A i \in 1 .. Len(lines) :
    lines[i] \notin written => ~Passes(EventId(i))
=============================================================================
