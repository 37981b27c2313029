--------------------------- MODULE EvidenceChain ---------------------------
(***************************************************************************)
(* The records and the hash chain of the raw evidence store                *)
(* (traceability/lineage.py and EvidenceRecord of traceability/raw_store). *)
(*                                                                         *)
(* Cryptography is ideal.  A digest is identified with what it commits to: *)
(* an event identifier with the pair (raw bytes, identity context) it is   *)
(* derived from, and a chain hash with the history of records it seals, so *)
(* that two chain hashes are equal exactly when everything hashed into     *)
(* them, transitively, is equal.                                           *)
(***************************************************************************)
EXTENDS Naturals, Sequences

CONSTANTS
  Events,   \* event identifiers: one per (raw bytes, identity context)
  Metas     \* what else a record carries: stored_at, transport, metadata

(***************************************************************************)
(* The input of one chain link, without the previous hash.  raw_id,        *)
(* raw_sha256 and identity_context are functions of the event.             *)
(***************************************************************************)
Material == [chain_index : Nat, event : Events, meta : Metas]

Hash == Seq(Material)

GENESIS_CHAIN_HASH == << >>

(***************************************************************************)
(* compute_chain_hash: injective in the previous hash and in the material. *)
(***************************************************************************)
ComputeChainHash(index, event, meta, previous) ==
  Append(previous, [chain_index |-> index, event |-> event, meta |-> meta])

Record == [event : Events, meta : Metas, chain_index : Nat,
           previous_chain_hash : Hash, chain_hash : Hash]

(***************************************************************************)
(* The hash the next record of a chain must point to.                      *)
(***************************************************************************)
ChainHead(records) ==
  IF records = << >> THEN GENESIS_CHAIN_HASH
  ELSE records[Len(records)].chain_hash

\* Mutant: positions counted from zero.
NextRecordZeroBased(records, event, meta) ==
  [event               |-> event,
   meta                |-> meta,
   chain_index         |-> Len(records),
   previous_chain_hash |-> ChainHead(records),
   chain_hash          |-> ComputeChainHash(Len(records), event, meta,
                                            ChainHead(records))]

(***************************************************************************)
(* The record store() builds for an event, from the records it knows.      *)
(***************************************************************************)
NextRecord(records, event, meta) ==
  [event               |-> event,
   meta                |-> meta,
   chain_index         |-> Len(records) + 1,
   previous_chain_hash |-> ChainHead(records),
   chain_hash          |-> ComputeChainHash(Len(records) + 1, event, meta,
                                            ChainHead(records))]

\* Mutant: the walk never advances previous_hash.
LinkVerifiesFromGenesis(records, i) ==
  /\ records[i].chain_index = i
  /\ records[i].previous_chain_hash = GENESIS_CHAIN_HASH
  /\ records[i].chain_hash =
       ComputeChainHash(records[i].chain_index, records[i].event,
                        records[i].meta, records[i].previous_chain_hash)

\* Mutant: the record's own hash is not recomputed.
LinkVerifiesUnhashed(records, i) ==
  /\ records[i].chain_index = i
  /\ records[i].previous_chain_hash =
       IF i = 1 THEN GENESIS_CHAIN_HASH ELSE records[i - 1].chain_hash

\* Mutant: the link to the preceding record is not compared.
LinkVerifiesUnlinked(records, i) ==
  /\ records[i].chain_index = i
  /\ records[i].chain_hash =
       ComputeChainHash(records[i].chain_index, records[i].event,
                        records[i].meta, records[i].previous_chain_hash)

(***************************************************************************)
(* One step of the walk of _verify_chain_through: the record at position i *)
(* carries its position, points to its predecessor and hashes to its own   *)
(* chain hash.                                                             *)
(***************************************************************************)
LinkVerifies(records, i) ==
  /\ records[i].chain_index = i
  /\ records[i].previous_chain_hash =
       IF i = 1 THEN GENESIS_CHAIN_HASH ELSE records[i - 1].chain_hash
  /\ records[i].chain_hash =
       ComputeChainHash(records[i].chain_index, records[i].event,
                        records[i].meta, records[i].previous_chain_hash)

\* Mutant: the walk does not stop at the verified record.
VerifyChainThroughAll(records, index) ==
  \A i \in 1 .. Len(records) : LinkVerifies(records, i)

(***************************************************************************)
(* _verify_chain_through(chain_index).                                     *)
(***************************************************************************)
VerifyChainThrough(records, index) ==
  \A i \in 1 .. Len(records) : i <= index => LinkVerifies(records, i)

Known(records) == {records[i].event : i \in 1 .. Len(records)}

\* Mutant: the first record of an event wins.
LookupFirst(records, event) ==
  LET places == {i \in 1 .. Len(records) : records[i].event = event}
  IN  records[CHOOSE i \in places : \A j \in places : i <= j]

(***************************************************************************)
(* _by_event_id: the last record of an event wins.                         *)
(***************************************************************************)
Lookup(records, event) ==
  LET places == {i \in 1 .. Len(records) : records[i].event = event}
  IN  records[CHOOSE i \in places : \A j \in places : j <= i]
=============================================================================
