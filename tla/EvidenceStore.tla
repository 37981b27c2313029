--------------------------- MODULE EvidenceStore ---------------------------
(***************************************************************************)
(* RawEvidenceStore (traceability/raw_store.py): processes that open the   *)
(* same evidence directory, store events in it and verify them.            *)
(*                                                                         *)
(* On disk: the manifest evidence_manifest.jsonl, one blob per event and   *)
(* the temporary file each blob is written to first.  In each process: the *)
(* records loaded when the store was constructed, and the store() call it  *)
(* is executing.  store() is split at every file operation, because        *)
(* another process, an I/O error or a crash can fall between any two.      *)
(***************************************************************************)
EXTENDS EvidenceChain, FiniteSets

CONSTANTS
  Writers,         \* processes that call store() (and verify())
  Readers,         \* processes that only verify: the CLI, the dashboard
  Tears,           \* how an interrupted append may leave the last line
  KeepAfterError,  \* does a caller go on with a store whose store() raised?
  MaxFaults,       \* bound: crashes and I/O errors in one behaviour
  Torn,            \* a line that is not the JSON of one record
  Nothing          \* no unterminated line / no store() call

ASSUME StoreAssumption ==
  /\ Writers \cap Readers = {}
  /\ Tears \subseteq {"fragment", "unterminated"}
  /\ KeepAfterError \in BOOLEAN
  /\ MaxFaults \in Nat
  /\ Torn \notin Record
  /\ Nothing \notin Record \cup {Torn}

Procs == Writers \cup Readers

VARIABLES
  manifest,  \* the newline-terminated lines of the manifest
  tail,      \* what follows the last newline
  blob,      \* blobs/<raw_id>.bin: "absent", "partial" or "full"
  tmp,       \* blobs/<raw_id>.tmp: likewise
  pc,        \* what each process is doing
  mem,       \* _records (with _by_event_id, _by_raw_id) of each process
  job,       \* the record of the store() call in progress
  fd,        \* the path the temporary file a process opened is now at
  receipts,  \* history: the records store() has returned to a caller
  faults     \* number of crashes and I/O errors so far

vars == <<manifest, tail, blob, tmp, pc, mem, job, fd, receipts, faults>>
disk == <<manifest, tail, blob, tmp>>

Line     == Record \cup {Torn}
Contents == {"absent", "partial", "full"}

InCall == {"open_tmp", "write_tmp", "replace", "append", "remember"}

TypeOK ==
  /\ manifest \in Seq(Line)
  /\ tail \in Line \cup {Nothing}
  /\ blob \in [Events -> Contents]
  /\ tmp \in [Events -> Contents]
  /\ pc \in [Procs -> {"closed", "ready"} \cup InCall]
  /\ mem \in [Procs -> Seq(Record)]
  /\ job \in [Procs -> Record \cup {Nothing}]
  /\ \A p \in Procs : pc[p] \in InCall => job[p] \in Record
  /\ fd \in [Procs -> {"tmp", "blob", "gone"}]
  /\ receipts \in SUBSET Record
  /\ faults \in Nat

Init ==
  /\ manifest = << >>
  /\ tail = Nothing
  /\ blob = [e \in Events |-> "absent"]
  /\ tmp = [e \in Events |-> "absent"]
  /\ pc = [p \in Procs |-> "closed"]
  /\ mem = [p \in Procs |-> << >>]
  /\ job = [p \in Procs |-> Nothing]
  /\ fd = [p \in Procs |-> "gone"]
  /\ receipts = {}
  /\ faults = 0

-----------------------------------------------------------------------------
(***************************************************************************)
(* Opening.  _load_manifest reads every line; one line that does not parse *)
(* makes the constructor raise.  A last line that is whole but lacks its   *)
(* newline parses like any other.                                          *)
(***************************************************************************)
Loadable ==
  /\ \A i \in 1 .. Len(manifest) : manifest[i] # Torn
  /\ tail # Torn

Loaded == IF tail = Nothing THEN manifest ELSE Append(manifest, tail)

Open(p) ==
  /\ pc[p] = "closed"
  /\ Loadable
  /\ pc' = [pc EXCEPT ![p] = "ready"]
  /\ mem' = [mem EXCEPT ![p] = Loaded]
  /\ UNCHANGED <<disk, job, fd, receipts, faults>>

(***************************************************************************)
(* The process ends or drops its store object.                             *)
(***************************************************************************)
Close(p) ==
  /\ pc[p] = "ready"
  /\ pc' = [pc EXCEPT ![p] = "closed"]
  /\ mem' = [mem EXCEPT ![p] = << >>]
  /\ UNCHANGED <<disk, job, fd, receipts, faults>>

-----------------------------------------------------------------------------
\* Mutant: a replay returns a freshly stamped record.
StoreExistingRestamped(p, e) ==
  /\ pc[p] = "ready"
  /\ e \in Known(mem[p])
  /\ \E m \in Metas : receipts' = receipts \cup {NextRecord(mem[p], e, m)}
  /\ UNCHANGED <<disk, pc, mem, job, fd, faults>>

(***************************************************************************)
(* store() of an event this process already knows returns the existing     *)
(* record and touches no file.                                             *)
(***************************************************************************)
StoreExisting(p, e) ==
  /\ pc[p] = "ready"
  /\ e \in Known(mem[p])
  /\ receipts' = receipts \cup {Lookup(mem[p], e)}
  /\ UNCHANGED <<disk, pc, mem, job, fd, faults>>

\* Mutant: the lookup of the event is forgotten.
StoreNewUnchecked(p, e, m) ==
  /\ pc[p] = "ready"
  /\ job' = [job EXCEPT ![p] = NextRecord(mem[p], e, m)]
  /\ pc' = [pc EXCEPT ![p] = "open_tmp"]
  /\ UNCHANGED <<disk, mem, fd, receipts, faults>>

(***************************************************************************)
(* store() of a new event: position, previous hash and chain hash are      *)
(* computed from this process' memory, not from the file.                  *)
(***************************************************************************)
StoreNew(p, e, m) ==
  /\ pc[p] = "ready"
  /\ e \notin Known(mem[p])
  /\ job' = [job EXCEPT ![p] = NextRecord(mem[p], e, m)]
  /\ pc' = [pc EXCEPT ![p] = "open_tmp"]
  /\ UNCHANGED <<disk, mem, fd, receipts, faults>>

\* Mutant: exclusive creation ("xb"), which raises if the file is there.
OpenTmpExclusive(p) ==
  /\ pc[p] = "open_tmp"
  /\ IF tmp[job[p].event] = "absent"
     THEN /\ tmp' = [tmp EXCEPT ![job[p].event] = "partial"]
          /\ fd' = [fd EXCEPT ![p] = "tmp"]
          /\ pc' = [pc EXCEPT ![p] = "write_tmp"]
          /\ UNCHANGED <<mem, job>>
     ELSE /\ pc' = [pc EXCEPT ![p] = "closed"]
          /\ mem' = [mem EXCEPT ![p] = << >>]
          /\ job' = [job EXCEPT ![p] = Nothing]
          /\ UNCHANGED <<tmp, fd>>
  /\ UNCHANGED <<manifest, tail, blob, receipts, faults>>

(***************************************************************************)
(* _write_blob: open(..., "wb") creates or truncates the temporary file.   *)
(***************************************************************************)
OpenTmp(p) ==
  /\ pc[p] = "open_tmp"
  /\ tmp' = [tmp EXCEPT ![job[p].event] = "partial"]
  /\ fd' = [fd EXCEPT ![p] = "tmp"]
  /\ pc' = [pc EXCEPT ![p] = "write_tmp"]
  /\ UNCHANGED <<manifest, tail, blob, mem, job, receipts, faults>>

\* Mutant: the file is renamed before its bytes are written out.
WriteTmpUnsynced(p) ==
  /\ pc[p] = "write_tmp"
  /\ pc' = [pc EXCEPT ![p] = "replace"]
  /\ UNCHANGED <<disk, mem, job, fd, receipts, faults>>

(***************************************************************************)
(* write, flush, fsync and close.  The bytes go to the opened file, which  *)
(* another process storing the same event may have renamed or replaced.    *)
(***************************************************************************)
WriteTmp(p) ==
  LET e == job[p].event IN
  /\ pc[p] = "write_tmp"
  /\ tmp' = IF fd[p] = "tmp" THEN [tmp EXCEPT ![e] = "full"] ELSE tmp
  /\ blob' = IF fd[p] = "blob" THEN [blob EXCEPT ![e] = "full"] ELSE blob
  /\ pc' = [pc EXCEPT ![p] = "replace"]
  /\ UNCHANGED <<manifest, tail, mem, job, fd, receipts, faults>>

\* Mutant: copy and unlink instead of a rename.
MovedByCopy(q, e) ==
  IF pc[q] = "write_tmp" /\ job[q].event = e /\ fd[q] = "tmp"
  THEN "gone" ELSE fd[q]

(***************************************************************************)
(* os.replace(temporary_path, final_path).  An open file keeps its         *)
(* identity: whoever has this temporary file open now holds the blob, and  *)
(* whoever held the old blob holds a file without a name.                  *)
(***************************************************************************)
Moved(q, e) ==
  IF pc[q] = "write_tmp" /\ job[q].event = e
  THEN IF fd[q] = "tmp" THEN "blob" ELSE "gone"
  ELSE fd[q]

Replace(p) ==
  LET e == job[p].event IN
  /\ pc[p] = "replace"
  /\ tmp[e] # "absent"
  /\ blob' = [blob EXCEPT ![e] = tmp[e]]
  /\ tmp' = [tmp EXCEPT ![e] = "absent"]
  /\ fd' = [q \in Procs |-> Moved(q, e)]
  /\ pc' = [pc EXCEPT ![p] = "append"]
  /\ UNCHANGED <<manifest, tail, mem, job, receipts, faults>>

(***************************************************************************)
(* _append_manifest: the line is added after whatever the file ends with.  *)
(* Text that continues an unterminated line never parses as one record.    *)
(***************************************************************************)
Joined(line) == IF tail = Nothing THEN line ELSE Torn

\* Mutant: the manifest opened with "w".
AppendLineTruncates(record) ==
  /\ manifest' = <<record>>
  /\ tail' = Nothing

AppendLine(record) ==
  /\ manifest' = Append(manifest, Joined(record))
  /\ tail' = Nothing

AppendManifest(p) ==
  /\ pc[p] = "append"
  /\ AppendLine(job[p])
  /\ pc' = [pc EXCEPT ![p] = "remember"]
  /\ UNCHANGED <<blob, tmp, mem, job, fd, receipts, faults>>

(***************************************************************************)
(* The memory update, and the return of the record to the caller.          *)
(***************************************************************************)
Remember(p) ==
  /\ pc[p] = "remember"
  /\ mem' = [mem EXCEPT ![p] = Append(@, job[p])]
  /\ receipts' = receipts \cup {job[p]}
  /\ job' = [job EXCEPT ![p] = Nothing]
  /\ pc' = [pc EXCEPT ![p] = "ready"]
  /\ UNCHANGED <<disk, fd, faults>>

-----------------------------------------------------------------------------
(***************************************************************************)
(* Faults.  An append that is interrupted, or whose write, flush or fsync  *)
(* raises, leaves nothing, a prefix of the line ("fragment"), all of it    *)
(* but the newline ("unterminated"), or the whole line.                    *)
(***************************************************************************)
AppendTorn(record) ==
  /\ \/ "fragment" \in Tears /\ tail' = Torn
     \/ "unterminated" \in Tears /\ tail' = Joined(record)
  /\ UNCHANGED manifest

Fault ==
  /\ faults < MaxFaults
  /\ faults' = faults + 1

\* Mutant: the error is swallowed and the call goes on without a record.
AbandonGoesOn(p) ==
  /\ job' = [job EXCEPT ![p] = Nothing]
  /\ UNCHANGED <<pc, mem>>

(***************************************************************************)
(* Where an exception out of store() leaves the process: in every caller   *)
(* of the repository it ends it; a caller that catches it keeps a store    *)
(* object whose memory was not updated.                                    *)
(***************************************************************************)
Abandon(p) ==
  /\ job' = [job EXCEPT ![p] = Nothing]
  /\ IF KeepAfterError
     THEN pc' = [pc EXCEPT ![p] = "ready"] /\ UNCHANGED mem
     ELSE /\ pc' = [pc EXCEPT ![p] = "closed"]
          /\ mem' = [mem EXCEPT ![p] = << >>]

\* Mutant: an OSError of _write_blob is swallowed.
BlobRaisesIgnored(p) ==
  /\ pc[p] \in {"open_tmp", "write_tmp", "replace"}
  /\ Fault
  /\ pc' = [pc EXCEPT ![p] = "append"]
  /\ UNCHANGED <<disk, mem, job, fd, receipts>>

BlobRaises(p) ==
  /\ pc[p] \in {"open_tmp", "write_tmp", "replace"}
  /\ Fault
  /\ Abandon(p)
  /\ UNCHANGED <<disk, fd, receipts>>

(***************************************************************************)
(* os.replace finds no temporary file: another process has renamed it.     *)
(***************************************************************************)
ReplaceRaises(p) ==
  /\ pc[p] = "replace"
  /\ tmp[job[p].event] = "absent"
  /\ Abandon(p)
  /\ UNCHANGED <<disk, fd, receipts, faults>>

AppendRaises(p) ==
  /\ pc[p] = "append"
  /\ Fault
  /\ Abandon(p)
  /\ \/ UNCHANGED <<manifest, tail>>
     \/ AppendTorn(job[p])
     \/ AppendLine(job[p])
  /\ UNCHANGED <<blob, tmp, fd, receipts>>

(***************************************************************************)
(* The process dies, or the machine does: its memory is lost.              *)
(***************************************************************************)
Crash(p) ==
  /\ pc[p] # "closed"
  /\ Fault
  /\ pc' = [pc EXCEPT ![p] = "closed"]
  /\ mem' = [mem EXCEPT ![p] = << >>]
  /\ job' = [job EXCEPT ![p] = Nothing]
  /\ \/ UNCHANGED <<manifest, tail>>
     \/ pc[p] = "append" /\ AppendTorn(job[p])
  /\ UNCHANGED <<blob, tmp, fd, receipts>>

-----------------------------------------------------------------------------
CallStep(p) ==
  \/ OpenTmp(p) \/ WriteTmp(p) \/ Replace(p) \/ ReplaceRaises(p)
  \/ AppendManifest(p) \/ Remember(p)

Next ==
  \/ \E p \in Procs : Open(p) \/ Close(p)
  \/ \E p \in Writers :
       \/ \E e \in Events : \/ StoreExisting(p, e)
                            \/ \E m \in Metas : StoreNew(p, e, m)
       \/ CallStep(p)
       \/ BlobRaises(p) \/ AppendRaises(p)
  \/ \E p \in Procs : Crash(p)

Spec == Init /\ [][Next]_vars

-----------------------------------------------------------------------------
(***************************************************************************)
(* verify(event_id) as process p would answer it now.                      *)
(***************************************************************************)
Verify(p, e) ==
  LET record == Lookup(mem[p], e)
  IN  /\ e \in Known(mem[p])
      /\ blob[e] = "full"
      /\ VerifyChainThrough(mem[p], record.chain_index)

(***************************************************************************)
(* The fault assumption under which the chain on disk stays whole: one     *)
(* writing process at a time, callers that drop a store whose store()      *)
(* raised (as every caller in the repository does), and no append torn     *)
(* exactly between the record and its newline.                             *)
(***************************************************************************)
Disciplined ==
  /\ \A p, q \in Writers : p = q
  /\ KeepAfterError = FALSE
  /\ Tears \subseteq {"fragment"}

(***************************************************************************)
(* Every terminated line is a record, at its position, linked to the line  *)
(* before it and hashing to its own chain hash: what store() computes from *)
(* memory fits what the file holds, across crashes, failed appends and     *)
(* restarts.                                                               *)
(***************************************************************************)
ChainIntact ==
  /\ \A i \in 1 .. Len(manifest) : manifest[i] # Torn
  /\ VerifyChainThrough(manifest, Len(manifest))

(***************************************************************************)
(* "chain is NOT duplicated" (docstring of store()): no event has two      *)
(* records, however often it is replayed and whichever call was            *)
(* interrupted.                                                            *)
(***************************************************************************)
OneRecordPerEvent ==
  \A i, j \in 1 .. Len(manifest) :
    /\ manifest[i] # Torn
    /\ manifest[j] # Torn
    /\ manifest[i].event = manifest[j].event
    => i = j

(***************************************************************************)
(* A record store() has returned is on disk, and so are its bytes.         *)
(***************************************************************************)
ReceiptsDurable ==
  \A r \in receipts :
    /\ \E i \in 1 .. Len(manifest) : manifest[i] = r
    /\ blob[r.event] = "full"

(***************************************************************************)
(* The blob is complete before the manifest mentions it: a crash can leave *)
(* a blob without a record, never a record without its blob.               *)
(***************************************************************************)
BlobBeforeRecord ==
  \A i \in 1 .. Len(manifest) :
    manifest[i] # Torn => blob[manifest[i].event] = "full"

(***************************************************************************)
(* Whatever a process could load verifies: opening while another process   *)
(* writes, or after a crash, never yields a record that verify() fails.    *)
(***************************************************************************)
LoadedRecordsVerify ==
  \A p \in Procs : \A e \in Known(mem[p]) : Verify(p, e)

(***************************************************************************)
(* Replaying an event returns the record of the first receipt, in this     *)
(* process or after a restart.                                             *)
(***************************************************************************)
StableReceipts ==
  \A r, s \in receipts : r.event = s.event => r = s

(***************************************************************************)
(* Loss is never silent: a store that opens holds every record it ever     *)
(* gave a receipt for; a store that lost one refuses to open.              *)
(***************************************************************************)
NoSilentLoss ==
  Loadable =>
    \A r \in receipts : \E i \in 1 .. Len(Loaded) : Loaded[i] = r

(***************************************************************************)
(* Two processes storing the same event share one temporary file.  Either  *)
(* may truncate it under the other, publish it half written or find it     *)
(* gone; once no call is in progress every recorded blob is complete, if   *)
(* none of them died.  (While calls are in progress a recorded blob may    *)
(* still be incomplete, and it stays so when the process that holds it     *)
(* dies.)                                                                  *)
(***************************************************************************)
SharedTemporaryHeals ==
  (\A p \in Procs : pc[p] \notin InCall) /\ faults = 0 => BlobBeforeRecord

(***************************************************************************)
(* docs/HASH_CHAIN_TRACEABILITY.md: "Each subsequent record includes the   *)
(* preceding chain hash".                                                  *)
(***************************************************************************)
RecordsLinkToPrevious ==
  \A i \in 2 .. Len(manifest) :
    manifest[i].previous_chain_hash = manifest[i - 1].chain_hash

-----------------------------------------------------------------------------
(***************************************************************************)
(* The store implements EvidenceLog: the log is the manifest, one Preserve *)
(* per appended line, one Acknowledge per return of store().               *)
(***************************************************************************)
EntryOf(line) ==
  IF line = Torn THEN Torn ELSE [event |-> line.event, meta |-> line.meta]

Log == INSTANCE EvidenceLog WITH
         log    <- [i \in 1 .. Len(manifest) |-> EntryOf(manifest[i])],
         issued <- {EntryOf(r) : r \in receipts}

PreservesEvidence == Log!LogSpec

-----------------------------------------------------------------------------
(***************************************************************************)
(* Fairness.  A call that has started runs on: store() is straight-line    *)
(* code.  A caller whose process ended starts again, and its feed reaches  *)
(* every event again (a replay): strong fairness, since other events and   *)
(* restarts come in between.                                               *)
(***************************************************************************)
Submit(p, e) == StoreExisting(p, e) \/ \E m \in Metas : StoreNew(p, e, m)

Fairness ==
  \A p \in Writers :
    /\ WF_vars(Open(p))
    /\ WF_vars(CallStep(p))
    /\ \A e \in Events : SF_vars(Submit(p, e))

FairSpec == Spec /\ Fairness

(***************************************************************************)
(* Every event is eventually acknowledged: the temporary files, blobs and  *)
(* manifest lines an interrupted call left behind never stop the replay.   *)
(***************************************************************************)
EveryEventAcknowledged ==
  \A e \in Events : <>(\E r \in receipts : r.event = e)
=============================================================================
