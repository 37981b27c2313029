------------------------ MODULE EvidenceStoreProofs ------------------------
(***************************************************************************)
(* Proofs about the evidence store, for every set of events, metadata and  *)
(* readers and every number of faults.                                     *)
(***************************************************************************)
EXTENDS EvidenceStore, PositionLemmas

(***************************************************************************)
(* The inductive invariant.  The safety properties alone are not           *)
(* inductive: that a new line fits the manifest depends on the writer's    *)
(* memory being the manifest, and on the record under construction having  *)
(* been computed from it.                                                  *)
(***************************************************************************)
BuildsOn(records, record) ==
  \E e \in Events \ Known(records), m \in Metas :
    record = NextRecord(records, e, m)

DiskInv ==
  /\ manifest \in Seq(Record)
  /\ tail \in {Nothing, Torn}
  /\ VerifyChainThrough(manifest, Len(manifest))
  /\ OneRecordPerEvent
  /\ BlobBeforeRecord

IsPrefixOf(s, t) ==
  /\ Len(s) <= Len(t)
  /\ \A i \in 1 .. Len(s) : s[i] = t[i]

MemoryInv == \A p \in Procs : IsPrefixOf(mem[p], manifest)

ReaderInv == \A p \in Readers : pc[p] \in {"closed", "ready"}

WriterInv ==
  \A p \in Writers :
    /\ pc[p] # "closed" => tail = Nothing
    /\ pc[p] \notin {"closed", "remember"} => mem[p] = manifest
    /\ pc[p] \in InCall \ {"remember"} => BuildsOn(mem[p], job[p])
    /\ pc[p] = "remember" => /\ job[p] \in Record
                             /\ manifest = Append(mem[p], job[p])
    /\ pc[p] = "write_tmp" => fd[p] = "tmp"
    /\ pc[p] = "replace" => tmp[job[p].event] = "full"
    /\ pc[p] = "append" => blob[job[p].event] = "full"

ReceiptInv == \A r \in receipts : \E i \in 1 .. Len(manifest) : manifest[i] = r

IInv ==
  /\ TypeOK
  /\ DiskInv
  /\ MemoryInv
  /\ ReaderInv
  /\ WriterInv
  /\ ReceiptInv

-----------------------------------------------------------------------------
LEMMA LookupProperties ==
  ASSUME NEW s \in Seq(Record), NEW e \in Known(s)
  PROVE  \E i \in 1 .. Len(s) : Lookup(s, e) = s[i] /\ s[i].event = e
<1> DEFINE places == {i \in 1 .. Len(s) : s[i].event = e}
<1>1. places # {} /\ places \subseteq 1 .. Len(s)
  BY DEF Known
<1>2. \E i \in places : \A j \in places : j <= i
  BY <1>1, LastPosition, LenProperties, Zenon
<1> DEFINE last == CHOOSE i \in places : \A j \in places : j <= i
<1>3. last \in places
  BY <1>2
<1>4. Lookup(s, e) = s[last]
  BY DEF Lookup
<1> QED BY <1>3, <1>4

LEMMA NextRecordType ==
  ASSUME NEW s \in Seq(Record), NEW e \in Events, NEW m \in Metas
  PROVE  NextRecord(s, e, m) \in Record
<1>1. ChainHead(s) \in Hash
  <2>1. CASE s = << >>
    BY <2>1 DEF ChainHead, GENESIS_CHAIN_HASH, Hash
  <2>2. CASE s # << >>
    <3>1. s[Len(s)] \in Record
      BY <2>2, ElementOfSeq, EmptySeq
    <3> QED BY <2>2, <3>1 DEF ChainHead, Record
  <2> QED BY <2>1, <2>2
<1>2. ComputeChainHash(Len(s) + 1, e, m, ChainHead(s)) \in Hash
  BY <1>1 DEF ComputeChainHash, Hash, Material
<1> QED BY <1>1, <1>2 DEF NextRecord, Record

(***************************************************************************)
(* An exception out of store() leaves the process typed and not in a call. *)
(***************************************************************************)
LEMMA AbandonType ==
  ASSUME TypeOK, NEW p \in Procs, Abandon(p)
  PROVE  /\ pc' \in [Procs -> {"closed", "ready"} \cup InCall]
         /\ mem' \in [Procs -> Seq(Record)]
         /\ job' \in [Procs -> Record \cup {Nothing}]
         /\ \A q \in Procs : pc'[q] \in InCall => job'[q] \in Record
<1> USE DEF TypeOK, InCall
<1>1. CASE KeepAfterError
  BY <1>1 DEF Abandon
<1>2. CASE ~KeepAfterError
  <2>1. /\ pc' = [pc EXCEPT ![p] = "closed"]
        /\ mem' = [mem EXCEPT ![p] = << >>]
        /\ job' = [job EXCEPT ![p] = Nothing]
    BY <1>2 DEF Abandon
  <2> QED BY <2>1
<1> QED BY <1>1, <1>2

(***************************************************************************)
(* Type correctness, under every fault.                                    *)
(***************************************************************************)
LEMMA TypeInductive == TypeOK /\ [Next]_vars => TypeOK'
<1> SUFFICES ASSUME TypeOK, [Next]_vars PROVE TypeOK'
  OBVIOUS
<1> USE StoreAssumption DEF TypeOK, disk, Contents, InCall
<1>1. ASSUME NEW p \in Procs, Open(p) PROVE TypeOK'
  <2>1. Loaded \in Seq(Record)
    <3>1. \A i \in 1 .. Len(manifest) : manifest[i] \in Record
      BY <1>1, ElementOfSeq DEF Open, Loadable, Line
    <3>2. manifest \in Seq(Record)
      BY <3>1, AllElementsInSeq
    <3> QED BY <3>2, <1>1 DEF Open, Loadable, Loaded, Line
  <2> QED BY <1>1, <2>1 DEF Open
<1>2. ASSUME NEW p \in Procs, Close(p) PROVE TypeOK'
  BY <1>2 DEF Close
<1>3. ASSUME NEW p \in Writers, NEW e \in Events, StoreExisting(p, e)
      PROVE  TypeOK'
  <2>1. mem[p] \in Seq(Record)
    BY DEF Procs
  <2>2. PICK i \in 1 .. Len(mem[p]) :
          Lookup(mem[p], e) = mem[p][i] /\ mem[p][i].event = e
    <3>1. e \in Known(mem[p])
      BY <1>3 DEF StoreExisting
    <3> HIDE DEF TypeOK
    <3> QED BY <2>1, <3>1, LookupProperties, Zenon
  <2>3. Lookup(mem[p], e) \in Record
    BY <2>1, <2>2, ElementOfSeq
  <2>4. receipts' \in SUBSET Record
    BY <1>3, <2>3 DEF StoreExisting
  <2>5. UNCHANGED <<manifest, tail, blob, tmp, pc, mem, job, fd, faults>>
    BY <1>3 DEF StoreExisting
  <2> QED BY <2>4, <2>5
<1>4. ASSUME NEW p \in Writers, NEW e \in Events, NEW m \in Metas,
             StoreNew(p, e, m)
      PROVE  TypeOK'
  <2>1. NextRecord(mem[p], e, m) \in Record
    BY NextRecordType DEF Procs
  <2> QED BY <1>4, <2>1 DEF StoreNew, Procs
<1>5. ASSUME NEW p \in Writers, OpenTmp(p) PROVE TypeOK'
  BY <1>5 DEF OpenTmp, Procs
<1>6. ASSUME NEW p \in Writers, WriteTmp(p) PROVE TypeOK'
  BY <1>6 DEF WriteTmp, Procs
<1>7. ASSUME NEW p \in Writers, Replace(p) PROVE TypeOK'
  BY <1>7 DEF Replace, Moved, Procs
<1>8. ASSUME NEW p \in Writers, ReplaceRaises(p) PROVE TypeOK'
  BY <1>8, AbandonType DEF ReplaceRaises, Procs
<1>9. ASSUME NEW p \in Writers, AppendManifest(p) PROVE TypeOK'
  BY <1>9 DEF AppendManifest, AppendLine, Joined, Line, Procs
<1>10. ASSUME NEW p \in Writers, Remember(p) PROVE TypeOK'
  BY <1>10 DEF Remember, Procs
<1>11. ASSUME NEW p \in Writers, BlobRaises(p) PROVE TypeOK'
  BY <1>11, AbandonType DEF BlobRaises, Fault, Procs
<1>12. ASSUME NEW p \in Writers, AppendRaises(p) PROVE TypeOK'
  <2>1. manifest' \in Seq(Line) /\ tail' \in Line \cup {Nothing}
    <3>1. job[p] \in Record /\ Joined(job[p]) \in Line
      BY <1>12 DEF AppendRaises, Joined, Line, Procs
    <3>2. CASE UNCHANGED <<manifest, tail>>
      BY <3>2
    <3>3. CASE AppendTorn(job[p])
      BY <3>1, <3>3 DEF AppendTorn, Line
    <3>4. CASE AppendLine(job[p])
      BY <3>1, <3>4 DEF AppendLine
    <3> QED BY <1>12, <3>2, <3>3, <3>4 DEF AppendRaises
  <2> QED BY <1>12, <2>1, AbandonType DEF AppendRaises, Fault, Procs
<1>13. ASSUME NEW p \in Procs, Crash(p) PROVE TypeOK'
  BY <1>13 DEF Crash, AppendTorn, Joined, Fault, Line, Procs
<1>14. CASE UNCHANGED vars
  BY <1>14 DEF vars
<1> QED BY <1>1, <1>2, <1>3, <1>4, <1>5, <1>6, <1>7, <1>8, <1>9, <1>10,
           <1>11, <1>12, <1>13, <1>14 DEF Next, CallStep

(***************************************************************************)
(* The store keeps its types: what it loads, builds and returns are        *)
(* records, whatever crashes, errors or other processes do.                *)
(***************************************************************************)
THEOREM TypeCorrect == Spec => []TypeOK
<1>1. Init => TypeOK
  BY DEF Init, TypeOK, Contents, InCall
<1> QED BY <1>1, TypeInductive, PTL DEF Spec

-----------------------------------------------------------------------------
(***************************************************************************)
(* Lemmas about the chain.                                                 *)
(***************************************************************************)
LEMMA ChainGrows ==
  ASSUME NEW s \in Seq(Record), NEW r \in Record,
         VerifyChainThrough(s, Len(s)), BuildsOn(s, r)
  PROVE  VerifyChainThrough(Append(s, r), Len(Append(s, r)))
<1> DEFINE t == Append(s, r)
<1>1. /\ t \in Seq(Record)
      /\ Len(t) = Len(s) + 1
      /\ \A i \in 1 .. Len(s) : t[i] = s[i]
      /\ t[Len(s) + 1] = r
  BY AppendProperties
<1>2. PICK e \in Events, m \in Metas : r = NextRecord(s, e, m)
  BY DEF BuildsOn
<1> SUFFICES ASSUME NEW i \in 1 .. Len(s) + 1
             PROVE  LinkVerifies(t, i)
  BY <1>1 DEF VerifyChainThrough
<1> HIDE DEF t
<1>3. CASE i \in 1 .. Len(s)
  <2>1. LinkVerifies(s, i)
    BY <1>3, LenProperties DEF VerifyChainThrough
  <2>2. t[i] = s[i] /\ (i # 1 => t[i - 1] = s[i - 1])
    BY <1>1, <1>3, LenProperties
  <2> QED BY <2>1, <2>2 DEF LinkVerifies
<1>4. CASE i = Len(s) + 1
  <2>1. t[i] = r
    BY <1>1, <1>4
  <2>2. r.previous_chain_hash =
          IF i = 1 THEN GENESIS_CHAIN_HASH ELSE t[i - 1].chain_hash
    <3>1. CASE s = << >>
      BY <1>2, <1>4, <3>1, EmptySeq DEF NextRecord, ChainHead
    <3>2. CASE s # << >>
      <4>1. Len(s) \in 1 .. Len(s) /\ i # 1 /\ i - 1 = Len(s)
        BY <1>4, <3>2, EmptySeq
      <4>2. t[i - 1] = s[Len(s)]
        BY <1>1, <4>1
      <4> QED BY <1>2, <3>2, <4>1, <4>2 DEF NextRecord, ChainHead
    <3> QED BY <3>1, <3>2
  <2>3. r.chain_index = i
    BY <1>2, <1>4 DEF NextRecord
  <2>4. r.chain_hash = ComputeChainHash(r.chain_index, r.event, r.meta,
                                        r.previous_chain_hash)
    BY <1>2 DEF NextRecord
  <2> QED BY <2>1, <2>2, <2>3, <2>4 DEF LinkVerifies
<1> QED BY <1>3, <1>4, LenProperties

LEMMA PrefixVerifies ==
  ASSUME NEW s \in Seq(Record), NEW t \in Seq(Record), IsPrefixOf(s, t),
         VerifyChainThrough(t, Len(t)), NEW n
  PROVE  VerifyChainThrough(s, n)
<1> SUFFICES ASSUME NEW i \in 1 .. Len(s) PROVE LinkVerifies(s, i)
  BY DEF VerifyChainThrough
<1>1. i \in 1 .. Len(t) /\ i <= Len(t)
  BY LenProperties DEF IsPrefixOf
<1>2. LinkVerifies(t, i)
  BY <1>1 DEF VerifyChainThrough
<1>3. s[i] = t[i] /\ (i # 1 => s[i - 1] = t[i - 1])
  BY LenProperties DEF IsPrefixOf
<1> QED BY <1>2, <1>3 DEF LinkVerifies

LEMMA PrefixOfAppend ==
  ASSUME NEW s \in Seq(Record), NEW t \in Seq(Record), NEW r \in Record,
         IsPrefixOf(s, t)
  PROVE  IsPrefixOf(s, Append(t, r))
<1>1. /\ Len(Append(t, r)) = Len(t) + 1
      /\ \A i \in 1 .. Len(t) : Append(t, r)[i] = t[i]
  BY AppendProperties
<1> QED BY <1>1, LenProperties DEF IsPrefixOf

LEMMA BuiltEvent ==
  ASSUME NEW s, NEW r, BuildsOn(s, r)
  PROVE  r.event \in Events \ Known(s)
BY DEF BuildsOn, NextRecord

-----------------------------------------------------------------------------
(***************************************************************************)
(* The invariant is inductive.  The lemmas below collect what the steps    *)
(* that do not touch the disk, the memories or the receipts keep.          *)
(***************************************************************************)
LEMMA DiskKept ==
  ASSUME DiskInv, UNCHANGED <<manifest, tail, blob>>
  PROVE  DiskInv'
BY DEF DiskInv, OneRecordPerEvent, BlobBeforeRecord

LEMMA ReceiptsKept ==
  ASSUME ReceiptInv, UNCHANGED <<manifest, receipts>>
  PROVE  ReceiptInv'
BY DEF ReceiptInv

LEMMA MemoryKept ==
  ASSUME TypeOK, MemoryInv, UNCHANGED manifest,
         \A q \in Procs : mem'[q] = mem[q] \/ mem'[q] = << >>
  PROVE  MemoryInv'
<1> SUFFICES ASSUME NEW q \in Procs PROVE IsPrefixOf(mem'[q], manifest')
  BY DEF MemoryInv
<1>1. CASE mem'[q] = mem[q]
  BY <1>1 DEF MemoryInv
<1>2. CASE mem'[q] = << >>
  BY <1>2, EmptySeq, LenProperties DEF IsPrefixOf, TypeOK
<1> QED BY <1>1, <1>2

(***************************************************************************)
(* Under Disciplined an exception ends the process.                        *)
(***************************************************************************)
LEMMA AbandonCloses ==
  ASSUME Disciplined, NEW p, Abandon(p)
  PROVE  /\ pc' = [pc EXCEPT ![p] = "closed"]
         /\ mem' = [mem EXCEPT ![p] = << >>]
         /\ job' = [job EXCEPT ![p] = Nothing]
BY DEF Disciplined, Abandon

LEMMA IInvInductive ==
  ASSUME Disciplined, IInv, [Next]_vars
  PROVE  IInv'
<1>1. TypeOK' /\ TypeOK
  BY TypeInductive DEF IInv
<1>2. \A p, q \in Writers : p = q
  BY DEF Disciplined
<1>3. Writers \subseteq Procs /\ Readers \subseteq Procs
  BY DEF Procs
<1>4. DiskInv /\ MemoryInv /\ ReaderInv /\ WriterInv /\ ReceiptInv
  BY DEF IInv
<1>5. manifest \in Seq(Record)
  BY <1>4 DEF DiskInv
<1> USE <1>1, <1>3 DEF InCall
<1>6. ASSUME NEW p \in Procs, Open(p) PROVE IInv'
  <2>1. UNCHANGED <<manifest, tail, blob, tmp, job, fd, receipts>>
    BY <1>6 DEF Open, disk
  <2>2. tail = Nothing /\ Loaded = manifest
    BY <1>4, <1>6 DEF Open, Loadable, Loaded, DiskInv
  <2>3. MemoryInv'
    <3> SUFFICES ASSUME NEW q \in Procs PROVE IsPrefixOf(mem'[q], manifest')
      BY DEF MemoryInv
    <3>1. CASE q = p
      BY <1>5, <1>6, <2>1, <2>2, <3>1, LenProperties
         DEF Open, TypeOK, IsPrefixOf
    <3>2. CASE q # p
      BY <1>4, <1>6, <2>1, <3>2 DEF Open, TypeOK, MemoryInv
    <3> QED BY <3>1, <3>2
  <2>4. ReaderInv'
    BY <1>4, <1>6 DEF Open, ReaderInv, TypeOK
  <2>5. WriterInv'
    BY <1>4, <1>6, <2>1, <2>2 DEF Open, WriterInv, TypeOK
  <2> QED BY <1>4, <2>1, <2>3, <2>4, <2>5, DiskKept, ReceiptsKept DEF IInv
<1>7. ASSUME NEW p \in Procs, Close(p) PROVE IInv'
  <2>1. UNCHANGED <<manifest, tail, blob, tmp, job, fd, receipts>>
    BY <1>7 DEF Close, disk
  <2>2. MemoryInv'
    BY <1>4, <1>7, <2>1, MemoryKept DEF Close, TypeOK
  <2>3. ReaderInv'
    BY <1>4, <1>7 DEF Close, ReaderInv, TypeOK
  <2>4. WriterInv'
    BY <1>4, <1>7, <2>1 DEF Close, WriterInv, TypeOK
  <2> QED BY <1>4, <2>1, <2>2, <2>3, <2>4, DiskKept, ReceiptsKept DEF IInv
<1>8. ASSUME NEW p \in Writers, NEW e \in Events, StoreExisting(p, e)
      PROVE  IInv'
  <2>1. UNCHANGED <<manifest, tail, blob, tmp, pc, mem, job, fd>>
    BY <1>8 DEF StoreExisting, disk
  <2>2. mem[p] = manifest
    BY <1>4, <1>8 DEF StoreExisting, WriterInv
  <2>3. PICK i \in 1 .. Len(manifest) :
          Lookup(mem[p], e) = manifest[i] /\ manifest[i].event = e
    <3>1. e \in Known(manifest)
      BY <1>8, <2>2 DEF StoreExisting
    <3> QED BY <1>5, <2>2, <3>1, LookupProperties, Zenon
  <2>4. ReceiptInv'
    BY <1>4, <1>8, <2>1, <2>3 DEF StoreExisting, ReceiptInv
  <2>5. MemoryInv' /\ ReaderInv' /\ WriterInv'
    BY <1>4, <2>1 DEF MemoryInv, ReaderInv, WriterInv
  <2> QED BY <1>4, <2>1, <2>4, <2>5, DiskKept DEF IInv
<1>9. ASSUME NEW p \in Writers, NEW e \in Events, NEW m \in Metas,
             StoreNew(p, e, m)
      PROVE  IInv'
  <2>1. UNCHANGED <<manifest, tail, blob, tmp, mem, fd, receipts>>
    BY <1>9 DEF StoreNew, disk
  <2>2. BuildsOn(mem[p], job'[p])
    <3>1. job'[p] = NextRecord(mem[p], e, m) /\ e \in Events \ Known(mem[p])
      BY <1>9 DEF StoreNew, TypeOK
    <3> QED BY <3>1 DEF BuildsOn
  <2>3. MemoryInv' /\ ReaderInv'
    BY <1>4, <1>9, <2>1, StoreAssumption
       DEF StoreNew, MemoryInv, ReaderInv, StoreAssumption,
           TypeOK
  <2>4. WriterInv'
    BY <1>2, <1>4, <1>9, <2>1, <2>2 DEF StoreNew, WriterInv, TypeOK
  <2> QED BY <1>4, <2>1, <2>3, <2>4, DiskKept, ReceiptsKept DEF IInv
<1>10. ASSUME NEW p \in Writers, OpenTmp(p) PROVE IInv'
  <2>1. UNCHANGED <<manifest, tail, blob, mem, job, receipts>>
    BY <1>10 DEF OpenTmp
  <2>2. MemoryInv' /\ ReaderInv'
    BY <1>4, <1>10, <2>1, StoreAssumption
       DEF OpenTmp, MemoryInv, ReaderInv, StoreAssumption, TypeOK
  <2>3. WriterInv'
    BY <1>2, <1>4, <1>10, <2>1 DEF OpenTmp, WriterInv, TypeOK
  <2> QED BY <1>4, <2>1, <2>2, <2>3, DiskKept, ReceiptsKept DEF IInv
<1>11. ASSUME NEW p \in Writers, WriteTmp(p) PROVE IInv'
  <2>1. fd[p] = "tmp"
    BY <1>4, <1>11 DEF WriteTmp, WriterInv
  <2>2. UNCHANGED <<manifest, tail, blob, mem, job, fd, receipts>>
    BY <1>11, <2>1 DEF WriteTmp
  <2>3. MemoryInv' /\ ReaderInv'
    BY <1>4, <1>11, <2>2, StoreAssumption
       DEF WriteTmp, MemoryInv, ReaderInv, StoreAssumption, TypeOK
  <2>4. WriterInv'
    BY <1>2, <1>4, <1>11, <2>1, <2>2
       DEF WriteTmp, WriterInv, TypeOK, Record
  <2> QED BY <1>4, <2>2, <2>3, <2>4, DiskKept, ReceiptsKept DEF IInv
<1>12. ASSUME NEW p \in Writers, Replace(p) PROVE IInv'
  <2> DEFINE e == job[p].event
  <2>1. /\ UNCHANGED <<manifest, tail, mem, job, receipts>>
        /\ pc' = [pc EXCEPT ![p] = "append"]
        /\ blob' = [blob EXCEPT ![e] = tmp[e]]
    BY <1>12 DEF Replace
  <2>2. tmp[e] = "full" /\ e \in Events
    BY <1>4, <1>12 DEF Replace, WriterInv, TypeOK, Record
  <2>3. BlobBeforeRecord'
    BY <1>4, <1>5, <2>1, <2>2, ElementOfSeq
       DEF DiskInv, BlobBeforeRecord, TypeOK, Record
  <2>4. DiskInv'
    BY <1>4, <2>1, <2>3 DEF DiskInv, OneRecordPerEvent
  <2>5. MemoryInv' /\ ReaderInv'
    BY <1>4, <2>1, StoreAssumption
       DEF MemoryInv, ReaderInv, StoreAssumption, TypeOK
  <2>6. WriterInv'
    BY <1>2, <1>4, <1>12, <2>1, <2>2 DEF Replace, WriterInv, TypeOK
  <2> QED BY <1>4, <2>1, <2>4, <2>5, <2>6, ReceiptsKept DEF IInv
<1>13. ASSUME NEW p \in Writers, pc[p] = "append", AppendLine(job[p])
       PROVE  /\ manifest' = Append(manifest, job[p])
              /\ manifest' \in Seq(Record)
              /\ tail' = Nothing
              /\ VerifyChainThrough(manifest', Len(manifest'))
              /\ OneRecordPerEvent'
              /\ \A s \in Seq(Record) :
                   IsPrefixOf(s, manifest) => IsPrefixOf(s, manifest')
  <2>1. /\ job[p] \in Record
        /\ BuildsOn(manifest, job[p])
        /\ tail = Nothing
    <3>1. p \in Procs /\ pc[p] = "append" /\ pc[p] \in InCall
      BY <1>13, StoreAssumption DEF StoreAssumption, Procs, InCall
    <3>2. job[p] \in Record
      BY <1>4, <3>1 DEF TypeOK
    <3>3. mem[p] = manifest /\ BuildsOn(mem[p], job[p]) /\ tail = Nothing
      BY <1>4, <1>13, <3>1 DEF WriterInv
    <3> QED
      BY <3>2, <3>3
  <2>2. manifest' = Append(manifest, job[p]) /\ tail' = Nothing
    BY <1>13, <2>1 DEF AppendLine, Joined
  <2>3. /\ Len(manifest') = Len(manifest) + 1
        /\ \A i \in 1 .. Len(manifest) : manifest'[i] = manifest[i]
        /\ manifest'[Len(manifest) + 1] = job[p]
    BY <1>5, <2>1, <2>2, AppendProperties
  <2>4. VerifyChainThrough(manifest', Len(manifest'))
    BY <1>4, <1>5, <2>1, <2>2, ChainGrows DEF DiskInv
  <2>5. OneRecordPerEvent'
    <3> SUFFICES ASSUME NEW i \in 1 .. Len(manifest'),
                        NEW j \in 1 .. Len(manifest'),
                        manifest'[i].event = manifest'[j].event,
                        i < j
                 PROVE  FALSE
      BY <1>5, <2>3, LenProperties DEF OneRecordPerEvent
    <3>1. i \in 1 .. Len(manifest)
      BY <1>5, <2>3, LenProperties
    <3>2. CASE j \in 1 .. Len(manifest)
      <4>1. manifest[i] # Torn /\ manifest[j] # Torn
        BY <1>5, <3>1, <3>2, ElementOfSeq, StoreAssumption DEF StoreAssumption
      <4> QED BY <1>4, <2>3, <3>1, <3>2, <4>1 DEF DiskInv, OneRecordPerEvent
    <3>3. CASE j = Len(manifest) + 1
      <4>1. job[p].event \notin Known(manifest)
        BY <2>1, BuiltEvent
      <4> QED BY <2>3, <3>1, <3>3, <4>1 DEF Known
    <3> QED BY <1>5, <2>3, <3>2, <3>3, LenProperties
  <2>6. \A s \in Seq(Record) :
          IsPrefixOf(s, manifest) => IsPrefixOf(s, manifest')
    BY <1>5, <2>1, <2>2, PrefixOfAppend
  <2> QED BY <1>5, <2>1, <2>2, <2>4, <2>5, <2>6
<1>14. ASSUME NEW p \in Writers, pc[p] = "append", AppendLine(job[p]),
              UNCHANGED <<blob, receipts>>
       PROVE  DiskInv' /\ ReceiptInv'
  <2>1. /\ job[p] \in Record
        /\ blob[job[p].event] = "full"
    BY <1>4, <1>14 DEF WriterInv, TypeOK
  <2>2. /\ Len(manifest') = Len(manifest) + 1
        /\ \A i \in 1 .. Len(manifest) : manifest'[i] = manifest[i]
        /\ manifest'[Len(manifest) + 1] = job[p]
    BY <1>5, <1>13, <1>14, <2>1, AppendProperties
  <2>3. BlobBeforeRecord'
    BY <1>4, <1>5, <1>14, <2>1, <2>2, LenProperties
       DEF DiskInv, BlobBeforeRecord
  <2>4. ReceiptInv'
    BY <1>4, <1>5, <1>14, <2>2, LenProperties DEF ReceiptInv
  <2> QED BY <1>13, <1>14, <2>3, <2>4 DEF DiskInv
<1>15. ASSUME NEW p \in Writers, AppendManifest(p) PROVE IInv'
  <2>1. /\ pc[p] = "append"
        /\ AppendLine(job[p])
        /\ UNCHANGED <<blob, tmp, mem, job, fd, receipts>>
        /\ pc' = [pc EXCEPT ![p] = "remember"]
    BY <1>15 DEF AppendManifest
  <2>2. DiskInv' /\ ReceiptInv'
    BY <1>14, <2>1
  <2>3. MemoryInv' /\ ReaderInv'
    BY <1>4, <1>13, <2>1, StoreAssumption
       DEF MemoryInv, ReaderInv, StoreAssumption, TypeOK
  <2>4. WriterInv'
    <3>1. job[p] \in Record /\ mem[p] = manifest
      BY <1>4, <2>1 DEF WriterInv, TypeOK
    <3>2. manifest' = Append(mem'[p], job'[p]) /\ tail' = Nothing
      BY <1>13, <2>1, <3>1
    <3> QED BY <1>2, <2>1, <3>1, <3>2 DEF WriterInv, TypeOK
  <2> QED BY <2>2, <2>3, <2>4 DEF IInv
<1>16. ASSUME NEW p \in Writers, Remember(p) PROVE IInv'
  <2>1. /\ UNCHANGED <<manifest, tail, blob, tmp, fd>>
        /\ pc' = [pc EXCEPT ![p] = "ready"]
        /\ mem' = [mem EXCEPT ![p] = Append(@, job[p])]
        /\ receipts' = receipts \cup {job[p]}
        /\ job[p] \in Record
        /\ manifest = Append(mem[p], job[p])
        /\ tail = Nothing
    BY <1>4, <1>16 DEF Remember, WriterInv, disk
  <2>2. mem'[p] = manifest
    BY <2>1 DEF TypeOK
  <2>3. MemoryInv'
    <3> SUFFICES ASSUME NEW q \in Procs PROVE IsPrefixOf(mem'[q], manifest')
      BY DEF MemoryInv
    <3>1. CASE q = p
      BY <1>5, <2>1, <2>2, <3>1, LenProperties DEF IsPrefixOf
    <3>2. CASE q # p
      BY <1>4, <2>1, <3>2 DEF MemoryInv, TypeOK
    <3> QED BY <3>1, <3>2
  <2>4. ReceiptInv'
    <3>1. mem[p] \in Seq(Record)
      BY DEF TypeOK
    <3>2. Len(manifest) \in 1 .. Len(manifest) /\ manifest[Len(manifest)] = job[p]
      BY <2>1, <3>1, AppendProperties, LenProperties
    <3> QED BY <1>4, <2>1, <3>2 DEF ReceiptInv
  <2>5. ReaderInv' /\ WriterInv'
    BY <1>2, <1>4, <2>1, <2>2, StoreAssumption
       DEF ReaderInv, WriterInv, TypeOK, StoreAssumption
  <2> QED BY <1>4, <2>1, <2>3, <2>4, <2>5, DiskKept DEF IInv
<1>17. ASSUME NEW p \in Procs,
              pc' = [pc EXCEPT ![p] = "closed"],
              mem' = [mem EXCEPT ![p] = << >>],
              job' = [job EXCEPT ![p] = Nothing],
              UNCHANGED <<tmp, blob, fd>>,
              \A s \in Seq(Record) :
                IsPrefixOf(s, manifest) => IsPrefixOf(s, manifest'),
              p \in Readers => UNCHANGED <<manifest, tail>>
       PROVE  MemoryInv' /\ ReaderInv' /\ WriterInv'
  <2>1. MemoryInv'
    <3> SUFFICES ASSUME NEW q \in Procs PROVE IsPrefixOf(mem'[q], manifest')
      BY DEF MemoryInv
    <3>1. CASE q = p
      BY <1>17, <3>1, EmptySeq, LenProperties DEF IsPrefixOf, TypeOK
    <3>2. CASE q # p
      BY <1>4, <1>17, <3>2 DEF MemoryInv, TypeOK
    <3> QED BY <3>1, <3>2
  <2>2. ReaderInv'
    BY <1>4, <1>17 DEF ReaderInv, TypeOK
  <2>3. WriterInv'
    <3>1. CASE p \in Writers
      BY <1>2, <1>17, <3>1 DEF WriterInv, TypeOK
    <3>2. CASE p \in Readers
      BY <1>4, <1>17, <3>2, StoreAssumption
         DEF WriterInv, TypeOK, StoreAssumption
    <3> QED BY <3>1, <3>2 DEF Procs
  <2> QED BY <2>1, <2>2, <2>3
<1>18. ASSUME UNCHANGED <<manifest, blob, receipts>>, tail' \in {tail, Torn}
       PROVE  DiskInv' /\ ReceiptInv'
  <2>1. tail' \in {Nothing, Torn}
    BY <1>4, <1>18 DEF DiskInv
  <2> QED BY <1>4, <1>18, <2>1, ReceiptsKept
          DEF DiskInv, OneRecordPerEvent, BlobBeforeRecord
<1>19. ASSUME NEW p \in Writers, BlobRaises(p) PROVE IInv'
  BY <1>17, <1>18, <1>19, StoreAssumption, AbandonCloses
     DEF BlobRaises, disk, IInv, StoreAssumption
<1>20. ASSUME NEW p \in Writers, ReplaceRaises(p) PROVE IInv'
  BY <1>17, <1>18, <1>20, StoreAssumption, AbandonCloses
     DEF ReplaceRaises, disk, IInv, StoreAssumption
<1>21. ASSUME NEW p, AppendTorn(job[p])
       PROVE  tail' \in {tail, Torn} /\ UNCHANGED manifest
  BY <1>21 DEF Disciplined, AppendTorn
<1>22. ASSUME NEW p \in Writers, AppendRaises(p) PROVE IInv'
  <2>1. /\ pc[p] = "append"
        /\ pc' = [pc EXCEPT ![p] = "closed"]
        /\ mem' = [mem EXCEPT ![p] = << >>]
        /\ job' = [job EXCEPT ![p] = Nothing]
        /\ UNCHANGED <<blob, tmp, fd, receipts>>
    BY <1>22, AbandonCloses DEF AppendRaises
  <2>2. /\ DiskInv' /\ ReceiptInv'
        /\ \A s \in Seq(Record) :
             IsPrefixOf(s, manifest) => IsPrefixOf(s, manifest')
    <3>1. CASE UNCHANGED <<manifest, tail>>
      BY <1>18, <2>1, <3>1
    <3>2. CASE AppendTorn(job[p])
      BY <1>18, <1>21, <2>1, <3>2
    <3>3. CASE AppendLine(job[p])
      BY <1>13, <1>14, <2>1, <3>3
    <3> QED BY <1>22, <3>1, <3>2, <3>3 DEF AppendRaises
  <2>3. p \notin Readers
    BY StoreAssumption DEF StoreAssumption
  <2> QED BY <1>17, <2>1, <2>2, <2>3 DEF IInv
<1>23. ASSUME NEW p \in Procs, Crash(p) PROVE IInv'
  <2>1. /\ pc' = [pc EXCEPT ![p] = "closed"]
        /\ mem' = [mem EXCEPT ![p] = << >>]
        /\ job' = [job EXCEPT ![p] = Nothing]
        /\ UNCHANGED <<blob, tmp, fd, receipts>>
    BY <1>23 DEF Crash
  <2>2. UNCHANGED manifest /\ tail' \in {tail, Torn}
    BY <1>21, <1>23 DEF Crash
  <2>3. p \in Readers => UNCHANGED <<manifest, tail>>
    BY <1>4, <1>23 DEF Crash, ReaderInv
  <2> QED BY <1>17, <1>18, <2>1, <2>2, <2>3 DEF IInv
<1>24. CASE UNCHANGED vars
  <2>1. UNCHANGED <<manifest, tail, blob, tmp, pc, mem, job, fd, receipts>>
    BY <1>24 DEF vars
  <2>2. MemoryInv' /\ ReaderInv' /\ WriterInv'
    BY <1>4, <2>1 DEF MemoryInv, ReaderInv, WriterInv
  <2> QED BY <1>4, <2>1, <2>2, DiskKept, ReceiptsKept DEF IInv
<1> QED BY <1>6, <1>7, <1>8, <1>9, <1>10, <1>11, <1>12, <1>15, <1>16, <1>19,
           <1>20, <1>22, <1>23, <1>24 DEF Next, CallStep

LEMMA IInvInitial == Init => IInv
<1> SUFFICES ASSUME Init PROVE IInv
  OBVIOUS
<1>1. TypeOK
  BY DEF Init, TypeOK, Contents, InCall
<1>2. DiskInv
  BY EmptySeq DEF Init, DiskInv, VerifyChainThrough, OneRecordPerEvent,
                  BlobBeforeRecord
<1>3. MemoryInv
  BY EmptySeq DEF Init, MemoryInv, IsPrefixOf
<1>4. ReaderInv /\ WriterInv /\ ReceiptInv
  BY DEF Init, ReaderInv, WriterInv, ReceiptInv, InCall, Procs
<1> QED BY <1>1, <1>2, <1>3, <1>4 DEF IInv

LEMMA IInvHolds ==
  ASSUME Disciplined
  PROVE  Spec => []IInv
<1>1. IInv /\ [Next]_vars => IInv'
  BY IInvInductive
<1> QED BY <1>1, IInvInitial, PTL DEF Spec

(***************************************************************************)
(* The manifest is one unbroken hash chain at every moment, however many   *)
(* crashes, failed appends and restarts there have been.                   *)
(***************************************************************************)
THEOREM ManifestChain ==
  ASSUME Disciplined
  PROVE  Spec => []ChainIntact
<1>1. IInv => ChainIntact
  <2> SUFFICES ASSUME IInv PROVE ChainIntact
    OBVIOUS
  <2>1. manifest \in Seq(Record) /\ VerifyChainThrough(manifest, Len(manifest))
    BY DEF IInv, DiskInv
  <2>2. \A i \in 1 .. Len(manifest) : manifest[i] # Torn
    BY <2>1, ElementOfSeq, StoreAssumption DEF StoreAssumption
  <2> QED BY <2>1, <2>2 DEF ChainIntact
<1> QED BY <1>1, IInvHolds, PTL

(***************************************************************************)
(* Replays never duplicate an event in the chain.                          *)
(***************************************************************************)
THEOREM NoDuplicateRecord ==
  ASSUME Disciplined
  PROVE  Spec => []OneRecordPerEvent
<1>1. IInv => OneRecordPerEvent
  BY DEF IInv, DiskInv
<1> QED BY <1>1, IInvHolds, PTL

(***************************************************************************)
(* What store() returned is on disk, record and bytes.                     *)
(***************************************************************************)
THEOREM DurableReceipts ==
  ASSUME Disciplined
  PROVE  Spec => []ReceiptsDurable
<1>1. IInv => ReceiptsDurable
  <2> SUFFICES ASSUME IInv, NEW r \in receipts
               PROVE  /\ \E i \in 1 .. Len(manifest) : manifest[i] = r
                      /\ blob[r.event] = "full"
    BY DEF ReceiptsDurable
  <2>1. PICK i \in 1 .. Len(manifest) : manifest[i] = r
    BY DEF IInv, ReceiptInv
  <2>2. manifest[i] # Torn
    BY ElementOfSeq, StoreAssumption DEF IInv, DiskInv, StoreAssumption
  <2> QED BY <2>1, <2>2 DEF IInv, DiskInv, BlobBeforeRecord
<1> QED BY <1>1, IInvHolds, PTL

(***************************************************************************)
(* verify() passes for every record of every process that has the store    *)
(* open, the verifying processes included, while the writer writes.        *)
(***************************************************************************)
THEOREM LoadedVerify ==
  ASSUME Disciplined
  PROVE  Spec => []LoadedRecordsVerify
<1>1. IInv => LoadedRecordsVerify
  <2> SUFFICES ASSUME IInv, NEW p \in Procs, NEW e \in Known(mem[p])
               PROVE  Verify(p, e)
    BY DEF LoadedRecordsVerify
  <2>1. /\ mem[p] \in Seq(Record)
        /\ manifest \in Seq(Record)
        /\ IsPrefixOf(mem[p], manifest)
        /\ VerifyChainThrough(manifest, Len(manifest))
    BY DEF IInv, TypeOK, DiskInv, MemoryInv
  <2>2. VerifyChainThrough(mem[p], Lookup(mem[p], e).chain_index)
    BY <2>1, PrefixVerifies
  <2>3. PICK i \in 1 .. Len(mem[p]) : mem[p][i].event = e
    BY DEF Known
  <2>4. i \in 1 .. Len(manifest) /\ manifest[i].event = e
    BY <2>1, <2>3, LenProperties DEF IsPrefixOf
  <2>5. manifest[i] # Torn
    BY <2>1, <2>4, ElementOfSeq, StoreAssumption DEF StoreAssumption
  <2>6. blob[e] = "full"
    BY <2>4, <2>5 DEF IInv, DiskInv, BlobBeforeRecord
  <2> QED BY <2>2, <2>6 DEF Verify
<1> QED BY <1>1, IInvHolds, PTL

-----------------------------------------------------------------------------
(***************************************************************************)
(* Refinement.  MappedLog and MappedIssued are the refinement mapping of   *)
(* the instance Log.                                                       *)
(***************************************************************************)
Mapped(lines) == [i \in 1 .. Len(lines) |-> EntryOf(lines[i])]
Entries == {EntryOf(x) : x \in Line}

MappedLog == Mapped(manifest)
MappedIssued == {EntryOf(r) : r \in receipts}

LEMMA RecordEntry ==
  ASSUME NEW r \in Record
  PROVE  /\ EntryOf(r) = [event |-> r.event, meta |-> r.meta]
         /\ r.event \in Events /\ r.meta \in Metas
BY StoreAssumption DEF EntryOf, Record, StoreAssumption

LEMMA MappedType ==
  ASSUME NEW s \in Seq(Line)
  PROVE  /\ Mapped(s) \in Seq(Entries)
         /\ Len(Mapped(s)) = Len(s)
         /\ \A i \in 1 .. Len(s) : Mapped(s)[i] = EntryOf(s[i])
<1>1. Len(s) \in Nat
  BY LenProperties
<1>2. \A i \in 1 .. Len(s) : EntryOf(s[i]) \in Entries
  BY ElementOfSeq DEF Entries
<1>3. Mapped(s) \in Seq(Entries)
  BY <1>1, <1>2, IsASeq DEF Mapped
<1>4. DOMAIN Mapped(s) = 1 .. Len(Mapped(s)) /\ Len(Mapped(s)) \in Nat
  BY <1>3, LenProperties
<1>5. DOMAIN Mapped(s) = 1 .. Len(s)
  BY DEF Mapped
<1>6. Len(Mapped(s)) = Len(s)
  BY <1>1, <1>4, <1>5
<1> QED BY <1>3, <1>6 DEF Mapped

LEMMA MappedAppend ==
  ASSUME NEW s \in Seq(Line), NEW r \in Line
  PROVE  Mapped(Append(s, r)) = Append(Mapped(s), EntryOf(r))
<1>1. /\ Append(s, r) \in Seq(Line)
      /\ Len(Append(s, r)) = Len(s) + 1
      /\ \A i \in 1 .. Len(s) : Append(s, r)[i] = s[i]
      /\ Append(s, r)[Len(s) + 1] = r
      /\ Len(s) \in Nat
  BY AppendProperties, LenProperties
<1>2. EntryOf(r) \in Entries
  BY DEF Entries
<1>3. /\ Mapped(s) \in Seq(Entries)
      /\ Len(Mapped(s)) = Len(s)
      /\ \A i \in 1 .. Len(s) : Mapped(s)[i] = EntryOf(s[i])
  BY MappedType
<1>4. /\ Mapped(Append(s, r)) \in Seq(Entries)
      /\ Len(Mapped(Append(s, r))) = Len(s) + 1
      /\ \A i \in 1 .. Len(s) + 1 :
           Mapped(Append(s, r))[i] = EntryOf(Append(s, r)[i])
  BY <1>1, MappedType
<1>5. /\ Append(Mapped(s), EntryOf(r)) \in Seq(Entries)
      /\ Len(Append(Mapped(s), EntryOf(r))) = Len(s) + 1
      /\ \A i \in 1 .. Len(s) :
           Append(Mapped(s), EntryOf(r))[i] = EntryOf(s[i])
      /\ Append(Mapped(s), EntryOf(r))[Len(s) + 1] = EntryOf(r)
  BY <1>2, <1>3, AppendProperties
<1>6. \A i \in 1 .. Len(s) + 1 :
        Mapped(Append(s, r))[i] = Append(Mapped(s), EntryOf(r))[i]
  BY <1>1, <1>4, <1>5
<1> QED BY <1>4, <1>5, <1>6, SeqEqual

(***************************************************************************)
(* One appended line is one Preserve of the abstract log.                  *)
(***************************************************************************)
LEMMA AppendPreserves ==
  ASSUME IInv, NEW p \in Writers, pc[p] = "append",
         AppendLine(job[p]), UNCHANGED receipts
  PROVE  Log!LogNext
<1>1. /\ job[p] \in Record /\ BuildsOn(manifest, job[p])
      /\ manifest' = Append(manifest, job[p])
      /\ manifest \in Seq(Record) /\ manifest \in Seq(Line)
  BY DEF IInv, WriterInv, DiskInv, TypeOK, InCall, AppendLine, Joined, Procs
<1> DEFINE e == job[p].event
           m == job[p].meta
<1>2. /\ e \in Events /\ m \in Metas /\ e \notin Known(manifest)
      /\ EntryOf(job[p]) = [event |-> e, meta |-> m]
  BY <1>1, RecordEntry, BuiltEvent
<1>3. \A i \in 1 .. Len(MappedLog) : MappedLog[i].event # e
  <2> SUFFICES ASSUME NEW i \in 1 .. Len(MappedLog) PROVE MappedLog[i].event # e
    OBVIOUS
  <2>1. i \in 1 .. Len(manifest) /\ MappedLog[i] = EntryOf(manifest[i])
    BY <1>1, MappedType DEF MappedLog
  <2>2. manifest[i] \in Record
    BY <1>1, <2>1, ElementOfSeq
  <2>3. MappedLog[i].event = manifest[i].event
    BY <2>1, <2>2, RecordEntry
  <2> QED BY <1>2, <2>1, <2>3 DEF Known
<1>4. MappedLog' = Append(MappedLog, EntryOf(job[p]))
  <2>1. job[p] \in Line
    BY <1>1 DEF Line
  <2>2. MappedLog' = Mapped(manifest')
    BY DEF MappedLog, Mapped, EntryOf
  <2> QED BY <1>1, <2>1, <2>2, MappedAppend DEF MappedLog
<1>5. MappedIssued' = MappedIssued
  BY DEF MappedIssued, EntryOf
<1>6. Log!Preserve(e, m)
  BY <1>2, <1>3, <1>4, <1>5 DEF Log!Preserve, MappedLog, Mapped, MappedIssued
<1> QED BY <1>2, <1>6 DEF Log!LogNext

(***************************************************************************)
(* One return of store() is one Acknowledge of the abstract log.           *)
(***************************************************************************)
LEMMA ReceiptAcknowledges ==
  ASSUME TypeOK, UNCHANGED manifest, NEW i \in 1 .. Len(manifest),
         receipts' = receipts \cup {manifest[i]}
  PROVE  Log!LogNext
<1>1. i \in 1 .. Len(MappedLog) /\ MappedLog[i] = EntryOf(manifest[i])
  BY MappedType DEF TypeOK, MappedLog
<1>2. MappedIssued' = MappedIssued \cup {MappedLog[i]}
  BY <1>1 DEF MappedIssued, EntryOf
<1>3. MappedLog' = MappedLog
  BY DEF MappedLog, Mapped, EntryOf
<1>4. Log!Acknowledge(i)
  BY <1>2, <1>3 DEF Log!Acknowledge, MappedLog, Mapped, MappedIssued
<1> QED BY <1>1, <1>4 DEF Log!LogNext, MappedLog, Mapped

(***************************************************************************)
(* Every step of the store is a step of the abstract log or a stutter.     *)
(***************************************************************************)
LEMMA StepRefines ==
  ASSUME Disciplined, IInv, [Next]_vars
  PROVE  Log!LogNext \/ UNCHANGED <<MappedLog, MappedIssued>>
<1>1. TypeOK /\ WriterInv /\ DiskInv /\ manifest \in Seq(Record)
  BY DEF IInv, DiskInv
<1>2. ASSUME UNCHANGED <<manifest, receipts>>
      PROVE  UNCHANGED <<MappedLog, MappedIssued>>
  BY <1>2 DEF MappedLog, Mapped, MappedIssued, EntryOf
<1>3. ASSUME NEW p \in Writers, NEW e \in Events, StoreExisting(p, e)
      PROVE  Log!LogNext
  <2>1. mem[p] = manifest /\ UNCHANGED manifest
    BY <1>1, <1>3 DEF StoreExisting, WriterInv, disk
  <2>2. PICK i \in 1 .. Len(manifest) :
          Lookup(mem[p], e) = manifest[i] /\ manifest[i].event = e
    <3>1. e \in Known(manifest)
      BY <1>3, <2>1 DEF StoreExisting
    <3> QED BY <1>1, <2>1, <3>1, LookupProperties, Zenon
  <2> QED BY <1>1, <1>3, <2>1, <2>2, ReceiptAcknowledges DEF StoreExisting
<1>4. ASSUME NEW p \in Writers, Remember(p) PROVE Log!LogNext
  <2>1. /\ manifest = Append(mem[p], job[p]) /\ job[p] \in Record
        /\ mem[p] \in Seq(Record)
        /\ receipts' = receipts \cup {job[p]} /\ UNCHANGED manifest
    BY <1>1, <1>4 DEF Remember, WriterInv, TypeOK, Procs, disk
  <2>2. Len(manifest) \in 1 .. Len(manifest) /\ manifest[Len(manifest)] = job[p]
    BY <2>1, AppendProperties, LenProperties
  <2> QED BY <1>1, <2>1, <2>2, ReceiptAcknowledges
<1>5. ASSUME NEW p \in Writers, AppendManifest(p) PROVE Log!LogNext
  BY <1>5, AppendPreserves DEF AppendManifest
<1>6. ASSUME NEW p \in Writers, AppendRaises(p)
      PROVE  Log!LogNext \/ UNCHANGED <<MappedLog, MappedIssued>>
  <2>1. CASE AppendLine(job[p])
    BY <1>6, <2>1, AppendPreserves DEF AppendRaises
  <2>2. CASE UNCHANGED manifest
    BY <1>2, <1>6, <2>2 DEF AppendRaises
  <2> QED BY <1>6, <2>1, <2>2 DEF AppendRaises, AppendTorn
<1>7. ASSUME \/ \E p \in Procs : Open(p) \/ Close(p) \/ Crash(p)
             \/ \E p \in Writers : \/ \E e \in Events, m \in Metas : StoreNew(p, e, m)
                                   \/ OpenTmp(p) \/ WriteTmp(p) \/ Replace(p)
                                   \/ ReplaceRaises(p) \/ BlobRaises(p)
             \/ UNCHANGED vars
      PROVE  UNCHANGED <<manifest, receipts>>
  BY <1>7 DEF Open, Close, Crash, StoreNew, OpenTmp, WriteTmp, Replace,
              ReplaceRaises, BlobRaises, AppendTorn, disk, vars
<1> QED BY <1>2, <1>3, <1>4, <1>5, <1>6, <1>7 DEF Next, CallStep

(***************************************************************************)
(* The store implements the append-only log with durable receipts.         *)
(***************************************************************************)
THEOREM Refinement ==
  ASSUME Disciplined
  PROVE  Spec => PreservesEvidence
<1>1. Init => Log!LogInit
  BY EmptySeq DEF Init, Log!LogInit
<1>2. IInv /\ [Next]_vars
      => [Log!LogNext]_<<[i \in 1 .. Len(manifest) |-> EntryOf(manifest[i])],
                         {EntryOf(r) : r \in receipts}>>
  BY StepRefines DEF MappedLog, Mapped, MappedIssued
<1> QED BY <1>1, <1>2, IInvHolds, PTL DEF Spec, PreservesEvidence, Log!LogSpec

-----------------------------------------------------------------------------
(***************************************************************************)
(* Outside of Disciplined: callers that go on after an error, lines that   *)
(* lose their newline, and any number of writing processes.                *)
(***************************************************************************)
OneWriter == \A p, q \in Writers : p = q

-----------------------------------------------------------------------------
(***************************************************************************)
(* One writer.  Its temporary file is its own, so that what it is about to *)
(* append has its bytes.                                                   *)
(***************************************************************************)
BlobInv ==
  /\ TypeOK
  /\ ReaderInv
  /\ BlobBeforeRecord
  /\ \A p \in Writers :
       /\ pc[p] = "write_tmp" => fd[p] = "tmp"
       /\ pc[p] = "replace" => tmp[job[p].event] = "full"
       /\ pc[p] = "append" => blob[job[p].event] = "full"

(***************************************************************************)
(* One writer.  What its memory answers for an event is what the manifest  *)
(* answers, as long as it loads, and the record of every receipt.  An      *)
(* event that is being stored has no receipt yet.                          *)
(***************************************************************************)
Answers(records, record) ==
  /\ record.event \in Known(records)
  /\ Lookup(records, record.event) = record

AnswerInv ==
  /\ TypeOK
  /\ ReaderInv
  /\ StableReceipts
  /\ Loadable => \A r \in receipts : Answers(Loaded, r)
  /\ \A p \in Writers :
       /\ pc[p] # "closed" => \A r \in receipts : Answers(mem[p], r)
       /\ pc[p] # "closed" /\ Loadable =>
            \A e \in Known(mem[p]) : Answers(Loaded, Lookup(mem[p], e))
       /\ pc[p] \in InCall => job[p].event \notin Known(mem[p])
       /\ pc[p] = "remember" /\ Loadable => Answers(Loaded, job[p])

(***************************************************************************)
(* Any number of writers, none of which fails.  A file that is incomplete  *)
(* is open in a process that has yet to write it, whatever the file is     *)
(* called by now, and a recorded blob exists.                              *)
(***************************************************************************)
Writes(q, e, name) ==
  pc[q] = "write_tmp" /\ job[q].event = e /\ fd[q] = name

HealInv ==
  faults = 0 =>
    /\ \A e \in Events : blob[e] = "partial" => \E q \in Procs : Writes(q, e, "blob")
    /\ \A e \in Events : tmp[e] = "partial" => \E q \in Procs : Writes(q, e, "tmp")
    /\ \A i \in 1 .. Len(manifest) :
         manifest[i] # Torn => blob[manifest[i].event] # "absent"
    /\ \A p \in Procs : pc[p] = "append" => blob[job[p].event] # "absent"

-----------------------------------------------------------------------------
(***************************************************************************)
(* Steps, taken together by what they leave alone.                         *)
(***************************************************************************)
LEMMA ReadersOnlyRead ==
  ASSUME TypeOK, ReaderInv, [Next]_vars
  PROVE  ReaderInv'
<1> SUFFICES ASSUME NEW r \in Readers PROVE pc'[r] \in {"closed", "ready"}
  BY DEF ReaderInv
<1>1. pc[r] \in {"closed", "ready"} /\ r \in Procs /\ r \notin Writers
  BY StoreAssumption DEF ReaderInv, Procs
<1>2. pc \in [Procs -> {"closed", "ready"} \cup InCall]
  BY DEF TypeOK
<1> USE <1>1, <1>2
<1>3. ASSUME NEW p \in Procs, Open(p) \/ Close(p) \/ Crash(p)
      PROVE  pc'[r] \in {"closed", "ready"}
  BY <1>3 DEF Open, Close, Crash
<1>4. ASSUME NEW p \in Writers, Abandon(p)
      PROVE  pc'[r] = pc[r]
  BY <1>4 DEF Abandon
<1>5. ASSUME NEW p \in Writers, CallStep(p) \/ BlobRaises(p) \/ AppendRaises(p)
      PROVE  pc'[r] = pc[r]
  <2>1. CASE OpenTmp(p) \/ WriteTmp(p) \/ Replace(p) \/ AppendManifest(p) \/ Remember(p)
    BY <2>1 DEF OpenTmp, WriteTmp, Replace, AppendManifest, Remember
  <2>2. CASE ReplaceRaises(p) \/ BlobRaises(p) \/ AppendRaises(p)
    BY <2>2, <1>4 DEF ReplaceRaises, BlobRaises, AppendRaises
  <2> QED BY <1>5, <2>1, <2>2 DEF CallStep
<1>6. ASSUME NEW p \in Writers, NEW e \in Events,
             StoreExisting(p, e) \/ \E m \in Metas : StoreNew(p, e, m)
      PROVE  pc'[r] = pc[r]
  BY <1>6 DEF StoreExisting, StoreNew
<1>7. CASE UNCHANGED vars
  BY <1>7 DEF vars
<1> QED
  BY <1>3, <1>5, <1>6, <1>7 DEF Next

\* An exception leaves the process outside of any call.
LEMMA AbandonLeaves ==
  ASSUME TypeOK, NEW p \in Procs, Abandon(p)
  PROVE  /\ pc'[p] \in {"closed", "ready"}
         /\ \A q \in Procs \ {p} :
              pc'[q] = pc[q] /\ mem'[q] = mem[q] /\ job'[q] = job[q]
         /\ pc'[p] = "ready" => mem'[p] = mem[p]
BY DEF Abandon, TypeOK

(***************************************************************************)
(* What an interrupted append leaves of the terminated lines: at most one  *)
(* line more, the record or one that does not parse.                       *)
(***************************************************************************)
LEMMA LinesAfterError ==
  ASSUME TypeOK, NEW p \in Procs, AppendRaises(p) \/ Crash(p) \/ AppendManifest(p)
  PROVE  \/ manifest' = manifest
         \/ pc[p] = "append" /\ manifest' = Append(manifest, Joined(job[p]))
BY DEF AppendRaises, Crash, AppendManifest, AppendLine, AppendTorn

-----------------------------------------------------------------------------
\* Lines that were there keep their blobs, and so does one that is added.
LEMMA BlobsStay ==
  ASSUME TypeOK, BlobBeforeRecord,
         \A e \in Events : blob[e] = "full" => blob'[e] = "full",
         \/ manifest' = manifest
         \/ \E line \in Line :
              /\ manifest' = Append(manifest, line)
              /\ line # Torn => blob'[line.event] = "full"
  PROVE  BlobBeforeRecord'
<1>1. manifest \in Seq(Line)
  BY DEF TypeOK
<1>2. \A i \in 1 .. Len(manifest) : manifest[i] # Torn =>
        manifest[i].event \in Events /\ blob'[manifest[i].event] = "full"
  <2> SUFFICES ASSUME NEW i \in 1 .. Len(manifest), manifest[i] # Torn
               PROVE  /\ manifest[i].event \in Events
                      /\ blob'[manifest[i].event] = "full"
    OBVIOUS
  <2>1. manifest[i] \in Record
    BY <1>1, ElementOfSeq DEF Line
  <2>2. manifest[i].event \in Events
    BY <2>1 DEF Record
  <2> QED BY <2>2 DEF BlobBeforeRecord
<1>3. CASE manifest' = manifest
  BY <1>2, <1>3 DEF BlobBeforeRecord
<1>4. ASSUME NEW line \in Line, manifest' = Append(manifest, line),
             line # Torn => blob'[line.event] = "full"
      PROVE  BlobBeforeRecord'
  <2>1. /\ Len(manifest') = Len(manifest) + 1
        /\ \A i \in 1 .. Len(manifest) : manifest'[i] = manifest[i]
        /\ manifest'[Len(manifest) + 1] = line
    BY <1>1, <1>4, AppendProperties
  <2>2. \A i \in 1 .. Len(manifest') :
          i \in 1 .. Len(manifest) \/ i = Len(manifest) + 1
    BY <1>1, <2>1, LenProperties
  <2> QED BY <1>2, <1>4, <2>1, <2>2 DEF BlobBeforeRecord
<1> QED
  BY <1>3, <1>4

LEMMA BlobNext ==
  ASSUME OneWriter
  PROVE  BlobInv /\ [Next]_vars => BlobInv'
<1> SUFFICES ASSUME BlobInv, [Next]_vars PROVE BlobInv'
  OBVIOUS
<1> DEFINE Ready(p) == /\ pc[p] = "write_tmp" => fd[p] = "tmp"
                       /\ pc[p] = "replace" => tmp[job[p].event] = "full"
                       /\ pc[p] = "append" => blob[job[p].event] = "full"
           Goal == BlobBeforeRecord' /\ \A p \in Writers : Ready(p)'
<1>1. TypeOK' /\ ReaderInv'
  BY TypeInductive, ReadersOnlyRead DEF BlobInv
<1>2. /\ TypeOK /\ BlobBeforeRecord /\ \A p \in Writers : Ready(p)
      /\ \A p \in Writers : p \in Procs
  BY DEF BlobInv, Procs
<1>3. SUFFICES Goal
  BY <1>1 DEF BlobInv
<1> USE DEF TypeOK, disk
\* Steps outside of the calls, and of readers.
<1>4. ASSUME NEW p \in Procs, Open(p) \/ Close(p)
      PROVE  Goal
  <2>1. UNCHANGED <<manifest, blob, tmp, job, fd>>
    BY <1>4 DEF Open, Close
  <2>2. \A q \in Procs : pc'[q] = pc[q] \/ pc'[q] \in {"closed", "ready"}
    BY <1>2, <1>4 DEF Open, Close
  <2> QED BY <1>2, <2>1, <2>2, BlobsStay
<1>5. ASSUME NEW p \in Writers, NEW e \in Events, StoreExisting(p, e)
      PROVE  Goal
  <2>1. UNCHANGED <<manifest, blob, tmp, job, fd, pc>>
    BY <1>5 DEF StoreExisting
  <2> QED BY <1>2, <2>1, BlobsStay
<1>6. ASSUME NEW p \in Writers, NEW e \in Events, NEW m \in Metas, StoreNew(p, e, m)
      PROVE  Goal
  <2>1. UNCHANGED <<manifest, blob, tmp, fd>>
    BY <1>6 DEF StoreNew
  <2>2. \A q \in Writers : q = p /\ pc'[q] = "open_tmp"
    BY OneWriter, <1>2, <1>6 DEF OneWriter, StoreNew
  <2> QED BY <1>2, <2>1, <2>2, BlobsStay
\* The steps of a call.
<1>7. ASSUME NEW p \in Writers, OpenTmp(p)
      PROVE  Goal
  <2>1. UNCHANGED <<manifest, blob>>
    BY <1>7 DEF OpenTmp
  <2>2. \A q \in Writers : q = p /\ pc'[q] = "write_tmp" /\ fd'[q] = "tmp"
    BY OneWriter, <1>2, <1>7 DEF OneWriter, OpenTmp
  <2> QED BY <1>2, <2>1, <2>2, BlobsStay
<1>8. ASSUME NEW p \in Writers, WriteTmp(p)
      PROVE  Goal
  <2>1. pc[p] = "write_tmp" /\ fd[p] = "tmp" /\ job[p].event \in Events
    BY <1>2, <1>8 DEF WriteTmp, InCall, Record
  <2>2. /\ UNCHANGED <<manifest, blob, job>>
        /\ tmp'[job[p].event] = "full" /\ pc'[p] = "replace"
    BY <1>2, <1>8, <2>1 DEF WriteTmp
  <2>3. \A q \in Writers : q = p
    BY OneWriter DEF OneWriter
  <2> QED BY <1>2, <2>2, <2>3, BlobsStay
<1>9. ASSUME NEW p \in Writers, Replace(p)
      PROVE  Goal
  <2>1. pc[p] = "replace" /\ tmp[job[p].event] = "full" /\ job[p].event \in Events
    BY <1>2, <1>9 DEF Replace, InCall, Record
  <2>2. /\ UNCHANGED <<manifest, job>> /\ pc'[p] = "append"
        /\ blob' = [blob EXCEPT ![job[p].event] = "full"]
    BY <1>2, <1>9, <2>1 DEF Replace
  <2>3. \A q \in Writers : q = p
    BY OneWriter DEF OneWriter
  <2>4. /\ \A e \in Events : blob[e] = "full" => blob'[e] = "full"
        /\ blob'[job[p].event] = "full"
    BY <1>2, <2>1, <2>2
  <2> QED BY <1>2, <2>2, <2>3, <2>4, BlobsStay
<1>10. ASSUME NEW p \in Writers, Remember(p)
       PROVE  Goal
  <2>1. UNCHANGED <<manifest, blob>>
    BY <1>10 DEF Remember
  <2>2. \A q \in Writers : q = p /\ pc'[q] = "ready"
    BY OneWriter, <1>2, <1>10 DEF OneWriter, Remember
  <2> QED BY <1>2, <2>1, <2>2, BlobsStay
\* Lines, and errors.
<1>11. ASSUME NEW p \in Procs, NEW q \in Writers
       PROVE  p = q \/ pc[p] \in {"closed", "ready"}
  BY OneWriter DEF OneWriter, BlobInv, ReaderInv, Procs
<1>12. ASSUME NEW p \in Procs,
              UNCHANGED blob,
              \A q \in Writers : pc'[q] \in {"closed", "ready", "remember"} \/
                (p \notin Writers /\ pc'[q] = pc[q] /\ UNCHANGED <<tmp, fd>>
                                  /\ job'[q] = job[q]),
              \/ manifest' = manifest
              \/ pc[p] = "append" /\ manifest' = Append(manifest, Joined(job[p]))
       PROVE  Goal
  <2>0. ASSUME NEW q \in Writers
        PROVE  Ready(q)'
    <3>1. CASE pc'[q] \in {"closed", "ready", "remember"}
      BY <3>1
    <3>2. CASE UNCHANGED <<tmp, fd>> /\ pc'[q] = pc[q] /\ job'[q] = job[q]
      <4>1. Ready(q)
        BY <1>2
      <4> QED BY <1>12, <3>2, <4>1
    <3> QED BY <1>12, <3>1, <3>2
  <2>1. CASE manifest' = manifest
    <3>1. BlobBeforeRecord'
      BY <1>2, <1>12, <2>1, BlobsStay
    <3> QED BY <2>0, <3>1
  <2>2. CASE pc[p] = "append" /\ manifest' = Append(manifest, Joined(job[p]))
    <3>1. p \in Writers
      BY <2>2 DEF BlobInv, ReaderInv, Procs
    <3>2. job[p] \in Record /\ blob[job[p].event] = "full"
      BY <1>2, <2>2, <3>1 DEF InCall
    <3>3. Joined(job[p]) \in Line /\ (Joined(job[p]) # Torn => blob'[Joined(job[p]).event] = "full")
      BY <1>12, <3>2 DEF Joined, Line
    <3>4. BlobBeforeRecord'
      BY <1>2, <1>12, <2>2, <3>3, BlobsStay
    <3> QED BY <2>0, <3>4
  <2> QED BY <1>12, <2>1, <2>2
<1>13. ASSUME NEW p \in Writers, AppendManifest(p)
       PROVE  Goal
  <2>1. /\ UNCHANGED blob /\ pc[p] = "append"
        /\ manifest' = Append(manifest, Joined(job[p]))
    BY <1>13 DEF AppendManifest, AppendLine
  <2>2. \A q \in Writers : pc'[q] = "remember"
    BY OneWriter, <1>2, <1>13 DEF OneWriter, AppendManifest
  <2> QED BY <1>2, <1>12, <2>1, <2>2
<1>14. ASSUME NEW p \in Writers, ReplaceRaises(p) \/ BlobRaises(p) \/ AppendRaises(p)
       PROVE  Goal
  <2>1. UNCHANGED blob /\ Abandon(p)
    BY <1>14 DEF ReplaceRaises, BlobRaises, AppendRaises
  <2>2. \A q \in Writers : pc'[q] \in {"closed", "ready"}
    BY OneWriter, <1>2, <2>1, AbandonLeaves DEF OneWriter
  <2>3. \/ manifest' = manifest
        \/ pc[p] = "append" /\ manifest' = Append(manifest, Joined(job[p]))
    BY <1>2, <1>14, LinesAfterError DEF ReplaceRaises, BlobRaises
  <2> QED BY <1>2, <1>12, <2>1, <2>2, <2>3
<1>15. ASSUME NEW p \in Procs, Crash(p)
       PROVE  Goal
  <2>1. UNCHANGED <<blob, tmp, fd>> /\ pc' = [pc EXCEPT ![p] = "closed"]
        /\ job' = [job EXCEPT ![p] = Nothing]
    BY <1>15 DEF Crash
  <2>2. \A q \in Writers : pc'[q] = "closed" \/
          (p \notin Writers /\ pc'[q] = pc[q] /\ job'[q] = job[q])
    BY OneWriter, <1>2, <2>1 DEF OneWriter
  <2>3. \/ manifest' = manifest
        \/ pc[p] = "append" /\ manifest' = Append(manifest, Joined(job[p]))
    BY <1>2, <1>15, LinesAfterError
  <2> QED BY <1>12, <2>1, <2>2, <2>3
<1>16. CASE UNCHANGED vars
  BY <1>2, <1>16, BlobsStay DEF vars
<1> HIDE DEF Goal
<1> QED
  BY <1>4, <1>5, <1>6, <1>7, <1>8, <1>9, <1>10, <1>13, <1>14, <1>15, <1>16
     DEF Next, CallStep

(***************************************************************************)
(* One writer, whatever fails and whatever its caller does after an error: *)
(* a line of the manifest that parses has its blob, complete, because      *)
(* store() writes the blob before the line.                                *)
(***************************************************************************)
THEOREM BlobsComeFirst ==
  ASSUME OneWriter
  PROVE  Spec => []BlobBeforeRecord
<1>1. Init => BlobInv
  <2> SUFFICES ASSUME Init PROVE BlobInv
    OBVIOUS
  <2>1. TypeOK
    BY DEF Init, TypeOK, Contents, InCall
  <2>2. BlobBeforeRecord
    BY EmptySeq DEF Init, BlobBeforeRecord
  <2> QED BY <2>1, <2>2 DEF Init, BlobInv, ReaderInv, Procs
<1>2. BlobInv /\ [Next]_vars => BlobInv'
  BY BlobNext
<1>3. BlobInv => BlobBeforeRecord
  BY DEF BlobInv
<1> QED
  BY <1>1, <1>2, <1>3, PTL DEF Spec

-----------------------------------------------------------------------------
(***************************************************************************)
(* A step that touches no file and no process that is writing one.         *)
(***************************************************************************)
LEMMA HealStays ==
  ASSUME HealInv, faults = 0, UNCHANGED <<manifest, blob, tmp, fd>>,
         \A q \in Procs :
           pc[q] = "write_tmp" => pc'[q] = "write_tmp" /\ job'[q] = job[q],
         \A q \in Procs :
           pc'[q] = "append" => pc[q] = "append" /\ job'[q] = job[q]
  PROVE  HealInv'
<1>1. \A q \in Procs, e \in Events, name \in {"tmp", "blob"} :
        Writes(q, e, name) => Writes(q, e, name)'
  BY DEF Writes
<1> QED
  BY <1>1 DEF HealInv

\* The line appended is about a blob that is there.
LEMMA HealAppend ==
  ASSUME TypeOK, HealInv, faults = 0, NEW p \in Writers, AppendManifest(p)
  PROVE  HealInv'
<1>1. /\ pc[p] = "append" /\ job[p] \in Record /\ p \in Procs
      /\ manifest' = Append(manifest, Joined(job[p]))
      /\ pc' = [pc EXCEPT ![p] = "remember"]
      /\ UNCHANGED <<blob, tmp, job, fd>>
      /\ manifest \in Seq(Line) /\ Joined(job[p]) \in Line
      /\ pc \in [Procs -> {"closed", "ready"} \cup InCall]
  BY DEF AppendManifest, AppendLine, TypeOK, InCall, Procs, Joined, Line
<1>2. \A q \in Procs, e \in Events, name \in {"tmp", "blob"} :
        Writes(q, e, name) => Writes(q, e, name)'
  BY <1>1 DEF Writes
<1>3. /\ Len(manifest') = Len(manifest) + 1
      /\ \A i \in 1 .. Len(manifest) : manifest'[i] = manifest[i]
      /\ manifest'[Len(manifest) + 1] = Joined(job[p])
  BY <1>1, AppendProperties
<1>4. \A i \in 1 .. Len(manifest') :
        i \in 1 .. Len(manifest) \/ i = Len(manifest) + 1
  BY <1>1, <1>3, LenProperties
<1>5. Joined(job[p]) # Torn => blob[Joined(job[p]).event] # "absent"
  BY <1>1 DEF HealInv, Joined
<1>6. \A i \in 1 .. Len(manifest') :
        manifest'[i] # Torn => blob'[manifest'[i].event] # "absent"
  BY <1>1, <1>3, <1>4, <1>5 DEF HealInv
<1>7. \A q \in Procs : pc'[q] = "append" => pc[q] = "append"
  BY <1>1
<1> QED
  BY <1>1, <1>2, <1>6, <1>7 DEF HealInv

\* The file is truncated under whoever else has it open: it stays open here.
LEMMA HealOpenTmp ==
  ASSUME TypeOK, HealInv, faults = 0, NEW p \in Writers, OpenTmp(p)
  PROVE  HealInv'
<1> DEFINE d == job[p].event
<1>1. /\ pc[p] = "open_tmp" /\ p \in Procs
      /\ tmp' = [tmp EXCEPT ![d] = "partial"] /\ fd' = [fd EXCEPT ![p] = "tmp"]
      /\ pc' = [pc EXCEPT ![p] = "write_tmp"]
      /\ UNCHANGED <<manifest, blob, job>>
      /\ pc \in [Procs -> {"closed", "ready"} \cup InCall]
      /\ fd \in [Procs -> {"tmp", "blob", "gone"}]
      /\ tmp \in [Events -> Contents]
  BY DEF OpenTmp, TypeOK, Procs
<1>2. \A e \in Events : e = d => Writes(p, e, "tmp")'
  BY <1>1 DEF Writes
<1>3. \A q \in Procs, e \in Events, name \in {"tmp", "blob"} :
        Writes(q, e, name) => Writes(q, e, name)'
  BY <1>1 DEF Writes
<1>4. \A e \in Events : tmp'[e] = "partial" => e = d \/ tmp[e] = "partial"
  <2> HIDE DEF d
  <2> QED BY <1>1
<1>5. \A q \in Procs : pc'[q] = "append" => pc[q] = "append"
  BY <1>1
<1> HIDE DEF d
<1>6. \A e \in Events : tmp'[e] = "partial" => \E q \in Procs : Writes(q, e, "tmp")'
  BY <1>1, <1>2, <1>3, <1>4 DEF HealInv
<1>7. \A e \in Events : blob'[e] = "partial" => \E q \in Procs : Writes(q, e, "blob")'
  BY <1>1, <1>3 DEF HealInv
<1> QED
  BY <1>1, <1>5, <1>6, <1>7 DEF HealInv

\* The bytes reach the file wherever it is by now, or a file without a name.
LEMMA HealWriteTmp ==
  ASSUME TypeOK, HealInv, faults = 0, NEW p \in Writers, WriteTmp(p)
  PROVE  HealInv'
<1> DEFINE d == job[p].event
<1>1. /\ pc[p] = "write_tmp" /\ p \in Procs /\ d \in Events
      /\ tmp' = IF fd[p] = "tmp" THEN [tmp EXCEPT ![d] = "full"] ELSE tmp
      /\ blob' = IF fd[p] = "blob" THEN [blob EXCEPT ![d] = "full"] ELSE blob
      /\ pc' = [pc EXCEPT ![p] = "replace"]
      /\ UNCHANGED <<manifest, job, fd>>
      /\ pc \in [Procs -> {"closed", "ready"} \cup InCall]
      /\ tmp \in [Events -> Contents] /\ blob \in [Events -> Contents]
  BY DEF WriteTmp, TypeOK, Procs, InCall, Record
<1> HIDE DEF d
<1>2. \A q \in Procs \ {p}, e \in Events, name \in {"tmp", "blob"} :
        Writes(q, e, name) => Writes(q, e, name)'
  BY <1>1 DEF Writes
<1>3. /\ \A e \in Events : tmp'[e] = "partial" =>
           tmp[e] = "partial" /\ ~(fd[p] = "tmp" /\ e = d)
      /\ \A e \in Events : blob'[e] = "partial" =>
           blob[e] = "partial" /\ ~(fd[p] = "blob" /\ e = d)
      /\ \A e \in Events : blob'[e] = "absent" => blob[e] = "absent"
  BY <1>1
<1>4. \A e \in Events, name \in {"tmp", "blob"} :
        Writes(p, e, name) => fd[p] = name /\ e = d
  BY DEF Writes, d
<1>5. \A e \in Events : tmp'[e] = "partial" => \E q \in Procs : Writes(q, e, "tmp")'
  BY <1>2, <1>3, <1>4 DEF HealInv
<1>6. \A e \in Events : blob'[e] = "partial" => \E q \in Procs : Writes(q, e, "blob")'
  BY <1>2, <1>3, <1>4 DEF HealInv
<1>7. \A i \in 1 .. Len(manifest') :
        manifest'[i] # Torn => blob'[manifest'[i].event] # "absent"
  <2> SUFFICES ASSUME NEW i \in 1 .. Len(manifest), manifest[i] # Torn
               PROVE  blob'[manifest[i].event] # "absent"
    BY <1>1
  <2>1. manifest[i] \in Record
    BY ElementOfSeq DEF TypeOK, Line
  <2>2. manifest[i].event \in Events
    BY <2>1 DEF Record
  <2> QED BY <1>3, <2>2 DEF HealInv
<1>8. \A q \in Procs : pc'[q] = "append" => blob'[job'[q].event] # "absent"
  <2> SUFFICES ASSUME NEW q \in Procs, pc[q] = "append"
               PROVE  blob'[job[q].event] # "absent"
    BY <1>1
  <2>1. job[q].event \in Events
    BY DEF TypeOK, InCall, Record
  <2> QED BY <1>3, <2>1 DEF HealInv
<1> QED
  BY <1>5, <1>6, <1>7, <1>8 DEF HealInv

(***************************************************************************)
(* The renamed file: whoever has it open has it open under its new name.   *)
(***************************************************************************)
LEMMA HealReplace ==
  ASSUME TypeOK, HealInv, faults = 0, NEW p \in Writers, Replace(p)
  PROVE  HealInv'
<1> DEFINE d == job[p].event
<1>1. /\ pc[p] = "replace" /\ p \in Procs /\ d \in Events /\ tmp[d] # "absent"
      /\ tmp' = [tmp EXCEPT ![d] = "absent"] /\ blob' = [blob EXCEPT ![d] = tmp[d]]
      /\ fd' = [q \in Procs |-> Moved(q, d)]
      /\ pc' = [pc EXCEPT ![p] = "append"]
      /\ UNCHANGED <<manifest, job>>
      /\ pc \in [Procs -> {"closed", "ready"} \cup InCall]
      /\ tmp \in [Events -> Contents] /\ blob \in [Events -> Contents]
  BY DEF Replace, TypeOK, Procs, InCall, Record
<1> HIDE DEF d
<1>2. \A e \in Events : /\ e # d => tmp'[e] = tmp[e] /\ blob'[e] = blob[e]
                        /\ e = d => tmp'[e] = "absent" /\ blob'[e] = tmp[e]
  BY <1>1
<1>3. ASSUME NEW q \in Procs, NEW e \in Events
      PROVE  /\ e # d /\ Writes(q, e, "tmp") => Writes(q, e, "tmp")'
             /\ e # d /\ Writes(q, e, "blob") => Writes(q, e, "blob")'
             /\ e = d /\ Writes(q, e, "tmp") => Writes(q, e, "blob")'
  <2>1. pc[q] = "write_tmp" => pc'[q] = "write_tmp" /\ job'[q] = job[q]
    BY <1>1
  <2>2. fd'[q] = Moved(q, d)
    BY <1>1
  <2>3. job[q].event # d => fd'[q] = fd[q]
    BY <2>2 DEF Moved
  <2>4. pc[q] = "write_tmp" /\ job[q].event = d /\ fd[q] = "tmp" => fd'[q] = "blob"
    BY <2>2 DEF Moved
  <2> QED
    BY <2>1, <2>3, <2>4 DEF Writes
<1>4. \A e \in Events : tmp'[e] = "partial" => \E q \in Procs : Writes(q, e, "tmp")'
  BY <1>2, <1>3 DEF HealInv
<1>5. \A e \in Events : blob'[e] = "partial" => \E q \in Procs : Writes(q, e, "blob")'
  BY <1>2, <1>3 DEF HealInv
<1>6. \A e \in Events : blob[e] # "absent" \/ e = d => blob'[e] # "absent"
  BY <1>1, <1>2
<1>7. \A i \in 1 .. Len(manifest') :
        manifest'[i] # Torn => blob'[manifest'[i].event] # "absent"
  <2> SUFFICES ASSUME NEW i \in 1 .. Len(manifest), manifest[i] # Torn
               PROVE  blob'[manifest[i].event] # "absent"
    BY <1>1
  <2>1. manifest[i] \in Record
    BY ElementOfSeq DEF TypeOK, Line
  <2>2. manifest[i].event \in Events
    BY <2>1 DEF Record
  <2> QED BY <1>6, <2>2 DEF HealInv
<1>8. \A q \in Procs : pc'[q] = "append" => blob'[job'[q].event] # "absent"
  <2> SUFFICES ASSUME NEW q \in Procs, pc[q] = "append" \/ q = p
               PROVE  blob'[job[q].event] # "absent"
    BY <1>1
  <2>1. CASE q = p
    BY <1>1, <1>6, <2>1 DEF d
  <2>2. CASE pc[q] = "append"
    <3>1. job[q].event \in Events
      BY <2>2 DEF TypeOK, InCall, Record
    <3> QED BY <1>6, <2>2, <3>1 DEF HealInv
  <2> QED BY <2>1, <2>2
<1> QED
  BY <1>4, <1>5, <1>7, <1>8 DEF HealInv

LEMMA HealNext == TypeOK /\ HealInv /\ [Next]_vars => HealInv'
<1> SUFFICES ASSUME TypeOK, HealInv, [Next]_vars, faults' = 0
             PROVE  HealInv'
  BY DEF HealInv
<1>1. faults \in Nat /\ pc \in [Procs -> {"closed", "ready"} \cup InCall]
  BY DEF TypeOK
<1>2. ASSUME NEW p \in Procs, Open(p) \/ Close(p)
      PROVE  HealInv'
  <2>1. /\ faults = 0 /\ UNCHANGED <<manifest, blob, tmp, fd, job>>
        /\ pc[p] \in {"closed", "ready"}
        /\ pc' = [pc EXCEPT ![p] = "ready"] \/ pc' = [pc EXCEPT ![p] = "closed"]
    BY <1>2 DEF Open, Close, disk
  <2>2. \A q \in Procs : pc'[q] = pc[q] \/
          (pc[q] \in {"closed", "ready"} /\ pc'[q] \in {"closed", "ready"})
    BY <1>1, <2>1
  <2> QED BY <2>1, <2>2, HealStays
<1>3. ASSUME NEW p \in Writers, NEW e \in Events, StoreExisting(p, e)
      PROVE  HealInv'
  BY <1>3, HealStays DEF StoreExisting, disk
<1>4. ASSUME NEW p \in Writers, NEW e \in Events, NEW m \in Metas, StoreNew(p, e, m)
      PROVE  HealInv'
  <2>1. /\ faults = 0 /\ UNCHANGED <<manifest, blob, tmp, fd>>
        /\ pc[p] = "ready" /\ p \in Procs
        /\ pc' = [pc EXCEPT ![p] = "open_tmp"]
        /\ \A q \in Procs \ {p} : job'[q] = job[q]
    BY <1>4 DEF StoreNew, disk, Procs, TypeOK
  <2>2. \A q \in Procs : \/ pc'[q] = pc[q] /\ job'[q] = job[q]
                         \/ pc[q] = "ready" /\ pc'[q] = "open_tmp"
    BY <1>1, <2>1
  <2> QED BY <2>1, <2>2, HealStays
<1>5. ASSUME NEW p \in Writers, OpenTmp(p) \/ WriteTmp(p) \/ Replace(p)
                                \/ AppendManifest(p)
      PROVE  HealInv'
  <2>1. faults = 0
    BY <1>5 DEF OpenTmp, WriteTmp, Replace, AppendManifest
  <2> QED
    BY <1>5, <2>1, HealOpenTmp, HealWriteTmp, HealReplace, HealAppend
<1>6. ASSUME NEW p \in Writers, ReplaceRaises(p)
      PROVE  HealInv'
  <2>1. /\ faults = 0 /\ UNCHANGED <<manifest, blob, tmp, fd>>
        /\ pc[p] = "replace" /\ p \in Procs /\ Abandon(p)
    BY <1>6 DEF ReplaceRaises, disk, Procs
  <2>2. \A q \in Procs : \/ pc'[q] = pc[q] /\ job'[q] = job[q]
                         \/ pc[q] = "replace" /\ pc'[q] \in {"closed", "ready"}
    BY <2>1, AbandonLeaves
  <2> QED BY <2>1, <2>2, HealStays
<1>7. ASSUME NEW p \in Writers, Remember(p)
      PROVE  HealInv'
  <2>1. /\ faults = 0 /\ UNCHANGED <<manifest, blob, tmp, fd>>
        /\ pc[p] = "remember" /\ p \in Procs
        /\ pc' = [pc EXCEPT ![p] = "ready"]
        /\ \A q \in Procs \ {p} : job'[q] = job[q]
    BY <1>7 DEF Remember, disk, Procs, TypeOK
  <2>2. \A q \in Procs : \/ pc'[q] = pc[q] /\ job'[q] = job[q]
                         \/ pc[q] = "remember" /\ pc'[q] = "ready"
    BY <1>1, <2>1
  <2> QED BY <2>1, <2>2, HealStays
<1>8. ASSUME NEW p, BlobRaises(p) \/ AppendRaises(p) \/ Crash(p)
      PROVE  FALSE
  BY <1>1, <1>8 DEF BlobRaises, AppendRaises, Crash, Fault
<1>9. CASE UNCHANGED vars
  BY <1>9, HealStays DEF vars
<1> QED
  BY <1>2, <1>3, <1>4, <1>5, <1>6, <1>7, <1>8, <1>9 DEF Next, CallStep

(***************************************************************************)
(* Any number of writing processes, which may store the same event and so  *)
(* share its temporary file: if none of them fails, every recorded blob is *)
(* complete when no call is in progress.                                   *)
(***************************************************************************)
THEOREM SharedFilesHeal == Spec => []SharedTemporaryHeals
<1>1. Init => TypeOK /\ HealInv
  <2> SUFFICES ASSUME Init PROVE TypeOK /\ HealInv
    OBVIOUS
  <2>1. TypeOK
    BY DEF Init, TypeOK, Contents, InCall
  <2> QED BY <2>1, EmptySeq DEF Init, HealInv
<1>2. TypeOK /\ HealInv => SharedTemporaryHeals
  <2> SUFFICES ASSUME TypeOK, HealInv, faults = 0,
                      \A p \in Procs : pc[p] \notin InCall,
                      NEW i \in 1 .. Len(manifest), manifest[i] # Torn
               PROVE  blob[manifest[i].event] = "full"
    BY DEF SharedTemporaryHeals, BlobBeforeRecord
  <2>1. manifest[i] \in Record
    BY ElementOfSeq DEF TypeOK, Line
  <2>2. manifest[i].event \in Events
    BY <2>1 DEF Record
  <2>3. blob[manifest[i].event] \in Contents
    BY <2>2 DEF TypeOK
  <2>4. blob[manifest[i].event] # "absent"
    BY DEF HealInv
  <2>5. blob[manifest[i].event] # "partial"
    BY <2>2 DEF HealInv, Writes, InCall
  <2> QED BY <2>3, <2>4, <2>5 DEF Contents
<1> QED
  BY <1>1, <1>2, HealNext, TypeInductive, PTL DEF Spec

-----------------------------------------------------------------------------
(***************************************************************************)
(* What a list of records answers for an event: the last one added, and    *)
(* for other events what it answered before.                               *)
(***************************************************************************)
LEMMA AnswersNew ==
  ASSUME NEW s \in Seq(Record), NEW x \in Record
  PROVE  Answers(Append(s, x), x)
<1> DEFINE t == Append(s, x)
           n == Len(s) + 1
           places == {i \in 1 .. Len(t) : t[i].event = x.event}
<1>1. Len(t) = n /\ t[n] = x /\ n \in Nat \ {0}
  BY AppendProperties, LenProperties
<1>2. n \in places /\ \A j \in places : j <= n /\ j \in Nat
  BY <1>1
<1>3. (CHOOSE i \in places : \A j \in places : j <= i) = n
  <2> HIDE DEF places, n
  <2>1. \A i \in places : (\A j \in places : j <= i) => i = n
    <3> SUFFICES ASSUME NEW i \in places, n <= i PROVE i = n
      BY <1>2
    <3> QED BY <1>1, <1>2
  <2> QED BY <1>2, <2>1
<1>4. Lookup(t, x.event) = t[n]
  BY <1>3 DEF Lookup
<1>5. x.event \in Known(t)
  BY <1>1 DEF Known
<1> HIDE DEF t, n
<1> QED
  BY <1>1, <1>4, <1>5 DEF Answers, t

LEMMA LookupOld ==
  ASSUME NEW s \in Seq(Record), NEW x \in Record, NEW e \in Known(s), e # x.event
  PROVE  /\ e \in Known(Append(s, x))
         /\ Lookup(Append(s, x), e) = Lookup(s, e)
<1> DEFINE t == Append(s, x)
           before == {i \in 1 .. Len(s) : s[i].event = e}
           after == {i \in 1 .. Len(t) : t[i].event = e}
<1>1. /\ Len(t) = Len(s) + 1 /\ t[Len(s) + 1] = x /\ Len(s) \in Nat
      /\ \A i \in 1 .. Len(s) : t[i] = s[i]
  BY AppendProperties, LenProperties
<1>2. after = before
  <2>1. \A i \in 1 .. Len(t) : i \in 1 .. Len(s) \/ i = Len(s) + 1
    BY <1>1
  <2>2. \A i \in 1 .. Len(s) : i \in 1 .. Len(t)
    BY <1>1
  <2> HIDE DEF t
  <2> QED BY <1>1, <2>1, <2>2
<1>3. before # {} /\ before \in SUBSET (1 .. Len(s))
  BY DEF Known
<1>4. \E i \in before : \A j \in before : j <= i
  BY <1>1, <1>3, LastPosition, Zenon
<1>5. (CHOOSE i \in before : \A j \in before : j <= i) \in before
  BY <1>4
<1> DEFINE last == CHOOSE i \in before : \A j \in before : j <= i
<1>6. Lookup(s, e) = s[last] /\ last \in 1 .. Len(s)
  BY <1>5 DEF Lookup
<1>7. Lookup(t, e) = t[last]
  BY <1>2 DEF Lookup
<1>8. e \in Known(t)
  <2> HIDE DEF t, last
  <2>1. \E i \in 1 .. Len(t) : t[i].event = e
    BY <1>2, <1>3
  <2> QED BY <2>1 DEF Known
<1> HIDE DEF last
<1> QED
  BY <1>1, <1>6, <1>7, <1>8

LEMMA AnswersOld ==
  ASSUME NEW s \in Seq(Record), NEW x \in Record, NEW r,
         Answers(s, r), r.event # x.event
  PROVE  Answers(Append(s, x), r)
BY LookupOld DEF Answers

LEMMA AnswersItself ==
  ASSUME NEW s \in Seq(Record), NEW e \in Known(s)
  PROVE  Answers(s, Lookup(s, e)) /\ Lookup(s, e).event = e
BY LookupProperties DEF Answers

LEMMA LoadedType ==
  ASSUME TypeOK, Loadable
  PROVE  Loaded \in Seq(Record)
<1>1. \A i \in 1 .. Len(manifest) : manifest[i] \in Record
  BY ElementOfSeq DEF TypeOK, Loadable, Line
<1>2. manifest \in Seq(Record)
  BY <1>1, AllElementsInSeq DEF TypeOK
<1> QED
  BY <1>2 DEF TypeOK, Loadable, Loaded, Line

(***************************************************************************)
(* What loads after an append, interrupted or not, loaded before it, and   *)
(* is that or one record more.  Nothing makes a manifest load again.       *)
(***************************************************************************)
LEMMA LoadedAfter ==
  ASSUME TypeOK, NEW p \in Procs, Loadable',
         \/ UNCHANGED <<manifest, tail>>
         \/ pc[p] = "append" /\ (AppendTorn(job[p]) \/ AppendLine(job[p]))
  PROVE  /\ Loadable
         /\ \/ Loaded' = Loaded
            \/ pc[p] = "append" /\ Loaded' = Append(Loaded, job[p])
<1>1. CASE UNCHANGED <<manifest, tail>>
  BY <1>1 DEF Loadable, Loaded
<1>2. CASE pc[p] = "append" /\ AppendTorn(job[p])
  <2>1. job[p] \in Record /\ job[p] # Nothing /\ job[p] # Torn
    BY <1>2, StoreAssumption DEF TypeOK, InCall
  <2>2. UNCHANGED manifest /\ tail' = Joined(job[p]) /\ tail' # Torn
    BY <1>2 DEF AppendTorn, Loadable
  <2>3. tail = Nothing /\ tail' = job[p]
    BY <2>2 DEF Joined
  <2> QED
    BY <1>2, <2>1, <2>2, <2>3, StoreAssumption DEF Loadable, Loaded
<1>3. CASE pc[p] = "append" /\ AppendLine(job[p])
  <2>1. manifest' = Append(manifest, Joined(job[p])) /\ tail' = Nothing
    BY <1>3 DEF AppendLine
  <2>2. /\ Len(manifest') = Len(manifest) + 1 /\ Len(manifest) \in Nat
        /\ \A i \in 1 .. Len(manifest) : manifest'[i] = manifest[i]
        /\ manifest'[Len(manifest) + 1] = Joined(job[p])
    <3>1. manifest \in Seq(Line) /\ Joined(job[p]) \in Line
      BY <1>3 DEF TypeOK, InCall, Joined, Line
    <3> QED BY <2>1, <3>1, AppendProperties, LenProperties
  <2>3. Joined(job[p]) # Torn /\ \A i \in 1 .. Len(manifest) : manifest[i] # Torn
    <3>1. \A i \in 1 .. Len(manifest') : manifest'[i] # Torn
      BY DEF Loadable
    <3>2. Len(manifest) + 1 \in 1 .. Len(manifest')
      BY <2>2
    <3>3. \A i \in 1 .. Len(manifest) : i \in 1 .. Len(manifest')
      BY <2>2
    <3> QED BY <2>2, <3>1, <3>2, <3>3
  <2>4. tail = Nothing /\ Joined(job[p]) = job[p]
    BY <2>3 DEF Joined
  <2> QED
    BY <1>3, <2>1, <2>3, <2>4, StoreAssumption DEF Loadable, Loaded
<1> QED
  BY <1>1, <1>2, <1>3

(***************************************************************************)
(* A step without a new receipt: the manifest may get the record of the    *)
(* call in progress, whose event has no receipt and is not in memory.      *)
(***************************************************************************)
LEMMA AnswerKeeps ==
  ASSUME OneWriter, AnswerInv, TypeOK', ReaderInv', NEW p \in Procs,
         UNCHANGED receipts,
         Loadable' =>
           /\ Loadable
           /\ \/ Loaded' = Loaded
              \/ pc[p] = "append" /\ Loaded' = Append(Loaded, job[p]),
         \A q \in Writers :
           \/ pc'[q] = "closed"
           \/ /\ pc[q] # "closed" /\ mem'[q] = mem[q]
              /\ pc'[q] \in InCall => job'[q].event \notin Known(mem[q])
              /\ pc'[q] = "remember" /\ Loadable' => Answers(Loaded', job'[q])
  PROVE  AnswerInv'
<1>1. TypeOK /\ ReaderInv
  BY DEF AnswerInv
<1>2. ASSUME Loadable', NEW q \in Writers, pc[q] # "closed",
             NEW r, Answers(Loaded, r), r.event \in Known(mem[q])
      PROVE  Answers(Loaded', r)
  <2>1. CASE Loaded' = Loaded
    BY <1>2, <2>1
  <2>2. CASE pc[p] = "append" /\ Loaded' = Append(Loaded, job[p])
    <3>1. p \in Writers
      BY <1>1, <2>2 DEF ReaderInv, Procs
    <3>2. q = p
      BY <3>1, OneWriter DEF OneWriter
    <3>3. job[p].event # r.event
      BY <1>2, <2>2, <3>1, <3>2 DEF AnswerInv, InCall
    <3>4. job[p] \in Record /\ Loaded \in Seq(Record)
      BY <1>1, <1>2, <2>2, LoadedType DEF TypeOK, InCall
    <3> QED BY <1>2, <2>2, <3>3, <3>4, AnswersOld
  <2> QED BY <1>2, <2>1, <2>2
<1>3. StableReceipts'
  BY DEF AnswerInv, StableReceipts
<1>4. ASSUME Loadable', NEW r \in receipts
      PROVE  Answers(Loaded', r)
  <2>1. Answers(Loaded, r)
    BY <1>4 DEF AnswerInv
  <2>2. CASE Loaded' = Loaded
    BY <2>1, <2>2
  <2>3. CASE pc[p] = "append" /\ Loaded' = Append(Loaded, job[p])
    <3>1. p \in Writers
      BY <1>1, <2>3 DEF ReaderInv, Procs
    <3>2. r.event \in Known(mem[p])
      BY <2>3, <3>1 DEF AnswerInv, Answers
    <3> QED BY <1>2, <1>4, <2>1, <2>3, <3>1, <3>2
  <2> QED BY <1>4, <2>2, <2>3
<1>5. ASSUME NEW q \in Writers, pc'[q] # "closed"
      PROVE  /\ \A r \in receipts' : Answers(mem'[q], r)
             /\ Loadable' => \A e \in Known(mem'[q]) :
                               Answers(Loaded', Lookup(mem'[q], e))
             /\ pc'[q] \in InCall => job'[q].event \notin Known(mem'[q])
             /\ pc'[q] = "remember" /\ Loadable' => Answers(Loaded', job'[q])
  <2>1. pc[q] # "closed" /\ mem'[q] = mem[q]
    BY <1>5
  <2>2. \A r \in receipts' : Answers(mem'[q], r)
    BY <2>1 DEF AnswerInv
  <2>3. ASSUME Loadable', NEW e \in Known(mem[q])
        PROVE  Answers(Loaded', Lookup(mem[q], e))
    <3>1. mem[q] \in Seq(Record)
      BY <1>1 DEF TypeOK, Procs
    <3>2. Lookup(mem[q], e).event = e
      BY <3>1, AnswersItself
    <3>3. Answers(Loaded, Lookup(mem[q], e))
      BY <2>1, <2>3 DEF AnswerInv
    <3> QED BY <1>2, <2>1, <2>3, <3>2, <3>3
  <2> QED BY <1>5, <2>1, <2>2, <2>3
<1>6. (\A r \in receipts : Loadable => Answers(Loaded, r))'
  BY <1>4 DEF Answers
<1>7. (\A q \in Writers :
         /\ pc[q] # "closed" => \A r \in receipts : Answers(mem[q], r)
         /\ pc[q] # "closed" /\ Loadable =>
              \A e \in Known(mem[q]) : Answers(Loaded, Lookup(mem[q], e))
         /\ pc[q] \in InCall => job[q].event \notin Known(mem[q])
         /\ pc[q] = "remember" /\ Loadable => Answers(Loaded, job[q]))'
  BY <1>5 DEF Answers, InCall
<1> QED
  BY <1>3, <1>6, <1>7 DEF AnswerInv

(***************************************************************************)
(* The two ways a caller gets a receipt.                                   *)
(***************************************************************************)
LEMMA AnswerExisting ==
  ASSUME OneWriter, AnswerInv, TypeOK', ReaderInv',
         NEW p \in Writers, NEW e \in Events, StoreExisting(p, e)
  PROVE  AnswerInv'
<1> DEFINE x == Lookup(mem[p], e)
<1>1. /\ pc[p] = "ready" /\ e \in Known(mem[p])
      /\ receipts' = receipts \cup {x}
      /\ UNCHANGED <<manifest, tail, pc, mem, job>>
  BY DEF StoreExisting, disk
<1>2. mem[p] \in Seq(Record)
  BY DEF AnswerInv, TypeOK, Procs
<1>3. Answers(mem[p], x) /\ x.event = e
  BY <1>1, <1>2, AnswersItself
<1>4. Loadable => Answers(Loaded, x)
  BY <1>1 DEF AnswerInv
<1>5. \A q \in Writers : q = p
  BY OneWriter DEF OneWriter
<1>6. \A r \in receipts : r.event = e => r = x
  BY <1>1 DEF AnswerInv, Answers
<1> HIDE DEF x
<1>7. StableReceipts'
  BY <1>1, <1>3, <1>6 DEF AnswerInv, StableReceipts
<1>8. Loadable' = Loadable /\ Loaded' = Loaded
  BY <1>1 DEF Loadable, Loaded
<1>9. (Loadable => \A r \in receipts : Answers(Loaded, r))'
  BY <1>1, <1>4, <1>8 DEF AnswerInv, Answers
<1>10. (\A r \in receipts : Answers(mem[p], r))'
  BY <1>1, <1>3 DEF AnswerInv, Answers
<1>11. (Loadable => \A d \in Known(mem[p]) : Answers(Loaded, Lookup(mem[p], d)))'
  BY <1>1, <1>8 DEF AnswerInv, Answers
<1>12. pc'[p] = "ready"
  BY <1>1
<1> QED
  BY <1>5, <1>7, <1>9, <1>10, <1>11, <1>12 DEF AnswerInv, InCall

LEMMA AnswerRemember ==
  ASSUME OneWriter, AnswerInv, TypeOK', ReaderInv', NEW p \in Writers, Remember(p)
  PROVE  AnswerInv'
<1> DEFINE x == job[p]
           s == mem[p]
<1>1. /\ pc[p] = "remember" /\ p \in Procs
      /\ mem' = [mem EXCEPT ![p] = Append(s, x)]
      /\ receipts' = receipts \cup {x} /\ pc' = [pc EXCEPT ![p] = "ready"]
      /\ UNCHANGED <<manifest, tail>>
  BY DEF Remember, disk, Procs
<1>2. x \in Record /\ s \in Seq(Record) /\ mem'[p] = Append(s, x) /\ pc'[p] = "ready"
  BY <1>1 DEF AnswerInv, TypeOK, InCall
<1>3. /\ x.event \notin Known(s)
      /\ Loadable => Answers(Loaded, x)
      /\ \A r \in receipts : Answers(s, r)
      /\ Loadable => \A e \in Known(s) : Answers(Loaded, Lookup(s, e))
  BY <1>1 DEF AnswerInv, InCall
<1> HIDE DEF x, s
<1>4. \A r \in receipts : r.event # x.event
  BY <1>3 DEF Answers
<1>5. StableReceipts'
  BY <1>1, <1>4 DEF AnswerInv, StableReceipts
<1>6. Loadable' = Loadable /\ Loaded' = Loaded
  BY <1>1 DEF Loadable, Loaded
<1>7. (Loadable => \A r \in receipts : Answers(Loaded, r))'
  BY <1>1, <1>3, <1>6 DEF AnswerInv, Answers
<1>8. \A r \in receipts \cup {x} : Answers(Append(s, x), r)
  BY <1>2, <1>3, <1>4, AnswersNew, AnswersOld
<1>9. ASSUME Loadable, NEW e \in Known(Append(s, x))
      PROVE  Answers(Loaded, Lookup(Append(s, x), e))
  <2>1. CASE e = x.event
    <3>1. Lookup(Append(s, x), e) = x
      BY <1>2, <2>1, AnswersNew DEF Answers
    <3> QED BY <1>3, <1>9, <3>1
  <2>2. CASE e # x.event
    <3>1. e \in Known(s)
      <4>1. /\ Len(Append(s, x)) = Len(s) + 1 /\ Len(s) \in Nat
            /\ Append(s, x)[Len(s) + 1] = x
            /\ \A i \in 1 .. Len(s) : Append(s, x)[i] = s[i]
        BY <1>2, AppendProperties, LenProperties
      <4>2. PICK i \in 1 .. Len(Append(s, x)) : Append(s, x)[i].event = e
        BY <1>9 DEF Known
      <4>3. i \in 1 .. Len(s)
        BY <2>2, <4>1, <4>2
      <4> QED BY <4>1, <4>2, <4>3 DEF Known
    <3>2. Lookup(Append(s, x), e) = Lookup(s, e)
      BY <1>2, <2>2, <3>1, LookupOld
    <3> QED BY <1>3, <1>9, <3>1, <3>2
  <2> QED BY <2>1, <2>2
<1>10. (\A r \in receipts : Answers(mem[p], r))'
  BY <1>1, <1>2, <1>8 DEF Answers
<1>11. (Loadable => \A e \in Known(mem[p]) : Answers(Loaded, Lookup(mem[p], e)))'
  BY <1>2, <1>6, <1>9 DEF Answers
<1>12. \A q \in Writers : q = p
  BY OneWriter DEF OneWriter
<1> QED
  BY <1>2, <1>5, <1>7, <1>10, <1>11, <1>12 DEF AnswerInv, InCall

\* A process loads the manifest, or drops what it loaded.
LEMMA AnswerOpenClose ==
  ASSUME OneWriter, AnswerInv, TypeOK', ReaderInv',
         NEW p \in Procs, Open(p) \/ Close(p)
  PROVE  AnswerInv'
<1>1. TypeOK /\ UNCHANGED <<manifest, tail, receipts, job>>
  BY DEF AnswerInv, Open, Close, disk
<1>2. Loadable' = Loadable /\ Loaded' = Loaded
  BY <1>1 DEF Loadable, Loaded
<1>3. \A q \in Writers \ {p} :
        pc'[q] = pc[q] /\ mem'[q] = mem[q] /\ job'[q] = job[q]
  BY <1>1 DEF Open, Close, TypeOK, Procs
<1>4. ASSUME NEW q \in Writers \ {p}
      PROVE  \/ pc'[q] = "closed"
             \/ /\ pc[q] # "closed" /\ mem'[q] = mem[q]
                /\ pc'[q] \in InCall => job'[q].event \notin Known(mem[q])
                /\ pc'[q] = "remember" /\ Loadable' => Answers(Loaded', job'[q])
  BY <1>2, <1>3 DEF AnswerInv
<1>5. CASE Close(p)
  <2>1. pc'[p] = "closed"
    BY <1>1, <1>5 DEF Close, TypeOK
  <2> QED BY <1>1, <1>2, <1>4, <2>1, AnswerKeeps
<1>6. CASE Open(p) /\ p \notin Writers
  BY <1>1, <1>2, <1>4, <1>6, AnswerKeeps
<1>7. CASE Open(p) /\ p \in Writers
  <2>1. pc'[p] = "ready" /\ mem'[p] = Loaded /\ Loadable
    BY <1>1, <1>7 DEF Open, TypeOK
  <2>2. Loaded \in Seq(Record)
    BY <1>1, <2>1, LoadedType
  <2>3. \A e \in Known(Loaded) : Answers(Loaded, Lookup(Loaded, e))
    BY <2>2, AnswersItself
  <2>4. \A r \in receipts : Answers(Loaded, r)
    BY <2>1 DEF AnswerInv
  <2>5. StableReceipts' /\ (Loadable => \A r \in receipts : Answers(Loaded, r))'
    BY <1>1, <1>2, <2>4 DEF AnswerInv, StableReceipts, Answers
  <2>6. /\ (\A r \in receipts : Answers(mem[p], r))'
        /\ (\A e \in Known(mem[p]) : Answers(Loaded, Lookup(mem[p], e)))'
    BY <1>1, <1>2, <2>1, <2>3, <2>4 DEF Answers
  <2>7. \A q \in Writers : q = p
    BY <1>7, OneWriter DEF OneWriter
  <2> QED BY <2>1, <2>5, <2>6, <2>7 DEF AnswerInv, InCall
<1> QED
  BY <1>5, <1>6, <1>7

LEMMA AnswerNext ==
  ASSUME OneWriter
  PROVE  AnswerInv /\ [Next]_vars => AnswerInv'
<1> SUFFICES ASSUME AnswerInv, [Next]_vars PROVE AnswerInv'
  OBVIOUS
<1>1. TypeOK' /\ ReaderInv' /\ TypeOK /\ \A p \in Writers : p \in Procs
  BY TypeInductive, ReadersOnlyRead DEF AnswerInv, Procs
<1>2. ASSUME UNCHANGED <<manifest, tail>>
      PROVE  Loadable' = Loadable /\ Loaded' = Loaded
  BY <1>2 DEF Loadable, Loaded
<1>3. ASSUME NEW p \in Writers, NEW e \in Events, NEW m \in Metas, StoreNew(p, e, m)
      PROVE  AnswerInv'
  <2>1. /\ UNCHANGED <<manifest, tail, receipts, mem>> /\ pc[p] = "ready"
        /\ pc'[p] = "open_tmp" /\ job'[p] = NextRecord(mem[p], e, m)
        /\ e \notin Known(mem[p])
    BY <1>1, <1>3 DEF StoreNew, disk, TypeOK
  <2>2. job'[p].event \notin Known(mem[p])
    BY <2>1 DEF NextRecord
  <2>3. \A q \in Writers : q = p
    BY OneWriter DEF OneWriter
  <2> QED BY <1>1, <1>2, <2>1, <2>2, <2>3, AnswerKeeps
<1>4. ASSUME NEW p \in Writers, OpenTmp(p) \/ WriteTmp(p) \/ Replace(p)
      PROVE  AnswerInv'
  <2>1. /\ UNCHANGED <<manifest, tail, receipts, mem, job>>
        /\ pc[p] \in {"open_tmp", "write_tmp", "replace"}
        /\ pc'[p] \in {"write_tmp", "replace", "append"}
    BY <1>1, <1>4 DEF OpenTmp, WriteTmp, Replace, TypeOK
  <2>2. job[p].event \notin Known(mem[p])
    BY <2>1 DEF AnswerInv, InCall
  <2>3. \A q \in Writers : q = p
    BY OneWriter DEF OneWriter
  <2> QED BY <1>1, <1>2, <2>1, <2>2, <2>3, AnswerKeeps
<1>5. ASSUME NEW p \in Writers, AppendManifest(p)
      PROVE  AnswerInv'
  <2>1. /\ UNCHANGED <<receipts, mem, job>> /\ pc[p] = "append"
        /\ AppendLine(job[p]) /\ pc'[p] = "remember"
    BY <1>1, <1>5 DEF AppendManifest, TypeOK
  <2>2. job[p].event \notin Known(mem[p]) /\ job[p] \in Record
    BY <1>1, <2>1 DEF AnswerInv, InCall, TypeOK
  <2>3. Loadable' => Loadable /\ (Loaded' = Loaded \/ Loaded' = Append(Loaded, job[p]))
    BY <1>1, <2>1, LoadedAfter
  <2>4. ASSUME Loadable'
        PROVE  Loaded' = Append(Loaded, job[p]) /\ Loaded \in Seq(Record)
    <3>1. Loaded \in Seq(Record)
      BY <1>1, <2>3, <2>4, LoadedType
    <3>2. manifest' = Append(manifest, Joined(job[p])) /\ tail' = Nothing
      BY <2>1 DEF AppendLine
    <3>3. Len(Loaded') # Len(Loaded)
      <4>1. Loaded' = Append(manifest, Joined(job[p]))
        BY <3>2 DEF Loaded
      <4>2. manifest \in Seq(Line) /\ Joined(job[p]) \in Line
        BY <1>1, <2>2 DEF TypeOK, Joined, Line
      <4>3. Len(Loaded') = Len(manifest) + 1 /\ Len(manifest) \in Nat
        BY <4>1, <4>2, AppendProperties, LenProperties
      <4>4. tail = Nothing
        <5>1. Loaded'[Len(manifest) + 1] = Joined(job[p])
          BY <4>1, <4>2, AppendProperties
        <5>2. \A i \in 1 .. Len(manifest') : manifest'[i] # Torn
          BY <2>4 DEF Loadable
        <5>3. Joined(job[p]) # Torn
          BY <3>2, <4>1, <4>3, <5>1, <5>2
        <5> QED BY <5>3 DEF Joined
      <4> QED BY <4>3, <4>4 DEF Loaded
    <3> QED BY <2>3, <2>4, <3>1, <3>3
  <2>5. Loadable' => Answers(Loaded', job'[p])
    BY <2>1, <2>2, <2>4, AnswersNew
  <2>6. \A q \in Writers : q = p
    BY OneWriter DEF OneWriter
  <2> QED BY <1>1, <2>1, <2>2, <2>3, <2>5, <2>6, AnswerKeeps
<1>6. ASSUME NEW p \in Procs, UNCHANGED receipts,
             \/ UNCHANGED <<manifest, tail>>
             \/ pc[p] = "append" /\ (AppendTorn(job[p]) \/ AppendLine(job[p])),
             pc[p] # "closed", pc'[p] \in {"closed", "ready"},
             pc'[p] = "ready" => mem'[p] = mem[p],
             \A q \in Procs \ {p} :
               pc'[q] = pc[q] /\ mem'[q] = mem[q] /\ job'[q] = job[q]
      PROVE  AnswerInv'
  <2>1. Loadable' => /\ Loadable
                     /\ \/ Loaded' = Loaded
                        \/ pc[p] = "append" /\ Loaded' = Append(Loaded, job[p])
    BY <1>1, <1>6, LoadedAfter
  <2>2. ASSUME NEW q \in Writers
        PROVE  \/ pc'[q] = "closed"
               \/ /\ pc[q] # "closed" /\ mem'[q] = mem[q]
                  /\ pc'[q] \in InCall => job'[q].event \notin Known(mem[q])
                  /\ pc'[q] = "remember" /\ Loadable' => Answers(Loaded', job'[q])
    <3>1. CASE q = p
      BY <1>6, <3>1 DEF InCall
    <3>2. CASE q # p
      <4>1. p \in Readers /\ pc[p] # "append"
        BY <1>1, <3>2, OneWriter DEF OneWriter, Procs, AnswerInv, ReaderInv
      <4>2. Loadable' => Loadable /\ Loaded' = Loaded
        BY <2>1, <4>1
      <4>3. pc'[q] = pc[q] /\ mem'[q] = mem[q] /\ job'[q] = job[q]
        BY <1>1, <1>6, <3>2
      <4> QED BY <4>2, <4>3 DEF AnswerInv
    <3> QED BY <3>1, <3>2
  <2> QED BY <1>1, <1>6, <2>1, <2>2, AnswerKeeps
<1>7. ASSUME NEW p \in Writers, ReplaceRaises(p) \/ BlobRaises(p) \/ AppendRaises(p)
      PROVE  AnswerInv'
  <2>1. /\ UNCHANGED receipts /\ Abandon(p)
        /\ \/ UNCHANGED <<manifest, tail>>
           \/ pc[p] = "append" /\ (AppendTorn(job[p]) \/ AppendLine(job[p]))
        /\ pc[p] # "closed"
    BY <1>7 DEF ReplaceRaises, BlobRaises, AppendRaises, disk
  <2> QED BY <1>1, <1>6, <2>1, AbandonLeaves
<1>8. ASSUME NEW p \in Procs, Crash(p)
      PROVE  AnswerInv'
  <2>1. /\ UNCHANGED receipts /\ pc[p] # "closed"
        /\ \/ UNCHANGED <<manifest, tail>>
           \/ pc[p] = "append" /\ AppendTorn(job[p])
        /\ pc' = [pc EXCEPT ![p] = "closed"]
        /\ mem' = [mem EXCEPT ![p] = << >>]
        /\ job' = [job EXCEPT ![p] = Nothing]
    BY <1>8 DEF Crash
  <2>2. /\ pc'[p] = "closed"
        /\ \A q \in Procs \ {p} :
             pc'[q] = pc[q] /\ mem'[q] = mem[q] /\ job'[q] = job[q]
    BY <1>1, <2>1 DEF TypeOK
  <2> QED BY <1>6, <2>1, <2>2
<1>9. CASE UNCHANGED vars
  BY <1>9 DEF vars, AnswerInv, StableReceipts, Loadable, Loaded, Answers,
              TypeOK, ReaderInv
<1> QED
  BY <1>1, <1>3, <1>4, <1>5, <1>7, <1>8, <1>9, AnswerOpenClose,
     AnswerExisting, AnswerRemember DEF Next, CallStep

LEMMA AnswerAlways ==
  ASSUME OneWriter
  PROVE  Spec => []AnswerInv
<1>1. Init => AnswerInv
  <2> SUFFICES ASSUME Init PROVE AnswerInv
    OBVIOUS
  <2>1. TypeOK
    BY DEF Init, TypeOK, Contents, InCall
  <2> QED
    BY <2>1 DEF Init, AnswerInv, ReaderInv, StableReceipts, InCall, Procs
<1>2. AnswerInv /\ [Next]_vars => AnswerInv'
  BY AnswerNext
<1> QED
  BY <1>1, <1>2, PTL DEF Spec

(***************************************************************************)
(* One writer, whatever fails: two receipts for one event are one record,  *)
(* before and after restarts, although a retry after an error may have     *)
(* left two lines for it.                                                  *)
(***************************************************************************)
THEOREM ReceiptsStayTheSame ==
  ASSUME OneWriter
  PROVE  Spec => []StableReceipts
<1>1. AnswerInv => StableReceipts
  BY DEF AnswerInv
<1> QED
  BY <1>1, AnswerAlways, PTL

(***************************************************************************)
(* One writer, whatever fails: a manifest that still loads has the record  *)
(* of every receipt.                                                       *)
(***************************************************************************)
THEOREM LossIsNoticed ==
  ASSUME OneWriter
  PROVE  Spec => []NoSilentLoss
<1>1. AnswerInv => NoSilentLoss
  <2> SUFFICES ASSUME AnswerInv, Loadable, NEW r \in receipts
               PROVE  \E i \in 1 .. Len(Loaded) : Loaded[i] = r
    BY DEF NoSilentLoss
  <2>1. Loaded \in Seq(Record)
    BY LoadedType DEF AnswerInv
  <2>2. r.event \in Known(Loaded) /\ Lookup(Loaded, r.event) = r
    BY DEF AnswerInv, Answers
  <2> QED BY <2>1, <2>2, LookupProperties
<1> QED
  BY <1>1, AnswerAlways, PTL
=============================================================================
