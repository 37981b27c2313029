------------------------ MODULE EvidenceAuditProofs ------------------------
(***************************************************************************)
(* Proofs about verification of a damaged evidence directory, for every    *)
(* set of events, kind of damage and bound.                                *)
(***************************************************************************)
EXTENDS EvidenceAudit, PositionLemmas

(***************************************************************************)
(* The inductive invariant: every line carries a hash store() computed or  *)
(* one that seals nothing, and the lines never altered form a chain.       *)
(***************************************************************************)
SealsItself(record) ==
  record.chain_hash =
    Chain!ComputeChainHash(record.chain_index, record.event, record.meta,
                           record.previous_chain_hash)

KnownHashes ==
  {line.sealed.chain_hash : line \in written}
    \cup {Garbage, Chain!GENESIS_CHAIN_HASH}

WrittenInv ==
  \A line \in written :
    /\ SealsItself(line.sealed)
    /\ line.sealed.event.raw_sha256 = DigestOf[line.sealed.event.event_id]

HashInv == \A i \in 1 .. Len(lines) : lines[i].sealed.chain_hash \in KnownHashes

IntactInv ==
  \A i \in 1 .. intact :
    /\ Chain!LinkVerifies(Records, i)
    /\ lines[i].blob_file = EventId(i)
    /\ lines[i].sealed.event.raw_sha256 = DigestOf[EventId(i)]

AuditInv == TypeOK /\ WrittenInv /\ HashInv /\ IntactInv

-----------------------------------------------------------------------------
LEMMA RecordsType ==
  ASSUME NEW s \in Seq(ManifestLine)
  PROVE  /\ [i \in 1 .. Len(s) |-> s[i].sealed] \in Seq(Sealed)
         /\ Len([i \in 1 .. Len(s) |-> s[i].sealed]) = Len(s)
<1>1. Len(s) \in Nat /\ \A i \in 1 .. Len(s) : s[i].sealed \in Sealed
  <2>1. \A i \in 1 .. Len(s) : s[i] \in ManifestLine
    BY ElementOfSeq
  <2> QED BY <2>1, LenProperties DEF ManifestLine
<1>2. [i \in 1 .. Len(s) |-> s[i].sealed] \in Seq(Sealed)
  BY <1>1, IsASeq
<1>3. DOMAIN [i \in 1 .. Len(s) |-> s[i].sealed] = 1 .. Len(s)
  OBVIOUS
<1> QED BY <1>1, <1>2, <1>3, LenProperties

LEMMA MaterialType ==
  ASSUME NEW r \in Sealed
  PROVE  MaterialOf(r) \in Chain!Material
BY DEF MaterialOf, Sealed, Chain!Material

(***************************************************************************)
(* Two records that seal themselves with the same hash are the same.       *)
(***************************************************************************)
LEMMA SealDetermines ==
  ASSUME NEW r \in Sealed, NEW s \in Sealed, SealsItself(r), SealsItself(s),
         r.chain_hash = s.chain_hash
  PROVE  r = s
<1> DEFINE M == Chain!Material \cup {Junk}
<1>1. /\ r.previous_chain_hash \in Seq(M) /\ MaterialOf(r) \in M
      /\ s.previous_chain_hash \in Seq(M) /\ MaterialOf(s) \in M
  BY MaterialType DEF Sealed, AnyHash
<1>2. Append(r.previous_chain_hash, MaterialOf(r))
        = Append(s.previous_chain_hash, MaterialOf(s))
  BY DEF SealsItself, Chain!ComputeChainHash, MaterialOf
<1>3. /\ r.previous_chain_hash = s.previous_chain_hash
      /\ MaterialOf(r) = MaterialOf(s)
  <2> HIDE DEF M
  <2> QED BY <1>1, <1>2, AppendInjective
<1>4. /\ r.chain_index = s.chain_index
      /\ r.event = s.event
      /\ r.meta = s.meta
  BY <1>3 DEF MaterialOf
<1> QED BY <1>3, <1>4 DEF Sealed

(***************************************************************************)
(* No record seals itself with a hash that seals nothing.                  *)
(***************************************************************************)
LEMMA SealIsNoGarbage ==
  ASSUME NEW r \in Sealed, SealsItself(r)
  PROVE  r.chain_hash \notin {Garbage, Chain!GENESIS_CHAIN_HASH}
<1> DEFINE M == Chain!Material \cup {Junk}
<1>1. r.previous_chain_hash \in Seq(M) /\ MaterialOf(r) \in M
  BY MaterialType DEF Sealed, AnyHash
<1>2. r.chain_hash = Append(r.previous_chain_hash, MaterialOf(r))
  BY DEF SealsItself, Chain!ComputeChainHash, MaterialOf
<1>3. r.chain_hash # << >>
  BY <1>1, <1>2, AppendProperties
<1>4. r.chain_hash # <<Junk>>
  <2>1. SUFFICES ASSUME r.chain_hash = <<Junk>> PROVE FALSE
    OBVIOUS
  <2>2. Append(<< >>, Junk) = <<Junk>> /\ << >> \in Seq(M) /\ Junk \in M
    <3>1. << >> \in Seq(M) /\ Junk \in M
      BY EmptySeq
    <3>2. Append(<< >>, Junk) = << >> \o <<Junk>>
      BY <3>1, AppendIsConcat
    <3>3. <<Junk>> \in Seq(M)
      OBVIOUS
    <3> QED BY <3>1, <3>2, <3>3, ConcatEmptySeq
  <2>3. Append(r.previous_chain_hash, MaterialOf(r)) = Append(<< >>, Junk)
    BY <1>2, <2>1, <2>2
  <2>4. MaterialOf(r) = Junk
    <3>1. /\ r.previous_chain_hash \in Seq(M) /\ MaterialOf(r) \in M
          /\ << >> \in Seq(M) /\ Junk \in M
      BY <1>1, EmptySeq
    <3> HIDE DEF M
    <3>2. ASSUME NEW s \in Seq(M), NEW t \in Seq(M), NEW x \in M, NEW y \in M,
                 Append(s, x) = Append(t, y)
          PROVE  x = y
      BY <3>2, AppendInjective
    <3> QED BY <2>3, <3>1, <3>2
  <2> QED BY <2>4, MaterialType, JunkAssumption
<1> QED BY <1>3, <1>4 DEF Garbage, Chain!GENESIS_CHAIN_HASH

-----------------------------------------------------------------------------
(***************************************************************************)
(* What every kind of damage has in common.                                *)
(***************************************************************************)
Damaged ==
  /\ lines' \in Seq(ManifestLine)
  /\ \A i \in 1 .. Len(lines') : lines'[i].sealed.chain_hash \in KnownHashes
  /\ intact' \in 0 .. Len(lines')
  /\ intact' <= intact
  /\ \A i \in 1 .. intact' : lines'[i] = lines[i]
  /\ written' = written

LEMMA DamageKeeps ==
  ASSUME AuditInv, Damaged,
         blobs' \in [EventIds -> Digests \cup {Absent}],
         alterations' \in 0 .. MaxAlterations
  PROVE  AuditInv'
<1>1. TypeOK'
  BY DEF AuditInv, TypeOK, Damaged
<1>2. WrittenInv'
  BY DEF AuditInv, WrittenInv, Damaged
<1>3. HashInv'
  BY DEF HashInv, KnownHashes, Damaged
<1>4. IntactInv'
  <2> SUFFICES ASSUME NEW i \in 1 .. intact'
               PROVE  (/\ Chain!LinkVerifies(Records, i)
                       /\ lines[i].blob_file = EventId(i)
                       /\ lines[i].sealed.event.raw_sha256
                            = DigestOf[EventId(i)])'
    BY DEF IntactInv
  <2>1. /\ intact \in Nat /\ intact' \in Nat /\ intact' <= intact
        /\ intact <= Len(lines) /\ intact' <= Len(lines')
        /\ Len(lines) \in Nat /\ Len(lines') \in Nat
    BY LenProperties DEF AuditInv, TypeOK, Damaged
  <2>2. /\ i \in 1 .. intact
        /\ i \in 1 .. Len(lines)
        /\ i \in 1 .. Len(lines')
    BY <2>1
  <2>3. lines'[i] = lines[i] /\ (i # 1 => lines'[i - 1] = lines[i - 1])
    BY <2>1 DEF Damaged
  <2>4. Records'[i] = Records[i] /\ (i # 1 => Records'[i - 1] = Records[i - 1])
    BY <2>1, <2>2, <2>3 DEF Records
  <2>5. /\ Chain!LinkVerifies(Records, i)
        /\ lines[i].blob_file = EventId(i)
        /\ lines[i].sealed.event.raw_sha256 = DigestOf[EventId(i)]
    BY <2>2 DEF AuditInv, IntactInv
  <2>6. Chain!LinkVerifies(Records', i)
    BY <2>4, <2>5 DEF Chain!LinkVerifies
  <2> QED BY <2>3, <2>5, <2>6 DEF EventId, Chain!LinkVerifies
<1> QED BY <1>1, <1>2, <1>3, <1>4 DEF AuditInv

(***************************************************************************)
(* A damaged field leaves a line with a hash that was around.              *)
(***************************************************************************)
LEMMA VariantType ==
  ASSUME AuditInv, NEW i \in 1 .. Len(lines), NEW field,
         NEW line \in Variants(lines[i], field)
  PROVE  line \in ManifestLine /\ line.sealed.chain_hash \in KnownHashes
<1> DEFINE old == lines[i]
<1>1. old \in ManifestLine /\ old.sealed.chain_hash \in KnownHashes
  BY ElementOfSeq DEF AuditInv, TypeOK, HashInv
<1>2. HashesAround \subseteq KnownHashes
  BY DEF AuditInv, HashInv, HashesAround, KnownHashes
<1>3. KnownHashes \subseteq AnyHash
  <2>1. \A w \in written : w.sealed.chain_hash \in AnyHash
    BY DEF AuditInv, TypeOK, ManifestLine, Sealed
  <2>2. Garbage \in AnyHash
    BY DEF Garbage, AnyHash
  <2>3. Chain!GENESIS_CHAIN_HASH \in AnyHash
    BY EmptySeq DEF Chain!GENESIS_CHAIN_HASH, AnyHash
  <2> QED BY <2>1, <2>2, <2>3 DEF KnownHashes
<1>4. \A h \in HashesAround : h \in AnyHash /\ h \in KnownHashes
  BY <1>2, <1>3
<1> HIDE DEF old
<1>5. line \in Variants(old, field)
  BY DEF old
<1> USE DEF Variants, ManifestLine, Sealed, Identity
<1>6. CASE field = "event_id"
  <2>1. PICK e \in EventIds : line = [old EXCEPT !.sealed.event.event_id = e]
    BY <1>5, <1>6
  <2> QED BY <1>1, <2>1
<1>7. CASE field = "raw_sha256"
  <2>1. PICK d \in Digests : line = [old EXCEPT !.sealed.event.raw_sha256 = d]
    BY <1>5, <1>7
  <2> QED BY <1>1, <2>1
<1>8. CASE field = "meta"
  <2>1. PICK o \in Others : line = [old EXCEPT !.sealed.meta = o]
    BY <1>5, <1>8
  <2> QED BY <1>1, <2>1
<1>9. CASE field = "chain_index"
  <2>1. PICK n \in 0 .. MaxRecords : line = [old EXCEPT !.sealed.chain_index = n]
    BY <1>5, <1>9
  <2> QED BY <1>1, <2>1, AuditAssumption
<1>10. CASE field = "previous_chain_hash"
  <2>1. PICK h \in HashesAround :
          line = [old EXCEPT !.sealed.previous_chain_hash = h]
    BY <1>5, <1>10
  <2> QED BY <1>1, <1>4, <2>1
<1>11. CASE field = "chain_hash"
  <2>1. PICK h \in HashesAround : line = [old EXCEPT !.sealed.chain_hash = h]
    BY <1>5, <1>11
  <2> QED BY <1>1, <1>4, <2>1
<1>12. CASE field = "version"
  <2>1. line = [old EXCEPT !.version = "altered"]
    BY <1>5, <1>12
  <2> QED BY <1>1, <2>1
<1>13. CASE field = "blob_file"
  <2>1. PICK e \in EventIds : line = [old EXCEPT !.blob_file = e]
    BY <1>5, <1>13
  <2> QED BY <1>1, <2>1
<1> QED BY <1>5, <1>6, <1>7, <1>8, <1>9, <1>10, <1>11, <1>12, <1>13

LEMMA LineReplaced ==
  ASSUME AuditInv, NEW i \in 1 .. Len(lines),
         NEW line \in ManifestLine, line.sealed.chain_hash \in KnownHashes,
         lines' = [lines EXCEPT ![i] = line], intact' = Shorter(i - 1),
         written' = written
  PROVE  Damaged
<1>1. lines \in Seq(ManifestLine) /\ Len(lines) \in Nat
  BY LenProperties DEF AuditInv, TypeOK
<1>2. /\ lines' \in Seq(ManifestLine)
      /\ Len(lines') = Len(lines)
      /\ \A j \in 1 .. Len(lines) :
           lines'[j] = IF j = i THEN line ELSE lines[j]
  BY <1>1, ExceptSeq
<1>3. \A j \in 1 .. Len(lines') : lines'[j].sealed.chain_hash \in KnownHashes
  BY <1>2 DEF AuditInv, HashInv
<1>4. /\ intact' \in 0 .. Len(lines')
      /\ intact' <= intact
      /\ \A j \in 1 .. intact' : j # i /\ j \in 1 .. Len(lines)
  BY <1>1, <1>2 DEF Shorter, AuditInv, TypeOK
<1> QED BY <1>2, <1>3, <1>4 DEF Damaged

LEMMA DamageInductive ==
  ASSUME AuditInv, Damage
  PROVE  AuditInv'
<1> USE AuditAssumption
<1>1. /\ lines \in Seq(ManifestLine) /\ Len(lines) \in Nat
      /\ intact \in 0 .. Len(lines)
      /\ blobs \in [EventIds -> Digests \cup {Absent}]
      /\ \A i \in 1 .. Len(lines) :
           /\ lines[i] \in ManifestLine
           /\ lines[i].sealed.chain_hash \in KnownHashes
  BY LenProperties, ElementOfSeq DEF AuditInv, TypeOK, HashInv
<1>2. alterations' \in 0 .. MaxAlterations
  <2>1. Alteration
    BY DEF Damage, AlterField, DropLine, RepeatLine, RestoreLine, AlterBlob
  <2> QED BY <2>1 DEF Alteration, AuditInv, TypeOK
<1>3. ASSUME NEW i \in 1 .. Len(lines), NEW field \in Alterable,
             AlterField(i, field)
      PROVE  AuditInv'
  <2>1. PICK line \in Variants(lines[i], field) :
          lines' = [lines EXCEPT ![i] = line]
    BY <1>3 DEF AlterField
  <2>2. line \in ManifestLine /\ line.sealed.chain_hash \in KnownHashes
    BY <2>1, VariantType
  <2>3. intact' = Shorter(i - 1) /\ written' = written /\ blobs' = blobs
    BY <1>3 DEF AlterField
  <2>4. Damaged
    BY <2>1, <2>2, <2>3, LineReplaced
  <2> QED BY <1>1, <1>2, <2>3, <2>4, DamageKeeps
<1>4. ASSUME NEW i \in 1 .. Len(lines), DropLine(i) PROVE AuditInv'
  <2>1. /\ lines' = [j \in 1 .. Len(lines) - 1 |->
                       IF j < i THEN lines[j] ELSE lines[j + 1]]
        /\ intact' = Shorter(i - 1)
        /\ written' = written /\ blobs' = blobs
    BY <1>4 DEF DropLine
  <2>2. Len(lines) - 1 \in Nat
    BY <1>1
  <2>3. \A j \in 1 .. Len(lines) - 1 :
          (IF j < i THEN lines[j] ELSE lines[j + 1]) \in ManifestLine
    BY <1>1
  <2>4. lines' \in Seq(ManifestLine)
    <3>1. [j \in 1 .. Len(lines) - 1 |->
             IF j < i THEN lines[j] ELSE lines[j + 1]] \in Seq(ManifestLine)
      BY <2>2, <2>3, IsASeq
    <3> QED BY <2>1, <3>1
  <2>5. Len(lines') = Len(lines) - 1
    <3>1. DOMAIN lines' = 1 .. Len(lines) - 1
      BY <2>1
    <3>2. Len(lines') \in Nat /\ DOMAIN lines' = 1 .. Len(lines')
      BY <2>4, LenProperties
    <3> QED BY <2>2, <3>1, <3>2
  <2>6. \A j \in 1 .. Len(lines') : lines'[j].sealed.chain_hash \in KnownHashes
    BY <1>1, <2>1, <2>5
  <2>7. /\ intact' \in 0 .. Len(lines')
        /\ intact' <= intact
        /\ \A j \in 1 .. intact' : j < i /\ j \in 1 .. Len(lines) - 1
    BY <1>1, <2>1, <2>5 DEF Shorter
  <2>8. Damaged
    BY <2>1, <2>4, <2>6, <2>7 DEF Damaged
  <2> QED BY <1>1, <1>2, <2>1, <2>8, DamageKeeps
<1>5. ASSUME NEW i \in 1 .. Len(lines), RepeatLine(i) PROVE AuditInv'
  <2>1. /\ lines' = Append(lines, lines[i])
        /\ intact' = intact /\ written' = written /\ blobs' = blobs
    BY <1>5 DEF RepeatLine
  <2>2. /\ lines' \in Seq(ManifestLine)
        /\ Len(lines') = Len(lines) + 1
        /\ \A j \in 1 .. Len(lines) : lines'[j] = lines[j]
        /\ lines'[Len(lines) + 1] = lines[i]
    <3>1. lines[i] \in ManifestLine
      BY <1>1
    <3> QED BY <1>1, <2>1, <3>1, AppendProperties
  <2>3. \A j \in 1 .. Len(lines') : lines'[j].sealed.chain_hash \in KnownHashes
    BY <1>1, <2>2
  <2>4. intact' \in 0 .. Len(lines') /\ intact' <= intact
    BY <1>1, <2>1, <2>2
  <2>5. \A j \in 1 .. intact' : lines'[j] = lines[j]
    BY <1>1, <2>1, <2>2
  <2>6. Damaged
    BY <2>1, <2>2, <2>3, <2>4, <2>5 DEF Damaged
  <2>7. blobs' \in [EventIds -> Digests \cup {Absent}]
    BY <1>1, <2>1
  <2> QED BY <1>2, <2>6, <2>7, DamageKeeps
<1>6. ASSUME NEW i \in 1 .. Len(lines), RestoreLine(i) PROVE AuditInv'
  <2>1. PICK line \in written : lines' = [lines EXCEPT ![i] = line]
    BY <1>6 DEF RestoreLine
  <2>2. line \in ManifestLine /\ line.sealed.chain_hash \in KnownHashes
    BY <2>1 DEF AuditInv, TypeOK, KnownHashes
  <2>3. intact' = Shorter(i - 1) /\ written' = written /\ blobs' = blobs
    BY <1>6 DEF RestoreLine
  <2>4. Damaged
    BY <2>1, <2>2, <2>3, LineReplaced
  <2> QED BY <1>1, <1>2, <2>3, <2>4, DamageKeeps
<1>7. ASSUME NEW e \in EventIds, NEW content \in Digests \cup {Absent},
             AlterBlob(e, content)
      PROVE  AuditInv'
  <2>1. /\ lines' = lines /\ intact' = intact /\ written' = written
        /\ blobs' = [blobs EXCEPT ![e] = content]
    BY <1>7 DEF AlterBlob
  <2>2. Damaged
    BY <1>1, <2>1 DEF Damaged
  <2> QED BY <1>1, <1>2, <2>1, <2>2, DamageKeeps
<1> QED BY <1>3, <1>4, <1>5, <1>6, <1>7 DEF Damage

-----------------------------------------------------------------------------
(***************************************************************************)
(* store() continues the chain it finds, damaged or not.                   *)
(***************************************************************************)
LEMMA NewLineType ==
  ASSUME TypeOK, NEW e \in EventIds, NEW other \in Others
  PROVE  /\ NewLine(e, other) \in ManifestLine
         /\ SealsItself(NewLine(e, other).sealed)
<1> DEFINE head == Chain!ChainHead(Records)
           id == [event_id |-> e, raw_sha256 |-> DigestOf[e]]
<1>1. id \in Identity
  BY AuditAssumption DEF Identity
<1>2. Records \in Seq(Sealed) /\ Len(Records) \in Nat
  BY RecordsType, LenProperties DEF Records, TypeOK
<1>3. head \in AnyHash
  <2>1. CASE Records = << >>
    BY <2>1, EmptySeq DEF Chain!ChainHead, Chain!GENESIS_CHAIN_HASH, AnyHash
  <2>2. CASE Records # << >>
    <3>1. Len(Records) \in 1 .. Len(Records)
      BY <1>2, <2>2, EmptySeq
    <3>2. Records[Len(Records)] \in Sealed
      BY <1>2, <3>1, ElementOfSeq
    <3> QED BY <2>2, <3>2 DEF Chain!ChainHead, Sealed
  <2> QED BY <2>1, <2>2
<1> DEFINE material == [chain_index |-> Len(Records) + 1, event |-> id,
                        meta |-> other]
<1>4. material \in Chain!Material \cup {Junk}
  BY <1>1, <1>2 DEF Chain!Material
<1>5. Append(head, material) \in AnyHash
  <2> HIDE DEF head, material
  <2> QED BY <1>3, <1>4, AppendProperties DEF AnyHash
<1>6. NewLine(e, other).sealed =
        [event |-> id, meta |-> other, chain_index |-> Len(Records) + 1,
         previous_chain_hash |-> head, chain_hash |-> Append(head, material)]
  BY DEF NewLine, Chain!NextRecord, Chain!ComputeChainHash
<1>7. NewLine(e, other).sealed \in Sealed
  <2> HIDE DEF head, material, id
  <2> QED BY <1>1, <1>2, <1>3, <1>5, <1>6 DEF Sealed
<1>8. SealsItself(NewLine(e, other).sealed)
  BY <1>6 DEF SealsItself, Chain!ComputeChainHash
<1> QED BY <1>7, <1>8 DEF NewLine, ManifestLine

LEMMA StoreInductive ==
  ASSUME AuditInv, NEW e \in EventIds, NEW other \in Others, Store(e, other)
  PROVE  AuditInv'
<1> DEFINE new == NewLine(e, other)
<1>1. /\ lines \in Seq(ManifestLine) /\ Len(lines) \in Nat
      /\ intact \in 0 .. Len(lines)
  BY LenProperties DEF AuditInv, TypeOK
<1>2. new \in ManifestLine /\ SealsItself(new.sealed)
  BY NewLineType DEF AuditInv
<1>3. /\ lines' \in Seq(ManifestLine)
      /\ Len(lines') = Len(lines) + 1
      /\ \A i \in 1 .. Len(lines) : lines'[i] = lines[i]
      /\ lines'[Len(lines) + 1] = new
  <2>1. lines' = Append(lines, new)
    BY DEF Store
  <2> HIDE DEF new
  <2> QED BY <1>1, <1>2, <2>1, AppendProperties
<1>4. written' = written \cup {new}
  BY DEF Store
<1>5. TypeOK'
  <2>1. blobs' \in [EventIds -> Digests \cup {Absent}]
    BY AuditAssumption DEF Store, AuditInv, TypeOK
  <2>2. written' \subseteq ManifestLine
    BY <1>2, <1>4 DEF AuditInv, TypeOK
  <2>3. intact' \in 0 .. Len(lines')
    BY <1>1, <1>3 DEF Store
  <2>4. alterations' \in 0 .. MaxAlterations
    BY DEF Store, AuditInv, TypeOK
  <2> QED BY <1>3, <2>1, <2>2, <2>3, <2>4 DEF TypeOK
<1>6. WrittenInv'
  <2>1. new.sealed.event.raw_sha256 = DigestOf[new.sealed.event.event_id]
    BY DEF NewLine, Chain!NextRecord
  <2>2. \A line \in written :
          /\ SealsItself(line.sealed)
          /\ line.sealed.event.raw_sha256 = DigestOf[line.sealed.event.event_id]
    BY DEF AuditInv, WrittenInv
  <2> QED BY <1>2, <1>4, <2>1, <2>2 DEF WrittenInv, SealsItself
<1>7. HashInv'
  <2>1. KnownHashes \subseteq KnownHashes' /\ new.sealed.chain_hash \in KnownHashes'
    BY <1>4 DEF KnownHashes
  <2>2. \A i \in 1 .. Len(lines) : lines[i].sealed.chain_hash \in KnownHashes
    BY DEF AuditInv, HashInv
  <2> HIDE DEF new
  <2> QED BY <1>1, <1>3, <2>1, <2>2 DEF HashInv
<1>8. IntactInv'
  <2> SUFFICES ASSUME NEW i \in 1 .. intact'
               PROVE  (/\ Chain!LinkVerifies(Records, i)
                       /\ lines[i].blob_file = EventId(i)
                       /\ lines[i].sealed.event.raw_sha256
                            = DigestOf[EventId(i)])'
    BY DEF IntactInv
  <2>1. \A j \in 1 .. Len(lines) : Records'[j] = Records[j]
    BY <1>1, <1>3 DEF Records
  <2>2. Len(Records) = Len(lines)
    BY <1>1, RecordsType DEF Records
  <2>3. CASE i \in 1 .. intact
    <3>1. i \in 1 .. Len(lines) /\ (i # 1 => i - 1 \in 1 .. Len(lines))
      BY <1>1, <2>3
    <3>2. /\ Chain!LinkVerifies(Records, i)
          /\ lines[i].blob_file = EventId(i)
          /\ lines[i].sealed.event.raw_sha256 = DigestOf[EventId(i)]
      BY <2>3 DEF AuditInv, IntactInv
    <3>3. Chain!LinkVerifies(Records', i)
      BY <2>1, <3>1, <3>2 DEF Chain!LinkVerifies
    <3>4. lines'[i] = lines[i]
      BY <1>3, <3>1
    <3> QED BY <3>2, <3>3, <3>4 DEF EventId, Chain!LinkVerifies
  <2>4. CASE i \notin 1 .. intact
    <3>1. i = Len(lines) + 1
      BY <1>1, <2>4 DEF Store
    <3>2. lines'[i] = new /\ Records'[i] = new.sealed
      BY <1>1, <1>3, <3>1 DEF Records
    <3>3. new.sealed.chain_index = i
      BY <2>2, <3>1 DEF NewLine, Chain!NextRecord
    <3>4. new.sealed.previous_chain_hash =
            IF i = 1 THEN Chain!GENESIS_CHAIN_HASH ELSE Records'[i - 1].chain_hash
      <4>1. new.sealed.previous_chain_hash = Chain!ChainHead(Records)
        BY DEF NewLine, Chain!NextRecord
      <4>2. CASE i = 1
        <5>1. Records = << >>
          BY <1>1, <2>2, <3>1, <4>2, RecordsType, EmptySeq DEF Records
        <5> QED BY <4>1, <4>2, <5>1 DEF Chain!ChainHead
      <4>3. CASE i # 1
        <5>1. Records # << >> /\ i - 1 = Len(Records)
              /\ i - 1 \in 1 .. Len(lines)
          BY <1>1, <2>2, <3>1, <4>3, EmptySeq
        <5> QED BY <2>1, <4>1, <4>3, <5>1 DEF Chain!ChainHead
      <4> QED BY <4>2, <4>3
    <3>5. Chain!LinkVerifies(Records', i)
      BY <1>2, <3>2, <3>3, <3>4 DEF Chain!LinkVerifies, SealsItself
    <3>6. /\ new.blob_file = e
          /\ new.sealed.event.event_id = e
          /\ new.sealed.event.raw_sha256 = DigestOf[e]
      BY DEF NewLine, Chain!NextRecord
    <3> QED BY <3>2, <3>5, <3>6 DEF EventId, Chain!LinkVerifies
  <2> QED BY <2>3, <2>4
<1> QED BY <1>5, <1>6, <1>7, <1>8 DEF AuditInv

LEMMA AuditInvInitial == Init => AuditInv
<1> SUFFICES ASSUME Init PROVE AuditInv
  OBVIOUS
<1>1. lines = << >> /\ lines \in Seq(ManifestLine) /\ Len(lines) = 0
  BY EmptySeq DEF Init
<1>2. TypeOK
  BY <1>1, AuditAssumption DEF Init, TypeOK
<1>3. WrittenInv /\ HashInv /\ IntactInv
  BY <1>1 DEF Init, WrittenInv, HashInv, IntactInv
<1> QED BY <1>2, <1>3 DEF AuditInv

LEMMA AuditInvHolds == Spec => []AuditInv
<1>1. AuditInv /\ [Next]_vars => AuditInv'
  <2> SUFFICES ASSUME AuditInv, [Next]_vars PROVE AuditInv'
    OBVIOUS
  <2>1. ASSUME NEW e \in EventIds, NEW other \in Others, Store(e, other)
        PROVE  AuditInv'
    BY <2>1, StoreInductive
  <2>2. CASE Damage
    BY <2>2, DamageInductive
  <2>3. CASE UNCHANGED vars
    <3>1. lines' = lines /\ blobs' = blobs /\ written' = written
          /\ intact' = intact /\ alterations' = alterations
      BY <2>3 DEF vars
    <3> QED BY <3>1 DEF AuditInv, TypeOK, WrittenInv, HashInv, IntactInv,
                        KnownHashes, Records, EventId
  <2> QED BY <2>1, <2>2, <2>3 DEF Next
<1> QED BY <1>1, AuditInvInitial, PTL DEF Spec

-----------------------------------------------------------------------------
(***************************************************************************)
(* The walk of a passing verification that reaches its line.               *)
(***************************************************************************)
LEMMA PlaceExists ==
  ASSUME TypeOK, NEW e, Places(e) # {}
  PROVE  /\ Place(e) \in 1 .. Len(lines)
         /\ EventId(Place(e)) = e
         /\ \A j \in Places(e) : j <= Place(e)
<1>1. Places(e) \in SUBSET (1 .. Len(lines)) /\ Len(lines) \in Nat
  BY LenProperties DEF Places, TypeOK
<1>2. \E i \in Places(e) : \A j \in Places(e) : j <= i
  BY <1>1, LastPosition
<1>3. Place(e) \in Places(e) /\ \A j \in Places(e) : j <= Place(e)
  BY <1>2 DEF Place
<1> QED BY <1>3 DEF Places

LEMMA WalkLinks ==
  ASSUME TypeOK, NEW e \in EventIds, Passes(e), Covered(e)
  PROVE  \A i \in 1 .. Place(e) :
           /\ i \in 1 .. Len(lines)
           /\ lines[i] \in ManifestLine
           /\ Records[i] = lines[i].sealed
           /\ Chain!LinkVerifies(Records, i)
<1>1. Place(e) \in 1 .. Len(lines) /\ Len(lines) \in Nat
  BY PlaceExists, LenProperties DEF Passes, TypeOK
<1>2. Len(Records) = Len(lines)
  BY RecordsType DEF TypeOK, Records
<1>3. Chain!VerifyChainThrough(Records, Place(e))
  BY DEF Passes, Covered
<1> SUFFICES ASSUME NEW i \in 1 .. Place(e)
             PROVE  /\ i \in 1 .. Len(lines)
                    /\ lines[i] \in ManifestLine
                    /\ Records[i] = lines[i].sealed
                    /\ Chain!LinkVerifies(Records, i)
  OBVIOUS
<1>4. i \in 1 .. Len(lines) /\ i <= Place(e)
  BY <1>1
<1>5. lines[i] \in ManifestLine
  BY <1>4, ElementOfSeq DEF TypeOK
<1>6. Records[i] = lines[i].sealed
  BY <1>4 DEF Records
<1>7. Chain!LinkVerifies(Records, i)
  BY <1>2, <1>3, <1>4 DEF Chain!VerifyChainThrough
<1> QED BY <1>4, <1>5, <1>6, <1>7

(***************************************************************************)
(* Type correctness under every kind of damage.                            *)
(***************************************************************************)
THEOREM AuditTypeCorrect == Spec => []TypeOK
<1>1. AuditInv => TypeOK
  BY DEF AuditInv
<1> QED BY <1>1, AuditInvHolds, PTL

(***************************************************************************)
(* A PASS vouches for every record up to the verified one: verify() with   *)
(* the chain it walks.                                                     *)
(***************************************************************************)
THEOREM PassIsAsWritten == Spec => []PassMeansAsWritten
<1>1. AuditInv => PassMeansAsWritten
  <2> SUFFICES ASSUME AuditInv, NEW e \in EventIds, Passes(e), Covered(e)
               PROVE  /\ \A i \in 1 .. Place(e) :
                           \E line \in written : lines[i].sealed = line.sealed
                      /\ blobs[lines[Place(e)].blob_file] = DigestOf[e]
    BY DEF PassMeansAsWritten
  <2>1. TypeOK /\ HashInv /\ WrittenInv
    BY DEF AuditInv
  <2>2. ASSUME NEW i \in 1 .. Place(e)
        PROVE  \E line \in written : lines[i].sealed = line.sealed
    <3>1. /\ i \in 1 .. Len(lines)
          /\ lines[i].sealed \in Sealed
          /\ Records[i] = lines[i].sealed
          /\ Chain!LinkVerifies(Records, i)
      BY <2>1, WalkLinks DEF ManifestLine
    <3>2. SealsItself(lines[i].sealed)
      BY <3>1 DEF Chain!LinkVerifies, SealsItself
    <3>3. lines[i].sealed.chain_hash \in KnownHashes
      BY <2>1, <3>1 DEF HashInv
    <3>4. PICK line \in written :
            lines[i].sealed.chain_hash = line.sealed.chain_hash
      BY <3>1, <3>2, <3>3, SealIsNoGarbage DEF KnownHashes
    <3>5. line.sealed \in Sealed /\ SealsItself(line.sealed)
      BY <2>1 DEF TypeOK, ManifestLine, WrittenInv
    <3>6. lines[i].sealed = line.sealed
      BY <3>1, <3>2, <3>4, <3>5, SealDetermines
    <3> QED BY <3>6
  <2>3. Place(e) \in 1 .. Len(lines) /\ EventId(Place(e)) = e
    BY <2>1, PlaceExists DEF Passes
  <2>4. Place(e) \in 1 .. Place(e)
    BY <2>1, <2>3, LenProperties DEF TypeOK
  <2>5. PICK line \in written : lines[Place(e)].sealed = line.sealed
    BY <2>2, <2>4
  <2>6. lines[Place(e)].sealed.event.raw_sha256 = DigestOf[e]
    BY <2>1, <2>3, <2>5 DEF WrittenInv, EventId
  <2>7. blobs[lines[Place(e)].blob_file] = DigestOf[e]
    BY <2>6 DEF Passes
  <2> QED BY <2>2, <2>7
<1> QED BY <1>1, AuditInvHolds, PTL

(***************************************************************************)
(* The chain hash of a passing record fixes the history before it, by a    *)
(* least line whose hash would seal something else.                        *)
(***************************************************************************)
THEOREM PassHistoryFixed == Spec => []PassFixesHistory
<1>1. AuditInv => PassFixesHistory
  <2> SUFFICES ASSUME AuditInv, NEW e \in EventIds, Passes(e), Covered(e)
               PROVE  lines[Place(e)].sealed.chain_hash =
                        [i \in 1 .. Place(e) |-> MaterialOf(lines[i].sealed)]
    BY DEF PassFixesHistory
  <2> DEFINE n == Place(e)
             History(k) == [i \in 1 .. k |-> MaterialOf(lines[i].sealed)]
             Bad == {k \in 1 .. n : lines[k].sealed.chain_hash # History(k)}
  <2>1. TypeOK
    BY DEF AuditInv
  <2>2. n \in Nat /\ n >= 1
    BY <2>1, PlaceExists, LenProperties DEF Passes, TypeOK
  <2>3. \A k \in 1 .. n :
          /\ lines[k].sealed \in Sealed
          /\ Records[k] = lines[k].sealed
          /\ Chain!LinkVerifies(Records, k)
    BY <2>1, WalkLinks DEF ManifestLine
  <2>4. ASSUME NEW k \in 1 .. n
        PROVE  lines[k].sealed.chain_hash =
                 Append(IF k = 1 THEN << >> ELSE lines[k - 1].sealed.chain_hash,
                        MaterialOf(lines[k].sealed))
    <3>1. k # 1 => k - 1 \in 1 .. n
      BY <2>2
    <3> DEFINE r == lines[k].sealed
    <3>2. /\ r.chain_hash = Chain!ComputeChainHash(r.chain_index, r.event, r.meta,
                                                   r.previous_chain_hash)
          /\ r.previous_chain_hash =
               IF k = 1 THEN << >> ELSE Records[k - 1].chain_hash
      BY <2>3 DEF Chain!LinkVerifies, Chain!GENESIS_CHAIN_HASH
    <3>3. k # 1 => Records[k - 1].chain_hash = lines[k - 1].sealed.chain_hash
      BY <2>3, <3>1
    <3>4. r.chain_hash = Append(r.previous_chain_hash, MaterialOf(r))
      BY <3>2 DEF Chain!ComputeChainHash, MaterialOf
    <3> HIDE DEF r
    <3>5. r.previous_chain_hash =
            IF k = 1 THEN << >> ELSE lines[k - 1].sealed.chain_hash
      BY <3>2, <3>3
    <3> QED BY <3>4, <3>5 DEF r
  <2>5. ASSUME NEW k \in 1 .. n
        PROVE  /\ History(k - 1) \in Seq(Chain!Material)
               /\ Len(History(k - 1)) = k - 1
               /\ History(k) = Append(History(k - 1), MaterialOf(lines[k].sealed))
    <3>1. k - 1 \in Nat /\ \A i \in 1 .. k : i \in 1 .. n
      BY <2>2
    <3>2. \A i \in 1 .. k : MaterialOf(lines[i].sealed) \in Chain!Material
      BY <2>3, <3>1, MaterialType
    <3>3. History(k - 1) \in Seq(Chain!Material)
      BY <3>1, <3>2, IsASeq
    <3>4. Len(History(k - 1)) = k - 1
      <4>1. DOMAIN History(k - 1) = 1 .. k - 1
        OBVIOUS
      <4> QED BY <3>1, <3>3, <4>1, LenProperties
    <3>5. History(k) \in Seq(Chain!Material)
      BY <3>1, <3>2, IsASeq
    <3>6. Len(History(k)) = k
      <4>1. DOMAIN History(k) = 1 .. k
        OBVIOUS
      <4> QED BY <3>1, <3>5, <4>1, LenProperties
    <3>7. \A i \in 1 .. k : History(k)[i] = MaterialOf(lines[i].sealed)
      OBVIOUS
    <3>8. \A i \in 1 .. k - 1 : History(k - 1)[i] = MaterialOf(lines[i].sealed)
      OBVIOUS
    <3> DEFINE x == MaterialOf(lines[k].sealed)
    <3>9. x \in Chain!Material
      BY <3>1, <3>2
    <3> HIDE DEF History, x
    <3>10. /\ Append(History(k - 1), x) \in Seq(Chain!Material)
           /\ Len(Append(History(k - 1), x)) = k
           /\ \A i \in 1 .. k - 1 : Append(History(k - 1), x)[i] = History(k - 1)[i]
           /\ Append(History(k - 1), x)[k] = x
      BY <3>1, <3>3, <3>4, <3>9, AppendProperties
    <3>11. \A i \in 1 .. k : History(k)[i] = Append(History(k - 1), x)[i]
      BY <3>1, <3>7, <3>8, <3>10 DEF x
    <3>12. History(k) = Append(History(k - 1), x)
      BY <3>5, <3>6, <3>10, <3>11, SeqEqual
    <3> QED BY <3>3, <3>4, <3>12 DEF x
  <2>6. Bad = {}
    <3> SUFFICES ASSUME Bad # {} PROVE FALSE
      OBVIOUS
    <3>1. Bad \in SUBSET Nat
      BY <2>2
    <3>2. PICK k \in Bad : \A j \in Bad : k <= j
      <4> HIDE DEF Bad
      <4> QED BY <3>1, LeastNumber
    <3>3. k \in 1 .. n /\ lines[k].sealed.chain_hash # History(k)
      OBVIOUS
    <3>4. CASE k = 1
      <4>1. History(0) = << >>
        <5>1. History(k - 1) \in Seq(Chain!Material) /\ Len(History(k - 1)) = k - 1
          BY <2>5, <3>3
        <5>2. k - 1 = 0
          BY <3>4
        <5> HIDE DEF History
        <5>3. History(0) \in Seq(Chain!Material) /\ Len(History(0)) = 0
          BY <5>1, <5>2
        <5> QED BY <5>3, EmptySeq
      <4>2. History(k) = Append(History(k - 1), MaterialOf(lines[k].sealed))
        BY <2>5, <3>3
      <4>3. lines[k].sealed.chain_hash = Append(<< >>, MaterialOf(lines[k].sealed))
        BY <2>4, <3>3, <3>4
      <4> HIDE DEF History
      <4> QED BY <3>3, <3>4, <4>1, <4>2, <4>3
    <3>5. CASE k # 1
      <4>1. k - 1 \in 1 .. n /\ k - 1 < k /\ k - 1 \notin Bad
        BY <2>2, <3>1, <3>2, <3>3, <3>5
      <4>2. lines[k - 1].sealed.chain_hash = History(k - 1)
        BY <4>1
      <4>3. lines[k].sealed.chain_hash
              = Append(lines[k - 1].sealed.chain_hash, MaterialOf(lines[k].sealed))
        BY <2>4, <3>3, <3>5
      <4>4. History(k) = Append(History(k - 1), MaterialOf(lines[k].sealed))
        BY <2>5, <3>3
      <4> HIDE DEF History
      <4> QED BY <3>3, <4>2, <4>3, <4>4
    <3> QED BY <3>4, <3>5
  <2>7. n \in 1 .. n /\ n \notin Bad
    BY <2>2, <2>6
  <2> QED BY <2>7
<1> QED BY <1>1, AuditInvHolds, PTL

(***************************************************************************)
(* Damage behind a record, or to other blobs, never fails its              *)
(* verification.                                                           *)
(***************************************************************************)
THEOREM LocalDamage == Spec => []DamageStaysLocal
<1>1. AuditInv => DamageStaysLocal
  <2> SUFFICES ASSUME AuditInv, NEW i \in 1 .. intact,
                      blobs[EventId(i)] = DigestOf[EventId(i)],
                      Places(EventId(i)) = {i}
               PROVE  Passes(EventId(i))
    BY DEF DamageStaysLocal
  <2>1. TypeOK /\ IntactInv /\ Len(lines) \in Nat
    BY LenProperties DEF AuditInv, TypeOK
  <2>2. i \in 1 .. Len(lines) /\ intact \in Nat
    BY <2>1 DEF TypeOK
  <2>3. Place(EventId(i)) = i
    BY DEF Place
  <2>4. /\ Chain!LinkVerifies(Records, i)
        /\ lines[i].blob_file = EventId(i)
        /\ lines[i].sealed.event.raw_sha256 = DigestOf[EventId(i)]
    BY <2>1 DEF IntactInv
  <2>5. lines[i].sealed.chain_index = i
    BY <2>2, <2>4 DEF Chain!LinkVerifies, Records
  <2>6. Chain!VerifyChainThrough(Records, i)
    <3>1. \A j \in 1 .. Len(Records) : j <= i => j \in 1 .. intact
      BY <2>1, <2>2, RecordsType DEF TypeOK, Records
    <3> QED BY <2>1, <3>1 DEF IntactInv, Chain!VerifyChainThrough
  <2> QED BY <2>3, <2>4, <2>5, <2>6 DEF Passes
<1> QED BY <1>1, AuditInvHolds, PTL
=============================================================================
