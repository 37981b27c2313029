------------------------- MODULE NormalizationProofs -------------------------
(***************************************************************************)
(* Proofs about the mapper and the fidelity audit: what becomes of each    *)
(* entry of a legacy event, for any event and any conversions.             *)
(***************************************************************************)
EXTENDS MappingFidelity, TLAPS, PositionLemmas, FiniteSetTheorems

(***************************************************************************)
(* Facts about Python's names and values that have no proof here, because  *)
(* the provers know nothing of the characters of a text, or of what None   *)
(* is.  Theorems that need them say so.                                    *)
(***************************************************************************)
SuffixesDiffer ==
  \A key \in STRING : \A m, n \in Nat :
    Suffixed(key, m) = Suffixed(key, n) => m = n

KnownNames == LegacyEventKeys \cup ControlFields

RenamedIsUnknown ==
  \A key \in STRING :
    /\ Prefixed(key) \notin KnownNames
    /\ \A n \in Nat : Suffixed(key, n) \notin KnownNames

(***************************************************************************)
(* Min and Max of a set of numbers are members of it.                      *)
(***************************************************************************)
LEMMA LeastIsMin ==
  ASSUME NEW T \in SUBSET Nat, T # {}
  PROVE  Min(T) \in T
BY LeastNumber DEF Min

\* The greatest of some positions is one of them, and no other is greater.
LEMMA GreatestIsMax ==
  ASSUME NEW n \in Nat, NEW T \in SUBSET (1 .. n), T # {}
  PROVE  Max(T) \in T /\ \A j \in T : j <= Max(T)
BY LastPosition DEF Max

(***************************************************************************)
(* _collision_safe_key finds a free name, the one it was asked for if that *)
(* is free, and never renames an entry to a known field.  Enough suffixes  *)
(* are tried: more than there are names.                                   *)
(***************************************************************************)
LEMMA CollisionSafe ==
  ASSUME SuffixesDiffer, NEW values, IsFiniteSet(DOMAIN values),
         NEW key \in STRING
  PROVE  /\ CollisionSafeKey(values, key) \notin DOMAIN values
         /\ key \notin DOMAIN values => CollisionSafeKey(values, key) = key
         /\ RenamedIsUnknown /\ key \in DOMAIN values
              => CollisionSafeKey(values, key) \notin KnownNames
<1> DEFINE c == Cardinality(DOMAIN values)
           suffixes == 2 .. c + 2
           free == {n \in suffixes : Suffixed(key, n) \notin DOMAIN values}
<1>1. c \in Nat
  BY FS_CardinalityType
<1> HIDE DEF c
<1>a. suffixes \in SUBSET Nat
  BY <1>1
<1>2. free # {}
  <2> SUFFICES ASSUME free = {} PROVE FALSE
    OBVIOUS
  <2> DEFINE name == [n \in suffixes |-> Suffixed(key, n)]
  <2>1. name \in [suffixes -> DOMAIN values]
    OBVIOUS
  <2>2. \A m, n \in suffixes : name[m] = name[n] => m = n
    BY <1>a DEF SuffixesDiffer
  <2>3. Cardinality(suffixes) = c + 1 /\ IsFiniteSet(suffixes)
    <3>1. 2 \in Int /\ c + 2 \in Int /\ ~(2 > c + 2)
      BY <1>1
    <3> QED
      BY <1>1, <3>1, FS_Interval
  <2> HIDE DEF name
  <2>4. \E m, n \in suffixes : m # n /\ name[m] = name[n]
    <3>1. Cardinality(DOMAIN values) < Cardinality(suffixes)
      BY <1>1, <2>3 DEF c
    <3> QED
      <4> HIDE DEF suffixes
      <4> QED
        BY <2>1, <2>3, <3>1, FS_PigeonHole
  <2> QED
    BY <2>2, <2>4
<1>3. Min(free) \in free
  <2>1. free \in SUBSET Nat
    BY <1>a
  <2> HIDE DEF free
  <2> QED
    BY <1>2, <2>1, LeastIsMin
<1>4. CASE key \notin DOMAIN values
  BY <1>4 DEF CollisionSafeKey
<1>5. CASE key \in DOMAIN values /\ Prefixed(key) \notin DOMAIN values
  BY <1>5 DEF CollisionSafeKey, RenamedIsUnknown
<1>6. CASE key \in DOMAIN values /\ Prefixed(key) \in DOMAIN values
  <2>1. CollisionSafeKey(values, key) = Suffixed(key, Min(free))
    BY <1>6 DEF CollisionSafeKey, c
  <2>2. /\ Min(free) \in Nat
        /\ Suffixed(key, Min(free)) \notin DOMAIN values
    BY <1>a, <1>3
  <2> HIDE DEF free
  <2> QED
    BY <1>6, <2>1, <2>2 DEF RenamedIsUnknown
<1> QED
  BY <1>4, <1>5, <1>6
-----------------------------------------------------------------------------
(***************************************************************************)
(* The fold over the preserved entries, as the function of its prefixes.   *)
(***************************************************************************)
IsIteration(g, k, details, entries) ==
  g = [S \in SUBSET (1 .. k) |->
         IF S = {} THEN details
         ELSE Preserve(g[S \ {Max(S)}], entries[Max(S)])]

(***************************************************************************)
(* There is such a function: FoldLeft is what it says.                     *)
(***************************************************************************)
LEMMA IterationExists ==
  ASSUME NEW n \in Nat, NEW details, NEW entries
  PROVE  \A k \in 0 .. n : \E g : IsIteration(g, k, details, entries)
<1> USE DEF IsIteration
<1> DEFINE Body(g, S) == IF S = {} THEN details
                         ELSE Preserve(g[S \ {Max(S)}], entries[Max(S)])
           P(k) == \E g : IsIteration(g, k, details, entries)
           T == {k \in 0 .. n : ~P(k)}
<1> SUFFICES ASSUME T # {} PROVE FALSE
  OBVIOUS
<1>1. PICK k \in T : \A j \in T : k <= j
  <2>1. T \in SUBSET Nat
    OBVIOUS
  <2> HIDE DEF T
  <2> QED
    BY <2>1, LeastNumber
<1>b. k \in 0 .. n /\ ~P(k)
  OBVIOUS
<1>2. CASE k = 0
  <2> DEFINE g == [S \in SUBSET (1 .. 0) |-> details]
  <2>1. g = [S \in SUBSET (1 .. 0) |-> Body(g, S)]
    OBVIOUS
  <2>2. P(0)
    BY <2>1
  <2> QED
    BY <1>2, <2>2
<1>3. CASE k # 0
  <2>1. k - 1 \in 0 .. n /\ k - 1 \notin T
    <3> HIDE DEF P
    <3> QED
      BY <1>1, <1>3
  <2>2. P(k - 1)
    BY <2>1
  <2>3. PICK g : g = [S \in SUBSET (1 .. k - 1) |-> Body(g, S)]
    BY <2>2
  <2> DEFINE h == [S \in SUBSET (1 .. k) |-> Body(g, S)]
  <2>4. ASSUME NEW S \in SUBSET (1 .. k), S # {}
        PROVE  h[S \ {Max(S)}] = g[S \ {Max(S)}]
    <3>1. Max(S) \in S /\ \A j \in S : j <= Max(S)
      <4>1. k \in Nat
        BY <1>b
      <4> QED
        BY <4>1, <2>4, GreatestIsMax
    <3>2. S \ {Max(S)} \in SUBSET (1 .. k - 1)
      <4>1. k \in Nat
        BY <1>b
      <4> QED
        <5> SUFFICES ASSUME NEW j \in S \ {Max(S)} PROVE j \in 1 .. k - 1
          OBVIOUS
        <5>1. j \in 1 .. k /\ Max(S) \in 1 .. k /\ j <= Max(S) /\ j # Max(S)
          BY <3>1
        <5> QED
          BY <4>1, <5>1
    <3>3. S \ {Max(S)} \in SUBSET (1 .. k)
      OBVIOUS
    <3> DEFINE R == S \ {Max(S)}
    <3>4. h[R] = Body(g, R)
      BY <3>3
    <3>5. g[R] = Body(g, R)
      BY <3>2, <2>3
    <3> QED
      BY <3>4, <3>5
  <2>5. \A S \in SUBSET (1 .. k) : Body(g, S) = Body(h, S)
    <3> HIDE DEF h
    <3> QED
      BY <2>4
  <2>6. h = [S \in SUBSET (1 .. k) |-> Body(h, S)]
    <3>1. h = [S \in SUBSET (1 .. k) |-> Body(g, S)]
      OBVIOUS
    <3> HIDE DEF h, Body
    <3> QED
      BY <2>5, <3>1
  <2>7. P(k)
    <3> HIDE DEF h
    <3> QED
      BY <2>6
  <2> QED
    BY <2>7, <1>b
<1> QED
  BY <1>2, <1>3

(***************************************************************************)
(* The calls of _preserve_unmapped one after the other are a sequence of   *)
(* details, each made of the one before.                                   *)
(***************************************************************************)
PreserveAll(details, entries) == FoldLeft(Preserve, details, entries)

\* The details after each call, from none to all of them.
LEMMA PreservationSteps ==
  ASSUME NEW n \in Nat, NEW details, NEW entries, DOMAIN entries = 1 .. n
  PROVE  \E after :
           /\ after[0] = details
           /\ \A i \in 1 .. n : after[i] = Preserve(after[i - 1], entries[i])
           /\ after[n] = PreserveAll(details, entries)
<1> DEFINE iter == CHOOSE g : IsIteration(g, n, details, entries)
           after == [i \in 0 .. n |-> iter[1 .. i]]
<1>1. IsIteration(iter, n, details, entries)
  <2>1. n \in 0 .. n
    OBVIOUS
  <2> QED
    BY <2>1, IterationExists
<1>2. PreserveAll(details, entries) = iter[1 .. n]
  BY DEF PreserveAll, FoldLeft, MapThenFoldSet, IsIteration
<1> HIDE DEF iter
<1> USE DEF IsIteration
<1>3. after[0] = details
  <2>1. 1 .. 0 = {} /\ after[0] = iter[1 .. 0]
    OBVIOUS
  <2>2. {} \in SUBSET (1 .. n)
    OBVIOUS
  <2> QED
    BY <1>1, <2>1, <2>2
<1>4. ASSUME NEW i \in 1 .. n
      PROVE  after[i] = Preserve(after[i - 1], entries[i])
  <2>1. 1 .. i \in SUBSET (1 .. n) /\ 1 .. i # {} /\ i \in 1 .. i
    OBVIOUS
  <2>2. Max(1 .. i) \in 1 .. i /\ \A j \in 1 .. i : j <= Max(1 .. i)
    BY <2>1, GreatestIsMax
  <2>3. Max(1 .. i) = i
    BY <2>1, <2>2
  <2>4. (1 .. i) \ {i} = 1 .. i - 1
    OBVIOUS
  <2>5. iter[1 .. i] = Preserve(iter[1 .. i - 1], entries[i])
    BY <1>1, <2>1, <2>3, <2>4
  <2> QED
    BY <2>5
<1>5. after[n] = iter[1 .. n]
  OBVIOUS
<1> HIDE DEF after
<1> QED
  BY <1>2, <1>3, <1>4, <1>5

-----------------------------------------------------------------------------
NoneIsNoValue == \A kind, v : <<kind, v>> # None

(***************************************************************************)
(* What is written under unmapped_fields is what is read there.            *)
(***************************************************************************)
LEMMA MappingIsKept ==
  ASSUME NoneIsNoValue, NEW details, NEW f
  PROVE  UnmappedFields(Put(details, "unmapped_fields", Mapping(f))) = f
<1>1. Lookup(Put(details, "unmapped_fields", Mapping(f)), "unmapped_fields")
        = Mapping(f)
  BY DEF Lookup, Put
<1>2. Mapping(f) # None
  BY DEF NoneIsNoValue, Mapping
<1>3. Is("mapping", Mapping(f)) /\ Mapping(f)[2] = f
  BY <1>2 DEF Is, Mapping
<1> QED
  BY <1>1, <1>2, <1>3 DEF UnmappedFields

(***************************************************************************)
(* One call puts the value under a new name and leaves all else as it was. *)
(***************************************************************************)
LEMMA PreserveOne ==
  ASSUME NoneIsNoValue, SuffixesDiffer, NEW details, NEW entry,
         entry[1] \in STRING, IsFiniteSet(DOMAIN UnmappedFields(details))
  PROVE  LET before == UnmappedFields(details)
             result == Preserve(details, entry)
             name == CollisionSafeKey(before, entry[1])
         IN /\ name \notin DOMAIN before
            /\ UnmappedFields(result) = Put(before, name, entry[2])
            /\ IsFiniteSet(DOMAIN UnmappedFields(result))
            /\ DOMAIN result = DOMAIN details \cup {"unmapped_fields"}
            /\ \A k \in DOMAIN details \ {"unmapped_fields"} :
                 result[k] = details[k]
<1> DEFINE before == UnmappedFields(details)
           result == Preserve(details, entry)
           name == CollisionSafeKey(before, entry[1])
<1>1. name \notin DOMAIN before
  BY CollisionSafe
<1>2. UnmappedFields(result) = Put(before, name, entry[2])
  BY MappingIsKept DEF Preserve
<1>3. DOMAIN UnmappedFields(result) = DOMAIN before \cup {name}
  BY <1>2 DEF Put
<1>4. IsFiniteSet(DOMAIN UnmappedFields(result))
  BY <1>3, FS_AddElement
<1>5. /\ DOMAIN result = DOMAIN details \cup {"unmapped_fields"}
      /\ \A k \in DOMAIN details \ {"unmapped_fields"} : result[k] = details[k]
  BY DEF Preserve, Put
<1> HIDE DEF before, result, name
<1> QED
  BY <1>1, <1>2, <1>4, <1>5 DEF before, result, name

(***************************************************************************)
(* Where the entries of a prefix are: each under a name of its own, beside *)
(* what was there before.                                                  *)
(***************************************************************************)
NewName(after, entries, i) ==
  CollisionSafeKey(UnmappedFields(after[i - 1]), entries[i][1])

PrefixKept(details, entries, after, k) ==
  LET before == UnmappedFields(details)
      now == UnmappedFields(after[k])
  IN /\ IsFiniteSet(DOMAIN now)
     /\ DOMAIN now = DOMAIN before \cup {NewName(after, entries, i) : i \in 1 .. k}
     /\ \A x \in DOMAIN before : now[x] = before[x]
     /\ \A i \in 1 .. k :
          /\ NewName(after, entries, i) \notin DOMAIN before
          /\ now[NewName(after, entries, i)] = entries[i][2]
          /\ \A j \in 1 .. k :
               NewName(after, entries, i) = NewName(after, entries, j) => i = j
     /\ \A x \in DOMAIN details \ {"unmapped_fields"} :
          x \in DOMAIN after[k] /\ after[k][x] = details[x]

(***************************************************************************)
(* After each call, what was preserved so far is there: by the least number *)
(* of calls after which it would not be.                                   *)
(***************************************************************************)
LEMMA PrefixesKept ==
  ASSUME NoneIsNoValue, SuffixesDiffer, NEW n \in Nat,
         NEW details, NEW entries, NEW after,
         IsFiniteSet(DOMAIN UnmappedFields(details)),
         \A i \in 1 .. n : entries[i][1] \in STRING,
         after[0] = details,
         \A i \in 1 .. n : after[i] = Preserve(after[i - 1], entries[i])
  PROVE  \A k \in 0 .. n : PrefixKept(details, entries, after, k)
<1> DEFINE T == {k \in 0 .. n : ~PrefixKept(details, entries, after, k)}
<1> SUFFICES ASSUME T # {} PROVE FALSE
  OBVIOUS
<1>1. PICK k \in T : \A j \in T : k <= j
  <2>1. T \in SUBSET Nat
    OBVIOUS
  <2> HIDE DEF T
  <2> QED
    BY <2>1, LeastNumber
<1>2. k \in 0 .. n /\ ~PrefixKept(details, entries, after, k)
  OBVIOUS
<1>3. CASE k = 0
  <2>1. 1 .. 0 = {}
    OBVIOUS
  <2> QED
    BY <1>2, <1>3, <2>1 DEF PrefixKept
<1>4. CASE k # 0
  <2>1. k - 1 \in 0 .. n /\ k - 1 \notin T /\ k \in 1 .. n
    BY <1>1, <1>2, <1>4
  <2>2. PrefixKept(details, entries, after, k - 1)
    BY <2>1
  <2> DEFINE before == UnmappedFields(details)
             last == UnmappedFields(after[k - 1])
             now == UnmappedFields(after[k])
             N(i) == NewName(after, entries, i)
  <2>3. /\ N(k) \notin DOMAIN last
        /\ now = Put(last, N(k), entries[k][2])
        /\ IsFiniteSet(DOMAIN now)
        /\ \A x \in DOMAIN after[k - 1] \ {"unmapped_fields"} :
             x \in DOMAIN after[k] /\ after[k][x] = after[k - 1][x]
    <3>1. entries[k][1] \in STRING /\ IsFiniteSet(DOMAIN last)
      BY <2>1, <2>2 DEF PrefixKept
    <3>2. after[k] = Preserve(after[k - 1], entries[k])
      BY <2>1
    <3> DEFINE d == after[k - 1]
               e == entries[k]
               result == Preserve(d, e)
    <3>3. /\ CollisionSafeKey(UnmappedFields(d), e[1])
               \notin DOMAIN UnmappedFields(d)
          /\ UnmappedFields(result) =
               Put(UnmappedFields(d), CollisionSafeKey(UnmappedFields(d), e[1]),
                   e[2])
          /\ IsFiniteSet(DOMAIN UnmappedFields(result))
          /\ DOMAIN result = DOMAIN d \cup {"unmapped_fields"}
          /\ \A x \in DOMAIN d \ {"unmapped_fields"} : result[x] = d[x]
      <4> HIDE DEF d, e
      <4>1. e[1] \in STRING /\ IsFiniteSet(DOMAIN UnmappedFields(d))
        BY <3>1 DEF d, e
      <4> QED
        BY <4>1, PreserveOne
    <3> QED
      BY <3>2, <3>3 DEF NewName
  <2>4. /\ DOMAIN now = DOMAIN last \cup {N(k)}
        /\ now[N(k)] = entries[k][2]
        /\ \A x \in DOMAIN last : now[x] = last[x]
    BY <2>3 DEF Put
  <2>5. /\ DOMAIN last = DOMAIN before \cup {N(i) : i \in 1 .. k - 1}
        /\ \A x \in DOMAIN before : last[x] = before[x]
        /\ \A i \in 1 .. k - 1 :
             /\ N(i) \notin DOMAIN before /\ last[N(i)] = entries[i][2]
             /\ \A j \in 1 .. k - 1 : N(i) = N(j) => i = j
        /\ \A x \in DOMAIN details \ {"unmapped_fields"} :
             x \in DOMAIN after[k - 1] /\ after[k - 1][x] = details[x]
    BY <2>2 DEF PrefixKept
  <2> HIDE DEF before, last, now, N
  <2>6. 1 .. k = (1 .. k - 1) \cup {k}
    BY <2>1
  <2>7. DOMAIN now = DOMAIN before \cup {N(i) : i \in 1 .. k}
    BY <2>4, <2>5, <2>6
  <2>8. \A x \in DOMAIN before : now[x] = before[x]
    BY <2>4, <2>5
  <2>9. \A i \in 1 .. k - 1 : N(i) \in DOMAIN last
    BY <2>5
  <2>10. \A i \in 1 .. k : N(i) \notin DOMAIN before /\ now[N(i)] = entries[i][2]
    BY <2>3, <2>4, <2>5, <2>6, <2>9
  <2>11. \A i, j \in 1 .. k : N(i) = N(j) => i = j
    BY <2>3, <2>5, <2>6, <2>9
  <2>12. \A x \in DOMAIN details \ {"unmapped_fields"} :
           x \in DOMAIN after[k] /\ after[k][x] = details[x]
    BY <2>3, <2>5
  <2>13. PrefixKept(details, entries, after, k)
    BY <2>3, <2>7, <2>8, <2>10, <2>11, <2>12 DEF PrefixKept, before, now, N
  <2> QED
    BY <1>2, <2>13
<1> QED
  BY <1>3, <1>4

-----------------------------------------------------------------------------
(***************************************************************************)
(* What is preserved: each field without a slot and each further entry     *)
(* once.                                                                   *)
(***************************************************************************)
KeysIn(s) == {s[i][1] : i \in DOMAIN s}

DistinctKeys(s) == \A i, j \in DOMAIN s : s[i][1] = s[j][1] => i = j

(***************************************************************************)
(* Lists without a common key stay without duplicates when joined.         *)
(***************************************************************************)
LEMMA ConcatKeys ==
  ASSUME NEW S, NEW s \in Seq(S), NEW t \in Seq(S),
         DistinctKeys(s), DistinctKeys(t), KeysIn(s) \cap KeysIn(t) = {}
  PROVE  /\ s \o t \in Seq(S)
         /\ DistinctKeys(s \o t)
         /\ KeysIn(s \o t) = KeysIn(s) \cup KeysIn(t)
         /\ ToSet(s \o t) = ToSet(s) \cup ToSet(t)
<1> DEFINE u == s \o t
           m == Len(s)
           n == Len(t)
<1>1. /\ m \in Nat /\ n \in Nat
      /\ DOMAIN s = 1 .. m /\ DOMAIN t = 1 .. n
  BY LenProperties
<1>2. /\ u \in Seq(S) /\ Len(u) = m + n
      /\ \A i \in 1 .. m + n : u[i] = IF i <= m THEN s[i] ELSE t[i - m]
  BY ConcatProperties
<1>3. DOMAIN u = 1 .. m + n
  BY <1>2, LenProperties
<1> HIDE DEF u, m, n
<1>4. \A i \in DOMAIN s : i \in DOMAIN u /\ u[i] = s[i]
  BY <1>1, <1>2, <1>3
<1>5. \A i \in DOMAIN t : i + m \in DOMAIN u /\ u[i + m] = t[i]
  <2> SUFFICES ASSUME NEW i \in 1 .. n
               PROVE  i + m \in 1 .. m + n /\ u[i + m] = t[i]
    BY <1>1, <1>3
  <2>1. i + m \in 1 .. m + n /\ ~(i + m <= m) /\ (i + m) - m = i
    BY <1>1
  <2> QED
    BY <1>2, <2>1
<1>6. \A i \in DOMAIN u : \/ i \in DOMAIN s /\ u[i] = s[i]
                          \/ i - m \in DOMAIN t /\ u[i] = t[i - m]
  <2> SUFFICES ASSUME NEW i \in 1 .. m + n
               PROVE  \/ i \in 1 .. m /\ u[i] = s[i]
                      \/ i - m \in 1 .. n /\ u[i] = t[i - m]
    BY <1>1, <1>3
  <2> QED
    BY <1>1, <1>2
<1>7. ToSet(u) = ToSet(s) \cup ToSet(t)
  BY <1>4, <1>5, <1>6 DEF ToSet
<1>8. KeysIn(u) = KeysIn(s) \cup KeysIn(t)
  BY <1>4, <1>5, <1>6 DEF KeysIn
<1>9. DistinctKeys(u)
  <2> SUFFICES ASSUME NEW i \in DOMAIN u, NEW j \in DOMAIN u, u[i][1] = u[j][1]
               PROVE  i = j
    BY DEF DistinctKeys
  <2>1. CASE i \in DOMAIN s /\ u[i] = s[i] /\ j \in DOMAIN s /\ u[j] = s[j]
    BY <2>1 DEF DistinctKeys
  <2>2. CASE /\ i - m \in DOMAIN t /\ u[i] = t[i - m]
             /\ j - m \in DOMAIN t /\ u[j] = t[j - m]
    <3>1. i - m = j - m
      BY <2>2 DEF DistinctKeys
    <3> QED
      BY <1>1, <1>3, <3>1
  <2>3. CASE /\ i \in DOMAIN s /\ u[i] = s[i]
             /\ j - m \in DOMAIN t /\ u[j] = t[j - m]
    <3>1. u[i][1] \in KeysIn(s) /\ u[j][1] \in KeysIn(t)
      BY <2>3 DEF KeysIn
    <3> QED
      BY <3>1
  <2>4. CASE /\ i - m \in DOMAIN t /\ u[i] = t[i - m]
             /\ j \in DOMAIN s /\ u[j] = s[j]
    <3>1. u[i][1] \in KeysIn(t) /\ u[j][1] \in KeysIn(s)
      BY <2>4 DEF KeysIn
    <3> QED
      BY <3>1
  <2> QED
    BY <1>6, <2>1, <2>2, <2>3, <2>4
<1> QED
  BY <1>2, <1>7, <1>8, <1>9 DEF u

(***************************************************************************)
(* The fields that may find no slot.                                       *)
(***************************************************************************)
FailingKeys == {"timestamp"} \cup EndpointKeys

\* No other field is left without a slot.
LEMMA FailingKeysOnly ==
  ASSUME NEW legacy, NEW k, Unplaced(legacy, k)
  PROVE  k \in FailingKeys
BY DEF Unplaced, FailingKeys, EndpointKeys, PortKeys

FieldEntry(legacy, key) == <<key, legacy.fields[key]>>

UnplacedKeys(legacy) == {k \in FailingKeys : Unplaced(legacy, k)}

\* One of these fields: it is preserved as it is, or there is nothing to preserve.
LEMMA OneUnplaced ==
  ASSUME NEW legacy, NEW key, NEW S, FieldEntry(legacy, key) \in S
  PROVE  /\ UnplacedEntry(legacy, key) \in Seq(S)
         /\ DistinctKeys(UnplacedEntry(legacy, key))
         /\ KeysIn(UnplacedEntry(legacy, key)) =
              {k \in {key} : Unplaced(legacy, k)}
         /\ ToSet(UnplacedEntry(legacy, key)) =
              {FieldEntry(legacy, k) : k \in {k \in {key} : Unplaced(legacy, k)}}
<1>1. CASE Unplaced(legacy, key)
  <2>1. UnplacedEntry(legacy, key) = <<FieldEntry(legacy, key)>>
    BY <1>1 DEF UnplacedEntry, FieldEntry
  <2> DEFINE s == <<FieldEntry(legacy, key)>>
  <2>2. s \in Seq(S) /\ DOMAIN s = {1} /\ s[1] = FieldEntry(legacy, key)
    OBVIOUS
  <2>3. FieldEntry(legacy, key)[1] = key
    BY DEF FieldEntry
  <2> HIDE DEF s
  <2>4. /\ DistinctKeys(s) /\ KeysIn(s) = {key}
        /\ ToSet(s) = {FieldEntry(legacy, key)}
    BY <2>2, <2>3 DEF DistinctKeys, KeysIn, ToSet
  <2> QED
    BY <1>1, <2>1, <2>2, <2>4 DEF s
<1>2. CASE ~Unplaced(legacy, key)
  <2>1. UnplacedEntry(legacy, key) = <<>>
    BY <1>2 DEF UnplacedEntry
  <2>2. <<>> \in Seq(S) /\ DOMAIN <<>> = {}
    OBVIOUS
  <2> QED
    BY <1>2, <2>1, <2>2 DEF DistinctKeys, KeysIn, ToSet
<1> QED
  BY <1>1, <1>2

(***************************************************************************)
(* The preserved entries are the fields without a slot and the further     *)
(* entries of the event, and no two have the same key.                     *)
(***************************************************************************)
LEMMA PreservedOnce ==
  ASSUME NEW legacy, IsDictionary(legacy)
  PROVE  /\ DOMAIN Preserved(legacy) = 1 .. Len(Preserved(legacy))
         /\ Len(Preserved(legacy)) \in Nat
         /\ DistinctKeys(Preserved(legacy))
         /\ KeysIn(Preserved(legacy)) \subseteq STRING
         /\ ToSet(Preserved(legacy)) =
              {FieldEntry(legacy, k) : k \in UnplacedKeys(legacy)}
                \cup ToSet(legacy.extra)
<1> DEFINE S == {FieldEntry(legacy, k) : k \in FailingKeys} \cup ToSet(legacy.extra)
           E(key) == UnplacedEntry(legacy, key)
           U(K) == {k \in K : Unplaced(legacy, k)}
           Covers(s, K) == /\ s \in Seq(S)
                           /\ DistinctKeys(s)
                           /\ KeysIn(s) = U(K)
                           /\ ToSet(s) = {FieldEntry(legacy, k) : k \in U(K)}
<1>1. \A key \in FailingKeys : Covers(E(key), {key})
  BY OneUnplaced
<1>2. ASSUME NEW s, NEW K, Covers(s, K), NEW key \in FailingKeys, key \notin K
      PROVE  Covers(s \o E(key), K \cup {key})
  <2>1. Covers(E(key), {key})
    BY <1>1
  <2> HIDE DEF S, E
  <2>2. KeysIn(s) \cap KeysIn(E(key)) = {}
    BY <1>2, <2>1
  <2>3. /\ s \o E(key) \in Seq(S) /\ DistinctKeys(s \o E(key))
        /\ KeysIn(s \o E(key)) = KeysIn(s) \cup KeysIn(E(key))
        /\ ToSet(s \o E(key)) = ToSet(s) \cup ToSet(E(key))
    BY <1>2, <2>1, <2>2, ConcatKeys
  <2>4. U(K \cup {key}) = U(K) \cup U({key})
    OBVIOUS
  <2> QED
    BY <1>2, <2>1, <2>3, <2>4
<1> DEFINE s1 == E("timestamp")
           s2 == s1 \o E("src_ip")
           s3 == s2 \o E("src_port")
           s4 == s3 \o E("dst_ip")
           s5 == s4 \o E("dst_port")
<1>3. Covers(s5, {"timestamp", "src_ip", "src_port", "dst_ip", "dst_port"})
  <2>1. FailingKeys = {"timestamp", "src_ip", "src_port", "dst_ip", "dst_port"}
    BY DEF FailingKeys, EndpointKeys
  <2> HIDE DEF Covers, E
  <2>2. Covers(s1, {"timestamp"})
    BY <1>1, <2>1
  <2> DEFINE K2 == {"timestamp"} \cup {"src_ip"}
             K3 == K2 \cup {"src_port"}
             K4 == K3 \cup {"dst_ip"}
  <2>3. Covers(s2, K2)
    BY <1>2, <2>1, <2>2
  <2>4. Covers(s3, K3)
    BY <1>2, <2>1, <2>3
  <2>5. Covers(s4, K4)
    BY <1>2, <2>1, <2>4
  <2>6. Covers(s5, K4 \cup {"dst_port"})
    BY <1>2, <2>1, <2>5
  <2>7. K4 \cup {"dst_port"}
          = {"timestamp", "src_ip", "src_port", "dst_ip", "dst_port"}
    OBVIOUS
  <2> QED
    BY <2>6, <2>7
<1>4. U({"timestamp", "src_ip", "src_port", "dst_ip", "dst_port"})
        = UnplacedKeys(legacy)
  BY DEF UnplacedKeys, FailingKeys, EndpointKeys
<1>5. /\ s5 \in Seq(S) /\ DistinctKeys(s5)
      /\ KeysIn(s5) = UnplacedKeys(legacy)
      /\ ToSet(s5) = {FieldEntry(legacy, k) : k \in UnplacedKeys(legacy)}
  BY <1>3, <1>4
<1>6. Preserved(legacy) = s5 \o legacy.extra
  BY DEF Preserved
<1> HIDE DEF s5
<1>7. /\ legacy.extra \in Seq(S) /\ DistinctKeys(legacy.extra)
      /\ KeysIn(legacy.extra) \subseteq STRING \ LegacyEventKeys
  <2>1. legacy.extra \in Seq(S)
    BY SeqMonotonic DEF IsDictionary, IsList
  <2> QED
    BY <2>1 DEF IsDictionary, DistinctKeys, KeysIn
<1>8. UnplacedKeys(legacy) \subseteq STRING \cap LegacyEventKeys
  BY DEF UnplacedKeys, FailingKeys, EndpointKeys, LegacyEventKeys, ScalarKeys,
     SemanticKeys
<1>9. /\ Preserved(legacy) \in Seq(S) /\ DistinctKeys(Preserved(legacy))
      /\ KeysIn(Preserved(legacy)) = KeysIn(s5) \cup KeysIn(legacy.extra)
      /\ ToSet(Preserved(legacy)) = ToSet(s5) \cup ToSet(legacy.extra)
  <2>1. KeysIn(s5) \cap KeysIn(legacy.extra) = {}
    BY <1>5, <1>7, <1>8
  <2> HIDE DEF S
  <2> QED
    BY <1>5, <1>6, <1>7, <2>1, ConcatKeys
<1> HIDE DEF S
<1>10. /\ DOMAIN Preserved(legacy) = 1 .. Len(Preserved(legacy))
       /\ Len(Preserved(legacy)) \in Nat
  BY <1>9, LenProperties
<1> QED
  BY <1>5, <1>7, <1>8, <1>9, <1>10

(***************************************************************************)
(* Where the entries of an event are in the details that the mapper        *)
(* returns: each under a name of its own, the one it had unless that was   *)
(* taken, beside everything that was there before.                         *)
(***************************************************************************)
KeptAs(legacy, details, names) ==
  LET entries == Preserved(legacy)
      before == UnmappedFields(legacy.details)
      after == UnmappedFields(details)
  IN /\ DOMAIN after = DOMAIN before \cup {names[i] : i \in DOMAIN entries}
     /\ IsFiniteSet(DOMAIN after)
     /\ \A x \in DOMAIN before : after[x] = before[x]
     /\ \A i \in DOMAIN entries :
          /\ names[i] \notin DOMAIN before
          /\ after[names[i]] = entries[i][2]
          /\ \A j \in DOMAIN entries : names[i] = names[j] => i = j
          /\ \/ names[i] = entries[i][1]
             \/ /\ names[i] \notin KnownNames
                /\ \/ entries[i][1] \in DOMAIN before
                   \/ \E j \in DOMAIN entries : entries[i][1] = names[j]
     /\ \A x \in DOMAIN legacy.details \ {"unmapped_fields"} :
          x \in DOMAIN details /\ details[x] = legacy.details[x]

(***************************************************************************)
(* The mapper keeps every entry.                                           *)
(***************************************************************************)
LEMMA EntriesAreKept ==
  ASSUME NoneIsNoValue, SuffixesDiffer, RenamedIsUnknown,
         NEW legacy, IsDictionary(legacy), NEW status
  PROVE  \E names : KeptAs(legacy, MapLegacyEvent(legacy, status).details, names)
<1> DEFINE entries == Preserved(legacy)
           n == Len(entries)
           details == MapLegacyEvent(legacy, status).details
           before == UnmappedFields(legacy.details)
<1>1. /\ n \in Nat /\ DOMAIN entries = 1 .. n
      /\ \A i \in 1 .. n : entries[i][1] \in STRING
  BY PreservedOnce DEF KeysIn
<1>2. IsFiniteSet(DOMAIN before)
  BY DEF IsDictionary
<1>3. details = PreserveAll(legacy.details, entries)
  BY DEF MapLegacyEvent, PreserveAll
<1> HIDE DEF entries, n, details
<1>4. PICK after :
        /\ after[0] = legacy.details
        /\ \A i \in 1 .. n : after[i] = Preserve(after[i - 1], entries[i])
        /\ after[n] = details
  BY <1>1, <1>3, PreservationSteps
<1>5. \A k \in 0 .. n : PrefixKept(legacy.details, entries, after, k)
  BY <1>1, <1>2, <1>4, PrefixesKept
<1> DEFINE names == [i \in 1 .. n |-> NewName(after, entries, i)]
<1>6. PrefixKept(legacy.details, entries, after, n)
  BY <1>1, <1>5
<1>7. /\ DOMAIN UnmappedFields(details)
           = DOMAIN before \cup {names[i] : i \in 1 .. n}
      /\ IsFiniteSet(DOMAIN UnmappedFields(details))
      /\ \A x \in DOMAIN before : UnmappedFields(details)[x] = before[x]
      /\ \A i \in 1 .. n :
           /\ names[i] \notin DOMAIN before
           /\ UnmappedFields(details)[names[i]] = entries[i][2]
           /\ \A j \in 1 .. n : names[i] = names[j] => i = j
      /\ \A x \in DOMAIN legacy.details \ {"unmapped_fields"} :
           x \in DOMAIN details /\ details[x] = legacy.details[x]
  BY <1>4, <1>6 DEF PrefixKept
<1>8. ASSUME NEW i \in 1 .. n
      PROVE  \/ names[i] = entries[i][1]
             \/ /\ names[i] \notin KnownNames
                /\ \/ entries[i][1] \in DOMAIN before
                   \/ \E j \in 1 .. n : entries[i][1] = names[j]
  <2> DEFINE last == UnmappedFields(after[i - 1])
  <2>1. /\ i - 1 \in 0 .. n /\ 1 .. i - 1 \subseteq 1 .. n
    BY <1>1
  <2>2. /\ IsFiniteSet(DOMAIN last)
        /\ DOMAIN last = DOMAIN before
                           \cup {NewName(after, entries, j) : j \in 1 .. i - 1}
    BY <1>5, <2>1 DEF PrefixKept
  <2>3. names[i] = CollisionSafeKey(last, entries[i][1])
    BY DEF NewName
  <2> HIDE DEF last
  <2>4. /\ entries[i][1] \notin DOMAIN last => names[i] = entries[i][1]
        /\ entries[i][1] \in DOMAIN last => names[i] \notin KnownNames
    BY <1>1, <2>2, <2>3, CollisionSafe
  <2>5. entries[i][1] \in DOMAIN last =>
          \/ entries[i][1] \in DOMAIN before
          \/ \E j \in 1 .. n : entries[i][1] = names[j]
    BY <2>1, <2>2
  <2> QED
    BY <2>4, <2>5
<1> HIDE DEF names, before
<1>9. KeptAs(legacy, details, names)
  BY <1>1, <1>7, <1>8 DEF KeptAs, entries, before
<1> QED
  BY <1>9 DEF details

-----------------------------------------------------------------------------
(***************************************************************************)
(* The slot of a field.                                                    *)
(***************************************************************************)
LEMMA FieldSlotsDiffer ==
  ASSUME NEW k \in ScalarKeys, NEW l \in ScalarKeys, FieldSlot[k] = FieldSlot[l]
  PROVE  k = l
BY DEF ScalarKeys, SemanticKeys, ControlKeys, FieldSlot

(***************************************************************************)
(* What the mapper puts into the slot of a field.                          *)
(***************************************************************************)
LEMMA SlotOfField ==
  ASSUME NEW legacy, NEW status, NEW k \in ScalarKeys
  PROVE  MapLegacyEvent(legacy, status).slots[FieldSlot[k]]
           = FieldValue(legacy, k)
<1>1. FieldSlot[k] \in DOMAIN FieldOf
  BY DEF FieldOf
<1>2. FieldOf[FieldSlot[k]] = k
  <2>1. FieldOf[FieldSlot[k]]
          = CHOOSE l \in ScalarKeys : FieldSlot[l] = FieldSlot[k]
    BY DEF FieldOf
  <2> QED
    BY <2>1, FieldSlotsDiffer
<1>3. \A rows : SlotValue(legacy, FieldSlot[k], rows) = FieldValue(legacy, k)
  BY <1>1, <1>2 DEF SlotValue
<1>4. FieldSlot[k] \in Slots
  <2>1. k \in DOMAIN FieldSlot
    BY DEF FieldSlot, ScalarKeys, SemanticKeys, ControlKeys
  <2> QED
    BY <2>1 DEF Slots
<1> QED
  BY <1>3, <1>4 DEF MapLegacyEvent

(***************************************************************************)
(* A field with a value that is not preserved has its slot filled.         *)
(***************************************************************************)
LEMMA PlacedFieldHasValue ==
  ASSUME NEW legacy, NEW k \in SemanticKeys,
         Meaningful(legacy.fields[k]), ~Unplaced(legacy, k)
  PROVE  FieldValue(legacy, k) # None
BY DEF FieldValue, Unplaced, Meaningful, EndpointKeys, PortKeys

(***************************************************************************)
(* No value of an event is lost (NothingLost of one event).                *)
(***************************************************************************)
Represented(legacy, result) ==
  LET unmapped == UnmappedFields(result.details)
      Kept(v) == \E name \in DOMAIN unmapped : unmapped[name] = v
      before == UnmappedFields(legacy.details)
  IN /\ \A k \in SemanticKeys :
          Meaningful(legacy.fields[k]) =>
            result.slots[FieldSlot[k]] # None \/ Kept(legacy.fields[k])
     /\ \A entry \in ToSet(legacy.extra) : Kept(entry[2])
     /\ \A name \in DOMAIN before : unmapped[name] = before[name]
     /\ \A k \in DOMAIN legacy.details \ {"unmapped_fields"} :
          result.details[k] = legacy.details[k]
     /\ result.vendor_fields = legacy.vendor_fields

(***************************************************************************)
(* No event loses a value.                                                 *)
(***************************************************************************)
LEMMA EventIsRepresented ==
  ASSUME NoneIsNoValue, SuffixesDiffer, RenamedIsUnknown,
         NEW legacy, IsDictionary(legacy), NEW status
  PROVE  Represented(legacy, MapLegacyEvent(legacy, status))
<1> DEFINE result == MapLegacyEvent(legacy, status)
           unmapped == UnmappedFields(result.details)
           Kept(v) == \E name \in DOMAIN unmapped : unmapped[name] = v
           entries == Preserved(legacy)
<1>1. PICK names : KeptAs(legacy, result.details, names)
  BY EntriesAreKept
<1>2. \A entry \in ToSet(entries) : Kept(entry[2])
  <2> SUFFICES ASSUME NEW i \in DOMAIN entries PROVE Kept(entries[i][2])
    BY DEF ToSet
  <2>1. names[i] \in DOMAIN unmapped /\ unmapped[names[i]] = entries[i][2]
    BY <1>1 DEF KeptAs
  <2> QED
    BY <2>1
<1> HIDE DEF entries
<1>3. /\ \A entry \in ToSet(legacy.extra) : entry \in ToSet(entries)
      /\ \A k \in UnplacedKeys(legacy) : FieldEntry(legacy, k) \in ToSet(entries)
  BY PreservedOnce DEF entries
<1>4. ASSUME NEW k \in SemanticKeys, Meaningful(legacy.fields[k])
      PROVE  result.slots[FieldSlot[k]] # None \/ Kept(legacy.fields[k])
  <2>1. CASE Unplaced(legacy, k)
    <3>1. k \in UnplacedKeys(legacy)
      BY <2>1, FailingKeysOnly DEF UnplacedKeys
    <3>2. Kept(FieldEntry(legacy, k)[2])
      BY <1>2, <1>3, <3>1
    <3> HIDE DEF Kept
    <3> QED
      BY <3>2 DEF FieldEntry
  <2>2. CASE ~Unplaced(legacy, k)
    <3>1. k \in ScalarKeys
      BY DEF ScalarKeys
    <3> QED
      BY <1>4, <2>2, <3>1, PlacedFieldHasValue, SlotOfField
  <2> QED
    BY <2>1, <2>2
<1>5. \A entry \in ToSet(legacy.extra) : Kept(entry[2])
  BY <1>2, <1>3
<1>6. /\ \A x \in DOMAIN UnmappedFields(legacy.details) :
            unmapped[x] = UnmappedFields(legacy.details)[x]
      /\ \A x \in DOMAIN legacy.details \ {"unmapped_fields"} :
           result.details[x] = legacy.details[x]
  BY <1>1 DEF KeptAs
<1>7. result.vendor_fields = legacy.vendor_fields
  BY DEF MapLegacyEvent
<1> HIDE DEF result
<1> QED
  BY <1>4, <1>5, <1>6, <1>7 DEF Represented, result

-----------------------------------------------------------------------------
(***************************************************************************)
(* What the audit, which goes by names, finds of the fields.               *)
(***************************************************************************)
HiddenIn(legacy) ==
  LET before == UnmappedFields(legacy.details)
  IN {k \in SemanticKeys \cap DOMAIN before :
        /\ Audited(legacy.fields[k])
        /\ Audited(before[k]) <=> ~Unplaced(legacy, k)}

\* The names that the audit knows are the keys of an event, of two kinds.
LEMMA KnownKeys ==
  /\ SemanticKeys \subseteq KnownNames /\ ControlFields \subseteq KnownNames
  /\ SemanticKeys \cap ControlFields = {}
  /\ SemanticKeys \subseteq LegacyEventKeys
  /\ FailingKeys \subseteq SemanticKeys
BY DEF KnownNames, LegacyEventKeys, ScalarKeys, SemanticKeys, ControlFields,
   ControlKeys, FailingKeys, EndpointKeys

(***************************************************************************)
(* A known name that is new among the preserved entries is the name of     *)
(* that very entry, and an entry with a known name is under it unless the  *)
(* name was there before.                                                  *)
(***************************************************************************)
LEMMA KnownNameIsOwn ==
  ASSUME NEW legacy, IsDictionary(legacy), NEW details, NEW names,
         KeptAs(legacy, details, names),
         NEW i \in DOMAIN Preserved(legacy)
  PROVE  /\ names[i] \in KnownNames => names[i] = Preserved(legacy)[i][1]
         /\ /\ Preserved(legacy)[i][1] \in KnownNames
            /\ Preserved(legacy)[i][1] \notin DOMAIN UnmappedFields(legacy.details)
            => names[i] = Preserved(legacy)[i][1]
<1> DEFINE entries == Preserved(legacy)
<1>1. DistinctKeys(entries)
  BY PreservedOnce
<1>2. \A j \in DOMAIN entries :
        \/ names[j] = entries[j][1]
        \/ /\ names[j] \notin KnownNames
           /\ \/ entries[j][1] \in DOMAIN UnmappedFields(legacy.details)
              \/ \E l \in DOMAIN entries : entries[j][1] = names[l]
  BY DEF KeptAs
<1> HIDE DEF entries
<1> QED
  BY <1>1, <1>2 DEF DistinctKeys, entries

(***************************************************************************)
(* A field that is not hidden is preserved with a value under its own name *)
(* just when it found no slot.                                             *)
(***************************************************************************)
LEMMA NamesTell ==
  ASSUME NoneIsNoValue, SuffixesDiffer, RenamedIsUnknown,
         NEW legacy, IsDictionary(legacy), NEW details, NEW names,
         KeptAs(legacy, details, names),
         NEW k \in SemanticKeys \ HiddenIn(legacy), Audited(legacy.fields[k])
  PROVE  k \in AuditedKeys(UnmappedFields(details)) <=> Unplaced(legacy, k)
<1> DEFINE entries == Preserved(legacy)
           before == UnmappedFields(legacy.details)
           after == UnmappedFields(details)
<1>1. /\ DOMAIN after = DOMAIN before \cup {names[i] : i \in DOMAIN entries}
      /\ \A x \in DOMAIN before : after[x] = before[x]
      /\ \A i \in DOMAIN entries : after[names[i]] = entries[i][2]
  BY DEF KeptAs
<1>2. CASE k \in DOMAIN before
  <2>1. Audited(before[k]) <=> Unplaced(legacy, k)
    BY <1>2 DEF HiddenIn
  <2> QED
    BY <1>1, <1>2, <2>1 DEF AuditedKeys
<1>3. CASE k \notin DOMAIN before
  <2>1. ASSUME Unplaced(legacy, k)
        PROVE  k \in AuditedKeys(after)
    <3>1. FieldEntry(legacy, k) \in ToSet(entries)
      BY <2>1, FailingKeysOnly, PreservedOnce DEF UnplacedKeys
    <3>2. PICK i \in DOMAIN entries : entries[i] = FieldEntry(legacy, k)
      BY <3>1 DEF ToSet
    <3>3. entries[i][1] = k /\ entries[i][2] = legacy.fields[k]
      BY <3>2 DEF FieldEntry
    <3>4. names[i] = k
      BY <1>3, <3>3, KnownNameIsOwn, KnownKeys
    <3> HIDE DEF entries, after
    <3> QED
      BY <1>1, <3>3, <3>4 DEF AuditedKeys
  <2>2. ASSUME k \in AuditedKeys(after)
        PROVE  Unplaced(legacy, k)
    <3>1. k \in DOMAIN after
      BY <2>2 DEF AuditedKeys
    <3>2. PICK i \in DOMAIN entries : names[i] = k
      BY <1>1, <1>3, <3>1
    <3>3. entries[i][1] = k
      BY <3>2, KnownNameIsOwn, KnownKeys
    <3>4. entries[i] \notin ToSet(legacy.extra)
      BY <3>3, KnownKeys DEF IsDictionary, ToSet
    <3>5. entries[i] \in ToSet(entries)
      BY DEF ToSet
    <3>6. PICK l \in UnplacedKeys(legacy) : entries[i] = FieldEntry(legacy, l)
      BY <3>4, <3>5, PreservedOnce
    <3>7. l = k
      BY <3>3, <3>6 DEF FieldEntry
    <3> QED
      BY <3>6, <3>7 DEF UnplacedKeys
  <2> QED
    BY <2>1, <2>2
<1> QED
  BY <1>2, <1>3

(***************************************************************************)
(* A field that counts as mapped is in its slot, unless it is hidden.      *)
(***************************************************************************)
LEMMA MappedHasSlot ==
  ASSUME NoneIsNoValue, SuffixesDiffer, RenamedIsUnknown,
         NEW legacy, IsDictionary(legacy), NEW result, NEW status,
         result.details = MapLegacyEvent(legacy, status).details,
         NEW dropped, NEW k \in SemanticKeys \ HiddenIn(legacy),
         FieldLabel(k) \in Mapped(legacy, result, dropped)
  PROVE  MapLegacyEvent(legacy, status).slots[FieldSlot[k]] # None
<1>1. PICK names : KeptAs(legacy, result.details, names)
  BY EntriesAreKept
<1>2. FieldLabel(k) \in ClaimedMapped(legacy) /\ k \notin PreservedKeys(result)
  BY DEF Mapped
<1>3. Audited(legacy.fields[k])
  BY <1>2 DEF ClaimedMapped, FieldLabel, DetailLabel
<1>4. k \notin AuditedKeys(UnmappedFields(result.details))
  BY <1>2, KnownKeys DEF PreservedKeys
<1>5. ~Unplaced(legacy, k)
  BY <1>1, <1>3, <1>4, NamesTell
<1>6. FieldValue(legacy, k) # None
  BY <1>3, <1>5, PlacedFieldHasValue DEF Audited
<1>7. k \in ScalarKeys
  BY DEF ScalarKeys
<1> QED
  BY <1>6, <1>7, SlotOfField

(***************************************************************************)
(* A detail that counts as mapped is in the details.                       *)
(***************************************************************************)
LEMMA MappedDetailIsKept ==
  ASSUME NoneIsNoValue, SuffixesDiffer, RenamedIsUnknown,
         NEW legacy, IsDictionary(legacy), NEW result, NEW status,
         result.details = MapLegacyEvent(legacy, status).details,
         NEW dropped, NEW k,
         DetailLabel(k) \in Mapped(legacy, result, dropped)
  PROVE  k \in DOMAIN result.details /\ result.details[k] = legacy.details[k]
<1>1. PICK names : KeptAs(legacy, result.details, names)
  BY EntriesAreKept
<1>2. DetailLabel(k) \in ClaimedMapped(legacy)
  BY DEF Mapped
<1>3. k \in AuditedKeys(legacy.details) \ ReservedDetails
  BY <1>2 DEF ClaimedMapped, FieldLabel, DetailLabel
<1>4. k \in DOMAIN legacy.details \ {"unmapped_fields"}
  BY <1>3 DEF AuditedKeys, ReservedDetails
<1> QED
  BY <1>1, <1>4 DEF KeptAs

-----------------------------------------------------------------------------
(***************************************************************************)
(* Renaming the members of a finite set apart keeps their number.          *)
(***************************************************************************)
LEMMA ImageSize ==
  ASSUME NEW S, NEW f, IsFiniteSet(S), f = [s \in S |-> f[s]],
         \A s, t \in S : f[s] = f[t] => s = t
  PROVE  /\ IsFiniteSet({f[s] : s \in S})
         /\ Cardinality({f[s] : s \in S}) = Cardinality(S)
<1> DEFINE T == {f[s] : s \in S}
<1>1. f \in [S -> T]
  OBVIOUS
<1>2. f \in Injection(S, T)
  BY <1>1 DEF Injection, IsInjective
<1>a. f \in Surjection(S, T)
  BY <1>1 DEF Surjection
<1> HIDE DEF T
<1>3. ExistsBijection(S, T)
  BY <1>2, <1>a DEF ExistsBijection, Bijection
<1>4. IsFiniteSet(T) /\ Cardinality(T) = Cardinality(S)
  BY <1>3, FS_Bijection
<1> QED
  BY <1>4 DEF T

Labelled(kind, S) == {<<kind, k>> : k \in S}

(***************************************************************************)
(* A set has as many labels as members.                                    *)
(***************************************************************************)
LEMMA LabelsCount ==
  ASSUME NEW kind, NEW S, IsFiniteSet(S)
  PROVE  /\ IsFiniteSet(Labelled(kind, S))
         /\ Cardinality(Labelled(kind, S)) = Cardinality(S)
<1> DEFINE f == [s \in S |-> <<kind, s>>]
<1>1. f = [s \in S |-> f[s]] /\ \A s, t \in S : f[s] = f[t] => s = t
  OBVIOUS
<1>2. Labelled(kind, S) = {f[s] : s \in S}
  BY DEF Labelled
<1> HIDE DEF f
<1> QED
  BY <1>1, <1>2, ImageSize

(***************************************************************************)
(* Sets apart are counted apart.                                           *)
(***************************************************************************)
LEMMA DisjointSum ==
  ASSUME NEW S, NEW T, IsFiniteSet(S), IsFiniteSet(T), S \cap T = {}
  PROVE  /\ IsFiniteSet(S \cup T)
         /\ Cardinality(S \cup T) = Cardinality(S) + Cardinality(T)
<1>1. /\ Cardinality(S) \in Nat /\ Cardinality(T) \in Nat
      /\ Cardinality({}) = 0
  BY FS_CardinalityType, FS_EmptySet
<1>2. /\ IsFiniteSet(S \cup T)
      /\ Cardinality(S \cup T)
           = Cardinality(S) + Cardinality(T) - Cardinality({})
  BY FS_Union
<1> QED
  BY <1>1, <1>2

(***************************************************************************)
(* The scalar fields are finitely many.                                    *)
(***************************************************************************)
LEMMA FewAreFinite ==
  \A a, b, c, d, e : IsFiniteSet({a, b, c, d, e})
<1> SUFFICES ASSUME NEW a, NEW b, NEW c, NEW d, NEW e
             PROVE  IsFiniteSet({a, b, c, d, e})
  OBVIOUS
<1>1. IsFiniteSet({a}) /\ IsFiniteSet({b}) /\ IsFiniteSet({c})
      /\ IsFiniteSet({d}) /\ IsFiniteSet({e})
  BY FS_Singleton
<1>2. IsFiniteSet({a} \cup {b}) /\ IsFiniteSet({c} \cup {d})
  BY <1>1, FS_Union
<1>3. IsFiniteSet(({a} \cup {b}) \cup ({c} \cup {d}))
  BY <1>2, FS_Union
<1>4. IsFiniteSet((({a} \cup {b}) \cup ({c} \cup {d})) \cup {e})
  BY <1>1, <1>3, FS_Union
<1>5. (({a} \cup {b}) \cup ({c} \cup {d})) \cup {e} = {a, b, c, d, e}
  OBVIOUS
<1> QED
  BY <1>4, <1>5

\* There are finitely many fields, so that those of a kind can be counted.
LEMMA FieldsAreFinite == IsFiniteSet(SemanticKeys)
<1> DEFINE A == {"timestamp", "vendor", "product", "category", "type"}
           B == {"subtype", "outcome", "severity", "src_ip", "src_port"}
           C == {"dst_ip", "dst_port", "protocol", "user", "action"}
           D == {"reason", "object_type", "object_name", "vendor_event_id",
                 "reason"}
<1>1. IsFiniteSet(A) /\ IsFiniteSet(B) /\ IsFiniteSet(C) /\ IsFiniteSet(D)
  BY FewAreFinite
<1>2. SemanticKeys = (A \cup B) \cup (C \cup D)
  BY DEF SemanticKeys
<1> HIDE DEF A, B, C, D
<1>3. IsFiniteSet(A \cup B) /\ IsFiniteSet(C \cup D)
  BY <1>1, FS_Union
<1>4. IsFiniteSet((A \cup B) \cup (C \cup D))
  BY <1>3, FS_Union
<1> QED
  BY <1>2, <1>4

-----------------------------------------------------------------------------
(***************************************************************************)
(* The values the audit should count, and the ones it takes from names.    *)
(***************************************************************************)
ShadowedIn(legacy, result) ==
  {k \in ExtraKeys(legacy) :
     IF k \in ControlFields THEN k \in DOMAIN UnmappedFields(legacy.details)
                            ELSE k \notin PreservedKeys(result)}

AuditedFields(legacy) == {k \in SemanticKeys : Audited(legacy.fields[k])}

PlainExtra(legacy) == ExtraKeys(legacy) \ ControlFields

AuditedBefore(legacy) ==
  AuditedKeys(UnmappedFields(legacy.details)) \ ControlFields

\* the entries whose name the audit looks at
Counted(legacy, names) ==
  {i \in DOMAIN Preserved(legacy) :
     Audited(Preserved(legacy)[i][2]) /\ names[i] \notin ControlFields}

CountedNames(legacy, names) == {names[i] : i \in Counted(legacy, names)}

\* A further name of the event is that of an entry that the audit looks at.
LEMMA ExtraEntry ==
  ASSUME NEW legacy, NEW k
  PROVE  k \in ExtraKeys(legacy) <=>
           \E e \in ToSet(legacy.extra) : Audited(e[2]) /\ e[1] = k
BY DEF ExtraKeys

(***************************************************************************)
(* What is preserved after the normalization: what was there before, and   *)
(* each counted entry under its own name.                                  *)
(***************************************************************************)
LEMMA PreservedNames ==
  ASSUME NEW legacy, NEW result, NEW names,
         KeptAs(legacy, result.details, names)
  PROVE  /\ PreservedKeys(result)
              = AuditedBefore(legacy) \cup CountedNames(legacy, names)
         /\ AuditedBefore(legacy) \cap CountedNames(legacy, names) = {}
<1> DEFINE entries == Preserved(legacy)
           before == UnmappedFields(legacy.details)
           after == UnmappedFields(result.details)
           new == CountedNames(legacy, names)
<1>1. /\ DOMAIN after = DOMAIN before \cup {names[i] : i \in DOMAIN entries}
      /\ \A x \in DOMAIN before : after[x] = before[x]
      /\ \A i \in DOMAIN entries : /\ names[i] \notin DOMAIN before
                                   /\ after[names[i]] = entries[i][2]
  BY DEF KeptAs
<1>2. \A k : k \in PreservedKeys(result) <=>
               /\ k \in DOMAIN after /\ Audited(after[k])
               /\ k \notin ControlFields
  BY DEF PreservedKeys, AuditedKeys
<1>3. \A k : k \in AuditedBefore(legacy) <=>
               /\ k \in DOMAIN before /\ Audited(before[k])
               /\ k \notin ControlFields
  BY DEF AuditedBefore, AuditedKeys
<1>4. \A k : k \in new <=>
               \E i \in DOMAIN entries :
                 /\ Audited(entries[i][2]) /\ names[i] \notin ControlFields
                 /\ k = names[i]
  BY DEF Counted, CountedNames
<1> HIDE DEF entries, before, after, new
<1>5. ASSUME NEW k
      PROVE  k \in PreservedKeys(result) <=> k \in AuditedBefore(legacy) \cup new
  <2>1. CASE k \in DOMAIN before
    BY <1>1, <1>2, <1>3, <1>4, <2>1
  <2>2. CASE k \notin DOMAIN before
    BY <1>1, <1>2, <1>3, <1>4, <2>2
  <2> QED
    BY <2>1, <2>2
<1>6. AuditedBefore(legacy) \cap new = {}
  BY <1>1, <1>3, <1>4
<1>7. PreservedKeys(result) = AuditedBefore(legacy) \cup new
  BY <1>5
<1> QED
  BY <1>6, <1>7 DEF new

(***************************************************************************)
(* The counted entries are the other top-level entries and the fields that *)
(* are preserved.                                                          *)
(***************************************************************************)
LEMMA CountedEntries ==
  ASSUME NoneIsNoValue, SuffixesDiffer, RenamedIsUnknown,
         NEW legacy, IsDictionary(legacy), NEW result, NEW names,
         KeptAs(legacy, result.details, names),
         HiddenIn(legacy) = {}, ShadowedIn(legacy, result) = {}
  PROVE  /\ {Preserved(legacy)[i][1] : i \in Counted(legacy, names)}
              = PlainExtra(legacy)
                  \cup (AuditedFields(legacy) \cap PreservedKeys(result))
         /\ PlainExtra(legacy) \subseteq PreservedKeys(result)
<1> DEFINE entries == Preserved(legacy)
           before == UnmappedFields(legacy.details)
           both == PlainExtra(legacy)
                     \cup (AuditedFields(legacy) \cap PreservedKeys(result))
<1>1. /\ \A i \in DOMAIN entries : entries[i] \in ToSet(entries)
      /\ \A e \in ToSet(entries) : \E i \in DOMAIN entries : entries[i] = e
  BY DEF ToSet
<1>2. ToSet(entries) = {FieldEntry(legacy, k) : k \in UnplacedKeys(legacy)}
                         \cup ToSet(legacy.extra)
  BY PreservedOnce
<1>3. \A k \in ExtraKeys(legacy) :
        /\ k \in ControlFields => k \notin DOMAIN before
        /\ k \notin ControlFields => k \in PreservedKeys(result)
  BY DEF ShadowedIn
<1>4. ASSUME NEW k \in AuditedFields(legacy)
      PROVE  k \in PreservedKeys(result) <=> Unplaced(legacy, k)
  <2>1. k \in SemanticKeys \ HiddenIn(legacy) /\ Audited(legacy.fields[k])
    BY DEF AuditedFields
  <2>2. k \in AuditedKeys(UnmappedFields(result.details))
          <=> Unplaced(legacy, k)
    BY <2>1, NamesTell
  <2> QED
    BY <2>1, <2>2, KnownKeys DEF PreservedKeys
<1>5. \A i \in DOMAIN entries :
        /\ names[i] \in KnownNames => names[i] = entries[i][1]
        /\ entries[i][1] \in KnownNames /\ entries[i][1] \notin DOMAIN before
             => names[i] = entries[i][1]
  BY KnownNameIsOwn
<1>6. \A i : i \in Counted(legacy, names) <=>
               /\ i \in DOMAIN entries /\ Audited(entries[i][2])
               /\ names[i] \notin ControlFields
  BY DEF Counted
<1> HIDE DEF entries, before
<1>7. ASSUME NEW i \in Counted(legacy, names)
      PROVE  entries[i][1] \in both
  <2>1. CASE entries[i] \in ToSet(legacy.extra)
    <3>1. entries[i][1] \in ExtraKeys(legacy)
      BY <1>6, <2>1, ExtraEntry
    <3>2. entries[i][1] \notin ControlFields
      BY <1>3, <1>5, <1>6, <3>1, KnownKeys
    <3> QED
      BY <3>1, <3>2 DEF PlainExtra
  <2>2. CASE entries[i] \notin ToSet(legacy.extra)
    <3>1. PICK k \in UnplacedKeys(legacy) : entries[i] = FieldEntry(legacy, k)
      BY <1>1, <1>2, <1>6, <2>2
    <3>2. entries[i][1] = k /\ entries[i][2] = legacy.fields[k]
      BY <3>1 DEF FieldEntry
    <3>3. k \in AuditedFields(legacy) /\ Unplaced(legacy, k)
      BY <1>6, <3>2, KnownKeys DEF AuditedFields, UnplacedKeys
    <3> QED
      BY <1>4, <3>2, <3>3
  <2> QED
    BY <2>1, <2>2
<1>8. ASSUME NEW k \in PlainExtra(legacy)
      PROVE  \E i \in Counted(legacy, names) : entries[i][1] = k
  <2>1. PICK e \in ToSet(legacy.extra) : Audited(e[2]) /\ e[1] = k
    BY ExtraEntry DEF PlainExtra
  <2>2. PICK i \in DOMAIN entries : entries[i] = e
    BY <1>1, <1>2
  <2>3. names[i] \notin ControlFields
    BY <1>5, <2>1, <2>2, KnownKeys DEF PlainExtra
  <2> QED
    BY <1>6, <2>1, <2>2, <2>3
<1>9. ASSUME NEW k \in AuditedFields(legacy) \cap PreservedKeys(result)
      PROVE  \E i \in Counted(legacy, names) : entries[i][1] = k
  <2>1. Unplaced(legacy, k) /\ k \in SemanticKeys /\ Audited(legacy.fields[k])
    BY <1>4 DEF AuditedFields
  <2>2. FieldEntry(legacy, k) \in ToSet(entries)
    BY <1>2, <2>1, FailingKeysOnly DEF UnplacedKeys
  <2>3. PICK i \in DOMAIN entries : entries[i] = FieldEntry(legacy, k)
    BY <1>1, <2>2
  <2>4. entries[i][1] = k /\ entries[i][2] = legacy.fields[k]
    BY <2>3 DEF FieldEntry
  <2>5. names[i] \notin ControlFields
    BY <1>5, <2>1, <2>4, KnownKeys
  <2> QED
    BY <1>6, <2>1, <2>4, <2>5
<1>10. {entries[i][1] : i \in Counted(legacy, names)} = both
  <2>1. \A k \in both : \E i \in Counted(legacy, names) : entries[i][1] = k
    BY <1>8, <1>9
  <2> HIDE DEF both
  <2> QED
    BY <1>7, <2>1
<1>11. PlainExtra(legacy) \subseteq PreservedKeys(result)
  BY <1>3 DEF PlainExtra
<1> QED
  BY <1>10, <1>11 DEF entries

PlainDetails(legacy) == AuditedKeys(legacy.details) \ ReservedDetails

(***************************************************************************)
(* How many names are preserved.                                           *)
(***************************************************************************)
LEMMA CountedAre ==
  ASSUME NoneIsNoValue, SuffixesDiffer, RenamedIsUnknown,
         NEW legacy, IsDictionary(legacy), NEW result, NEW status,
         result.details = MapLegacyEvent(legacy, status).details,
         HiddenIn(legacy) = {}, ShadowedIn(legacy, result) = {}
  PROVE  /\ IsFiniteSet(PreservedKeys(result))
         /\ IsFiniteSet(AuditedFields(legacy))
         /\ IsFiniteSet(PlainExtra(legacy))
         /\ PlainExtra(legacy) \subseteq PreservedKeys(result)
         /\ Cardinality(PreservedKeys(result)) =
              Cardinality(AuditedBefore(legacy))
              + Cardinality(PlainExtra(legacy))
              + Cardinality(AuditedFields(legacy) \cap PreservedKeys(result))
         /\ Cardinality(AuditedBefore(legacy)) \in Nat
<1>1. PICK names : KeptAs(legacy, result.details, names)
  BY EntriesAreKept
<1> DEFINE I == Counted(legacy, names)
           entries == Preserved(legacy)
           PK == PreservedKeys(result)
           Bf == AuditedBefore(legacy)
           Ex == PlainExtra(legacy)
           Sa == AuditedFields(legacy)
           new == CountedNames(legacy, names)
<1>2. IsFiniteSet(PK)
  <2>1. IsFiniteSet(DOMAIN UnmappedFields(result.details))
    BY <1>1 DEF KeptAs
  <2>2. PK \in SUBSET DOMAIN UnmappedFields(result.details)
    BY DEF PreservedKeys, AuditedKeys
  <2> QED
    BY <2>1, <2>2, FS_Subset
<1>3. IsFiniteSet(Sa)
  <2>1. Sa \in SUBSET SemanticKeys
    BY DEF AuditedFields
  <2> QED
    BY <2>1, FS_Subset, FieldsAreFinite
<1>4. IsFiniteSet(I)
  <2>1. Len(entries) \in Nat /\ DOMAIN entries = 1 .. Len(entries)
    BY PreservedOnce
  <2>2. IsFiniteSet(1 .. Len(entries))
    BY <2>1, FS_Interval
  <2>3. I \in SUBSET (1 .. Len(entries))
    BY <2>1 DEF Counted
  <2> QED
    BY <2>2, <2>3, FS_Subset
<1>5. PK = Bf \cup new /\ Bf \cap new = {}
  BY <1>1, PreservedNames
<1>6. /\ {entries[i][1] : i \in I} = Ex \cup (Sa \cap PK)
      /\ Ex \subseteq PK
  BY <1>1, CountedEntries
<1>7. Cardinality(new) = Cardinality(I)
  <2> DEFINE f == [i \in I |-> names[i]]
  <2>1. \A i, j \in I : names[i] = names[j] => i = j
    BY <1>1 DEF KeptAs, Counted
  <2>2. f = [i \in I |-> f[i]] /\ \A i, j \in I : f[i] = f[j] => i = j
    BY <2>1
  <2>3. new = {f[i] : i \in I}
    BY DEF CountedNames
  <2> HIDE DEF f, I, new
  <2> QED
    BY <1>4, <2>2, <2>3, ImageSize
<1>8. Cardinality(Ex \cup (Sa \cap PK)) = Cardinality(I)
  <2> DEFINE f == [i \in I |-> entries[i][1]]
  <2>1. \A i, j \in I : entries[i][1] = entries[j][1] => i = j
    BY PreservedOnce DEF DistinctKeys, Counted
  <2>2. f = [i \in I |-> f[i]] /\ \A i, j \in I : f[i] = f[j] => i = j
    BY <2>1
  <2>3. Ex \cup (Sa \cap PK) = {f[i] : i \in I}
    BY <1>6
  <2> HIDE DEF f, I, Ex, Sa, PK
  <2> QED
    BY <1>4, <2>2, <2>3, ImageSize
<1>9. Ex \cap Sa = {}
  BY KnownKeys DEF PlainExtra, ExtraKeys, AuditedFields, IsDictionary, ToSet
<1> HIDE DEF I, entries, PK, Bf, Ex, Sa, new
<1>10. /\ IsFiniteSet(Bf) /\ IsFiniteSet(new)
       /\ IsFiniteSet(Ex) /\ IsFiniteSet(Sa \cap PK)
  BY <1>2, <1>3, <1>5, <1>6, FS_Subset, FS_Intersection
<1>11. Cardinality(PK) = Cardinality(Bf) + Cardinality(new)
  BY <1>5, <1>10, DisjointSum
<1>12. Cardinality(Ex \cup (Sa \cap PK))
         = Cardinality(Ex) + Cardinality(Sa \cap PK)
  BY <1>9, <1>10, DisjointSum
<1>13. /\ Cardinality(Bf) \in Nat /\ Cardinality(Ex) \in Nat
       /\ Cardinality(Sa \cap PK) \in Nat
  BY <1>10, FS_CardinalityType
<1>14. Cardinality(PK) = Cardinality(Bf) + Cardinality(Ex)
                           + Cardinality(Sa \cap PK)
  BY <1>7, <1>8, <1>11, <1>12, <1>13
<1> QED
  BY <1>2, <1>3, <1>6, <1>10, <1>13, <1>14 DEF PK, Bf, Ex, Sa

(***************************************************************************)
(* The labels of the two dispositions, when nothing is declared dropped.   *)
(***************************************************************************)
LEMMA LabelsOfAudit ==
  ASSUME NEW legacy, NEW result,
         PlainExtra(legacy) \cap SemanticKeys = {}
  PROVE  Mapped(legacy, result, {}) \cup Unmapped(legacy, result, {}) =
           (((Labelled("field", AuditedFields(legacy) \ PreservedKeys(result))
              \cup Labelled("field", PlainExtra(legacy)))
             \cup Labelled("details", PlainDetails(legacy)))
            \cup Labelled("vendor", AuditedKeys(legacy.vendor_fields)))
           \cup Labelled("unmapped", PreservedKeys(result) \ PlainExtra(legacy))
<1> DEFINE Sa == AuditedFields(legacy)
           Ex == PlainExtra(legacy)
           PK == PreservedKeys(result)
           De == PlainDetails(legacy)
           Ve == AuditedKeys(legacy.vendor_fields)
<1>1. /\ ClaimedMapped(legacy)
            = Labelled("field", Sa) \cup Labelled("details", De)
      /\ ClaimedUnmapped(legacy)
            = Labelled("field", Ex) \cup Labelled("vendor", Ve)
      /\ {FieldLabel(k) : k \in PK} = Labelled("field", PK)
  BY DEF ClaimedMapped, ClaimedUnmapped, Labelled, AuditedFields, PlainExtra,
     PlainDetails, FieldLabel, DetailLabel, VendorLabel
<1>2. \A kind, S, x : x \in Labelled(kind, S) <=>
                        \E k \in S : x = <<kind, k>>
  BY DEF Labelled
<1> HIDE DEF Sa, Ex, PK, De, Ve
<1>3. Mapped(legacy, result, {})
        = Labelled("field", Sa \ PK) \cup Labelled("details", De)
  <2>1. Labelled("field", Sa) \ Labelled("field", PK) = Labelled("field", Sa \ PK)
    BY <1>2
  <2>2. Labelled("details", De) \cap Labelled("field", PK) = {}
    BY <1>2
  <2>3. Mapped(legacy, result, {}) = ClaimedMapped(legacy) \ Labelled("field", PK)
    BY <1>1 DEF Mapped, PK
  <2> QED
    BY <1>1, <2>1, <2>2, <2>3
<1>4. {k \in PK : FieldLabel(k) \notin ClaimedUnmapped(legacy)} = PK \ Ex
  <2>1. \A k : FieldLabel(k) \in ClaimedUnmapped(legacy) <=> k \in Ex
    BY <1>1, <1>2 DEF FieldLabel
  <2> QED
    BY <2>1
<1>5. Unmapped(legacy, result, {})
        = (Labelled("field", Ex) \cup Labelled("vendor", Ve))
            \cup Labelled("unmapped", PK \ Ex)
  <2>1. {UnmappedLabel(k) : k \in PK \ Ex} = Labelled("unmapped", PK \ Ex)
    BY DEF Labelled, UnmappedLabel
  <2>2. Unmapped(legacy, result, {})
          = ClaimedUnmapped(legacy) \cup {UnmappedLabel(k) : k \in PK \ Ex}
    BY <1>4 DEF Unmapped, PK
  <2> QED
    BY <1>1, <2>1, <2>2
<1>6. Mapped(legacy, result, {}) \cup Unmapped(legacy, result, {}) =
        (((Labelled("field", Sa \ PK) \cup Labelled("field", Ex))
          \cup Labelled("details", De)) \cup Labelled("vendor", Ve))
        \cup Labelled("unmapped", PK \ Ex)
  BY <1>3, <1>5, Zenon
<1> QED
  BY <1>6 DEF Sa, Ex, PK, De, Ve

(***************************************************************************)
(* The audit of an event counts each value once, when no name misleads it  *)
(* and nothing is declared dropped.                                        *)
(***************************************************************************)
LEMMA ItemsCountOnce ==
  ASSUME NoneIsNoValue, SuffixesDiffer, RenamedIsUnknown,
         NEW legacy, IsDictionary(legacy), NEW result, NEW status,
         result.details = MapLegacyEvent(legacy, status).details,
         HiddenIn(legacy) = {}, ShadowedIn(legacy, result) = {}
  PROVE  Cardinality(Mapped(legacy, result, {})
                       \cup Unmapped(legacy, result, {})) =
           Cardinality(AuditedFields(legacy))
           + Cardinality(PlainDetails(legacy))
           + Cardinality(AuditedKeys(legacy.vendor_fields))
           + Cardinality(PlainExtra(legacy))
           + Cardinality(AuditedBefore(legacy))
<1> DEFINE Sa == AuditedFields(legacy)
           Ex == PlainExtra(legacy)
           PK == PreservedKeys(result)
           De == PlainDetails(legacy)
           Ve == AuditedKeys(legacy.vendor_fields)
           Bf == AuditedBefore(legacy)
<1>1. /\ IsFiniteSet(PK) /\ IsFiniteSet(Sa) /\ IsFiniteSet(Ex)
      /\ Ex \subseteq PK
      /\ Cardinality(PK) = Cardinality(Bf) + Cardinality(Ex)
                              + Cardinality(Sa \cap PK)
      /\ Cardinality(Bf) \in Nat
  BY CountedAre
<1>2. IsFiniteSet(De) /\ IsFiniteSet(Ve)
  <2>1. De \in SUBSET DOMAIN legacy.details
        /\ Ve \in SUBSET DOMAIN legacy.vendor_fields
    BY DEF PlainDetails, AuditedKeys
  <2>2. IsFiniteSet(DOMAIN legacy.details)
        /\ IsFiniteSet(DOMAIN legacy.vendor_fields)
    BY DEF IsDictionary
  <2> HIDE DEF De, Ve
  <2> QED
    BY <2>1, <2>2, FS_Subset
<1>3. Ex \cap SemanticKeys = {}
  BY KnownKeys DEF PlainExtra, ExtraKeys, IsDictionary, ToSet
<1> DEFINE F == Labelled("field", Sa \ PK)
           X == Labelled("field", Ex)
           D == Labelled("details", De)
           V == Labelled("vendor", Ve)
           U == Labelled("unmapped", PK \ Ex)
<1>4. Mapped(legacy, result, {}) \cup Unmapped(legacy, result, {})
        = (((F \cup X) \cup D) \cup V) \cup U
  BY <1>3, LabelsOfAudit
<1>5. Sa \subseteq SemanticKeys
  BY DEF AuditedFields
<1> HIDE DEF Sa, Ex, PK, De, Ve, Bf
<1>6. IsFiniteSet(Sa \ PK) /\ IsFiniteSet(PK \ Ex)
  BY <1>1, FS_Difference
<1>7. /\ IsFiniteSet(F) /\ Cardinality(F) = Cardinality(Sa \ PK)
      /\ IsFiniteSet(X) /\ Cardinality(X) = Cardinality(Ex)
      /\ IsFiniteSet(D) /\ Cardinality(D) = Cardinality(De)
      /\ IsFiniteSet(V) /\ Cardinality(V) = Cardinality(Ve)
      /\ IsFiniteSet(U) /\ Cardinality(U) = Cardinality(PK \ Ex)
  BY <1>1, <1>2, <1>6, LabelsCount
<1>8. /\ F \cap X = {} /\ (F \cup X) \cap D = {}
      /\ ((F \cup X) \cup D) \cap V = {}
      /\ (((F \cup X) \cup D) \cup V) \cap U = {}
  BY <1>3, <1>5 DEF Labelled
<1> HIDE DEF F, X, D, V, U
<1>9. /\ IsFiniteSet(F \cup X)
      /\ Cardinality(F \cup X) = Cardinality(F) + Cardinality(X)
  BY <1>7, <1>8, DisjointSum
<1>10. /\ IsFiniteSet((F \cup X) \cup D)
       /\ Cardinality((F \cup X) \cup D)
             = Cardinality(F \cup X) + Cardinality(D)
  BY <1>7, <1>8, <1>9, DisjointSum
<1>11. /\ IsFiniteSet(((F \cup X) \cup D) \cup V)
       /\ Cardinality(((F \cup X) \cup D) \cup V)
             = Cardinality((F \cup X) \cup D) + Cardinality(V)
  BY <1>7, <1>8, <1>10, DisjointSum
<1>12. Cardinality((((F \cup X) \cup D) \cup V) \cup U)
         = Cardinality(((F \cup X) \cup D) \cup V) + Cardinality(U)
  BY <1>7, <1>8, <1>11, DisjointSum
<1>13. Cardinality(Sa \ PK) = Cardinality(Sa) - Cardinality(Sa \cap PK)
  BY <1>1, FS_Difference
<1>14. Cardinality(PK \ Ex) = Cardinality(PK) - Cardinality(Ex)
  <2>1. PK \cap Ex = Ex
    BY <1>1
  <2>2. Cardinality(PK \ Ex) = Cardinality(PK) - Cardinality(PK \cap Ex)
    BY <1>1, FS_Difference
  <2> QED
    BY <2>1, <2>2
<1>15. /\ Cardinality(Sa) \in Nat /\ Cardinality(PK) \in Nat
       /\ Cardinality(Ex) \in Nat /\ Cardinality(De) \in Nat
       /\ Cardinality(Ve) \in Nat /\ Cardinality(Sa \cap PK) \in Nat
  BY <1>1, <1>2, FS_CardinalityType, FS_Intersection
<1>16. Cardinality(Mapped(legacy, result, {}) \cup Unmapped(legacy, result, {}))
         = Cardinality(Sa) + Cardinality(De) + Cardinality(Ve)
           + Cardinality(Ex) + Cardinality(Bf)
  <2>1. Cardinality((((F \cup X) \cup D) \cup V) \cup U)
          = Cardinality(F) + Cardinality(X) + Cardinality(D) + Cardinality(V)
              + Cardinality(U)
    BY <1>9, <1>10, <1>11, <1>12
  <2>2. Cardinality(F) + Cardinality(X) + Cardinality(D) + Cardinality(V)
          + Cardinality(U)
          = Cardinality(Sa \ PK) + Cardinality(Ex) + Cardinality(De)
              + Cardinality(Ve) + Cardinality(PK \ Ex)
    BY <1>7
  <2>3. Cardinality(Sa \ PK) + Cardinality(Ex) + Cardinality(De)
          + Cardinality(Ve) + Cardinality(PK \ Ex)
          = Cardinality(Sa) + Cardinality(De) + Cardinality(Ve)
              + Cardinality(Ex) + Cardinality(Bf)
    BY <1>1, <1>13, <1>14, <1>15
  <2> QED
    BY <1>4, <2>1, <2>2, <2>3
<1> QED
  BY <1>16 DEF Sa, Ex, De, Ve, Bf
=============================================================================
