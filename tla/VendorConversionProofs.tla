----------------------- MODULE VendorConversionProofs -----------------------
(***************************************************************************)
(* Proofs about the converters, for any logs and runs: that each line has  *)
(* one record, whatever the parsers accept and make of a log; and, about   *)
(* what the parsers make of a log, that the normalization takes no routing *)
(* peer for an endpoint, that nothing that was captured is lost and that   *)
(* every event is complete.                                                *)
(***************************************************************************)
EXTENDS VendorConversion, NormalizationProofs

Entries == [number : Nat,
            event : {Convert(c, Logs[name]) : c \in Converters, name \in DOMAIN Logs}]

Texts0 == [number : Nat, text : {Logs[name].text : name \in DOMAIN Logs}]

Shape ==
  /\ job \in Jobs
  /\ at \in 0 .. Len(job.logs)
  /\ events \in Seq(Entries) /\ raws \in Seq(Texts0)
  /\ parsed \in Nat /\ unparsed \in Nat
  /\ phase \in {"reading", "done", "failed"}

\* While the run goes on there are as many raw records as events: the next event is put
\* beside the next raw record.
InStep ==
  job.converter \in WritesRaws /\ phase = "reading" => Len(raws) = Len(events)

Inv == Shape /\ InStep /\ EveryLineOnce

-----------------------------------------------------------------------------
(***************************************************************************)
(* The lines that are kept, counted.                                       *)
(***************************************************************************)
LEMMA KeptFinite ==
  ASSUME NEW n \in Nat
  PROVE  IsFiniteSet(KeptUpTo(n)) /\ Place(n) \in Nat
<1>1. IsFiniteSet(1 .. n)
  BY FS_Interval
<1>2. KeptUpTo(n) \subseteq 1 .. n
  BY DEF KeptUpTo
<1>3. IsFiniteSet(KeptUpTo(n))
  BY <1>1, <1>2, FS_Subset
<1> QED
  BY <1>3, FS_CardinalityType DEF Place

LEMMA NothingKeptYet == KeptUpTo(0) = {} /\ Place(0) = 0
<1>1. KeptUpTo(0) = {}
  BY DEF KeptUpTo
<1> QED
  BY <1>1, FS_EmptySet DEF Place

LEMMA SkippedLine ==
  ASSUME NEW n \in Nat, ~Keeps(job.converter, Line(n + 1))
  PROVE  KeptUpTo(n + 1) = KeptUpTo(n) /\ Place(n + 1) = Place(n)
<1>1. KeptUpTo(n + 1) = KeptUpTo(n)
  BY DEF KeptUpTo
<1> QED
  BY <1>1 DEF Place

LEMMA KeptLine ==
  ASSUME NEW n \in Nat, Keeps(job.converter, Line(n + 1))
  PROVE  /\ KeptUpTo(n + 1) = KeptUpTo(n) \cup {n + 1}
         /\ Place(n + 1) = Place(n) + 1
<1>1. KeptUpTo(n + 1) = KeptUpTo(n) \cup {n + 1}
  BY DEF KeptUpTo
<1>2. n + 1 \notin KeptUpTo(n)
  BY DEF KeptUpTo
<1> QED
  BY <1>1, <1>2, KeptFinite, FS_AddElement DEF Place

\* The place of an earlier line is one of those already filled.
LEMMA EarlierPlace ==
  ASSUME NEW n \in Nat, NEW i \in KeptUpTo(n)
  PROVE  /\ i \in Nat
         /\ Place(i) \in 1 .. Place(n)
<1>1. i \in 1 .. n
  BY DEF KeptUpTo
<1>2. i \in KeptUpTo(i) /\ KeptUpTo(i) \subseteq KeptUpTo(n)
  BY <1>1 DEF KeptUpTo
<1>3. Place(i) <= Place(n)
  BY <1>1, <1>2, KeptFinite, FS_Subset DEF Place
<1>4. Place(i) # 0
  BY <1>1, <1>2, KeptFinite, FS_EmptySet DEF Place
<1> QED
  BY <1>1, <1>3, <1>4, KeptFinite

-----------------------------------------------------------------------------
\* The next event and raw record go to the place of the next line that is kept, and the
\* places of the lines before keep theirs.
LEMMA Fill ==
  ASSUME Shape, InStep, EveryLineOnce, phase = "reading", at < Len(job.logs),
         Keeps(job.converter, Line(at + 1))
  PROVE  LET es == Append(events, EventOf(Line(at + 1)))
             rs == Append(raws, RawOf(Line(at + 1)))
         IN /\ es \in Seq(Entries) /\ rs \in Seq(Texts0)
            /\ Len(es) = Len(events) + 1 /\ Len(rs) = Len(raws) + 1
            /\ Len(es) = Place(at + 1)
            /\ \A i \in KeptUpTo(at + 1) : es[Place(i)] = EventAt(i)
            /\ job.converter \in WritesRaws =>
                 \A i \in KeptUpTo(at + 1) : rs[Place(i)] = RawAt(i)
<1> DEFINE log == Line(at + 1)
           es == Append(events, EventOf(log))
           rs == Append(raws, RawOf(log))
<1>1. /\ job.converter \in Converters /\ job.logs \in Seq(DOMAIN Logs)
      /\ at \in Nat /\ at + 1 \in 1 .. Len(job.logs)
  BY JobsAssumption DEF Shape
<1>2. job.logs[at + 1] \in DOMAIN Logs
  BY <1>1
<1>3. Place(at + 1) = Place(at) + 1 /\ Place(at) \in Nat /\ Len(events) = Place(at)
  BY <1>1, KeptLine, KeptFinite DEF EveryLineOnce
<1>4. RecordNumber \in Nat /\ RecordNumber = NumberAt(at + 1)
  BY <1>1, <1>3 DEF RecordNumber, NumberAt, Counting, InStep, Shape
<1>5. EventOf(log) \in Entries /\ EventOf(log) = EventAt(at + 1)
  BY <1>1, <1>2, <1>4 DEF EventOf, EventAt, Entries, Line
<1>6. RawOf(log) \in Texts0 /\ RawOf(log) = RawAt(at + 1)
  BY <1>1, <1>2, <1>4 DEF RawOf, RawAt, Texts0, Line
<1>7. /\ es \in Seq(Entries) /\ Len(es) = Len(events) + 1
      /\ \A k \in 1 .. Len(events) : es[k] = events[k]
      /\ es[Len(events) + 1] = EventAt(at + 1)
  <2> HIDE DEF Entries
  <2> QED
    BY <1>5 DEF Shape
<1>8. /\ rs \in Seq(Texts0) /\ Len(rs) = Len(raws) + 1
      /\ \A k \in 1 .. Len(raws) : rs[k] = raws[k]
      /\ rs[Len(raws) + 1] = RawAt(at + 1)
  BY <1>6 DEF Shape
<1>9. ASSUME NEW i \in KeptUpTo(at + 1)
      PROVE  /\ es[Place(i)] = EventAt(i)
             /\ job.converter \in WritesRaws => rs[Place(i)] = RawAt(i)
  <2>1. CASE i = at + 1
    BY <2>1, <1>3, <1>7, <1>8 DEF InStep
  <2>2. CASE i \in KeptUpTo(at)
    <3>1. Place(i) \in 1 .. Place(at)
      BY <2>2, <1>1, EarlierPlace
    <3>2. events[Place(i)] = EventAt(i)
      BY <2>2 DEF EveryLineOnce
    <3>3. job.converter \in WritesRaws => raws[Place(i)] = RawAt(i)
      BY <2>2 DEF EveryLineOnce
    <3> QED
      BY <3>1, <3>2, <3>3, <1>3, <1>7, <1>8 DEF InStep
  <2> QED
    BY <2>1, <2>2, <1>1, KeptLine
<1> QED
  BY <1>3, <1>7, <1>8, <1>9
\* What is expected after a step that stays in the run and has read up to n.
LEMMA Expected ==
  ASSUME NEW n, job' = job, at' = n
  PROVE  /\ KeptUpTo(at)' = KeptUpTo(n) /\ Place(at)' = Place(n)
         /\ \A i : Place(i)' = Place(i) /\ EventAt(i)' = EventAt(i)
                /\ RawAt(i)' = RawAt(i)
BY DEF KeptUpTo, Place, EventAt, RawAt, NumberAt, Line

-----------------------------------------------------------------------------
LEMMA InvInit == Init => Inv
<1> SUFFICES ASSUME Init PROVE Inv
  OBVIOUS
<1>1. Shape
  BY JobsAssumption DEF Init, Shape
<1>2. InStep
  BY DEF Init, InStep
<1>3. EveryLineOnce
  BY NothingKeptYet DEF Init, EveryLineOnce
<1> QED
  BY <1>1, <1>2, <1>3 DEF Inv

LEMMA SkipLineKeeps == Inv /\ SkipLine => Inv'
<1> SUFFICES ASSUME Inv, SkipLine PROVE Inv'
  OBVIOUS
<1>1. /\ job' = job /\ at' = at + 1 /\ phase = "reading"
      /\ at \in Nat /\ at < Len(job.logs) /\ Len(job.logs) \in Nat
  BY JobsAssumption DEF SkipLine, Read, Ended, Inv, Shape
<1>2. KeptUpTo(at)' = KeptUpTo(at) /\ Place(at)' = Place(at)
  BY <1>1, Expected, SkippedLine DEF SkipLine
<1>3. Shape'
  BY <1>1 DEF SkipLine, Inv, Shape
<1>4. InStep'
  BY <1>1 DEF SkipLine, Inv, InStep, WritesRaws
<1>5. EveryLineOnce'
  BY <1>1, <1>2, Expected DEF SkipLine, Inv, EveryLineOnce
<1> QED
  BY <1>3, <1>4, <1>5 DEF Inv

\* A step that writes the event of the next line and, for those that keep them, its raw
\* record, keeps the invariant, if the counters follow.
LEMMA FillKeeps ==
  ASSUME Inv, Read, Keeps(job.converter, Line(at + 1)),
         job' = job, at' = at + 1, phase' = phase,
         events' = Append(events, EventOf(Line(at + 1))),
         \/ job.converter \in WritesRaws /\ raws' = Append(raws, RawOf(Line(at + 1)))
         \/ job.converter \notin WritesRaws /\ raws' = raws,
         parsed' \in Nat, unparsed' \in Nat,
         job.converter \in LineConverters =>
           parsed' + unparsed' = parsed + unparsed + 1
  PROVE  Inv'
<1>1. /\ phase = "reading" /\ at \in Nat
      /\ at < Len(job.logs) /\ Len(job.logs) \in Nat
  BY JobsAssumption DEF Read, Ended, Inv, Shape
<1>2. /\ events' \in Seq(Entries) /\ raws' \in Seq(Texts0)
      /\ Len(events') = Len(events) + 1
      /\ Len(events') = Place(at + 1)
      /\ \A i \in KeptUpTo(at + 1) : events'[Place(i)] = EventAt(i)
      /\ job.converter \in WritesRaws =>
           /\ Len(raws') = Len(raws) + 1
           /\ \A i \in KeptUpTo(at + 1) : raws'[Place(i)] = RawAt(i)
  BY <1>1, Fill DEF Inv, Shape
<1>3. KeptUpTo(at)' = KeptUpTo(at + 1) /\ Place(at)' = Place(at + 1)
  BY Expected
<1>4. Shape'
  BY <1>1, <1>2 DEF Inv, Shape
<1>5. InStep'
  BY <1>1, <1>2 DEF Inv, InStep, Shape, WritesRaws
<1>6. Len(raws') = Len(events') \/ job.converter \notin WritesRaws
  BY <1>1, <1>2 DEF Inv, InStep
<1>7. job.converter \in LineConverters => parsed' + unparsed' = Len(events')
  BY <1>2 DEF Inv, Shape, EveryLineOnce
<1>8. EveryLineOnce'
  BY <1>2, <1>3, <1>6, <1>7, Expected DEF EveryLineOnce, WritesRaws
<1> QED
  BY <1>4, <1>5, <1>8 DEF Inv

LEMMA ConvertLineKeeps == Inv /\ ConvertLine => Inv'
<1> SUFFICES ASSUME Inv, ConvertLine PROVE Inv'
  OBVIOUS
<1>1. /\ parsed' \in Nat /\ unparsed' \in Nat
      /\ parsed' + unparsed' = parsed + unparsed + 1
  BY DEF ConvertLine, Inv, Shape
<1>2. job.converter \in WritesRaws
  BY DEF ConvertLine, WritesRaws
<1> QED
  BY <1>1, <1>2, FillKeeps DEF ConvertLine

LEMMA ConvertRowKeeps == Inv /\ ConvertRow => Inv'
<1> SUFFICES ASSUME Inv, ConvertRow PROVE Inv'
  OBVIOUS
<1>1. job.converter \notin WritesRaws /\ job.converter \notin LineConverters
  BY DEF ConvertRow, WritesRaws, LineConverters, CiscoConverters, TableConverters,
         ListParsers, PanosParsers
<1>2. parsed' \in Nat /\ unparsed' \in Nat
  BY DEF ConvertRow, Inv, Shape
<1> QED
  BY <1>1, <1>2, FillKeeps DEF ConvertRow

LEMMA PrepareRecordKeeps == Inv /\ PrepareRecord => Inv'
<1> SUFFICES ASSUME Inv, PrepareRecord PROVE Inv'
  OBVIOUS
<1>1. job.converter \in WritesRaws /\ job.converter \notin LineConverters
  BY DEF PrepareRecord, WritesRaws, LineConverters, CiscoConverters
<1>2. parsed' \in Nat /\ unparsed' \in Nat
  BY DEF PrepareRecord, Inv, Shape
<1> QED
  BY <1>1, <1>2, FillKeeps DEF PrepareRecord

\* The raw record of a refused alert comes after all the others.
LEMMA RefuseRecordKeeps == Inv /\ RefuseRecord => Inv'
<1> SUFFICES ASSUME Inv, RefuseRecord PROVE Inv'
  OBVIOUS
<1>1. /\ job' = job /\ at' = at /\ events' = events /\ phase' = "failed"
      /\ parsed' = parsed /\ unparsed' = unparsed
      /\ phase = "reading" /\ at \in Nat
      /\ at < Len(job.logs) /\ Len(job.logs) \in Nat
      /\ job.converter = "demo"
  BY JobsAssumption DEF RefuseRecord, Read, Ended, Inv, Shape
<1>2. /\ raws' \in Seq(Texts0) /\ Len(raws') = Len(raws) + 1
      /\ \A k \in 1 .. Len(raws) : raws'[k] = raws[k]
  BY <1>1, Fill DEF RefuseRecord, Inv, Shape
<1>3. Len(raws) = Len(events)
  BY <1>1 DEF Inv, InStep, WritesRaws
<1>4. KeptUpTo(at)' = KeptUpTo(at) /\ Place(at)' = Place(at)
  BY <1>1, Expected
<1>5. \A i \in KeptUpTo(at) : Place(i) \in 1 .. Len(raws)
  BY <1>1, <1>3, EarlierPlace DEF Inv, EveryLineOnce
<1>6. Shape'
  BY <1>1, <1>2 DEF RefuseRecord, Inv, Shape
<1>7. InStep'
  BY <1>1 DEF RefuseRecord, Inv, InStep
<1>8. EveryLineOnce'
  BY <1>1, <1>2, <1>3, <1>4, <1>5, Expected DEF Inv, EveryLineOnce, WritesRaws
<1> QED
  BY <1>6, <1>7, <1>8 DEF Inv

\* The steps that end a run write nothing.
LEMMA EndKeeps ==
  ASSUME Inv, UNCHANGED <<job, at, raws, events, parsed, unparsed>>,
         \/ phase = "reading" /\ phase' \in {"done", "failed"}
         \/ phase' = phase
  PROVE  Inv'
<1>1. KeptUpTo(at)' = KeptUpTo(at) /\ Place(at)' = Place(at)
  BY Expected
<1>2. Shape'
  BY DEF Inv, Shape
<1>3. InStep'
  BY DEF Inv, InStep, WritesRaws
<1>4. phase = "reading" /\ job.converter \in WritesRaws => Len(raws) = Len(events)
  BY DEF Inv, InStep
<1>5. EveryLineOnce'
  BY <1>1, <1>4, Expected DEF Inv, EveryLineOnce, WritesRaws
<1> QED
  BY <1>2, <1>3, <1>5 DEF Inv

LEMMA InvNext == Inv /\ [Next]_vars => Inv'
<1> SUFFICES ASSUME Inv, [Next]_vars PROVE Inv'
  OBVIOUS
<1>1. CASE SkipLine
  BY <1>1, SkipLineKeeps
<1>2. CASE ConvertLine
  BY <1>2, ConvertLineKeeps
<1>3. CASE ConvertRow
  BY <1>3, ConvertRowKeeps
<1>4. CASE PrepareRecord
  BY <1>4, PrepareRecordKeeps
<1>5. CASE RefuseRecord
  BY <1>5, RefuseRecordKeeps
<1>6. CASE Finish
  BY <1>6, EndKeeps DEF Finish
<1>7. CASE Publish
  BY <1>7, EndKeeps DEF Publish
<1>8. CASE Abort
  BY <1>8, EndKeeps DEF Abort
<1>9. CASE UNCHANGED vars
  BY <1>9, EndKeeps DEF vars
<1> QED
  BY <1>1, <1>2, <1>3, <1>4, <1>5, <1>6, <1>7, <1>8, <1>9 DEF Next

(***************************************************************************)
(* Whatever the parsers make of the logs: each line that is kept has one   *)
(* event, at its place and with its number, and one raw record beside it.  *)
(* The numbers come from counters, lengths or line numbers (main() of the  *)
(* converters), and the proof is that these never drift apart.             *)
(***************************************************************************)
THEOREM EveryLineHasOneRecord == Spec => []EveryLineOnce
<1>1. Inv => EveryLineOnce
  BY DEF Inv
<1> QED
  BY <1>1, InvInit, InvNext, PTL DEF Spec

-----------------------------------------------------------------------------
(***************************************************************************)
(* Each event is what the converter of the run makes of a line that it has *)
(* read.                                                                   *)
(***************************************************************************)
Converted ==
  \A k \in DOMAIN events :
    \E i \in 1 .. at : events[k].event = Convert(job.converter, Line(i))

LEMMA ConvertedInit == Init => Converted
BY DEF Init, Converted

\* A step that appends the event of the next line keeps this, and so does one that
\* leaves the events alone.
LEMMA AppendKeepsConverted ==
  ASSUME Inv, Converted, Read, job' = job, at' = at + 1,
         events' = Append(events, EventOf(Line(at + 1)))
  PROVE  Converted'
<1>1. at \in Nat
  BY DEF Inv, Shape
<1>2. \A i : Line(i)' = Line(i)
  BY DEF Line
<1>3. /\ DOMAIN events' = 1 .. Len(events) + 1 /\ Len(events) \in Nat
      /\ \A k \in 1 .. Len(events) : events'[k] = events[k] /\ k \in DOMAIN events
      /\ events'[Len(events) + 1] = EventOf(Line(at + 1))
  <2> HIDE DEF Entries
  <2> QED
    BY DEF Inv, Shape
<1>4. ASSUME NEW k \in DOMAIN events'
      PROVE  \E i \in 1 .. at + 1 :
               events'[k].event = Convert(job.converter, Line(i))
  <2>1. CASE k = Len(events) + 1
    <3>1. events'[k].event = Convert(job.converter, Line(at + 1))
      BY <1>3, <2>1 DEF EventOf
    <3> QED
      BY <1>1, <3>1
  <2>2. CASE k \in 1 .. Len(events)
    <3>1. PICK i \in 1 .. at : events[k].event = Convert(job.converter, Line(i))
      BY <1>3, <2>2 DEF Converted
    <3> QED
      BY <1>1, <1>3, <2>2, <3>1
  <2> QED
    BY <1>3, <2>1, <2>2
<1> QED
  BY <1>2, <1>4 DEF Converted

LEMMA StayKeepsConverted ==
  ASSUME Inv, Converted, job' = job, events' = events, at' \in {at, at + 1}
  PROVE  Converted'
<1>1. at \in Nat
  BY DEF Inv, Shape
<1>2. \A i : Line(i)' = Line(i)
  BY DEF Line
<1>3. 1 .. at \subseteq 1 .. at'
  BY <1>1
<1> QED
  BY <1>2, <1>3 DEF Converted

LEMMA ConvertedNext == Inv /\ Converted /\ [Next]_vars => Converted'
<1> SUFFICES ASSUME Inv, Converted, [Next]_vars PROVE Converted'
  OBVIOUS
<1>1. CASE ConvertLine \/ ConvertRow \/ PrepareRecord
  BY <1>1, AppendKeepsConverted DEF ConvertLine, ConvertRow, PrepareRecord
<1>2. CASE SkipLine \/ RefuseRecord
  BY <1>2, StayKeepsConverted DEF SkipLine, RefuseRecord
<1>3. CASE Finish \/ Publish \/ Abort \/ UNCHANGED vars
  BY <1>3, StayKeepsConverted DEF Finish, Publish, Abort, vars
<1> QED
  BY <1>1, <1>2, <1>3 DEF Next

-----------------------------------------------------------------------------
(***************************************************************************)
(* An event whose destination is no routing peer: it has no destination,   *)
(* or its details name no peer and no next hop.                            *)
(***************************************************************************)
PeerKeys == {"neighbor_ip", "next_hop"}

NoPeer(e) == e.fields.dst_ip = None \/ PeerKeys \cap DOMAIN e.details = {}

\* the same of what a message parser returns
Plain(got) == got = None \/ PeerKeys \cap DOMAIN got.details = {}

\* The PAN-OS parsers leave the destination empty or have no such details.
LEMMA PaRouterNoPeer ==
  ASSUME NEW row
  PROVE  NoPeer(PaRouter!NormalizeRow(row))
BY DEF PaRouter!NormalizeRow, PaRouter!EventWith, NoPeer, PaRouter!Lookup,
   ScalarKeys, SemanticKeys, PaRouter!ScalarKeys, PaRouter!SemanticKeys

LEMMA PaVpnNoPeer ==
  ASSUME NEW row
  PROVE  NoPeer(PaVpn!NormalizeRow(row))
BY DEF PaVpn!NormalizeRow, PaVpn!EventWith, NoPeer, PaVpn!Lookup, PaVpn!ScalarKeys,
   PaVpn!SemanticKeys

LEMMA PaSystemNoPeer ==
  ASSUME NEW row
  PROVE  NoPeer(PaSystem!NormalizeRow(row))
BY DEF PaSystem!NormalizeRow, PaSystem!EventWith, NoPeer, PaSystem!Lookup,
   PaSystem!ScalarKeys, PaSystem!SemanticKeys

LEMMA PaTrafficNoPeer ==
  ASSUME NEW row
  PROVE  NoPeer(PaTraffic!NormalizeRow(row))
<1> DEFINE f == row.cells
<1>1. PeerKeys \cap DOMAIN PaTraffic!BuildDetails(f) = {}
  BY DEF PaTraffic!BuildDetails, PaTraffic!Present, PaTraffic!++,
     PaTraffic!TextColumns, PaTraffic!NumberColumns, PeerKeys
<1>2. PaTraffic!NormalizeRow(row).details = PaTraffic!BuildDetails(f)
  BY DEF PaTraffic!NormalizeRow, PaTraffic!EventWith
<1> QED
  BY <1>1, <1>2 DEF NoPeer

\* Nor have the FortiGate parsers for traffic, VPN and system logs.
LEMMA FgTrafficNoPeer ==
  ASSUME NEW row
  PROVE  NoPeer(FgTraffic!ConvertRow(row))
<1>1. PeerKeys \cap DOMAIN FgTraffic!BuildDetails(row) = {}
  BY DEF FgTraffic!BuildDetails, FgTraffic!Present, FgTraffic!++,
     FgTraffic!TextDetails, FgTraffic!NumberDetails, PeerKeys
<1>2. FgTraffic!ConvertRow(row).details = FgTraffic!BuildDetails(row)
  BY DEF FgTraffic!ConvertRow, FgTraffic!EventWith
<1> QED
  BY <1>1, <1>2 DEF NoPeer

LEMMA FgVpnNoPeer ==
  ASSUME NEW f
  PROVE  NoPeer(FgVpn!NormalizeLog(f))
<1>1. PeerKeys \cap DOMAIN FgVpn!BuildDetails(f) = {}
  BY DEF FgVpn!BuildDetails, PeerKeys
<1>2. FgVpn!NormalizeLog(f).details = FgVpn!BuildDetails(f)
  BY DEF FgVpn!NormalizeLog, FgVpn!EventWith
<1> QED
  BY <1>1, <1>2 DEF NoPeer

LEMMA FgSystemNoPeer ==
  ASSUME NEW f
  PROVE  NoPeer(FgSystem!NormalizeLog(f))
<1>1. ASSUME NEW type PROVE PeerKeys \cap DOMAIN FgSystem!BuildDetails(f, type) = {}
  <2>1. PeerKeys \cap DOMAIN FgSystem!ManagementDetails(f, type) = {}
    BY DEF FgSystem!ManagementDetails, PeerKeys, FgSystem!Empty
  <2>2. PeerKeys \cap DOMAIN FgSystem!ResourceDetails(f) = {}
    BY DEF FgSystem!ResourceDetails, PeerKeys, FgSystem!Meters
  <2> QED
    BY <2>1, <2>2 DEF FgSystem!BuildDetails, FgSystem!Present, PeerKeys
<1>2. FgSystem!NormalizeLog(f).details
        = FgSystem!BuildDetails(f, FgSystem!Classify(f).type)
  BY DEF FgSystem!NormalizeLog, FgSystem!EventWith
<1> QED
  BY <1>1, <1>2 DEF NoPeer

\* Nor have the Cisco converters, the one for routers aside.
LEMMA AsaNoPeer ==
  ASSUME NEW line
  PROVE  NoPeer(Asa!ConvertLine(line))
<1> USE DEF Plain, PeerKeys, Asa!Match, Asa!Parsed, Asa!++, Asa!Present,
      Asa!Interfaces
<1>1. Plain(Asa!ParseConnectionStart(line))
  BY DEF Asa!ParseConnectionStart
<1>2. Plain(Asa!ParseConnectionEnd(line))
  BY DEF Asa!ParseConnectionEnd
<1>3. Plain(Asa!ParseAclDeny(line)) /\ Plain(Asa!ParseAcl106100(line))
  BY DEF Asa!ParseAclDeny, Asa!ParseAcl106100, Asa!Decision
<1>4. Plain(Asa!ParseNat(line))
  BY DEF Asa!ParseNat, Asa!Translation
<1>5. \A start : Plain(Asa!ParseIcmp(line, start)) /\ Plain(Asa!ParseGre(line, start))
  BY DEF Asa!ParseIcmp, Asa!ParseGre, Asa!Empty
<1> HIDE DEF Plain, PeerKeys
<1>6. Plain(Asa!ParseMessage(line))
  BY <1>1, <1>2, <1>3, <1>4, <1>5, Zenon DEF Asa!ParseMessage, Plain
<1> QED
  BY <1>6 DEF Asa!ConvertLine, Asa!Convert, Asa!EventWith, NoPeer, Plain, PeerKeys,
     Asa!Empty

LEMMA AsaVpnNoPeer ==
  ASSUME NEW line
  PROVE  NoPeer(AsaVpn!ConvertLine(line))
<1> USE DEF Plain, PeerKeys, AsaVpn!Match, AsaVpn!Parsed, AsaVpn!++, AsaVpn!WebVpn
<1>1. Plain(AsaVpn!Parse716001(line)) /\ Plain(AsaVpn!Parse716002(line))
  BY DEF AsaVpn!Parse716001, AsaVpn!Parse716002
<1>2. Plain(AsaVpn!Parse722051(line)) /\ Plain(AsaVpn!Parse113019(line))
  BY DEF AsaVpn!Parse722051, AsaVpn!Parse113019
<1>3. Plain(AsaVpn!Parse725003(line)) /\ Plain(AsaVpn!Parse722050(line))
  BY DEF AsaVpn!Parse725003, AsaVpn!Parse722050
<1>4. Plain(AsaVpn!Parse722053(line)) /\ Plain(AsaVpn!Parse746012(line))
  BY DEF AsaVpn!Parse722053, AsaVpn!Parse746012
<1> HIDE DEF Plain, PeerKeys
<1>5. Plain(AsaVpn!ParseMessage(line))
  BY <1>1, <1>2, <1>3, <1>4, Zenon DEF AsaVpn!ParseMessage, Plain
<1> QED
  BY <1>5 DEF AsaVpn!ConvertLine, AsaVpn!Convert, AsaVpn!EventWith, NoPeer, Plain,
     PeerKeys, AsaVpn!Empty

LEMMA IosSystemNoPeer ==
  ASSUME NEW line
  PROVE  NoPeer(IosSystem!ConvertLine(line))
<1> USE DEF Plain, PeerKeys, IosSystem!Match, IosSystem!Parsed, IosSystem!Present,
      IosSystem!Empty
<1>1. Plain(IosSystem!ParseReload(line)) /\ Plain(IosSystem!ParseRestart(line))
  BY DEF IosSystem!ParseReload, IosSystem!ParseRestart
<1>2. Plain(IosSystem!ParseCpuhog(line)) /\ Plain(IosSystem!ParseMallocfail(line))
  BY DEF IosSystem!ParseCpuhog, IosSystem!ParseMallocfail
<1>3. /\ Plain(IosSystem!ParsePowerFailure(line))
      /\ Plain(IosSystem!ParseFanFailure(line))
      /\ Plain(IosSystem!ParseTemperature(line)) /\ Plain(IosSystem!ParseCrash(line))
      /\ Plain(IosSystem!ParseInterfaceError(line))
      /\ Plain(IosSystem!ParseModuleFailure(line))
  BY DEF IosSystem!ParsePowerFailure, IosSystem!ParseFanFailure,
     IosSystem!ParseTemperature, IosSystem!ParseCrash,
     IosSystem!ParseInterfaceError, IosSystem!ParseModuleFailure, IosSystem!Broken
<1>4. /\ Plain(IosSystem!ParseClockUpdate(line))
      /\ Plain(IosSystem!ParseConfigSave(line))
  BY DEF IosSystem!ParseClockUpdate, IosSystem!ParseConfigSave
<1> HIDE DEF Plain, PeerKeys
<1>5. Plain(None)
  BY DEF Plain
<1>6. Plain(IosSystem!ParseMessage(line))
  BY <1>1, <1>2, <1>3, <1>4, <1>5, SMT DEF IosSystem!ParseMessage
<1> QED
  BY <1>6 DEF IosSystem!ConvertLine, IosSystem!Convert, IosSystem!EventWith, NoPeer,
     Plain, PeerKeys, IosSystem!Empty

\* The demonstration adds the hash of the evidence, and no peer.
LEMMA DemoNoPeer ==
  ASSUME NEW line, line.source \in Sources
  PROVE  NoPeer(PrepareLine(line).event)
<1>1. ASSUME NEW e, NEW b, NoPeer(e), IsRecord(e, EventFields)
      PROVE  NoPeer(Prepared(e, b).event)
  BY <1>1 DEF NoPeer, PeerKeys, Prepared, Traced, Put, IsRecord, EventFields
<1>2. CASE line.source = "cisco"
  <2> DEFINE e == IF IsWebVpnStart(line) THEN AsaVpn!ConvertLine(line)
                  ELSE Asa!ConvertLine(line)
             e2 == [e EXCEPT !.fields.timestamp = IsoCisco(e.fields.timestamp)]
  <2>1. NoPeer(e)
    BY AsaNoPeer, AsaVpnNoPeer
  <2>2. IsRecord(e, EventFields) /\ IsRecord(e.fields, ScalarKeys)
    <3>1. CASE IsWebVpnStart(line)
      BY <3>1 DEF AsaVpn!ConvertLine, AsaVpn!Convert, AsaVpn!EventWith,
         AsaVpn!ScalarKeys, AsaVpn!ControlKeys, AsaVpn!SemanticKeys, IsRecord,
         EventFields, ScalarKeys, ControlKeys, SemanticKeys
    <3>2. CASE ~IsWebVpnStart(line)
      BY <3>2 DEF Asa!ConvertLine, Asa!Convert, Asa!EventWith, Asa!ScalarKeys,
         Asa!ControlKeys, Asa!SemanticKeys, IsRecord, EventFields, ScalarKeys,
         ControlKeys, SemanticKeys
    <3> QED
      BY <3>1, <3>2
  <2> HIDE DEF e
  <2>3. NoPeer(e2) /\ IsRecord(e2, EventFields)
    BY <2>1, <2>2 DEF NoPeer, ScalarKeys, SemanticKeys, IsRecord, EventFields
  <2>4. PrepareLine(line)
          = Prepared(e2, IF IsWebVpnStart(line) THEN AuthenticationBinding
                         ELSE NetworkBinding)
    BY <1>2 DEF PrepareLine, CiscoEvent, e
  <2> HIDE DEF e2
  <2> QED
    BY <2>3, <2>4, <1>1
<1>3. CASE line.source = "suricata"
  <2>1. PeerKeys \cap DOMAIN PrepareLine(line).event.details = {}
    BY <1>3 DEF PrepareLine, SuricataEvent, Prepared, Traced, EventWith, Put, PeerKeys
  <2> QED
    BY <2>1 DEF NoPeer
<1>4. CASE line.source = "linux"
  <2>1. PeerKeys \cap DOMAIN LinuxParse(line).details = {}
    BY DEF LinuxParse, EventWith, PeerKeys, Empty
  <2> DEFINE e == LinuxParse(line)
  <2>2. IsRecord(e, EventFields)
    <3>1. ASSUME NEW a, NEW b, NEW c
          PROVE  IsRecord(EventWith(a, b, c), EventFields)
      BY DEF EventWith, IsRecord, EventFields
    <3> HIDE DEF e
    <3>2. CASE "Failed-password" \in line.forms
      <4>1. e = EventWith(LinuxFailure(line) ++ LinuxBase, Empty,
                          [message |-> Text(line.text)])
        BY <3>2 DEF LinuxParse, e
      <4> QED
        BY <3>1, <4>1
    <3>3. CASE "Failed-password" \notin line.forms /\ "sudo" \in line.forms
      <4>1. e = EventWith(LinuxCommand(line) ++ LinuxBase,
                          [command |-> Text(line.groups.command)],
                          [message |-> Text(line.text)])
        BY <3>3 DEF LinuxParse, e
      <4> QED
        BY <3>1, <4>1
    <3>4. CASE "Failed-password" \notin line.forms /\ "sudo" \notin line.forms
      <4>1. e = EventWith(LinuxBase, Empty, [message |-> Text(line.text)])
        BY <3>4 DEF LinuxParse, e
      <4> QED
        BY <3>1, <4>1
    <3> QED
      BY <3>2, <3>3, <3>4
  <2>3. PeerKeys \cap DOMAIN LinuxEvent(line).event.details = {}
    <3> HIDE DEF e
    <3> QED
      BY <2>1, <2>2 DEF LinuxEvent, Prepared, Traced, Put, e, PeerKeys, IsRecord,
         EventFields
  <2> QED
    BY <1>4, <2>3 DEF NoPeer, PrepareLine
<1> QED
  BY <1>2, <1>3, <1>4 DEF Sources

-----------------------------------------------------------------------------
(***************************************************************************)
(* An event of a routing peer: the normalization sees that it is about     *)
(* routing, and its details leave "unmapped_fields" to the mapper.         *)
(***************************************************************************)
RoutingDetails ==
  {"neighbor_ip", "new_state", "process_id", "interface", "previous_state",
   "autonomous_system", "prefix", "next_hop", "metric", "device"}

PeerEvent(e) ==
  /\ IsRecord(e, EventFields) /\ IsRecord(e.fields, ScalarKeys)
  /\ DOMAIN e.details \subseteq RoutingDetails
  /\ e.vendor_fields = Empty /\ e.extra = <<>>
  /\ IsRouting(e)
  /\ e.fields.dst_ip = None \/ Meaningful(e.fields.dst_ip)

AddressesIn(line) ==
  \A g \in {"neighbor", "next_hop"} \cap DOMAIN line.groups : line.groups[g] # ""

\* A field that holds one of the words, in small letters, is found to say so.
LEMMA SaysWord ==
  ASSUME NoneIsNoValue, NEW legacy, NEW key, NEW words, NEW w \in words,
         Lower(w) = w, w # "", legacy.fields[key] = Text(w)
  PROVE  Says(legacy, key, words)
<1>1. Text(w) # None /\ Text(w) # Blank
  BY DEF NoneIsNoValue, Text, Blank
<1>2. TextValue(Text(w)) = Text(w)
  BY <1>1 DEF TextValue, Is, Text
<1>3. Text(w)[2] = w
  BY DEF Text
<1>4. Folded(Text(w)) = w
  BY <1>1, <1>2, <1>3, Zenon DEF Folded
<1> QED
  BY <1>4, Zenon DEF Says

\* An address that a pattern captured is one: the pattern takes no blank text.
LEMMA CapturedAddress ==
  ASSUME NoneIsNoValue, NEW line, AddressesIn(line),
         NEW g \in {"neighbor", "next_hop"}
  PROVE  Routing!Group(line, g) = None \/ Meaningful(Routing!Group(line, g))
<1> DEFINE v == Routing!Group(line, g)
<1>1. CASE g \in DOMAIN line.groups
  <2> DEFINE t == line.groups[g]
  <2>1. t # ""
    BY <1>1 DEF AddressesIn
  <2>2. v = Text(t)
    BY <1>1 DEF Routing!Group, Routing!Text, Text
  <2> HIDE DEF t, v
  <2>3. Text(t) # None
    BY DEF NoneIsNoValue, Text
  <2>4. Text(t) # Text("")
    BY <2>1 DEF Text
  <2>5. Meaningful(v)
    BY <2>2, <2>3, <2>4 DEF Meaningful, Blank
  <2> QED
    BY <2>5 DEF v
<1>2. CASE g \notin DOMAIN line.groups
  BY <1>2 DEF Routing!Group
<1> QED
  BY <1>1, <1>2

(***************************************************************************)
(* The router converter: with a neighbor for its destination, an event has *)
(* the neighbor for its object.                                            *)
(***************************************************************************)
PeerParsed(m, got) ==
  \/ got = None
  \/ /\ "object_type" \in DOMAIN got.scalars
     /\ got.scalars.object_type = Text("routing_neighbor")
     /\ "dst_ip" \in DOMAIN got.scalars
     /\ got.scalars.dst_ip = Ios!Group(m, "neighbor")
     /\ DOMAIN got.details \subseteq RoutingDetails

LEMMA IosPeer ==
  ASSUME NoneIsNoValue, NEW line, AddressesIn(line)
  PROVE  NoPeer(Ios!ConvertLine(line)) \/ PeerEvent(Ios!ConvertLine(line))
<1> DEFINE got == Ios!ParseMessage(line)
<1>1. /\ PeerParsed(line, Ios!ParseBgp(line))
      /\ PeerParsed(line, Ios!ParseEigrp(line))
  BY DEF PeerParsed, Ios!ParseBgp, Ios!ParseEigrp, Ios!Match, Ios!Parsed,
     Ios!Neighbor, Ios!StateChange, Ios!Object, Ios!Kind, Ios!Texts, Ios!++,
     Ios!Text, Text, RoutingDetails
<1>2. PeerParsed(line, Ios!ParseOspf(line))
  BY DEF PeerParsed, Ios!ParseOspf, Ios!Match, Ios!Parsed,
     Ios!Neighbor, Ios!Object, Ios!++, Ios!Text, Text, RoutingDetails, Ios!OspfState,
     Ios!Texts
<1>3. /\ Plain(Ios!ParseLink(line)) /\ Plain(Ios!ParseLineproto(line))
      /\ Plain(Ios!ParseIsis(line))
  BY DEF Plain, Ios!Match, Ios!Parsed, Ios!ParseLink, Ios!ParseLineproto,
     Ios!InterfaceState, Ios!ParseIsis, PeerKeys
<1>4. /\ Plain(Ios!ParseConfig(line)) /\ Plain(Ios!ParseAcl(line))
      /\ \A b : Plain(Ios!ParseLogin(line, b))
  BY DEF Plain, Ios!Match, Ios!Parsed, Ios!ParseConfig, Ios!ParseAcl, Ios!ParseLogin,
     PeerKeys, Ios!Empty
<1>5. /\ Plain(Ios!ParseReload(line)) /\ Plain(Ios!ParseCpuhog(line))
      /\ \A b : Plain(Ios!ParseNat(line, b)) /\ Plain(Ios!ParseDhcp(line, b))
  BY DEF Plain, Ios!Match, Ios!Parsed, Ios!ParseReload, Ios!ParseCpuhog,
     Ios!ParseNat, Ios!ParseDhcp, PeerKeys
<1> DEFINE Q(p) == Plain(p) \/ PeerParsed(line, p)
<1>6. Q(None)
  BY DEF Plain
<1>7. Q(got)
  <2>1. /\ Q(Ios!ParseBgp(line)) /\ Q(Ios!ParseEigrp(line)) /\ Q(Ios!ParseOspf(line))
        /\ Q(Ios!ParseLink(line)) /\ Q(Ios!ParseLineproto(line))
        /\ Q(Ios!ParseIsis(line))
        /\ Q(Ios!ParseConfig(line)) /\ Q(Ios!ParseAcl(line))
        /\ Q(Ios!ParseLogin(line, TRUE)) /\ Q(Ios!ParseLogin(line, FALSE))
        /\ Q(Ios!ParseReload(line)) /\ Q(Ios!ParseCpuhog(line))
        /\ Q(Ios!ParseNat(line, TRUE)) /\ Q(Ios!ParseNat(line, FALSE))
        /\ Q(Ios!ParseDhcp(line, TRUE)) /\ Q(Ios!ParseDhcp(line, FALSE))
    BY <1>1, <1>2, <1>3, <1>4, <1>5
  <2> HIDE DEF Q
  <2> QED
    BY <1>6, <2>1, ZenonT(120) DEF Ios!ParseMessage
<1> HIDE DEF got
<1> DEFINE e == Ios!ConvertLine(line)
<1>8. CASE ~line.header \/ got = None
  BY <1>8 DEF Ios!ConvertLine, Ios!Convert, Ios!EventWith, NoPeer, PeerKeys,
     Ios!Empty, got
<1>9. CASE line.header /\ got # None /\ Plain(got)
  <2>1. e.details = got.details
    BY <1>9 DEF Ios!ConvertLine, Ios!Convert, Ios!EventWith, got
  <2> QED
    BY <1>9, <2>1 DEF NoPeer, Plain
<1>10. CASE line.header /\ got # None /\ PeerParsed(line, got)
  <2> DEFINE head == [timestamp |-> Ios!Stamp(line),
                      severity |-> Ios!SeverityOf(line),
                      vendor_event_id |-> Ios!VendorEventId(line)]
             base == Ios!Texts([vendor |-> "Cisco", product |-> "IOS",
                                type |-> "router"])
             all == Ios!++(Ios!++(got.scalars, head), base)
  <2>1. e = Ios!EventWith(all, got.details, Ios!Empty)
    BY <1>10 DEF Ios!ConvertLine, Ios!Convert, got
  <2>2. /\ {"object_type", "dst_ip"} \subseteq DOMAIN all
        /\ all.object_type = Text("routing_neighbor")
        /\ all.dst_ip = Ios!Group(line, "neighbor")
    BY <1>10 DEF PeerParsed, Ios!++
  <2> HIDE DEF all
  <2>3. /\ IsRecord(e, EventFields) /\ IsRecord(e.fields, ScalarKeys)
        /\ DOMAIN e.details \subseteq RoutingDetails
        /\ e.vendor_fields = Empty /\ e.extra = <<>>
    BY <1>10, <2>1 DEF Ios!EventWith, Empty, Ios!Empty, IsRecord, EventFields,
       Ios!ScalarKeys, ScalarKeys, Ios!SemanticKeys,
       SemanticKeys, Ios!ControlKeys, ControlKeys, PeerParsed
  <2>4. /\ e.fields["object_type"] = Text("routing_neighbor")
        /\ e.fields.dst_ip = Ios!Group(line, "neighbor")
    BY <2>1, <2>2 DEF Ios!EventWith, Ios!Lookup, Ios!ScalarKeys, Ios!SemanticKeys
  <2>5. IsRouting(e)
    BY <2>4, SaysWord, SmallLettersStay DEF IsRouting, RoutingObjects
  <2>6. e.fields.dst_ip = None \/ Meaningful(e.fields.dst_ip)
    <3>1. Ios!Group(line, "neighbor") = Routing!Group(line, "neighbor")
      BY DEF Ios!Group, Ios!Text, Routing!Group, Routing!Text
    <3> QED
      BY <2>4, <3>1, CapturedAddress
  <2> HIDE DEF e
  <2>7. PeerEvent(e)
    BY <2>3, <2>5, <2>6 DEF PeerEvent
  <2> QED
    BY <2>7 DEF e
<1> QED
  BY <1>7, <1>8, <1>9, <1>10

(***************************************************************************)
(* The routing log converter: its events say "routing" from the start.     *)
(***************************************************************************)
RoutingParsed(m, p) ==
  \/ ~p.done \/ "dst_ip" \notin DOMAIN p.scalars
  \/ /\ "dst_ip" \in DOMAIN p.scalars
     /\ p.scalars.dst_ip
          \in {Routing!Group(m, "neighbor"), Routing!Group(m, "next_hop")}
     /\ DOMAIN p.details \subseteq RoutingDetails
     /\ "type" \notin DOMAIN p.scalars

LEMMA RoutingPeer ==
  ASSUME NoneIsNoValue, NEW line, AddressesIn(line)
  PROVE  NoPeer(Routing!ConvertLog(line)) \/ PeerEvent(Routing!ConvertLog(line))
<1> DEFINE got == Routing!ParseMessage(line)
<1> USE DEF Routing!Done, Routing!Failed
<1>1. /\ RoutingParsed(line, Routing!ParseBgpNeighbor(line))
      /\ RoutingParsed(line, Routing!ParseBgpRoute(line))
  BY DEF RoutingParsed, Routing!ParseBgpNeighbor, Routing!ParseBgpRoute, Routing!Bgp,
     Routing!++, RoutingDetails
<1>2. RoutingParsed(line, Routing!ParseOspfAdjacency(line))
  BY DEF RoutingParsed, Routing!ParseOspfAdjacency, Routing!AdjacencyState,
     Routing!++, RoutingDetails, Routing!Texts
<1>3. RoutingParsed(line, Routing!ParseOspfRoute(line))
  BY DEF RoutingParsed, Routing!ParseOspfRoute, Routing!++, RoutingDetails,
     Routing!Texts
<1>4. RoutingParsed(line, Routing!ParseStaticRoute(line))
  <2> DEFINE scalars(a) ==
               Routing!++([action |-> Routing!Text(a),
                           object_name |-> Routing!Group(line, "prefix")],
                          Routing!StaticScalars)
  <2>1. \A a : "dst_ip" \notin DOMAIN scalars(a)
    BY DEF Routing!++, Routing!StaticScalars, Routing!Texts
  <2>2. \A a, d : RoutingParsed(line, Routing!Done(scalars(a), d))
    BY <2>1 DEF RoutingParsed
  <2>3. \A a : RoutingParsed(line, Routing!Failed(a))
    BY DEF RoutingParsed
  <2> HIDE DEF Routing!Done, Routing!Failed, scalars
  <2> QED
    BY <2>2, <2>3, Zenon DEF Routing!ParseStaticRoute, scalars
<1> HIDE DEF Routing!Failed, Routing!Done
<1>5. RoutingParsed(line, Routing!Failed(Routing!Empty))
  BY DEF RoutingParsed, Routing!Failed
<1>6. RoutingParsed(line, got)
  BY <1>1, <1>2, <1>3, <1>4, <1>5, ZenonT(60) DEF Routing!ParseMessage
<1> HIDE DEF got
<1> DEFINE e == Routing!ConvertLog(line)
           head == Routing!++(got.scalars, Routing!FromHeader(line))
           all == Routing!++(head, Routing!Base)
           device == [device |-> Routing!Text(line.device)]
           details == Routing!++(got.details, device)
<1>7. CASE ~line.header \/ ~got.done
  <2>1. PeerKeys \cap DOMAIN e.details = {}
    BY <1>7 DEF Routing!ConvertLog, Routing!EventWith, PeerKeys, Routing!Empty, got
  <2> QED
    BY <2>1 DEF NoPeer
<1>8. CASE line.header /\ got.done
  <2>1. e = Routing!EventWith(all, details, Routing!Empty)
    BY <1>8 DEF Routing!ConvertLog, got
  <2>2. CASE "dst_ip" \notin DOMAIN got.scalars
    <3>1. "dst_ip" \notin DOMAIN all
      BY <2>2 DEF Routing!++, Routing!FromHeader, Routing!Base, Routing!Texts
    <3> HIDE DEF all, details
    <3>2. e.fields.dst_ip = None
      BY <2>1, <3>1 DEF Routing!EventWith, Routing!Lookup, Routing!ScalarKeys,
         Routing!SemanticKeys
    <3> QED
      BY <3>2 DEF NoPeer
  <2>3. CASE "dst_ip" \in DOMAIN got.scalars
    <3>1. /\ got.scalars.dst_ip
                \in {Routing!Group(line, "neighbor"), Routing!Group(line, "next_hop")}
          /\ DOMAIN got.details \subseteq RoutingDetails
          /\ "type" \notin DOMAIN got.scalars
      BY <1>6, <1>8, <2>3 DEF RoutingParsed
    <3>2. /\ {"type", "dst_ip"} \subseteq DOMAIN all
          /\ all.type = Text("routing") /\ all.dst_ip = got.scalars.dst_ip
      BY <2>3, <3>1 DEF Routing!++, Routing!FromHeader, Routing!Base, Routing!Texts,
         Routing!Text, Text
    <3>3. DOMAIN details \subseteq RoutingDetails
      BY <3>1 DEF Routing!++, RoutingDetails
    <3> HIDE DEF all, details
    <3>4. /\ IsRecord(e, EventFields) /\ IsRecord(e.fields, ScalarKeys)
          /\ DOMAIN e.details \subseteq RoutingDetails
          /\ e.vendor_fields = Empty /\ e.extra = <<>>
      BY <2>1, <3>3 DEF Routing!EventWith, Empty, Routing!Empty, IsRecord,
         EventFields, Routing!ScalarKeys, ScalarKeys,
         Routing!SemanticKeys, SemanticKeys, Routing!ControlKeys, ControlKeys
    <3>5. /\ e.fields["type"] = Text("routing")
          /\ e.fields.dst_ip = got.scalars.dst_ip
      BY <2>1, <3>2 DEF Routing!EventWith, Routing!Lookup, Routing!ScalarKeys,
         Routing!SemanticKeys
    <3>6. IsRouting(e)
      BY <3>5, SaysWord, SmallLettersStay DEF IsRouting
    <3>7. e.fields.dst_ip = None \/ Meaningful(e.fields.dst_ip)
      BY <3>1, <3>5, CapturedAddress
    <3>8. PeerEvent(e)
      <4> HIDE DEF e
      <4> QED
        BY <3>4, <3>6, <3>7 DEF PeerEvent
    <3> QED
      BY <3>8
  <2> QED
    BY <2>2, <2>3
<1> QED
  BY <1>7, <1>8

-----------------------------------------------------------------------------
(***************************************************************************)
(* The mapper gives a routing event no endpoint, and keeps its destination *)
(* under its own name.                                                     *)
(***************************************************************************)
LEMMA RoutingAddressIsKept ==
  ASSUME NoneIsNoValue, SuffixesDiffer, RenamedIsUnknown,
         NEW legacy, IsDictionary(legacy), IsRouting(legacy), NEW status,
         "unmapped_fields" \notin DOMAIN legacy.details
  PROVE  LET common == MapLegacyEvent(legacy, status) IN
         /\ \A key \in EndpointKeys : common.slots[FieldSlot[key]] = None
         /\ Meaningful(legacy.fields.dst_ip) =>
              Lookup(UnmappedFields(common.details), "dst_ip") = legacy.fields.dst_ip
<1> DEFINE common == MapLegacyEvent(legacy, status)
           entries == Preserved(legacy)
           after == UnmappedFields(common.details)
<1>1. ASSUME NEW key \in EndpointKeys PROVE common.slots[FieldSlot[key]] = None
  <2>1. key \in ScalarKeys
    BY DEF EndpointKeys, ScalarKeys, SemanticKeys
  <2>2. FieldValue(legacy, key) = None
    BY DEF FieldValue, EndpointKeys, PortKeys
  <2> QED
    BY <2>1, <2>2, SlotOfField
<1>2. ASSUME Meaningful(legacy.fields.dst_ip)
      PROVE  Lookup(after, "dst_ip") = legacy.fields.dst_ip
  <2>1. PICK names : KeptAs(legacy, common.details, names)
    BY EntriesAreKept
  <2>2. Unplaced(legacy, "dst_ip") /\ "dst_ip" \in FailingKeys
    BY <1>2 DEF Unplaced, EndpointKeys, FailingKeys
  <2>3. FieldEntry(legacy, "dst_ip") \in ToSet(entries)
    BY <2>2, PreservedOnce DEF UnplacedKeys
  <2>4. PICK i \in DOMAIN entries : entries[i] = FieldEntry(legacy, "dst_ip")
    BY <2>3 DEF ToSet
  <2>5. entries[i][1] = "dst_ip" /\ entries[i][2] = legacy.fields["dst_ip"]
    BY <2>4 DEF FieldEntry
  <2>6. DOMAIN UnmappedFields(legacy.details) = {}
    BY DEF UnmappedFields, Lookup, Empty
  <2>7. "dst_ip" \in KnownNames
    BY <2>2, KnownKeys
  <2>8. names[i] = "dst_ip"
    BY <2>1, <2>5, <2>6, <2>7, KnownNameIsOwn
  <2>9. names[i] \in DOMAIN after /\ after[names[i]] = entries[i][2]
    BY <2>1 DEF KeptAs
  <2> HIDE DEF after, entries
  <2> QED
    BY <2>5, <2>8, <2>9 DEF Lookup
<1> HIDE DEF common
<1> QED
  BY <1>1, <1>2 DEF common

LEMMA RoutingDetailsFinite == IsFiniteSet(RoutingDetails)
<1> DEFINE A == {"neighbor_ip", "new_state", "process_id", "interface",
                 "previous_state"}
           B == {"autonomous_system", "prefix", "next_hop", "metric", "device"}
<1>1. IsFiniteSet(A) /\ IsFiniteSet(B)
  BY FewAreFinite
<1>2. RoutingDetails = A \cup B
  BY DEF RoutingDetails
<1> HIDE DEF A, B
<1> QED
  BY <1>1, <1>2, FS_Union

\* So does the normalization of the demonstration.
LEMMA PeerIsNoEndpoint ==
  ASSUME NoneIsNoValue, SuffixesDiffer, RenamedIsUnknown, NEW e, PeerEvent(e)
  PROVE  LET common == CommonEvent(e) IN
         /\ \A key \in EndpointKeys : common.slots[FieldSlot[key]] = None
         /\ e.fields.dst_ip # None =>
              Lookup(UnmappedFields(common.details), "dst_ip") = e.fields.dst_ip
<1> DEFINE legacy == [e EXCEPT !.fields.u_id = Text("u_id"),
                               !.fields.raw_id = Text("raw_id")]
<1>1. /\ IsRecord(legacy, EventFields) /\ IsRecord(legacy.fields, ScalarKeys)
      /\ legacy.details = e.details
      /\ legacy.vendor_fields = Empty /\ legacy.extra = <<>>
      /\ \A k \in SemanticKeys : legacy.fields[k] = e.fields[k]
  BY DEF PeerEvent, IsRecord, EventFields, ScalarKeys, SemanticKeys, ControlKeys
<1>2. CommonEvent(e) = MapLegacyEvent(legacy, "mapped")
  BY DEF CommonEvent
<1> HIDE DEF legacy
<1>3. IsRouting(legacy)
  <2>1. /\ legacy.fields["category"] = e.fields["category"]
        /\ legacy.fields["type"] = e.fields["type"]
        /\ legacy.fields["subtype"] = e.fields["subtype"]
        /\ legacy.fields["object_type"] = e.fields["object_type"]
    BY <1>1 DEF SemanticKeys
  <2> QED
    BY <2>1 DEF PeerEvent, IsRouting, Says
<1>4. "unmapped_fields" \notin DOMAIN legacy.details
  BY <1>1 DEF PeerEvent, RoutingDetails
<1>5. IsDictionary(legacy)
  <2>1. IsFiniteSet(DOMAIN legacy.details)
    BY <1>1, RoutingDetailsFinite, FS_Subset DEF PeerEvent
  <2>2. DOMAIN UnmappedFields(legacy.details) = {}
    BY <1>4 DEF UnmappedFields, Lookup, Empty
  <2>3. DOMAIN legacy.vendor_fields = {}
    BY <1>1 DEF Empty
  <2>4. IsList(legacy.extra) /\ DOMAIN legacy.extra = {}
    BY <1>1 DEF IsList, ToSet
  <2> QED
    BY <1>1, <2>1, <2>2, <2>3, <2>4, FS_EmptySet DEF IsDictionary
<1>6. legacy.fields.dst_ip = e.fields.dst_ip
  BY <1>1 DEF SemanticKeys
<1>7. e.fields.dst_ip # None => Meaningful(legacy.fields.dst_ip)
  BY <1>6 DEF PeerEvent
<1> QED
  BY <1>2, <1>3, <1>4, <1>5, <1>6, <1>7, RoutingAddressIsKept

\* What any converter makes of a log of its run is of one of these two kinds.
LEMMA PeerOrNot ==
  ASSUME NoneIsNoValue, NEW run \in Jobs, NEW i \in DOMAIN run.logs
  PROVE  LET e == Convert(run.converter, Logs[run.logs[i]])
         IN NoPeer(e) \/ PeerEvent(e)
<1> DEFINE c == run.converter
           log == Logs[run.logs[i]]
           Good(e) == NoPeer(e) \/ PeerEvent(e)
<1>1. c \in Converters /\ run.logs[i] \in DOMAIN Logs
  BY JobsAssumption
<1>2. AddressesIn(log)
  BY <1>1, AddressesAreWords DEF AddressesIn
<1>3. c = "demo" => log.source \in Sources
  BY SourcesAssumption
<1> HIDE DEF c, log
<1>4. /\ Good(Asa!ConvertLine(log))
      /\ Good(AsaVpn!ConvertLine(log))
      /\ Good(Ios!ConvertLine(log))
      /\ Good(IosSystem!ConvertLine(log))
      /\ Good(Routing!ConvertLog(log))
      /\ Good(FgTraffic!ConvertRow(log.cells))
      /\ Good(FgSystem!NormalizeLog(log.pairs))
      /\ Good(FgVpn!NormalizeLog(log.pairs))
      /\ Good(PaTraffic!NormalizeRow(log))
      /\ Good(PaVpn!NormalizeRow(log))
      /\ Good(PaRouter!NormalizeRow(log))
      /\ Good(PaSystem!NormalizeRow(log))
      /\ c = "demo" => Good(PrepareLine(log).event)
  BY <1>2, <1>3, AsaNoPeer, AsaVpnNoPeer, IosPeer, IosSystemNoPeer,
     RoutingPeer, FgTrafficNoPeer, FgSystemNoPeer, FgVpnNoPeer,
     PaTrafficNoPeer, PaVpnNoPeer, PaRouterNoPeer, PaSystemNoPeer,
     DemoNoPeer
<1> HIDE DEF Good
<1>5. c \in {"cisco.traffic", "cisco.vpn", "cisco.router", "cisco.system"} =>
        Good(Convert(c, log))
  BY <1>4 DEF Convert
<1>6. c \in {"fortigate.router", "fortigate.traffic", "fortigate.system",
             "fortigate.vpn"} =>
        Good(Convert(c, log))
  BY <1>4 DEF Convert
<1>7. c \in {"paloalto.traffic", "paloalto.vpn", "paloalto.router",
             "paloalto.system", "demo"} =>
        Good(Convert(c, log))
  BY <1>4 DEF Convert
<1>8. Good(Convert(c, log))
  BY <1>1, <1>5, <1>6, <1>7 DEF Converters, LineConverters, CiscoConverters,
     TableConverters, ListParsers, PanosParsers
<1> QED
  BY <1>8 DEF Good, c, log

(***************************************************************************)
(* The address of a routing peer or of a next hop never becomes an         *)
(* endpoint, and is not lost (_is_routing_event and the preservation of    *)
(* the endpoint fields in map_legacy_common_event, for what the converters *)
(* put into dst_ip).                                                       *)
(***************************************************************************)
THEOREM PeersAreNeverEndpoints ==
  ASSUME NoneIsNoValue, SuffixesDiffer, RenamedIsUnknown
  PROVE  Spec => []PeersAreNoEndpoints
<1>1. Inv /\ Converted => PeersAreNoEndpoints
  <2> SUFFICES ASSUME Inv, Converted, NEW k \in DOMAIN events,
                      events[k].event.fields.dst_ip # None,
                      events[k].event.fields.dst_ip
                        \in {Lookup(events[k].event.details, "neighbor_ip"),
                             Lookup(events[k].event.details, "next_hop")}
               PROVE  LET e == events[k].event
                          common == CommonEvent(e)
                      IN /\ \A key \in EndpointKeys :
                              common.slots[FieldSlot[key]] = None
                         /\ Lookup(UnmappedFields(common.details), "dst_ip")
                              = e.fields.dst_ip
    BY DEF PeersAreNoEndpoints
  <2> DEFINE e == events[k].event
  <2>1. PICK i \in 1 .. at : e = Convert(job.converter, Line(i))
    BY DEF Converted
  <2>2. job \in Jobs /\ i \in DOMAIN job.logs
    BY JobsAssumption DEF Inv, Shape
  <2>3. NoPeer(e) \/ PeerEvent(e)
    BY <2>1, <2>2, PeerOrNot DEF Line
  <2> HIDE DEF e
  <2>4. e.fields.dst_ip # None
          /\ e.fields.dst_ip \in {Lookup(e.details, "neighbor_ip"),
                                  Lookup(e.details, "next_hop")}
    BY DEF e
  <2>5. ~NoPeer(e)
    BY <2>4 DEF NoPeer, PeerKeys, Lookup
  <2> QED
    BY <2>3, <2>4, <2>5, PeerIsNoEndpoint DEF e
<1>2. Init => Inv /\ Converted
  BY InvInit, ConvertedInit
<1>3. Inv /\ Converted /\ [Next]_vars => Inv' /\ Converted'
  BY InvNext, ConvertedNext
<1> QED
  BY <1>1, <1>2, <1>3, PTL DEF Spec

-----------------------------------------------------------------------------
(***************************************************************************)
(* What a pattern captured, followed through the message parsers: each     *)
(* group is in a scalar or in a detail of the event.                       *)
(***************************************************************************)
ScalarTakes(m, got, k, g) ==
  g \in DOMAIN m.groups =>
    /\ k \in ScalarKeys \cap DOMAIN got.scalars
    /\ got.scalars[k] \in Images(m.groups[g])

DetailTakes(m, got, k, g) ==
  g \in DOMAIN m.groups =>
    k \in DOMAIN got.details /\ got.details[k] \in Images(m.groups[g])

\* of the reason, what follows its label and before its full stops is enough
ReasonTakes(m, got) ==
  "reason" \in Captures(m) =>
    /\ "reason" \in DOMAIN got.scalars
    /\ got.scalars.reason \in Forms(m, "reason")

\* the action that the event reports, which is not that of a line that did not parse
Acts(got, action) ==
  /\ "action" \in DOMAIN got.scalars
  /\ got.scalars.action = Text(action) /\ action # "unparsed"

\* a message parser that succeeds keeps each group, and says so in the action
Kept(m, got) ==
  /\ \E action : Acts(got, action)
  /\ \A g \in DOMAIN m.groups \ Verdicts :
       \/ \E k : ScalarTakes(m, got, k, g) \/ DetailTakes(m, got, k, g)
       \/ g = "reason" /\ ReasonTakes(m, got)

AllKept(m, got) == got = None \/ Kept(m, got)

\* the line has these groups at most, some of them with digits
Takes(m, groups, digits) ==
  /\ DOMAIN m.groups \subseteq groups
  /\ \A g \in digits \cap DOMAIN m.groups : m.groups[g] \in DOMAIN Numerals

\* the patterns for a state have one, and with its prefix it is the name of an action
StateNamed(m) ==
  m.forms \cap {"Interface", "Line-protocol", "neighbor", "EIGRP", "ISIS"} # {} =>
    /\ "state" \in DOMAIN m.groups
    /\ \A what \in {"interface_", "line_protocol_", "neighbor_", "adjacency_"} :
         what \o Lower(m.groups.state) # "unparsed"

\* A reason that is not empty is kept as it is by the parsers that look whether there is
\* one (if m.group("reason")), and what ends in full stops loses them in a reload.
LEMMA ReasonGroups ==
  ASSUME NEW m, "reason" \in Captures(m)
  PROVE  /\ Asa!GivenGroup(m, "reason") = Text(m.groups.reason)
         /\ Ios!GivenGroup(m, "reason") = Text(m.groups.reason)
         /\ Routing!GivenGroup(m, "reason") = Text(m.groups.reason)
         /\ "Reload" \in m.forms =>
              /\ Ios!UndottedGroup(m, "reason") \in Forms(m, "reason")
              /\ IosSystem!UndottedGroup(m, "reason") \in Forms(m, "reason")
<1>1. Asa!Blank = Blank /\ Ios!Blank = Blank /\ Routing!Blank = Blank
  BY Zenon DEF Asa!Blank, Ios!Blank, Routing!Blank, Blank, Asa!Text, Ios!Text,
     Routing!Text, Text
<1>2. "reason" \in DOMAIN m.groups /\ Text(m.groups.reason) # Blank
  BY DEF Captures
<1>3. /\ Asa!Group(m, "reason") = Text(m.groups.reason)
      /\ Ios!Group(m, "reason") = Text(m.groups.reason)
      /\ IosSystem!Group(m, "reason") = Text(m.groups.reason)
      /\ Routing!Group(m, "reason") = Text(m.groups.reason)
  BY <1>2 DEF Asa!Group, Ios!Group, IosSystem!Group, Routing!Group, Asa!Text, Ios!Text,
     IosSystem!Text, Routing!Text, Text
<1>4. /\ Asa!GivenGroup(m, "reason") = Text(m.groups.reason)
      /\ Ios!GivenGroup(m, "reason") = Text(m.groups.reason)
      /\ Routing!GivenGroup(m, "reason") = Text(m.groups.reason)
  BY <1>1, <1>2, <1>3 DEF Asa!GivenGroup, Ios!GivenGroup, Routing!GivenGroup
<1>5. ASSUME "Reload" \in m.forms
      PROVE  /\ Ios!UndottedGroup(m, "reason") \in Forms(m, "reason")
             /\ IosSystem!UndottedGroup(m, "reason") \in Forms(m, "reason")
  <2>1. CASE m.groups.reason \in DOMAIN Undotted
    <3>1. /\ Ios!UndottedGroup(m, "reason") = Text(Undotted[m.groups.reason])
          /\ IosSystem!UndottedGroup(m, "reason") = Text(Undotted[m.groups.reason])
      BY <1>2, <2>1 DEF Ios!UndottedGroup, IosSystem!UndottedGroup, Ios!Text,
         IosSystem!Text, Text
    <3> QED
      BY <1>5, <2>1, <3>1 DEF Forms, IsDotted
  <2>2. CASE m.groups.reason \notin DOMAIN Undotted
    <3>1. /\ Ios!UndottedGroup(m, "reason") = Text(m.groups.reason)
          /\ IosSystem!UndottedGroup(m, "reason") = Text(m.groups.reason)
      BY <1>3, <2>2 DEF Ios!UndottedGroup, IosSystem!UndottedGroup
    <3> QED
      BY <3>1 DEF Forms, Images
  <2> QED
    BY <2>1, <2>2
<1> QED
  BY <1>4, <1>5

\* The reason of an OSPF adjacency is kept from its label on, or whole.
LEMMA AdjacencyReasons ==
  ASSUME NEW m, "Process" \in m.forms, "reason" \in Captures(m)
  PROVE  /\ job.converter # "fortigate.router" =>
              Ios!AdjacencyReason(m) \in Forms(m, "reason")
         /\ Routing!CleanedReason(m) \in Forms(m, "reason")
<1> DEFINE t == m.groups.reason
<1>1. "reason" \in DOMAIN m.groups
  BY DEF Captures
<1>2. Text(t) \in Forms(m, "reason")
  BY DEF Forms, Images
<1>3. /\ Ios!ReasonAfterColon(m) = Text(ColonParts[t][2])
      /\ Routing!ReasonAfterColon(m) = Text(ColonParts[t][2])
  BY DEF Ios!ReasonAfterColon, Routing!ReasonAfterColon, Ios!Text, Routing!Text, Text
<1>4. IsLabelled(m, "reason") => Text(ColonParts[t][2]) \in Forms(m, "reason")
  BY DEF Forms
<1>5. job.converter # "fortigate.router" =>
        Ios!AdjacencyReason(m) \in Forms(m, "reason")
  <2>1. CASE t \in DOMAIN ColonParts
    BY <1>1, <1>3, <1>4, <2>1 DEF Ios!AdjacencyReason, IsLabelled
  <2>2. CASE t \notin DOMAIN ColonParts
    BY <1>2, <2>2, ReasonGroups DEF Ios!AdjacencyReason
  <2> QED
    BY <2>1, <2>2
<1>6. Routing!CleanedReason(m) \in Forms(m, "reason")
  <2> DEFINE short == /\ t \in DOMAIN ColonParts
                      /\ Lower(ColonParts[t][1]) = Routing!NeighborDown
  <2>1. CASE short
    <3>1. Routing!CleanedReason(m) = Text(ColonParts[t][2])
      BY <1>1, <1>3, <2>1 DEF Routing!CleanedReason, Routing!Lower, Lower
    <3> QED
      BY <1>4, <2>1, <3>1 DEF IsLabelled
  <2>2. CASE ~short
    <3>1. Routing!CleanedReason(m) = Routing!GivenGroup(m, "reason")
      BY <2>2 DEF Routing!CleanedReason, Routing!Lower, Lower
    <3> QED
      BY <1>2, <3>1, ReasonGroups
  <2> QED
    BY <2>1, <2>2
<1> QED
  BY <1>5, <1>6

\* The ASA traffic messages: a connection, a translation, a denied packet.
LEMMA AsaKeepsCaptures ==
  ASSUME NoneIsNoValue, NEW m, Asa!Captured(m, Asa!Patterns)
  PROVE  AllKept(m, Asa!ParseMessage(m))
<1> USE DEF Asa!Text, Text, Asa!Number, Number, Asa!Upper, Upper, Asa!Lower,
            Lower, Asa!Group, Asa!UpperGroup, Asa!LowerGroup, Asa!IntGroup,
            Asa!Match, Asa!Parsed, Asa!Texts, Asa!++, Images, ScalarKeys,
            SemanticKeys
<1>1. AllKept(m, Asa!ParseConnectionStart(m))
  <2> DEFINE got == Asa!ParseConnectionStart(m)
             Scalar(k, g) == ScalarTakes(m, got, k, g)
             Detail(k, g) == DetailTakes(m, got, k, g)
  <2> SUFFICES ASSUME "Built-connection" \in m.forms PROVE AllKept(m, got)
    BY DEF AllKept, Asa!ParseConnectionStart
  <2>1. Takes(m, {"first_ip", "first_port", "second_ip", "second_port",
                  "protocol", "first_interface", "second_interface",
                  "connection_id", "direction"}, {"first_port", "second_port"})
    BY DEF Takes, Asa!Captured, Asa!Patterns, Asa!Pattern
  <2>2. /\ Acts(got, "connection_built") /\ Scalar("src_ip", "first_ip")
        /\ Scalar("src_port", "first_port") /\ Scalar("dst_ip", "second_ip")
        /\ Scalar("dst_port", "second_port") /\ Scalar("protocol", "protocol")
        /\ Detail("source_interface", "first_interface")
        /\ Detail("destination_interface", "second_interface")
        /\ Detail("connection_id", "connection_id")
        /\ Detail("direction", "direction")
    BY <2>1 DEF Takes, Acts, ScalarTakes, DetailTakes,
       Asa!ParseConnectionStart, Asa!Session, Asa!Addresses, Asa!Interfaces,
       Asa!First, Asa!Second
  <2> HIDE DEF got
  <2> QED
    BY <2>1, <2>2 DEF Takes, AllKept, Kept
<1>2. AllKept(m, Asa!ParseConnectionEnd(m))
  <2> DEFINE got == Asa!ParseConnectionEnd(m)
             Scalar(k, g) == ScalarTakes(m, got, k, g)
             Detail(k, g) == DetailTakes(m, got, k, g)
  <2> SUFFICES ASSUME "Teardown-connection" \in m.forms PROVE AllKept(m, got)
    BY DEF AllKept, Asa!ParseConnectionEnd
  <2>1. Takes(m, {"second_ip", "second_port", "first_ip", "first_port",
                  "protocol", "reason", "second_interface", "first_interface",
                  "connection_id", "duration", "bytes"},
                 {"first_port", "second_port", "bytes"})
    BY DEF Takes, Asa!Captured, Asa!Patterns, Asa!Pattern
  <2>2. /\ Acts(got, "connection_teardown") /\ Scalar("src_ip", "second_ip")
        /\ Scalar("src_port", "second_port") /\ Scalar("dst_ip", "first_ip")
        /\ Scalar("dst_port", "first_port") /\ Scalar("protocol", "protocol")
        /\ Detail("source_interface", "second_interface")
        /\ Detail("destination_interface", "first_interface")
        /\ Detail("connection_id", "connection_id")
        /\ Detail("duration", "duration") /\ Detail("bytes", "bytes")
    BY <2>1, NoneIsNoValue DEF Takes, Acts, ScalarTakes, DetailTakes,
       Asa!ParseConnectionEnd, Asa!Session, Asa!Addresses, Asa!Interfaces,
       Asa!First, Asa!Second, Asa!Present, NoneIsNoValue
  <2>3. /\ "reason" \in DOMAIN got.scalars
        /\ got.scalars.reason = Asa!GivenGroup(m, "reason")
    BY DEF Asa!ParseConnectionEnd, Asa!Session, Asa!Addresses
  <2>4. ReasonTakes(m, got)
    BY <2>3, ReasonGroups DEF ReasonTakes, Forms
  <2> HIDE DEF got
  <2> QED
    BY <2>1, <2>2, <2>4 DEF Takes, AllKept, Kept
<1>3. AllKept(m, Asa!ParseAclDeny(m))
  <2> DEFINE got == Asa!ParseAclDeny(m)
             Scalar(k, g) == ScalarTakes(m, got, k, g)
             Detail(k, g) == DetailTakes(m, got, k, g)
  <2> SUFFICES ASSUME "Deny" \in m.forms PROVE AllKept(m, got)
    BY DEF AllKept, Asa!ParseAclDeny
  <2>1. Takes(m, {"first_ip", "first_port", "second_ip", "second_port",
                  "protocol", "acl", "first_interface", "second_interface"},
                 {"first_port", "second_port"})
    BY DEF Takes, Asa!Captured, Asa!Patterns, Asa!Pattern
  <2>2. /\ Acts(got, "deny") /\ Scalar("src_ip", "first_ip")
        /\ Scalar("src_port", "first_port") /\ Scalar("dst_ip", "second_ip")
        /\ Scalar("dst_port", "second_port") /\ Scalar("protocol", "protocol")
        /\ Scalar("object_name", "acl")
        /\ Detail("source_interface", "first_interface")
        /\ Detail("destination_interface", "second_interface")
    BY <2>1 DEF Takes, Acts, ScalarTakes, DetailTakes, Asa!ParseAclDeny,
       Asa!Decision, Asa!Addresses, Asa!Interfaces, Asa!First, Asa!Second
  <2> HIDE DEF got
  <2> QED
    BY <2>1, <2>2 DEF Takes, AllKept, Kept
<1>4. AllKept(m, Asa!ParseAcl106100(m))
  <2> DEFINE got == Asa!ParseAcl106100(m)
             Scalar(k, g) == ScalarTakes(m, got, k, g)
             Detail(k, g) == DetailTakes(m, got, k, g)
  <2> SUFFICES ASSUME "access-list" \in m.forms PROVE AllKept(m, got)
    BY DEF AllKept, Asa!ParseAcl106100
  <2>1. Takes(m, {"first_ip", "first_port", "second_ip", "second_port",
                  "protocol", "acl", "first_interface", "second_interface",
                  "decision"}, {"first_port", "second_port"})
    BY DEF Takes, Asa!Captured, Asa!Patterns, Asa!Pattern
  <2>2. /\ Acts(got, "allow") \/ Acts(got, "deny")
        /\ Scalar("src_ip", "first_ip") /\ Scalar("src_port", "first_port")
        /\ Scalar("dst_ip", "second_ip") /\ Scalar("dst_port", "second_port")
        /\ Scalar("protocol", "protocol") /\ Scalar("object_name", "acl")
        /\ Detail("source_interface", "first_interface")
        /\ Detail("destination_interface", "second_interface")
    BY <2>1 DEF Takes, Acts, ScalarTakes, DetailTakes, Asa!ParseAcl106100,
       Asa!Decision, Asa!Addresses, Asa!Interfaces, Asa!First, Asa!Second
  <2> HIDE DEF got
  <2> QED
    BY <2>1, <2>2 DEF Takes, AllKept, Kept, Verdicts
<1>5. AllKept(m, Asa!ParseNat(m))
  <2> DEFINE got == Asa!ParseNat(m)
             Scalar(k, g) == ScalarTakes(m, got, k, g)
             Detail(k, g) == DetailTakes(m, got, k, g)
             found == [nat_type |-> Asa!LowerGroup(m, "nat_type"),
               source_interface |-> Asa!Group(m, "first_interface"),
               translated_interface |-> Asa!Group(m, "second_interface"),
               translated_ip |-> Asa!Group(m, "translated_ip"),
               translated_port |-> Asa!IntGroup(m, "translated_port"),
               duration |-> Asa!Group(m, "duration")]
  <2> SUFFICES ASSUME \/ "Built-translation" \in m.forms
                      \/ "Teardown-translation" \in m.forms
               PROVE  AllKept(m, got)
    BY DEF AllKept, Asa!ParseNat
  <2>1. Takes(m, {"nat_type", "protocol", "first_interface", "first_ip",
                  "first_port", "second_interface", "translated_ip",
                  "translated_port", "duration"}, {"first_port", "translated_port"})
    BY DEF Takes, Asa!Captured, Asa!Patterns, Asa!Pattern
  <2>2. /\ Acts(got, "translation_built") \/ Acts(got, "translation_teardown")
        /\ Scalar("src_ip", "first_ip") /\ Scalar("src_port", "first_port")
        /\ Scalar("protocol", "protocol")
    BY <2>1 DEF Takes, Acts, ScalarTakes, Asa!ParseNat, Asa!Translation
  <2>3. got.details = Asa!Present(found)
    BY DEF Asa!ParseNat, Asa!Translation
  <2>4. \A k \in DOMAIN found : found[k] # None =>
          k \in DOMAIN got.details /\ got.details[k] = found[k]
    <3> HIDE DEF got, found
    <3> QED
      BY <2>3 DEF Asa!Present
  <2> HIDE DEF got
  <2>5. /\ Detail("nat_type", "nat_type") /\ Detail("duration", "duration")
        /\ Detail("source_interface", "first_interface")
        /\ Detail("translated_interface", "second_interface")
        /\ Detail("translated_ip", "translated_ip")
        /\ Detail("translated_port", "translated_port")
    BY <2>1, <2>4, NoneIsNoValue DEF Takes, DetailTakes, NoneIsNoValue
  <2> QED
    BY <2>1, <2>2, <2>5 DEF Takes, AllKept, Kept
<1>6. ASSUME NEW start PROVE AllKept(m, Asa!ParseIcmp(m, start))
  <2> DEFINE got == Asa!ParseIcmp(m, start)
             Scalar(k, g) == ScalarTakes(m, got, k, g)
             Detail(k, g) == DetailTakes(m, got, k, g)
  <2> SUFFICES ASSUME "ICMP-connection" \in m.forms PROVE AllKept(m, got)
    BY DEF AllKept, Asa!ParseIcmp
  <2>1. Takes(m, {"local_ip", "foreign_ip", "global_ip", "direction"}, {})
    BY DEF Takes, Asa!Captured, Asa!Patterns, Asa!Pattern
  <2>2. /\ Acts(got, "connection_built") \/ Acts(got, "connection_teardown")
        /\ Scalar("src_ip", "local_ip") /\ Scalar("dst_ip", "foreign_ip")
        /\ Detail("global_ip", "global_ip") /\ Detail("direction", "direction")
    BY <2>1 DEF Takes, Acts, ScalarTakes, DetailTakes, Asa!ParseIcmp,
       Asa!StartOrEnd, Asa!Session
  <2> HIDE DEF got
  <2> QED
    BY <2>1, <2>2 DEF Takes, AllKept, Kept
<1>7. ASSUME NEW start PROVE AllKept(m, Asa!ParseGre(m, start))
  <2> DEFINE got == Asa!ParseGre(m, start)
             Scalar(k, g) == ScalarTakes(m, got, k, g)
             Detail(k, g) == DetailTakes(m, got, k, g)
  <2> SUFFICES ASSUME "GRE-connection" \in m.forms PROVE AllKept(m, got)
    BY DEF AllKept, Asa!ParseGre
  <2>1. Takes(m, {"first_ip", "second_ip", "first_interface",
                  "second_interface", "direction", "duration"}, {})
    BY DEF Takes, Asa!Captured, Asa!Patterns, Asa!Pattern
  <2>2. /\ Acts(got, "connection_built") \/ Acts(got, "connection_teardown")
        /\ Scalar("src_ip", "first_ip") /\ Scalar("dst_ip", "second_ip")
        /\ Detail("source_interface", "first_interface")
        /\ Detail("destination_interface", "second_interface")
        /\ Detail("direction", "direction") /\ Detail("duration", "duration")
    BY <2>1, NoneIsNoValue DEF Takes, Acts, ScalarTakes, DetailTakes,
       Asa!ParseGre, Asa!StartOrEnd, Asa!Session, Asa!Interfaces, Asa!First,
       Asa!Second, Asa!Present, NoneIsNoValue
  <2> HIDE DEF got
  <2> QED
    BY <2>1, <2>2 DEF Takes, AllKept, Kept
<1> HIDE DEF Asa!Text, Text, Asa!Match
<1>8. AllKept(m, None)
  BY DEF AllKept
<1> QED
  BY <1>1, <1>2, <1>3, <1>4, <1>5, <1>6, <1>7, <1>8 DEF Asa!ParseMessage

\* The ASA VPN messages, of which some share a pattern.
LEMMA AsaVpnKeepsCaptures ==
  ASSUME NoneIsNoValue, NEW m, AsaVpn!Captured(m, AsaVpn!Patterns(m))
  PROVE  AllKept(m, AsaVpn!ParseMessage(m))
<1> USE DEF AsaVpn!Text, Text, AsaVpn!Number, Number, AsaVpn!Upper, Upper,
            AsaVpn!Lower, Lower, AsaVpn!Group, AsaVpn!UpperGroup,
            AsaVpn!LowerGroup, AsaVpn!IntGroup, AsaVpn!Match, AsaVpn!Parsed,
            AsaVpn!Texts, AsaVpn!++, Images, ScalarKeys, SemanticKeys
<1>1. m.event_id = "716001" => AllKept(m, AsaVpn!Parse716001(m))
  <2> DEFINE got == AsaVpn!Parse716001(m)
             Scalar(k, g) == ScalarTakes(m, got, k, g)
             Detail(k, g) == DetailTakes(m, got, k, g)
  <2> SUFFICES ASSUME m.event_id = "716001", "group-user-ip" \in m.forms
               PROVE  AllKept(m, got)
    BY DEF AllKept, AsaVpn!Parse716001
  <2>1. Takes(m, {"user", "ip", "group"}, {})
    BY DEF Takes, AsaVpn!Captured, AsaVpn!Patterns, AsaVpn!Pattern
  <2>2. /\ Acts(got, "login_success") /\ Scalar("user", "user")
        /\ Scalar("src_ip", "ip") /\ Detail("group", "group")
    BY <2>1 DEF Takes, Acts, ScalarTakes, DetailTakes, AsaVpn!Parse716001,
       AsaVpn!OfUser, AsaVpn!WebVpn
  <2> HIDE DEF got
  <2> QED
    BY <2>1, <2>2 DEF Takes, AllKept, Kept
<1>2. m.event_id = "716002" => AllKept(m, AsaVpn!Parse716002(m))
  <2> DEFINE got == AsaVpn!Parse716002(m)
             Scalar(k, g) == ScalarTakes(m, got, k, g)
             Detail(k, g) == DetailTakes(m, got, k, g)
  <2> SUFFICES ASSUME m.event_id = "716002", "group-user-ip" \in m.forms
               PROVE  AllKept(m, got)
    BY DEF AllKept, AsaVpn!Parse716002
  <2>1. Takes(m, {"user", "ip", "group"}, {})
    BY DEF Takes, AsaVpn!Captured, AsaVpn!Patterns, AsaVpn!Pattern
  <2>2. /\ Acts(got, "logout") /\ Scalar("user", "user")
        /\ Scalar("src_ip", "ip") /\ Detail("group", "group")
    BY <2>1 DEF Takes, Acts, ScalarTakes, DetailTakes, AsaVpn!Parse716002,
       AsaVpn!OfUser, AsaVpn!WebVpn
  <2> HIDE DEF got
  <2> QED
    BY <2>1, <2>2 DEF Takes, AllKept, Kept
<1>3. AllKept(m, AsaVpn!Parse722051(m))
  <2> DEFINE got == AsaVpn!Parse722051(m)
             Scalar(k, g) == ScalarTakes(m, got, k, g)
             Detail(k, g) == DetailTakes(m, got, k, g)
  <2> SUFFICES ASSUME "address-assigned" \in m.forms PROVE AllKept(m, got)
    BY DEF AllKept, AsaVpn!Parse722051
  <2>1. Takes(m, {"user", "ip", "group", "assigned_ip", "ipv6"}, {})
    BY DEF Takes, AsaVpn!Captured, AsaVpn!Patterns, AsaVpn!Pattern
  <2>2. /\ Acts(got, "address_assigned") /\ Scalar("user", "user")
        /\ Scalar("src_ip", "ip") /\ Detail("group", "group")
        /\ Detail("assigned_ipv4", "assigned_ip")
        /\ Detail("assigned_ipv6", "ipv6")
    BY <2>1 DEF Takes, Acts, ScalarTakes, DetailTakes, AsaVpn!Parse722051,
       AsaVpn!OfUser
  <2> HIDE DEF got
  <2> QED
    BY <2>1, <2>2 DEF Takes, AllKept, Kept
<1>4. AllKept(m, AsaVpn!Parse113019(m))
  <2> DEFINE got == AsaVpn!Parse113019(m)
             Scalar(k, g) == ScalarTakes(m, got, k, g)
             Detail(k, g) == DetailTakes(m, got, k, g)
  <2> SUFFICES ASSUME "session-disconnected" \in m.forms PROVE AllKept(m, got)
    BY DEF AllKept, AsaVpn!Parse113019
  <2>1. Takes(m, {"user", "ip", "reason", "group", "session_type", "duration",
                  "bytes_sent", "bytes_received"}, {"bytes_sent", "bytes_received"})
    BY DEF Takes, AsaVpn!Captured, AsaVpn!Patterns, AsaVpn!Pattern
  <2>2. /\ Acts(got, "session_disconnected") /\ Scalar("user", "user")
        /\ Scalar("src_ip", "ip") /\ Scalar("reason", "reason")
        /\ Detail("group", "group") /\ Detail("session_type", "session_type")
        /\ Detail("duration", "duration") /\ Detail("bytes_sent", "bytes_sent")
        /\ Detail("bytes_received", "bytes_received")
    BY <2>1 DEF Takes, Acts, ScalarTakes, DetailTakes, AsaVpn!Parse113019,
       AsaVpn!OfUser
  <2> HIDE DEF got
  <2> QED
    BY <2>1, <2>2 DEF Takes, AllKept, Kept
<1>5. AllKept(m, AsaVpn!Parse725003(m))
  <2> DEFINE got == AsaVpn!Parse725003(m)
             Scalar(k, g) == ScalarTakes(m, got, k, g)
             Detail(k, g) == DetailTakes(m, got, k, g)
  <2> SUFFICES ASSUME "resume-session" \in m.forms PROVE AllKept(m, got)
    BY DEF AllKept, AsaVpn!Parse725003
  <2>1. Takes(m, {"src_ip", "src_port", "interface"}, {"src_port"})
    BY DEF Takes, AsaVpn!Captured, AsaVpn!Patterns, AsaVpn!Pattern
  <2>2. /\ Acts(got, "resume_session") /\ Scalar("src_ip", "src_ip")
        /\ Scalar("src_port", "src_port") /\ Detail("interface", "interface")
    BY <2>1 DEF Takes, Acts, ScalarTakes, DetailTakes, AsaVpn!Parse725003
  <2> HIDE DEF got
  <2> QED
    BY <2>1, <2>2 DEF Takes, AllKept, Kept
<1>6. AllKept(m, AsaVpn!Parse722050(m))
  <2> DEFINE got == AsaVpn!Parse722050(m)
             Scalar(k, g) == ScalarTakes(m, got, k, g)
             Detail(k, g) == DetailTakes(m, got, k, g)
  <2> SUFFICES ASSUME "group-user-ip" \in m.forms PROVE AllKept(m, got)
    BY DEF AllKept, AsaVpn!Parse722050
  <2>1. Takes(m, {"user", "ip", "reason", "group"}, {})
    BY DEF Takes, AsaVpn!Captured, AsaVpn!Patterns, AsaVpn!Pattern
  <2>2. /\ Acts(got, "session_terminated") /\ Scalar("user", "user")
        /\ Scalar("src_ip", "ip") /\ Scalar("reason", "reason")
        /\ Detail("group", "group")
    BY <2>1 DEF Takes, Acts, ScalarTakes, DetailTakes, AsaVpn!Parse722050,
       AsaVpn!OfUser
  <2> HIDE DEF got
  <2> QED
    BY <2>1, <2>2 DEF Takes, AllKept, Kept
<1>7. m.event_id = "722053" => AllKept(m, AsaVpn!Parse722053(m))
  <2> DEFINE got == AsaVpn!Parse722053(m)
             Scalar(k, g) == ScalarTakes(m, got, k, g)
             Detail(k, g) == DetailTakes(m, got, k, g)
  <2> SUFFICES ASSUME m.event_id = "722053", "group-user-ip" \in m.forms
               PROVE  AllKept(m, got)
    BY DEF AllKept, AsaVpn!Parse722053
  <2>1. Takes(m, {"user", "ip", "group"}, {})
    BY DEF Takes, AsaVpn!Captured, AsaVpn!Patterns, AsaVpn!Pattern
  <2>2. /\ Acts(got, "unsupported_client") /\ Scalar("user", "user")
        /\ Scalar("src_ip", "ip") /\ Detail("group", "group")
    BY <2>1 DEF Takes, Acts, ScalarTakes, DetailTakes, AsaVpn!Parse722053,
       AsaVpn!OfUser
  <2> HIDE DEF got
  <2> QED
    BY <2>1, <2>2 DEF Takes, AllKept, Kept
<1>8. AllKept(m, AsaVpn!Parse746012(m))
  <2> DEFINE got == AsaVpn!Parse746012(m)
             Scalar(k, g) == ScalarTakes(m, got, k, g)
             Detail(k, g) == DetailTakes(m, got, k, g)
  <2> SUFFICES ASSUME "add-mapping" \in m.forms PROVE AllKept(m, got)
    BY DEF AllKept, AsaVpn!Parse746012
  <2>1. Takes(m, {"user", "ip", "result"}, {})
    BY DEF Takes, AsaVpn!Captured, AsaVpn!Patterns, AsaVpn!Pattern
  <2>2. /\ Acts(got, "ip_user_mapping_added") \/ Acts(got, "ip_user_mapping_failed")
        /\ Scalar("user", "user") /\ Detail("assigned_ip", "ip")
    BY <2>1 DEF Takes, Acts, ScalarTakes, DetailTakes, AsaVpn!Parse746012,
       AsaVpn!Chose, AsaVpn!Outcome
  <2> HIDE DEF got
  <2> QED
    BY <2>1, <2>2 DEF Takes, AllKept, Kept, Verdicts
<1> HIDE DEF AsaVpn!Text, Text, AsaVpn!Match
<1>9. AllKept(m, None)
  BY DEF AllKept
<1> QED
  BY <1>1, <1>2, <1>3, <1>4, <1>5, <1>6, <1>7, <1>8, <1>9 DEF AsaVpn!ParseMessage

\* The IOS system messages.
LEMMA IosSystemKeepsCaptures ==
  ASSUME NoneIsNoValue, NEW m, IosSystem!Captured(m, IosSystem!Patterns)
  PROVE  AllKept(m, IosSystem!ParseMessage(m))
<1> USE DEF IosSystem!Text, Text, IosSystem!Number, Number, IosSystem!Upper,
            Upper, IosSystem!Lower, Lower, IosSystem!Group,
            IosSystem!UpperGroup, IosSystem!LowerGroup, IosSystem!IntGroup,
            IosSystem!Match, IosSystem!Parsed, IosSystem!Texts, IosSystem!++,
            Images, ScalarKeys, SemanticKeys
<1>1. AllKept(m, IosSystem!ParseReload(m))
  <2> DEFINE got == IosSystem!ParseReload(m)
             Scalar(k, g) == ScalarTakes(m, got, k, g)
             Detail(k, g) == DetailTakes(m, got, k, g)
  <2> SUFFICES ASSUME "Reload" \in m.forms PROVE AllKept(m, got)
    BY DEF AllKept, IosSystem!ParseReload
  <2>1. Takes(m, {"user", "reason", "source"}, {})
    BY DEF Takes, IosSystem!Captured, IosSystem!Patterns, IosSystem!Pattern
  <2>2. /\ Acts(got, "device_reload") /\ Scalar("user", "user")
        /\ Detail("request_source", "source")
    BY <2>1 DEF Takes, Acts, ScalarTakes, DetailTakes, IosSystem!ParseReload,
       IosSystem!What
  <2>3. /\ "reason" \in DOMAIN got.scalars
        /\ got.scalars.reason = IosSystem!UndottedGroup(m, "reason")
    BY DEF IosSystem!ParseReload, IosSystem!What
  <2>4. ReasonTakes(m, got)
    BY <2>3, ReasonGroups DEF ReasonTakes
  <2> HIDE DEF got
  <2> QED
    BY <2>1, <2>2, <2>4 DEF Takes, AllKept, Kept
<1>2. AllKept(m, IosSystem!ParseRestart(m))
  <2> DEFINE got == IosSystem!ParseRestart(m)
             Detail(k, g) == DetailTakes(m, got, k, g)
  <2> SUFFICES ASSUME "System-restarted" \in m.forms PROVE AllKept(m, got)
    BY DEF AllKept, IosSystem!ParseRestart
  <2>1. Takes(m, {"software"}, {})
    BY DEF Takes, IosSystem!Captured, IosSystem!Patterns, IosSystem!Pattern
  <2>2. /\ Acts(got, "system_restarted") /\ Detail("software", "software")
    BY <2>1 DEF Takes, Acts, DetailTakes, IosSystem!ParseRestart,
       IosSystem!What
  <2> HIDE DEF got
  <2> QED
    BY <2>1, <2>2 DEF Takes, AllKept, Kept
<1>3. AllKept(m, IosSystem!ParseCpuhog(m))
  <2> DEFINE got == IosSystem!ParseCpuhog(m)
             Scalar(k, g) == ScalarTakes(m, got, k, g)
             Detail(k, g) == DetailTakes(m, got, k, g)
  <2> SUFFICES ASSUME "Task" \in m.forms PROVE AllKept(m, got)
    BY DEF AllKept, IosSystem!ParseCpuhog
  <2>1. Takes(m, {"process", "msec"}, {"msec"})
    BY DEF Takes, IosSystem!Captured, IosSystem!Patterns, IosSystem!Pattern
  <2>2. /\ Acts(got, "cpu_hog_detected") /\ Scalar("object_name", "process")
        /\ Detail("runtime_ms", "msec")
    BY <2>1 DEF Takes, Acts, ScalarTakes, DetailTakes, IosSystem!ParseCpuhog,
       IosSystem!What, IosSystem!Named
  <2> HIDE DEF got
  <2> QED
    BY <2>1, <2>2 DEF Takes, AllKept, Kept
<1>4. AllKept(m, IosSystem!ParseMallocfail(m))
  <2> DEFINE got == IosSystem!ParseMallocfail(m)
             Detail(k, g) == DetailTakes(m, got, k, g)
  <2> SUFFICES ASSUME "Memory-allocation" \in m.forms PROVE AllKept(m, got)
    BY DEF AllKept, IosSystem!ParseMallocfail
  <2>1. Takes(m, {"bytes", "address", "alignment"}, {"bytes", "alignment"})
    BY DEF Takes, IosSystem!Captured, IosSystem!Patterns, IosSystem!Pattern
  <2>2. /\ Acts(got, "memory_allocation_failed")
        /\ Detail("requested_bytes", "bytes") /\ Detail("address", "address")
        /\ Detail("alignment", "alignment")
    BY <2>1, NoneIsNoValue DEF Takes, Acts, DetailTakes,
       IosSystem!ParseMallocfail, IosSystem!What, IosSystem!Present,
       NoneIsNoValue
  <2> HIDE DEF got
  <2> QED
    BY <2>1, <2>2 DEF Takes, AllKept, Kept
\* the six parsers for a part that failed
<1>5. ASSUME NEW form, NEW subtype, NEW action, NEW object, NEW name,
             action # "unparsed", form \in m.forms => DOMAIN m.groups \subseteq {name}
      PROVE  AllKept(m, IosSystem!Broken(m, form, subtype, action, object, name))
  <2> DEFINE got == IosSystem!Broken(m, form, subtype, action, object, name)
  <2> SUFFICES ASSUME form \in m.forms PROVE AllKept(m, got)
    BY DEF AllKept, IosSystem!Broken
  <2>1. Acts(got, action) /\ ScalarTakes(m, got, "object_name", name)
    BY <1>5 DEF Acts, ScalarTakes, IosSystem!Broken, IosSystem!What, IosSystem!Named
  <2> HIDE DEF got
  <2> QED
    BY <1>5, <2>1 DEF AllKept, Kept
<1>6. AllKept(m, IosSystem!ParsePowerFailure(m))
  <2>1. "Power-supply" \in m.forms => DOMAIN m.groups \subseteq {"id"}
    BY DEF IosSystem!Captured, IosSystem!Patterns, IosSystem!Pattern
  <2> QED
    BY <1>5, <2>1 DEF IosSystem!ParsePowerFailure
<1>7. AllKept(m, IosSystem!ParseFanFailure(m))
  <2>1. "Fan" \in m.forms => DOMAIN m.groups \subseteq {"id"}
    BY DEF IosSystem!Captured, IosSystem!Patterns, IosSystem!Pattern
  <2> QED
    BY <1>5, <2>1 DEF IosSystem!ParseFanFailure
<1>8. AllKept(m, IosSystem!ParseTemperature(m))
  <2>1. "Temperature" \in m.forms => DOMAIN m.groups \subseteq {"id"}
    BY DEF IosSystem!Captured, IosSystem!Patterns, IosSystem!Pattern
  <2> QED
    BY <1>5, <2>1 DEF IosSystem!ParseTemperature
<1>9. AllKept(m, IosSystem!ParseCrash(m))
  <2>1. "Process-crashed" \in m.forms => DOMAIN m.groups \subseteq {"process"}
    BY DEF IosSystem!Captured, IosSystem!Patterns, IosSystem!Pattern
  <2> QED
    BY <1>5, <2>1 DEF IosSystem!ParseCrash
<1>10. AllKept(m, IosSystem!ParseInterfaceError(m))
  <2>1. "Interface-error" \in m.forms => DOMAIN m.groups \subseteq {"interface"}
    BY DEF IosSystem!Captured, IosSystem!Patterns, IosSystem!Pattern
  <2> QED
    BY <1>5, <2>1 DEF IosSystem!ParseInterfaceError
<1>11. AllKept(m, IosSystem!ParseModuleFailure(m))
  <2>1. "Module" \in m.forms => DOMAIN m.groups \subseteq {"id"}
    BY DEF IosSystem!Captured, IosSystem!Patterns, IosSystem!Pattern
  <2> QED
    BY <1>5, <2>1 DEF IosSystem!ParseModuleFailure
<1>12. AllKept(m, IosSystem!ParseClockUpdate(m))
  <2> DEFINE got == IosSystem!ParseClockUpdate(m)
             Detail(k, g) == DetailTakes(m, got, k, g)
  <2> SUFFICES ASSUME "System-clock" \in m.forms PROVE AllKept(m, got)
    BY DEF AllKept, IosSystem!ParseClockUpdate
  <2>1. Takes(m, {"old", "new"}, {})
    BY DEF Takes, IosSystem!Captured, IosSystem!Patterns, IosSystem!Pattern
  <2>2. /\ Acts(got, "clock_changed") /\ Detail("old_time", "old")
        /\ Detail("new_time", "new")
    BY <2>1 DEF Takes, Acts, DetailTakes, IosSystem!ParseClockUpdate,
       IosSystem!What
  <2> HIDE DEF got
  <2> QED
    BY <2>1, <2>2 DEF Takes, AllKept, Kept
<1>13. AllKept(m, IosSystem!ParseConfigSave(m))
  <2> DEFINE got == IosSystem!ParseConfigSave(m)
             Scalar(k, g) == ScalarTakes(m, got, k, g)
             Detail(k, g) == DetailTakes(m, got, k, g)
  <2> SUFFICES ASSUME "Configuration-saved" \in m.forms PROVE AllKept(m, got)
    BY DEF AllKept, IosSystem!ParseConfigSave
  <2>1. Takes(m, {"user", "destination"}, {})
    BY DEF Takes, IosSystem!Captured, IosSystem!Patterns, IosSystem!Pattern
  <2>2. /\ Acts(got, "configuration_saved") /\ Scalar("user", "user")
        /\ Detail("destination", "destination")
    BY <2>1 DEF Takes, Acts, ScalarTakes, DetailTakes,
       IosSystem!ParseConfigSave, IosSystem!What, IosSystem!Named
  <2> HIDE DEF got
  <2> QED
    BY <2>1, <2>2 DEF Takes, AllKept, Kept
<1> HIDE DEF IosSystem!Text, Text, IosSystem!Match
<1>14. AllKept(m, None)
  BY DEF AllKept
<1> QED
  BY <1>1, <1>2, <1>3, <1>4, <1>5, <1>6, <1>7, <1>8, <1>9, <1>10, <1>11, <1>12,
     <1>13, <1>14 DEF IosSystem!ParseMessage

\* The IOS router messages.
LEMMA IosKeepsCaptures ==
  ASSUME NoneIsNoValue, NEW m, Ios!Captured(m, Ios!Patterns),
         StateNamed(m), job.converter # "fortigate.router"
  PROVE  AllKept(m, Ios!ParseMessage(m))
<1> USE DEF Ios!Text, Text, Ios!Number, Number, Ios!Upper, Upper, Ios!Lower,
            Lower, Ios!Group, Ios!UpperGroup, Ios!LowerGroup, Ios!IntGroup,
            Ios!Match, Ios!Parsed, Ios!Texts, Ios!++, Images, ScalarKeys,
            SemanticKeys
<1>1. AllKept(m, Ios!ParseLink(m))
  <2> DEFINE got == Ios!ParseLink(m)
             Scalar(k, g) == ScalarTakes(m, got, k, g)
             Detail(k, g) == DetailTakes(m, got, k, g)
  <2> SUFFICES ASSUME "Interface" \in m.forms PROVE AllKept(m, got)
    BY DEF AllKept, Ios!ParseLink
  <2>1. Takes(m, {"interface", "state"}, {})
    BY DEF Takes, Ios!Captured, Ios!Patterns, Ios!Pattern
  <2>2. /\ "state" \in DOMAIN m.groups
        /\ "interface_" \o Lower(m.groups.state) # "unparsed"
    BY DEF StateNamed
  <2>3. /\ Acts(got, "interface_" \o Lower(m.groups.state))
        /\ Scalar("object_name", "interface")
        /\ Detail("interface", "interface") /\ Detail("new_state", "state")
    BY <2>1, <2>2 DEF Takes, Acts, ScalarTakes, DetailTakes, Ios!ParseLink,
       Ios!InterfaceState, Ios!State, Ios!StateChange, Ios!Object, Ios!Kind
  <2> HIDE DEF got
  <2> QED
    BY <2>1, <2>3 DEF Takes, AllKept, Kept
<1>2. AllKept(m, Ios!ParseLineproto(m))
  <2> DEFINE got == Ios!ParseLineproto(m)
             Scalar(k, g) == ScalarTakes(m, got, k, g)
             Detail(k, g) == DetailTakes(m, got, k, g)
  <2> SUFFICES ASSUME "Line-protocol" \in m.forms PROVE AllKept(m, got)
    BY DEF AllKept, Ios!ParseLineproto
  <2>1. Takes(m, {"interface", "state"}, {})
    BY DEF Takes, Ios!Captured, Ios!Patterns, Ios!Pattern
  <2>2. /\ "state" \in DOMAIN m.groups
        /\ "line_protocol_" \o Lower(m.groups.state) # "unparsed"
    BY DEF StateNamed
  <2>3. /\ Acts(got, "line_protocol_" \o Lower(m.groups.state))
        /\ Scalar("object_name", "interface")
        /\ Detail("interface", "interface") /\ Detail("new_state", "state")
    BY <2>1, <2>2 DEF Takes, Acts, ScalarTakes, DetailTakes,
       Ios!ParseLineproto, Ios!InterfaceState, Ios!State, Ios!StateChange,
       Ios!Object, Ios!Kind
  <2> HIDE DEF got
  <2> QED
    BY <2>1, <2>3 DEF Takes, AllKept, Kept
<1>3. AllKept(m, Ios!ParseBgp(m))
  <2> DEFINE got == Ios!ParseBgp(m)
             Scalar(k, g) == ScalarTakes(m, got, k, g)
             Detail(k, g) == DetailTakes(m, got, k, g)
  <2> SUFFICES ASSUME "neighbor" \in m.forms PROVE AllKept(m, got)
    BY DEF AllKept, Ios!ParseBgp
  <2>1. Takes(m, {"reason", "neighbor", "state"}, {})
    BY DEF Takes, Ios!Captured, Ios!Patterns, Ios!Pattern
  <2>2. /\ "state" \in DOMAIN m.groups
        /\ "neighbor_" \o Lower(m.groups.state) # "unparsed"
    BY DEF StateNamed
  <2>3. /\ Acts(got, "neighbor_" \o Lower(m.groups.state))
        /\ Scalar("dst_ip", "neighbor") /\ Detail("new_state", "state")
    BY <2>1, <2>2 DEF Takes, Acts, ScalarTakes, DetailTakes, Ios!ParseBgp,
       Ios!Neighbor, Ios!State, Ios!StateChange, Ios!Object, Ios!Kind
  <2>4. /\ "reason" \in DOMAIN got.scalars
        /\ got.scalars.reason = Ios!GivenGroup(m, "reason")
    BY DEF Ios!ParseBgp
  <2>5. ReasonTakes(m, got)
    BY <2>4, ReasonGroups DEF ReasonTakes, Forms
  <2> HIDE DEF got
  <2> QED
    BY <2>1, <2>3, <2>5 DEF Takes, AllKept, Kept
<1>4. AllKept(m, Ios!ParseOspf(m))
  <2> DEFINE got == Ios!ParseOspf(m)
             Scalar(k, g) == ScalarTakes(m, got, k, g)
             Detail(k, g) == DetailTakes(m, got, k, g)
  <2> SUFFICES ASSUME "Process" \in m.forms PROVE AllKept(m, got)
    BY DEF AllKept, Ios!ParseOspf
  <2>1. Takes(m, {"reason", "neighbor", "process", "interface", "old", "new"},
                 {"process"})
    BY DEF Takes, Ios!Captured, Ios!Patterns, Ios!Pattern
  <2>2. /\ DOMAIN Ios!OspfState(m) = {"subtype", "action", "outcome"}
        /\ \E action : /\ Ios!OspfState(m).action = Text(action)
                       /\ action # "unparsed"
    BY DEF Ios!OspfState
  <2>3. (\E action : Acts(got, action)) /\ Scalar("dst_ip", "neighbor")
    BY <2>1, <2>2 DEF Takes, Acts, ScalarTakes, Ios!ParseOspf, Ios!Neighbor,
       Ios!Object
  <2>4. /\ Detail("process_id", "process") /\ Detail("interface", "interface")
        /\ Detail("previous_state", "old") /\ Detail("new_state", "new")
    BY <2>1 DEF Takes, DetailTakes, Ios!ParseOspf
  <2>5. /\ "reason" \in DOMAIN got.scalars
        /\ got.scalars.reason = Ios!AdjacencyReason(m)
    BY DEF Ios!ParseOspf
  <2>6. ReasonTakes(m, got)
    BY <2>5, AdjacencyReasons DEF ReasonTakes
  <2> HIDE DEF got
  <2> QED
    BY <2>1, <2>3, <2>4, <2>6 DEF Takes, AllKept, Kept
<1>5. AllKept(m, Ios!ParseEigrp(m))
  <2> DEFINE got == Ios!ParseEigrp(m)
             Scalar(k, g) == ScalarTakes(m, got, k, g)
             Detail(k, g) == DetailTakes(m, got, k, g)
  <2> SUFFICES ASSUME "EIGRP" \in m.forms PROVE AllKept(m, got)
    BY DEF AllKept, Ios!ParseEigrp
  <2>1. Takes(m, {"reason", "neighbor", "asn", "interface", "state"}, {"asn"})
    BY DEF Takes, Ios!Captured, Ios!Patterns, Ios!Pattern
  <2>2. /\ "state" \in DOMAIN m.groups
        /\ "neighbor_" \o Lower(m.groups.state) # "unparsed"
    BY DEF StateNamed
  <2>3. /\ Acts(got, "neighbor_" \o Lower(m.groups.state))
        /\ Scalar("reason", "reason") /\ Scalar("dst_ip", "neighbor")
        /\ Detail("autonomous_system", "asn")
        /\ Detail("interface", "interface") /\ Detail("new_state", "state")
    BY <2>1, <2>2 DEF Takes, Acts, ScalarTakes, DetailTakes, Ios!ParseEigrp,
       Ios!Neighbor, Ios!State, Ios!StateChange, Ios!Object, Ios!Kind
  <2> HIDE DEF got
  <2> QED
    BY <2>1, <2>3 DEF Takes, AllKept, Kept
<1>6. AllKept(m, Ios!ParseIsis(m))
  <2> DEFINE got == Ios!ParseIsis(m)
             Scalar(k, g) == ScalarTakes(m, got, k, g)
             Detail(k, g) == DetailTakes(m, got, k, g)
  <2> SUFFICES ASSUME "ISIS" \in m.forms PROVE AllKept(m, got)
    BY DEF AllKept, Ios!ParseIsis
  <2>1. Takes(m, {"neighbor", "interface", "state"}, {})
    BY DEF Takes, Ios!Captured, Ios!Patterns, Ios!Pattern
  <2>2. /\ "state" \in DOMAIN m.groups
        /\ "adjacency_" \o Lower(m.groups.state) # "unparsed"
    BY DEF StateNamed
  <2>3. /\ Acts(got, "adjacency_" \o Lower(m.groups.state))
        /\ Scalar("object_name", "neighbor")
        /\ Detail("interface", "interface") /\ Detail("new_state", "state")
    BY <2>1, <2>2 DEF Takes, Acts, ScalarTakes, DetailTakes, Ios!ParseIsis,
       Ios!State, Ios!StateChange, Ios!Object, Ios!Kind
  <2> HIDE DEF got
  <2> QED
    BY <2>1, <2>3 DEF Takes, AllKept, Kept
<1>7. AllKept(m, Ios!ParseConfig(m))
  <2> DEFINE got == Ios!ParseConfig(m)
             Scalar(k, g) == ScalarTakes(m, got, k, g)
  <2> SUFFICES ASSUME "Configured" \in m.forms PROVE AllKept(m, got)
    BY DEF AllKept, Ios!ParseConfig
  <2>1. Takes(m, {"user", "src_ip"}, {})
    BY DEF Takes, Ios!Captured, Ios!Patterns, Ios!Pattern
  <2>2. /\ Acts(got, "configuration_changed") /\ Scalar("user", "user")
        /\ Scalar("src_ip", "src_ip")
    BY <2>1 DEF Takes, Acts, ScalarTakes, Ios!ParseConfig, Ios!Kind, Ios!Device
  <2> HIDE DEF got
  <2> QED
    BY <2>1, <2>2 DEF Takes, AllKept, Kept
<1>8. AllKept(m, Ios!ParseLogin(m, TRUE))
  <2> DEFINE got == Ios!ParseLogin(m, TRUE)
             Scalar(k, g) == ScalarTakes(m, got, k, g)
  <2> SUFFICES ASSUME "Login-Success" \in m.forms PROVE AllKept(m, got)
    BY DEF AllKept, Ios!ParseLogin
  <2>1. Takes(m, {"user", "src_ip", "port"}, {"port"})
    BY DEF Takes, Ios!Captured, Ios!Patterns, Ios!Pattern
  <2>2. /\ Acts(got, "login_success") /\ Scalar("user", "user")
        /\ Scalar("src_ip", "src_ip") /\ Scalar("dst_port", "port")
    BY <2>1 DEF Takes, Acts, ScalarTakes, Ios!ParseLogin, Ios!Kind, Ios!Device
  <2> HIDE DEF got
  <2> QED
    BY <2>1, <2>2 DEF Takes, AllKept, Kept
<1>9. AllKept(m, Ios!ParseLogin(m, FALSE))
  <2> DEFINE got == Ios!ParseLogin(m, FALSE)
             Scalar(k, g) == ScalarTakes(m, got, k, g)
  <2> SUFFICES ASSUME "Login-failed" \in m.forms PROVE AllKept(m, got)
    BY DEF AllKept, Ios!ParseLogin
  <2>1. Takes(m, {"user", "src_ip", "port"}, {"port"})
    BY DEF Takes, Ios!Captured, Ios!Patterns, Ios!Pattern
  <2>2. /\ Acts(got, "login_failure") /\ Scalar("user", "user")
        /\ Scalar("src_ip", "src_ip") /\ Scalar("dst_port", "port")
    BY <2>1 DEF Takes, Acts, ScalarTakes, Ios!ParseLogin, Ios!Kind, Ios!Device
  <2> HIDE DEF got
  <2> QED
    BY <2>1, <2>2 DEF Takes, AllKept, Kept
<1>10. AllKept(m, Ios!ParseAcl(m))
  <2> DEFINE got == Ios!ParseAcl(m)
             Scalar(k, g) == ScalarTakes(m, got, k, g)
             Detail(k, g) == DetailTakes(m, got, k, g)
  <2> SUFFICES ASSUME "list" \in m.forms PROVE AllKept(m, got)
    BY DEF AllKept, Ios!ParseAcl
  <2>1. Takes(m, {"src_ip", "src_port", "dst_ip", "dst_port", "protocol",
                  "acl", "packets", "decision"},
                 {"src_port", "dst_port", "packets"})
    BY DEF Takes, Ios!Captured, Ios!Patterns, Ios!Pattern
  <2>2. /\ Acts(got, "allow") \/ Acts(got, "deny")
        /\ Scalar("src_ip", "src_ip") /\ Scalar("src_port", "src_port")
        /\ Scalar("dst_ip", "dst_ip") /\ Scalar("dst_port", "dst_port")
        /\ Scalar("protocol", "protocol") /\ Scalar("object_name", "acl")
        /\ Detail("packet_count", "packets")
    BY <2>1 DEF Takes, Acts, ScalarTakes, DetailTakes, Ios!ParseAcl, Ios!Kind,
       Ios!Object, Ios!Chose, Ios!Outcome
  <2> HIDE DEF got
  <2> QED
    BY <2>1, <2>2 DEF Takes, AllKept, Kept, Verdicts
<1>11. AllKept(m, Ios!ParseNat(m, TRUE))
  <2> DEFINE got == Ios!ParseNat(m, TRUE)
             Scalar(k, g) == ScalarTakes(m, got, k, g)
             Detail(k, g) == DetailTakes(m, got, k, g)
  <2> SUFFICES ASSUME "Created" \in m.forms PROVE AllKept(m, got)
    BY DEF AllKept, Ios!ParseNat
  <2>1. Takes(m, {"protocol", "original_ip", "original_port", "translated_ip",
                  "translated_port"}, {"original_port", "translated_port"})
    BY DEF Takes, Ios!Captured, Ios!Patterns, Ios!Pattern
  <2>2. /\ Acts(got, "translation_created") /\ Scalar("protocol", "protocol")
        /\ Scalar("src_ip", "original_ip")
        /\ Scalar("src_port", "original_port")
        /\ Detail("translated_ip", "translated_ip")
        /\ Detail("translated_port", "translated_port")
    BY <2>1 DEF Takes, Acts, ScalarTakes, DetailTakes, Ios!ParseNat, Ios!Kind,
       Ios!Object
  <2> HIDE DEF got
  <2> QED
    BY <2>1, <2>2 DEF Takes, AllKept, Kept
<1>12. AllKept(m, Ios!ParseNat(m, FALSE))
  <2> DEFINE got == Ios!ParseNat(m, FALSE)
             Scalar(k, g) == ScalarTakes(m, got, k, g)
             Detail(k, g) == DetailTakes(m, got, k, g)
  <2> SUFFICES ASSUME "Deleted" \in m.forms PROVE AllKept(m, got)
    BY DEF AllKept, Ios!ParseNat
  <2>1. Takes(m, {"protocol", "original_ip", "original_port", "translated_ip",
                  "translated_port"}, {"original_port", "translated_port"})
    BY DEF Takes, Ios!Captured, Ios!Patterns, Ios!Pattern
  <2>2. /\ Acts(got, "translation_deleted") /\ Scalar("protocol", "protocol")
        /\ Scalar("src_ip", "original_ip")
        /\ Scalar("src_port", "original_port")
        /\ Detail("translated_ip", "translated_ip")
        /\ Detail("translated_port", "translated_port")
    BY <2>1 DEF Takes, Acts, ScalarTakes, DetailTakes, Ios!ParseNat, Ios!Kind,
       Ios!Object
  <2> HIDE DEF got
  <2> QED
    BY <2>1, <2>2 DEF Takes, AllKept, Kept
<1>13. AllKept(m, Ios!ParseDhcp(m, TRUE))
  <2> DEFINE got == Ios!ParseDhcp(m, TRUE)
             Scalar(k, g) == ScalarTakes(m, got, k, g)
             Detail(k, g) == DetailTakes(m, got, k, g)
  <2> SUFFICES ASSUME "Assigned" \in m.forms PROVE AllKept(m, got)
    BY DEF AllKept, Ios!ParseDhcp
  <2>1. Takes(m, {"ip", "mac"}, {})
    BY DEF Takes, Ios!Captured, Ios!Patterns, Ios!Pattern
  <2>2. /\ Acts(got, "address_assigned") /\ Scalar("object_name", "ip")
        /\ Detail("client_mac", "mac")
    BY <2>1 DEF Takes, Acts, ScalarTakes, DetailTakes, Ios!ParseDhcp, Ios!Kind,
       Ios!Object
  <2> HIDE DEF got
  <2> QED
    BY <2>1, <2>2 DEF Takes, AllKept, Kept
<1>14. AllKept(m, Ios!ParseDhcp(m, FALSE))
  <2> DEFINE got == Ios!ParseDhcp(m, FALSE)
             Scalar(k, g) == ScalarTakes(m, got, k, g)
             Detail(k, g) == DetailTakes(m, got, k, g)
  <2> SUFFICES ASSUME "Released" \in m.forms PROVE AllKept(m, got)
    BY DEF AllKept, Ios!ParseDhcp
  <2>1. Takes(m, {"ip", "mac"}, {})
    BY DEF Takes, Ios!Captured, Ios!Patterns, Ios!Pattern
  <2>2. /\ Acts(got, "address_released") /\ Scalar("object_name", "ip")
        /\ Detail("client_mac", "mac")
    BY <2>1 DEF Takes, Acts, ScalarTakes, DetailTakes, Ios!ParseDhcp, Ios!Kind,
       Ios!Object
  <2> HIDE DEF got
  <2> QED
    BY <2>1, <2>2 DEF Takes, AllKept, Kept
<1>15. AllKept(m, Ios!ParseReload(m))
  <2> DEFINE got == Ios!ParseReload(m)
             Scalar(k, g) == ScalarTakes(m, got, k, g)
             Detail(k, g) == DetailTakes(m, got, k, g)
  <2> SUFFICES ASSUME "Reload" \in m.forms PROVE AllKept(m, got)
    BY DEF AllKept, Ios!ParseReload
  <2>1. Takes(m, {"user", "reason", "source"}, {})
    BY DEF Takes, Ios!Captured, Ios!Patterns, Ios!Pattern
  <2>2. /\ Acts(got, "device_reload") /\ Scalar("user", "user")
        /\ Detail("request_source", "source")
    BY <2>1 DEF Takes, Acts, ScalarTakes, DetailTakes, Ios!ParseReload,
       Ios!Kind, Ios!Device
  <2>3. /\ "reason" \in DOMAIN got.scalars
        /\ got.scalars.reason = Ios!UndottedGroup(m, "reason")
    BY DEF Ios!ParseReload, Ios!Kind, Ios!Device
  <2>4. ReasonTakes(m, got)
    BY <2>3, ReasonGroups DEF ReasonTakes
  <2> HIDE DEF got
  <2> QED
    BY <2>1, <2>2, <2>4 DEF Takes, AllKept, Kept
<1>16. AllKept(m, Ios!ParseCpuhog(m))
  <2> DEFINE got == Ios!ParseCpuhog(m)
             Scalar(k, g) == ScalarTakes(m, got, k, g)
             Detail(k, g) == DetailTakes(m, got, k, g)
  <2> SUFFICES ASSUME "Task" \in m.forms PROVE AllKept(m, got)
    BY DEF AllKept, Ios!ParseCpuhog
  <2>1. Takes(m, {"process", "msec"}, {"msec"})
    BY DEF Takes, Ios!Captured, Ios!Patterns, Ios!Pattern
  <2>2. /\ Acts(got, "cpu_hog_detected") /\ Scalar("object_name", "process")
        /\ Detail("runtime_ms", "msec")
    BY <2>1 DEF Takes, Acts, ScalarTakes, DetailTakes, Ios!ParseCpuhog,
       Ios!Kind, Ios!Object
  <2> HIDE DEF got
  <2> QED
    BY <2>1, <2>2 DEF Takes, AllKept, Kept
<1> HIDE DEF Ios!Text, Text, Ios!Match
<1>17. AllKept(m, None)
  BY DEF AllKept
<1> QED
  BY <1>1, <1>2, <1>3, <1>4, <1>5, <1>6, <1>7, <1>8, <1>9, <1>10, <1>11, <1>12,
     <1>13, <1>14, <1>15, <1>16, <1>17 DEF Ios!ParseMessage

\* The routing messages; these parsers return what they set even when they fail.
LEMMA RoutingKeepsCaptures ==
  ASSUME NEW m, Routing!Captured(m, Routing!Patterns), StateNamed(m),
         Routing!ParseMessage(m).done
  PROVE  Kept(m, Routing!ParseMessage(m))
<1> USE DEF Routing!Text, Text, Routing!Number, Number, Routing!Upper, Upper,
            Routing!Lower, Lower, Routing!Group, Routing!UpperGroup,
            Routing!LowerGroup, Routing!IntGroup, Routing!Match,
            Routing!Parsed, Routing!Texts, Routing!++, Routing!Done,
            Routing!Failed, Images, ScalarKeys, SemanticKeys
<1>1. ASSUME "neighbor" \in m.forms
      PROVE  Kept(m, Routing!ParseBgpNeighbor(m))
  <2> DEFINE got == Routing!ParseBgpNeighbor(m)
             Scalar(k, g) == ScalarTakes(m, got, k, g)
             Detail(k, g) == DetailTakes(m, got, k, g)
  <2> SUFFICES Kept(m, got)
    OBVIOUS
  <2>1. Takes(m, {"neighbor", "reason", "state"}, {})
    BY <1>1 DEF Takes, Routing!Captured, Routing!Patterns, Routing!Pattern
  <2>2. "state" \in DOMAIN m.groups
        /\ "neighbor_" \o Lower(m.groups.state) # "unparsed"
    BY <1>1 DEF StateNamed
  <2>3. /\ Acts(got, "neighbor_" \o Lower(m.groups.state))
        /\ Scalar("dst_ip", "neighbor") /\ Detail("new_state", "state")
    BY <1>1, <2>1, <2>2 DEF Takes, Acts, ScalarTakes, DetailTakes,
       Routing!ParseBgpNeighbor, Routing!Bgp, Routing!Outcome
  <2>4. /\ "reason" \in DOMAIN got.scalars
        /\ got.scalars.reason = Routing!GivenGroup(m, "reason")
    BY <1>1 DEF Routing!ParseBgpNeighbor, Routing!Bgp
  <2>5. ReasonTakes(m, got)
    BY <2>4, ReasonGroups DEF ReasonTakes, Forms
  <2> HIDE DEF got
  <2> QED
    BY <2>1, <2>3, <2>5 DEF Takes, Kept
<1>2. ASSUME "Advertised-prefix" \in m.forms
      PROVE  Kept(m, Routing!ParseBgpRoute(m))
  <2> DEFINE got == Routing!ParseBgpRoute(m)
             Scalar(k, g) == ScalarTakes(m, got, k, g)
  <2> SUFFICES Kept(m, got)
    OBVIOUS
  <2>1. Takes(m, {"neighbor", "prefix"}, {})
    BY <1>2 DEF Takes, Routing!Captured, Routing!Patterns, Routing!Pattern
  <2>2. /\ Acts(got, "route_advertised") /\ Scalar("dst_ip", "neighbor")
        /\ Scalar("object_name", "prefix")
    BY <1>2, <2>1 DEF Takes, Acts, ScalarTakes, Routing!ParseBgpRoute,
       Routing!Bgp
  <2> HIDE DEF got
  <2> QED
    BY <2>1, <2>2 DEF Takes, Kept
<1>3. ASSUME "Withdrawn-prefix" \in m.forms, "Advertised-prefix" \notin m.forms
      PROVE  Kept(m, Routing!ParseBgpRoute(m))
  <2> DEFINE got == Routing!ParseBgpRoute(m)
             Scalar(k, g) == ScalarTakes(m, got, k, g)
  <2> SUFFICES Kept(m, got)
    OBVIOUS
  <2>1. Takes(m, {"neighbor", "prefix"}, {})
    BY <1>3 DEF Takes, Routing!Captured, Routing!Patterns, Routing!Pattern
  <2>2. /\ Acts(got, "route_withdrawn") /\ Scalar("dst_ip", "neighbor")
        /\ Scalar("object_name", "prefix")
    BY <1>3, <2>1 DEF Takes, Acts, ScalarTakes, Routing!ParseBgpRoute,
       Routing!Bgp
  <2> HIDE DEF got
  <2> QED
    BY <2>1, <2>2 DEF Takes, Kept
<1>4. ASSUME "Process" \in m.forms
      PROVE  Kept(m, Routing!ParseOspfAdjacency(m))
  <2> DEFINE got == Routing!ParseOspfAdjacency(m)
             Scalar(k, g) == ScalarTakes(m, got, k, g)
             Detail(k, g) == DetailTakes(m, got, k, g)
  <2> SUFFICES Kept(m, got)
    OBVIOUS
  <2>1. Takes(m, {"neighbor", "reason", "process", "interface", "old_state",
                  "new_state"}, {"process"})
    BY <1>4 DEF Takes, Routing!Captured, Routing!Patterns, Routing!Pattern
  <2>2. \A new : /\ DOMAIN Routing!AdjacencyState(new)
                      = {"subtype", "action", "outcome"}
                 /\ \E action : /\ Routing!AdjacencyState(new).action = Text(action)
                                /\ action # "unparsed"
    BY DEF Routing!AdjacencyState
  <2>3. (\E action : Acts(got, action)) /\ Scalar("dst_ip", "neighbor")
    BY <1>4, <2>1, <2>2 DEF Takes, Acts, ScalarTakes, Routing!ParseOspfAdjacency
  <2>4. /\ Detail("process_id", "process") /\ Detail("interface", "interface")
        /\ Detail("previous_state", "old_state")
        /\ Detail("new_state", "new_state")
    BY <1>4, <2>1 DEF Takes, DetailTakes, Routing!ParseOspfAdjacency
  <2>5. \A new : DOMAIN Routing!AdjacencyState(new) = {"subtype", "action", "outcome"}
    BY <2>2
  <2>6. /\ "reason" \in DOMAIN got.scalars
        /\ got.scalars.reason = Routing!CleanedReason(m)
    BY <1>4, <2>5 DEF Routing!ParseOspfAdjacency
  <2>7. ReasonTakes(m, got)
    BY <1>4, <2>6, AdjacencyReasons DEF ReasonTakes
  <2> HIDE DEF got
  <2> QED
    BY <2>1, <2>3, <2>4, <2>7 DEF Takes, Kept
<1>5. ASSUME "learned-via" \in m.forms
      PROVE  Kept(m, Routing!ParseOspfRoute(m))
  <2> DEFINE got == Routing!ParseOspfRoute(m)
             Scalar(k, g) == ScalarTakes(m, got, k, g)
             Detail(k, g) == DetailTakes(m, got, k, g)
  <2> SUFFICES Kept(m, got)
    OBVIOUS
  <2>1. Takes(m, {"next_hop", "prefix", "metric"}, {"metric"})
    BY <1>5 DEF Takes, Routing!Captured, Routing!Patterns, Routing!Pattern
  <2>2. /\ Acts(got, "route_learned") /\ Scalar("dst_ip", "next_hop")
        /\ Scalar("object_name", "prefix") /\ Detail("metric", "metric")
    BY <1>5, <2>1 DEF Takes, Acts, ScalarTakes, DetailTakes,
       Routing!ParseOspfRoute
  <2> HIDE DEF got
  <2> QED
    BY <2>1, <2>2 DEF Takes, Kept
<1>6. ASSUME "removed-from-routing-table" \in m.forms, "learned-via" \notin m.forms
      PROVE  Kept(m, Routing!ParseOspfRoute(m))
  <2> DEFINE got == Routing!ParseOspfRoute(m)
             Scalar(k, g) == ScalarTakes(m, got, k, g)
  <2> SUFFICES Kept(m, got)
    OBVIOUS
  <2>1. Takes(m, {"prefix"}, {})
    BY <1>6 DEF Takes, Routing!Captured, Routing!Patterns, Routing!Pattern
  <2>2. /\ Acts(got, "route_removed") /\ Scalar("object_name", "prefix")
    BY <1>6, <2>1 DEF Takes, Acts, ScalarTakes, Routing!ParseOspfRoute
  <2> HIDE DEF got
  <2> QED
    BY <2>1, <2>2 DEF Takes, Kept
<1>7. ASSUME "added-via" \in m.forms
      PROVE  Kept(m, Routing!ParseStaticRoute(m))
  <2> DEFINE got == Routing!ParseStaticRoute(m)
             Scalar(k, g) == ScalarTakes(m, got, k, g)
             Detail(k, g) == DetailTakes(m, got, k, g)
  <2> SUFFICES Kept(m, got)
    OBVIOUS
  <2>1. Takes(m, {"prefix", "next_hop"}, {})
    BY <1>7 DEF Takes, Routing!Captured, Routing!Patterns, Routing!Pattern
  <2>2. /\ Acts(got, "route_added") /\ Scalar("object_name", "prefix")
        /\ Detail("next_hop", "next_hop")
    BY <1>7, <2>1 DEF Takes, Acts, ScalarTakes, DetailTakes,
       Routing!ParseStaticRoute, Routing!StaticScalars
  <2> HIDE DEF got
  <2> QED
    BY <2>1, <2>2 DEF Takes, Kept
<1>8. ASSUME "removed" \in m.forms, "added-via" \notin m.forms
      PROVE  Kept(m, Routing!ParseStaticRoute(m))
  <2> DEFINE got == Routing!ParseStaticRoute(m)
             Scalar(k, g) == ScalarTakes(m, got, k, g)
  <2> SUFFICES Kept(m, got)
    OBVIOUS
  <2>1. Takes(m, {"prefix"}, {})
    BY <1>8 DEF Takes, Routing!Captured, Routing!Patterns, Routing!Pattern
  <2>2. /\ Acts(got, "route_removed") /\ Scalar("object_name", "prefix")
    BY <1>8, <2>1 DEF Takes, Acts, ScalarTakes, Routing!ParseStaticRoute,
       Routing!StaticScalars
  <2> HIDE DEF got
  <2> QED
    BY <2>1, <2>2 DEF Takes, Kept
<1>9. ASSUME "next-hop-changed" \in m.forms, "added-via" \notin m.forms,
             "removed" \notin m.forms
      PROVE  Kept(m, Routing!ParseStaticRoute(m))
  <2> DEFINE got == Routing!ParseStaticRoute(m)
             Scalar(k, g) == ScalarTakes(m, got, k, g)
             Detail(k, g) == DetailTakes(m, got, k, g)
  <2> SUFFICES Kept(m, got)
    OBVIOUS
  <2>1. Takes(m, {"prefix", "old_next_hop", "new_next_hop"}, {})
    BY <1>9 DEF Takes, Routing!Captured, Routing!Patterns, Routing!Pattern
  <2>2. /\ Acts(got, "next_hop_changed") /\ Scalar("object_name", "prefix")
        /\ Detail("old_next_hop", "old_next_hop")
        /\ Detail("new_next_hop", "new_next_hop")
    BY <1>9, <2>1 DEF Takes, Acts, ScalarTakes, DetailTakes,
       Routing!ParseStaticRoute, Routing!StaticScalars
  <2> HIDE DEF got
  <2> QED
    BY <2>1, <2>2 DEF Takes, Kept
<1> HIDE DEF Routing!Text, Text
<1>10. /\ Routing!ParseBgpNeighbor(m).done => Kept(m, Routing!ParseBgpNeighbor(m))
       /\ Routing!ParseBgpRoute(m).done => Kept(m, Routing!ParseBgpRoute(m))
       /\ Routing!ParseOspfAdjacency(m).done => Kept(m, Routing!ParseOspfAdjacency(m))
  BY <1>1, <1>2, <1>3, <1>4 DEF Routing!ParseBgpNeighbor, Routing!ParseBgpRoute,
     Routing!ParseOspfAdjacency
<1>11. Routing!ParseOspfRoute(m).done => Kept(m, Routing!ParseOspfRoute(m))
  BY <1>5, <1>6 DEF Routing!ParseOspfRoute
<1>12. Routing!ParseStaticRoute(m).done => Kept(m, Routing!ParseStaticRoute(m))
  BY <1>7, <1>8, <1>9 DEF Routing!ParseStaticRoute
<1> QED
  BY <1>10, <1>11, <1>12 DEF Routing!ParseMessage

-----------------------------------------------------------------------------
\* What CapturedStays says of the event of a line.
LineStays(log, e) ==
  LET kept == {e.vendor_fields[k] : k \in DOMAIN e.vendor_fields}
  IN IF e.fields.action = Text("unparsed") THEN Text(log.message) \in kept
     ELSE \A g \in Captures(log) : Forms(log, g) \cap ValuesIn(e) # {}

\* An event that has the scalars and details of the message parser has what the line
\* captured.
LEMMA KeptIsInEvent ==
  ASSUME NEW m, NEW got, NEW e, Kept(m, got),
         \A k \in DOMAIN got.scalars \cap ScalarKeys :
           k \in DOMAIN e.fields /\ e.fields[k] = got.scalars[k],
         \A k \in DOMAIN got.details :
           k \in DOMAIN e.details /\ e.details[k] = got.details[k]
  PROVE  LineStays(m, e)
<1>1. e.fields.action # Text("unparsed")
  BY DEF Kept, Acts, ScalarKeys, SemanticKeys, Text
<1>2. ASSUME NEW g \in Captures(m)
      PROVE  Forms(m, g) \cap ValuesIn(e) # {}
  <2>1. g \in DOMAIN m.groups \ Verdicts /\ Images(m.groups[g]) \subseteq Forms(m, g)
    BY DEF Captures, Forms
  <2>2. CASE \E k : ScalarTakes(m, got, k, g)
    <3>1. PICK k : e.fields[k] \in Images(m.groups[g]) /\ k \in DOMAIN e.fields
      BY <2>1, <2>2 DEF ScalarTakes
    <3> QED
      BY <2>1, <3>1 DEF ValuesIn
  <2>3. CASE \E k : DetailTakes(m, got, k, g)
    <3>1. PICK k : e.details[k] \in Images(m.groups[g]) /\ k \in DOMAIN e.details
      BY <2>1, <2>3 DEF DetailTakes
    <3> QED
      BY <2>1, <3>1 DEF ValuesIn
  <2>4. CASE g = "reason" /\ ReasonTakes(m, got)
    <3>1. "reason" \in DOMAIN e.fields /\ e.fields.reason \in Forms(m, g)
      BY <1>2, <2>4 DEF ReasonTakes, ScalarKeys, SemanticKeys
    <3> QED
      BY <3>1 DEF ValuesIn
  <2> QED
    BY <2>1, <2>2, <2>3, <2>4 DEF Kept
<1> QED
  BY <1>1, <1>2 DEF LineStays

\* The converters share convert().
LEMMA OneConvert ==
  ASSUME NEW m, NEW base, NEW head, NEW got, NEW text
  PROVE  LET e == Asa!Convert(m, base, head, got, text)
         IN /\ AsaVpn!Convert(m, base, head, got, text) = e
            /\ Ios!Convert(m, base, head, got, text) = e
            /\ IosSystem!Convert(m, base, head, got, text) = e
<1> USE DEF Asa!Convert, Asa!EventWith, Asa!Lookup, Asa!++, Asa!UnparsedScalars,
        Asa!Texts, Asa!Text, Asa!ScalarKeys, Asa!SemanticKeys, Asa!ControlKeys,
        Asa!Empty
<1>1. AsaVpn!Convert(m, base, head, got, text) = Asa!Convert(m, base, head, got, text)
  BY DEF AsaVpn!Convert, AsaVpn!EventWith, AsaVpn!Lookup, AsaVpn!++,
     AsaVpn!UnparsedScalars, AsaVpn!Texts, AsaVpn!Text, AsaVpn!ScalarKeys,
     AsaVpn!SemanticKeys, AsaVpn!ControlKeys, AsaVpn!Empty
<1>2. Ios!Convert(m, base, head, got, text) = Asa!Convert(m, base, head, got, text)
  BY DEF Ios!Convert, Ios!EventWith, Ios!Lookup, Ios!++, Ios!UnparsedScalars,
     Ios!Texts, Ios!Text, Ios!ScalarKeys, Ios!SemanticKeys, Ios!ControlKeys,
     Ios!Empty
<1>3. IosSystem!Convert(m, base, head, got, text)
        = Asa!Convert(m, base, head, got, text)
  BY DEF IosSystem!Convert, IosSystem!EventWith, IosSystem!Lookup, IosSystem!++,
     IosSystem!UnparsedScalars, IosSystem!Texts, IosSystem!Text,
     IosSystem!ScalarKeys, IosSystem!SemanticKeys, IosSystem!ControlKeys,
     IosSystem!Empty
<1> QED
  BY <1>1, <1>2, <1>3

\* convert() of the Cisco converters, for any base and head
LEMMA ConvertedStays ==
  ASSUME NEW m, m.header, NEW base, NEW head, NEW got, NEW text, AllKept(m, got)
  PROVE  /\ LineStays(m, Asa!Convert(m, base, head, got, text))
         /\ LineStays(m, AsaVpn!Convert(m, base, head, got, text))
         /\ LineStays(m, Ios!Convert(m, base, head, got, text))
         /\ LineStays(m, IosSystem!Convert(m, base, head, got, text))
<1> DEFINE e == Asa!Convert(m, base, head, got, text)
<1> SUFFICES LineStays(m, e)
  BY OneConvert
<1>1. CASE got = None
  <2>1. /\ e.fields.action = Text("unparsed")
        /\ "message" \in DOMAIN e.vendor_fields
        /\ e.vendor_fields.message = Text(m.message)
    BY <1>1 DEF Asa!Convert, Asa!EventWith, Asa!Lookup, Asa!UnparsedScalars,
       Asa!Texts,
       Asa!++, Asa!Text, Text, Asa!ScalarKeys, Asa!SemanticKeys
  <2> SUFFICES LineStays(m, e)
    OBVIOUS
  <2> HIDE DEF e
  <2> QED
    BY <2>1 DEF LineStays
<1>2. CASE got # None
  <2>1. Kept(m, got)
    BY <1>2 DEF AllKept
  <2>2. /\ \A k \in DOMAIN got.scalars \cap ScalarKeys :
             k \in DOMAIN e.fields /\ e.fields[k] = got.scalars[k]
        /\ e.details = got.details
    BY <1>2 DEF Asa!Convert, Asa!EventWith, Asa!Lookup, Asa!++, ScalarKeys,
       Asa!ScalarKeys,
       SemanticKeys, Asa!SemanticKeys, ControlKeys, Asa!ControlKeys
  <2> SUFFICES LineStays(m, e)
    OBVIOUS
  <2> HIDE DEF e
  <2> QED
    BY <2>1, <2>2, KeptIsInEvent
<1> QED
  BY <1>1, <1>2

\* convert_log() of the routing converter
LEMMA RoutingStays ==
  ASSUME NEW m, m.header, Routing!Captured(m, Routing!Patterns), StateNamed(m)
  PROVE  LineStays(m, Routing!ConvertLog(m))
<1> DEFINE e == Routing!ConvertLog(m)
           got == Routing!ParseMessage(m)
<1>1. CASE ~got.done
  <2>1. /\ e.fields.action = Text("unparsed")
        /\ "message" \in DOMAIN e.vendor_fields
        /\ e.vendor_fields.message = Text(m.message)
    BY <1>1 DEF Routing!ConvertLog, Routing!EventWith, Routing!Lookup,
       Routing!UnparsedScalars, Routing!Texts, Routing!++, Routing!Text, Text,
       Routing!ScalarKeys, Routing!SemanticKeys
  <2> SUFFICES LineStays(m, e)
    OBVIOUS
  <2> HIDE DEF e
  <2> QED
    BY <2>1 DEF LineStays
<1>2. CASE got.done
  <2>1. Kept(m, got)
    BY <1>2, RoutingKeepsCaptures
  <2> HIDE DEF got
  <2>2. /\ \A k \in DOMAIN got.scalars \cap ScalarKeys :
             k \in DOMAIN e.fields /\ e.fields[k] = got.scalars[k]
        /\ \A k \in DOMAIN got.details :
             k \in DOMAIN e.details /\ e.details[k] = got.details[k]
    BY <1>2 DEF got, Routing!ConvertLog, Routing!EventWith, Routing!Lookup,
       Routing!++, ScalarKeys, Routing!ScalarKeys, SemanticKeys,
       Routing!SemanticKeys, ControlKeys, Routing!ControlKeys
  <2> SUFFICES LineStays(m, e)
    OBVIOUS
  <2> HIDE DEF e
  <2> QED
    BY <2>1, <2>2, KeptIsInEvent
<1> QED
  BY <1>1, <1>2

\* The converters of lines, one after the other.
LEMMA EveryLineStays ==
  ASSUME NoneIsNoValue, NEW run \in Jobs, run.converter \in LineConverters,
         job.converter = run.converter,
         NEW i \in DOMAIN run.logs, Logs[run.logs[i]].header
  PROVE  LineStays(Logs[run.logs[i]], Convert(run.converter, Logs[run.logs[i]]))
<1> DEFINE m == Logs[run.logs[i]]
           e == Convert(run.converter, m)
<1>1. Asa!Captured(m, PatternsOf(run.converter, m))
  BY PatternsCapture
<1>2. StateNamed(m)
  <2>1. run.logs[i] \in DOMAIN Logs
    BY JobsAssumption
  <2> QED
    BY <2>1, StatesAreNamed DEF StateNamed
<1> HIDE DEF m
<1>3. CASE run.converter = "cisco.traffic"
  <2>1. AllKept(m, Asa!ParseMessage(m))
    BY <1>1, <1>3, AsaKeepsCaptures DEF PatternsOf
  <2>2. e = Asa!ConvertLine(m)
    BY <1>3 DEF Convert
  <2> QED
    BY <2>1, <2>2, ConvertedStays DEF Asa!ConvertLine, m
<1>4. CASE run.converter = "cisco.vpn"
  <2>1. AsaVpn!Captured(m, AsaVpn!Patterns(m))
    BY <1>1, <1>4 DEF PatternsOf, Asa!Captured, AsaVpn!Captured
  <2>2. AllKept(m, AsaVpn!ParseMessage(m))
    BY <2>1, AsaVpnKeepsCaptures
  <2>3. e = AsaVpn!ConvertLine(m)
    BY <1>4 DEF Convert
  <2> QED
    BY <2>2, <2>3, ConvertedStays DEF AsaVpn!ConvertLine, m
<1>5. CASE run.converter = "cisco.router"
  <2>1. Ios!Captured(m, Ios!Patterns)
    BY <1>1, <1>5 DEF PatternsOf, Asa!Captured, Ios!Captured
  <2>2. AllKept(m, Ios!ParseMessage(m))
    BY <1>2, <1>5, <2>1, IosKeepsCaptures
  <2>3. e = Ios!ConvertLine(m)
    BY <1>5 DEF Convert
  <2> QED
    BY <2>2, <2>3, ConvertedStays DEF Ios!ConvertLine, m
<1>6. CASE run.converter = "cisco.system"
  <2>1. IosSystem!Captured(m, IosSystem!Patterns)
    BY <1>1, <1>6 DEF PatternsOf, Asa!Captured, IosSystem!Captured
  <2>2. AllKept(m, IosSystem!ParseMessage(m))
    BY <2>1, IosSystemKeepsCaptures
  <2>3. e = IosSystem!ConvertLine(m)
    BY <1>6 DEF Convert
  <2> QED
    BY <2>2, <2>3, ConvertedStays DEF IosSystem!ConvertLine, m
<1>7. CASE run.converter = "fortigate.router"
  <2>1. Routing!Captured(m, Routing!Patterns)
    BY <1>1, <1>7 DEF PatternsOf, Asa!Captured, Routing!Captured
  <2>2. e = Routing!ConvertLog(m)
    BY <1>7 DEF Convert
  <2> QED
    BY <1>2, <2>1, <2>2, RoutingStays DEF m
<1> QED
  BY <1>3, <1>4, <1>5, <1>6, <1>7 DEF LineConverters, CiscoConverters

-----------------------------------------------------------------------------
\* The columns of a row that hold counts.
Counts ==
  {FgTraffic!NumberDetails[k] : k \in DOMAIN FgTraffic!NumberDetails}
  \cup {"srcport", "dstport"}

\* What CapturedStays says of the event of a row.
RowStays(row, e) ==
  LET kept == {e.vendor_fields[k] : k \in DOMAIN e.vendor_fields}
  IN \A c \in DOMAIN row \ Rewritten :
       row[c] # "" /\ (c \in Counts => row[c] \in DOMAIN Numerals) =>
         Images(row[c]) \cap (ValuesIn(e) \cup kept) # {}

LEMMA EveryColumnStays ==
  ASSUME NoneIsNoValue, NEW row
  PROVE  RowStays(row, FgTraffic!ConvertRow(row))
<1> DEFINE e == FgTraffic!ConvertRow(row)
           kept == {e.vendor_fields[k] : k \in DOMAIN e.vendor_fields}
<1> SUFFICES ASSUME NEW c \in DOMAIN row \ Rewritten, row[c] # "",
                    c \in Counts => row[c] \in DOMAIN Numerals
             PROVE  Images(row[c]) \cap (ValuesIn(e) \cup kept) # {}
  BY DEF RowStays
<1> USE DEF Text, FgTraffic!Text, Number, FgTraffic!Number
<1>1. FgTraffic!EmptyToNone(row, c) = Text(row[c]) /\ Text(row[c]) # None
  BY DEF FgTraffic!EmptyToNone, FgTraffic!Field, NoneIsNoValue
<1>2. c \in Counts => /\ FgTraffic!ToInt(row, c) = Number(Numerals[row[c]])
                      /\ Number(Numerals[row[c]]) # None
                      /\ Number(Numerals[row[c]]) \in Images(row[c])
  BY DEF FgTraffic!ToInt, FgTraffic!Field, NoneIsNoValue, Images
<1>3. Text(row[c]) \in Images(row[c])
  BY DEF Images
<1>4. /\ e.details = FgTraffic!BuildDetails(row)
      /\ e.vendor_fields = FgTraffic!VendorFields(row)
  BY DEF FgTraffic!ConvertRow, FgTraffic!EventWith
<1> HIDE DEF Text, FgTraffic!Text, Number, FgTraffic!Number
<1>5. CASE c \in DOMAIN row \ FgTraffic!MappedColumns
  <2>1. c \in DOMAIN e.vendor_fields /\ e.vendor_fields[c] = Text(row[c])
    BY <1>1, <1>4, <1>5 DEF FgTraffic!VendorFields, FgTraffic!Present
  <2> HIDE DEF e
  <2>2. Images(row[c]) \cap kept # {}
    BY <1>3, <2>1
  <2> QED
    BY <2>2 DEF e
<1>6. CASE c \in FgTraffic!ScalarColumns
  <2>1. \E k \in ScalarKeys : k \in DOMAIN e.fields /\ e.fields[k] \in Images(row[c])
    <3>1. c \in {"type", "subtype", "level", "srcip", "srcport", "dstip", "dstport",
                 "logid"}
      BY <1>6 DEF FgTraffic!ScalarColumns, Rewritten
    <3> USE DEF FgTraffic!ConvertRow, FgTraffic!EventWith, FgTraffic!Lookup, ScalarKeys,
            SemanticKeys, FgTraffic!ScalarKeys, FgTraffic!SemanticKeys
    <3>2. CASE c = "type"
      <4>1. e.fields.type = Text(row[c]) /\ "type" \in DOMAIN e.fields
        BY <1>1, <3>2 DEF FgTraffic!DeriveType, FgTraffic!Or
      <4> QED
        BY <1>3, <4>1
    <3>3. CASE c = "subtype"
      <4>1. e.fields.subtype = Text(row[c]) /\ "subtype" \in DOMAIN e.fields
        BY <1>1, <3>3
      <4> QED
        BY <1>3, <4>1
    <3>4. CASE c = "level"
      <4>1. e.fields.severity = Text(row[c]) /\ "severity" \in DOMAIN e.fields
        BY <1>1, <3>4 DEF FgTraffic!DeriveSeverity, FgTraffic!Field,
           FgTraffic!EmptyToNone
      <4> QED
        BY <1>3, <4>1
    <3>5. CASE c \in {"srcip", "dstip", "logid"}
      <4>1. /\ c = "srcip" => e.fields.src_ip = Text(row[c])
            /\ c = "dstip" => e.fields.dst_ip = Text(row[c])
            /\ c = "logid" => e.fields.vendor_event_id = Text(row[c])
            /\ {"src_ip", "dst_ip", "vendor_event_id"} \subseteq DOMAIN e.fields
        BY <1>1
      <4> QED
        BY <1>3, <3>5, <4>1
    <3>6. CASE c \in {"srcport", "dstport"}
      <4>1. /\ c = "srcport" => e.fields.src_port = FgTraffic!ToInt(row, c)
            /\ c = "dstport" => e.fields.dst_port = FgTraffic!ToInt(row, c)
            /\ {"src_port", "dst_port"} \subseteq DOMAIN e.fields
        OBVIOUS
      <4> QED
        BY <1>2, <3>6, <4>1 DEF Counts
    <3> QED
      BY <3>1, <3>2, <3>3, <3>4, <3>5, <3>6
  <2> HIDE DEF e
  <2>2. Images(row[c]) \cap ValuesIn(e) # {}
    BY <2>1 DEF ValuesIn
  <2> QED
    BY <2>2 DEF e
<1>7. CASE c \in FgTraffic!MappedColumns \ FgTraffic!ScalarColumns
  <2> DEFINE texts == [k \in DOMAIN FgTraffic!TextDetails |->
                         FgTraffic!EmptyToNone(row, FgTraffic!TextDetails[k])]
             numbers == [k \in DOMAIN FgTraffic!NumberDetails |->
                           FgTraffic!ToInt(row, FgTraffic!NumberDetails[k])]
             all == FgTraffic!++(texts, numbers)
  <2>1. DOMAIN FgTraffic!TextDetails \cap DOMAIN FgTraffic!NumberDetails = {}
    BY DEF FgTraffic!TextDetails, FgTraffic!NumberDetails
  <2>2. \E k \in DOMAIN all : all[k] # None /\ all[k] \in Images(row[c])
    <3>1. CASE c \in {FgTraffic!TextDetails[k] : k \in DOMAIN FgTraffic!TextDetails}
      <4>1. PICK k \in DOMAIN FgTraffic!TextDetails : c = FgTraffic!TextDetails[k]
        BY <3>1
      <4>2. k \in DOMAIN all /\ all[k] = Text(row[c])
        BY <1>1, <4>1 DEF FgTraffic!++
      <4> QED
        BY <1>1, <1>3, <4>2
    <3>2. CASE c \in {FgTraffic!NumberDetails[k] :
                       k \in DOMAIN FgTraffic!NumberDetails}
      <4>1. PICK k \in DOMAIN FgTraffic!NumberDetails : c = FgTraffic!NumberDetails[k]
        BY <3>2
      <4>2. k \in DOMAIN all /\ all[k] = FgTraffic!ToInt(row, c)
        BY <2>1, <4>1 DEF FgTraffic!++
      <4>3. c \in Counts
        BY <3>2 DEF Counts
      <4> QED
        BY <1>2, <4>2, <4>3
    <3> QED
      BY <1>7, <3>1, <3>2 DEF FgTraffic!MappedColumns
  <2>3. e.details = FgTraffic!Present(all)
    BY <1>4 DEF FgTraffic!BuildDetails
  <2> HIDE DEF e, all
  <2>4. \E k \in DOMAIN e.details : e.details[k] \in Images(row[c])
    BY <2>2, <2>3 DEF FgTraffic!Present
  <2>5. Images(row[c]) \cap ValuesIn(e) # {}
    BY <2>4 DEF ValuesIn
  <2> QED
    BY <2>5 DEF e
<1> QED
  BY <1>5, <1>6, <1>7

(***************************************************************************)
(* What the patterns captured and what the columns held is in the event,   *)
(* whatever was in the logs, but for the label of the reason of an OSPF    *)
(* adjacency and the full stops of that of a reload (the message parsers   *)
(* of the Cisco and routing converters, convert_row and                    *)
(* build_vendor_fields of the table).                                      *)
(***************************************************************************)
THEOREM CapturedAlwaysStays ==
  ASSUME NoneIsNoValue
  PROVE  Spec => []CapturedStays
<1>1. Inv => CapturedStays
  <2> SUFFICES ASSUME Inv, NEW i \in KeptUpTo(at)
               PROVE  LET e == events[Place(i)].event
                      IN /\ job.converter \in LineConverters /\ Line(i).header =>
                              LineStays(Line(i), e)
                         /\ job.converter = "fortigate.traffic" =>
                              RowStays(Line(i).cells, e)
    BY DEF CapturedStays, LineStays, RowStays, Counts
  <2>1. events[Place(i)].event = Convert(job.converter, Line(i))
    <3>1. events[Place(i)] = EventAt(i)
      BY DEF Inv, EveryLineOnce
    <3> QED
      BY <3>1 DEF EventAt
  <2>2. job \in Jobs /\ i \in DOMAIN job.logs
    BY JobsAssumption DEF Inv, Shape, KeptUpTo
  <2>3. job.converter \in LineConverters /\ Line(i).header =>
          LineStays(Line(i), Convert(job.converter, Line(i)))
    BY <2>2, EveryLineStays DEF Line
  <2>4. CASE job.converter = "fortigate.traffic"
    <3>1. Convert(job.converter, Line(i)) = FgTraffic!ConvertRow(Line(i).cells)
      BY <2>4 DEF Convert
    <3> QED
      BY <2>1, <2>3, <2>4, <3>1, EveryColumnStays DEF LineConverters,
         CiscoConverters
  <2> QED
    BY <2>1, <2>3, <2>4
<1> QED
  BY <1>1, InvInit, InvNext, PTL DEF Spec

-----------------------------------------------------------------------------
(***************************************************************************)
(* The events are complete: whatever a converter is given, each scalar of  *)
(* its event, each detail and each vendor field is a value or None.  The   *)
(* same three facts are needed of every parser: its helpers return values, *)
(* putting dictionaries together keeps that, and so does filling an event. *)
(***************************************************************************)
Valued(f) == \A k \in DOMAIN f : IsValue(f[k])

Filled(got) == Valued(got.scalars) /\ Valued(got.details)

\* the same of a message parser that may fail
ParsedValued(got) == got = None \/ Filled(got)

LEMMA TopValues ==
  /\ IsValue(None) /\ \A t : IsValue(Text(t))
  /\ \A f : \A k \in DOMAIN Texts(f) : IsValue(Texts(f)[k])
  /\ \A k \in DOMAIN Empty : IsValue(Empty[k])
  /\ \A f, g : /\ \A k \in DOMAIN f : IsValue(f[k])
               /\ \A k \in DOMAIN g : IsValue(g[k])
               => \A k \in DOMAIN (f ++ g) : IsValue((f ++ g)[k])
BY DEF IsValue, Is, Text, Texts, Empty, ++

\* empty_common_event() with values is an event.
LEMMA ValuedEvents ==
  ASSUME NEW scalars, NEW details, NEW vendorFields,
         \A k \in DOMAIN scalars : IsValue(scalars[k]),
         \A k \in DOMAIN details : IsValue(details[k]),
         \A k \in DOMAIN vendorFields : IsValue(vendorFields[k])
  PROVE  IsEvent(EventWith(scalars, details, vendorFields))
<1> DEFINE e == EventWith(scalars, details, vendorFields)
<1>1. /\ e = [fields |-> e.fields, details |-> details, vendor_fields |-> vendorFields,
              extra |-> <<>>]
      /\ e.fields = [k \in ScalarKeys |-> Lookup(scalars, k)]
  BY DEF EventWith
<1>2. \A k \in ScalarKeys : IsValue(e.fields[k])
  BY <1>1 DEF Lookup, IsValue
<1>3. IsRecord(e.fields, ScalarKeys)
  BY <1>1 DEF IsRecord
<1> HIDE DEF e
<1>4. IsRecord(e, {"fields", "details", "vendor_fields", "extra"})
  BY <1>1 DEF IsRecord
<1>5. e.details = details /\ e.vendor_fields = vendorFields
  BY <1>1
<1> QED
  BY <1>2, <1>3, <1>4, <1>5 DEF IsEvent, e

\* The ASA traffic messages.
LEMMA AsaValues ==
  /\ IsValue(None) /\ \A t : IsValue(Asa!Text(t))
  /\ \A m, g : /\ IsValue(Asa!Group(m, g)) /\ IsValue(Asa!IntGroup(m, g))
               /\ IsValue(Asa!UpperGroup(m, g)) /\ IsValue(Asa!LowerGroup(m, g))
  /\ IsValue(Asa!Outcome(TRUE)) /\ IsValue(Asa!Outcome(FALSE))
  /\ \A good : IsValue(Asa!Outcome(good))
  /\ \A m : /\ IsValue(Asa!SeverityOf(m)) /\ IsValue(Asa!Stamp(m))
            /\ IsValue(Asa!VendorEventId(m))
  /\ \A f : \A k \in DOMAIN Asa!Texts(f) : IsValue(Asa!Texts(f)[k])
  /\ \A k \in DOMAIN Asa!Empty : IsValue(Asa!Empty[k])
BY DEF IsValue, Is, Asa!Text, Asa!Number, Asa!Texts, Asa!Empty, Asa!Group,
   Asa!IntGroup, Asa!UpperGroup, Asa!LowerGroup, Asa!Outcome, Asa!SeverityOf,
   Asa!Stamp, Asa!VendorEventId

LEMMA AsaClosed ==
  /\ \A f, g : /\ \A k \in DOMAIN f : IsValue(f[k])
               /\ \A k \in DOMAIN g : IsValue(g[k])
               => \A k \in DOMAIN Asa!++(f, g) : IsValue(Asa!++(f, g)[k])
  /\ \A f : (\A k \in DOMAIN f : IsValue(f[k]))
             => \A k \in DOMAIN Asa!Present(f) : IsValue(Asa!Present(f)[k])
BY DEF Asa!++, Asa!Present

LEMMA AsaParsed ==
  \A m, form, s, d :
     (\A k \in DOMAIN s : IsValue(s[k])) /\ (\A k \in DOMAIN d : IsValue(d[k]))
       => /\ ParsedValued(Asa!Parsed(s, d))
          /\ ParsedValued(Asa!Match(m, form, Asa!Parsed(s, d)))
BY DEF ParsedValued, Filled, Valued, Asa!Match, Asa!Parsed

LEMMA AsaConnections ==
  ASSUME NEW m
  PROVE  /\ ParsedValued(Asa!ParseConnectionStart(m))
         /\ ParsedValued(Asa!ParseConnectionEnd(m))
         /\ ParsedValued(Asa!ParseAclDeny(m))
         /\ ParsedValued(Asa!ParseAcl106100(m))
<1> USE AsaValues, AsaParsed, AsaClosed
    DEF Asa!Session, Asa!Addresses, Asa!Interfaces, Asa!Decision
<1>1. ParsedValued(Asa!ParseConnectionStart(m))
  BY DEF Asa!ParseConnectionStart
<1>2. ParsedValued(Asa!ParseConnectionEnd(m))
  <2>1. IsValue(Asa!GivenGroup(m, "reason"))
    BY DEF Asa!GivenGroup
  <2> QED
    BY <2>1 DEF Asa!ParseConnectionEnd
<1>3. ASSUME NEW form, NEW allowed, NEW action
      PROVE  ParsedValued(Asa!Match(m, form, Asa!Decision(m, allowed, action)))
  OBVIOUS
<1> HIDE DEF Asa!Decision
<1>4. ParsedValued(Asa!ParseAclDeny(m))
  BY <1>3 DEF Asa!ParseAclDeny
<1>5. ParsedValued(Asa!ParseAcl106100(m))
  BY <1>3 DEF Asa!ParseAcl106100
<1> QED
  BY <1>1, <1>2, <1>4, <1>5

LEMMA AsaOthers ==
  ASSUME NEW m, NEW start
  PROVE  /\ ParsedValued(Asa!ParseNat(m))
         /\ ParsedValued(Asa!ParseIcmp(m, start))
         /\ ParsedValued(Asa!ParseGre(m, start))
<1> USE AsaValues, AsaParsed, AsaClosed DEF Asa!Session, Asa!StartOrEnd,
        Asa!Interfaces
<1>1. ParsedValued(Asa!ParseIcmp(m, start))
  BY DEF Asa!ParseIcmp
<1>2. ParsedValued(Asa!ParseGre(m, start))
  BY DEF Asa!ParseGre
<1>3. ASSUME NEW form, NEW action
      PROVE  /\ ParsedValued(Asa!Translation(m, action))
             /\ ParsedValued(Asa!Match(m, form, Asa!Translation(m, action)))
  BY DEF Asa!Translation
<1> HIDE DEF Asa!Translation
<1>4. ParsedValued(Asa!ParseNat(m))
  BY <1>3 DEF Asa!ParseNat
<1> QED
  BY <1>1, <1>2, <1>4

\* The ASA VPN messages.
LEMMA AsaVpnValues ==
  /\ IsValue(None) /\ \A t : IsValue(AsaVpn!Text(t))
  /\ \A m, g : /\ IsValue(AsaVpn!Group(m, g)) /\ IsValue(AsaVpn!IntGroup(m, g))
               /\ IsValue(AsaVpn!UpperGroup(m, g)) /\ IsValue(AsaVpn!LowerGroup(m, g))
  /\ IsValue(AsaVpn!Outcome(TRUE)) /\ IsValue(AsaVpn!Outcome(FALSE))
  /\ \A good : IsValue(AsaVpn!Outcome(good))
  /\ \A m : /\ IsValue(AsaVpn!SeverityOf(m)) /\ IsValue(AsaVpn!Stamp(m))
            /\ IsValue(AsaVpn!VendorEventId(m))
  /\ \A f : \A k \in DOMAIN AsaVpn!Texts(f) : IsValue(AsaVpn!Texts(f)[k])
  /\ \A k \in DOMAIN AsaVpn!Empty : IsValue(AsaVpn!Empty[k])
BY DEF IsValue, Is, AsaVpn!Text, AsaVpn!Number, AsaVpn!Texts, AsaVpn!Empty,
   AsaVpn!Group, AsaVpn!IntGroup, AsaVpn!UpperGroup, AsaVpn!LowerGroup,
   AsaVpn!Outcome, AsaVpn!SeverityOf, AsaVpn!Stamp, AsaVpn!VendorEventId

LEMMA AsaVpnClosed ==
  /\ \A f, g : /\ \A k \in DOMAIN f : IsValue(f[k])
               /\ \A k \in DOMAIN g : IsValue(g[k])
               => \A k \in DOMAIN AsaVpn!++(f, g) : IsValue(AsaVpn!++(f, g)[k])
  /\ \A f : (\A k \in DOMAIN f : IsValue(f[k]))
             => \A k \in DOMAIN AsaVpn!Present(f) : IsValue(AsaVpn!Present(f)[k])
BY DEF AsaVpn!++, AsaVpn!Present

LEMMA AsaVpnParsed ==
  \A m, form, s, d :
     (\A k \in DOMAIN s : IsValue(s[k])) /\ (\A k \in DOMAIN d : IsValue(d[k]))
       => /\ ParsedValued(AsaVpn!Parsed(s, d))
          /\ ParsedValued(AsaVpn!Match(m, form, AsaVpn!Parsed(s, d)))
BY DEF ParsedValued, Filled, Valued, AsaVpn!Match, AsaVpn!Parsed

LEMMA AsaVpnClient ==
  ASSUME NEW m
  PROVE  ParsedValued(AsaVpn!Parse722053(m))
<1>1. ASSUME NEW why
      PROVE  ParsedValued(AsaVpn!Match(m, "group-user-ip", AsaVpn!Parsed(
               AsaVpn!++(AsaVpn!Texts([reason |-> why, object_type |-> "vpn_client"]),
                         AsaVpn!OfUser(m, "network_activity", "client_connection",
                                       "failure", "unsupported_client")),
               [group |-> AsaVpn!Group(m, "group")])))
  BY AsaVpnValues, AsaVpnParsed, AsaVpnClosed DEF AsaVpn!OfUser
<1> QED
  BY <1>1 DEF AsaVpn!Parse722053

LEMMA AsaVpnMessages ==
  ASSUME NEW m
  PROVE  /\ ParsedValued(AsaVpn!Parse716001(m))
         /\ ParsedValued(AsaVpn!Parse716002(m))
         /\ ParsedValued(AsaVpn!Parse722051(m))
         /\ ParsedValued(AsaVpn!Parse113019(m))
         /\ ParsedValued(AsaVpn!Parse725003(m))
         /\ ParsedValued(AsaVpn!Parse722050(m))
         /\ ParsedValued(AsaVpn!Parse746012(m))
<1> USE AsaVpnValues, AsaVpnParsed, AsaVpnClosed DEF AsaVpn!OfUser,
        AsaVpn!WebVpn, AsaVpn!Chose
<1>1. ParsedValued(AsaVpn!Parse716001(m))
  BY DEF AsaVpn!Parse716001
<1>2. ParsedValued(AsaVpn!Parse716002(m))
  BY DEF AsaVpn!Parse716002
<1>3. ParsedValued(AsaVpn!Parse722051(m))
  BY DEF AsaVpn!Parse722051
<1>4. ParsedValued(AsaVpn!Parse113019(m))
  BY DEF AsaVpn!Parse113019
<1>5. ParsedValued(AsaVpn!Parse725003(m))
  BY DEF AsaVpn!Parse725003
<1>6. ParsedValued(AsaVpn!Parse722050(m))
  BY DEF AsaVpn!Parse722050
<1>7. ParsedValued(AsaVpn!Parse746012(m))
  BY DEF AsaVpn!Parse746012
<1> QED
  BY <1>1, <1>2, <1>3, <1>4, <1>5, <1>6, <1>7

\* The IOS system messages.
LEMMA IosSystemValues ==
  /\ IsValue(None) /\ \A t : IsValue(IosSystem!Text(t))
  /\ \A m, g : /\ IsValue(IosSystem!Group(m, g)) /\ IsValue(IosSystem!IntGroup(m, g))
               /\ IsValue(IosSystem!UpperGroup(m, g))
               /\ IsValue(IosSystem!LowerGroup(m, g))
  /\ IsValue(IosSystem!Outcome(TRUE)) /\ IsValue(IosSystem!Outcome(FALSE))
  /\ \A good : IsValue(IosSystem!Outcome(good))
  /\ \A m : /\ IsValue(IosSystem!SeverityOf(m)) /\ IsValue(IosSystem!Stamp(m))
            /\ IsValue(IosSystem!VendorEventId(m))
  /\ \A f : \A k \in DOMAIN IosSystem!Texts(f) : IsValue(IosSystem!Texts(f)[k])
  /\ \A k \in DOMAIN IosSystem!Empty : IsValue(IosSystem!Empty[k])
BY DEF IsValue, Is, IosSystem!Text, IosSystem!Number, IosSystem!Texts,
   IosSystem!Empty, IosSystem!Group, IosSystem!IntGroup, IosSystem!UpperGroup,
   IosSystem!LowerGroup, IosSystem!Outcome, IosSystem!SeverityOf,
   IosSystem!Stamp, IosSystem!VendorEventId

LEMMA IosSystemClosed ==
  /\ \A f, g : /\ \A k \in DOMAIN f : IsValue(f[k])
               /\ \A k \in DOMAIN g : IsValue(g[k])
               => \A k \in DOMAIN IosSystem!++(f, g) : IsValue(IosSystem!++(f, g)[k])
  /\ \A f : (\A k \in DOMAIN f : IsValue(f[k]))
             => \A k \in DOMAIN IosSystem!Present(f) : IsValue(IosSystem!Present(f)[k])
BY DEF IosSystem!++, IosSystem!Present

LEMMA IosSystemParsed ==
  \A m, form, s, d :
     (\A k \in DOMAIN s : IsValue(s[k])) /\ (\A k \in DOMAIN d : IsValue(d[k]))
       => /\ ParsedValued(IosSystem!Parsed(s, d))
          /\ ParsedValued(IosSystem!Match(m, form, IosSystem!Parsed(s, d)))
BY DEF ParsedValued, Filled, Valued, IosSystem!Match, IosSystem!Parsed

LEMMA IosSystemMessages ==
  ASSUME NEW m
  PROVE  /\ ParsedValued(IosSystem!ParseReload(m))
         /\ ParsedValued(IosSystem!ParseRestart(m))
         /\ ParsedValued(IosSystem!ParseCpuhog(m))
         /\ ParsedValued(IosSystem!ParseMallocfail(m))
         /\ ParsedValued(IosSystem!ParsePowerFailure(m))
         /\ ParsedValued(IosSystem!ParseFanFailure(m))
         /\ ParsedValued(IosSystem!ParseTemperature(m))
         /\ ParsedValued(IosSystem!ParseCrash(m))
         /\ ParsedValued(IosSystem!ParseInterfaceError(m))
         /\ ParsedValued(IosSystem!ParseModuleFailure(m))
         /\ ParsedValued(IosSystem!ParseClockUpdate(m))
         /\ ParsedValued(IosSystem!ParseConfigSave(m))
<1> USE IosSystemValues, IosSystemParsed, IosSystemClosed
    DEF IosSystem!What, IosSystem!Named, IosSystem!Broken
<1>1. ParsedValued(IosSystem!ParseReload(m))
  <2>1. IsValue(IosSystem!UndottedGroup(m, "reason"))
    BY DEF IosSystem!UndottedGroup
  <2> QED
    BY <2>1 DEF IosSystem!ParseReload
<1>2. ParsedValued(IosSystem!ParseRestart(m))
  BY DEF IosSystem!ParseRestart
<1>3. ParsedValued(IosSystem!ParseCpuhog(m))
  BY DEF IosSystem!ParseCpuhog
<1>4. ParsedValued(IosSystem!ParseMallocfail(m))
  BY DEF IosSystem!ParseMallocfail
<1>5. ParsedValued(IosSystem!ParsePowerFailure(m))
  BY DEF IosSystem!ParsePowerFailure
<1>6. ParsedValued(IosSystem!ParseFanFailure(m))
  BY DEF IosSystem!ParseFanFailure
<1>7. ParsedValued(IosSystem!ParseTemperature(m))
  BY DEF IosSystem!ParseTemperature
<1>8. ParsedValued(IosSystem!ParseCrash(m))
  BY DEF IosSystem!ParseCrash
<1>9. ParsedValued(IosSystem!ParseInterfaceError(m))
  BY DEF IosSystem!ParseInterfaceError
<1>10. ParsedValued(IosSystem!ParseModuleFailure(m))
  BY DEF IosSystem!ParseModuleFailure
<1>11. ParsedValued(IosSystem!ParseClockUpdate(m))
  BY DEF IosSystem!ParseClockUpdate
<1>12. ParsedValued(IosSystem!ParseConfigSave(m))
  BY DEF IosSystem!ParseConfigSave
<1> QED
  BY <1>1, <1>2, <1>3, <1>4, <1>5, <1>6, <1>7, <1>8, <1>9, <1>10, <1>11, <1>12

\* The reasons of the IOS router messages.
LEMMA IosReasonValues ==
  \A m : /\ IsValue(Ios!GivenGroup(m, "reason"))
         /\ IsValue(Ios!UndottedGroup(m, "reason"))
         /\ IsValue(Ios!AdjacencyReason(m))
BY DEF IsValue, Is, Ios!Text, Ios!Group, Ios!GivenGroup, Ios!UndottedGroup,
   Ios!AdjacencyReason, Ios!ReasonAfterColon

\* The IOS router messages.
LEMMA IosValues ==
  /\ IsValue(None) /\ \A t : IsValue(Ios!Text(t))
  /\ \A m, g : /\ IsValue(Ios!Group(m, g)) /\ IsValue(Ios!IntGroup(m, g))
               /\ IsValue(Ios!UpperGroup(m, g)) /\ IsValue(Ios!LowerGroup(m, g))
  /\ IsValue(Ios!Outcome(TRUE)) /\ IsValue(Ios!Outcome(FALSE))
  /\ \A good : IsValue(Ios!Outcome(good))
  /\ \A m : /\ IsValue(Ios!SeverityOf(m)) /\ IsValue(Ios!Stamp(m))
            /\ IsValue(Ios!VendorEventId(m))
  /\ \A f : \A k \in DOMAIN Ios!Texts(f) : IsValue(Ios!Texts(f)[k])
  /\ \A k \in DOMAIN Ios!Empty : IsValue(Ios!Empty[k])
BY DEF IsValue, Is, Ios!Text, Ios!Number, Ios!Texts, Ios!Empty, Ios!Group,
   Ios!IntGroup, Ios!UpperGroup, Ios!LowerGroup, Ios!Outcome, Ios!SeverityOf,
   Ios!Stamp, Ios!VendorEventId

LEMMA IosClosed ==
  /\ \A f, g : /\ \A k \in DOMAIN f : IsValue(f[k])
               /\ \A k \in DOMAIN g : IsValue(g[k])
               => \A k \in DOMAIN Ios!++(f, g) : IsValue(Ios!++(f, g)[k])
  /\ \A f : (\A k \in DOMAIN f : IsValue(f[k]))
             => \A k \in DOMAIN Ios!Present(f) : IsValue(Ios!Present(f)[k])
BY DEF Ios!++, Ios!Present

LEMMA IosParsed ==
  \A m, form, s, d :
     (\A k \in DOMAIN s : IsValue(s[k])) /\ (\A k \in DOMAIN d : IsValue(d[k]))
       => /\ ParsedValued(Ios!Parsed(s, d))
          /\ ParsedValued(Ios!Match(m, form, Ios!Parsed(s, d)))
BY DEF ParsedValued, Filled, Valued, Ios!Match, Ios!Parsed

LEMMA IosNetworkMessages ==
  ASSUME NEW m
  PROVE  /\ ParsedValued(Ios!ParseLink(m))
         /\ ParsedValued(Ios!ParseLineproto(m))
         /\ ParsedValued(Ios!ParseBgp(m))
         /\ ParsedValued(Ios!ParseOspf(m))
         /\ ParsedValued(Ios!ParseEigrp(m))
         /\ ParsedValued(Ios!ParseIsis(m))
         /\ ParsedValued(Ios!ParseAcl(m))
<1> USE IosValues, IosParsed, IosClosed DEF Ios!Kind, Ios!Object,
        Ios!StateChange, Ios!InterfaceState, Ios!Neighbor, Ios!OspfState,
        Ios!State, Ios!Chose
<1>1. ParsedValued(Ios!ParseLink(m))
  BY DEF Ios!ParseLink
<1>2. ParsedValued(Ios!ParseLineproto(m))
  BY DEF Ios!ParseLineproto
<1>3. ParsedValued(Ios!ParseBgp(m))
  BY IosReasonValues DEF Ios!ParseBgp
<1>4. ParsedValued(Ios!ParseOspf(m))
  BY IosReasonValues DEF Ios!ParseOspf
<1>5. ParsedValued(Ios!ParseEigrp(m))
  BY DEF Ios!ParseEigrp
<1>6. ParsedValued(Ios!ParseIsis(m))
  BY DEF Ios!ParseIsis
<1>7. ParsedValued(Ios!ParseAcl(m))
  BY DEF Ios!ParseAcl
<1> QED
  BY <1>1, <1>2, <1>3, <1>4, <1>5, <1>6, <1>7

LEMMA IosOtherMessages ==
  ASSUME NEW m, NEW way
  PROVE  /\ ParsedValued(Ios!ParseConfig(m)) /\ ParsedValued(Ios!ParseReload(m))
         /\ ParsedValued(Ios!ParseCpuhog(m)) /\ ParsedValued(Ios!ParseLogin(m, way))
         /\ ParsedValued(Ios!ParseNat(m, way)) /\ ParsedValued(Ios!ParseDhcp(m, way))
<1> USE IosValues, IosParsed, IosClosed DEF Ios!Kind, Ios!Object, Ios!Device,
        Ios!Outcome
<1>1. ParsedValued(Ios!ParseConfig(m))
  BY DEF Ios!ParseConfig
<1>2. ParsedValued(Ios!ParseReload(m))
  BY IosReasonValues DEF Ios!ParseReload
<1>3. ParsedValued(Ios!ParseCpuhog(m))
  BY DEF Ios!ParseCpuhog
<1>4. ParsedValued(Ios!ParseLogin(m, way))
  BY DEF Ios!ParseLogin
<1>5. ParsedValued(Ios!ParseNat(m, way))
  BY DEF Ios!ParseNat
<1>6. ParsedValued(Ios!ParseDhcp(m, way))
  BY DEF Ios!ParseDhcp
<1> QED
  BY <1>1, <1>2, <1>3, <1>4, <1>5, <1>6

\* convert() of the Cisco converters
LEMMA AsaEvents ==
  ASSUME NEW scalars, NEW details, NEW vendorFields,
         \A k \in DOMAIN scalars : IsValue(scalars[k]),
         \A k \in DOMAIN details : IsValue(details[k]),
         \A k \in DOMAIN vendorFields : IsValue(vendorFields[k])
  PROVE  IsEvent(Asa!EventWith(scalars, details, vendorFields))
<1>1. Asa!EventWith(scalars, details, vendorFields)
        = EventWith(scalars, details, vendorFields)
  BY DEF Asa!EventWith, Asa!Lookup, Asa!ScalarKeys, Asa!ControlKeys,
     Asa!SemanticKeys, EventWith, Lookup, ScalarKeys, ControlKeys, SemanticKeys
<1> QED
  BY <1>1, ValuedEvents

LEMMA ConvertedIsEvent ==
  ASSUME NEW line, NEW base, NEW head, NEW got, NEW error,
         Valued(base), Valued(head), ParsedValued(got)
  PROVE  /\ IsEvent(Asa!Convert(line, base, head, got, error))
         /\ IsEvent(AsaVpn!Convert(line, base, head, got, error))
         /\ IsEvent(Ios!Convert(line, base, head, got, error))
         /\ IsEvent(IosSystem!Convert(line, base, head, got, error))
<1>1. IsEvent(Asa!Convert(line, base, head, got, error))
  BY AsaValues, AsaClosed, AsaEvents DEF Asa!Convert, Asa!UnparsedScalars,
     ParsedValued, Filled, Valued
<1> QED
  BY <1>1, OneConvert

LEMMA HeaderValued ==
  ASSUME NEW time, NEW severity, NEW id, IsValue(time), IsValue(severity), IsValue(id)
  PROVE  Valued([timestamp |-> time, severity |-> severity, vendor_event_id |-> id])
BY DEF Valued

LEMMA CiscoLines ==
  ASSUME NEW line
  PROVE  /\ IsEvent(Asa!ConvertLine(line))
         /\ IsEvent(AsaVpn!ConvertLine(line))
         /\ IsEvent(Ios!ConvertLine(line))
         /\ IsEvent(IosSystem!ConvertLine(line))
<1>1. /\ \A f : Valued(Asa!Texts(f)) /\ Valued(AsaVpn!Texts(f))
      /\ \A f : Valued(Ios!Texts(f)) /\ Valued(IosSystem!Texts(f))
  BY AsaValues, AsaVpnValues, IosValues, IosSystemValues DEF Valued
<1>2. IsEvent(Asa!ConvertLine(line))
  <2>1. ParsedValued(Asa!ParseMessage(line))
    BY AsaConnections, AsaOthers DEF Asa!ParseMessage, ParsedValued
  <2>2. IsValue(IF line.time = "" THEN None ELSE Asa!Text(line.time))
    BY AsaValues
  <2> QED
    BY <1>1, <2>1, <2>2, HeaderValued, ConvertedIsEvent, AsaValues
    DEF Asa!ConvertLine
<1>3. IsEvent(AsaVpn!ConvertLine(line))
  <2>1. ParsedValued(AsaVpn!ParseMessage(line))
    BY AsaVpnMessages, AsaVpnClient DEF AsaVpn!ParseMessage, ParsedValued
  <2> QED
    BY <1>1, <2>1, HeaderValued, ConvertedIsEvent, AsaVpnValues
    DEF AsaVpn!ConvertLine
<1>4. IsEvent(Ios!ConvertLine(line))
  <2>1. ParsedValued(Ios!ParseMessage(line))
    <3>1. /\ ParsedValued(Ios!ParseLogin(line, TRUE))
          /\ ParsedValued(Ios!ParseLogin(line, FALSE))
          /\ ParsedValued(Ios!ParseNat(line, TRUE))
          /\ ParsedValued(Ios!ParseNat(line, FALSE))
          /\ ParsedValued(Ios!ParseDhcp(line, TRUE))
          /\ ParsedValued(Ios!ParseDhcp(line, FALSE))
      BY IosOtherMessages, Zenon
    <3> QED
      BY <3>1, IosNetworkMessages, IosOtherMessages DEF Ios!ParseMessage,
         ParsedValued
  <2> QED
    BY <1>1, <2>1, HeaderValued, ConvertedIsEvent, IosValues DEF Ios!ConvertLine
<1>5. IsEvent(IosSystem!ConvertLine(line))
  <2>1. ParsedValued(IosSystem!ParseMessage(line))
    BY IosSystemMessages DEF IosSystem!ParseMessage, ParsedValued
  <2> QED
    BY <1>1, <2>1, HeaderValued, ConvertedIsEvent, IosSystemValues
    DEF IosSystem!ConvertLine
<1> QED
  BY <1>2, <1>3, <1>4, <1>5

\* The routing converter, whose parsers set something even when they fail.
LEMMA RoutingValues ==
  /\ IsValue(None) /\ \A t : IsValue(Routing!Text(t))
  /\ \A m, g : /\ IsValue(Routing!Group(m, g)) /\ IsValue(Routing!IntGroup(m, g))
               /\ IsValue(Routing!UpperGroup(m, g))
               /\ IsValue(Routing!LowerGroup(m, g))
  /\ IsValue(Routing!Outcome(TRUE)) /\ IsValue(Routing!Outcome(FALSE))
  /\ \A good : IsValue(Routing!Outcome(good))
  /\ \A m : /\ IsValue(Routing!SeverityOf(m)) /\ IsValue(Routing!Stamp(m))
            /\ IsValue(Routing!VendorEventId(m))
  /\ \A f : \A k \in DOMAIN Routing!Texts(f) : IsValue(Routing!Texts(f)[k])
  /\ \A k \in DOMAIN Routing!Empty : IsValue(Routing!Empty[k])
BY DEF IsValue, Is, Routing!Text, Routing!Number, Routing!Texts, Routing!Empty,
   Routing!Group, Routing!IntGroup, Routing!UpperGroup, Routing!LowerGroup,
   Routing!Outcome, Routing!SeverityOf, Routing!Stamp, Routing!VendorEventId

LEMMA RoutingClosed ==
  /\ \A f, g : /\ \A k \in DOMAIN f : IsValue(f[k])
               /\ \A k \in DOMAIN g : IsValue(g[k])
               => \A k \in DOMAIN Routing!++(f, g) : IsValue(Routing!++(f, g)[k])
  /\ \A f : (\A k \in DOMAIN f : IsValue(f[k]))
             => \A k \in DOMAIN Routing!Present(f) : IsValue(Routing!Present(f)[k])
BY DEF Routing!++, Routing!Present

LEMMA RoutingEvents ==
  ASSUME NEW scalars, NEW details, NEW vendorFields,
         \A k \in DOMAIN scalars : IsValue(scalars[k]),
         \A k \in DOMAIN details : IsValue(details[k]),
         \A k \in DOMAIN vendorFields : IsValue(vendorFields[k])
  PROVE  IsEvent(Routing!EventWith(scalars, details, vendorFields))
<1>1. Routing!EventWith(scalars, details, vendorFields)
        = EventWith(scalars, details, vendorFields)
  BY DEF Routing!EventWith, Routing!Lookup, Routing!ScalarKeys,
     Routing!ControlKeys, Routing!SemanticKeys, EventWith, Lookup, ScalarKeys,
     ControlKeys, SemanticKeys
<1> QED
  BY <1>1, ValuedEvents

LEMMA RoutingDone ==
  ASSUME NEW s, NEW d,
         \A k \in DOMAIN s : IsValue(s[k]), \A k \in DOMAIN d : IsValue(d[k])
  PROVE  Filled(Routing!Done(s, d)) /\ Filled(Routing!Failed(s))
BY RoutingValues DEF Filled, Valued, Routing!Done, Routing!Failed

LEMMA RoutingParses ==
  ASSUME NEW m
  PROVE  Filled(Routing!ParseMessage(m))
<1> USE RoutingValues, RoutingClosed, RoutingDone DEF Routing!Outcome, Routing!Bgp,
        Routing!StaticScalars
<1>1. Filled(Routing!ParseBgpNeighbor(m))
  <2>1. CASE "neighbor" \notin m.forms
    BY <2>1 DEF Routing!ParseBgpNeighbor
  <2>2. CASE "neighbor" \in m.forms
    <3> DEFINE state == Routing!Lower(m.groups.state)
    <3>1. /\ IsValue(Routing!Outcome(state = "up"))
          /\ IsValue(Routing!GivenGroup(m, "reason"))
      BY DEF Routing!GivenGroup
    <3> QED
      BY <2>2, <3>1 DEF Routing!ParseBgpNeighbor
  <2> QED
    BY <2>1, <2>2
<1>2. Filled(Routing!ParseBgpRoute(m))
  BY DEF Routing!ParseBgpRoute
<1>3. Filled(Routing!ParseOspfAdjacency(m))
  <2>1. \A new : \A k \in DOMAIN Routing!AdjacencyState(new) :
                     IsValue(Routing!AdjacencyState(new)[k])
    BY DEF Routing!AdjacencyState
  <2>2. IsValue(Routing!CleanedReason(m))
    BY DEF Routing!CleanedReason, Routing!GivenGroup, Routing!ReasonAfterColon
  <2> QED
    BY <2>1, <2>2 DEF Routing!ParseOspfAdjacency
<1>4. Filled(Routing!ParseOspfRoute(m))
  <2>1. CASE "learned-via" \in m.forms
    BY <2>1 DEF Routing!ParseOspfRoute
  <2>2. CASE "learned-via" \notin m.forms /\ "removed-from-routing-table" \in m.forms
    BY <2>2 DEF Routing!ParseOspfRoute
  <2>3. CASE {"learned-via", "removed-from-routing-table"} \cap m.forms = {}
    BY <2>3 DEF Routing!ParseOspfRoute
  <2> QED
    BY <2>1, <2>2, <2>3
<1>5. Filled(Routing!ParseStaticRoute(m))
  <2>1. CASE "added-via" \in m.forms
    BY <2>1 DEF Routing!ParseStaticRoute
  <2>2. CASE "added-via" \notin m.forms /\ "removed" \in m.forms
    BY <2>2 DEF Routing!ParseStaticRoute
  <2>3. CASE {"added-via", "removed"} \cap m.forms = {} /\ "next-hop-changed" \in m.forms
    BY <2>3 DEF Routing!ParseStaticRoute
  <2>4. CASE {"added-via", "removed", "next-hop-changed"} \cap m.forms = {}
    BY <2>4 DEF Routing!ParseStaticRoute
  <2> QED
    BY <2>1, <2>2, <2>3, <2>4
<1>6. Filled(Routing!Failed(Routing!Empty))
  OBVIOUS
<1> QED
  BY <1>1, <1>2, <1>3, <1>4, <1>5, <1>6 DEF Routing!ParseMessage

LEMMA RoutingLines ==
  ASSUME NEW line
  PROVE  IsEvent(Routing!ConvertLog(line))
<1> DEFINE got == Routing!ParseMessage(line)
<1>1. Valued(got.scalars) /\ Valued(got.details)
  BY RoutingParses DEF Filled
<1>2. /\ \A t : Valued([parse_error |-> Routing!Text(t)])
      /\ \A t : Valued([message |-> Routing!Text(t)])
      /\ Valued([device |-> Routing!Text(line.device)])
      /\ Valued(Routing!FromHeader(line)) /\ Valued(Routing!Base)
      /\ Valued(Routing!UnparsedScalars) /\ Valued(Routing!Empty)
  BY RoutingValues DEF Valued, Routing!FromHeader, Routing!Or, Routing!Base,
     Routing!UnparsedScalars
<1>3. \A f, g : Valued(f) /\ Valued(g) => Valued(Routing!++(f, g))
  BY RoutingClosed DEF Valued
<1>4. \A s, d, v :
         Valued(s) /\ Valued(d) /\ Valued(v) => IsEvent(Routing!EventWith(s, d, v))
  BY RoutingEvents DEF Valued
<1>5. CASE ~line.header
  BY <1>2, <1>3, <1>4, <1>5 DEF Routing!ConvertLog
<1>6. CASE line.header /\ got.done
  BY <1>1, <1>2, <1>3, <1>4, <1>6 DEF Routing!ConvertLog
<1>7. CASE line.header /\ ~got.done
  BY <1>1, <1>2, <1>3, <1>4, <1>7 DEF Routing!ConvertLog
<1> QED
  BY <1>5, <1>6, <1>7

\* The FortiGate traffic table.
LEMMA FgTrafficValues ==
  /\ IsValue(None) /\ \A t : IsValue(FgTraffic!Text(t))
  /\ \A row, key : /\ IsValue(FgTraffic!EmptyToNone(row, key))
                   /\ IsValue(FgTraffic!ToInt(row, key))
  /\ \A row : /\ IsValue(FgTraffic!NormalizeProtocol(row))
              /\ IsValue(FgTraffic!NormalizeAction(row))
              /\ IsValue(FgTraffic!BuildTimestamp(row))
  /\ \A f : \A k \in DOMAIN FgTraffic!Texts(f) : IsValue(FgTraffic!Texts(f)[k])
  /\ \A k \in DOMAIN FgTraffic!Empty : IsValue(FgTraffic!Empty[k])
BY DEF IsValue, Is, FgTraffic!Text, FgTraffic!Number, FgTraffic!Texts,
   FgTraffic!Empty, FgTraffic!EmptyToNone, FgTraffic!ToInt,
   FgTraffic!NormalizeProtocol, FgTraffic!NormalizeAction,
   FgTraffic!BuildTimestamp

LEMMA FgTrafficClosed ==
  /\ \A f, g : /\ \A k \in DOMAIN f : IsValue(f[k])
               /\ \A k \in DOMAIN g : IsValue(g[k])
               => \A k \in DOMAIN FgTraffic!++(f, g) : IsValue(FgTraffic!++(f, g)[k])
  /\ \A f : (\A k \in DOMAIN f : IsValue(f[k]))
             => \A k \in DOMAIN FgTraffic!Present(f) : IsValue(FgTraffic!Present(f)[k])
BY DEF FgTraffic!++, FgTraffic!Present

LEMMA FgTrafficEvents ==
  ASSUME NEW scalars, NEW details, NEW vendorFields,
         \A k \in DOMAIN scalars : IsValue(scalars[k]),
         \A k \in DOMAIN details : IsValue(details[k]),
         \A k \in DOMAIN vendorFields : IsValue(vendorFields[k])
  PROVE  IsEvent(FgTraffic!EventWith(scalars, details, vendorFields))
<1>1. FgTraffic!EventWith(scalars, details, vendorFields)
        = EventWith(scalars, details, vendorFields)
  BY DEF FgTraffic!EventWith, FgTraffic!Lookup, FgTraffic!ScalarKeys,
     FgTraffic!ControlKeys, FgTraffic!SemanticKeys, EventWith, Lookup,
     ScalarKeys, ControlKeys, SemanticKeys
<1> QED
  BY <1>1, ValuedEvents

LEMMA FgTrafficRows ==
  ASSUME NEW row
  PROVE  IsEvent(FgTraffic!ConvertRow(row))
<1>1. \A action : /\ IsValue(FgTraffic!DeriveOutcome(action))
                  /\ IsValue(FgTraffic!DeriveSeverity(row, action))
  BY FgTrafficValues DEF FgTraffic!DeriveOutcome, FgTraffic!DeriveSeverity
<1>2. IsValue(FgTraffic!DeriveType(row))
  BY FgTrafficValues DEF FgTraffic!DeriveType, FgTraffic!Or
<1>3. \A k \in DOMAIN FgTraffic!BuildDetails(row) :
         IsValue(FgTraffic!BuildDetails(row)[k])
  BY FgTrafficValues, FgTrafficClosed DEF FgTraffic!BuildDetails
<1>4. \A k \in DOMAIN FgTraffic!VendorFields(row) :
         IsValue(FgTraffic!VendorFields(row)[k])
  BY FgTrafficValues, FgTrafficClosed DEF FgTraffic!VendorFields
<1> QED
  BY <1>1, <1>2, <1>3, <1>4, FgTrafficValues, FgTrafficEvents
     DEF FgTraffic!ConvertRow

\* The FortiGate VPN events.
LEMMA FgVpnValues ==
  /\ IsValue(None) /\ \A t : IsValue(FgVpn!Text(t))
  /\ \A t : IsValue(FgVpn!Clean(t)) /\ IsValue(FgVpn!Extract(t, "interface-name"))
  /\ \A f, a, b : IsValue(FgVpn!EitherValue(f, a, b)) /\ IsValue(FgVpn!ValueOf(f, a))
  /\ \A v : IsValue(FgVpn!Converted(v)) /\ IsValue(FgVpn!NormalizeProtocol(v))
  /\ \A f : IsValue(FgVpn!BuildTimestamp(f))
  /\ \A f : \A k \in DOMAIN FgVpn!Texts(f) : IsValue(FgVpn!Texts(f)[k])
  /\ \A k \in DOMAIN FgVpn!Empty : IsValue(FgVpn!Empty[k])
<1>1. IsValue(None) /\ \A t : IsValue(FgVpn!Text(t))
  BY DEF IsValue, Is, FgVpn!Text
<1>2. /\ \A f : \A k \in DOMAIN FgVpn!Texts(f) : IsValue(FgVpn!Texts(f)[k])
      /\ \A k \in DOMAIN FgVpn!Empty : IsValue(FgVpn!Empty[k])
  BY DEF IsValue, Is, FgVpn!Text, FgVpn!Texts, FgVpn!Empty
<1>3. /\ \A t :
            IsValue(FgVpn!Clean(t)) /\ IsValue(FgVpn!Extract(t, "interface-name"))
      /\ \A f, a, b :
            IsValue(FgVpn!EitherValue(f, a, b)) /\ IsValue(FgVpn!ValueOf(f, a))
  BY Zenon
     DEF IsValue, Is, FgVpn!Text, FgVpn!Clean, FgVpn!Cleaned, FgVpn!Extract,
         FgVpn!EitherValue, FgVpn!ValueOf
<1>4. \A v : IsValue(FgVpn!Converted(v)) /\ IsValue(FgVpn!NormalizeProtocol(v))
  BY DEF IsValue, Is, FgVpn!Text, FgVpn!Number, FgVpn!Converted,
     FgVpn!AsNumber, FgVpn!NormalizeProtocol
<1>5. \A f : IsValue(FgVpn!BuildTimestamp(f))
  BY Zenon DEF IsValue, Is, FgVpn!Text, FgVpn!BuildTimestamp
<1> QED
  BY <1>1, <1>2, <1>3, <1>4, <1>5

LEMMA FgVpnEvents ==
  ASSUME NEW scalars, NEW details, NEW vendorFields,
         \A k \in DOMAIN scalars : IsValue(scalars[k]),
         \A k \in DOMAIN details : IsValue(details[k]),
         \A k \in DOMAIN vendorFields : IsValue(vendorFields[k])
  PROVE  IsEvent(FgVpn!EventWith(scalars, details, vendorFields))
<1>1. FgVpn!EventWith(scalars, details, vendorFields)
        = EventWith(scalars, details, vendorFields)
  BY DEF FgVpn!EventWith, FgVpn!Lookup, FgVpn!ScalarKeys, FgVpn!ControlKeys,
     FgVpn!SemanticKeys, EventWith, Lookup, ScalarKeys, ControlKeys,
     SemanticKeys
<1> QED
  BY <1>1, ValuedEvents

LEMMA FgVpnLogs ==
  ASSUME NEW f
  PROVE  IsEvent(FgVpn!NormalizeLog(f))
<1>1. \A k \in DOMAIN FgVpn!BuildDetails(f) : IsValue(FgVpn!BuildDetails(f)[k])
  <2>1. IsValue(FgVpn!VpnType(f))
    BY FgVpnValues, Zenon DEF FgVpn!VpnType
  <2> QED
    BY <2>1, FgVpnValues DEF FgVpn!BuildDetails
<1>2. IsValue(FgVpn!BuildObject(f)[1]) /\ IsValue(FgVpn!BuildObject(f)[2])
  <2>1. \A a, b :
           IsValue(a) /\ IsValue(b) => IsValue(<<a, b>>[1]) /\ IsValue(<<a, b>>[2])
    OBVIOUS
  <2> QED
    BY <2>1, FgVpnValues DEF FgVpn!BuildObject
<1> QED
  BY <1>1, <1>2, FgVpnValues, FgVpnEvents DEF FgVpn!NormalizeLog

\* The FortiGate system events.
LEMMA FgSystemValues ==
  /\ IsValue(None) /\ \A t : IsValue(FgSystem!Text(t))
  /\ \A t :
        IsValue(FgSystem!Clean(t)) /\ IsValue(FgSystem!Extract(t, "interface-name"))
  /\ \A f, a, b :
        IsValue(FgSystem!EitherValue(f, a, b)) /\ IsValue(FgSystem!ValueOf(f, a))
  /\ \A v : IsValue(FgSystem!Converted(v)) /\ IsValue(FgSystem!NormalizeProtocol(v))
  /\ \A f : IsValue(FgSystem!BuildTimestamp(f))
  /\ \A f : \A k \in DOMAIN FgSystem!Texts(f) : IsValue(FgSystem!Texts(f)[k])
  /\ \A k \in DOMAIN FgSystem!Empty : IsValue(FgSystem!Empty[k])
<1>1. IsValue(None) /\ \A t : IsValue(FgSystem!Text(t))
  BY DEF IsValue, Is, FgSystem!Text
<1>2. /\ \A f : \A k \in DOMAIN FgSystem!Texts(f) : IsValue(FgSystem!Texts(f)[k])
      /\ \A k \in DOMAIN FgSystem!Empty : IsValue(FgSystem!Empty[k])
  BY DEF IsValue, Is, FgSystem!Text, FgSystem!Texts, FgSystem!Empty
<1>3. /\ \A t :
            IsValue(FgSystem!Clean(t)) /\ IsValue(FgSystem!Extract(t, "interface-name"))
      /\ \A f, a, b :
            IsValue(FgSystem!EitherValue(f, a, b)) /\ IsValue(FgSystem!ValueOf(f, a))
  BY Zenon
     DEF IsValue, Is, FgSystem!Text, FgSystem!Clean, FgSystem!Cleaned, FgSystem!Extract,
         FgSystem!EitherValue, FgSystem!ValueOf
<1>4. \A v : IsValue(FgSystem!Converted(v)) /\ IsValue(FgSystem!NormalizeProtocol(v))
  BY DEF IsValue, Is, FgSystem!Text, FgSystem!Number, FgSystem!Converted,
     FgSystem!AsNumber, FgSystem!NormalizeProtocol
<1>5. \A f : IsValue(FgSystem!BuildTimestamp(f))
  BY Zenon DEF IsValue, Is, FgSystem!Text, FgSystem!BuildTimestamp
<1> QED
  BY <1>1, <1>2, <1>3, <1>4, <1>5

LEMMA FgSystemClosed ==
  /\ \A f, g : /\ \A k \in DOMAIN f : IsValue(f[k])
               /\ \A k \in DOMAIN g : IsValue(g[k])
               => \A k \in DOMAIN FgSystem!++(f, g) : IsValue(FgSystem!++(f, g)[k])
  /\ \A f : (\A k \in DOMAIN f : IsValue(f[k]))
             => \A k \in DOMAIN FgSystem!Present(f) : IsValue(FgSystem!Present(f)[k])
BY DEF FgSystem!++, FgSystem!Present

LEMMA FgSystemEvents ==
  ASSUME NEW scalars, NEW details, NEW vendorFields,
         \A k \in DOMAIN scalars : IsValue(scalars[k]),
         \A k \in DOMAIN details : IsValue(details[k]),
         \A k \in DOMAIN vendorFields : IsValue(vendorFields[k])
  PROVE  IsEvent(FgSystem!EventWith(scalars, details, vendorFields))
<1>1. FgSystem!EventWith(scalars, details, vendorFields)
        = EventWith(scalars, details, vendorFields)
  BY DEF FgSystem!EventWith, FgSystem!Lookup, FgSystem!ScalarKeys,
     FgSystem!ControlKeys, FgSystem!SemanticKeys, EventWith, Lookup, ScalarKeys,
     ControlKeys, SemanticKeys
<1> QED
  BY <1>1, ValuedEvents

LEMMA FgSystemLogs ==
  ASSUME NEW f
  PROVE  IsEvent(FgSystem!NormalizeLog(f))
<1>1. /\ IsValue(FgSystem!InterfaceName(f))
      /\ \A a, b : IsValue(FgSystem!Either(f, a, b))
  BY FgSystemValues DEF FgSystem!InterfaceName, FgSystem!Either
<1>2. ASSUME NEW type
      PROVE  \A k \in DOMAIN FgSystem!ManagementDetails(f, type) :
               IsValue(FgSystem!ManagementDetails(f, type)[k])
  BY <1>1, FgSystemValues DEF FgSystem!ManagementDetails
<1>3. \A k \in DOMAIN FgSystem!ResourceDetails(f) :
         IsValue(FgSystem!ResourceDetails(f)[k])
  BY FgSystemValues DEF FgSystem!ResourceDetails
<1>4. ASSUME NEW type
      PROVE  \A k \in DOMAIN FgSystem!BuildDetails(f, type) :
               IsValue(FgSystem!BuildDetails(f, type)[k])
  BY <1>1, <1>2, <1>3, FgSystemValues, FgSystemClosed DEF FgSystem!BuildDetails
<1>5. ASSUME NEW type
      PROVE  /\ IsValue(FgSystem!BuildObject(f, type)[1])
             /\ IsValue(FgSystem!BuildObject(f, type)[2])
  BY <1>1, FgSystemValues DEF FgSystem!BuildObject
<1> QED
  BY <1>1, <1>4, <1>5, FgSystemValues, FgSystemEvents DEF FgSystem!NormalizeLog

\* The PAN-OS traffic log.
LEMMA PaTrafficValues ==
  /\ IsValue(None) /\ \A t : IsValue(PaTraffic!Text(t))
  /\ IsValue(PaTraffic!PaloAlto)
  /\ \A t : IsValue(PaTraffic!Cleaned(t)) /\ IsValue(PaTraffic!Timestamp(t))
  /\ \A f, name : IsValue(PaTraffic!CleanField(f, name))
  /\ \A t, pattern : IsValue(PaTraffic!Extract(t, pattern))
  /\ \A v, w : IsValue(v) /\ IsValue(w) => IsValue(PaTraffic!Or(v, w))
  /\ \A t : IsValue(PaTraffic!AsNumber(t))
  /\ \A f : \A k \in DOMAIN PaTraffic!Texts(f) : IsValue(PaTraffic!Texts(f)[k])
  /\ \A k \in DOMAIN PaTraffic!Empty : IsValue(PaTraffic!Empty[k])
BY DEF IsValue, Is, PaTraffic!Text, PaTraffic!Number, PaTraffic!Texts,
   PaTraffic!Empty, PaTraffic!PaloAlto, PaTraffic!Cleaned, PaTraffic!Timestamp,
   PaTraffic!CleanField, PaTraffic!Extract, PaTraffic!Or, PaTraffic!AsNumber

LEMMA PaTrafficClosed ==
  /\ \A f, g : /\ \A k \in DOMAIN f : IsValue(f[k])
               /\ \A k \in DOMAIN g : IsValue(g[k])
               => \A k \in DOMAIN PaTraffic!++(f, g) : IsValue(PaTraffic!++(f, g)[k])
  /\ \A f : (\A k \in DOMAIN f : IsValue(f[k]))
             => \A k \in DOMAIN PaTraffic!Present(f) : IsValue(PaTraffic!Present(f)[k])
BY DEF PaTraffic!++, PaTraffic!Present

LEMMA PaTrafficEvents ==
  ASSUME NEW scalars, NEW details, NEW vendorFields,
         \A k \in DOMAIN scalars : IsValue(scalars[k]),
         \A k \in DOMAIN details : IsValue(details[k]),
         \A k \in DOMAIN vendorFields : IsValue(vendorFields[k])
  PROVE  IsEvent(PaTraffic!EventWith(scalars, details, vendorFields))
<1>1. PaTraffic!EventWith(scalars, details, vendorFields)
        = EventWith(scalars, details, vendorFields)
  BY DEF PaTraffic!EventWith, PaTraffic!Lookup, PaTraffic!ScalarKeys,
     PaTraffic!ControlKeys, PaTraffic!SemanticKeys, EventWith, Lookup,
     ScalarKeys, ControlKeys, SemanticKeys
<1> QED
  BY <1>1, ValuedEvents

LEMMA PaTrafficRows ==
  ASSUME NEW row
  PROVE  IsEvent(PaTraffic!NormalizeRow(row))
<1>1. \A f, name : IsValue(PaTraffic!NumberOf(f, name))
  BY PaTrafficValues DEF PaTraffic!NumberOf
<1>2. \A f, name, protocol : /\ IsValue(PaTraffic!NormalizePort(f, name, protocol))
                             /\ IsValue(PaTraffic!NatAddress(f, name))
                             /\ IsValue(PaTraffic!NatPort(f, name))
  BY <1>1, PaTrafficValues DEF PaTraffic!NormalizePort, PaTraffic!NatAddress,
     PaTraffic!NatPort
<1>3. \A t : IsValue(PaTraffic!NormalizeProtocol(t))
  BY PaTrafficValues DEF PaTraffic!NormalizeProtocol
<1>4. \A action : /\ IsValue(PaTraffic!SeverityFromAction(action))
                  /\ IsValue(PaTraffic!NormalizedAction(action))
  BY PaTrafficValues DEF PaTraffic!SeverityFromAction, PaTraffic!NormalizedAction
<1>5. ASSUME NEW f
      PROVE  \A k \in DOMAIN PaTraffic!BuildDetails(f) :
                IsValue(PaTraffic!BuildDetails(f)[k])
  BY <1>1, <1>2, PaTrafficValues, PaTrafficClosed DEF PaTraffic!BuildDetails
<1> QED
  BY <1>2, <1>3, <1>4, <1>5, PaTrafficValues, PaTrafficEvents
     DEF PaTraffic!NormalizeRow

\* The PAN-OS VPN events.
LEMMA PaVpnValues ==
  /\ IsValue(None) /\ \A t : IsValue(PaVpn!Text(t))
  /\ IsValue(PaVpn!PaloAlto)
  /\ \A t : IsValue(PaVpn!Cleaned(t)) /\ IsValue(PaVpn!Timestamp(t))
  /\ \A f, name : IsValue(PaVpn!CleanField(f, name))
  /\ \A t, pattern : IsValue(PaVpn!Extract(t, pattern))
  /\ \A v, w : IsValue(v) /\ IsValue(w) => IsValue(PaVpn!Or(v, w))
  /\ \A t : IsValue(PaVpn!ConvertInt(t))
  /\ \A f : \A k \in DOMAIN PaVpn!Texts(f) : IsValue(PaVpn!Texts(f)[k])
  /\ \A k \in DOMAIN PaVpn!Empty : IsValue(PaVpn!Empty[k])
BY DEF IsValue, Is, PaVpn!Text, PaVpn!Number, PaVpn!Texts, PaVpn!Empty,
   PaVpn!PaloAlto, PaVpn!Cleaned, PaVpn!Timestamp, PaVpn!CleanField,
   PaVpn!Extract, PaVpn!Or, PaVpn!ConvertInt, PaVpn!AsNumber

LEMMA PaVpnClosed ==
  /\ \A f, g : /\ \A k \in DOMAIN f : IsValue(f[k])
               /\ \A k \in DOMAIN g : IsValue(g[k])
               => \A k \in DOMAIN PaVpn!++(f, g) : IsValue(PaVpn!++(f, g)[k])
  /\ \A f : (\A k \in DOMAIN f : IsValue(f[k]))
             => \A k \in DOMAIN PaVpn!Present(f) : IsValue(PaVpn!Present(f)[k])
BY DEF PaVpn!++, PaVpn!Present

LEMMA PaVpnEvents ==
  ASSUME NEW scalars, NEW details, NEW vendorFields,
         \A k \in DOMAIN scalars : IsValue(scalars[k]),
         \A k \in DOMAIN details : IsValue(details[k]),
         \A k \in DOMAIN vendorFields : IsValue(vendorFields[k])
  PROVE  IsEvent(PaVpn!EventWith(scalars, details, vendorFields))
<1>1. PaVpn!EventWith(scalars, details, vendorFields)
        = EventWith(scalars, details, vendorFields)
  BY DEF PaVpn!EventWith, PaVpn!Lookup, PaVpn!ScalarKeys, PaVpn!ControlKeys,
     PaVpn!SemanticKeys, EventWith, Lookup, ScalarKeys, ControlKeys,
     SemanticKeys
<1> QED
  BY <1>1, ValuedEvents

LEMMA PaVpnRows ==
  ASSUME NEW row
  PROVE  IsEvent(PaVpn!NormalizeRow(row))
<1>1. ASSUME NEW f
      PROVE  IsValue(PaVpn!VpnType(f)) /\ IsValue(PaVpn!FailureReason(f))
  BY PaVpnValues DEF PaVpn!VpnType, PaVpn!FailureReason
<1>2. ASSUME NEW f
      PROVE  \A k \in DOMAIN PaVpn!BuildDetails(f) : IsValue(PaVpn!BuildDetails(f)[k])
  BY <1>1, PaVpnValues, PaVpnClosed DEF PaVpn!BuildDetails
<1>3. ASSUME NEW f
      PROVE  IsValue(PaVpn!BuildObject(f)[1]) /\ IsValue(PaVpn!BuildObject(f)[2])
  BY PaVpnValues DEF PaVpn!BuildObject
<1> QED
  BY <1>1, <1>2, <1>3, PaVpnValues, PaVpnEvents DEF PaVpn!NormalizeRow

\* The PAN-OS routing events.
LEMMA PaRouterValues ==
  /\ IsValue(None) /\ \A t : IsValue(PaRouter!Text(t))
  /\ IsValue(PaRouter!PaloAlto)
  /\ \A t : IsValue(PaRouter!Cleaned(t)) /\ IsValue(PaRouter!Timestamp(t))
  /\ \A f, name : IsValue(PaRouter!CleanField(f, name))
  /\ \A t, pattern : IsValue(PaRouter!Extract(t, pattern))
  /\ \A v, w : IsValue(v) /\ IsValue(w) => IsValue(PaRouter!Or(v, w))
  /\ \A t : IsValue(PaRouter!Action(t))
  /\ \A f : \A k \in DOMAIN PaRouter!Texts(f) : IsValue(PaRouter!Texts(f)[k])
  /\ \A k \in DOMAIN PaRouter!Empty : IsValue(PaRouter!Empty[k])
BY DEF IsValue, Is, PaRouter!Text, PaRouter!Number, PaRouter!Texts,
   PaRouter!Empty, PaRouter!PaloAlto, PaRouter!Cleaned, PaRouter!Timestamp,
   PaRouter!CleanField, PaRouter!Extract, PaRouter!Or, PaRouter!Action

LEMMA PaRouterClosed ==
  /\ \A f, g : /\ \A k \in DOMAIN f : IsValue(f[k])
               /\ \A k \in DOMAIN g : IsValue(g[k])
               => \A k \in DOMAIN PaRouter!++(f, g) : IsValue(PaRouter!++(f, g)[k])
  /\ \A f : (\A k \in DOMAIN f : IsValue(f[k]))
             => \A k \in DOMAIN PaRouter!Present(f) : IsValue(PaRouter!Present(f)[k])
BY DEF PaRouter!++, PaRouter!Present

LEMMA PaRouterEvents ==
  ASSUME NEW scalars, NEW details, NEW vendorFields,
         \A k \in DOMAIN scalars : IsValue(scalars[k]),
         \A k \in DOMAIN details : IsValue(details[k]),
         \A k \in DOMAIN vendorFields : IsValue(vendorFields[k])
  PROVE  IsEvent(PaRouter!EventWith(scalars, details, vendorFields))
<1>1. PaRouter!EventWith(scalars, details, vendorFields)
        = EventWith(scalars, details, vendorFields)
  BY DEF PaRouter!EventWith, PaRouter!Lookup, PaRouter!ScalarKeys,
     PaRouter!ControlKeys, PaRouter!SemanticKeys, EventWith, Lookup, ScalarKeys,
     ControlKeys, SemanticKeys
<1> QED
  BY <1>1, ValuedEvents

LEMMA PaRouterRows ==
  ASSUME NEW row
  PROVE  IsEvent(PaRouter!NormalizeRow(row))
<1>1. ASSUME NEW d, NEW c
      PROVE  /\ \A k \in DOMAIN PaRouter!ProtocolDetails(d, c) :
                   IsValue(PaRouter!ProtocolDetails(d, c)[k])
             /\ \A k \in DOMAIN PaRouter!ComponentDetails(d, c) :
                   IsValue(PaRouter!ComponentDetails(d, c)[k])
  <2>1. \A k \in DOMAIN PaRouter!ProtocolDetails(d, c) :
          IsValue(PaRouter!ProtocolDetails(d, c)[k])
    BY PaRouterValues DEF PaRouter!ProtocolDetails
  <2>2. \A k \in DOMAIN PaRouter!ComponentDetails(d, c) :
          IsValue(PaRouter!ComponentDetails(d, c)[k])
    BY PaRouterValues DEF PaRouter!ComponentDetails
  <2> QED
    BY <2>1, <2>2
<1>2. ASSUME NEW f
      PROVE  \A k \in DOMAIN PaRouter!RowDetails(f) :
                IsValue(PaRouter!RowDetails(f)[k])
  BY PaRouterValues DEF PaRouter!RowDetails
<1>3. ASSUME NEW f, NEW c
      PROVE  \A k \in DOMAIN PaRouter!BuildDetails(f, c) :
               IsValue(PaRouter!BuildDetails(f, c)[k])
  BY <1>1, <1>2, PaRouterClosed DEF PaRouter!BuildDetails
<1>4. ASSUME NEW f, NEW c
      PROVE  /\ IsValue(PaRouter!BuildObject(f, c)[1])
             /\ IsValue(PaRouter!BuildObject(f, c)[2])
  BY PaRouterValues DEF PaRouter!BuildObject
<1> QED
  BY <1>3, <1>4, PaRouterValues, PaRouterEvents DEF PaRouter!NormalizeRow

\* The PAN-OS system events.
LEMMA PaSystemValues ==
  /\ IsValue(None) /\ \A t : IsValue(PaSystem!Text(t))
  /\ IsValue(PaSystem!PaloAlto)
  /\ \A t : IsValue(PaSystem!Cleaned(t)) /\ IsValue(PaSystem!Timestamp(t))
  /\ \A f, name : IsValue(PaSystem!CleanField(f, name))
  /\ \A t, pattern : IsValue(PaSystem!Extract(t, pattern))
  /\ \A v, w : IsValue(v) /\ IsValue(w) => IsValue(PaSystem!Or(v, w))
  /\ \A t : IsValue(PaSystem!Action(t))
  /\ \A f : IsValue(PaSystem!ServiceName(f))
  /\ \A f : \A k \in DOMAIN PaSystem!Texts(f) : IsValue(PaSystem!Texts(f)[k])
  /\ \A k \in DOMAIN PaSystem!Empty : IsValue(PaSystem!Empty[k])
BY DEF IsValue, Is, PaSystem!Text, PaSystem!Number, PaSystem!Texts,
   PaSystem!Empty, PaSystem!PaloAlto, PaSystem!Cleaned, PaSystem!Timestamp,
   PaSystem!CleanField, PaSystem!Extract, PaSystem!Or, PaSystem!Action,
   PaSystem!ServiceName

LEMMA PaSystemClosed ==
  /\ \A f, g : /\ \A k \in DOMAIN f : IsValue(f[k])
               /\ \A k \in DOMAIN g : IsValue(g[k])
               => \A k \in DOMAIN PaSystem!++(f, g) : IsValue(PaSystem!++(f, g)[k])
  /\ \A f : (\A k \in DOMAIN f : IsValue(f[k]))
             => \A k \in DOMAIN PaSystem!Present(f) : IsValue(PaSystem!Present(f)[k])
BY DEF PaSystem!++, PaSystem!Present

LEMMA PaSystemEvents ==
  ASSUME NEW scalars, NEW details, NEW vendorFields,
         \A k \in DOMAIN scalars : IsValue(scalars[k]),
         \A k \in DOMAIN details : IsValue(details[k]),
         \A k \in DOMAIN vendorFields : IsValue(vendorFields[k])
  PROVE  IsEvent(PaSystem!EventWith(scalars, details, vendorFields))
<1>1. PaSystem!EventWith(scalars, details, vendorFields)
        = EventWith(scalars, details, vendorFields)
  BY DEF PaSystem!EventWith, PaSystem!Lookup, PaSystem!ScalarKeys,
     PaSystem!ControlKeys, PaSystem!SemanticKeys, EventWith, Lookup, ScalarKeys,
     ControlKeys, SemanticKeys
<1> QED
  BY <1>1, ValuedEvents

LEMMA PaSystemRows ==
  ASSUME NEW row
  PROVE  IsEvent(PaSystem!NormalizeRow(row))
<1>1. ASSUME NEW f, NEW c
      PROVE  \A k \in DOMAIN PaSystem!OperationDetails(f, c) :
               IsValue(PaSystem!OperationDetails(f, c)[k])
  BY PaSystemValues DEF PaSystem!OperationDetails
<1>2. ASSUME NEW f, NEW c
      PROVE  \A k \in DOMAIN PaSystem!AssetDetails(f, c) :
               IsValue(PaSystem!AssetDetails(f, c)[k])
  BY PaSystemValues DEF PaSystem!AssetDetails
<1>3. ASSUME NEW f
      PROVE  \A k \in DOMAIN PaSystem!RowDetails(f) :
                IsValue(PaSystem!RowDetails(f)[k])
  BY PaSystemValues DEF PaSystem!RowDetails
<1>4. ASSUME NEW f, NEW c
      PROVE  \A k \in DOMAIN PaSystem!BuildDetails(f, c) :
               IsValue(PaSystem!BuildDetails(f, c)[k])
  BY <1>1, <1>2, <1>3, PaSystemClosed DEF PaSystem!BuildDetails
<1>5. ASSUME NEW f, NEW c
      PROVE  /\ IsValue(PaSystem!BuildObject(f, c)[1])
             /\ IsValue(PaSystem!BuildObject(f, c)[2])
  BY PaSystemValues DEF PaSystem!BuildObject
<1> QED
  BY <1>4, <1>5, PaSystemValues, PaSystemEvents DEF PaSystem!NormalizeRow

\* The demonstration sets a time and traces the evidence.
LEMMA Timed ==
  ASSUME NEW e, IsEvent(e), NEW v, IsValue(v)
  PROVE  IsEvent([e EXCEPT !.fields.timestamp = v])
<1> DEFINE t == [e EXCEPT !.fields.timestamp = v]
<1>1. /\ t = [f \in {"fields", "details", "vendor_fields", "extra"} |-> t[f]]
      /\ t.details = e.details /\ t.vendor_fields = e.vendor_fields
      /\ t.fields = [e.fields EXCEPT !.timestamp = v]
  BY DEF IsEvent, IsRecord
<1>2. /\ t.fields = [k \in ScalarKeys |-> t.fields[k]]
      /\ \A k \in ScalarKeys : IsValue(t.fields[k])
  <2>1. \A k \in ScalarKeys : t.fields[k] = IF k = "timestamp" THEN v ELSE e.fields[k]
    BY <1>1 DEF IsEvent, IsRecord
  <2>2. DOMAIN t.fields = ScalarKeys
    BY <1>1 DEF IsEvent, IsRecord
  <2>3. t.fields = [k \in DOMAIN t.fields |-> t.fields[k]]
    BY <1>1 DEF IsEvent, IsRecord
  <2> QED
    BY <2>1, <2>2, <2>3 DEF IsEvent
<1> HIDE DEF t
<1> QED
  BY <1>1, <1>2 DEF IsEvent, IsRecord, t

LEMMA TracedIsEvent ==
  ASSUME NEW e, IsEvent(e)
  PROVE  IsEvent(Traced(e))
<1> DEFINE t == Traced(e)
<1>1. /\ t = [f \in {"fields", "details", "vendor_fields", "extra"} |-> t[f]]
      /\ t.fields = e.fields /\ t.vendor_fields = e.vendor_fields
      /\ t.details = Put(e.details, "raw_sha256", Text("raw_sha256"))
  BY DEF IsEvent, IsRecord, Traced
<1>2. \A k \in DOMAIN t.details : IsValue(t.details[k])
  BY <1>1, TopValues DEF Put, IsEvent
<1> HIDE DEF t
<1> QED
  BY <1>1, <1>2 DEF IsEvent, IsRecord, t

LEMMA SuricataEvents ==
  ASSUME NEW line, \A k \in DOMAIN line.payload : IsValue(line.payload[k])
  PROVE  IsEvent(SuricataEvent(line).event)
<1> DEFINE payload == line.payload
           scalars == [k \in DOMAIN AlertScalars |-> Lookup(payload, AlertScalars[k])]
             ++ Texts([category |-> "detection_finding", type |-> "ALERT",
                       outcome |-> "UNKNOWN", action |-> "alert",
                       object_type |-> "ids_signature"])
             ++ [severity |-> AlertSeverity(payload),
                 vendor_event_id |-> SignatureId(payload)]
           details == [flow_id |-> Lookup(payload, "flow_id"),
                       signature_revision |-> Lookup(payload, "rev"),
                       tier0_preserved_before_demo_projection |-> Text("True")]
<1>1. \A k : IsValue(Lookup(payload, k))
  BY TopValues DEF Lookup
<1>2. IsValue(AlertSeverity(payload)) /\ IsValue(SignatureId(payload))
  BY TopValues DEF AlertSeverity, SignatureId
<1>3. \A k \in DOMAIN scalars : IsValue(scalars[k])
  BY <1>1, <1>2, TopValues
<1>4. \A k \in DOMAIN details : IsValue(details[k])
  BY <1>1, TopValues
<1>5. IsEvent(EventWith(scalars, details, payload))
  BY <1>3, <1>4, ValuedEvents
<1>6. SuricataEvent(line).event = Traced(EventWith(scalars, details, payload))
  BY DEF SuricataEvent, Prepared
<1> QED
  BY <1>5, <1>6, TracedIsEvent

LEMMA LinuxEvents ==
  ASSUME NEW line
  PROVE  IsEvent(LinuxEvent(line).event)
<1>1. IsEvent(LinuxParse(line))
  BY TopValues, ValuedEvents DEF LinuxParse, LinuxFailure, LinuxCommand, LinuxBase
<1>2. IsValue(LeadingIso(line))
  BY TopValues DEF LeadingIso
<1>3. LinuxEvent(line).event
        = Traced([LinuxParse(line) EXCEPT !.fields.timestamp = LeadingIso(line)])
  BY DEF LinuxEvent, Prepared
<1> QED
  BY <1>1, <1>2, <1>3, Timed, TracedIsEvent

LEMMA CiscoEvents ==
  ASSUME NEW line
  PROVE  IsEvent(CiscoEvent(line).event)
<1> DEFINE event == IF IsWebVpnStart(line) THEN AsaVpn!ConvertLine(line)
                    ELSE Asa!ConvertLine(line)
           time == IsoCisco(event.fields.timestamp)
<1>1. IsEvent(event)
  BY CiscoLines
<1>2. IsValue(time)
  <2>1. IsValue(event.fields.timestamp)
    BY <1>1 DEF IsEvent, ScalarKeys, SemanticKeys
  <2> QED
    BY <2>1, TopValues DEF IsoCisco
<1>3. CiscoEvent(line).event = Traced([event EXCEPT !.fields.timestamp = time])
  BY DEF CiscoEvent, Prepared
<1> QED
  BY <1>1, <1>2, <1>3, Timed, TracedIsEvent

\* What any converter writes is an event.
LEMMA ConvertIsEvent ==
  ASSUME NEW run \in Jobs, NEW i \in DOMAIN run.logs
  PROVE  IsEvent(Convert(run.converter, Logs[run.logs[i]]))
<1> DEFINE log == Logs[run.logs[i]]
<1>1. run.logs[i] \in DOMAIN Logs /\ run.converter \in Converters
  BY JobsAssumption
<1>2. CASE run.converter = "demo"
  <2>1. log.source \in {"cisco", "suricata", "linux"}
    BY <1>2, SourcesAssumption DEF Sources
  <2>2. \A k \in DOMAIN log.payload : IsValue(log.payload[k])
    BY <1>1, PayloadsAreValues
  <2> HIDE DEF log
  <2>3. IsEvent(PrepareLine(log).event)
    BY <2>1, <2>2, CiscoEvents, SuricataEvents, LinuxEvents DEF PrepareLine
  <2> QED
    BY <1>2, <2>3 DEF Convert, log
<1>3. CASE run.converter \in LineConverters
  BY <1>3, CiscoLines, RoutingLines DEF Convert, LineConverters, CiscoConverters
<1>4. CASE run.converter \in TableConverters \cup ListParsers
  BY <1>4, FgTrafficRows, FgVpnLogs, FgSystemLogs, PaTrafficRows, PaVpnRows,
     PaRouterRows, PaSystemRows
  DEF Convert, TableConverters, ListParsers, PanosParsers
<1> QED
  BY <1>1, <1>2, <1>3, <1>4 DEF Converters

-----------------------------------------------------------------------------
(***************************************************************************)
(* The positions and counters stay within the input: a place is never      *)
(* beyond its line, and only the line converters count.                    *)
(***************************************************************************)
LEMMA PlaceWithin ==
  ASSUME NEW n \in Nat
  PROVE  Place(n) <= n
<1>1. IsFiniteSet(1 .. n) /\ Cardinality(1 .. n) = n
  BY FS_Interval
<1>2. KeptUpTo(n) \subseteq 1 .. n
  BY DEF KeptUpTo
<1> QED
  BY <1>1, <1>2, FS_Subset DEF Place

Within ==
  /\ \A k \in DOMAIN events : events[k].number \in 1 .. at
  /\ job.converter \notin LineConverters => parsed = 0 /\ unparsed = 0

LEMMA WithinInit == Init => Within
BY DEF Init, Within

\* The number of the next record is that of the next line or less.
LEMMA AppendKeepsWithin ==
  ASSUME Inv, Within, Read, job' = job, at' = at + 1,
         events' = Append(events, EventOf(Line(at + 1))),
         job.converter \notin LineConverters => UNCHANGED <<parsed, unparsed>>
  PROVE  Within'
<1>1. at \in Nat /\ Len(events) \in Nat /\ Len(events) <= at
  BY PlaceWithin DEF Inv, Shape, EveryLineOnce
<1>2. RecordNumber \in 1 .. at + 1
  BY <1>1 DEF RecordNumber
<1>3. /\ DOMAIN events' = 1 .. Len(events) + 1
      /\ \A k \in 1 .. Len(events) : events'[k] = events[k] /\ k \in DOMAIN events
      /\ events'[Len(events) + 1] = EventOf(Line(at + 1))
  <2> HIDE DEF Entries
  <2> QED
    BY DEF Inv, Shape
<1>4. ASSUME NEW k \in DOMAIN events'
      PROVE  events'[k].number \in 1 .. at + 1
  <2>1. CASE k = Len(events) + 1
    BY <1>2, <1>3, <2>1 DEF EventOf
  <2>2. CASE k \in 1 .. Len(events)
    BY <1>1, <1>3, <2>2 DEF Within
  <2> QED
    BY <1>3, <2>1, <2>2
<1> QED
  BY <1>4 DEF Within

LEMMA WithinNext == Inv /\ Within /\ [Next]_vars => Within'
<1> SUFFICES ASSUME Inv, Within, [Next]_vars PROVE Within'
  OBVIOUS
<1>1. CASE ConvertLine
  BY <1>1, AppendKeepsWithin DEF ConvertLine
<1>2. CASE ConvertRow \/ PrepareRecord
  BY <1>2, AppendKeepsWithin DEF ConvertRow, PrepareRecord
<1>3. CASE SkipLine \/ RefuseRecord \/ Finish \/ Publish \/ Abort \/ UNCHANGED vars
  <2>1. /\ job' = job /\ events' = events /\ at' \in {at, at + 1}
        /\ parsed' = parsed /\ unparsed' = unparsed
    BY <1>3 DEF SkipLine, RefuseRecord, Finish, Publish, Abort, vars
  <2>2. at \in Nat
    BY DEF Inv, Shape
  <2> QED
    BY <2>1, <2>2 DEF Within
<1> QED
  BY <1>1, <1>2, <1>3 DEF Next

(***************************************************************************)
(* Every converter writes complete events whatever the lines are (the      *)
(* parsers and empty_common_event of each of them), and numbers and counts *)
(* within the input (main() of the converters).                            *)
(***************************************************************************)
THEOREM VendorTypeCorrect == Spec => []TypeOK
<1>1. Inv /\ Converted /\ Within => TypeOK
  <2> SUFFICES ASSUME Inv, Converted, Within PROVE TypeOK
    OBVIOUS
  <2>1. /\ job \in Jobs /\ at \in 0 .. Len(job.logs) /\ at \in Nat
        /\ phase \in {"reading", "done", "failed"}
    BY JobsAssumption DEF Inv, Shape
  <2>2. parsed \in 0 .. at /\ unparsed \in 0 .. at
    <3>1. parsed \in Nat /\ unparsed \in Nat
      BY DEF Inv, Shape
    <3>2. CASE job.converter \in LineConverters
      <4>1. parsed + unparsed <= at
        BY <2>1, <3>2, PlaceWithin DEF Inv, EveryLineOnce
      <4> QED
        BY <2>1, <3>1, <4>1
    <3>3. CASE job.converter \notin LineConverters
      BY <2>1, <3>3 DEF Within
    <3> QED
      BY <3>2, <3>3
  <2>3. ASSUME NEW k \in DOMAIN raws
        PROVE  IsRecord(raws[k], {"number", "text"})
    <3>1. raws[k] \in Texts0
      BY DEF Inv, Shape
    <3> QED
      BY <3>1 DEF Texts0, IsRecord
  <2>4. ASSUME NEW k \in DOMAIN events
        PROVE  events[k].number \in 1 .. at /\ IsEvent(events[k].event)
    <3>1. PICK i \in 1 .. at : events[k].event = Convert(job.converter, Line(i))
      BY DEF Converted
    <3>2. i \in DOMAIN job.logs
      BY <2>1, <3>1, JobsAssumption
    <3>3. IsEvent(Convert(job.converter, Logs[job.logs[i]]))
      BY <2>1, <3>2, ConvertIsEvent
    <3> QED
      BY <3>1, <3>3 DEF Within, Line
  <2> QED
    BY <2>1, <2>2, <2>3, <2>4 DEF TypeOK
<1>2. Init => Inv /\ Converted /\ Within
  BY InvInit, ConvertedInit, WithinInit
<1>3. Inv /\ Converted /\ Within /\ [Next]_vars => Inv' /\ Converted' /\ Within'
  BY InvNext, ConvertedNext, WithinNext
<1> QED
  BY <1>1, <1>2, <1>3, PTL DEF Spec
=============================================================================
