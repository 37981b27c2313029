----------------------- MODULE OutputArtifactsProofs -----------------------
(***************************************************************************)
(* Proofs about the output files, for any number of runs, events, batches  *)
(* and lines.                                                              *)
(***************************************************************************)
EXTENDS OutputArtifacts, PositionLemmas

(***************************************************************************)
(* What the files hold follows from what a run holds: a stream run is      *)
(* about one event, everything a run is about to write is in the evidence  *)
(* store, and what it hands to the SIEM was read from the OCSF file.       *)
(***************************************************************************)
Stream(r) == run[r].at = "append" \/ (run[r].at = "store" /\ ~run[r].batch)

StoredSoFar(r) ==
  \A k \in 1 .. Len(run[r].input) :
    k <= run[r].done \/ run[r].at # "store" => run[r].input[k] \in evidence

RunInv(r) ==
  /\ Stream(r) => Len(run[r].input) = 1
  /\ run[r].at \in {"store", "stage", "append", "replace"} => StoredSoFar(r)
  /\ run[r].at \in {"open", "write"} => run[r].buffer \in versions

TraceInv ==
  /\ TypeOK
  /\ ArtifactsTraceable
  /\ MergedIsOcsf
  /\ files["ocsf"] \in versions
  /\ \A r \in Runs : RunInv(r)

-----------------------------------------------------------------------------
(***************************************************************************)
(* The lines of a file after an append are lines; one that is an event is  *)
(* the new one or was there before.                                        *)
(***************************************************************************)
LEMMA AppendedLines ==
  ASSUME NEW lines \in Seq(Lines), NEW line \in Lines
  PROVE  /\ Appended(lines, line) \in Seq(Lines)
         /\ \A i \in DOMAIN Appended(lines, line) :
              \/ Appended(lines, line)[i] \in {line, Torn, Bad}
              \/ \E j \in DOMAIN lines : Appended(lines, line)[i] = lines[j]
<1> DEFINE n == Len(lines)
<1>0. n \in Nat /\ DOMAIN lines = 1 .. n /\ \A i \in 1 .. n : lines[i] \in Lines
  BY LenProperties, ElementOfSeq
<1>1. CASE lines # << >> /\ Last(lines) = Torn
  <2> DEFINE new == IF line = Torn THEN Torn ELSE Bad
             front == Front(lines)
             after == Append(front, new)
  <2>1. new \in Lines /\ new \in {Torn, Bad} /\ n \in Nat \ {0}
    BY <1>1, <1>0, EmptySeq DEF Lines
  <2>2. /\ front = SubSeq(lines, 1, n - 1) /\ 1 \in Int /\ n - 1 \in Nat
        /\ \A i \in 1 .. n - 1 : lines[i] \in Lines
    BY <1>0, <2>1 DEF Front
  <2>3. /\ SubSeq(lines, 1, n - 1) \in Seq(Lines)
        /\ Len(SubSeq(lines, 1, n - 1)) = IF 1 <= n - 1 THEN n - 1 - 1 + 1 ELSE 0
        /\ \A i \in 1 .. n - 1 - 1 + 1 :
             SubSeq(lines, 1, n - 1)[i] = lines[1 + i - 1]
    <3> HIDE DEF n
    <3> QED BY <2>1, <2>2, SubSeqProperties
  <2>4. /\ front \in Seq(Lines) /\ Len(front) = n - 1
        /\ \A i \in 1 .. n - 1 : front[i] = lines[i]
    <3> HIDE DEF n, front
    <3> QED BY <2>1, <2>2, <2>3
  <2>5. Appended(lines, line) = after
    BY <1>1 DEF Appended
  <2>6. /\ after \in Seq(Lines) /\ DOMAIN after = 1 .. n
        /\ \A i \in 1 .. n - 1 : after[i] = lines[i]
        /\ after[n] = new
    <3> HIDE DEF n, front, new
    <3> QED BY <2>1, <2>4, AppendProperties, LenProperties
  <2>7. \A i \in 1 .. n : i \in 1 .. n - 1 \/ i = n
    BY <2>1
  <2> HIDE DEF n, new, front, after
  <2> QED
    BY <1>0, <2>1, <2>5, <2>6, <2>7
<1>2. CASE ~(lines # << >> /\ Last(lines) = Torn)
  <2>1. Appended(lines, line) = Append(lines, line)
    BY <1>2 DEF Appended
  <2>2. /\ Append(lines, line) \in Seq(Lines)
        /\ DOMAIN Append(lines, line) = 1 .. Len(lines) + 1
        /\ \A i \in 1 .. Len(lines) : Append(lines, line)[i] = lines[i]
        /\ Append(lines, line)[Len(lines) + 1] = line
    BY AppendProperties, LenProperties
  <2>3. DOMAIN lines = 1 .. Len(lines) /\ Len(lines) \in Nat
    BY LenProperties
  <2> QED
    BY <2>1, <2>2, <2>3
<1> QED
  BY <1>1, <1>2

LEMMA EventsAreLines == Seq(Events) \subseteq Seq(Lines)
BY AllElementsInSeq, ElementOfSeq DEF Lines

\* The four markers are no contents and no events.
LEMMA Markers ==
  /\ Torn \notin Seq(Events) /\ Missing \notin Seq(Events)
  /\ Truncated \notin Seq(Events)
  /\ Torn \notin Events /\ Bad \notin Events
BY OutputAssumption

\* A larger store still has what is in it.
LEMMA EvidenceGrows ==
  ASSUME evidence \subseteq evidence', NEW lines, InEvidence(lines)
  PROVE  InEvidence(lines)'
BY DEF InEvidence

LEMMA IdleIsRun == Idle \in Run
<1>1. << >> \in Seq(Events)
  OBVIOUS
<1> QED
  BY <1>1 DEF Idle, Run, Steps, Files

\* One process goes on, the others stay.
LEMMA OneRun ==
  ASSUME TypeOK, NEW r \in Runs, NEW x \in Run, run' = [run EXCEPT ![r] = x]
  PROVE  /\ run' \in [Runs -> Run]
         /\ run'[r] = x
         /\ \A q \in Runs \ {r} : run'[q] = run[q]
BY DEF TypeOK

-----------------------------------------------------------------------------
(***************************************************************************)
(* A step of one run leaves what holds of the others: evidence and the     *)
(* contents of the OCSF file only grow, and of another run it changes at   *)
(* most the handle and whether it is alone.                                *)
(***************************************************************************)
SameWork(q) ==
  /\ run'[q].at = run[q].at /\ run'[q].batch = run[q].batch
  /\ run'[q].input = run[q].input /\ run'[q].done = run[q].done
  /\ run'[q].buffer = run[q].buffer

LEMMA OthersKeep ==
  ASSUME NEW q \in Runs, TraceInv, SameWork(q),
         evidence \subseteq evidence', versions \subseteq versions'
  PROVE  RunInv(q)' /\ InEvidence(run[q].buffer)'
<1>1. InEvidence(run[q].buffer)'
  BY DEF TraceInv, ArtifactsTraceable, InEvidence, SameWork
<1>2. RunInv(q)
  BY DEF TraceInv
<1>3. RunInv(q)'
  BY <1>2 DEF RunInv, Stream, StoredSoFar, SameWork
<1> QED
  BY <1>1, <1>3

(***************************************************************************)
(* What a step has to keep: the types, the files and the SIEM's input, and *)
(* what holds of the run that takes it.                                    *)
(***************************************************************************)
LEMMA StepKeeps ==
  ASSUME NEW r \in Runs, TraceInv,
         TypeOK',
         evidence \subseteq evidence', versions \subseteq versions',
         \A q \in Runs \ {r} : SameWork(q),
         RunInv(r)', InEvidence(run[r].buffer)',
         (\A f \in Files : InEvidence(files[f]))',
         (merged \in Seq(Events) =>
            InEvidence(merged) /\ merged \in versions)',
         (files["ocsf"] \in versions)'
  PROVE  TraceInv'
<1>1. \A q \in Runs \ {r} : RunInv(q)' /\ InEvidence(run[q].buffer)'
  BY OthersKeep
<1> QED
  BY <1>1 DEF TraceInv, ArtifactsTraceable, MergedIsOcsf

(***************************************************************************)
(* A step that changes nothing but what one run holds.                     *)
(***************************************************************************)
LEMMA RunGoesOn ==
  ASSUME NEW r \in Runs, TraceInv, NEW x \in Run,
         run' = [run EXCEPT ![r] = x], disturbed' \in BOOLEAN,
         UNCHANGED <<evidence, files, merged, versions>>,
         RunInv(r)', InEvidence(x.buffer)
  PROVE  TraceInv'
<1>1. run' \in [Runs -> Run] /\ run'[r] = x /\ \A q \in Runs \ {r} : SameWork(q)
  BY OneRun DEF TraceInv, SameWork
<1>2. TypeOK'
  BY <1>1 DEF TraceInv, TypeOK
<1>3. /\ InEvidence(run[r].buffer)'
      /\ (\A f \in Files : InEvidence(files[f]))'
      /\ (merged \in Seq(Events) => InEvidence(merged) /\ merged \in versions)'
      /\ (files["ocsf"] \in versions)'
  BY <1>1 DEF TraceInv, ArtifactsTraceable, MergedIsOcsf, InEvidence
<1> QED
  BY <1>1, <1>2, <1>3, StepKeeps

\* An idle run holds nothing.
LEMMA IdleHolds ==
  ASSUME NEW r \in Runs, run'[r] = Idle
  PROVE  RunInv(r)' /\ InEvidence(run[r].buffer)'
BY DEF Idle, RunInv, Stream, InEvidence

-----------------------------------------------------------------------------
\* A run's record, taken apart.
LEMMA RunFields ==
  ASSUME TraceInv, NEW r \in Runs
  PROVE  /\ run \in [Runs -> Run] /\ run[r] \in Run
         /\ run[r].input \in Seq(Events) /\ run[r].done \in Nat
         /\ run[r].file \in Files /\ run[r].at \in Steps
         /\ run[r].batch \in BOOLEAN /\ run[r].buffer \in Seq(Events)
         /\ RunInv(r) /\ InEvidence(run[r].buffer)
BY DEF TraceInv, TypeOK, ArtifactsTraceable, Run

LEMMA InitTrace == Init => TraceInv
<1> SUFFICES ASSUME Init PROVE TraceInv
  OBVIOUS
<1>1. << >> \in Seq(Lines)
  OBVIOUS
<1>2. TypeOK
  BY <1>1, IdleIsRun DEF Init, TypeOK
<1>3. \A f \in Files : InEvidence(files[f])
  BY DEF Init, InEvidence
<1>4. \A r \in Runs : RunInv(r) /\ InEvidence(run[r].buffer)
  BY DEF Init, Idle, RunInv, Stream, InEvidence
<1>5. merged \notin Seq(Events)
  BY Markers DEF Init
<1>6. files["ocsf"] \in versions
  BY DEF Init, Files
<1> QED
  BY <1>2, <1>3, <1>4, <1>5, <1>6 DEF TraceInv, ArtifactsTraceable, MergedIsOcsf

(***************************************************************************)
(* A run starts: it is about one event if it is a stream run, and others   *)
(* lose nothing but being alone.                                           *)
(***************************************************************************)
LEMMA StartTrace ==
  ASSUME TraceInv, NEW r \in Runs, NEW batch \in BOOLEAN,
         NEW input \in Seq(Events), ~batch => Len(input) = 1,
         Start(r, batch, input)
  PROVE  TraceInv'
<1> DEFINE x == [Idle EXCEPT !.at = "store", !.batch = batch,
                             !.input = input, !.alone = Others(r) = {}]
<1>1. x \in Run
  BY IdleIsRun DEF Run, Steps, Idle
<1>2. \A q \in Runs : [run[q] EXCEPT !.alone = FALSE] \in Run
  BY DEF TraceInv, TypeOK, Run
<1>3. run' = [q \in Runs |-> IF q = r THEN x ELSE [run[q] EXCEPT !.alone = FALSE]]
  BY DEF Start
<1>4. run' \in [Runs -> Run] /\ run'[r] = x
  <2> HIDE DEF x
  <2> QED BY <1>1, <1>2, <1>3
<1>5. \A q \in Runs \ {r} : SameWork(q)
  <2> SUFFICES ASSUME NEW q \in Runs \ {r} PROVE SameWork(q)
    OBVIOUS
  <2>1. run'[q] = [run[q] EXCEPT !.alone = FALSE]
    BY <1>3
  <2> QED BY <2>1, RunFields DEF SameWork, Run
<1>6. RunInv(r)' /\ InEvidence(run[r].buffer)'
  BY <1>4 DEF Idle, RunInv, Stream, StoredSoFar, InEvidence
<1>7. TypeOK'
  BY <1>4 DEF TraceInv, TypeOK, Start
<1>8. /\ (\A f \in Files : InEvidence(files[f]))'
      /\ (merged \in Seq(Events) => InEvidence(merged) /\ merged \in versions)'
      /\ (files["ocsf"] \in versions)'
      /\ evidence \subseteq evidence' /\ versions \subseteq versions'
  BY DEF Start, TraceInv, ArtifactsTraceable, MergedIsOcsf, InEvidence
<1> QED
  BY <1>5, <1>6, <1>7, <1>8, StepKeeps

\* The next event of the input is stored, or all of it is.
LEMMA StoreEventTrace ==
  ASSUME TraceInv, NEW r \in Runs, StoreEvent(r)
  PROVE  TraceInv'
<1> DEFINE k == run[r].done + 1
<1>1. CASE k <= Len(run[r].input)
  <2> DEFINE x == [run[r] EXCEPT !.done = k]
  <2>1. x \in Run /\ k \in 1 .. Len(run[r].input)
    <3>1. run[r].done \in Nat /\ run[r] \in Run
      BY RunFields
    <3>2. Len(run[r].input) \in Nat
      BY RunFields, LenProperties
    <3>3. k \in Nat /\ k \in 1 .. Len(run[r].input)
      BY <1>1, <3>1, <3>2
    <3> HIDE DEF k
    <3> QED BY <3>1, <3>3 DEF Run
  <2>2. /\ run' = [run EXCEPT ![r] = x]
        /\ evidence' = evidence \cup {run[r].input[k]}
        /\ run[r].at = "store"
        /\ UNCHANGED <<files, merged, versions, disturbed>>
    BY <1>1 DEF StoreEvent
  <2>3. /\ run' \in [Runs -> Run] /\ run'[r] = x
        /\ \A q \in Runs \ {r} : SameWork(q)
    <3> HIDE DEF x
    <3> QED BY <2>1, <2>2, OneRun DEF TraceInv, SameWork
  <2>4. run[r].input[k] \in Events
    BY <2>1, RunFields, ElementOfSeq
  <2>5. TypeOK'
    BY <2>2, <2>3, <2>4 DEF TraceInv, TypeOK
  <2>6. /\ run'[r].at = "store" /\ run'[r].batch = run[r].batch
        /\ run'[r].input = run[r].input /\ run'[r].done = k
        /\ run'[r].buffer = run[r].buffer
    BY <2>2, <2>3, RunFields DEF Run
  <2>7. StoredSoFar(r)'
    <3>1. StoredSoFar(r)
      BY <2>2, RunFields DEF RunInv
    <3>2. SUFFICES ASSUME NEW j \in 1 .. Len(run[r].input), j <= k
                   PROVE  run[r].input[j] \in evidence'
      BY <2>6 DEF StoredSoFar
    <3>3. j <= run[r].done \/ j = k
      BY <3>2, RunFields
    <3> QED BY <3>1, <3>3, <2>2 DEF StoredSoFar
  <2>8. RunInv(r)' /\ InEvidence(run[r].buffer)'
    <3>1. RunInv(r) /\ InEvidence(run[r].buffer)
      BY RunFields
    <3> QED BY <3>1, <2>2, <2>6, <2>7 DEF RunInv, Stream, InEvidence
  <2>9. /\ (\A f \in Files : InEvidence(files[f]))'
        /\ (merged \in Seq(Events) => InEvidence(merged) /\ merged \in versions)'
        /\ (files["ocsf"] \in versions)'
        /\ evidence \subseteq evidence' /\ versions \subseteq versions'
    BY <2>2 DEF TraceInv, ArtifactsTraceable, MergedIsOcsf, InEvidence
  <2> QED
    BY <2>3, <2>5, <2>8, <2>9, StepKeeps
<1>2. CASE ~(k <= Len(run[r].input))
  <2> DEFINE x == [run[r] EXCEPT !.at = IF run[r].batch THEN "stage" ELSE "append"]
  <2>1. x \in Run
    BY RunFields DEF Run, Steps
  <2>2. /\ run' = [run EXCEPT ![r] = x]
        /\ UNCHANGED <<evidence, files, merged, versions, disturbed>>
        /\ run[r].at = "store"
    BY <1>2 DEF StoreEvent
  <2>3. /\ run'[r].at = IF run[r].batch THEN "stage" ELSE "append"
        /\ run'[r].input = run[r].input /\ x.buffer = run[r].buffer
    BY <2>2, RunFields DEF Run
  <2>4. StoredSoFar(r)'
    <3>1. StoredSoFar(r)
      BY <2>2, RunFields DEF RunInv
    <3>2. \A j \in 1 .. Len(run[r].input) : j <= run[r].done
      BY <1>2, RunFields, LenProperties
    <3> QED BY <3>1, <3>2, <2>2, <2>3 DEF StoredSoFar
  <2>5. RunInv(r)'
    <3>1. RunInv(r) /\ run[r].batch \in BOOLEAN
      BY RunFields
    <3> QED BY <3>1, <2>2, <2>3, <2>4 DEF RunInv, Stream
  <2>6. disturbed' \in BOOLEAN /\ InEvidence(x.buffer)
    BY <2>2, <2>3, RunFields DEF TraceInv, TypeOK
  <2> HIDE DEF x
  <2> QED
    BY <2>1, <2>2, <2>5, <2>6, RunGoesOn
<1> QED
  BY <1>1, <1>2

-----------------------------------------------------------------------------
\* A line about stored evidence, or no event at all, goes to a file.
LEMMA WrittenKeeps ==
  ASSUME TraceInv, NEW r \in Runs, NEW line \in Lines,
         line \in Events => line \in evidence,
         Written(r, line), UNCHANGED evidence
  PROVE  /\ files' \in [Files -> Seq(Lines)]
         /\ (\A f \in Files : InEvidence(files[f]))'
         /\ versions \subseteq versions' /\ versions' \subseteq Seq(Lines)
         /\ (files["ocsf"] \in versions)'
<1> DEFINE g == run[r].file
           after == Appended(files[g], line)
<1>1. /\ files \in [Files -> Seq(Lines)] /\ g \in Files /\ files[g] \in Seq(Lines)
      /\ versions \subseteq Seq(Lines) /\ "ocsf" \in Files
  BY RunFields DEF TraceInv, TypeOK, Files
<1>2. after \in Seq(Lines)
  <2> HIDE DEF g
  <2> QED BY <1>1, AppendedLines
<1>3. InEvidence(after)
  <2> SUFFICES ASSUME NEW i \in DOMAIN after, after[i] \in Events
               PROVE  after[i] \in evidence
    BY DEF InEvidence
  <2>1. \/ after[i] \in {line, Torn, Bad}
        \/ \E j \in DOMAIN files[g] : after[i] = files[g][j]
    <3> HIDE DEF g
    <3> QED BY <1>1, AppendedLines
  <2>2. InEvidence(files[g])
    BY <1>1 DEF TraceInv, ArtifactsTraceable
  <2> HIDE DEF g, after
  <2> QED BY <2>1, <2>2, Markers DEF InEvidence
<1>4. files' = files \/ files' = [files EXCEPT ![g] = after]
  BY DEF Written
<1>5. \A f \in Files : files'[f] \in Seq(Lines) /\ InEvidence(files'[f])
  <2>1. \A f \in Files : files[f] \in Seq(Lines) /\ InEvidence(files[f])
    BY <1>1 DEF TraceInv, ArtifactsTraceable
  <2> HIDE DEF g, after
  <2> QED BY <1>1, <1>2, <1>3, <1>4, <2>1
<1>6. files' \in [Files -> Seq(Lines)]
  <2> HIDE DEF g, after
  <2> QED BY <1>1, <1>2, <1>4
<1>7. (\A f \in Files : InEvidence(files[f]))'
  BY <1>5 DEF InEvidence
<1>8. versions' = versions \cup {files'["ocsf"]}
  BY DEF Written
<1> HIDE DEF g, after
<1> QED
  BY <1>1, <1>6, <1>7, <1>8

\* What the SIEM was given stays so while nothing writes it.
LEMMA MergedStays ==
  ASSUME TraceInv, UNCHANGED merged, evidence \subseteq evidence',
         versions \subseteq versions'
  PROVE  (merged \in Seq(Events) => InEvidence(merged) /\ merged \in versions)'
BY DEF TraceInv, ArtifactsTraceable, MergedIsOcsf, InEvidence

LEMMA AppendOpenTrace ==
  ASSUME TraceInv, NEW r \in Runs, AppendOpen(r)
  PROVE  TraceInv'
<1> DEFINE x == [run[r] EXCEPT !.handle = "open"]
<1>1. x \in Run
  BY RunFields DEF Run
<1>2. /\ run' = [run EXCEPT ![r] = x]
      /\ UNCHANGED <<evidence, files, merged, versions, disturbed>>
  BY DEF AppendOpen
<1>3. /\ run'[r].at = run[r].at /\ run'[r].batch = run[r].batch
      /\ run'[r].input = run[r].input /\ run'[r].done = run[r].done
      /\ run'[r].buffer = run[r].buffer /\ x.buffer = run[r].buffer
  BY <1>2, RunFields DEF Run
<1>4. RunInv(r)'
  <2>1. RunInv(r)
    BY RunFields
  <2> QED BY <2>1, <1>2, <1>3 DEF RunInv, Stream, StoredSoFar
<1>5. disturbed' \in BOOLEAN /\ InEvidence(x.buffer)
  BY <1>2, <1>3, RunFields DEF TraceInv, TypeOK
<1> HIDE DEF x
<1> QED
  BY <1>1, <1>2, <1>4, <1>5, RunGoesOn

\* The next step of a run that is appending or publishing.
LEMMA NextStepFields ==
  ASSUME TraceInv, NEW r \in Runs, run[r].at \in {"append", "replace"}
  PROVE  /\ NextStep(r) \in Run
         /\ NextStep(r).at \in {run[r].at, "adapt"}
         /\ NextStep(r).batch = run[r].batch
         /\ NextStep(r).input = run[r].input
         /\ NextStep(r).done = run[r].done
         /\ NextStep(r).buffer = run[r].buffer
<1> DEFINE x == [run[r] EXCEPT !.at = "adapt"]
           y == [run[r] EXCEPT !.file = NextFile[run[r].file]]
<1>1. run[r] \in Run /\ run[r].file \in Files
  BY RunFields
<1>2. CASE run[r].file = "ocsf"
  <2>1. NextStep(r) = x
    BY <1>2 DEF NextStep
  <2>2. x \in Run
    BY <1>1 DEF Run, Steps
  <2> QED BY <1>1, <2>1, <2>2 DEF Run
<1>3. CASE run[r].file # "ocsf"
  <2>1. NextStep(r) = y
    BY <1>3 DEF NextStep
  <2>2. NextFile[run[r].file] \in Files
    BY <1>1, <1>3 DEF Files, NextFile
  <2>3. y \in Run
    BY <1>1, <2>2 DEF Run
  <2> QED BY <1>1, <2>1, <2>3 DEF Run
<1> QED
  BY <1>2, <1>3

(***************************************************************************)
(* One line of a stream run: it is about the run's one event, which is     *)
(* stored.                                                                 *)
(***************************************************************************)
LEMMA AppendWriteTrace ==
  ASSUME TraceInv, NEW r \in Runs, AppendWrite(r)
  PROVE  TraceInv'
<1> DEFINE x == [NextStep(r) EXCEPT !.handle = "none"]
<1>1. /\ run[r].at = "append" /\ Written(r, run[r].input[1])
      /\ run' = [run EXCEPT ![r] = x]
      /\ UNCHANGED <<evidence, merged, disturbed>>
  BY DEF AppendWrite
<1>2. /\ x \in Run /\ x.at \in {"append", "adapt"} /\ x.batch = run[r].batch
      /\ x.input = run[r].input /\ x.done = run[r].done
      /\ x.buffer = run[r].buffer
  BY <1>1, NextStepFields DEF Run
<1>3. RunInv(r) /\ Len(run[r].input) = 1 /\ StoredSoFar(r)
  BY <1>1, RunFields DEF RunInv, Stream
<1>4. run[r].input[1] \in Events /\ run[r].input[1] \in evidence
  BY <1>1, <1>3, RunFields, ElementOfSeq DEF StoredSoFar
<1>5. /\ files' \in [Files -> Seq(Lines)]
      /\ (\A f \in Files : InEvidence(files[f]))'
      /\ versions \subseteq versions' /\ versions' \subseteq Seq(Lines)
      /\ (files["ocsf"] \in versions)'
  BY <1>1, <1>4, WrittenKeeps DEF Lines
<1>6. run' \in [Runs -> Run] /\ run'[r] = x /\ \A q \in Runs \ {r} : SameWork(q)
  <2> HIDE DEF x
  <2> QED BY <1>1, <1>2, OneRun DEF TraceInv, SameWork
<1>7. TypeOK'
  BY <1>1, <1>5, <1>6 DEF TraceInv, TypeOK
<1>8. RunInv(r)' /\ InEvidence(run[r].buffer)'
  <2> HIDE DEF x
  <2>1. StoredSoFar(r)'
    BY <1>1, <1>2, <1>3, <1>6 DEF StoredSoFar
  <2>2. InEvidence(run[r].buffer)
    BY RunFields
  <2> QED
    BY <1>1, <1>2, <1>3, <1>6, <2>1, <2>2 DEF RunInv, Stream, InEvidence
<1>9. (merged \in Seq(Events) => InEvidence(merged) /\ merged \in versions)'
  BY <1>1, <1>5, MergedStays
<1> QED
  BY <1>1, <1>5, <1>6, <1>7, <1>8, <1>9, StepKeeps

LEMMA StageTrace ==
  ASSUME TraceInv, NEW r \in Runs, Stage(r)
  PROVE  TraceInv'
<1> DEFINE x == [run[r] EXCEPT !.at = "replace"]
<1>1. /\ run[r].at = "stage"
      /\ run' = [run EXCEPT ![r] = Idle] \/ run' = [run EXCEPT ![r] = x]
      /\ UNCHANGED <<evidence, files, merged, versions, disturbed>>
  BY DEF Stage
<1>2. disturbed' \in BOOLEAN
  BY <1>1 DEF TraceInv, TypeOK
<1>3. CASE run' = [run EXCEPT ![r] = Idle]
  <2>1. run'[r] = Idle
    BY <1>3, IdleIsRun, OneRun DEF TraceInv
  <2>2. RunInv(r)' /\ InEvidence(Idle.buffer)
    BY <2>1, IdleHolds DEF Idle, InEvidence
  <2> QED
    BY <1>1, <1>2, <1>3, <2>2, IdleIsRun, RunGoesOn
<1>4. CASE run' = [run EXCEPT ![r] = x]
  <2>1. x \in Run
    BY RunFields DEF Run, Steps
  <2>2. /\ run'[r].at = "replace" /\ run'[r].input = run[r].input
        /\ x.buffer = run[r].buffer
    BY <1>4, RunFields DEF Run
  <2>3. RunInv(r)'
    <3>1. RunInv(r)
      BY RunFields
    <3> QED BY <3>1, <1>1, <2>2 DEF RunInv, Stream, StoredSoFar
  <2>4. InEvidence(x.buffer)
    BY <2>2, RunFields
  <2> HIDE DEF x
  <2> QED
    BY <1>1, <1>2, <1>4, <2>1, <2>3, <2>4, RunGoesOn
<1> QED
  BY <1>1, <1>3, <1>4

-----------------------------------------------------------------------------
(***************************************************************************)
(* One staged file is published: it has the batch's events, all of them    *)
(* stored.  Handles on the old file go stale.                              *)
(***************************************************************************)
LEMMA ReplaceTrace ==
  ASSUME TraceInv, NEW r \in Runs, Replace(r)
  PROVE  TraceInv'
<1> DEFINE f == run[r].file
           input == run[r].input
           stale(q) == [run[q] EXCEPT !.handle = "stale"]
<1>1. /\ run[r].at = "replace"
      /\ files' = [files EXCEPT ![f] = input]
      /\ versions' = versions \cup {files'["ocsf"]}
      /\ run' = [q \in Runs |->
           IF q = r THEN NextStep(r)
           ELSE IF run[q].handle = "open" /\ run[q].file = f THEN stale(q)
           ELSE run[q]]
      /\ disturbed' = (disturbed /\ ~(f = "ocsf" /\ run[r].alone))
      /\ UNCHANGED <<evidence, merged>>
  BY DEF Replace
<1>2. /\ NextStep(r) \in Run /\ NextStep(r).at \in {"replace", "adapt"}
      /\ NextStep(r).batch = run[r].batch /\ NextStep(r).input = input
      /\ NextStep(r).done = run[r].done /\ NextStep(r).buffer = run[r].buffer
  BY <1>1, NextStepFields
<1>3. \A q \in Runs : run[q] \in Run /\ stale(q) \in Run
  BY DEF TraceInv, TypeOK, Run
<1>4. run' \in [Runs -> Run] /\ run'[r] = NextStep(r)
  <2> HIDE DEF f, stale
  <2> QED BY <1>1, <1>2, <1>3
<1>5. \A q \in Runs \ {r} : SameWork(q)
  <2> SUFFICES ASSUME NEW q \in Runs \ {r} PROVE SameWork(q)
    OBVIOUS
  <2>1. run'[q] = stale(q) \/ run'[q] = run[q]
    <3> HIDE DEF f, stale
    <3> QED BY <1>1
  <2> QED BY <2>1, <1>3 DEF SameWork, Run
<1>6. /\ files \in [Files -> Seq(Lines)] /\ f \in Files /\ input \in Seq(Lines)
      /\ "ocsf" \in Files /\ versions \subseteq Seq(Lines) /\ input \in Seq(Events)
  BY RunFields, EventsAreLines DEF TraceInv, TypeOK, Files
<1>7. files' \in [Files -> Seq(Lines)] /\ versions' \subseteq Seq(Lines)
  <2> HIDE DEF f, input
  <2> QED BY <1>1, <1>6
<1>8. RunInv(r) /\ StoredSoFar(r) /\ InEvidence(run[r].buffer)
  BY <1>1, RunFields DEF RunInv
<1>9. InEvidence(input)
  BY <1>1, <1>6, <1>8, LenProperties DEF StoredSoFar, InEvidence
<1>10. (\A g \in Files : InEvidence(files[g]))'
  <2>1. \A g \in Files : files'[g] = files[g] \/ files'[g] = input
    <3> HIDE DEF f, input
    <3> QED BY <1>1, <1>6
  <2>2. \A g \in Files : InEvidence(files[g])
    BY DEF TraceInv, ArtifactsTraceable
  <2> HIDE DEF input
  <2> QED BY <1>1, <1>9, <2>1, <2>2 DEF InEvidence
<1>11. TypeOK'
  BY <1>1, <1>4, <1>7 DEF TraceInv, TypeOK
<1>12. RunInv(r)' /\ InEvidence(run[r].buffer)'
  <2>1. StoredSoFar(r)'
    BY <1>1, <1>2, <1>4, <1>8 DEF StoredSoFar
  <2> QED
    BY <1>1, <1>2, <1>4, <1>8, <2>1 DEF RunInv, Stream, InEvidence
<1>13. (merged \in Seq(Events) => InEvidence(merged) /\ merged \in versions)'
  BY <1>1, MergedStays
<1> HIDE DEF f, input
<1> QED
  BY <1>1, <1>5, <1>10, <1>11, <1>12, <1>13, StepKeeps

-----------------------------------------------------------------------------
\* The adapter takes the OCSF file as it is, or raises.
LEMMA AdaptReadTrace ==
  ASSUME TraceInv, NEW r \in Runs, AdaptRead(r)
  PROVE  TraceInv'
<1> DEFINE x == [run[r] EXCEPT !.at = "open", !.buffer = files["ocsf"]]
<1>1. /\ \/ run' = [run EXCEPT ![r] = Idle]
         \/ files["ocsf"] \in Seq(Events) /\ run' = [run EXCEPT ![r] = x]
      /\ UNCHANGED <<evidence, files, merged, versions, disturbed>>
  BY DEF AdaptRead
<1>2. disturbed' \in BOOLEAN
  BY <1>1 DEF TraceInv, TypeOK
<1>3. CASE run' = [run EXCEPT ![r] = Idle]
  <2>1. run'[r] = Idle
    BY <1>3, IdleIsRun, OneRun DEF TraceInv
  <2>2. RunInv(r)' /\ InEvidence(Idle.buffer)
    BY <2>1, IdleHolds DEF Idle, InEvidence
  <2> QED
    BY <1>1, <1>2, <1>3, <2>2, IdleIsRun, RunGoesOn
<1>4. CASE files["ocsf"] \in Seq(Events) /\ run' = [run EXCEPT ![r] = x]
  <2>1. x \in Run /\ x.at = "open" /\ x.buffer = files["ocsf"]
    BY <1>4, RunFields DEF Run, Steps
  <2>2. files["ocsf"] \in versions /\ InEvidence(files["ocsf"])
    BY DEF TraceInv, ArtifactsTraceable, Files
  <2>3. run'[r] = x
    <3> HIDE DEF x
    <3> QED BY <1>4, <2>1, OneRun DEF TraceInv
  <2> HIDE DEF x
  <2>4. RunInv(r)'
    BY <1>1, <2>1, <2>2, <2>3 DEF RunInv, Stream
  <2> QED
    BY <1>1, <1>2, <1>4, <2>1, <2>2, <2>4, RunGoesOn
<1> QED
  BY <1>1, <1>3, <1>4

LEMMA AdaptOpenTrace ==
  ASSUME TraceInv, NEW r \in Runs, AdaptOpen(r)
  PROVE  TraceInv'
<1> DEFINE x == [run[r] EXCEPT !.at = "write"]
<1>1. /\ run[r].at = "open" /\ merged' = Truncated
      /\ run' = [run EXCEPT ![r] = x]
      /\ UNCHANGED <<evidence, files, versions, disturbed>>
  BY DEF AdaptOpen
<1>2. x \in Run /\ x.at = "write" /\ x.buffer = run[r].buffer
  BY RunFields DEF Run, Steps
<1>3. run' \in [Runs -> Run] /\ run'[r] = x /\ \A q \in Runs \ {r} : SameWork(q)
  <2> HIDE DEF x
  <2> QED BY <1>1, <1>2, OneRun DEF TraceInv, SameWork
<1>4. RunInv(r) /\ InEvidence(run[r].buffer)
  BY RunFields
<1> HIDE DEF x
<1>5. RunInv(r)' /\ InEvidence(run[r].buffer)'
  BY <1>1, <1>2, <1>3, <1>4 DEF RunInv, Stream, InEvidence
<1>6. TypeOK'
  BY <1>1, <1>3 DEF TraceInv, TypeOK
<1>7. /\ (\A f \in Files : InEvidence(files[f]))'
      /\ (files["ocsf"] \in versions)'
  BY <1>1 DEF TraceInv, ArtifactsTraceable, InEvidence
<1>8. (merged \in Seq(Events) => InEvidence(merged) /\ merged \in versions)'
  BY <1>1, Markers
<1> QED
  BY <1>1, <1>3, <1>5, <1>6, <1>7, <1>8, StepKeeps

\* The array that was read, alone or with the end of another behind it.
LEMMA AdaptWriteTrace ==
  ASSUME TraceInv, NEW r \in Runs, AdaptWrite(r)
  PROVE  TraceInv'
<1>1. /\ run[r].at = "write" /\ merged' \in {run[r].buffer, Torn}
      /\ run' = [run EXCEPT ![r] = Idle]
      /\ UNCHANGED <<evidence, files, versions, disturbed>>
  BY DEF AdaptWrite
<1>2. /\ run' \in [Runs -> Run] /\ run'[r] = Idle
      /\ \A q \in Runs \ {r} : SameWork(q)
  BY <1>1, IdleIsRun, OneRun DEF TraceInv, SameWork
<1>3. RunInv(r)' /\ InEvidence(run[r].buffer)'
  BY <1>2, IdleHolds
<1>4. /\ run[r].buffer \in Seq(Events) /\ InEvidence(run[r].buffer)
      /\ run[r].buffer \in versions
  BY <1>1, RunFields DEF RunInv
<1>5. TypeOK'
  BY <1>1, <1>2, <1>4 DEF TraceInv, TypeOK
<1>6. /\ (\A f \in Files : InEvidence(files[f]))'
      /\ (files["ocsf"] \in versions)'
  BY <1>1 DEF TraceInv, ArtifactsTraceable, InEvidence
<1>7. (merged \in Seq(Events) => InEvidence(merged) /\ merged \in versions)'
  BY <1>1, <1>4, Markers DEF InEvidence
<1> QED
  BY <1>1, <1>2, <1>3, <1>5, <1>6, <1>7, StepKeeps

(***************************************************************************)
(* A run dies: at most a line or the SIEM's array is left cut short.       *)
(***************************************************************************)
LEMMA DieTrace ==
  ASSUME TraceInv, NEW r \in Runs, Die(r)
  PROVE  TraceInv'
<1>1. /\ run' = [run EXCEPT ![r] = Idle] /\ disturbed' = TRUE
      /\ UNCHANGED evidence
      /\ \/ UNCHANGED <<files, merged, versions>>
         \/ Written(r, Torn) /\ UNCHANGED merged
         \/ merged' = Torn /\ UNCHANGED <<files, versions>>
  BY DEF Die
<1>2. /\ run' \in [Runs -> Run] /\ run'[r] = Idle
      /\ \A q \in Runs \ {r} : SameWork(q)
  BY <1>1, IdleIsRun, OneRun DEF TraceInv, SameWork
<1>3. RunInv(r)' /\ InEvidence(run[r].buffer)'
  BY <1>2, IdleHolds
<1>4. /\ files' \in [Files -> Seq(Lines)]
      /\ (\A f \in Files : InEvidence(files[f]))'
      /\ versions \subseteq versions' /\ versions' \subseteq Seq(Lines)
      /\ (files["ocsf"] \in versions)'
  <2>1. CASE UNCHANGED <<files, versions>>
    BY <1>1, <2>1 DEF TraceInv, TypeOK, ArtifactsTraceable, InEvidence
  <2>2. CASE Written(r, Torn)
    <3>1. Torn \in Lines /\ Torn \notin Events
      BY Markers DEF Lines
    <3> QED BY <1>1, <2>2, <3>1, WrittenKeeps
  <2> QED
    BY <1>1, <2>1, <2>2
<1>5. merged' = merged \/ merged' = Torn
  BY <1>1
<1>6. TypeOK'
  BY <1>1, <1>2, <1>4, <1>5 DEF TraceInv, TypeOK
<1>7. (merged \in Seq(Events) => InEvidence(merged) /\ merged \in versions)'
  BY <1>1, <1>4, <1>5, Markers, MergedStays
<1> QED
  BY <1>1, <1>2, <1>3, <1>4, <1>6, <1>7, StepKeeps

LEMMA NextTrace == TraceInv /\ [Next]_vars => TraceInv'
<1> SUFFICES ASSUME TraceInv, [Next]_vars PROVE TraceInv'
  OBVIOUS
<1>1. CASE UNCHANGED vars
  BY <1>1 DEF vars, TraceInv, TypeOK, ArtifactsTraceable, MergedIsOcsf,
              InEvidence, RunInv, Stream, StoredSoFar
<1>2. ASSUME NEW r \in Runs, StartStream(r)
      PROVE  TraceInv'
  <2>1. PICK e \in StreamEvents : Start(r, FALSE, <<e>>)
    BY <1>2 DEF StartStream
  <2>2. <<e>> \in Seq(Events) /\ Len(<<e>>) = 1
    BY OutputAssumption
  <2> QED BY <2>1, <2>2, StartTrace
<1>3. ASSUME NEW r \in Runs, StartBatch(r)
      PROVE  TraceInv'
  <2>1. PICK b \in Batches : Start(r, TRUE, b)
    BY <1>3 DEF StartBatch
  <2> QED BY <2>1, OutputAssumption, StartTrace
<1> QED
  BY <1>1, <1>2, <1>3, StoreEventTrace, AppendOpenTrace, AppendWriteTrace,
     StageTrace, ReplaceTrace, AdaptReadTrace, AdaptOpenTrace,
     AdaptWriteTrace, DieTrace DEF Next

LEMMA AlwaysTrace == Spec => []TraceInv
BY InitTrace, NextTrace, PTL DEF Spec

-----------------------------------------------------------------------------
(***************************************************************************)
(* The files hold lines, the SIEM's input is an array of events or one of  *)
(* the three states that are none, and a run is at one of its steps.       *)
(***************************************************************************)
THEOREM OutputTypes == Spec => []TypeOK
<1>1. TraceInv => TypeOK
  BY DEF TraceInv
<1> QED
  BY <1>1, AlwaysTrace, PTL

(***************************************************************************)
(* However many runs overlap and wherever they die: no line, no buffer and *)
(* no array of the SIEM is about an event whose evidence is not stored.    *)
(***************************************************************************)
THEOREM OutputsAreTraceable == Spec => []ArtifactsTraceable
<1>1. TraceInv => ArtifactsTraceable
  BY DEF TraceInv
<1> QED
  BY <1>1, AlwaysTrace, PTL

(***************************************************************************)
(* What the SIEM can parse is a whole content that the OCSF file had.      *)
(***************************************************************************)
THEOREM SiemInputIsWhole == Spec => []MergedIsOcsf
<1>1. TraceInv => MergedIsOcsf
  BY DEF TraceInv
<1> QED
  BY <1>1, AlwaysTrace, PTL

-----------------------------------------------------------------------------
(***************************************************************************)
(* The three files in step.  A run that has been alone since it started    *)
(* has the directory to itself; of a batch that is alone, the files that   *)
(* are already published have its events, so the last of the three puts    *)
(* the directory in step whatever was there.  From then on, while runs     *)
(* neither overlap nor die, only a run between two files leaves them       *)
(* apart, and then by the one line that is still to come.                  *)
(***************************************************************************)
Active(r) == run[r].at # "idle"

Midway(r) == run[r].at \in {"append", "replace"} /\ run[r].file # "raw"

Published(r) ==
  /\ run[r].file # "raw" => files["raw"] = run[r].input
  /\ run[r].file = "ocsf" => files["normalized"] = run[r].input

InStep ==
  /\ files["raw"] \in Seq(Events)
  /\ files["normalized"] = files["raw"]
  /\ files["ocsf"] = files["raw"]

OneLineApart(r) ==
  /\ files["ocsf"] \in Seq(Events)
  /\ files["raw"] = Append(files["ocsf"], run[r].input[1])
  /\ files["normalized"] =
       IF run[r].file = "ocsf" THEN files["raw"] ELSE files["ocsf"]

RunAlign(r) ==
  /\ Active(r) /\ run[r].alone => \A q \in Runs \ {r} : ~Active(q)
  /\ run[r].handle # "none" => run[r].at = "append"
  /\ run[r].at \in {"idle", "store", "stage"} => run[r].file = "raw"
  /\ run[r].at = "replace" /\ run[r].alone => Published(r)

Calm ==
  /\ \A r \in Runs : Active(r) => run[r].alone /\ run[r].handle # "stale"
  /\ (\A r \in Runs : ~Midway(r)) => InStep
  /\ \A r \in Runs : run[r].at = "append" /\ run[r].file # "raw" => OneLineApart(r)

AlignInv ==
  /\ \A r \in Runs : RunAlign(r)
  /\ ~disturbed => Calm

\* Beside an active run, another is idle or not alone; in a calm directory, idle.
LEMMA NotAlone ==
  ASSUME AlignInv, NEW r \in Runs, NEW q \in Runs \ {r}, Active(r)
  PROVE  /\ ~(Active(q) /\ run[q].alone)
         /\ ~disturbed \/ run[r].alone => ~Active(q)
BY DEF AlignInv, RunAlign, Calm

(***************************************************************************)
(* A step of an active run keeps the invariant if it does for that run.    *)
(***************************************************************************)
SameStand(q) ==
  /\ run'[q].at = run[q].at /\ run'[q].file = run[q].file
  /\ run'[q].alone = run[q].alone
  /\ run'[q].handle # "none" => run[q].handle # "none"

LEMMA AlignKeeps ==
  ASSUME AlignInv, NEW r \in Runs, Active(r),
         \A q \in Runs \ {r} : SameStand(q),
         run'[r].at = "idle" \/ run'[r].alone = run[r].alone,
         run'[r].handle # "none" => run'[r].at = "append",
         run'[r].at \in {"idle", "store", "stage"} => run'[r].file = "raw",
         run'[r].at = "replace" /\ run'[r].alone => Published(r)',
         ~disturbed' => ~disturbed \/ run[r].alone,
         ~disturbed' =>
           /\ Active(r)' => run'[r].alone /\ run'[r].handle # "stale"
           /\ (~Midway(r) => InStep)'
           /\ (run[r].at = "append" /\ run[r].file # "raw" => OneLineApart(r))'
  PROVE  AlignInv'
<1>1. RunAlign(r)'
  <2>1. ASSUME Active(r)', run'[r].alone, NEW q \in Runs \ {r}
        PROVE  ~Active(q)'
    BY <2>1, NotAlone DEF Active, SameStand
  <2> QED
    BY <2>1 DEF RunAlign
<1>2. ASSUME NEW q \in Runs \ {r}
      PROVE  RunAlign(q)'
  <2>1. ~(Active(q) /\ run[q].alone) /\ SameStand(q) /\ RunAlign(q)
    BY <1>2, NotAlone DEF AlignInv
  <2>2. ~(Active(q)' /\ run'[q].alone)
    BY <2>1 DEF Active, SameStand
  <2>3. ~(run'[q].at = "replace" /\ run'[q].alone)
    BY <2>2 DEF Active
  <2> QED
    BY <2>1, <2>2, <2>3 DEF RunAlign, SameStand
<1>3. ASSUME ~disturbed'
      PROVE  Calm'
  <2>1. \A q \in Runs \ {r} : run'[q].at = "idle"
    BY <1>3, NotAlone DEF Active, SameStand
  <2>2. \A q \in Runs : Active(q)' => run'[q].alone /\ run'[q].handle # "stale"
    BY <1>3, <2>1 DEF Active
  <2>3. ((\A q \in Runs : ~Midway(q)) => InStep)'
    BY <1>3
  <2>4. (\A q \in Runs : run[q].at = "append" /\ run[q].file # "raw"
           => OneLineApart(q))'
    BY <1>3, <2>1
  <2> QED
    BY <2>2, <2>3, <2>4 DEF Calm
<1> QED
  BY <1>1, <1>2, <1>3 DEF AlignInv

(***************************************************************************)
(* A step that neither writes a file nor takes the run between two files.  *)
(***************************************************************************)
LEMMA AlignStays ==
  ASSUME TraceInv, AlignInv, NEW r \in Runs, NEW x \in Run, Active(r),
         ~Midway(r), UNCHANGED <<files, disturbed>>,
         run' = [run EXCEPT ![r] = x],
         x = Idle \/ x.alone = run[r].alone,
         x.handle = "none" \/ (x.handle = "open" /\ x.at = "append"),
         x.at \in {"idle", "store", "stage", "append", "replace"} => x.file = "raw"
  PROVE  AlignInv'
<1>1. run'[r] = x /\ \A q \in Runs \ {r} : run'[q] = run[q]
  BY OneRun DEF TraceInv
<1>2. \A q \in Runs \ {r} : SameStand(q)
  BY <1>1 DEF SameStand
<1>3. run'[r].at = "idle" \/ run'[r].alone = run[r].alone
  BY <1>1 DEF Idle
<1>4. ~(run'[r].at \in {"append", "replace"} /\ run'[r].file # "raw")
  BY <1>1
<1>5. run'[r].at = "replace" => Published(r)'
  BY <1>4, <1>1, RunFields DEF Published
<1>6. ASSUME ~disturbed'
      PROVE  /\ Active(r)' => run'[r].alone /\ run'[r].handle # "stale"
             /\ InStep'
  <2>1. Calm /\ run[r].alone /\ \A q \in Runs \ {r} : ~Active(q)
    BY <1>6, NotAlone DEF AlignInv, Calm
  <2>2. \A q \in Runs : ~Midway(q)
    BY <2>1 DEF Active, Midway
  <2>3. InStep
    BY <2>1, <2>2 DEF Calm
  <2> QED
    BY <2>1, <2>3, <1>1, <1>3 DEF InStep, Active
<1> QED
  BY <1>1, <1>2, <1>3, <1>4, <1>5, <1>6, AlignKeeps

LEMMA InitAlign == Init => AlignInv
<1> SUFFICES ASSUME Init PROVE AlignInv
  OBVIOUS
<1>1. \A r \in Runs : run[r] = Idle
  BY DEF Init
<1>2. \A r \in Runs : RunAlign(r)
  BY <1>1 DEF RunAlign, Active, Idle
<1>3. InStep
  BY DEF Init, InStep, Files
<1> QED
  BY <1>1, <1>2, <1>3 DEF AlignInv, Calm, Active, Idle

(***************************************************************************)
(* A run starts beside others, and nobody is alone; or it starts in a      *)
(* directory that nobody works on.                                         *)
(***************************************************************************)
LEMMA StartAlign ==
  ASSUME TraceInv, AlignInv, NEW r \in Runs, NEW batch \in BOOLEAN,
         NEW input \in Seq(Events), Start(r, batch, input)
  PROVE  AlignInv'
<1> DEFINE x == [Idle EXCEPT !.at = "store", !.batch = batch,
                             !.input = input, !.alone = Others(r) = {}]
<1>1. /\ run[r].at = "idle"
      /\ run' = [q \in Runs |-> IF q = r THEN x ELSE [run[q] EXCEPT !.alone = FALSE]]
      /\ disturbed' = (disturbed \/ Others(r) # {})
      /\ UNCHANGED files
  BY DEF Start
<1>2. /\ run'[r].at = "store" /\ run'[r].file = "raw" /\ run'[r].handle = "none"
      /\ run'[r].alone = (Others(r) = {})
  BY <1>1 DEF Idle
<1>3. ASSUME NEW q \in Runs \ {r}
      PROVE  /\ run'[q].at = run[q].at /\ run'[q].file = run[q].file
             /\ run'[q].handle = run[q].handle /\ ~run'[q].alone
  <2>1. run'[q] = [run[q] EXCEPT !.alone = FALSE] /\ run[q] \in Run
    BY <1>1, RunFields
  <2> QED BY <2>1 DEF Run
<1>4. Others(r) = {} => \A q \in Runs \ {r} : run[q].at = "idle"
  BY DEF Others
<1>5. RunAlign(r)'
  BY <1>2, <1>3, <1>4 DEF RunAlign, Active
<1>6. ASSUME NEW q \in Runs \ {r}
      PROVE  RunAlign(q)'
  <2>1. RunAlign(q)
    BY DEF AlignInv
  <2> QED BY <1>3, <2>1 DEF RunAlign
<1>7. ASSUME ~disturbed'
      PROVE  Calm'
  <2>1. ~disturbed /\ Others(r) = {}
    BY <1>1, <1>7
  <2>2. \A q \in Runs : run[q].at = "idle"
    BY <1>1, <1>4, <2>1
  <2>3. InStep
    BY <2>1, <2>2 DEF AlignInv, Calm, Midway
  <2>4. InStep'
    BY <2>3, <1>1 DEF InStep
  <2>5. \A q \in Runs \ {r} : run'[q].at = "idle"
    BY <1>3, <2>2
  <2> QED
    BY <1>2, <2>1, <2>4, <2>5 DEF Calm, Active
<1> QED
  BY <1>5, <1>6, <1>7 DEF AlignInv

-----------------------------------------------------------------------------
\* Steps before the first file and after the last.
LEMMA StoreEventAlign ==
  ASSUME TraceInv, AlignInv, NEW r \in Runs, StoreEvent(r)
  PROVE  AlignInv'
<1>1. /\ run[r].at = "store" /\ UNCHANGED <<files, disturbed>>
      /\ run[r].file = "raw" /\ run[r].handle = "none"
  BY DEF StoreEvent, AlignInv, RunAlign
<1>2. PICK x \in Run :
        /\ run' = [run EXCEPT ![r] = x]
        /\ x.alone = run[r].alone /\ x.handle = "none" /\ x.file = "raw"
  <2>1. CASE run[r].done + 1 <= Len(run[r].input)
    <3> DEFINE x == [run[r] EXCEPT !.done = run[r].done + 1]
    <3>1. run[r].done + 1 \in Nat /\ run[r] \in Run
      BY RunFields
    <3>2. x \in Run /\ x.alone = run[r].alone /\ x.handle = "none" /\ x.file = "raw"
      BY <3>1, <1>1 DEF Run
    <3>3. run' = [run EXCEPT ![r] = x]
      BY <2>1 DEF StoreEvent
    <3> HIDE DEF x
    <3> QED BY <3>2, <3>3
  <2>2. CASE ~(run[r].done + 1 <= Len(run[r].input))
    <3> DEFINE x == [run[r] EXCEPT !.at =
                       IF run[r].batch THEN "stage" ELSE "append"]
    <3>1. x \in Run /\ x.alone = run[r].alone /\ x.handle = "none" /\ x.file = "raw"
      BY <1>1, RunFields DEF Run, Steps
    <3>2. run' = [run EXCEPT ![r] = x]
      BY <2>2 DEF StoreEvent
    <3> HIDE DEF x
    <3> QED BY <3>1, <3>2
  <2> QED
    BY <2>1, <2>2
<1> QED
  BY <1>1, <1>2, AlignStays DEF Active, Midway

LEMMA StageAlign ==
  ASSUME TraceInv, AlignInv, NEW r \in Runs, Stage(r)
  PROVE  AlignInv'
<1> DEFINE x == [run[r] EXCEPT !.at = "replace"]
<1>1. /\ run[r].at = "stage" /\ UNCHANGED <<files, disturbed>>
      /\ run[r].file = "raw" /\ run[r].handle = "none"
      /\ run' = [run EXCEPT ![r] = Idle] \/ run' = [run EXCEPT ![r] = x]
  BY DEF Stage, AlignInv, RunAlign
<1>2. x \in Run /\ x.alone = run[r].alone /\ x.handle = "none" /\ x.file = "raw"
  BY <1>1, RunFields DEF Run, Steps
<1>3. Idle \in Run /\ Idle.handle = "none" /\ Idle.file = "raw"
  BY IdleIsRun DEF Idle
<1>4. Active(r) /\ ~Midway(r)
  BY <1>1 DEF Active, Midway
<1> HIDE DEF x
<1> QED
  BY <1>1, <1>2, <1>3, <1>4, AlignStays

LEMMA AdaptAlign ==
  ASSUME TraceInv, AlignInv, NEW r \in Runs,
         AdaptRead(r) \/ AdaptOpen(r) \/ AdaptWrite(r)
  PROVE  AlignInv'
<1> DEFINE x == [run[r] EXCEPT !.at = "open", !.buffer = files["ocsf"]]
           y == [run[r] EXCEPT !.at = "write"]
<1>1. /\ run[r].at \in {"adapt", "open", "write"} /\ UNCHANGED <<files, disturbed>>
      /\ run[r].handle = "none"
  BY DEF AdaptRead, AdaptOpen, AdaptWrite, AlignInv, RunAlign
<1>2. \/ run' = [run EXCEPT ![r] = Idle]
      \/ files["ocsf"] \in Seq(Events) /\ run' = [run EXCEPT ![r] = x]
      \/ run' = [run EXCEPT ![r] = y]
  BY DEF AdaptRead, AdaptOpen, AdaptWrite
<1>3. /\ Idle \in Run /\ Idle.handle = "none" /\ Idle.file = "raw"
  BY IdleIsRun DEF Idle
<1>4. files["ocsf"] \in Seq(Events) =>
        x \in Run /\ x.alone = run[r].alone /\ x.handle = "none" /\ x.at = "open"
  BY <1>1, RunFields DEF Run, Steps
<1>5. y \in Run /\ y.alone = run[r].alone /\ y.handle = "none" /\ y.at = "write"
  BY <1>1, RunFields DEF Run, Steps
<1>6. Active(r) /\ ~Midway(r)
  BY <1>1 DEF Active, Midway
<1> HIDE DEF x, y
<1> QED
  BY <1>1, <1>2, <1>3, <1>4, <1>5, <1>6, AlignStays

\* The file is opened: the lines are as they were.
LEMMA AppendOpenAlign ==
  ASSUME TraceInv, AlignInv, NEW r \in Runs, AppendOpen(r)
  PROVE  AlignInv'
<1> DEFINE x == [run[r] EXCEPT !.handle = "open"]
<1>1. /\ run[r].at = "append" /\ UNCHANGED <<files, disturbed>>
      /\ run' = [run EXCEPT ![r] = x]
  BY DEF AppendOpen
<1>2. /\ x \in Run /\ x.at = "append" /\ x.file = run[r].file
      /\ x.alone = run[r].alone /\ x.handle = "open" /\ x.input = run[r].input
  BY <1>1, RunFields DEF Run
<1>3. run'[r] = x /\ \A q \in Runs \ {r} : SameStand(q)
  <2> HIDE DEF x
  <2> QED BY <1>1, <1>2, OneRun DEF TraceInv, SameStand
<1> HIDE DEF x
<1>4. ASSUME ~disturbed
      PROVE  /\ Calm /\ run[r].alone
             /\ ~Midway(r) => InStep
             /\ run[r].file # "raw" => OneLineApart(r)
  <2>1. \A q \in Runs \ {r} : ~Active(q)
    BY <1>1, <1>4, NotAlone DEF Active
  <2>2. \A q \in Runs \ {r} : ~Midway(q)
    BY <2>1 DEF Active, Midway
  <2> QED
    BY <1>1, <1>4, <2>2 DEF AlignInv, Calm, Active
<1>5. ASSUME ~disturbed'
      PROVE  /\ Active(r)' => run'[r].alone /\ run'[r].handle # "stale"
             /\ (~Midway(r) => InStep)'
             /\ (run[r].at = "append" /\ run[r].file # "raw" => OneLineApart(r))'
  BY <1>1, <1>2, <1>3, <1>4, <1>5 DEF Midway, InStep, OneLineApart
<1> QED
  BY <1>1, <1>2, <1>3, <1>5, AlignKeeps DEF Active

\* A line appended to whole lines.
LEMMA WholeLines ==
  ASSUME NEW lines \in Seq(Events), NEW e \in Events
  PROVE  Appended(lines, e) = Append(lines, e) /\ Append(lines, e) \in Seq(Events)
<1>1. lines # << >> => Last(lines) \in Events
  <2> SUFFICES ASSUME lines # << >> PROVE lines[Len(lines)] \in Events
    BY DEF Last
  <2>1. Len(lines) \in Nat /\ Len(lines) # 0
    BY LenProperties, EmptySeq
  <2>2. Len(lines) \in 1 .. Len(lines)
    BY <2>1
  <2> QED BY <2>2, ElementOfSeq
<1>2. Torn \notin Events
  BY Markers
<1> QED
  BY <1>1, <1>2, AppendProperties DEF Appended

(***************************************************************************)
(* In a calm directory the handle is good, and the three writes take the   *)
(* files from in step over one line apart to in step.                      *)
(***************************************************************************)
LEMMA AppendWriteAlign ==
  ASSUME TraceInv, AlignInv, NEW r \in Runs, AppendWrite(r)
  PROVE  AlignInv'
<1> DEFINE x == [NextStep(r) EXCEPT !.handle = "none"]
           e == run[r].input[1]
           g == run[r].file
<1>1. /\ run[r].at = "append" /\ run[r].handle # "none" /\ Written(r, e)
      /\ run' = [run EXCEPT ![r] = x] /\ UNCHANGED disturbed
  BY DEF AppendWrite
<1>2. NextStep(r) \in Run /\ run[r] \in Run /\ g \in Files
  BY <1>1, NextStepFields, RunFields
<1>3. /\ g = "raw" => x.at = "append" /\ x.file = "normalized"
      /\ g = "normalized" => x.at = "append" /\ x.file = "ocsf"
      /\ g = "ocsf" => x.at = "adapt"
  BY <1>1, <1>2 DEF NextStep, NextFile, Run
<1>4. /\ x \in Run /\ x.handle = "none" /\ x.input = run[r].input
      /\ x.alone = run[r].alone
  BY <1>2 DEF NextStep, Run
<1>5. run'[r] = x /\ \A q \in Runs \ {r} : SameStand(q)
  <2> HIDE DEF x
  <2> QED BY <1>1, <1>4, OneRun DEF TraceInv, SameStand
<1>6. e \in Events
  <2>1. Len(run[r].input) = 1
    BY <1>1, RunFields DEF RunInv, Stream
  <2> QED BY <2>1, RunFields, ElementOfSeq
<1>7. /\ files \in [Files -> Seq(Lines)]
      /\ {"raw", "normalized", "ocsf"} = Files
  BY DEF TraceInv, TypeOK, Files
<1> HIDE DEF x, e
<1>8. ASSUME ~disturbed
      PROVE  /\ run[r].alone
             /\ files' = [files EXCEPT ![g] = Appended(files[g], e)]
             /\ g = "raw" => InStep
             /\ g # "raw" => OneLineApart(r)
  <2>1. \A q \in Runs \ {r} : ~Active(q)
    BY <1>1, <1>8, NotAlone DEF Active
  <2>2. \A q \in Runs \ {r} : ~Midway(q)
    BY <2>1 DEF Active, Midway
  <2>3. run[r].alone /\ run[r].handle # "stale"
    BY <1>1, <1>8 DEF AlignInv, Calm, Active
  <2>4. run[r].handle = "open"
    BY <1>1, <1>2, <2>3 DEF Run
  <2>5. files' = [files EXCEPT ![g] = Appended(files[g], e)]
    BY <1>1, <2>4 DEF Written
  <2>6. g = "raw" => InStep
    BY <1>8, <2>2 DEF AlignInv, Calm, Midway
  <2>7. g # "raw" => OneLineApart(r)
    BY <1>1, <1>8 DEF AlignInv, Calm
  <2> QED
    BY <2>3, <2>5, <2>6, <2>7
<1>9. ASSUME ~disturbed
      PROVE  /\ (~Midway(r) => InStep)'
             /\ (run[r].at = "append" /\ run[r].file # "raw" => OneLineApart(r))'
  <2> USE DEF Midway
  <2>1. CASE g = "raw"
    <3>1. InStep
      BY <1>8, <1>9, <2>1
    <3>2. files["raw"] \in Seq(Events)
      BY <3>1 DEF InStep
    <3>3. /\ files'["raw"] = Append(files["raw"], e)
          /\ files'["normalized"] = files["normalized"]
          /\ files'["ocsf"] = files["ocsf"]
      BY <1>6, <1>7, <1>8, <1>9, <2>1, <3>2, WholeLines
    <3>4. OneLineApart(r)'
      BY <1>3, <1>4, <1>5, <2>1, <3>1, <3>3 DEF OneLineApart, InStep, e
    <3> QED BY <1>3, <1>5, <2>1, <3>4
  <2>2. CASE g = "normalized"
    <3>1. OneLineApart(r)
      BY <1>8, <1>9, <2>2
    <3>2. files["ocsf"] \in Seq(Events) /\ files["normalized"] = files["ocsf"]
      BY <2>2, <3>1 DEF OneLineApart
    <3>3. /\ files'["normalized"] = Append(files["ocsf"], e)
          /\ files'["raw"] = files["raw"]
          /\ files'["ocsf"] = files["ocsf"]
      BY <1>6, <1>7, <1>8, <1>9, <2>2, <3>2, WholeLines
    <3>4. OneLineApart(r)'
      BY <1>3, <1>4, <1>5, <2>2, <3>1, <3>3 DEF OneLineApart, e
    <3> QED BY <1>3, <1>5, <2>2, <3>4
  <2>3. CASE g = "ocsf"
    <3>1. OneLineApart(r)
      BY <1>8, <1>9, <2>3
    <3>2. files["ocsf"] \in Seq(Events)
      BY <3>1 DEF OneLineApart
    <3>3. /\ files'["ocsf"] = Append(files["ocsf"], e)
          /\ files'["raw"] = files["raw"]
          /\ files'["normalized"] = files["normalized"]
          /\ Append(files["ocsf"], e) \in Seq(Events)
      BY <1>6, <1>7, <1>8, <1>9, <2>3, <3>2, WholeLines
    <3>4. InStep'
      BY <2>3, <3>1, <3>3 DEF OneLineApart, InStep, e
    <3> QED BY <1>3, <1>5, <2>3, <3>4
  <2> QED
    BY <1>2, <1>7, <2>1, <2>2, <2>3
<1>10. ~disturbed' => run'[r].alone /\ run'[r].handle # "stale"
  BY <1>1, <1>4, <1>5, <1>8
<1>11. /\ run'[r].at \in {"append", "adapt"} /\ run'[r].alone = run[r].alone
       /\ run'[r].handle = "none"
  BY <1>2, <1>3, <1>4, <1>5, <1>7
<1>12. Active(r) /\ (~disturbed' => ~disturbed)
  BY <1>1 DEF Active
<1> QED
  BY <1>5, <1>9, <1>10, <1>11, <1>12, AlignKeeps

(***************************************************************************)
(* Of a batch that is alone, each file published is the batch's, and the   *)
(* last of them puts the three in step.                                    *)
(***************************************************************************)
LEMMA ReplaceAlign ==
  ASSUME TraceInv, AlignInv, NEW r \in Runs, Replace(r)
  PROVE  AlignInv'
<1> DEFINE f == run[r].file
           input == run[r].input
           stale(q) == [run[q] EXCEPT !.handle = "stale"]
<1>1. /\ run[r].at = "replace"
      /\ files' = [files EXCEPT ![f] = input]
      /\ run' = [q \in Runs |->
           IF q = r THEN NextStep(r)
           ELSE IF run[q].handle = "open" /\ run[q].file = f THEN stale(q)
           ELSE run[q]]
      /\ disturbed' = (disturbed /\ ~(f = "ocsf" /\ run[r].alone))
  BY DEF Replace
<1>2. /\ run[r] \in Run /\ f \in Files /\ input \in Seq(Events)
      /\ files \in [Files -> Seq(Lines)]
      /\ {"raw", "normalized", "ocsf"} = Files
      /\ run[r].handle = "none" /\ run'[r] = NextStep(r)
      /\ run[r].alone => Published(r)
  BY <1>1, RunFields DEF TraceInv, TypeOK, Files, AlignInv, RunAlign
<1>3. /\ f = "raw" => run'[r].at = "replace" /\ run'[r].file = "normalized"
      /\ f = "normalized" => run'[r].at = "replace" /\ run'[r].file = "ocsf"
      /\ f = "ocsf" => run'[r].at = "adapt"
      /\ run'[r].alone = run[r].alone /\ run'[r].handle = "none"
      /\ run'[r].input = input
  BY <1>1, <1>2 DEF NextStep, NextFile, Run
<1>4. ASSUME NEW q \in Runs \ {r}
      PROVE  SameStand(q)
  <2>1. \/ run'[q] = run[q]
        \/ run[q].handle = "open" /\ run'[q] = stale(q)
    <3> HIDE DEF f, stale
    <3> QED BY <1>1
  <2>2. run[q] \in Run
    BY RunFields
  <2> QED
    BY <2>1, <2>2 DEF SameStand, Run
<1> HIDE DEF f, stale
<1>5. ASSUME run[r].alone
      PROVE  /\ f # "ocsf" => Published(r)'
             /\ f = "ocsf" => InStep'
  <2>1. CASE f = "raw"
    <3>1. files'["raw"] = input
      BY <1>1, <1>2, <2>1
    <3> QED BY <1>3, <2>1, <3>1 DEF Published
  <2>2. CASE f = "normalized"
    <3>1. files["raw"] = input
      BY <1>2, <1>5, <2>2 DEF Published, f
    <3>2. files'["normalized"] = input /\ files'["raw"] = input
      BY <1>1, <1>2, <2>2, <3>1
    <3> QED BY <1>3, <2>2, <3>2 DEF Published
  <2>3. CASE f = "ocsf"
    <3>1. files["raw"] = input /\ files["normalized"] = input
      BY <1>2, <1>5, <2>3 DEF Published, f
    <3>2. \A g \in Files : files'[g] = input
      BY <1>1, <1>2, <2>3, <3>1
    <3> QED BY <1>2, <2>3, <3>2 DEF InStep
  <2> QED
    BY <1>2, <2>1, <2>2, <2>3
<1>6. ~disturbed' => run[r].alone
  BY <1>1 DEF AlignInv, Calm, Active
<1>7. Active(r) /\ run'[r].at \in {"replace", "adapt"}
  BY <1>1, <1>2, <1>3 DEF Active
<1>8. run'[r].at = "replace" /\ run'[r].alone => Published(r)'
  BY <1>3, <1>5
<1>9. ASSUME ~disturbed'
      PROVE  (~Midway(r) => InStep)'
  BY <1>2, <1>3, <1>5, <1>6, <1>9 DEF Midway
<1> QED
  BY <1>3, <1>4, <1>6, <1>7, <1>8, <1>9, AlignKeeps

LEMMA DieAlign ==
  ASSUME TraceInv, AlignInv, NEW r \in Runs, Die(r)
  PROVE  AlignInv'
<1>1. Active(r) /\ run' = [run EXCEPT ![r] = Idle] /\ disturbed' = TRUE
  BY DEF Die, Active
<1>2. run'[r] = Idle /\ \A q \in Runs \ {r} : SameStand(q)
  BY <1>1, IdleIsRun, OneRun DEF TraceInv, SameStand
<1>3. /\ run'[r].at = "idle" /\ run'[r].file = "raw" /\ run'[r].handle = "none"
      /\ disturbed'
  BY <1>1, <1>2 DEF Idle
<1> QED
  BY <1>1, <1>2, <1>3, AlignKeeps

LEMMA NextAlign == TraceInv /\ AlignInv /\ [Next]_vars => AlignInv'
<1> SUFFICES ASSUME TraceInv, AlignInv, [Next]_vars PROVE AlignInv'
  OBVIOUS
<1>1. CASE UNCHANGED vars
  BY <1>1 DEF vars, AlignInv, RunAlign, Calm, InStep, OneLineApart, Midway,
              Active, Published
<1>2. ASSUME NEW r \in Runs, StartStream(r)
      PROVE  AlignInv'
  <2>1. PICK e \in StreamEvents : Start(r, FALSE, <<e>>)
    BY <1>2 DEF StartStream
  <2>2. <<e>> \in Seq(Events)
    BY OutputAssumption
  <2> QED BY <2>1, <2>2, StartAlign
<1>3. ASSUME NEW r \in Runs, StartBatch(r)
      PROVE  AlignInv'
  <2>1. PICK b \in Batches : Start(r, TRUE, b)
    BY <1>3 DEF StartBatch
  <2> QED BY <2>1, OutputAssumption, StartAlign
<1> QED
  BY <1>1, <1>2, <1>3, StoreEventAlign, AppendOpenAlign, AppendWriteAlign,
     StageAlign, ReplaceAlign, AdaptAlign, DieAlign DEF Next

(***************************************************************************)
(* A batch that has the directory to itself puts the three files in step,  *)
(* whatever it finds there, and they are in step again whenever all runs   *)
(* are over, until runs overlap or one dies.                               *)
(***************************************************************************)
THEOREM LayersStayInStep == Spec => []LayersAlign
<1>1. AlignInv => LayersAlign
  BY DEF AlignInv, Calm, InStep, LayersAlign, Quiet, Midway
<1>2. TraceInv /\ AlignInv /\ [Next]_vars => AlignInv'
  BY NextAlign
<1> QED
  BY <1>1, <1>2, InitAlign, AlwaysTrace, PTL DEF Spec
=============================================================================
