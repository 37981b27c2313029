-------------------------- MODULE OutputArtifacts --------------------------
(***************************************************************************)
(* The derived files of one output directory: raw, normalized and OCSF     *)
(* JSONL, and the SIEM's merged_logs.json made from the OCSF file.  Two    *)
(* programs write them, side by side with the evidence store:              *)
(*                                                                         *)
(*  - a stream run (demo/run_demo.py under demo/run_siem_integration.py)   *)
(*    stores one event, appends a line to each file with JsonlOutputWriter *)
(*    and then calls the SIEM adapter;                                     *)
(*  - a batch run (demo/run_multi_vendor_demo.py) stores its events,       *)
(*    writes the three files in a directory of its own, moves them over    *)
(*    the published ones one by one and calls the SIEM adapter.            *)
(*                                                                         *)
(* Nothing keeps runs apart, and each can die anywhere.  A line is the     *)
(* event it is about.  One line goes to the operating system in one write, *)
(* and a write cut exactly before its newline is taken as one cut before   *)
(* that.                                                                   *)
(***************************************************************************)
EXTENDS Naturals, Sequences, SequencesExt

CONSTANTS
  Runs,         \* processes, each runs one program after another
  Events,
  StreamEvents, \* events a stream run can be about; the mapper takes them
  Batches,      \* sequences of events a batch run can be about
  Deferred,     \* events the OCSF mapper returns None for
  Torn,         \* a line cut short, without its newline
  Bad,          \* a complete line that is no JSON
  Missing,      \* no merged_logs.json
  Truncated,    \* merged_logs.json of length zero
  MaxLines      \* bound: lines of an appended file

ASSUME OutputAssumption ==
  /\ StreamEvents \subseteq Events \ Deferred
  /\ Batches \subseteq Seq(Events)
  /\ Deferred \subseteq Events
  /\ {Torn, Bad, Missing, Truncated} \cap Events = {}
  /\ {Torn, Missing, Truncated} \cap Seq(Events) = {}
  /\ MaxLines \in Nat

Files == {"raw", "normalized", "ocsf"}

Lines == Events \cup {Torn, Bad}

VARIABLES
  evidence,   \* the events in the evidence store
  files,      \* the lines of each JSONL file
  merged,     \* merged_logs.json
  run,        \* what each process is doing
  versions,   \* history: every content the OCSF file has had
  disturbed   \* history: runs overlapped or died, see LayersAlign

vars == <<evidence, files, merged, run, versions, disturbed>>

(***************************************************************************)
(* The steps of a run, and what it holds.  The input of a stream run has   *)
(* one event.  handle: an append's open file, "stale" once another run has *)
(* moved a new file to its path.  buffer: what the adapter has read.       *)
(* alone is history: no other run was active since this one started.       *)
(***************************************************************************)
Steps == {"idle", "store", "stage", "append", "replace", "adapt", "open",
          "write"}

Run == [at : Steps, batch : BOOLEAN, input : Seq(Events), done : Nat,
        file : Files, handle : {"none", "open", "stale"},
        buffer : Seq(Events), alone : BOOLEAN]

Idle == [at |-> "idle", batch |-> FALSE, input |-> << >>, done |-> 0,
         file |-> "raw", handle |-> "none", buffer |-> << >>,
         alone |-> FALSE]

TypeOK ==
  /\ evidence \subseteq Events
  /\ files \in [Files -> Seq(Lines)]
  /\ merged \in Seq(Events) \cup {Missing, Truncated, Torn}
  /\ run \in [Runs -> Run]
  /\ versions \subseteq Seq(Lines)
  /\ disturbed \in BOOLEAN

Init ==
  /\ evidence = {}
  /\ files = [f \in Files |-> << >>]
  /\ merged = Missing
  /\ run = [r \in Runs |-> Idle]
  /\ versions = {<< >>}
  /\ disturbed = FALSE

Others(r) == {q \in Runs \ {r} : run[q].at # "idle"}

NextFile == [raw |-> "normalized", normalized |-> "ocsf"]

-----------------------------------------------------------------------------
Start(r, batch, input) ==
  /\ run[r].at = "idle"
  /\ \A f \in Files : Len(files[f]) < MaxLines
  /\ run' = [q \in Runs |->
       IF q = r THEN [Idle EXCEPT !.at = "store", !.batch = batch,
                                  !.input = input, !.alone = Others(r) = {}]
                ELSE [run[q] EXCEPT !.alone = FALSE]]
  /\ disturbed' = (disturbed \/ Others(r) # {})
  /\ UNCHANGED <<evidence, files, merged, versions>>

StartStream(r) == \E e \in StreamEvents : Start(r, FALSE, <<e>>)

StartBatch(r) == \E b \in Batches : Start(r, TRUE, b)

\* Mutant: the loop over the events ends one early.
StoreAllButLast(r) ==
  LET k == run[r].done + 1 IN
  /\ run[r].at = "store"
  /\ IF k < Len(run[r].input)
       THEN /\ evidence' = evidence \cup {run[r].input[k]}
            /\ run' = [run EXCEPT ![r].done = k]
       ELSE /\ run' = [run EXCEPT ![r].at =
                         IF run[r].batch THEN "stage" ELSE "append"]
            /\ UNCHANGED evidence
  /\ UNCHANGED <<files, merged, versions, disturbed>>

(***************************************************************************)
(* Every event is stored before anything is written about it; a batch      *)
(* stores all of its events first.                                         *)
(***************************************************************************)
StoreEvent(r) ==
  LET k == run[r].done + 1 IN
  /\ run[r].at = "store"
  /\ IF k <= Len(run[r].input)
       THEN /\ evidence' = evidence \cup {run[r].input[k]}
            /\ run' = [run EXCEPT ![r].done = k]
       ELSE /\ run' = [run EXCEPT ![r].at =
                         IF run[r].batch THEN "stage" ELSE "append"]
            /\ UNCHANGED evidence
  /\ UNCHANGED <<files, merged, versions, disturbed>>

-----------------------------------------------------------------------------
(***************************************************************************)
(* JsonlOutputWriter._append, by a stream run: open for appending, then    *)
(* write the line and close.  A file that does not end in a newline has    *)
(* its last line joined with the new one.                                  *)
(***************************************************************************)
Appended(lines, line) ==
  IF lines # << >> /\ Last(lines) = Torn
    THEN Append(Front(lines), IF line = Torn THEN Torn ELSE Bad)
    ELSE Append(lines, line)

AppendOpen(r) ==
  /\ run[r].at = "append" /\ run[r].handle = "none"
  /\ run' = [run EXCEPT ![r].handle = "open"]
  /\ UNCHANGED <<evidence, files, merged, versions, disturbed>>

Written(r, line) ==
  /\ files' = IF run[r].handle = "open"
                THEN [files EXCEPT ![run[r].file] = Appended(@, line)]
                ELSE files
  /\ versions' = versions \cup {files'["ocsf"]}

NextStep(r) ==
  IF run[r].file = "ocsf" THEN [run[r] EXCEPT !.at = "adapt"]
                          ELSE [run[r] EXCEPT !.file = NextFile[@]]

AppendWrite(r) ==
  /\ run[r].at = "append" /\ run[r].handle # "none"
  /\ Written(r, run[r].input[1])
  /\ run' = [run EXCEPT ![r] = [NextStep(r) EXCEPT !.handle = "none"]]
  /\ UNCHANGED <<evidence, merged, disturbed>>

-----------------------------------------------------------------------------
\* Mutant: the published files are written, with no staging.
StageInPlace(r) ==
  LET input == run[r].input
      done == SelectSeq(input, LAMBDA x : x \notin Deferred) IN
  /\ run[r].at = "stage"
  /\ files' = [f \in Files |-> IF f = "ocsf" THEN done ELSE input]
  /\ versions' = versions \cup {done}
  /\ run' = [run EXCEPT ![r] =
       IF done # input THEN Idle ELSE [@ EXCEPT !.at = "replace"]]
  /\ UNCHANGED <<evidence, merged, disturbed>>

(***************************************************************************)
(* _write_outputs: the three files are complete in a temporary directory   *)
(* before the first is published; a deferred event raises before that.     *)
(***************************************************************************)
Stage(r) ==
  /\ run[r].at = "stage"
  /\ run' = [run EXCEPT ![r] =
       IF \E i \in 1 .. Len(run[r].input) : run[r].input[i] \in Deferred
         THEN Idle
         ELSE [@ EXCEPT !.at = "replace"]]
  /\ UNCHANGED <<evidence, files, merged, versions, disturbed>>

(***************************************************************************)
(* os.replace of one staged file.  Handles that others hold stay with the  *)
(* file that was replaced.                                                 *)
(***************************************************************************)
Replace(r) ==
  LET f == run[r].file IN
  /\ run[r].at = "replace"
  /\ files' = [files EXCEPT ![f] = run[r].input]
  /\ versions' = versions \cup {files'["ocsf"]}
  /\ run' = [q \in Runs |->
       IF q = r THEN NextStep(r)
       ELSE IF run[q].handle = "open" /\ run[q].file = f
         THEN [run[q] EXCEPT !.handle = "stale"]
         ELSE run[q]]
  /\ disturbed' = (disturbed /\ ~(f = "ocsf" /\ run[r].alone))
  /\ UNCHANGED <<evidence, merged>>

-----------------------------------------------------------------------------
\* Mutant: broken lines are passed over, as the dashboard's load_jsonl does.
AdaptReadLenient(r) ==
  /\ run[r].at = "adapt"
  /\ run' = [run EXCEPT ![r] =
       [@ EXCEPT !.at = "open",
                 !.buffer = SelectSeq(files["ocsf"], LAMBDA x : x \in Events)]]
  /\ UNCHANGED <<evidence, files, merged, versions, disturbed>>

\* Mutant: what was read is not checked.
AdaptReadUnchecked(r) ==
  /\ run[r].at = "adapt"
  /\ run' = [run EXCEPT ![r] =
       [@ EXCEPT !.at = "open", !.buffer = files["ocsf"]]]
  /\ UNCHANGED <<evidence, files, merged, versions, disturbed>>

(***************************************************************************)
(* adapt_ocsf_jsonl_to_siem: the whole OCSF file is read and parsed before *)
(* merged_logs.json is opened, and one bad line raises.  The file is read  *)
(* at one moment.                                                          *)
(***************************************************************************)
AdaptRead(r) ==
  /\ run[r].at = "adapt"
  /\ run' = [run EXCEPT ![r] =
       IF files["ocsf"] \in Seq(Events)
         THEN [@ EXCEPT !.at = "open", !.buffer = files["ocsf"]]
         ELSE Idle]
  /\ UNCHANGED <<evidence, files, merged, versions, disturbed>>

AdaptOpen(r) ==
  /\ run[r].at = "open"
  /\ merged' = Truncated
  /\ run' = [run EXCEPT ![r].at = "write"]
  /\ UNCHANGED <<evidence, files, versions, disturbed>>

(***************************************************************************)
(* The array goes over whatever another run has written since the open;    *)
(* the end of something longer stays behind it.                            *)
(***************************************************************************)
AdaptWrite(r) ==
  /\ run[r].at = "write"
  /\ \/ merged' = run[r].buffer
     \/ merged \notin {Truncated, run[r].buffer} /\ merged' = Torn
  /\ run' = [run EXCEPT ![r] = Idle]
  /\ UNCHANGED <<evidence, files, versions, disturbed>>

(***************************************************************************)
(* A run ends anywhere.  In the middle of a write it may leave part of it. *)
(***************************************************************************)
Die(r) ==
  /\ run[r].at # "idle"
  /\ run' = [run EXCEPT ![r] = Idle]
  /\ disturbed' = TRUE
  /\ \/ UNCHANGED <<files, merged, versions>>
     \/ /\ run[r].at = "append" /\ run[r].handle # "none"
        /\ Written(r, Torn)
        /\ UNCHANGED merged
     \/ /\ run[r].at = "write"
        /\ merged' = Torn
        /\ UNCHANGED <<files, versions>>
  /\ UNCHANGED evidence

Next ==
  \E r \in Runs :
    \/ StartStream(r) \/ StartBatch(r) \/ StoreEvent(r)
    \/ AppendOpen(r) \/ AppendWrite(r)
    \/ Stage(r) \/ Replace(r)
    \/ AdaptRead(r) \/ AdaptOpen(r) \/ AdaptWrite(r)
    \/ Die(r)

Spec == Init /\ [][Next]_vars

-----------------------------------------------------------------------------
(***************************************************************************)
(* No line of any file, nothing the adapter holds and nothing the SIEM is  *)
(* given is about an event whose evidence is not stored, wherever runs     *)
(* overlap and die: run_demo and run_multi_vendor_demo store first.        *)
(***************************************************************************)
InEvidence(lines) ==
  \A i \in DOMAIN lines : lines[i] \in Events => lines[i] \in evidence

ArtifactsTraceable ==
  /\ \A f \in Files : InEvidence(files[f])
  /\ \A r \in Runs : InEvidence(run[r].buffer)
  /\ merged \in Seq(Events) => InEvidence(merged)

(***************************************************************************)
(* What the SIEM can parse is a whole content that the OCSF file had: no   *)
(* event dropped, doubled, reordered or mixed from two contents, because   *)
(* read_ocsf_jsonl raises on a bad line and merged_logs.json is one array. *)
(***************************************************************************)
MergedIsOcsf == merged \in Seq(Events) => merged \in versions

(***************************************************************************)
(* With all runs over, the three files have the same events in the same    *)
(* order and no broken line, if runs neither overlapped nor died since the *)
(* last batch that had the directory to itself: such a batch puts them     *)
(* back in step whatever it finds, and one that raises leaves them so.     *)
(***************************************************************************)
Quiet == \A r \in Runs : run[r].at = "idle"

LayersAlign ==
  Quiet /\ ~disturbed =>
    /\ files["raw"] \in Seq(Events)
    /\ files["normalized"] = files["raw"]
    /\ files["ocsf"] = files["raw"]
=============================================================================
