---------------------------- MODULE EvidenceLog ----------------------------
(***************************************************************************)
(* What the raw evidence store promises its callers, without files,        *)
(* hashes or processes: an append-only log holding each event once, and    *)
(* receipts, every one of which is an entry of the log.                    *)
(***************************************************************************)
EXTENDS Naturals, Sequences

CONSTANTS Events, Metas

VARIABLES
  log,     \* the preserved entries, in order
  issued   \* the entries callers hold a receipt for

Entry == [event : Events, meta : Metas]

LogInit ==
  /\ log = << >>
  /\ issued = {}

Preserve(e, m) ==
  /\ \A i \in 1 .. Len(log) : log[i].event # e
  /\ log' = Append(log, [event |-> e, meta |-> m])
  /\ UNCHANGED issued

Acknowledge(i) ==
  /\ issued' = issued \cup {log[i]}
  /\ UNCHANGED log

LogNext ==
  \/ \E e \in Events, m \in Metas : Preserve(e, m)
  \/ \E i \in 1 .. Len(log) : Acknowledge(i)

LogSpec == LogInit /\ [][LogNext]_<<log, issued>>
=============================================================================
