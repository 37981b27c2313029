---------------------------- MODULE LegacyEvent ----------------------------
(***************************************************************************)
(* The flat event ("legacy event") that vendor parsers, semantic packs and *)
(* Tier 0 hand to the normalization: 20 scalar fields, two dictionaries,   *)
(* and whatever else a parser puts at the top level.                       *)
(*                                                                         *)
(* A Python value is None, a text, an integer, a timestamp or a            *)
(* dictionary; the tag tells them apart.  Text("") stands for every blank  *)
(* text: the code strips before it looks.                                  *)
(***************************************************************************)
EXTENDS Integers, Sequences

CONSTANTS
  None,
  Numerals,   \* what int() accepts: a function from texts to integers
  IsoTimes,   \* what fromisoformat() accepts: from texts to epoch milliseconds
  LowerCase,  \* the texts that lower() changes, and what it makes of them
  UpperCase   \* the texts that upper() changes, and what it makes of them

Text(s) == <<"text", s>>
Number(n) == <<"int", n>>
Time(ms) == <<"time", ms>>
Mapping(f) == <<"mapping", f>>

Is(kind, v) == v # None /\ v[1] = kind

Blank == Text("")

Empty == [k \in {} |-> None]

\* r has these fields and no others
IsRecord(r, fields) == r = [f \in fields |-> r[f]]

\* dict.get
Lookup(f, k) == IF k \in DOMAIN f THEN f[k] ELSE None

\* dict[k] = v
Put(f, k, v) == [j \in DOMAIN f \cup {k} |-> IF j = k THEN v ELSE f[j]]

Lower(s) == IF s \in DOMAIN LowerCase THEN LowerCase[s] ELSE s
Upper(s) == IF s \in DOMAIN UpperCase THEN UpperCase[s] ELSE s

ControlKeys == {"u_id", "raw_id"}

(***************************************************************************)
(* The scalar keys of the legacy event without the control identifiers.    *)
(***************************************************************************)
SemanticKeys ==
  {"timestamp", "vendor", "product", "category", "type", "subtype", "outcome",
   "severity", "src_ip", "src_port", "dst_ip", "dst_port", "protocol", "user",
   "action", "reason", "object_type", "object_name", "vendor_event_id"}

ScalarKeys == ControlKeys \cup SemanticKeys

LegacyEventKeys == ScalarKeys \cup {"details", "vendor_fields"}

(***************************************************************************)
(* "extra" are the other top-level entries in their order, as pairs.       *)
(***************************************************************************)
EmptyLegacyEvent ==
  [fields |-> [k \in ScalarKeys |-> None], details |-> Empty,
   vendor_fields |-> Empty, extra |-> <<>>]
=============================================================================
