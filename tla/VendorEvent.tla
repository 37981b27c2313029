---------------------------- MODULE VendorEvent ----------------------------
(***************************************************************************)
(* What the vendor parsers have in common: they look for phrases in texts, *)
(* take the first rule of a list that applies, and fill a legacy event.    *)
(*                                                                         *)
(* A text is a name; PhrasesIn says which of the phrases and patterns the  *)
(* parsers look for are in it.  What a pattern captures is named by the    *)
(* pattern.  Texts are stripped, and stand for their lower-case form       *)
(* where the code lowers them.                                             *)
(***************************************************************************)
EXTENDS LegacyEvent, FiniteSetsExt

CONSTANTS
  PhrasesIn,  \* the phrases and patterns in each text
  IsoForm,    \* the ISO form of each time text that a parser reads
  ColonParts, \* of each text with a colon, what is before the first one and after it
  Undotted    \* the texts that end in full stops, and what they are without them

Has(text, phrase) == phrase \in PhrasesIn[text]
HasAny(text, phrases) == phrases \cap PhrasesIn[text] # {}
HasAll(text, phrases) == phrases \subseteq PhrasesIn[text]

\* what the pattern finds in the text
Extract(text, pattern) == IF Has(text, pattern) THEN Text(pattern) ELSE None

\* the first of two values that is there: "a or b"
Or(a, b) == IF a # None THEN a ELSE b

(***************************************************************************)
(* The texts that clean_value() of the parsers takes for no value.         *)
(***************************************************************************)
NullTexts == {"", "n/a", "na", "none", "null", "-"}

Cleaned(text) == IF text \in NullTexts THEN None ELSE Text(text)

\* dict.get of a text field, with "" for a missing one
Field(fields, name) == IF name \in DOMAIN fields THEN fields[name] ELSE ""

CleanField(fields, name) == Cleaned(Field(fields, name))

\* fields.get(a) or fields.get(b), as text
EitherField(f, a, b) == IF Field(f, a) # "" THEN f[a] ELSE Field(f, b)

\* what the parsers do where a whole number is expected: other texts stay texts
AsNumber(text) ==
  IF text \in DOMAIN Numerals THEN Number(Numerals[text]) ELSE Text(text)

ConvertInt(text) == IF text \in NullTexts THEN None ELSE AsNumber(text)

\* parse_timestamp(): a known form as ISO text, any other text as it is
Timestamp(text) ==
  IF text \in NullTexts THEN None
  ELSE Text(IF text \in DOMAIN IsoForm THEN IsoForm[text] ELSE text)

Rule(type, subtype, outcome, when) ==
  [type |-> type, subtype |-> subtype, outcome |-> outcome, when |-> when]

Unclassified == Rule("UNKNOWN", "UNKNOWN", "UNKNOWN", TRUE)

\* a chain of if and elif: the first rule that applies
FirstRule(rules) ==
  LET hits == {i \in DOMAIN rules : rules[i].when}
  IN IF hits = {} THEN Unclassified ELSE rules[Min(hits)]

\* {**g, **f}: two dictionaries as one, where both have a key with the value of f
f ++ g == [k \in DOMAIN f \cup DOMAIN g |-> IF k \in DOMAIN f THEN f[k] ELSE g[k]]

\* how the PAN-OS parsers name the vendor
PaloAlto == Text("Palo Alto Networks")

\* a dictionary without the entries that have no value
Present(f) == [k \in {j \in DOMAIN f : f[j] # None} |-> f[k]]

\* a dictionary of constant texts
Texts(f) == [k \in DOMAIN f |-> Text(f[k])]

(***************************************************************************)
(* empty_common_event() with some scalars set.                             *)
(***************************************************************************)
EventWith(scalars, details, vendorFields) ==
  [fields |-> [k \in ScalarKeys |-> Lookup(scalars, k)],
   details |-> details, vendor_fields |-> vendorFields, extra |-> <<>>]
=============================================================================
