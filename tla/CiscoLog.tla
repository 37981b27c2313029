----------------------------- MODULE CiscoLog -----------------------------
(***************************************************************************)
(* What the converters of Cisco logs share.  A line is what the header     *)
(* pattern and the message patterns of its converter find in it:           *)
(*   header    the header pattern matches                                  *)
(*   time      the time before the header, or ""                           *)
(*   facility, severity, event_id                                          *)
(*             the parts of %FACILITY-SEVERITY-EVENT                       *)
(*   message   the text after the header                                   *)
(*   forms     the message patterns that match                             *)
(*   groups    what they capture, stripped, by the name of the group; an   *)
(*             optional group that took no part is missing                 *)
(***************************************************************************)
EXTENDS VendorEvent

LOCAL INSTANCE TLC

Group(m, name) == IF name \in DOMAIN m.groups THEN Text(m.groups[name]) ELSE None

\* "if m.group(...)": an empty group is as good as none
GivenGroup(m, name) == IF Group(m, name) = Blank THEN None ELSE Group(m, name)

\* rstrip(".")
UndottedGroup(m, name) ==
  IF name \in DOMAIN m.groups /\ m.groups[name] \in DOMAIN Undotted
  THEN Text(Undotted[m.groups[name]]) ELSE Group(m, name)

\* split(":", 1)[1] of a reason with a colon
ReasonAfterColon(m) == Text(ColonParts[m.groups.reason][2])

UpperGroup(m, name) == Text(Upper(m.groups[name]))

LowerGroup(m, name) == Text(Lower(m.groups[name]))

\* int() of a group of digits
IntGroup(m, name) ==
  IF name \in DOMAIN m.groups THEN Number(Numerals[m.groups[name]]) ELSE None

\* whether a group that is one of two words is the first of them
Chose(m, name, word) == Lower(m.groups[name]) = word

Outcome(good) == Text(IF good THEN "success" ELSE "failure")

\* a message pattern: its groups, and which of them take digits only
Pattern(form, groups, digits) == [form |-> form, groups |-> groups, digits |-> digits]

\* what a line captured is what the patterns that match can capture
Captured(m, patterns) ==
  \A p \in patterns : p.form \in m.forms =>
    /\ DOMAIN m.groups \subseteq p.groups
    /\ \A g \in p.digits \cap DOMAIN m.groups : m.groups[g] \in DOMAIN Numerals

\* what a message parser sets when it succeeds
Parsed(scalars, details) == [scalars |-> scalars, details |-> details]

\* a parser whose pattern does not match sets nothing and returns False
Match(m, form, parsed) == IF form \in m.forms THEN parsed ELSE None

SeverityNames ==
  <<"emergency", "alert", "critical", "error", "warning", "notice",
    "informational", "debug">>

SeverityOf(m) ==
  IF m.severity + 1 \in DOMAIN SeverityNames THEN Text(SeverityNames[m.severity + 1])
  ELSE None

\* a time that strptime() accepts; the logs without a year get one
Stamp(m) == IF m.time \in DOMAIN IsoForm THEN Text(IsoForm[m.time]) ELSE None

VendorEventId(m) ==
  Text(m.facility \o "-" \o ToString(m.severity) \o "-" \o m.event_id)

UnparsedScalars == Texts([outcome |-> "unknown", action |-> "unparsed"])

(***************************************************************************)
(* convert() of every converter: base is what it sets for each line, head  *)
(* what it takes from the header, parsed what the message parser returned. *)
(***************************************************************************)
Convert(line, base, head, parsed, headerError) ==
  IF ~line.header
  THEN EventWith(UnparsedScalars ++ base, Empty,
                 [parse_error |-> Text(headerError)])
  ELSE IF parsed = None
  THEN EventWith(UnparsedScalars ++ head ++ base, Empty,
                 [message |-> Text(line.message)])
  ELSE EventWith(parsed.scalars ++ head ++ base, parsed.details, Empty)
=============================================================================
