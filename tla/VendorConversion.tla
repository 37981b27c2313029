-------------------------- MODULE VendorConversion --------------------------
(***************************************************************************)
(* The converters at work: one run of one of them over the lines, rows or  *)
(* logs of its input.                                                      *)
(*                                                                         *)
(* The line converters (Cisco, FortiGate routing) write a raw record and   *)
(* an event for each line; the table converter writes an event for each    *)
(* row; the list parsers keep the events of the logs that they accept; the *)
(* multi-vendor demonstration stores each record as evidence, and          *)
(* publishes the normalized events only when it can map all of them.       *)
(*                                                                         *)
(* raw_id and u_id of an event are two prefixes with the same number; in   *)
(* the demonstration the number stands for the identity of the evidence.   *)
(***************************************************************************)
EXTENDS VendorParsers, Normalization

CONSTANTS
  Logs,  \* the logs by name
  Jobs   \* the runs: a converter and the sequence of the names of its logs

ASSUME JobsAssumption ==
  \A run \in Jobs : run.converter \in Converters /\ run.logs \in Seq(DOMAIN Logs)

\* the demonstration reads one file for each of its sources
ASSUME SourcesAssumption ==
  \A run \in Jobs : run.converter = "demo" =>
    \A i \in DOMAIN run.logs : Logs[run.logs[i]].source \in Sources

\* the patterns capture a neighbor and a next hop with \S+
ASSUME AddressesAreWords ==
  \A name \in DOMAIN Logs :
    \A g \in {"neighbor", "next_hop"} \cap DOMAIN Logs[name].groups :
      Logs[name].groups[g] # ""

\* lower() leaves a word in small letters as it is
ASSUME SmallLettersStay ==
  \A word \in RoutingSubtypes \cup RoutingObjects \cup {"routing"} : Lower(word) = word

\* what a line captured has the names of the pattern, and digits where it asks for them
PatternsOf(converter, log) ==
  CASE converter = "cisco.traffic" -> Asa!Patterns
    [] converter = "cisco.vpn" -> AsaVpn!Patterns(log)
    [] converter = "cisco.router" -> Ios!Patterns
    [] converter = "cisco.system" -> IosSystem!Patterns
    [] converter = "fortigate.router" -> Routing!Patterns

ASSUME PatternsCapture ==
  \A run \in Jobs : run.converter \in LineConverters =>
    \A i \in DOMAIN run.logs :
      LET log == Logs[run.logs[i]]
      IN Asa!Captured(log, PatternsOf(run.converter, log))

\* the state that these patterns take makes a name of an action with its prefix
ASSUME StatesAreNamed ==
  \A name \in DOMAIN Logs :
    Logs[name].forms \cap {"Interface", "Line-protocol", "neighbor", "EIGRP", "ISIS"} # {} =>
      /\ "state" \in DOMAIN Logs[name].groups
      /\ \A what \in {"interface_", "line_protocol_", "neighbor_", "adjacency_"} :
           what \o Lower(Logs[name].groups.state) # "unparsed"

Ocsf == INSTANCE OcsfMapping

VARIABLES
  job,               \* the run
  at,                \* how many of its logs are read
  raws,              \* raw records written, for the demonstration evidence
  events,            \* events written, with their numbers
  parsed, unparsed,  \* the counters of the line converters
  phase              \* "reading", "done" or "failed"

vars == <<job, at, raws, events, parsed, unparsed, phase>>

Line(i) == Logs[job.logs[i]]

Ended == at = Len(job.logs)

\* Blank lines have no event; the Cisco converters pass over comments too.
Keeps(converter, log) ==
  IF converter \in ListParsers THEN Accepts(converter, log)
  ELSE /\ log.kind # "blank"
       /\ converter \in CiscoConverters => log.kind # "comment"

\* the converters that number the records they keep, not the lines they read
Counting == CiscoConverters \cup TableConverters \cup {"demo"}

\* Mutant: the first record has the number 0.
NumberFromZero == IF job.converter \in Counting THEN Len(events) ELSE at

\* Mutant: only the lines that parse are counted.
NumberOfParsed ==
  IF job.converter \in CiscoConverters THEN parsed + 1
  ELSE IF job.converter \in Counting THEN Len(events) + 1 ELSE at + 1

\* the number of the next record
RecordNumber == IF job.converter \in Counting THEN Len(events) + 1 ELSE at + 1

RawOf(log) == [number |-> RecordNumber, text |-> log.text]

EventOf(log) == [number |-> RecordNumber, event |-> Convert(job.converter, log)]

Init ==
  /\ job \in Jobs
  /\ at = 0 /\ raws = <<>> /\ events = <<>> /\ parsed = 0 /\ unparsed = 0
  /\ phase = "reading"

-----------------------------------------------------------------------------
Read == phase = "reading" /\ ~Ended

\* a log without an event
SkipLine ==
  /\ Read
  /\ ~Keeps(job.converter, Line(at + 1))
  /\ at' = at + 1
  /\ UNCHANGED <<job, raws, events, parsed, unparsed, phase>>

ConvertLine ==
  LET entry == EventOf(Line(at + 1))
      bad == entry.event.fields.action = Text("unparsed")
  IN /\ Read
     /\ job.converter \in LineConverters
     /\ Keeps(job.converter, Line(at + 1))
     /\ at' = at + 1
     /\ raws' = Append(raws, RawOf(Line(at + 1)))
     /\ events' = Append(events, entry)
     /\ unparsed' = unparsed + (IF bad THEN 1 ELSE 0)
     /\ parsed' = parsed + (IF bad THEN 0 ELSE 1)
     /\ UNCHANGED <<job, phase>>

ConvertRow ==
  /\ Read
  /\ job.converter \in TableConverters \cup ListParsers
  /\ Keeps(job.converter, Line(at + 1))
  /\ at' = at + 1
  /\ events' = Append(events, EventOf(Line(at + 1)))
  /\ UNCHANGED <<job, raws, parsed, unparsed, phase>>

Finish ==
  /\ phase = "reading" /\ Ended
  /\ job.converter # "demo"
  /\ phase' = "done"
  /\ UNCHANGED <<job, at, raws, events, parsed, unparsed>>

-----------------------------------------------------------------------------
(***************************************************************************)
(* The demonstration.  The evidence is stored before the record is parsed. *)
(***************************************************************************)
Refused(log) == log.source = "suricata" /\ ~IsAlert(log)

PrepareRecord ==
  /\ Read
  /\ job.converter = "demo"
  /\ Keeps("demo", Line(at + 1)) /\ ~Refused(Line(at + 1))
  /\ at' = at + 1
  /\ raws' = Append(raws, RawOf(Line(at + 1)))
  /\ events' = Append(events, EventOf(Line(at + 1)))
  /\ UNCHANGED <<job, parsed, unparsed, phase>>

RefuseRecord ==
  /\ Read
  /\ job.converter = "demo"
  /\ Keeps("demo", Line(at + 1)) /\ Refused(Line(at + 1))
  /\ raws' = Append(raws, RawOf(Line(at + 1)))
  /\ phase' = "failed"
  /\ UNCHANGED <<job, at, events, parsed, unparsed>>

\* what the normalization makes of an event
CommonEvent(event) ==
  MapLegacyEvent([event EXCEPT !.fields.u_id = Text("u_id"),
                                    !.fields.raw_id = Text("raw_id")], "mapped")

\* the event is normalized and mapped without an error
Maps(event, binding) ==
  LET common == CommonEvent(event)
  IN /\ Accepted(common)
     /\ Ocsf!Binds(common, binding)
     /\ Ocsf!Validates(Ocsf!OcsfEvent(common, binding))

KeptLines == SelectSeq(job.logs, LAMBDA name : Keeps("demo", Logs[name]))

AllMap ==
  \A i \in DOMAIN events : Maps(events[i].event, PrepareLine(Logs[KeptLines[i]]).binding)

\* the output files are staged and replace the old ones together
Publish ==
  /\ phase = "reading" /\ Ended
  /\ job.converter = "demo" /\ AllMap
  /\ phase' = "done"
  /\ UNCHANGED <<job, at, raws, events, parsed, unparsed>>

Abort ==
  /\ phase = "reading" /\ Ended
  /\ job.converter = "demo" /\ ~AllMap
  /\ phase' = "failed"
  /\ UNCHANGED <<job, at, raws, events, parsed, unparsed>>

Next ==
  \/ SkipLine \/ ConvertLine \/ ConvertRow \/ Finish
  \/ PrepareRecord \/ RefuseRecord \/ Publish \/ Abort

Spec == Init /\ [][Next]_vars

-----------------------------------------------------------------------------
\* a value of Python that JSON can hold
IsValue(v) ==
  v = None \/ \E kind \in {"text", "int", "float", "bool", "list", "mapping"} : Is(kind, v)

IsEvent(e) ==
  /\ IsRecord(e, {"fields", "details", "vendor_fields", "extra"})
  /\ IsRecord(e.fields, ScalarKeys) /\ \A k \in ScalarKeys : IsValue(e.fields[k])
  /\ \A k \in DOMAIN e.details : IsValue(e.details[k])
  /\ \A k \in DOMAIN e.vendor_fields : IsValue(e.vendor_fields[k])

\* The payload of an alert was read from JSON.
ASSUME PayloadsAreValues ==
  \A name \in DOMAIN Logs :
    \A k \in DOMAIN Logs[name].payload : IsValue(Logs[name].payload[k])

\* Every converter writes complete legacy events, whatever it was given, and the
\* positions and counters stay within the input.
TypeOK ==
  /\ job \in Jobs /\ at \in 0 .. Len(job.logs)
  /\ parsed \in 0 .. at /\ unparsed \in 0 .. at
  /\ phase \in {"reading", "done", "failed"}
  /\ \A k \in DOMAIN raws : IsRecord(raws[k], {"number", "text"})
  /\ \A k \in DOMAIN events : events[k].number \in 1 .. at /\ IsEvent(events[k].event)

-----------------------------------------------------------------------------
\* the lines up to the n-th that have an event
KeptUpTo(n) == {i \in 1 .. n : Keeps(job.converter, Line(i))}

Place(i) == Cardinality(KeptUpTo(i))

NumberAt(i) == IF job.converter \in Counting THEN Place(i) ELSE i

EventAt(i) == [number |-> NumberAt(i), event |-> Convert(job.converter, Line(i))]

RawAt(i) == [number |-> NumberAt(i), text |-> Line(i).text]

WritesRaws == LineConverters \cup {"demo"}

\* Each line that is kept has one event, in the order of the lines; its number is that
\* of the line, or of the event where the converter counts events, and the raw record
\* at the same place has the same number and the text of the line.  The two counters
\* that a line converter reports add up to its events, none forgotten.  Only a refused
\* alert leaves a raw record without an event behind, and then the run has failed.
EveryLineOnce ==
  /\ Len(events) = Place(at)
  /\ \A i \in KeptUpTo(at) : events[Place(i)] = EventAt(i)
  /\ job.converter \in LineConverters => parsed + unparsed = Len(events)
  /\ job.converter \in WritesRaws =>
       /\ Len(raws) = Len(events) \/ (phase = "failed" /\ Len(raws) = Len(events) + 1)
       /\ \A i \in KeptUpTo(at) : raws[Place(i)] = RawAt(i)

\* what a text may have become: in small letters or capitals, or a number
Images(text) ==
  {Text(text), Text(Lower(text)), Text(Upper(text))}
  \cup (IF text \in DOMAIN Numerals THEN {Number(Numerals[text])} ELSE {})

ValuesIn(e) ==
  {e.fields[k] : k \in DOMAIN e.fields} \cup {e.details[k] : k \in DOMAIN e.details}

\* the groups of which only the meaning is kept, in the outcome
Verdicts == {"decision", "result"}

\* the other groups, if they captured anything
Captures(log) ==
  {g \in DOMAIN log.groups \ Verdicts : Text(log.groups[g]) # Blank}

\* The reason of an OSPF adjacency has a label, which may go: to the IOS converter it is
\* all before the first colon, to that of routing logs "neighbor down" and no other text.
IsLabelled(log, g) ==
  /\ g = "reason" /\ "Process" \in log.forms /\ log.groups[g] \in DOMAIN ColonParts
  /\ job.converter = "fortigate.router" =>
       Lower(ColonParts[log.groups[g]][1]) = Routing!NeighborDown

\* The reason of a reload may lose the full stops at its end.
IsDotted(log, g) ==
  g = "reason" /\ "Reload" \in log.forms /\ log.groups[g] \in DOMAIN Undotted

\* the forms in which a group may be kept
Forms(log, g) ==
  Images(log.groups[g])
  \cup (IF IsLabelled(log, g) THEN {Text(ColonParts[log.groups[g]][2])} ELSE {})
  \cup (IF IsDotted(log, g) THEN {Text(Undotted[log.groups[g]])} ELSE {})

\* the columns of the traffic table of which the event has a form of its own
Rewritten == {"date", "time", "tz", "action", "proto"}

\* Of a line that parses, each group that its pattern captured is in the event, whole but
\* for the label of the reason of an OSPF adjacency and the full stops of that of a
\* reload; of a line that does not, the whole message is.  Of a row of the traffic table
\* every column is in the event, known or not, in a known place or not, but for one: a
\* count that is no number has no value and no other place.
CapturedStays ==
  \A i \in KeptUpTo(at) :
    LET e == events[Place(i)].event
        log == Line(i)
        row == log.cells
        kept == {e.vendor_fields[k] : k \in DOMAIN e.vendor_fields}
        counts == {FgTraffic!NumberDetails[k] : k \in DOMAIN FgTraffic!NumberDetails}
                  \cup {"srcport", "dstport"}
    IN /\ job.converter \in LineConverters /\ log.header =>
            IF e.fields.action = Text("unparsed") THEN Text(log.message) \in kept
            ELSE \A g \in Captures(log) : Forms(log, g) \cap ValuesIn(e) # {}
       /\ job.converter = "fortigate.traffic" =>
            \A c \in DOMAIN row \ Rewritten :
              row[c] # "" /\ (c \in counts => row[c] \in DOMAIN Numerals) =>
                Images(row[c]) \cap (ValuesIn(e) \cup kept) # {}

\* the phrases that say that somebody wanted what happened
Wanted == {"administrative down", "bypassed", "graceful", "logout succeeded"}

\* What an administrator or a user brought about is not reported as a failure, though
\* the same logs say "down" and the parsers look for that too.
WantedIsNoFailure ==
  job.converter \in PanosParsers =>
    \A i \in KeptUpTo(at) :
      HasAny(Field(Line(i).cells, "description"), Wanted) =>
        events[Place(i)].event.fields.outcome # Text("FAILURE")

\* The address of a routing peer or a next hop stands where traffic has its
\* destination; the normalization takes it for no endpoint, and keeps it.
PeersAreNoEndpoints ==
  \A k \in DOMAIN events :
    LET event == events[k].event
        address == event.fields.dst_ip
        common == CommonEvent(event)
    IN address # None /\ address \in {Lookup(event.details, "neighbor_ip"),
                                      Lookup(event.details, "next_hop")} =>
         /\ \A key \in EndpointKeys : common.slots[FieldSlot[key]] = None
         /\ Lookup(UnmappedFields(common.details), "dst_ip") = address

-----------------------------------------------------------------------------
UsableTime(log) ==
  IF log.source = "suricata" THEN Lookup(log.payload, "timestamp") # None
  ELSE log.time \in DOMAIN IsoForm

WidePort(log) ==
  \/ \E g \in {"first_port", "second_port"} \cap DOMAIN log.groups :
       Numerals[log.groups[g]] > 65535
  \/ \E k \in {"src_port", "dest_port"} \cap DOMAIN log.payload :
       log.payload[k][2] > 65535

\* the records that the bindings of the demonstration have no place for
Hopeless(log) ==
  \/ Refused(log) \/ ~UsableTime(log) \/ WidePort(log)
  \/ log.source = "cisco" /\ ~log.header
  \/ log.source = "linux" /\ {"Failed-password", "sudo"} \cap log.forms = {}
  \/ log.source = "suricata" /\ ~({"vendor", "product"} \subseteq DOMAIN log.payload)

\* The demonstration publishes all of its events or none: a single record without a
\* usable time, with a port out of range or of a kind that is not bound is what it
\* takes to lose the whole run, and nothing else does.
OneRecordLosesTheRun ==
  job.converter = "demo" /\ phase # "reading" =>
    (phase = "failed" <=>
       \E i \in DOMAIN job.logs : Keeps("demo", Line(i)) /\ Hopeless(Line(i)))

-----------------------------------------------------------------------------
VendorOf(converter) ==
  CASE converter \in PanosParsers -> "Palo Alto Networks"
    [] converter \in {"fortigate.traffic", "fortigate.system", "fortigate.vpn"} ->
         "Fortinet"
    [] converter \in {"cisco.traffic", "cisco.vpn"} -> "Cisco"
    [] OTHER -> None

\* the parsers by the names that the detection engine has for them
ParserNamed ==
  [id \in {"paloalto.pan_os.traffic", "paloalto.pan_os.vpn", "paloalto.pan_os.router",
           "paloalto.pan_os.system", "fortinet.fortigate.system",
           "fortinet.fortigate.vpn"} |->
     CASE id = "paloalto.pan_os.traffic" -> "paloalto.traffic"
       [] id = "paloalto.pan_os.vpn" -> "paloalto.vpn"
       [] id = "paloalto.pan_os.router" -> "paloalto.router"
       [] id = "paloalto.pan_os.system" -> "paloalto.system"
       [] id = "fortinet.fortigate.system" -> "fortigate.system"
       [] id = "fortinet.fortigate.vpn" -> "fortigate.vpn"]

\* the SYSTEM subtypes for which the engine and the parsers name different families
Contested == {"pbf", "crypto", "globalprotect"}

PanosTypes == {"SYSTEM", "TRAFFIC", "GLOBALPROTECT"}

\* The detection engine never takes a log of one vendor for one of another; but for the
\* contested subtypes and rows that are too short the parser that it names accepts the
\* log; and what the named PAN-OS parser passes over, another one of them accepts.  A
\* row with two parsers is one of the routing and the system parser: the first also goes
\* by event ids and modules, the second leaves it two subtypes and has no "bfd" there.
DetectionAgrees ==
  \A i \in 1 .. at :
    LET log == Line(i)
        seen == Engine!DetectLog(log)
        panos == seen.product = "PAN-OS"
        owners == {parser \in PanosParsers : Accepts(parser, log)}
    IN /\ i \in KeptUpTo(at) /\ VendorOf(job.converter) # None =>
            seen.vendor \in {None, VendorOf(job.converter)}
       /\ seen.parser_id \in DOMAIN ParserNamed =>
            \/ Accepts(ParserNamed[seen.parser_id], log)
            \/ panos /\ (log.columns < 15 \/ log.cells.subtype \in Contested)
       /\ panos /\ log.columns >= 15 /\ log.cells.type \in PanosTypes =>
            /\ owners # {}
            /\ Cardinality(owners) > 1 =>
                 owners = {"paloalto.router", "paloalto.system"}
=============================================================================
