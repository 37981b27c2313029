# AegisGuard-ULPF: formal models and proofs

This directory models the parts of AegisGuard-ULPF where a test reaches least: the
evidence store and its hash chain, the audit of a damaged store, the pipeline with
its signed semantic packs, the path of one event from raw log to OCSF, the vendor
parsers with the converters and detectors around them, and the files that are handed to
the SIEM. TLC checks
every model on small instances; TLAPS proves the main results for every value of
the constants. Paths below are relative to the repository; the package is
`src/aegisguard_ulpf/`.

    tlasany M.tla                          parse
    tlc -config X.cfg MCModule.tla         check (the runs are listed below)
    tlapm M.tla                            prove

## 1. The system

ULPF takes perimeter-security logs (FortiGate, Cisco, PAN-OS, Suricata, Linux,
Windows), stores the raw bytes as evidence, detects the source, parses with a
vendor parser, a signed declarative *semantic pack* or the Tier-0 fallback,
normalizes to a CommonEvent, maps to OCSF and adapts the result to a SIEM. There
are no threads and no event loop. Concurrency comes from several processes over one
directory: `demo/run_demo.py` and `demo/run_multi_vendor_demo.py` both write
`demo/evidence` and `demo/output`, while the CLI and the Streamlit dashboard read
them, operators replace pack files and trusted keys, and any process can die.

    bytes -> RawEvidenceStore.store -> decode -> DetectionEngine
          -> SemanticPackResolver | ParserRegistry | Tier0 parser
          -> NormalizationEngine -> OCSF mapper -> JSONL files -> SIEM adapter
                                                 \-> dashboard
    CLI / dashboard -> RawEvidenceStore(...).verify

| Component | State | Operations | Hard part | What makes it correct |
|---|---|---|---|---|
| Raw evidence store (`traceability/raw_store.py`, `lineage.py`) | manifest JSONL, blobs, temporary files; per process the loaded records and two indexes | constructor, `store`, `verify`, lookups | crash or I/O error between any two file operations; torn append; retry; two writers; shared temporary name | one unbroken duplicate-free chain, blob before record, receipts stay true, loss is never silent, a replay always gets through |
| Evidence audit (`verify`, CLI, dashboard) | the same files, altered by something else | load, `verify` | what a PASS is worth; the walk is bounded by a field of the record itself | PASS pins the record and its whole past; damage does not spread backwards |
| Pipeline (`core/pipeline.py`) | none of its own; calls the store, resolver, registry | `process_bytes`, `process` | every step can raise; three routes | evidence first, identifiers on every result, pack trouble changes no route |
| Packs (`parsing/semantic_packs/resolver.py`, `loader.py`, `signing.py`) | runtime cache; pack files, trusted keys | `resolve`, `parse`, load, verify, sign in place | files and keys change between two reads; truncating write; stale cache; a second resolve for the OCSF binding | only signed content runs; failures are not remembered; one pack per event |
| Outputs (`outputs/json_file.py`, `integration/siem_adapter.py`, demos) | three JSONL files, `merged_logs.json` | append, staged batch, adapt | torn and joined lines, stale handles, three separate renames, truncating write | every line is backed by evidence, the SIEM sees a whole file or none, a batch repairs |
| Pack runtime (`semantic_packs/runtime.py`, `models.py`) | the event under construction | `run`: parse, classify, operations, vendor fields | order of operations, protected targets, an overlay that must fit the rule it serves | no operation changes what the classification said |
| Normalization (`normalization/`) | none | map, validate, audit | conversions that fail, names that collide, an audit that goes by names | no value is lost, each is counted once, "mapped" means it is there |
| Detection (`detection/`) | none | format, source, family | overlapping signatures, lists kept apart from those of the parsers | it names no other vendor, and a parser that takes the log |
| Tier-0, unknown logs (`fallback/`) | none | extract, suggest | status of a fallback result | never claims semantics |
| OCSF, SIEM contract (`normalization/ocsf/`, `integration/siem_contract_mapper.py`) | none | classify, map, validate, envelope | deferral, legal ids | a mapped event validates |
| Privacy (`privacy/`) | none | policy over paths | overlapping paths, order | protected paths are untouched, a masked value does not survive |
| Drift, fidelity calculator (`drift/`, `fidelity/`) | none | compare coverages | boundary | an alert exactly below the threshold |
| Vendor parsers (`parsing/vendors/`, about 13,900 lines) | the counters and open files of a conversion | detect, classify, normalize, convert a file | cascades of rules over phrases that contain each other; captures copied one by one; records numbered by counters | no capture is lost but for the two ways of shortening a reason, an outcome means what happened, peers are no endpoints, each line has one event and one raw record |
| Multi-vendor demo (`demo/run_multi_vendor_demo.py`) | evidence, staged files | prepare, normalize, publish | evidence first, then all events or none | only a record without a place in its binding loses the run |
| Dashboard, CLI, other demos, scripts | none of their own | read, print, drive | three files read in turn | - |
| Exporters, traceability view, ingestion, ml, visibility | none | single-file writers and pure helpers | - | - |
| Empty placeholders (`api/`, `observability/`, `taxonomy/`, `outputs/http.py`, ...) | - | - | - | - |

`PROJECT.json` has the same list with a status for each, and the hazards with the
line where each bites.

## 2. Modules

| Module | Models |
|---|---|
| `EvidenceChain` | records, `compute_chain_hash`, the next record, the verification walk. A SHA-256 value is the sequence of everything it commits to, so equal hashes mean equal content: collision freedom is the one assumption on cryptography |
| `EvidenceStore` | processes over one evidence directory; `store()` split at every file operation |
| `EvidenceLog` | what the store promises: an append-only log whose entries are acknowledged after they are in it |
| `EvidenceAudit` | a directory altered field by field, line by line, blob by blob, and what `verify()` answers |
| `EventPipeline` | `process_bytes()`/`process()`, the resolver and loader step by step, the signing tool, operators who change files and keys |
| `LegacyEvent` | the flat event between parsers and normalization, and its values |
| `PackRuntime` | `SemanticPackRuntime.run` step by step, the ten operations, the operation validators |
| `Normalization` | `map_legacy_common_event`, preservation under `details.unmapped_fields`, `validate_common_event` |
| `MappingFidelity` | `evaluate_mapping_fidelity`: labels, dispositions, coverages, status |
| `OcsfMapping` | registry, binding validation, `map_common_event_to_ocsf`, `OCSFValidator` |
| `EventPath` | these composed: one event from a raw log, a parser or Tier 0 to OCSF |
| `OutputArtifacts` | stream and batch runs and the SIEM adapter over one output directory |
| `VendorEvent` | what the vendor parsers share: phrases, captures, cleaning, conversion, cascades of rules, the event |
| `PanosTraffic`, `PanosVpn`, `PanosRouter`, `PanosSystem` | the PAN-OS parsers: `detect`, `classify`, details, object, `normalize` |
| `FortigateLog`, `FortigateTraffic`, `FortigateVpn`, `FortigateSystem`, `RoutingLog` | the FortiGate parsers and the converter of its routing lines |
| `CiscoLog`, `CiscoTraffic`, `CiscoVpn`, `CiscoRouter`, `CiscoSystem` | the Cisco parsers: a pattern for each message |
| `DemoSources` | the Cisco, Suricata and Linux sources of the demonstration with their bindings, and the Linux parser |
| `Detection` | the format, source and family detectors and the engine over them |
| `VendorParsers` | the parsers by name |
| `VendorConversion` | a run of a converter, parser or the demonstration over a file, with the normalization and OCSF mapping of `Normalization` and `OcsfMapping` behind it |
| `PositionLemmas` | the last position with a property, and other facts about positions that the proofs share |
| `*Proofs` | the theorems of a component; `NormalizationProofs` has the lemmas about the normalization and its audit that `EventPathProofs` and `VendorConversionProofs` share |
| `MC*` | constants for TLC |

### EvidenceStore

`manifest`/`tail` are the terminated lines and what follows the last newline, `blob`
and `tmp` the two files of an event, `mem` the `_records` list of a process, `pc` and
`job` where its `store()` call stands. A raw identifier is derived from the event, so
a file is named by its event. `StoreExisting` is the idempotent return; `StoreNew`
computes the record from memory; `OpenTmp`, `WriteTmp`, `Replace` are `_write_blob`;
`AppendManifest` and `Remember` are the rest. `BlobRaises`, `AppendRaises`,
`ReplaceRaises` are the OSErrors, `Crash` the death of a process. `fd` keeps track of
what a file a process has open is now called, because `os.replace` moves a file that
someone else may be writing. `Open` is the constructor and refuses a manifest with a
line that does not parse.

`KeepAfterError` says whether a caller goes on with a store object whose `store()`
raised. No caller in the repository does; the runs have both.

### EvidenceAudit

Every verifier constructs a store and calls `verify()`, so a verification reads the
files as they are. `Variants` are the values an altered field can take: what exists in
the directory, or a hash that seals nothing; an alteration never computes a hash.
`written` and `intact` are history.

### EventPipeline

`call` is the one event the process is working on with its position in the code;
`file` and `trusted` what operators can change between any two steps; `cache` the
resolver's `_runtime_cache` of the one configured workflow; `signing` the
`sign_semantic_pack_file` call of another process, with its read, truncation and
write. `steady` is history: nothing was changed since the resolve began.
A pack is its body, the key it names and a signature, itself a pair of key and signed
body. `Applies` says which packs accept which events, and stands for the runtime's
parsing.

### EventPath

`at` is where the one event stands: `parse`, `classify`, `operate` inside
`SemanticPackRuntime.run`, then `parsed`, `normalized`, `audited`, and how it ended
(`mapped`, `deferred`, `unbound` when the mapper refuses a value, `invalid` when the
validator refuses the event, `raised`). `pack`, `log`, `source`, `event` and `done` are
the variables of `run()`; `common`, `report` and `ocsf` the results. A pack is loaded
only if `ValidPack` holds. An event can also come from a vendor parser
(`ParseWithoutPack`, any legacy event) or from Tier 0; `pack` then holds the configured
binding only.

A value is None or tagged as text, integer, time or mapping, because the mapper decides
by type. A text is one symbol: `Text("")` stands for every blank text, and `Numerals`,
`IsoTimes`, `LowerCase` and `UpperCase` say what `int()`, `fromisoformat()` and the case
conversions make of the others. A `CommonEvent` is a function from slots
(`"src_endpoint.port"`) to values; a nested model whose slots are all None and one that
is None are the same. `DetailSlots` is the table of which detail fills which slot in
which context. The labels of the audit are pairs of kind and name. The clocks of
`normalize()` are one Boolean: the times the caller and the clock give are in order or
they are not.

### Vendor parsers and conversion

A log is a record with everything that any parser or detector looks at (the list is in
`VendorParsers`). The columns or pairs of a log are functions from names to texts, with
blank columns left out. What regular expressions do is given with the log, never worked out
character by character: `groups` are the captures of the pattern that matches, by the name
of the group, and `forms` names the pattern. `PhrasesIn` says which phrases a text has in
it. `HasAny` and `HasAll` ask for them where the code searches a text, and a text that the
code joins from several has the phrases of all of them. `Extract` is a capture inside a
text. `ColonParts` and `Undotted` are what `split(":", 1)` and `rstrip(".")` make of the
captures that have a colon or end in a full stop; a group that captured nothing counts as
none where the code asks for it first (`GivenGroup`). Texts are written in the case in which
the code compares them.

A cascade of `if` and `elif` is a sequence of `Rule`s, and `FirstRule` takes the first
whose condition holds: their order is the point. `EventWith` completes an event with the
blank fields of `empty_common_event`. Where the code writes a Python Boolean or a list,
the event has a text.

`VendorConversion` runs one converter over a sequence of logs. `job` and `at` are the
converter and its position in the file, `raws` and `events` the two files that it writes,
`parsed` and `unparsed` the counters it prints. The line converters number the records they
keep, `RoutingLog` numbers lines; `raw_id` and `u_id` have different prefixes and the same
number, so that an entry has one `number`. In the demonstration a raw record stands for the
evidence of `store()` (the store itself is `EvidenceStore`), and `PrepareRecord` and
`RefuseRecord` are a turn of its loop over the input. A converter is a batch program and
ends: deadlock is not checked in its run.

The sample logs (`MCVendorConversion`) are in the manner of the fixtures the parsers carry with
them, with one log for each rule and each capture of every parser and more for the overlap
of rules. The models of the parsers were compared with what the Python code returns for
the corresponding lines.

### OutputArtifacts

A line is the event it is about, or `Torn` or `Bad`. A run is a stream run (evidence,
three appends, adapter) or a batch run (evidence for all, staging directory, three
`os.replace`, adapter). `handle` is an appender's open file, stale when a batch has
replaced it. `versions`, `disturbed` and `alone` are history.

## 3. Runs

| Run | Question | Bounds |
|---|---|---|
| `store_crash` | one writer, one verifier, crashes and I/O errors at every file operation: chain, duplicates, receipts, loaded records, refinement of `EvidenceLog` | 3 events, 2 metadata values, 3 faults: a chain with a predecessor and a successor, and a fault during the repair of a fault |
| `store_faulty` | all faults, lines that lose only their newline, a caller that retries on the same object: what holds even when the chain breaks | 3 events, 3 faults |
| `store_replay` | two processes with the same two events: liveness of the replay, and the shared temporary file | 2 faults, one for each process; fairness below |
| `store_two_writers` | violation: "Each subsequent record includes the preceding chain hash" | 2 writers |
| `audit_detect` | two alterations of any kind: what a PASS means | 3 lines, two of them with equal bytes |
| `audit_index` | violation: "alteration ... is detected during verification" | chain_index only |
| `pipeline` | all routes and errors while packs and keys change at any moment | 5 kinds of event, 2 pack bodies, 1 key; with more keys the proofs speak |
| `pipeline_anchor` | violation: the FortiGate pack must match its own trust anchor | 2 keys |
| `pipeline_stale` | violation: an absent or untrusted pack gives no result | 1 pack |
| `event_path` | packs, parser events and Tier-0 events through normalization, audit and OCSF | 8 packs in the manner of the shipped ones (CSV with extra columns, key-value; deferred, bound; illegal target, illegal severity), 111 CSV logs and 144 token lists, 3,888 parser events |
| `vendor` | every parser, converter and demonstration source over its logs: numbering, captures, outcomes, endpoints, all or nothing, agreement with the detection | 229 sample logs, each alone in every converter that may read it, and 16 runs of up to six lines with blank lines, comments, unparsed lines and logs of other parsers between; the parsers keep no state between lines, so that longer runs add nothing but numbers, for which there is a proof |
| `output_files` | two runs overlap and die over one output directory | batches of one and two events, one deferred; a run starts while files have fewer than 2 lines |

Each property of a passing run has a mutant in `PROJECT.json`: a plausible bug in one
definition, written just before it in its module, with which TLC finds the property
violated. Mutants are no part of any specification.

Deadlock is checked except where the system may stop: a torn manifest that no
constructor accepts, a full manifest under `MaxRecords`, the violation runs, an
output directory whose files are at `MaxLines`, and a conversion that is done.

**What the passing runs say.** With one writing process at a time, callers that drop a store
whose `store()` raised, and no append cut exactly before its newline, the chain stays whole
through any crash. Without those conditions four weaker promises remain: no record before
its blob, one receipt per event, no loss a reopened store would not report, and no lasting
harm from the shared temporary file as long as nobody dies. A PASS vouches for every earlier
record. Only content signed by the key it names runs, the binding comes from the pack that
parsed, and a pack that is good is never kept out by an earlier failure. A pack cannot
change what its classification said, whatever its operations. No value of a parsed event is
lost by the normalization: it is in its slot or preserved under some name. The audit counts
each value once and calls a field mapped only if it is in the event, a binding that loads
makes no OCSF event the validator refuses (but for a time before 1970 and a blank name for
"other"). Of the vendor parsers: each line that is kept has one event and one raw record
with the same number. What a Cisco or routing pattern captured is in the event, whole but
for two reasons that the code shortens. That of an OSPF adjacency loses its label: "Neighbor
Down: Dead timer expired" leaves "Dead timer expired". The IOS parser takes everything
before the first colon for a label, whatever it says ("Too many retransmissions: neighbor
held down" leaves "neighbor held down"), and that information is then only in the raw
record; the routing parser takes "neighbor down" and nothing else. The reason of a reload
loses its full stops. Every column of the FortiGate traffic table is in the event but a
count that is no number. What somebody wanted is not reported as a failure by the PAN-OS
cascades. Peers and next hops become no endpoints. The demonstration loses a run exactly for
the records its bindings have no place for. Detection never names another vendor, and the
parser it names takes the log, but for three SYSTEM subtypes (below). The SIEM can parse
only a whole former content of the OCSF file; after any accident one undisturbed batch run
brings the layers back in step.

**Disagreements with the documentation.**
* `store_two_writers`: the previous hash comes from memory. Two processes fork the
  chain, and both writers of the repository default to one directory.
* `audit_index`: `verify()` walks as far as the record's own `chain_index` says; with
  the index lowered to 1 the walk ends at the first record, and nothing the chain hash
  of the altered record covers is looked at. (A `version` or `blob_file` that was altered is outside the
  chain hash as well: `compute_chain_hash` uses the constant version.)
* `pipeline_anchor`: any trusted key will do for any workflow; neither the key nor the
  manifest is compared with the identity that is resolved.
* `pipeline_stale`: a cached runtime outlives its file and its key.

Others that the models show and that have no run of their own. A pack that preserves
vendor fields copies every source field, also those its operations mapped, and the audit
counts all vendor fields as unmapped (`fidelity.py:406`), while
`docs/FIDELITY_MEASUREMENT.md:20` says that an unmapped field has no representation in the
event. `detect()` of the PAN-OS system parser says that it leaves the routing subtypes to
their parser (`system.py:587`), but its list lacks "bfd", and it does not look at the event
ids and modules by which the routing parser also claims a row: such a row becomes two
events (`DetectionAgrees` allows exactly these two parsers). The family detector calls the
SYSTEM subtypes "pbf" and "crypto" system events and "globalprotect" VPN events, and the
parsers see them otherwise (`Contested`).
`docs/tier0_unknown_handling.md` gives Tier 0 a coverage of 0%; a vendor and product
the detection established count as mapped. Plain `normalize()` leaves a Tier-0 event
"mapped", its default; the audit corrects it, except for an event with nothing in it. A
parser that fills `details.unmapped_fields` itself under the name of a known field makes
the audit misjudge that field (`Hidden` in `EventPath`). One that fills it under the
name of a further entry of its own event makes the audit count that entry twice, though a
comment says "keep that disposition instead of counting it twice"
(`normalization/fidelity.py:464`): the entry is preserved under a new name, which the audit
does not know for the same value. The proof of `EveryItemOnce` stopped at this case, and
the property now leaves out the entries in `Shadowed`. No parser of the repository does
either.

**Fairness** (`store_replay` only). A `store()` call that has begun is straight-line code
of a running process: weak fairness of its steps. Whoever runs the feed starts it again:
weak fairness of `Open`. Each event of the feed is submitted again while it can be:
strong fairness, because crashes and other events make the submission come and go.
Faults are bounded and unfair.

## 4. Proofs

`PROJECT.json` lists the theorems; each states a property some run checks.

**EvidenceStore** (`EvidenceStoreProofs`). `TypeCorrect` needs nothing. The other four
invariants and `Refinement` assume `Disciplined` (one writer, no reuse after an error,
no append cut before its newline); `store_two_writers` shows that the first
condition cannot be dropped. They follow from `IInv`: the manifest is a chain of records
without duplicates; the writer's memory is a prefix of it, and the whole of it except
between the append and the memory update; the record in `job` is the next record of
that memory; every blob of the manifest is complete, and what the writer writes is still
the temporary file.
`ChainIntact` alone is not inductive: that the next append fits the file is a fact
about memory and `job`. Readers hold prefixes too, and a prefix of a chain verifies.
`Refinement` maps the manifest to the log and receipts to acknowledgements and shows
that `AppendManifest` and an `AppendRaises` that wrote the line are `Preserve`,
`Remember` and `StoreExisting` are `Acknowledge`, and everything else stutters.

**EvidenceStore outside that discipline** (same module). `BlobsComeFirst`,
`ReceiptsStayTheSame` and `LossIsNoticed` assume one writer and nothing else: appends torn
anywhere, and a caller that goes on with a store that raised. For the blobs it is enough
that the temporary file is the writer's own. For the receipts the manifest and the memory
differ for good once an append raised after its line was written, and the retry adds a
second line of the event; what stays true (`AnswerInv`) is that memory answers for an
event what the manifest answers while it loads (the last line of the event), that this is the
record of every receipt, and that an event being stored has no receipt yet. A manifest
that stopped loading never loads again (`LoadedAfter`), which is why silence is excluded.
`SharedFilesHeal` has any number of writers, none of which fails: an incomplete file
is open in a process that has yet to write it, under whatever name it has by now.

**EvidenceAudit** (`EvidenceAuditProofs`, `PositionLemmas`). The invariant says that
every hash around is one that `store()` computed or junk, so a line whose hash
fits its content was written with that content, and that leading unaltered lines are
a chain. From it: a PASS that covers the record means every record up to it is as
written, the hash determines the past, and an alteration cannot make an earlier line
fail. No assumption on how many alterations there are.

**EventPipeline** (`EventPipelineProofs`). Seven theorems over any number of events,
packs and keys. The strengthening says what is known at each position of the code: what
was read and verified so far, that a call past the store has its evidence, that a
cached pack passed the constructor's check, and that the runtime that parsed is still
the cached one when the binding is resolved.

**EventPath** (`EventPathProofs`, `NormalizationProofs`). Seven theorems over any packs,
logs, parser events and conversions: every invariant that `event_path` checks.
`ClassificationAlwaysStands` rests on the shape of the event while the
runtime builds it and on `TargetKeepsClassification`: an allowed target is no key of the
classification. `StatusAlwaysSound` needs that entries outside the known fields do not
have the name of one (a dictionary has a key once); then the label
sets are disjoint by kind and name. `BoundEventsAlwaysValidate` carries along that the
binding in use is one that loaded, which the PAN-OS overlay has to keep
(`OverlayIsUsable`), and that the event was accepted; `RegistryIsConsistent` and
`BoundEventValidates` compare the tables of the loader with the checks of the validator.

`NothingIsEverLost`, `MappedIsAlwaysRepresented`, `EveryItemAlwaysOnce` and `TypeAlwaysOK`
follow from `PathInv`: the event is a dictionary whatever made it (`PackInv`), the results
have their shapes at each position (`ShapeInv`), and `common` and `report` are what the
mapper and the audit make of the event that is there (`MadeInv`).
The rest is about `map_legacy_common_event`, in three steps. The calls of
`_preserve_unmapped` are a fold over the preserved entries; `PreservationSteps` lays them
out as a sequence of details, and of any statement about them that failed there would be a
first failure, which is what stands in for an induction. `CollisionSafe` is why no entry
overwrites another: of finitely many names some suffix is free, and the loop of
`_collision_safe_key` takes the first. From both, each entry has a name of its own,
which is the entry's unless that name was taken (`names` in the lemmas). For
`EveryItemAlwaysOnce` the labels of the report are then counted kind by kind through these
names, each a bijection from the entries, and the kinds do not meet. The attempt found two
kinds of events for which the property was false; both are in section 3 (`Hidden`,
`Shadowed`).

Assumptions: packs, logs, parser events and what Tier 0 extracts have the shapes that their
Python types give them (`PacksAreModels`, `LogsAreTexts`, `ParserEventsAreDictionaries`,
`StructuresAreDictionaries`). Three facts are hypotheses of the theorems, where they are
needed, because the provers know nothing of the characters of a text and TLC cannot go
through all texts: `None` is no tagged value (`NoneIsNoValue`), two numbers make two
suffixes (`SuffixesDiffer`), and a name made with a prefix or suffix is no known name
(`RenamedIsUnknown`; no name in `LegacyEventKeys` begins with "legacy_" or ends with an
underscore and a number).

**VendorConversion** (`VendorConversionProofs`). `EveryLineHasOneRecord` holds for any logs
and runs, whatever `Accepts` and `Convert` are. `EveryLineOnce` is not inductive: that the
next raw record comes to stand beside the next event needs that while a run goes on there
are as many of one as of the other (`InStep`). The lines that are kept are counted by a
cardinality (`Place`), and `KeptLine` and `SkippedLine` say how it grows.

`PeersAreNeverEndpoints` is about the parsers themselves and has a lemma for each converter:
what it makes of any log either has no destination or names no `neighbor_ip` and no
`next_hop`, or is an event of routing whose destination, if there is one, is an address that
a pattern captured (`PeerOrNot`). For a routing event `CommonEvent` fills no
endpoint, and preserves the destination under its own name, because a converter leaves
`unmapped_fields` and the further entries empty. The inductive invariant is `Converted`: each
event is what `Convert` makes of a line that was read. It assumes that a run names logs there
are (`JobsAssumption`), that the demonstration reads its own sources (`SourcesAssumption`),
that a captured address is not blank (`AddressesAreWords`: the patterns capture it with
`\S+`), and that `lower()` leaves the routing words in the code alone
(`SmallLettersStay`); and the three hypotheses above.

`CapturedAlwaysStays` follows what a line captured from the message parser to the event. A
lemma for each of the five line converters goes through its parsers: each group of the
pattern that captured anything is under some key of the scalars or the details in one of its
`Forms` (`AllKept`), and the action is not "unparsed". A form is the text as it was, in
other case or as the number that it is; the reason of an OSPF adjacency may come without its
label (`AdjacencyReasons`), that of a reload without its full stops (`ReasonGroups`).
`ConvertedStays` and `RoutingStays` take this through `convert()`, `EveryColumnStays` does
the same for a row of the table, and `EveryLineOnce` says that the event at a line's place
is what `Convert` makes of it, so `Inv` is all the induction it needs. Two more assumptions
say what a regular expression can capture: of the groups of the patterns that match, and
digits where it asks for `\d+` (`PatternsCapture`, with the groups of each pattern in
`Patterns` of its module); and the patterns for a state have one, and a prefix and a state
never spell "unparsed" (`StatesAreNamed`; the concatenation of texts is opaque to the
provers). TLC evaluates both on the sample logs.

`VendorTypeCorrect` says that the events are complete whatever a log holds: every scalar is
there, and each scalar, detail and vendor field is `None` or a tagged value, never a bare
text, a pair or what is left of a rule that did not apply. It does not look into a text: that
a capture in it is one the pattern has is `CapturedStays`, and TLC, which stops at a missing
one. Each parser module has three lemmas (its helpers
return values, `++` and `Present` keep that, `EventWith` makes an event of it) and one for
each group of its message parsers; `ConvertIsEvent` puts them together. The inductive
invariant is that of the two theorems before, `Inv` and `Converted`, and `Within`: a record's
number is that of a line that was read, and only line converters count. That the counters
stay below the position follows from `Inv`, because a place is never beyond its line
(`PlaceWithin`). The one further assumption is that what the demonstration finds in an alert
are values that JSON can hold (`PayloadsAreValues`); it copies them unseen.

A `CASE` whose arms overlap stands in the way of such a proof, and rightly: TLA+ does not
say that the first arm counts. Cascades of the code are therefore `IF`s or sequences of rules.

**OutputArtifacts** (`OutputArtifactsProofs`). Four theorems over any number of runs,
events and batches, runs that overlap and die included. `TraceInv` adds to traceability
what each run holds: what it is about to write is stored, and the adapter's buffer is a
content the OCSF file had. `LayersStayInStep` needs `AlignInv`: a run that is alone has no
other beside it; of a batch that is alone the files already published have its events;
and in a calm directory only a run between two files leaves them apart, by the one line
that is still to come. The one assumption (`OutputAssumption`) is that the markers for
broken lines and missing files are no events, that a stream run's event has an OCSF
mapping, and that batches are sequences of events.

**Only model-checked.** `EveryEventAcknowledged`, because it is liveness. Of
`vendor`: `WantedIsNoFailure`, `OneRecordLosesTheRun` and `DetectionAgrees`, which are not
theorems: they hold of logs as the devices write them, not of any mixture of phrases,
captures and columns, and a statement of what the devices write would be the sample logs
once more. The violation runs show counterexamples, not theorems.

## 5. Abstractions and what is left out

* Bytes, fields and formatting are values that are equal or not. JSON parses or does
  not; a torn line never parses, a line that lost its newline does in the manifest
  and is taken as torn in the output files.
* A process crash keeps the operating system's order of file operations. Power loss
  that keeps a manifest line and loses a rename that came before it is not modelled.
* One line reaches a file in one write (lines are shorter than the buffer).
* `Applies`, `ParserOf`, `ParserFails`, `Deferred` in `EventPipeline` and
  `OutputArtifacts` stand for what one event does in the pack runtime, the detection, a
  parser and the OCSF mapper. `EventPath`, `Detection` and the parser modules model these
  each by itself.
* Values of a legacy event are texts, integers, times and dictionaries. No parser puts
  anything else into a field; the lists, floats and truth values that an alert of the
  demonstration may hold are carried, never looked into. Floating-point rounding of
  the coverages is left out: they are pairs.
* Times in `event_path` are counted in units that keep them within TLC's integers; the
  proofs do not depend on it.
* Regular expressions, CSV and key-value splitting are abstract: a log carries their
  result. That two patterns match the same text where they should not is therefore seen
  only for the sample logs. The same goes for phrases inside others
  ("disconnected" has "connected" in it): `PhrasesIn` has them for the sample texts.
* The fixtures, builders and printers that the parser modules carry for their own
  demonstration are left out.

### Not modelled

* **SIEM contract mapper, Windows ingestion and mapper**: pure mappings of one event into
  another dictionary, with tables in the manner of `OcsfMapping`. A hazard there: events of
  two machines in one file make the whole envelope fail
  (`integration/siem_contract_mapper.py:245`).
* **Privacy engine, drift detection**: small functions of one event or of two reports. Their
  hazards are the order of declarations whose paths contain each other
  (`privacy/engine.py:123`), and floating-point comparison at exactly the threshold
  (`drift/detector.py:46`), which exact arithmetic in TLA+ would hide.
* **Dashboard**: it reads the three files one after another and joins them by `raw_id`
  (`frontend/app.py:109`). `LayersAlign` says what it may find missing while a run is
  active; a reader as a further process of `output_files` (1.5 million states) is beyond
  the time of a run.
* **Exporters, traceability view, CLI, scripts, ml and visibility helpers**: formatting and
  I/O without decisions that depend on state. The traceability view would write another
  schema to `raw_events.jsonl` (`traceability/writers.py:17`); no program calls it there.
* **Placeholders** have no code.

## 6. Plan

1. Done: evidence store, log and audit; pipeline and packs; the event path; output files;
   vendor parsers, detection and conversion; the theorems above.
2. `SiemContract` and `WindowsMapping`: the SIEM contract mapper with its envelope, the
   Windows mapper with its class selection; both extend `EventPath` by a last step and
   share its run, with "what is traceable stays traceable into the envelope".
