# Formal models of sai_cap_query

`sai_cap_query` asks a SONiC switch, through libsairedis, what its ASIC can do. It
sweeps the SAI metadata (attributes, enum values, statistics, resources), prints a
report as text or JSON, and on request checks the adapter's own declarations with
real reads. It runs on production switches beside the processes that own the ASIC,
over a transport that may fail, throw or time out at any call. This directory holds
TLA+ models of the parts in which that is hard to get right, the TLC configurations
that check them, and TLAPS proofs of the results that matter most.

The sources are named as in the repository: `sai_cap_query.cpp`, `include/cap_logic.h`,
`include/json_value.h`, `include/zmq_endpoint.h`.

## 1. Inventory

The program is one process with one thread. It shares the switch with other
processes (syncd, orchagent) and the file system with whatever binds the same ZMQ
endpoints. Nothing is persisted, so there is no recovery; what goes wrong between two
calls goes wrong because somebody else acted, because the adapter answered
differently, or because the call threw.

| component | state | operations | talks to |
|---|---|---|---|
| Attribute fetch (`fetch_attribute`, `bind_attribute_buffer`, `get_buffer_count`, `can_fetch_value_type`) | buffer, count field, attempt | one GET, repeated with growing buffers | every getter of the adapter |
| Capability list queries (`query_enum_capability`, `query_stats_capability`, `query_stats_st_capability`) | list, capacity, attempt | query, grow, give up, clamp | the adapter |
| Attribute verification (`verify_attribute_capabilities`, `scan`, `evaluate_attribute_condition`, `evaluate_condition_list`) | condition cache per object, counters, printed lines | probe a claim, evaluate its conditions, judge | fetch; condition evaluators of the SAI metadata |
| Live statistics probe (`probe_live_stats`, `select_sample_port`, `probe_stats_on_object`, `validate_stats_modes_on_object`) and `StatsCapabilityCache` | declaration per type, sampled port, counters | choose a port, read counters, compare | fetch; capability queries; the report (shared cache) |
| Run lifecycle (`main`) | initialized or not, exit code, stdout | command line, preflight, initialize, VID probe, report, uninitialize | everything below |
| Transport preflight and profile (`endpoint_has_live_server`, `redis_profile_answer`, `check_client_zmq_transport` and neighbours) | which endpoints exist, which are live | try pairs, warn, refuse, answer the profile | file system, libsairedis |
| Command line | options | parse, reject | main |
| Report sections (text) and JSON report | counts per status, supported object types | sweeps over the metadata | fetch, capability queries |
| JSON values (`json_value.h`) | value tree | build, serialise | JSON report |
| Status classification (`classify_status`, `summary_bucket`) | none | map status to class | report |
| Attribute formatting | none | serialise values | report |
| SAI headers, metadata, sairedis interface | vendored | | |
| Build scripts, tests | | | |

What is hard, and what has to hold:

* **Fetch and capability queries.** The size of a list is unknown until an adapter
  has refused a short buffer, and adapters differ: some report the size they need,
  some leave the count field as it was, and nothing rules out any other value. Each
  request may take the whole response timeout. The loops must be bounded, ask with
  strictly more room every time, never exceed a safety limit, find every list an
  adapter of the two decent manners keeps, never hand out more values than there was
  room for, and never present the tool's own decision as an answer of the ASIC
  (or, more precisely, only in the one documented place).
* **Verification.** A verdict combines several reads at different times of an ASIC
  that other processes reconfigure, with values cached between them. Counts, the
  capped list of lines and the number of hidden lines must agree. A truthful adapter
  must not be accused of what it rightly refused; a condition that could not be evaluated must never be taken for
  a condition that is met.
* **Statistics probe.** The declaration is asked for once and shared with the report;
  the object it is compared on may vanish; lists may hold several entries for one
  counter or a range marker; and one kind of read destroys the counter.
* **Run.** Every early return has to shut the library down, exit codes have meanings
  that scripts rely on, JSON mode owns stdout, and the endpoints that the preflight
  looked at belong to other processes. The role the command line names is not
  necessarily the role that libsairedis takes.
* **Report.** The list of supported types is read once and every section goes by it; a
  list that could not be read must not exclude anything. Filter, focus, `--all` and
  `--include-unsupported` are combined by each section on its own, twice over (text and
  JSON), and the two must have asked the same. No type may be passed over in silence,
  and a summary must say of every failure what it was. Status codes are sorted by their
  high half, which the plain codes share with the first range.
* **JSON.** Names and details come from the adapter, the library and the command line and
  may hold any character; a member that is set twice must not occur twice.

`PROJECT.json` lists each of these hazards at its line, with the properties that
cover it or the reason why none does.

## 2. Modules

    BoundedQuery                what a bounded, growing query promises
      ^ implemented by
    FetchAttribute              one fetch_attribute call      -> FetchAttributeProofs
    CapabilityQuery             one capability list query     -> CapabilityQueryProofs
      (both measured by)
    Doubling                    a buffer doubled k times      -> NumberProofs
      (a call of them is one step of)
    Verification                --verify-attributes           -> VerificationProofs
    StatsProbe                  --probe-stats, and its cache  -> StatsProbeProofs
    Report                      the sections, text and JSON   -> ReportProofs
      | counts by                                             -> ReportProofs
      v
    StatusClass                 names and classes of status codes

    Run                         main(); a report is one step  -> RunProofs

    JsonValue                   the JSON values and their text
      ^ read by
    JsonReader                  RFC 8259, not the program
      ^ used by
    JsonDocument                building a document           -> JsonProofs

Each `MC*` module gives the constants of one component their values for TLC. The
larger modules take a call of a smaller component as one step. That is justified by
what the smaller one is shown to do: it always returns, and it says Ok only for a
read that succeeded. Verification and StatsProbe interleave the environment between
any two such calls. It cannot matter to them that the environment might also act
inside a call, since the value that counts is that of the last read of the call. To
Report every question is one step with any answer.

### FetchAttribute, CapabilityQuery, BoundedQuery

`FetchAttribute` has one action per exit and per turn of the loop of
`fetch_attribute`: `SkipValue` (a value class that is not probed), `FirstGet`,
`OverflowOnNonList`, `OverflowAboveLimit`, `GrowAndGet`, `Finish`. `capacity`, `count`,
`attempt` and `status` are the locals of the code; `kind` is the value class;
`manner` and `size` describe the adapter: it "reports" its size on a short buffer,
is "silent", or is "erratic" (any status, any count). A getter may throw at any ask.
Contents of buffers are left out: a buffer is the number of its elements.

`CapabilityQuery` models the three query functions, which negotiate alike: `Ask`,
`ReturnAnswer` (with the clamp), `Grow`, `GiveUp`. `KnownCounts` is what the metadata
say of the number of values, which decides the first capacity; `first` is that capacity,
kept for the statement about silent adapters.

`Doublings(c, n)[k]` is c doubled k times. `SilentListIsRead` is stated with it in both
modules: when some doubling of the first offer within the attempts and the limit holds
the list, an adapter that never tells the size has its list read all the same.

`BoundedQuery` is the abstract specification of both: at most so many asks, each
with strictly more room, never above a limit, and a verdict "ok" only after an answer
that sufficed. The `Promise` of either module is this specification under a refinement
mapping, which is a statement of safety. That every query gets its verdict is stated by
each module for itself (`FetchReturns`, `QueryReturns`).

### Verification

`pc` goes through `claim` (the head of the scan loop: `SkipAttribute`,
`NotClaimed`, `Claimed`), `get` (`Get`), `condition` (`SkipNullRef`, `ReadReference`,
`UseReference`, `UnusableReference`, `EvaluatePredicate`), `judge` (`Judge`), and
`EndScan`, `NextObject`, `NoFurtherObject` at the end of an object. The model keeps
the order of the code: GET of the claim first, conditions later, one read per attribute
a condition refers to unless the cache has it (a failed read is cached too), the
evaluators called only when every referenced value is there, then the verdict.
`Reconfigure` lets another process set any live value, between any two reads.
A live value is "on" or "off": on when a condition that refers to it compares true.
An honest adapter declares what is true: its GET of an attribute it declares gettable
fails only when the attribute's conditions are not met (it may also answer then), and
what it answers is live. An attribute that is only read for a condition may fail to be
read at any time. A dishonest adapter does anything. `GiveUpGet` is the GET that the tool
gives up whatever the adapter is: the value is above the limit, the retries are used up, or
the call threw or timed out. `probe` keeps the three ends of a GET apart; the code does not,
for it any outcome but Ok is a failed probe.
`tally` and `states` are the two groups of counters of the summary; `printed` and
`hidden` count the lines of this object that were printed and that were not.
`contradicted` and `reads` are history: which attributes were contradicted, and how often
an attribute was read for a condition.

### StatsProbe

Five stages, in the order of the code: port, port modes, queue, priority group,
switch. `Consult` is the cache: `Report` consults a type before the probe does or does
not, `EnterStage` consults it for the probe. `ListPorts`, `TryPort`, `FirstPort` and
`OpenPortApi` are `select_sample_port`; `ReadCounter` is `probe_stats_on_object`, with the
GET and the verdict; `TryEntry` is `validate_stats_modes_on_object`, with the choice of
mode, entry by entry. `cleared` is history: which counter of which type was read with a mode
that clears it. `LosePort` removes the sampled port (and so its queues and groups) at any time.
An honest adapter reads what it declared while the object exists. Which of two entries
for one counter comes first in an adapter's list is left open.

### Run

One action per section of `main`: `BadCommandLine`, `ParseCommandLine`,
`SkipPreflight`, `TryPair`, `NoServer`, `WarnServer`, `Initialize`, `OpenSwitchApi`,
`ProbeVid`, `ReportAtOnce` (the JSON report and `--list-switches`), `ReportText`,
`Close` and `UnguardedThrow`. `ProfileAnswer` is what libsairedis is told about its role. `endpoints` is
what exists at each built-in pair of sockets: nothing, a leftover or a live server at
the main one, something or nothing at the notification one; `OthersAct` changes it
between preflight and initialization. libsairedis, in either role, unlinks what is at
an endpoint it binds (`Bindings`): `taken` records whom that hit, and `announced` whom a
warning named before. A server with a context configuration may bind the default pair or
another one, since only the library reads that file. `document` is what stdout holds of the
JSON document: a run that a throw ends leaves all, a part or nothing of what it had written,
because stdout is not flushed. `libPair` is the pair the linked library would use as a client, which
the tool can only guess.

### StatusClass, Report

`StatusClass` has the codes of `saistatus.h` as integers (a build of this tool has
`SAI_STATUS_CODE(x)` equal to -x), and `status_name`, `classify_status` and `summary_bucket`
as they are. There are two readings of a range code. `RangeCode(k, i)` is the first code of
range k with the index i added, which is how vendors form it according to `cap_logic.h` and
the README of the tool; since codes are negative it counts up. `HeaderCode(k, i)` is the code
of the header's own range, "from 0x000k0000L to 0x000kFFFFL" behind `SAI_STATUS_CODE`, which
counts down. `VendorMeans` says what a vendor of the first kind means.

`Report` walks through the sections in the order of `main`, each over the object types and,
where the code does, over the attributes of a type: `section`, `type` and `attr` are the
position. `ReadSupported` is `query_supported_object_types`, before any section; `listed` is
what the head of the report says of its result.
`ReadAttribute` and `EndList` are the lists of switch attributes (summary, readable,
legacy, and the JSON sweep); `AskFocused` and `EndFocused` the focused capability
section; `PassType`, `AnnounceType`, `OpenType`, `AskAttribute`, `CloseType` and `EndScan`
the full one as text; `PassTypeJson`, `OpenTypeJson` and `WriteEntry` the one of
`build_json_report`; `SweepStatistics`, `SweepTelemetry`, `SweepAvailability` and
`SweepResources`, closed by `EndSweep`, the sections with one turn per type. What the code
prints is kept as what it says of whom: `verdicts` (types called excluded), `message` (why
nothing was asked), `entries` (of the JSON document, each with `queried`, `asic_supported` and
`verdict`) and `summary`. `asked` and `answered`
are history: all questions of the run, all outcomes of the section.

### JsonValue, JsonReader, JsonDocument

`JsonValue` is `json_value.h`: `set`, `push`, `json_escape` and `write`, with a string as a
sequence of characters. Values nest up to `MaxDepth`, so that the set of them (`Values`) and
their texts (`Texts`) are functions of the depth; `Node` is one turn of `write` with
`write_array` and `write_object`, given the texts of what is inside. Blanks and line breaks
between symbols are left out, a reader skips them.

`JsonReader` is not part of the program. It is the grammar of RFC 8259, which is what any
consumer of the document goes by, as an automaton that takes one symbol at a time: `Step` is
its next state, `After` where a text takes it, `Read` the value of a whole text. It refuses an
object in which a name occurs twice.

`JsonDocument` puts a document together the way `build_json_report` does: `open` are the
containers that have been made and are not yet part of another one, the document first.
`SetScalar` sets a member of the last one, `OpenArray` and `OpenObject` make a new one,
`SetMember` and `PushEntry` move the last one into the one before it. The code makes an array
only while it fills an object, and so does `OpenArray`. Which members a section has and in
which order is left open. `given` is history: what each open container was given.

## 3. Runs

Deadlock is not checked in any run: a call, a scan, a report or the program really ends;
where it is not plain from the code that it does, a liveness property says so.

| run | distinct states | what it shows |
|---|---|---|
| `fetch` | 38,282 | outcomes are honest (`OutcomeHonest`); a list within the limit is read with at most two reads from a reporting adapter (`ReportedListIsRead`), and whenever doubling can reach it from a silent one (`SilentListIsRead`); `BoundedQuery` is implemented (`Promise`); it returns (`FetchReturns`) |
| `capability` | 73,752 | the same for the capability queries; never more values than were offered room for (`ValuesAreBacked`); above the limit the true size is given |
| `verification` | 1,246,345 | `Accounting`: every checked claim is counted once and condition counts match; `CappedButExact`: printed plus hidden lines are the contradictions; `NoFalseContradiction`: what a truthful adapter of an undisturbed ASIC rightly refused is never held against it, so that it is accused only where the tool gave up its own GET; `ContradictionIsBacked`: a conditional attribute is contradicted only on values that were read and satisfy its predicates; `CacheIsOfThisObject`, `ReadOnce`, `VerificationEnds` |
| `stats_probe` | 174,528 | `CountsAddUp`; `ContradictionIsDeclared`: a contradiction rests on a declaration of that very counter; `NoFalseContradiction` while the port exists; `ClearedByEntry`: destructive reads only with the option, on the port, of no marker, and each by an entry that declares READ_AND_CLEAR and not READ; `OneDeclaration`: once answered, report and probe go by one answer; `ProbeEnds` |
| `run` | 2,379,884 | `ExitCodes`, `SessionClosed`, `OneDocument`, `PreflightIsRight`, `TakenIsAnnounced`, `RunEnds` |
| `report` | 213,420 | `QuestionsByFormat`: a full scan has put exactly the questions that filter, list and format call for, in every section; `ExcludedIsSpared`: no question about a type the adapter excludes, with the exceptions the code makes; `NothingPassedOver`: all attributes of every matching type are asked about or the type is said to be excluded, by the list the report shows at its head, and "nothing was queried" is said when it is true; `CountsAreHonest`: every outcome of a section is in its summary, under the name its vendor means |
| `json` | 275,308 | `ReadsBack`: at every moment the text of each open container reads back as what it was given: an array as its entries in order, an object as its names in the order of first use, each once and with its last value |

Five more runs look for statements of the repository's documents, comments and printed
text that the code does not keep. Each of them finds the violation:

| run | statement | what the counterexample shows |
|---|---|---|
| `verify_stale` | false contradictions of conditional attributes are avoided (`cap_logic.h`) | GET is refused while the condition is unmet, another process makes it met, the conditions are read: a truthful adapter is contradicted |
| `run_override` | `SAI_CAP_ENABLE_CLIENT=false` is the same as dropping `--client` (advice, README) | the preflight goes by `--client` alone and refuses the run |
| `run_unguarded` | every SAI call is in a try block (README) | `sai_api_query` and `sai_api_uninitialize` are not |
| `run_exit` | exit code 0 is "report produced", 1 an initialization or transport failure (README, "Exit codes") | a text report is complete, `sai_api_uninitialize` fails, and the run exits with 1; after a JSON report the same failure is ignored |
| `status_plain` | plain statuses are matched exactly first (`cap_logic.h`) | ten documented plain codes have no case in `status_name` and are counted as INVALID_ATTRIBUTE, since their high half is that of the first range |

### Bounds

* **Capacities.** `kInitialListCapacity` and `kMaximumListCapacity` (and their
  counterparts of the queries) are scaled down to 2 and 40. The ratio is such that
  doubling passes through all cases: four doublings fit under the limit, the fifth
  does not, and the limit is no power of two times the initial capacity. The number of
  attempts is the code's, 4 retries and 5 attempts. Sizes lie on both sides of the
  first and the last capacity that doubling reaches, of the limit's half and of the limit.
* **Known values.** The metadata list none or four values and one is added, so that
  first offers are 2 and 5: from the one the loop runs out of attempts, from the other it
  meets the limit.
* **Verification.** A switch and a port, three attributes each; the table of
  `MCVerification` has conditions on one and several attributes, all-of and any-of, a
  null entry, a duplicate, both predicates at once, an attribute that cannot be
  compared and a list of nothing but null entries. One line may be printed per object,
  so that the second contradiction is already hidden. One reconfiguration suffices for
  every interleaving in which a GET and the reads of its conditions disagree.
* **Statistics.** Three counters, one of them a range marker; declarations cover no
  entry, READ only, READ_AND_CLEAR only, both, bulk only, two entries for one counter
  and an entry for the marker; port lists of none, one and two ports.
* **Run.** The two built-in pairs of the code, and one change by somebody else.
  Every combination of options, overrides and states of the endpoints is an initial state.

* **Report.** Three types with four attributes, plain ones and ones that the adapter can be
  asked about by value; two types with statistics; focus sets that differ from each other
  and from the list; filters that match nothing, one type, all. The list of supported types
  is unreadable or any subset. Statuses are plain codes, the first and a later code of a
  range, and one that nobody documents. Two types would do for every pair of decisions;
  the third makes a type that is passed over have neighbours on both sides.
* **JSON.** Two names, one of which needs escaping; strings with each kind of character
  (a quote, a backslash before a letter, a control character with and without a short escape,
  a character that needs none), a number; six calls and values of four levels. The document of
  the tool nests six containers (itself, the statistics, an entry, its stream telemetry, the
  counters, a counter); the run has each kind of container inside each other one that
  `build_json_report` has, and for any depth there is the proof.

### Fairness

Report and JsonDocument state safety only and have no fairness: their loops go over lists
that are fixed before. Each other specification is weakly fair to the steps of the tool
and to nothing else. The
tool has one thread, its loops do not wait for a condition, and a SAI call either
returns or throws within the response timeout of sairedis; so a step that can be taken
is taken. Nothing is assumed of other processes or of the adapter's answers: the
liveness properties hold for an adapter that refuses for ever and throws when it likes.

## 4. Proofs

All theorems hold for every value of the constants that the `ASSUME`s admit.

* **FetchAttributeProofs.** `FetchInvariant` is inductive: it ties the number of asks to
  the attempt and the place in the loop, the buffer to the safety limit and the kind,
  the count after an overflow to the manner of the adapter, and the outcome to the last
  status. `TypeCorrect`, `OutcomeIsHonest` and `ReportedListRead` follow from it;
  `PromiseKept` shows that every step is a step of `BoundedQuery` or a stutter of it.
* **CapabilityQueryProofs.** The same for the negotiation of lists:
  `CapabilityInvariant`, `ValuesBacked`, `ReportedCapabilityRead`, `CapabilityPromiseKept`.
* **VerificationProofs.** Three invariants on top of each other. `Typed`: types, and which
  attribute and predicate can be under examination where. `CacheInv`: an attribute was
  read once if the cache has an entry for it and never otherwise, and entries are those
  of the scanned object (`ReadsOnce`, `CacheHoldsThisObject`). `TruthInv`: every reference
  that the walk through a predicate's list has passed has a value in the cache; a
  condition that stands at "met" is backed by every predicate evaluated so far; and an
  honest adapter refuses a GET only where the attribute is not in force. A verdict
  needs the second: without it nothing ties the condition that was
  computed over many steps to the values that are still in the cache
  (the action properties `RefusalsNeverAccused` and `ContradictionsBacked`). A GET that the
  tool gave up is not covered and cannot be: the code judges it like a refusal.
  Its last part is the counting, `SummaryAddsUp` and `LinesCapped`. The strengthening
  is that only attributes the scan has left behind are contradicted, so that each
  contradiction is a new one and the counters move with the cardinality.
* **StatsProbeProofs.** Types; then `Inv`. While a stage reads, what it has left to look
  at is a part of a declaration that is known (`Working`), and what was cleared rests on one
  (`Clearing`): a declaration that is known stays as it is, which `ProbeOneDeclaration` says.
  `ProbeCountsAddUp`, `ProbeNoFalseContradiction` and `ProbeClearedByEntry` follow, and the action property `ProbeContradictionIsDeclared`.
* **NumberProofs, SilentListRead, SilentCapabilityRead.** "The buffer is the first one
  doubled as often as the attempt says" is inductive, and as soon as it has passed the
  doubling that suffices the list was read. That doublings grow is an induction
  over their number, done as a least counterexample: `DoublingsGrow`.
* **RunProofs.** Types; then `PhasesInvariant`, which says what session, report, vid,
  exit code and stdout are at each place of main and from which `ExitCodesMean`,
  `SessionIsClosed` and `StdoutIsTheDocument` follow; then `KnownInvariant`, which
  says what the preflight knows of the endpoints while nobody has changed them, for
  `PreflightRight` and `NothingTakenSilently`.
* **ReportProofs.** Types; then the facts about progress: what a section has asked, announced
  or written is a function of the position it has reached, so that a section that is past
  has done all of it (`Even`, `Told`). `ReportQuestionsByFormat` and
  `ReportNothingPassedOver` compare that with what was due; `ReportExcludedIsSpared` needs
  only that the list is read before the first question and never again.
  Its last part is about counts. `ClassifiesVendorCodes`: for every status from 0 down to the
  lowest a 32-bit code reaches, `classify_status` gives the name its vendor means and no other
  status a name. `InScope` leaves out the ten plain codes that `status_name` does not know,
  which are the finding of the run `status_plain`. `HeaderRangesAreShifted` says what becomes of
  the other reading: of each range as the header documents it only the first code gets its
  name, all later ones that of the next range, those of the last range "OTHER". From the first
  follows `ReportCountsAreHonest`, for adapters that answer only such codes: an outcome is
  always a new one, since the position has moved, so sums move with the cardinality.
* **JsonProofs.** `WriteReadsBack`: for every alphabet, every depth and every value, `Read` of
  its text is the value. The argument goes by where a text takes the reader: a text in two
  parts takes it where the second part does from where the first one led (`AfterAppend`,
  `AfterConcat`). The escape of one character takes a
  reader within a literal to the same literal with that character more
  (`EscapeReadsBack`, which needs that no two characters have the same escape), so a quoted
  string gives back its characters (`QuotedReadsBack`). `ListedReads` is the same for the
  parts of a list and their commas, whatever the parts are; arrays and objects are cases of it
  (`ArrayReadsBack`, `ObjectReadsBack`, where the names of an object must differ). The
  last step is an induction on the depth (`TextsSpell`). The recursive functions `After`,
  `Values` and `Texts` are first shown to exist (`AfterIs`, `ValuesAre`, `TextsAre`), and the
  two inductions, over numbers and over the length of a sequence, are done as
  least counterexamples (`NumberInduction`, `SequenceInduction`).
  For the document `IInv` is inductive: what is open is a stack in which every container is a
  value no deeper than the room its place leaves, and its members stand as `AsGiven` says to
  its history. `SetKeepsHistory` is the heart of it: overwriting in place or appending
  keeps each member at the last value of its name and the names in the order of first use.
  `DocumentReadsBack` is then `WriteReadsBack` for each container on the stack.

### Winding down

`FetchWindsDown`, `QueryWindsDown`, `VerificationWindsDown`, `ProbeWindsDown`, `RunWindsDown` and
`ReportWindsDown` are the safety part of "this ends". Each names a measure `Left`, proves
that it is a number or a tuple of numbers in every state that can be reached, and that every
step of the tool makes it smaller: the first number that changes goes down (`Down`,
the lexicographic order). `NothingComesDownForEver` says that this cannot go on
for ever, because the order is well-founded.

| component | what is left, most significant first |
|---|---|
| fetch | a GET for each retry that remains, and the end |
| negotiation | two steps for each attempt that remains |
| verification | objects; six turns for each attribute of the object; entries of the predicate, two where the value has to be read first |
| probe | turns from the report to the last stage; within a turn the types not consulted, the ports, or the counters and declared modes |
| run | the endpoint pairs the preflight has not looked at, and the sections of main |
| report | sections; types of the section; attributes of the type |

What other processes do in between is part of the statements: a reconfigured ASIC, a lost port,
an endpoint that comes or goes leaves the measure as it is. So no loop of the
tool depends on their standing still, and none on what an adapter answers; of the
declarations of the probe only finiteness is assumed. The types the measures need come from the
invariants above; the probe's needs one more, that what it holds of a
declaration is finite (`Finite`). In the probe a type may be reported again, which changes
nothing and so leaves as much as before.

For liveness two things are missing that the prover cannot express: that before the end some
step is possible (ENABLED), and that a possible step is taken (fairness). TLC
checks both, on the instances of the runs.

### What is left to TLC

Every safety property that the passing runs check is a theorem. The theorems on
promises state safety: the initial state and the step relation of `BoundedQuery`.
What is checked by TLC alone: liveness itself (`FetchReturns`, `QueryReturns`,
`VerificationEnds`, `ProbeEnds`, `RunEnds`), which is out of the prover's reach but for the
winding down above, and the five violations, which are single counterexamples.

### Assumptions worth knowing

* On SUCCESS an adapter fills at most the room it was offered (the SAI list contract).
  `get_object_list` relies on it; the capability queries do not, and are modelled so.
* The getters of an honest adapter are deterministic in what is live. That one of them throws,
  times out, or keeps a list the tool cannot read is not taken for dishonest, and the code
  counts it as a contradiction (`GiveUpGet`).
* Vendors form the codes of a range as its first code plus an index. What the tool makes of the
  header's own ranges is the theorem `HeaderRangesAreShifted`.
* In a text that JSON quotes, bytes from 0x80 on are plain characters: whether they are valid
  UTF-8 is not looked at, neither by the code nor by the model.
* The preflight's result is a fact about the moment it looked: `PreflightIsRight`
  and `TakenIsAnnounced` are stated for runs in which the endpoints did not change,
  without an override of the role. What becomes of them when an endpoint changes after it was
  looked at is not claimed, since the code does not look again. The notification endpoint of the server role is not
  looked at by the code and is exempted in the statement, and so is a server with a context
  configuration, of which nothing is looked at although it may bind the default pair. So is a library that uses
  another pair than the one that was found, which the tool's message speaks of.

## 5. Not modelled

* **Formatting** of values, enums and versions, and all wording and layout: the models keep
  what a line says of whom, and no property is about how.
* **Parsing of single arguments and of numbers.** Accepting or refusing the command line is one
  step of Run. A reader may want to know that numbers go through `strtoull`, which takes
  `-5` for a very large number, and that of the options with a value only some take the form
  with `=`.
* **Owner of an endpoint.** The search in `/proc` only fills in a message. Of the profile's
  answers only the one on the role decides anything; the others hand on file names.
* **Vendored SAI headers, metadata and sairedis interface.** They are all but a handful of the
  source files and nine tenths of all lines, and they are declarations without behaviour. The tool's
  own code has about 5,860 lines, of which some 3,520 stand behind the definitions of these
  modules; of the vendored files `saistatus.h` is modelled, for the meaning of the codes.
  What the evaluators of conditions and the library do is external.
* **Build scripts and tests.** The fake adapter of the tests was read for how adapters answer.

Seen while modelling, and without a run, since no document or comment states the contrary
precisely enough or nothing but wording is concerned:

* A probe GET that the tool gave up itself (`sai_cap_query.cpp`:649-668) makes `probe_ok` false
  (2589) and so contradicts the claim of an adapter that answered truthfully, or would have.
  `NoFalseContradiction` names the exception.
* "This probe samples one object per type and never uses `READ_AND_CLEAR`" (README of the tool,
  367-368) does not hold with `--allow-clear`, nor does the line of the probe that says the same;
  the option is documented elsewhere. Which entry decides is open as well: the validation goes
  entry by entry (2198-2255), so a counter that one entry declares READ is cleared
  when another entry of it declares READ_AND_CLEAR alone. `ClearedByEntry` claims no more.
* Exit code 0 is also that of `--help`, which produces no report. Only the 1 after a report has
  a run (`run_exit`).
* "The two formats cannot disagree about what was asked" (3035-3036) is said of the
  JSON report because it reuses the query helpers of the text. They share the helpers, not all
  questions: those about enum values and resource types are put by the text report only, and
  `show_resource_type_availability` does not look at `--object`. `QuestionsByFormat` states both
  sides.
* With a filter that matches only excluded types the text scan says "No metadata object type
  matched filter" (1390-1393), which is not the reason. `NothingPassedOver` therefore
  does not ask which of the two messages is given.
* Without a list "object type verdicts will be reported as unknown" (885-889, and the README of
  the tool, 347-348), but the verdict "unknown" is never printed of any type: `verdict` is only
  called for types that an authoritative list excludes. The two cases can be told apart
  nevertheless, and `NothingPassedOver` says how: without a list the document
  has `authoritative: false` in `supported_object_types`, and its entries are queried and have
  no verdict.
* The focused sections (no `--all`, no `--object`), and the availability section with
  `--include-unsupported`, ask about types that the adapter excludes, although the README
  says that these are not probed further. `ExcludedIsSpared` names the exceptions.
* A throw of `sai_api_uninitialize` at 4574 ends the process with the JSON document in the buffer
  of stdout: it may be lost or cut off. `OneDocument` names the exception.
* The verification prints that a conditional attribute which rejects a GET is reported as
  unverifiable, not as a contradiction; it is a contradiction when its condition was
  evaluated to met, as the README of the tool says.
* A fetch that the tool's own limit stopped carries NO_MEMORY, which no adapter returned.
