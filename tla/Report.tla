-------------------------------- MODULE Report --------------------------------
(***************************************************************************)
(* The sections of the capability report, as text (show_...) and as JSON   *)
(* (build_json_report): which object types and attributes each of them     *)
(* asks the adapter about, under the object type list the adapter          *)
(* published, the --object filter, --all and --include-unsupported; what   *)
(* is said of the rest; and how the answers are counted.                   *)
(*                                                                         *)
(* The list is read once, before the first section. When it cannot be read *)
(* it is not authoritative and excludes nothing.                           *)
(*                                                                         *)
(* One question to the adapter is one step (see FetchAttribute and         *)
(* CapabilityQuery for the questions that take several calls); a call that *)
(* throws counts as a call that failed. The layout of the lines is left    *)
(* out; what is kept of a line is what it says of whom.                    *)
(***************************************************************************)
EXTENDS StatusClass, FiniteSets

CONSTANTS
  NumTypes,      \* object types of the metadata
  Schema,        \* [type -> kinds of its attributes, in order]
  StatTypes,     \* types with a statistics enum
  FocusedNames,  \* the attributes the focused section is about, Missing among them
  Focus,         \* [sweep -> the types it looks at when it is focused]
  ReadLists,     \* [list -> what its switch attributes are]
  Filters,       \* sets of types a --object filter may match (a bound)
  Statuses       \* what an adapter may answer (a bound)

Types     == 1 .. NumTypes
AttrKinds == {"plain", "enum", "resource"}
ReadKinds == {"readable", "pointer", "missing"}
Lists     == {"summary", "readable", "legacy"}
Sweeps    == {"capability", "statistics", "telemetry", "availability"}

\* A name the metadata does not know.
Missing == <<0, 0>>

AttrsOf(S) == UNION {{t} \X DOMAIN Schema[t] : t \in S}
Attrs      == AttrsOf(Types)
KindOf(a)  == Schema[a[1]][a[2]]

\* Attributes the adapter can be asked enum values and availability by.
Enums     == {a \in Attrs : KindOf(a) # "plain"}
Resources == {a \in Attrs : KindOf(a) = "resource"}

ASSUME ReportAssumption ==
  /\ NumTypes \in Nat \ {0}
  /\ Schema \in [Types -> Seq(AttrKinds)]
  /\ StatTypes \subseteq Types
  /\ FocusedNames \in Seq(Attrs \cup {Missing})
  /\ Focus \in [Sweeps -> SUBSET Types]
  /\ ReadLists \in [Lists -> Seq(ReadKinds)]
  /\ Filters \subseteq SUBSET Types
  /\ Statuses \subseteq Status

VARIABLES
  options,      \* --format json, --all, --object, --include-unsupported; fixed
  supported,    \* SupportedObjectTypes: is the list authoritative, what is on it?
  listed,       \* what the report says of that list, at its head
  section,      \* the section that is carried out; 0 while the list is read
  type,         \* the type a sweep is at
  attr,         \* the attribute of that type, or of a list; 0: before the first
  summary,      \* OutcomeSummary of the section
  matched,      \* matched_objects of the full scan
  queried,      \* questions the section counts
  asked,        \* history: every question that was put, by kind
  answered,     \* history: the outcomes the section had
  verdicts,     \* types a printed line says are excluded
  message,      \* what the full scan says when it asked nothing
  entries       \* attribute_capabilities of the JSON document

position == <<section, type, attr>>
counts   == <<summary, matched, queried, answered>>
said     == <<listed, verdicts, message, entries>>
vars     == <<options, supported, position, counts, asked, said>>

\* The sections, in the order main has them.
Sections ==
  IF options.json
  THEN <<"readable", "capability", "statistics", "availability">>
  ELSE IF options.all
  THEN <<"summary", "readable", "capability", "statistics", "telemetry",
         "availability", "resource", "legacy">>
  ELSE <<"summary", "capability", "statistics", "telemetry",
         "availability", "resource", "legacy">>

Done == section > Len(Sections)
Here == IF section \in DOMAIN Sections THEN Sections[section] ELSE "none"

\* --all, or a filter: the sweeps go over the whole metadata.
Full == options.all \/ options.filtered

Matches(t)  == options.filtered => t \in options.filter
Excluded(t) == supported.authoritative /\ t \notin supported.types

\* SupportedObjectTypes::verdict; "none" where an entry has no such member.
Verdicts == {"none", "unknown", "asic_supported", "asic_unsupported"}

verdict(t) ==
  IF ~supported.authoritative THEN "unknown"
  ELSE IF t \in supported.types THEN "asic_supported" ELSE "asic_unsupported"

Kinds == Sweeps \cup {"enum", "resource"}

\* The questions of a kind; a type is asked about under attribute 0.
WasAsked(kind) == {q[2] : q \in {p \in asked : p[1] = kind}}

FetchKinds == {"Ok", "Skipped", "Failure"}
Outcomes   == FetchKinds \X (Statuses \cup {SUCCESS, FAILURE})

-----------------------------------------------------------------------------
(* Counting outcomes.                                                      *)

Buckets == ({PlainNames[i] : i \in DOMAIN PlainNames}
              \cup {RangeNames[k] : k \in DOMAIN RangeNames}
              \cup {"SUCCESS", "OTHER"})

NoOutcomes == [ok |-> 0, skipped |-> 0, failures |-> [b \in Buckets |-> 0]]

\* OutcomeSummary::add
Add(outcome) ==
  LET bucket == summary_bucket(outcome[1], outcome[2]) IN
    summary' = IF bucket = "ok" THEN [summary EXCEPT !.ok = @ + 1]
               ELSE IF bucket = "skipped_by_tool"
               THEN [summary EXCEPT !.skipped = @ + 1]
               ELSE [summary EXCEPT !.failures[bucket] = @ + 1]

-----------------------------------------------------------------------------

TypeOK ==
  /\ options \in [json : BOOLEAN, all : BOOLEAN, filtered : BOOLEAN,
                  filter : SUBSET Types, include : BOOLEAN]
  /\ supported \in [authoritative : BOOLEAN, types : SUBSET Types]
  /\ listed \in [authoritative : BOOLEAN, types : SUBSET Types]
  /\ section \in 0 .. Len(Sections) + 1
  /\ type \in 1 .. NumTypes + 1
  /\ attr \in Nat
  /\ summary \in [ok : Nat, skipped : Nat, failures : [Buckets -> Nat]]
  /\ matched \in 0 .. NumTypes
  /\ queried \in Nat
  /\ asked \subseteq Kinds \X (Types \X Nat)
  /\ answered \subseteq (Types \X Nat) \X Outcomes
  /\ verdicts \subseteq Sweeps \X Types
  /\ message \in {"none", "all_excluded", "no_match"}
  /\ entries \subseteq [of : Attrs, queried : BOOLEAN, asic_supported : BOOLEAN,
                         verdict : Verdicts]

Init ==
  /\ options \in [json : BOOLEAN, all : BOOLEAN, filtered : BOOLEAN,
                  filter : Filters, include : BOOLEAN]
  /\ supported = [authoritative |-> FALSE, types |-> {}]
  /\ listed = supported
  /\ section = 0
  /\ type = 1
  /\ attr = 0
  /\ summary = NoOutcomes
  /\ matched = 0
  /\ queried = 0
  /\ asked = {}
  /\ answered = {}
  /\ verdicts = {}
  /\ message = "none"
  /\ entries = {}

\* The next section starts, with counts of its own.
NextSection ==
  /\ section' = section + 1
  /\ type' = 1
  /\ attr' = 0
  /\ summary' = NoOutcomes
  /\ matched' = 0
  /\ queried' = 0
  /\ answered' = {}

NextType == type' = type + 1 /\ attr' = 0 /\ UNCHANGED section
NextAttr == attr' = attr + 1 /\ UNCHANGED <<section, type>>

\* query_supported_object_types: the list is read, or it is not known. What came
\* of it is the head of the report (print_supported_object_types, or the member
\* supported_object_types of the document).
ReadSupported ==
  /\ section = 0
  /\ supported' \in {[authoritative |-> FALSE, types |-> {}]}
                      \cup [authoritative : {TRUE}, types : SUBSET Types]
  /\ listed' = supported'
  /\ NextSection
  /\ UNCHANGED <<options, asked, verdicts, message, entries>>

-----------------------------------------------------------------------------
(* Switch attributes: show_switch_attributes, and the JSON sweep, which    *)
(* writes the bucket of every attribute instead of counting them.          *)

\* The outcome of fetch_attribute for a kind of attribute.
FetchOutcomes(kind) ==
  IF kind = "pointer" THEN {<<"Skipped", FAILURE>>}
  ELSE {<<"Ok", SUCCESS>>} \cup ({"Failure"} \X (Statuses \cup {FAILURE}))

ReadAttribute ==
  /\ Here \in Lists
  /\ attr < Len(ReadLists[Here])
  /\ LET kind == ReadLists[Here][attr + 1] IN
       IF kind = "missing"
       THEN UNCHANGED counts
       ELSE \E outcome \in FetchOutcomes(kind) :
              /\ Add(outcome)
              /\ answered' = answered \cup {<<<<1, attr>>, outcome>>}
              /\ UNCHANGED <<matched, queried>>
  /\ NextAttr
  /\ UNCHANGED <<options, supported, asked, said>>

EndList ==
  /\ Here \in Lists
  /\ attr = Len(ReadLists[Here])
  /\ NextSection
  /\ UNCHANGED <<options, supported, asked, said>>

-----------------------------------------------------------------------------
(* Attribute capabilities as text.                                         *)

Ask(kind, what) == asked' = asked \cup {<<kind, what>>}

\* show_focused_capabilities: the list of supported types is not looked at, and
\* an enum is asked for its values unless the capability query threw.
AskFocused ==
  /\ Here = "capability"
  /\ ~options.json
  /\ ~Full
  /\ attr < Len(FocusedNames)
  /\ LET a == FocusedNames[attr + 1] IN
       \/ a = Missing /\ UNCHANGED asked
       \/ a # Missing /\ Ask("capability", a)
       \/ a \in Enums /\ asked' = asked \cup {<<"capability", a>>, <<"enum", a>>}
  /\ NextAttr
  /\ UNCHANGED <<options, supported, counts, said>>

EndFocused ==
  /\ Here = "capability"
  /\ ~options.json
  /\ ~Full
  /\ attr = Len(FocusedNames)
  /\ NextSection
  /\ UNCHANGED <<options, supported, asked, said>>

ScansText == Here = "capability" /\ ~options.json /\ Full

\* A type the filter leaves out.
PassType ==
  /\ ScansText
  /\ attr = 0
  /\ type \in Types
  /\ ~Matches(type)
  /\ NextType
  /\ UNCHANGED <<options, supported, counts, asked, said>>

\* Slip: excluded types are passed over without a word.
PassExcludedType ==
  /\ ScansText
  /\ attr = 0
  /\ type \in Types
  /\ Matches(type)
  /\ Excluded(type)
  /\ NextType
  /\ UNCHANGED <<options, supported, counts, asked, said>>

\* A type the adapter excluded: said so, and not asked about.
AnnounceType ==
  /\ ScansText
  /\ attr = 0
  /\ type \in Types
  /\ Matches(type)
  /\ Excluded(type)
  /\ verdicts' = verdicts \cup {<<"capability", type>>}
  /\ NextType
  /\ UNCHANGED <<options, supported, counts, asked, listed, message, entries>>

OpenType ==
  /\ ScansText
  /\ attr = 0
  /\ type \in Types
  /\ Matches(type)
  /\ ~Excluded(type)
  /\ matched' = matched + 1
  /\ NextAttr
  /\ UNCHANGED <<options, supported, summary, queried, answered, asked, said>>

\* One attribute. Its enum values are asked for when it is declared usable.
AskAttribute ==
  /\ ScansText
  /\ type \in Types
  /\ attr \in DOMAIN Schema[type]
  /\ \E status \in Statuses \cup {FAILURE}, usable \in BOOLEAN :
       LET a       == <<type, attr>>
           outcome == <<IF status = SUCCESS THEN "Ok" ELSE "Failure", status>> IN
         /\ Add(outcome)
         /\ answered' = answered \cup {<<a, outcome>>}
         /\ asked' = asked \cup {<<"capability", a>>}
                      \cup (IF a \in Enums /\ status = SUCCESS /\ usable
                            THEN {<<"enum", a>>} ELSE {})
  /\ queried' = queried + 1
  /\ NextAttr
  /\ UNCHANGED <<options, supported, matched, said>>

\* The end of the scan, with a word on why nothing was asked.
EndScan ==
  /\ ScansText
  /\ type > NumTypes
  /\ message' = IF matched > 0 THEN "none"
                ELSE IF options.filtered THEN "no_match" ELSE "all_excluded"
  /\ NextSection
  /\ UNCHANGED <<options, supported, asked, listed, verdicts, entries>>

-----------------------------------------------------------------------------
(* Attribute capabilities as JSON: an entry for every attribute of every   *)
(* type that is scanned, whether the adapter was asked or not.             *)

ScansJson == Here = "capability" /\ options.json

Scanned(t) == Matches(t) /\ (Full \/ t \in Focus["capability"])

PassTypeJson ==
  /\ ScansJson
  /\ attr = 0
  /\ type \in Types
  /\ ~Scanned(type)
  /\ NextType
  /\ UNCHANGED <<options, supported, counts, asked, said>>

OpenTypeJson ==
  /\ ScansJson
  /\ attr = 0
  /\ type \in Types
  /\ Scanned(type)
  /\ NextAttr
  /\ UNCHANGED <<options, supported, counts, asked, said>>

asic_supported(t) == supported.authoritative /\ t \in supported.types

\* Slip: without a list no type counts as supported, and none is asked about.
QueryOnlySupported(t) == asic_supported(t)

query_capability(t) == ~supported.authoritative \/ asic_supported(t)

WriteEntry ==
  /\ ScansJson
  /\ type \in Types
  /\ attr \in DOMAIN Schema[type]
  /\ LET a == <<type, attr>> IN
       /\ entries' = entries \cup
            {[of |-> a, queried |-> query_capability(type),
              asic_supported |-> asic_supported(type),
              verdict |-> IF query_capability(type) THEN "none" ELSE verdict(type)]}
       /\ IF query_capability(type) THEN Ask("capability", a) ELSE UNCHANGED asked
  /\ NextAttr
  /\ UNCHANGED <<options, supported, counts, listed, verdicts, message>>

\* The last attribute of a type is done, in either format.
CloseType ==
  /\ ScansText \/ ScansJson
  /\ type \in Types
  /\ attr > Len(Schema[type])
  /\ NextType
  /\ UNCHANGED <<options, supported, counts, asked, said>>

-----------------------------------------------------------------------------
(* The sweeps that ask one question per type.                              *)

\* Does the metadata, the filter or the focus put a type before a sweep?
Looks(sweep, t) ==
  /\ sweep = "availability" \/ t \in StatTypes
  /\ IF Full THEN Matches(t) ELSE t \in Focus[sweep]

\* What the focused sweeps do not look at is the list of supported types.
Spared(t) == Full /\ Excluded(t)

\* show_stats_capabilities; the JSON sweep asks for stream telemetry as well.
SweepStatistics ==
  /\ Here = "statistics"
  /\ type \in Types
  /\ \/ ~Looks("statistics", type) /\ UNCHANGED <<asked, verdicts>>
     \/ /\ Looks("statistics", type)
        /\ Spared(type)
        /\ verdicts' = IF options.include /\ ~options.json
                       THEN verdicts \cup {<<"statistics", type>>} ELSE verdicts
        /\ UNCHANGED asked
     \/ /\ Looks("statistics", type)
        /\ ~Spared(type)
        /\ asked' = asked \cup {<<"statistics", <<type, 0>>>>}
                     \cup (IF options.json THEN {<<"telemetry", <<type, 0>>>>} ELSE {})
        /\ UNCHANGED verdicts
  /\ NextType
  /\ UNCHANGED <<options, supported, counts, listed, message, entries>>

\* show_stream_telemetry_capabilities
SweepTelemetry ==
  /\ Here = "telemetry"
  /\ type \in Types
  /\ IF Looks("telemetry", type) /\ ~Spared(type)
     THEN Ask("telemetry", <<type, 0>>)
     ELSE UNCHANGED asked
  /\ NextType
  /\ UNCHANGED <<options, supported, counts, said>>

\* Slip: the sweep runs one type too far.
SweepAvailabilityTooFar ==
  /\ Here = "availability"
  /\ type <= NumTypes + 1
  /\ IF /\ Looks("availability", type)
        /\ Spared(type) => options.include /\ ~options.json
     THEN Ask("availability", <<type, 0>>)
     ELSE UNCHANGED asked
  /\ NextType
  /\ UNCHANGED <<options, supported, counts, said>>

\* show_generic_availability asks about excluded types as well when
\* --include-unsupported says so, the JSON sweep never does.
SweepAvailability ==
  /\ Here = "availability"
  /\ type \in Types
  /\ IF /\ Looks("availability", type)
        /\ Spared(type) => options.include /\ ~options.json
     THEN Ask("availability", <<type, 0>>)
     ELSE UNCHANGED asked
  /\ NextType
  /\ UNCHANGED <<options, supported, counts, said>>

\* Slip: the list of supported types is not looked at.
SweepEveryResource ==
  /\ Here = "resource"
  /\ type \in Types
  /\ asked' = asked \cup {<<"resource", a>> : a \in {b \in Resources : b[1] = type}}
  /\ NextType
  /\ UNCHANGED <<options, supported, counts, said>>

\* show_resource_type_availability, one type: every value of every attribute that
\* tells pools apart. The filter plays no part in it.
SweepResources ==
  /\ Here = "resource"
  /\ type \in Types
  /\ asked' = asked \cup {<<"resource", a>> :
                            a \in {b \in Resources : b[1] = type /\ ~Excluded(type)}}
  /\ NextType
  /\ UNCHANGED <<options, supported, counts, said>>

EndSweep ==
  /\ Here \in {"statistics", "telemetry", "availability", "resource"} \/ ScansJson
  /\ type > NumTypes
  /\ NextSection
  /\ UNCHANGED <<options, supported, asked, said>>

Next ==
  \/ ReadSupported
  \/ ReadAttribute
  \/ EndList
  \/ AskFocused
  \/ EndFocused
  \/ PassType
  \/ AnnounceType
  \/ OpenType
  \/ AskAttribute
  \/ EndScan
  \/ PassTypeJson
  \/ OpenTypeJson
  \/ WriteEntry
  \/ CloseType
  \/ SweepStatistics
  \/ SweepTelemetry
  \/ SweepAvailability
  \/ SweepResources
  \/ EndSweep

Spec == Init /\ [][Next]_vars

-----------------------------------------------------------------------------
(* What the report promises.                                               *)

\* What the filter lets through, and of that what the adapter's list does.
Matching == {t \in Types : Matches(t)}
Admitted == {t \in Matching : ~Excluded(t)}

\* The questions a full scan is to put, by kind. --include-unsupported widens the
\* availability section of the text, and the filter does not bear on resources,
\* which only the text asks about.
Due(kind) ==
  IF kind = "capability" THEN AttrsOf(Admitted)
  ELSE IF kind = "availability"
  THEN (IF options.include /\ ~options.json THEN Matching ELSE Admitted) \X {0}
  ELSE IF kind = "resource"
  THEN {b \in Resources : ~options.json /\ ~Excluded(b[1])}
  ELSE (Admitted \cap StatTypes) \X {0}

\* A full scan has put exactly the questions that are due, so that no type is
\* asked about in one section and left out of another. As text and as JSON these
\* are the same for attributes, statistics, telemetry and (without
\* --include-unsupported) availability. They are not the same for enum values
\* and resource types: the text asks about these, of enums it has asked about
\* and of types that are not excluded, and the JSON report never does. "The two
\* formats cannot disagree about what was asked" holds of no more than that.
QuestionsByFormat ==
  Done /\ Full =>
    /\ \A kind \in Sweeps \cup {"resource"} : WasAsked(kind) = Due(kind)
    /\ WasAsked("enum") \subseteq Enums \cap AttrsOf(Admitted)
    /\ options.json => WasAsked("enum") = {} /\ WasAsked("resource") = {}

\* A type the adapter's own list excludes is not probed further: no section of a
\* full scan spends a question on it, except the availability section when
\* --include-unsupported asks for it; a focused run spares it only from the
\* resource questions and, as JSON, from the attribute questions; and without a
\* list nothing is excluded.
ExcludedIsSpared ==
  \A q \in asked :
    Excluded(q[2][1]) =>
      \/ ~Full /\ q[1] # "resource" /\ (options.json => q[1] \notin {"capability", "enum"})
      \/ q[1] = "availability" /\ options.include /\ ~options.json

Past(name) == \E i \in DOMAIN Sections : i < section /\ Sections[i] = name

\* A full scan passes no matching type over in silence. In either format it has
\* asked about all attributes of the matching types that are not excluded and
\* about no other. As text it says of each matching type whether it is excluded,
\* and that nothing was asked exactly when it is true (a filter that matches
\* excluded types only is said to match none, a wrong reason that is not ruled
\* out here). As JSON every attribute has an entry, the entry knows whether the
\* adapter was asked, its verdict is that of the list at the head of the
\* document, and support is claimed of what is on that list, never for want of one.
NothingPassedOver ==
  Past("capability") /\ Full =>
    /\ WasAsked("capability") = AttrsOf(Admitted)
    /\ ~options.json =>
         /\ \A t \in Matching : <<"capability", t>> \in verdicts <=> Excluded(t)
         /\ message = "none" <=> Admitted # {}
    /\ options.json =>
         /\ {e.of : e \in entries} = AttrsOf(Matching)
         /\ \A e \in entries :
              /\ e.queried <=> e.of \in WasAsked("capability")
              /\ e.verdict = (IF e.queried THEN "none" ELSE "asic_unsupported")
              /\ ~e.queried <=> listed.authoritative /\ e.of[1] \notin listed.types
              /\ e.asic_supported <=> listed.authoritative /\ e.of[1] \in listed.types

\* The outcomes of a section that are counted under a name.
Under(b) == {x \in answered : x[2][1] = "Failure" /\ VendorMeans(x[2][2], b)}
Of(kind) == {x \in answered : x[2][1] = kind}

\* The summary of a section says what happened: reads that worked, attributes
\* the tool did not ask for, which are never failures of the adapter, and each
\* failure under the name its vendor means. The codes in question are those
\* status_name knows and those vendors form as <range>_0 + index; a vendor that
\* takes the header's ranges by the letter is counted under the next range.
CountsAreHonest ==
  /\ summary.ok = Cardinality(Of("Ok"))
  /\ summary.skipped = Cardinality(Of("Skipped"))
  /\ \A b \in Buckets \ {"OTHER"} : summary.failures[b] = Cardinality(Under(b))
  /\ Here = "capability" => queried = Cardinality(answered)

\* "Exact-match the documented plain statuses first": a failure with a plain
\* status is counted under the name of that status.
PlainStatusIsNamed ==
  \A x \in answered :
    x[2][1] = "Failure" /\ -x[2][2] \in DOMAIN PlainNames =>
      summary.failures[PlainNames[-x[2][2]]] > 0

===============================================================================
