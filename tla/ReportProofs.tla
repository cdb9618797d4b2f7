----------------------------- MODULE ReportProofs -----------------------------
(***************************************************************************)
(* What Report guarantees for every metadata, every focus, every list an   *)
(* adapter may publish and every status it may answer: the types; that     *)
(* excluded types are spared; which questions a full scan puts in either   *)
(* format; that no type is passed over in silence; how statuses are sorted *)
(* and that the summaries add up.                                          *)
(*                                                                         *)
(* The argument is one of progress. Each section goes over the types, and  *)
(* the scans over their attributes, in order; what a section has done is   *)
(* told by the position it has reached, and a section that is past has     *)
(* done all of it.                                                         *)
(***************************************************************************)
EXTENDS Report, NumberProofs, FiniteSetTheorems

\* Opened types are counted once each.
Typed == TypeOK /\ matched <= type /\ (attr = 0 => matched < type)

-----------------------------------------------------------------------------
(* Facts about the constants and the sections.                             *)

LEMMA AttrFacts ==
  /\ \A t \in Types : Len(Schema[t]) \in Nat /\ DOMAIN Schema[t] = 1 .. Len(Schema[t])
  /\ \A S \in SUBSET Types : AttrsOf(S) = {a \in Types \X Nat : a[1] \in S /\ a[2] \in DOMAIN Schema[a[1]]}
  /\ Attrs \subseteq Types \X Nat
  /\ \A t \in Types : \A k \in DOMAIN Schema[t] : <<t, k>> \in Attrs
<1>1. \A t \in Types : Schema[t] \in Seq(AttrKinds)
  BY ReportAssumption
<1>2. \A t \in Types : Len(Schema[t]) \in Nat /\ DOMAIN Schema[t] = 1 .. Len(Schema[t])
  BY <1>1
<1>3. \A S \in SUBSET Types : AttrsOf(S) = {a \in Types \X Nat : a[1] \in S /\ a[2] \in DOMAIN Schema[a[1]]}
  <2> SUFFICES ASSUME NEW S \in SUBSET Types
               PROVE  AttrsOf(S) = {a \in Types \X Nat : a[1] \in S /\ a[2] \in DOMAIN Schema[a[1]]}
    OBVIOUS
  <2>1. \A t \in S : DOMAIN Schema[t] \subseteq Nat
    BY <1>2
  <2>2. \A a : a \in AttrsOf(S) <=> \E t \in S : a \in {t} \X DOMAIN Schema[t]
    BY DEF AttrsOf
  <2>3. QED
    BY <2>1, <2>2
<1>4. QED
  BY <1>2, <1>3 DEF Attrs

LEMMA SectionsFacts ==
  /\ Len(Sections) \in Nat /\ DOMAIN Sections = 1 .. Len(Sections)
  /\ \A i, j \in DOMAIN Sections : Sections[i] = Sections[j] => i = j
  /\ \A name \in {"capability", "statistics", "availability"} :
       \E i \in DOMAIN Sections : Sections[i] = name
  /\ ~options.json => \E i \in DOMAIN Sections : Sections[i] = "telemetry"
  /\ ~options.json => \E i \in DOMAIN Sections : Sections[i] = "resource"
  /\ \A i \in DOMAIN Sections : Sections[i] # "none"
<1>1. CASE options.json
  <2>1. Sections = <<"readable", "capability", "statistics", "availability">>
    BY <1>1 DEF Sections
  <2>2. QED
    BY <1>1, <2>1
<1>2. CASE ~options.json /\ options.all
  <2>1. Sections = <<"summary", "readable", "capability", "statistics", "telemetry",
                     "availability", "resource", "legacy">>
    BY <1>2 DEF Sections
  <2>2. DOMAIN Sections = 1 .. 8 /\ Len(Sections) = 8
    BY <2>1
  <2>3. /\ Sections[1] = "summary" /\ Sections[2] = "readable" /\ Sections[3] = "capability"
        /\ Sections[4] = "statistics" /\ Sections[5] = "telemetry"
        /\ Sections[6] = "availability" /\ Sections[7] = "resource" /\ Sections[8] = "legacy"
    BY <2>1
  <2>4. QED
    BY <2>2, <2>3
<1>3. CASE ~options.json /\ ~options.all
  <2>1. Sections = <<"summary", "capability", "statistics", "telemetry",
                     "availability", "resource", "legacy">>
    BY <1>3 DEF Sections
  <2>2. DOMAIN Sections = 1 .. 7 /\ Len(Sections) = 7
    BY <2>1
  <2>3. /\ Sections[1] = "summary" /\ Sections[2] = "capability"
        /\ Sections[3] = "statistics" /\ Sections[4] = "telemetry"
        /\ Sections[5] = "availability" /\ Sections[6] = "resource" /\ Sections[7] = "legacy"
    BY <2>1
  <2>4. QED
    BY <2>2, <2>3
<1>4. QED
  BY <1>1, <1>2, <1>3

\* Every status has a name to be counted under.
LEMMA ClassifyTyped ==
  ASSUME NEW s \in Int
  PROVE  classify_status(s) \in Buckets
<1>1. \A high \in Int : RangeOf(high) \in Buckets
  BY DEF RangeOf, Buckets, Unit
<1>2. HighHalf(s) \in Int
  BY DEF HighHalf, Unit
<1>3. Recognised \subseteq DOMAIN PlainNames
  BY DEF Recognised, PlainNames
<1>4. status_name(s) \in Buckets
  BY <1>3 DEF status_name, Buckets
<1>5. QED
  BY <1>1, <1>2, <1>4 DEF classify_status

LEMMA AddTyped ==
  ASSUME TypeOK, NEW outcome \in Outcomes, Add(outcome)
  PROVE  summary' \in [ok : Nat, skipped : Nat, failures : [Buckets -> Nat]]
<1>1. outcome[2] \in Int
  <2>1. Limit \in Int
    BY DEF Limit, Unit
  <2>2. Statuses \subseteq Int
    BY <2>1, ReportAssumption DEF Status
  <2>3. outcome[2] \in Statuses \cup {SUCCESS, FAILURE}
    BY DEF Outcomes
  <2>4. SUCCESS \in Int /\ FAILURE \in Int
    BY DEF SUCCESS, FAILURE
  <2>5. QED
    BY <2>2, <2>3, <2>4
<1>2. summary_bucket(outcome[1], outcome[2]) \in Buckets \cup {"ok", "skipped_by_tool"}
  BY <1>1, ClassifyTyped DEF summary_bucket
<1>3. summary \in [ok : Nat, skipped : Nat, failures : [Buckets -> Nat]]
  BY DEF TypeOK
<1>4. QED
  BY <1>2, <1>3, SMT DEF Add

-----------------------------------------------------------------------------
(* Where a step goes.                                                      *)

\* Every step leaves the options and, once it is read, the list alone, and takes
\* the position to the next section, type or attribute.
Moves ==
  \/ NextSection
  \/ NextType /\ type \in Types
  \/ NextAttr

LEMMA HereFacts ==
  /\ Here # "none" => section \in DOMAIN Sections /\ Here = Sections[section]
  /\ section \in DOMAIN Sections => Here = Sections[section]
  BY SectionsFacts DEF Here

LEMMA StepFacts ==
  ASSUME Next
  PROVE  /\ UNCHANGED options
         /\ section = 0 => ReadSupported
         /\ section # 0 => UNCHANGED supported /\ Here # "none"
         /\ Moves
<1>1. section = 0 => Here = "none"
  BY SectionsFacts DEF Here
<1> USE <1>1
<1>2. CASE ReadSupported
  BY <1>2 DEF ReadSupported, Moves
<1>3. CASE ReadAttribute
  BY <1>3 DEF ReadAttribute, Moves, Lists
<1>4. CASE EndList
  BY <1>4 DEF EndList, Moves, Lists
<1>5. CASE AskFocused
  BY <1>5 DEF AskFocused, Moves
<1>6. CASE EndFocused
  BY <1>6 DEF EndFocused, Moves
<1>7. CASE PassType \/ AnnounceType \/ OpenType
  BY <1>7 DEF PassType, AnnounceType, OpenType, Moves, ScansText
<1>8. CASE AskAttribute
  BY <1>8 DEF AskAttribute, Moves, ScansText
<1>9. CASE EndScan
  BY <1>9 DEF EndScan, Moves, ScansText
<1>10. CASE PassTypeJson \/ OpenTypeJson \/ CloseType
  BY <1>10 DEF PassTypeJson, OpenTypeJson, CloseType, Moves, ScansJson, ScansText
<1>11. CASE WriteEntry
  BY <1>11 DEF WriteEntry, Moves, ScansJson
<1>12. CASE SweepStatistics
  BY <1>12 DEF SweepStatistics, Moves
<1>13. CASE SweepTelemetry
  BY <1>13 DEF SweepTelemetry, Moves
<1>14. CASE SweepAvailability
  BY <1>14 DEF SweepAvailability, Moves
<1>15. CASE SweepResources
  BY <1>15 DEF SweepResources, Moves
<1>16. CASE EndSweep
  BY <1>16 DEF EndSweep, Moves, ScansJson
<1>17. QED
  BY <1>2, <1>3, <1>4, <1>5, <1>6, <1>7, <1>8, <1>9, <1>10, <1>11, <1>12, <1>13,
     <1>14, <1>15, <1>16 DEF Next

\* The position stays in the report.
LEMMA PositionTyped ==
  ASSUME Typed, Next
  PROVE  /\ section' \in 0 .. Len(Sections') + 1
         /\ type' \in 1 .. NumTypes + 1
         /\ attr' \in Nat
         /\ Sections' = Sections
<1>1. Sections' = Sections
  BY StepFacts DEF Sections
<1>2. section \in 0 .. Len(Sections)
  BY StepFacts, SectionsFacts, HereFacts DEF Typed, TypeOK
<1>3. Len(Sections) \in Nat /\ NumTypes \in Nat
  BY SectionsFacts, ReportAssumption
<1>4. type \in 1 .. NumTypes + 1 /\ attr \in Nat
  BY DEF Typed, TypeOK
<1>5. CASE NextSection
  BY <1>1, <1>2, <1>3, <1>5 DEF NextSection
<1>6. CASE NextType /\ type \in Types
  BY <1>1, <1>2, <1>3, <1>4, <1>6 DEF NextType, Types
<1>7. CASE NextAttr
  BY <1>1, <1>2, <1>3, <1>4, <1>7 DEF NextAttr
<1>8. QED
  BY <1>1, <1>5, <1>6, <1>7, StepFacts DEF Moves

\* What a section counts, typed.
CountsTyped ==
  /\ summary \in [ok : Nat, skipped : Nat, failures : [Buckets -> Nat]]
  /\ queried \in Nat
  /\ answered \subseteq (Types \X Nat) \X Outcomes

LEMMA ReadStep ==
  ASSUME Typed, ReadAttribute
  PROVE  \/ UNCHANGED counts
         \/ \E outcome \in Outcomes :
              /\ Add(outcome)
              /\ answered' = answered \cup {<<<<1, attr>>, outcome>>}
              /\ UNCHANGED <<matched, queried>>
<1>1. CASE ReadLists[Here][attr + 1] = "missing"
  BY <1>1 DEF ReadAttribute
<1>2. CASE ReadLists[Here][attr + 1] # "missing"
  <2>1. PICK outcome \in FetchOutcomes(ReadLists[Here][attr + 1]) :
          /\ Add(outcome)
          /\ answered' = answered \cup {<<<<1, attr>>, outcome>>}
          /\ UNCHANGED <<matched, queried>>
    BY <1>2, Zenon DEF ReadAttribute
  <2>2. outcome \in Outcomes
    BY DEF FetchOutcomes, Outcomes, FetchKinds
  <2>3. QED
    BY <2>1, <2>2
<1>3. QED
  BY <1>1, <1>2

LEMMA AskStep ==
  ASSUME Typed, AskAttribute
  PROVE  /\ queried' = queried + 1 /\ UNCHANGED matched
         /\ <<type, attr>> \in Attrs
         /\ \E outcome \in Outcomes :
              /\ outcome[1] \in {"Ok", "Failure"}
              /\ Add(outcome)
              /\ answered' = answered \cup {<<<<type, attr>>, outcome>>}
         /\ \/ asked' = asked \cup {<<"capability", <<type, attr>>>>}
            \/ asked' = asked \cup {<<"capability", <<type, attr>>>>, <<"enum", <<type, attr>>>>}
<1>1. <<type, attr>> \in Attrs
  BY AttrFacts DEF AskAttribute
<1>2. PICK status \in Statuses \cup {FAILURE}, usable \in BOOLEAN :
        LET a       == <<type, attr>>
            outcome == <<IF status = SUCCESS THEN "Ok" ELSE "Failure", status>> IN
          /\ Add(outcome)
          /\ answered' = answered \cup {<<a, outcome>>}
          /\ asked' = asked \cup {<<"capability", a>>}
                       \cup (IF a \in Enums /\ status = SUCCESS /\ usable
                             THEN {<<"enum", a>>} ELSE {})
  BY Zenon DEF AskAttribute
<1>3. <<IF status = SUCCESS THEN "Ok" ELSE "Failure", status>> \in Outcomes
  BY DEF Outcomes, FetchKinds
<1> DEFINE outcome == <<IF status = SUCCESS THEN "Ok" ELSE "Failure", status>>
<1>4. outcome[1] \in {"Ok", "Failure"}
  OBVIOUS
<1>5. /\ Add(outcome)
      /\ answered' = answered \cup {<<<<type, attr>>, outcome>>}
  BY <1>2
<1>6. \/ asked' = asked \cup {<<"capability", <<type, attr>>>>}
      \/ asked' = asked \cup {<<"capability", <<type, attr>>>>, <<"enum", <<type, attr>>>>}
  <2>1. CASE <<type, attr>> \in Enums /\ status = SUCCESS /\ usable
    <3>1. asked' = asked \cup {<<"capability", <<type, attr>>>>} \cup {<<"enum", <<type, attr>>>>}
      BY <1>2, <2>1
    <3>2. QED
      BY <3>1
  <2>2. CASE ~(<<type, attr>> \in Enums /\ status = SUCCESS /\ usable)
    <3>1. asked' = asked \cup {<<"capability", <<type, attr>>>>} \cup {}
      BY <1>2, <2>2
    <3>2. QED
      BY <3>1
  <2>3. QED
    BY <2>1, <2>2
<1> HIDE DEF outcome
<1>7. QED
  BY <1>1, <1>3, <1>4, <1>5, <1>6 DEF AskAttribute, outcome

LEMMA CountsStep ==
  ASSUME Typed, Next
  PROVE  CountsTyped' /\ matched' <= type' /\ (attr' = 0 => matched' < type') /\ matched' \in 0 .. NumTypes
<1>1. /\ CountsTyped /\ type \in 1 .. NumTypes + 1 /\ attr \in Nat
      /\ matched \in 0 .. NumTypes /\ matched <= type /\ (attr = 0 => matched < type)
      /\ NumTypes \in Nat \ {0}
  BY ReportAssumption DEF Typed, TypeOK, CountsTyped
<1>2. CASE NextSection
  <2>1. matched' = 0 /\ type' = 1 /\ queried' = 0 /\ answered' = {} /\ summary' = NoOutcomes
    BY <1>2 DEF NextSection
  <2>2. summary' \in [ok : Nat, skipped : Nat, failures : [Buckets -> Nat]]
    BY <2>1 DEF NoOutcomes
  <2>3. QED
    BY <1>1, <2>1, <2>2 DEF CountsTyped
<1>3. CASE (NextType \/ NextAttr) /\ UNCHANGED counts
  <2>1. UNCHANGED <<summary, matched, queried, answered>>
    BY <1>3 DEF counts
  <2>2. \/ type' = type + 1
        \/ type' = type /\ attr' # 0
    BY <1>1, <1>3 DEF NextType, NextAttr
  <2>3. QED
    BY <1>1, <2>1, <2>2 DEF CountsTyped
<1>4. CASE ReadAttribute /\ ~UNCHANGED counts
  <2>1. PICK outcome \in Outcomes :
          /\ Add(outcome)
          /\ answered' = answered \cup {<<<<1, attr>>, outcome>>}
          /\ UNCHANGED <<matched, queried>>
    BY <1>4, ReadStep
  <2>2. type' = type /\ attr' = attr + 1
    BY <1>4 DEF ReadAttribute, NextAttr
  <2>3. summary' \in [ok : Nat, skipped : Nat, failures : [Buckets -> Nat]]
    BY <2>1, AddTyped DEF Typed
  <2>4. <<1, attr>> \in Types \X Nat
    BY <1>1 DEF Types
  <2>5. answered' \subseteq (Types \X Nat) \X Outcomes
    BY <1>1, <2>1, <2>4 DEF CountsTyped
  <2>6. QED
    BY <1>1, <2>1, <2>2, <2>3, <2>5 DEF CountsTyped
<1>5. CASE OpenType
  <2>1. /\ matched' = matched + 1 /\ attr = 0 /\ type \in Types /\ type' = type /\ attr' = attr + 1
        /\ UNCHANGED <<summary, queried, answered>>
    BY <1>5 DEF OpenType, NextAttr
  <2>2. QED
    BY <1>1, <2>1 DEF CountsTyped, Types
<1>6. CASE AskAttribute
  <2>1. PICK outcome \in Outcomes :
          /\ Add(outcome)
          /\ answered' = answered \cup {<<<<type, attr>>, outcome>>}
    BY <1>6, AskStep
  <2>2. type' = type /\ attr' = attr + 1 /\ type \in Types /\ queried' = queried + 1 /\ UNCHANGED matched
    BY <1>6 DEF AskAttribute, NextAttr
  <2>3. summary' \in [ok : Nat, skipped : Nat, failures : [Buckets -> Nat]]
    BY <2>1, AddTyped DEF Typed
  <2>4. answered' \subseteq (Types \X Nat) \X Outcomes
    BY <1>1, <2>1, <2>2 DEF CountsTyped
  <2>5. QED
    BY <1>1, <2>2, <2>3, <2>4 DEF CountsTyped
<1>7. CASE ReadSupported \/ EndList \/ EndFocused \/ EndScan \/ EndSweep
  BY <1>2, <1>7 DEF ReadSupported, EndList, EndFocused, EndScan, EndSweep
<1>8. CASE AskFocused \/ PassType \/ AnnounceType \/ PassTypeJson \/ OpenTypeJson \/ CloseType
  BY <1>3, <1>8 DEF AskFocused, PassType, AnnounceType, PassTypeJson, OpenTypeJson, CloseType
<1>9. CASE WriteEntry \/ SweepStatistics \/ SweepTelemetry \/ SweepAvailability \/ SweepResources
  BY <1>3, <1>9 DEF WriteEntry, SweepStatistics, SweepTelemetry, SweepAvailability, SweepResources
<1>10. CASE ReadAttribute /\ UNCHANGED counts
  BY <1>3, <1>10 DEF ReadAttribute
<1>11. QED
  BY <1>4, <1>5, <1>6, <1>7, <1>8, <1>9, <1>10 DEF Next

\* Every question is about an attribute or a type of the metadata.
LEMMA AskedTyped ==
  ASSUME Typed, Next
  PROVE  asked' \subseteq Kinds \X (Types \X Nat)
<1>1. asked \subseteq Kinds \X (Types \X Nat)
  BY DEF Typed, TypeOK
<1>2. {"capability", "enum", "statistics", "telemetry", "availability", "resource"} \subseteq Kinds
  BY DEF Kinds, Sweeps
<1>3. CASE UNCHANGED asked
  BY <1>1, <1>3
<1>4. CASE AskFocused
  <2>1. FocusedNames[attr + 1] \in Attrs \cup {Missing}
    <3>1. attr + 1 \in 1 .. Len(FocusedNames)
      BY <1>4, ReportAssumption DEF AskFocused, Typed, TypeOK
    <3>2. QED
      BY <3>1, ReportAssumption
  <2>2. Enums \subseteq Attrs
    BY DEF Enums
  <2>3. QED
    BY <1>1, <1>2, <1>4, <2>1, <2>2, AttrFacts DEF AskFocused, Ask
<1>5. CASE AskAttribute
  <2>1. <<type, attr>> \in Types \X Nat
    BY <1>5, AskStep, AttrFacts
  <2>2. QED
    BY <1>1, <1>2, <1>5, <2>1, AskStep
<1>6. CASE WriteEntry
  <2>1. <<type, attr>> \in Types \X Nat
    BY <1>6, AttrFacts DEF WriteEntry
  <2>2. asked' \subseteq asked \cup {<<"capability", <<type, attr>>>>}
    BY <1>6 DEF WriteEntry, Ask
  <2>3. QED
    BY <1>1, <1>2, <2>1, <2>2
<1>7. CASE SweepStatistics
  <2>1. /\ type \in Types
        /\ asked' \subseteq asked \cup {<<"statistics", <<type, 0>>>>, <<"telemetry", <<type, 0>>>>}
    BY <1>7 DEF SweepStatistics
  <2>2. QED
    BY <1>1, <1>2, <2>1
<1>8. CASE SweepTelemetry
  <2>1. type \in Types /\ asked' \subseteq asked \cup {<<"telemetry", <<type, 0>>>>}
    BY <1>8 DEF SweepTelemetry, Ask
  <2>2. QED
    BY <1>1, <1>2, <2>1
<1>9. CASE SweepAvailability
  <2>1. type \in Types /\ asked' \subseteq asked \cup {<<"availability", <<type, 0>>>>}
    BY <1>9 DEF SweepAvailability, Ask
  <2>2. QED
    BY <1>1, <1>2, <2>1
<1>10. CASE SweepResources
  <2>1. Resources \subseteq Types \X Nat
    BY AttrFacts DEF Resources
  <2>2. asked' \subseteq asked \cup {<<"resource", a>> : a \in Resources}
    BY <1>10 DEF SweepResources
  <2>3. QED
    BY <1>1, <1>2, <2>1, <2>2
<1>11. QED
  BY <1>3, <1>4, <1>5, <1>6, <1>7, <1>8, <1>9, <1>10
    DEF Next, ReadSupported, ReadAttribute, EndList, EndFocused, PassType, AnnounceType, OpenType,
        EndScan, PassTypeJson, OpenTypeJson, CloseType, EndSweep

\* The entry of the attribute at the position.
NewEntry ==
  [of |-> <<type, attr>>, queried |-> query_capability(type),
   asic_supported |-> asic_supported(type),
   verdict |-> IF query_capability(type) THEN "none" ELSE verdict(type)]

LEMMA SaidTyped ==
  ASSUME Typed, Next
  PROVE  /\ verdicts' \subseteq Sweeps \X Types
         /\ message' \in {"none", "all_excluded", "no_match"}
         /\ entries' \subseteq [of : Attrs, queried : BOOLEAN, asic_supported : BOOLEAN,
                                 verdict : Verdicts]
<1>1. /\ verdicts \subseteq Sweeps \X Types
      /\ message \in {"none", "all_excluded", "no_match"}
      /\ entries \subseteq [of : Attrs, queried : BOOLEAN, asic_supported : BOOLEAN,
                             verdict : Verdicts]
  BY DEF Typed, TypeOK
<1>2. CASE UNCHANGED said
  BY <1>1, <1>2 DEF said
<1>3. CASE AnnounceType
  BY <1>1, <1>3 DEF AnnounceType, Sweeps
<1>4. CASE SweepStatistics
  BY <1>1, <1>4 DEF SweepStatistics, Sweeps
<1>5. CASE EndScan
  BY <1>1, <1>5 DEF EndScan
<1>6. CASE WriteEntry
  <2>1. <<type, attr>> \in Attrs
    BY <1>6, AttrFacts DEF WriteEntry
  <2>2. /\ query_capability(type) \in BOOLEAN /\ asic_supported(type) \in BOOLEAN
        /\ (IF query_capability(type) THEN "none" ELSE verdict(type)) \in Verdicts
    BY DEF query_capability, asic_supported, verdict, Verdicts, Typed, TypeOK
  <2>3. entries' = entries \cup {NewEntry} /\ UNCHANGED <<verdicts, message>>
    BY <1>6 DEF WriteEntry, NewEntry
  <2>4. QED
    BY <1>1, <2>1, <2>2, <2>3 DEF NewEntry
<1>7. CASE ReadSupported
  BY <1>1, <1>7 DEF ReadSupported
<1>8. QED
  BY <1>2, <1>3, <1>4, <1>5, <1>6, <1>7
    DEF Next, ReadAttribute, EndList, AskFocused, EndFocused, PassType, OpenType,
        AskAttribute, PassTypeJson, OpenTypeJson, CloseType, SweepTelemetry, SweepAvailability,
        SweepResources, EndSweep

LEMMA InitTyped == Init => Typed
<1> SUFFICES ASSUME Init PROVE Typed
  OBVIOUS
<1>1. options \in [json : BOOLEAN, all : BOOLEAN, filtered : BOOLEAN,
                   filter : SUBSET Types, include : BOOLEAN]
  BY ReportAssumption DEF Init
<1>2. section \in 0 .. Len(Sections) + 1 /\ type \in 1 .. NumTypes + 1 /\ matched \in 0 .. NumTypes
  BY ReportAssumption, SectionsFacts DEF Init
<1>3. summary \in [ok : Nat, skipped : Nat, failures : [Buckets -> Nat]]
  BY DEF Init, NoOutcomes
<1>4. supported \in [authoritative : BOOLEAN, types : SUBSET Types]
  BY DEF Init
<1>5. /\ attr = 0 /\ matched = 0 /\ type = 1 /\ queried = 0 /\ asked = {} /\ answered = {}
      /\ verdicts = {} /\ message = "none" /\ entries = {}
      /\ listed = supported
  BY DEF Init
<1>6. QED
  BY <1>1, <1>2, <1>3, <1>4, <1>5 DEF Typed, TypeOK

\* The list is reported when it is read.
LEMMA ListedStep ==
  ASSUME Next
  PROVE  \/ section = 0 /\ listed' = supported'
         \/ section # 0 /\ UNCHANGED listed
<1>1. CASE section = 0
  BY <1>1, StepFacts DEF ReadSupported
<1>2. CASE section # 0
  <2>1. ~ReadSupported
    BY <1>2 DEF ReadSupported
  <2>2. UNCHANGED listed
    BY <2>1
      DEF Next, ReadAttribute, EndList, AskFocused, EndFocused, PassType, AnnounceType, OpenType,
          AskAttribute, EndScan, PassTypeJson, OpenTypeJson, WriteEntry, CloseType, SweepStatistics,
          SweepTelemetry, SweepAvailability, SweepResources, EndSweep, said
  <2>3. QED
    BY <1>2, <2>2
<1>3. QED
  BY <1>1, <1>2

LEMMA TypedInductive == Typed /\ [Next]_vars => Typed'
<1> SUFFICES ASSUME Typed, [Next]_vars
             PROVE  Typed'
  OBVIOUS
<1>1. CASE Next
  <2>1. options' \in [json : BOOLEAN, all : BOOLEAN, filtered : BOOLEAN,
                      filter : SUBSET Types, include : BOOLEAN]
    BY <1>1, StepFacts DEF Typed, TypeOK
  <2>2. supported' \in [authoritative : BOOLEAN, types : SUBSET Types]
    <3>1. CASE section # 0
      BY <1>1, <3>1, StepFacts DEF Typed, TypeOK
    <3>2. CASE section = 0
      <4>1. supported' \in {[authoritative |-> FALSE, types |-> {}]}
                              \cup [authoritative : {TRUE}, types : SUBSET Types]
        BY <1>1, <3>2, StepFacts DEF ReadSupported
      <4>2. CASE supported' = [authoritative |-> FALSE, types |-> {}]
        BY <4>2
      <4>3. CASE supported' \in [authoritative : {TRUE}, types : SUBSET Types]
        BY <4>3
      <4>4. QED
        BY <4>1, <4>2, <4>3
    <3>3. QED
      BY <3>1, <3>2
  <2>3. listed' \in [authoritative : BOOLEAN, types : SUBSET Types]
    BY <1>1, <2>2, ListedStep DEF Typed, TypeOK
  <2>4. QED
    BY <1>1, <2>1, <2>2, <2>3, PositionTyped, CountsStep, AskedTyped, SaidTyped
      DEF Typed, TypeOK, CountsTyped
<1>2. CASE UNCHANGED vars
  BY <1>2 DEF vars, position, counts, said, Typed, TypeOK, Sections
<1>3. QED
  BY <1>1, <1>2

\* The variables of Report have the types its type invariant gives them.
THEOREM ReportTypeCorrect == Spec => []TypeOK
<1>1. Typed => TypeOK
  BY DEF Typed
<1>2. QED
  BY <1>1, InitTyped, TypedInductive, PTL DEF Spec

-----------------------------------------------------------------------------
(* Excluded types are spared.                                              *)

\* While a scan looks at the attributes of a type, the type is one that it may
\* look at.
Opened ==
  attr > 0 =>
    /\ ScansText => type \in Types /\ Matches(type) /\ ~Excluded(type)
    /\ ScansJson => type \in Types /\ Scanned(type)

\* Before the list is read nothing was asked and nothing said.
Untouched ==
  section = 0 => asked = {} /\ entries = {} /\ verdicts = {}

Scanning == Opened /\ Untouched /\ ExcludedIsSpared

LEMMA HereKept ==
  ASSUME Next, UNCHANGED section
  PROVE  /\ section # 0
         /\ UNCHANGED <<Here, ScansText, ScansJson, Full>>
         /\ \A t : /\ Matches(t)' = Matches(t)
                   /\ Excluded(t)' = Excluded(t)
                   /\ Scanned(t)' = Scanned(t)
<1>1. section # 0
  <2>1. section = 0 => ReadSupported
    BY StepFacts
  <2>2. ReadSupported => section' = section + 1 /\ section = 0
    BY DEF ReadSupported, NextSection
  <2>3. QED
    BY <2>1, <2>2
<1>2. UNCHANGED <<options, supported, section>>
  BY <1>1, StepFacts
<1>3. UNCHANGED Sections
  BY <1>2 DEF Sections
<1>4. UNCHANGED <<Here, Full>>
  BY <1>2, <1>3 DEF Here, Full
<1>5. UNCHANGED <<ScansText, ScansJson>>
  BY <1>2, <1>4 DEF ScansText, ScansJson
<1>6. \A t : Matches(t)' = Matches(t)
  BY <1>2 DEF Matches
<1>7. \A t : Excluded(t)' = Excluded(t)
  BY <1>2 DEF Excluded
<1>8. \A t : Scanned(t)' = Scanned(t)
  BY <1>4, <1>6 DEF Scanned
<1>9. QED
  BY <1>1, <1>4, <1>5, <1>6, <1>7, <1>8

LEMMA OpenedStep ==
  ASSUME Typed, Opened, Next
  PROVE  Opened'
<1>0. type \in Nat /\ attr \in Nat /\ section \in Nat
  BY SectionsFacts DEF Typed, TypeOK
<1>1. CASE NextSection \/ NextType
  BY <1>1 DEF NextSection, NextType, Opened
<1>2. CASE NextAttr
  <2>1. UNCHANGED <<section, type>>
    BY <1>2 DEF NextAttr
  <2>2. CASE attr > 0
    BY <2>1, <2>2, HereKept DEF Opened
  <2>3. CASE attr = 0
    <3>1. ScansText => OpenType
      BY <1>0, <1>2, <2>3, AttrFacts
        DEF Next, ReadSupported, ReadAttribute, EndList, AskFocused, EndFocused, PassType,
            AnnounceType, AskAttribute, EndScan, PassTypeJson, OpenTypeJson, WriteEntry, CloseType,
            SweepStatistics, SweepTelemetry, SweepAvailability, SweepResources, EndSweep,
            NextSection, NextType, NextAttr, ScansText, ScansJson, Lists
    <3>2. ScansJson => OpenTypeJson
      BY <1>0, <1>2, <2>3, AttrFacts
        DEF Next, ReadSupported, ReadAttribute, EndList, AskFocused, EndFocused, PassType,
            AnnounceType, OpenType, AskAttribute, EndScan, PassTypeJson, WriteEntry, CloseType,
            SweepStatistics, SweepTelemetry, SweepAvailability, SweepResources, EndSweep,
            NextSection, NextType, NextAttr, ScansText, ScansJson, Lists
    <3>3. QED
      BY <2>1, <3>1, <3>2, HereKept DEF Opened, OpenType, OpenTypeJson
  <2>4. QED
    BY <1>0, <2>2, <2>3
<1>3. QED
  BY <1>1, <1>2, StepFacts DEF Moves

\* What is new among the questions, in the sections that spare nobody by accident.
SparedOrAllowed(q) ==
  Excluded(q[2][1]) =>
    \/ ~Full /\ q[1] # "resource" /\ (options.json => q[1] \notin {"capability", "enum"})
    \/ q[1] = "availability" /\ options.include /\ ~options.json

LEMMA NewQuestions ==
  ASSUME Typed, Opened, Next, section # 0
  PROVE  \A q \in asked' \ asked : SparedOrAllowed(q)
<1>1. CASE UNCHANGED asked
  BY <1>1
<1>2. CASE AskFocused
  <2>1. \A q \in asked' \ asked : q[1] \in {"capability", "enum"}
    BY <1>2 DEF AskFocused, Ask
  <2>2. QED
    BY <1>2, <2>1 DEF AskFocused, SparedOrAllowed
<1>3. CASE AskAttribute
  <2>1. \A q \in asked' \ asked : q[2] = <<type, attr>>
    BY <1>3, AskStep
  <2>2. ScansText /\ attr > 0
    BY <1>3, AttrFacts DEF AskAttribute
  <2>3. ~Excluded(type)
    BY <2>2 DEF Opened
  <2>4. QED
    BY <2>1, <2>3 DEF SparedOrAllowed
<1>4. CASE WriteEntry
  <2>1. \A q \in asked' \ asked : q[2] = <<type, attr>> /\ query_capability(type)
    BY <1>4 DEF WriteEntry, Ask
  <2>2. query_capability(type) => ~Excluded(type)
    BY DEF query_capability, asic_supported, Excluded
  <2>3. QED
    BY <2>1, <2>2 DEF SparedOrAllowed
<1>5. CASE SweepStatistics
  <2>1. \A q \in asked' \ asked :
          q[1] \in {"statistics", "telemetry"} /\ q[2] = <<type, 0>> /\ ~Spared(type)
    BY <1>5 DEF SweepStatistics
  <2>2. QED
    BY <2>1 DEF SparedOrAllowed, Spared
<1>6. CASE SweepTelemetry
  <2>1. \A q \in asked' \ asked : q[1] = "telemetry" /\ q[2] = <<type, 0>> /\ ~Spared(type)
    BY <1>6 DEF SweepTelemetry, Ask
  <2>2. QED
    BY <2>1 DEF SparedOrAllowed, Spared
<1>7. CASE SweepAvailability
  <2>1. \A q \in asked' \ asked :
          /\ q[1] = "availability" /\ q[2] = <<type, 0>>
          /\ Spared(type) => options.include /\ ~options.json
    BY <1>7 DEF SweepAvailability, Ask
  <2>2. QED
    BY <2>1 DEF SparedOrAllowed, Spared
<1>8. CASE SweepResources
  <2>1. \A q \in asked' \ asked : q[2][1] = type /\ ~Excluded(type)
    BY <1>8 DEF SweepResources
  <2>2. QED
    BY <2>1 DEF SparedOrAllowed
<1>9. QED
  BY <1>1, <1>2, <1>3, <1>4, <1>5, <1>6, <1>7, <1>8
    DEF Next, ReadSupported, ReadAttribute, EndList, EndFocused, PassType, AnnounceType, OpenType,
        EndScan, PassTypeJson, OpenTypeJson, CloseType, EndSweep

LEMMA ScanningInductive == Typed /\ Scanning /\ [Next]_vars => Scanning'
<1> SUFFICES ASSUME Typed, Scanning, [Next]_vars
             PROVE  Scanning'
  OBVIOUS
<1>1. CASE UNCHANGED vars
  BY <1>1 DEF vars, position, counts, said, Scanning, Opened, Untouched, ExcludedIsSpared,
              ScansText, ScansJson, Here, Sections, Full, Matches, Excluded, Scanned
<1>2. CASE Next /\ section = 0
  <2>1. section' = 1 /\ attr' = 0 /\ asked' = {}
    BY <1>2, StepFacts DEF ReadSupported, NextSection, Scanning, Untouched
  <2>2. QED
    BY <2>1 DEF Scanning, Opened, Untouched, ExcludedIsSpared
<1>3. CASE Next /\ section # 0
  <2>1. section' # 0
    <3>1. section \in Nat
      BY SectionsFacts DEF Typed, TypeOK
    <3>2. section' = section \/ section' = section + 1
      BY <1>3, StepFacts DEF Moves, NextSection, NextType, NextAttr
    <3>3. QED
      BY <1>3, <3>1, <3>2
  <2>2. UNCHANGED <<options, supported>>
    BY <1>3, StepFacts
  <2>3. UNCHANGED Full /\ \A t : Excluded(t)' = Excluded(t)
    BY <2>2 DEF Full, Excluded
  <2>4. \A q \in asked' : SparedOrAllowed(q)
    BY <1>3, NewQuestions DEF Scanning, ExcludedIsSpared, SparedOrAllowed
  <2>5. ExcludedIsSpared'
    BY <2>2, <2>3, <2>4 DEF ExcludedIsSpared, SparedOrAllowed
  <2>6. QED
    BY <1>3, <2>1, <2>5, OpenedStep DEF Scanning, Untouched
<1>4. QED
  BY <1>1, <1>2, <1>3

LEMMA ScanningInvariant == Spec => [](Typed /\ Scanning)
<1>1. Init => Scanning
  BY DEF Init, Scanning, Opened, Untouched, ExcludedIsSpared
<1>2. QED
  BY <1>1, InitTyped, TypedInductive, ScanningInductive, PTL DEF Spec

\* No section of a full scan spends a question on a type the adapter's own list
\* excludes, but for the availability section under --include-unsupported.
THEOREM ReportExcludedIsSpared == Spec => []ExcludedIsSpared
<1>1. Scanning => ExcludedIsSpared
  BY DEF Scanning
<1>2. QED
  BY <1>1, ScanningInvariant, PTL

-----------------------------------------------------------------------------
(* Progress.                                                               *)

\* Has the section of a name left d behind? A scan goes by attributes.
Reached(name, byAttribute, d) ==
  \/ Past(name)
  \/ /\ Here = name
     /\ d[1] < type \/ (byAttribute /\ d[1] = type /\ d[2] < attr)

\* What the next section changes of the past.
LEMMA PastStep ==
  ASSUME Typed, Next, section # 0, NEW name
  PROVE  /\ NextSection => (Past(name)' <=> Past(name) \/ Here = name)
         /\ UNCHANGED section => (Past(name)' <=> Past(name)) /\ Here' = Here
         /\ NextSection /\ Here' = name /\ name # "none" => ~Past(name) /\ Here # name
         /\ Past(name) => Here # name
<1>1. Sections' = Sections
  BY StepFacts DEF Sections
<1>2. section \in DOMAIN Sections /\ Here = Sections[section]
  BY StepFacts, HereFacts
<1>3. DOMAIN Sections = 1 .. Len(Sections) /\ Len(Sections) \in Nat
  BY SectionsFacts
<1>4. section \in Nat
  BY <1>2, <1>3
<1>5. ASSUME NextSection PROVE Past(name)' <=> Past(name) \/ Here = name
  <2>1. section' = section + 1
    BY <1>5 DEF NextSection
  <2>2. \A i \in DOMAIN Sections : i < section' <=> i < section \/ i = section
    BY <1>3, <1>4, <2>1
  <2>3. QED
    BY <1>1, <1>2, <2>2 DEF Past
<1>6. ASSUME UNCHANGED section PROVE (Past(name)' <=> Past(name)) /\ Here' = Here
  BY <1>1, <1>6 DEF Past, Here
<1>7. ASSUME NextSection, Here' = name, name # "none" PROVE ~Past(name) /\ Here # name
  <2>1. section' = section + 1
    BY <1>7 DEF NextSection
  <2>2. section' \in DOMAIN Sections /\ Sections[section'] = name
    BY <1>1, <1>7 DEF Here
  <2>3. section # section'
    BY <1>4, <2>1
  <2>4. \A i \in DOMAIN Sections : i < section => i # section'
    BY <1>3, <1>4, <2>1
  <2>5. QED
    BY <1>2, <2>2, <2>3, <2>4, SectionsFacts DEF Past
<1>8. Past(name) => Here # name
  <2>1. \A i \in DOMAIN Sections : i < section => i # section
    BY <1>3, <1>4
  <2>2. QED
    BY <1>2, <2>1, SectionsFacts DEF Past
<1>9. QED
  BY <1>5, <1>6, <1>7, <1>8

\* What a step leaves behind.
LEMMA ReachedStep ==
  ASSUME Typed, Next, section # 0, NEW name, name # "none", NEW byAttribute \in BOOLEAN,
         NEW d \in Types \X Nat
  PROVE  /\ NextSection /\ (Here = name => type > NumTypes) =>
              (Reached(name, byAttribute, d)' <=> Reached(name, byAttribute, d))
         /\ NextType =>
              (Reached(name, byAttribute, d)' <=>
                 Reached(name, byAttribute, d) \/ (Here = name /\ d[1] = type))
         /\ NextAttr =>
              (Reached(name, byAttribute, d)' <=>
                 \/ Reached(name, byAttribute, d)
                 \/ Here = name /\ byAttribute /\ d = <<type, attr>>)
<1>1. d[1] \in 1 .. NumTypes /\ d[2] \in Nat /\ d = <<d[1], d[2]>>
  BY DEF Types
<1>2. type \in Nat /\ attr \in Nat /\ NumTypes \in Nat
  BY ReportAssumption DEF Typed, TypeOK
<1>3. ASSUME NextSection, Here = name => type > NumTypes
      PROVE  Reached(name, byAttribute, d)' <=> Reached(name, byAttribute, d)
  <2>1. type' = 1 /\ attr' = 0
    BY <1>3 DEF NextSection
  <2>2. ~(d[1] < type' \/ (byAttribute /\ d[1] = type' /\ d[2] < attr'))
    BY <1>1, <2>1
  <2>3. Reached(name, byAttribute, d)' <=> Past(name)'
    BY <2>2 DEF Reached
  <2>4. Here = name => d[1] < type
    BY <1>1, <1>2, <1>3
  <2>5. QED
    BY <1>3, <2>3, <2>4, PastStep DEF Reached
<1>4. ASSUME NextType
      PROVE  Reached(name, byAttribute, d)' <=>
               Reached(name, byAttribute, d) \/ (Here = name /\ d[1] = type)
  <2>1. type' = type + 1 /\ attr' = 0 /\ UNCHANGED section
    BY <1>4 DEF NextType
  <2>2. (d[1] < type' \/ (byAttribute /\ d[1] = type' /\ d[2] < attr')) <=> d[1] < type \/ d[1] = type
    BY <1>1, <1>2, <2>1
  <2>3. (Past(name)' <=> Past(name)) /\ Here' = Here
    BY <2>1, PastStep
  <2>4. QED
    BY <2>2, <2>3 DEF Reached
<1>5. ASSUME NextAttr
      PROVE  Reached(name, byAttribute, d)' <=>
               \/ Reached(name, byAttribute, d)
               \/ Here = name /\ byAttribute /\ d = <<type, attr>>
  <2>1. type' = type /\ attr' = attr + 1 /\ UNCHANGED section
    BY <1>5 DEF NextAttr
  <2>2. d[2] < attr' <=> d[2] < attr \/ d[2] = attr
    BY <1>1, <1>2, <2>1
  <2>3. (Past(name)' <=> Past(name)) /\ Here' = Here
    BY <2>1, PastStep
  <2>4. d = <<type, attr>> <=> d[1] = type /\ d[2] = attr
    BY <1>1
  <2>5. QED
    BY <2>1, <2>2, <2>3, <2>4 DEF Reached
<1>6. QED
  BY <1>3, <1>4, <1>5

\* At the start of the first section nothing is reached.
LEMMA NothingReached ==
  ASSUME UNCHANGED options, section' = 1, type' = 1, attr' = 0, NEW name, name # "none",
         NEW byAttribute \in BOOLEAN, NEW d \in Types \X Nat
  PROVE  ~Reached(name, byAttribute, d)'
<1>1. d[1] \in 1 .. NumTypes /\ d[2] \in Nat
  BY DEF Types
<1>2. ~(d[1] < type' \/ (byAttribute /\ d[1] = type' /\ d[2] < attr'))
  BY <1>1
<1>3. ~Past(name)'
  <2>1. Sections' = Sections
    BY DEF Sections
  <2>2. \A i \in DOMAIN Sections : ~(i < section')
    BY SectionsFacts
  <2>3. QED
    BY <2>1, <2>2 DEF Past
<1>4. QED
  BY <1>2, <1>3 DEF Reached

-----------------------------------------------------------------------------
(* The two formats put the same questions.                                 *)

\* A kind of questions is put by the section of a name, as far as it has come.
InProgress(kind, name, byAttribute) ==
  WasAsked(kind) = {d \in Due(kind) : Reached(name, byAttribute, d)}

\* The questions of stream telemetry are part of the JSON statistics section.
Even ==
  Full =>
    /\ InProgress("capability", "capability", TRUE)
    /\ InProgress("statistics", "statistics", FALSE)
    /\ InProgress("availability", "availability", FALSE)
    /\ options.json => InProgress("telemetry", "statistics", FALSE)
    /\ ~options.json => InProgress("telemetry", "telemetry", FALSE)
    /\ InProgress("resource", "resource", FALSE)

LEMMA DueFacts ==
  /\ Admitted \subseteq Types
  /\ \A kind \in Sweeps \cup {"resource"} : Due(kind) \subseteq Types \X Nat
  /\ Due("capability") = {a \in Types \X Nat : a[1] \in Admitted /\ a[2] \in DOMAIN Schema[a[1]]}
<1>1. Admitted \subseteq Types
  BY DEF Admitted, Matching
<1>2. Due("capability") = {a \in Types \X Nat : a[1] \in Admitted /\ a[2] \in DOMAIN Schema[a[1]]}
  BY <1>1, AttrFacts DEF Due
<1>3. \A kind \in Sweeps \cup {"resource"} : Due(kind) \subseteq Types \X Nat
  <2>1. Resources \subseteq Types \X Nat /\ Matching \subseteq Types
    BY AttrFacts DEF Resources, Matching
  <2>2. QED
    BY <1>1, <1>2, <2>1 DEF Due
<1>4. QED
  BY <1>1, <1>2, <1>3

LEMMA DueKept ==
  ASSUME Next, section # 0
  PROVE  /\ UNCHANGED <<options, Full, Admitted>>
         /\ \A kind : Due(kind)' = Due(kind)
<1>1. UNCHANGED <<options, supported>>
  BY StepFacts
<1>2. UNCHANGED <<Full, Admitted, Matching>> /\ \A t : Excluded(t)' = Excluded(t)
  BY <1>1 DEF Full, Admitted, Matching, Matches, Excluded
<1>3. QED
  BY <1>1, <1>2 DEF Due

\* How a kind of questions keeps up with its section.
LEMMA ProgressStep ==
  ASSUME Typed, Next, section # 0, NEW kind \in Sweeps \cup {"resource"}, NEW name, name # "none",
         NEW byAttribute \in BOOLEAN, InProgress(kind, name, byAttribute),
         Here # name => UNCHANGED WasAsked(kind),
         Here = name =>
           \/ NextSection /\ type > NumTypes /\ UNCHANGED WasAsked(kind)
           \/ NextType /\ WasAsked(kind)' = WasAsked(kind) \cup {d \in Due(kind) : d[1] = type}
           \/ NextAttr /\ WasAsked(kind)' =
                WasAsked(kind) \cup {d \in Due(kind) : byAttribute /\ d = <<type, attr>>}
  PROVE  InProgress(kind, name, byAttribute)'
<1>1. Due(kind)' = Due(kind) /\ Due(kind) \subseteq Types \X Nat
  BY DueKept, DueFacts
<1>2. SUFFICES ASSUME NEW d \in Due(kind)
               PROVE  d \in WasAsked(kind)' <=> Reached(name, byAttribute, d)'
  <2>1. WasAsked(kind)' \subseteq WasAsked(kind) \cup Due(kind)
    OBVIOUS
  <2>2. WasAsked(kind) \subseteq Due(kind)
    BY DEF InProgress
  <2>3. WasAsked(kind)' \subseteq Due(kind)'
    BY <1>1, <2>1, <2>2
  <2>4. QED
    BY <1>1, <1>2, <2>3 DEF InProgress
<1>3. d \in WasAsked(kind) <=> Reached(name, byAttribute, d)
  BY DEF InProgress
<1>4. d \in Types \X Nat
  BY <1>1
<1>5. CASE Here # name
  <2>1. Reached(name, byAttribute, d)' <=> Reached(name, byAttribute, d)
    BY <1>4, <1>5, StepFacts, ReachedStep DEF Moves
  <2>2. QED
    BY <1>3, <1>5, <2>1
<1>6. CASE Here = name
  BY <1>3, <1>4, <1>6, ReachedStep
<1>7. QED
  BY <1>5, <1>6

\* The subjects of the questions of a kind.
Put(S, kind) == {q[2] : q \in {p \in S : p[1] = kind}}

LEMMA PutFacts ==
  ASSUME NEW kind
  PROVE  /\ WasAsked(kind) = Put(asked, kind) /\ WasAsked(kind)' = Put(asked', kind)
         /\ \A S, T : Put(S \cup T, kind) = Put(S, kind) \cup Put(T, kind)
         /\ \A d : Put({<<kind, d>>}, kind) = {d}
         /\ \A d, other : other # kind => Put({<<other, d>>}, kind) = {}
         /\ Put({}, kind) = {}
<1>1. /\ WasAsked(kind) = Put(asked, kind) /\ WasAsked(kind)' = Put(asked', kind)
      /\ \A S, T : Put(S \cup T, kind) = Put(S, kind) \cup Put(T, kind)
      /\ Put({}, kind) = {}
  BY DEF WasAsked, Put
<1>2. ASSUME NEW d
      PROVE  Put({<<kind, d>>}, kind) = {d}
  <2>1. {p \in {<<kind, d>>} : p[1] = kind} = {<<kind, d>>}
    OBVIOUS
  <2>2. {q[2] : q \in {<<kind, d>>}} = {d}
    OBVIOUS
  <2>3. QED
    BY <2>1, <2>2 DEF Put
<1>3. ASSUME NEW d, NEW other, other # kind
      PROVE  Put({<<other, d>>}, kind) = {}
  <2>1. {p \in {<<other, d>>} : p[1] = kind} = {}
    BY <1>3
  <2>2. QED
    BY <2>1 DEF Put
<1>4. QED
  BY <1>1, <1>2, <1>3

\* One new question, and one that comes with an enum's.
LEMMA AskedOne ==
  ASSUME NEW kind, NEW d
  PROVE  /\ asked' = asked \cup {<<kind, d>>} => WasAsked(kind)' = WasAsked(kind) \cup {d}
         /\ kind # "enum" /\ asked' = asked \cup {<<kind, d>>, <<"enum", d>>} =>
              WasAsked(kind)' = WasAsked(kind) \cup {d}
<1>1. Put(asked \cup {<<kind, d>>}, kind) = WasAsked(kind) \cup {d}
  <2>1. Put({<<kind, d>>}, kind) = {d}
    BY PutFacts
  <2>2. QED
    BY <2>1, PutFacts
<1>2. kind # "enum" =>
        Put(asked \cup {<<kind, d>>, <<"enum", d>>}, kind) = WasAsked(kind) \cup {d}
  <2> SUFFICES ASSUME kind # "enum"
               PROVE  Put(asked \cup {<<kind, d>>, <<"enum", d>>}, kind) = WasAsked(kind) \cup {d}
    OBVIOUS
  <2>1. asked \cup {<<kind, d>>, <<"enum", d>>} = (asked \cup {<<kind, d>>}) \cup {<<"enum", d>>}
    OBVIOUS
  <2>2. Put({<<"enum", d>>}, kind) = {}
    BY PutFacts
  <2>3. Put((asked \cup {<<kind, d>>}) \cup {<<"enum", d>>}, kind)
          = Put(asked \cup {<<kind, d>>}, kind) \cup Put({<<"enum", d>>}, kind)
    BY PutFacts
  <2>4. QED
    BY <1>1, <2>1, <2>2, <2>3
<1>3. WasAsked(kind)' = Put(asked', kind)
  BY PutFacts
<1>4. QED
  BY <1>1, <1>2, <1>3

\* The JSON statistics section puts two kinds of questions at a time.
LEMMA AskedBoth ==
  ASSUME NEW d, asked' = asked \cup {<<"statistics", d>>} \cup {<<"telemetry", d>>}
  PROVE  /\ WasAsked("statistics")' = WasAsked("statistics") \cup {d}
         /\ WasAsked("telemetry")' = WasAsked("telemetry") \cup {d}
<1>1. /\ Put({<<"statistics", d>>}, "statistics") = {d}
      /\ Put({<<"telemetry", d>>}, "telemetry") = {d}
  BY PutFacts
<1>2. /\ Put({<<"telemetry", d>>}, "statistics") = {}
      /\ Put({<<"statistics", d>>}, "telemetry") = {}
  BY PutFacts
<1> DEFINE S == asked \cup {<<"statistics", d>>}
<1>3. asked' = S \cup {<<"telemetry", d>>}
  OBVIOUS
<1>4. Put(S, "statistics") = WasAsked("statistics") \cup {d}
  <2>1. Put(S, "statistics") = Put(asked, "statistics") \cup Put({<<"statistics", d>>}, "statistics")
    BY PutFacts
  <2>2. QED
    BY <1>1, <2>1, PutFacts
<1>5. Put(S, "telemetry") = WasAsked("telemetry")
  <2>1. Put(S, "telemetry") = Put(asked, "telemetry") \cup Put({<<"statistics", d>>}, "telemetry")
    BY PutFacts
  <2>2. QED
    BY <1>2, <2>1, PutFacts
<1> HIDE DEF S
<1>6. WasAsked("statistics")' = WasAsked("statistics") \cup {d}
  <2>1. Put(S \cup {<<"telemetry", d>>}, "statistics")
          = Put(S, "statistics") \cup Put({<<"telemetry", d>>}, "statistics")
    BY PutFacts
  <2>2. WasAsked("statistics")' = Put(S \cup {<<"telemetry", d>>}, "statistics")
    BY <1>3, PutFacts
  <2>3. QED
    BY <1>2, <1>4, <2>1, <2>2
<1>7. WasAsked("telemetry")' = WasAsked("telemetry") \cup {d}
  <2>1. Put(S \cup {<<"telemetry", d>>}, "telemetry")
          = Put(S, "telemetry") \cup Put({<<"telemetry", d>>}, "telemetry")
    BY PutFacts
  <2>2. WasAsked("telemetry")' = Put(S \cup {<<"telemetry", d>>}, "telemetry")
    BY <1>3, PutFacts
  <2>3. QED
    BY <1>1, <1>5, <2>1, <2>2
<1>8. QED
  BY <1>6, <1>7

\* Every section puts its own kinds of questions.
LEMMA NewKinds ==
  ASSUME Typed, Next
  PROVE  /\ asked \subseteq asked'
         /\ \A q \in asked' \ asked :
              \/ q[1] \in {"capability", "enum"} /\ Here = "capability"
              \/ q[1] = "statistics" /\ Here = "statistics"
              \/ q[1] = "telemetry" /\ (Here = "telemetry" \/ (Here = "statistics" /\ options.json))
              \/ q[1] = "availability" /\ Here = "availability"
              \/ q[1] = "resource" /\ Here = "resource"
<1>1. CASE UNCHANGED asked
  BY <1>1
<1>2. CASE AskFocused
  BY <1>2 DEF AskFocused, Ask
<1>3. CASE AskAttribute
  BY <1>3, AskStep DEF AskAttribute, ScansText
<1>4. CASE WriteEntry
  BY <1>4 DEF WriteEntry, Ask, ScansJson
<1>5. CASE SweepStatistics
  BY <1>5 DEF SweepStatistics
<1>6. CASE SweepTelemetry
  BY <1>6 DEF SweepTelemetry, Ask
<1>7. CASE SweepAvailability
  BY <1>7 DEF SweepAvailability, Ask
<1>8. CASE SweepResources
  BY <1>8 DEF SweepResources
<1>9. QED
  BY <1>1, <1>2, <1>3, <1>4, <1>5, <1>6, <1>7, <1>8
    DEF Next, ReadSupported, ReadAttribute, EndList, EndFocused, PassType, AnnounceType, OpenType,
        EndScan, PassTypeJson, OpenTypeJson, CloseType, EndSweep

LEMMA OtherSections ==
  ASSUME Typed, Next
  PROVE  /\ Here # "capability" => UNCHANGED WasAsked("capability")
         /\ Here # "statistics" => UNCHANGED WasAsked("statistics")
         /\ Here # "availability" => UNCHANGED WasAsked("availability")
         /\ Here # "resource" => UNCHANGED WasAsked("resource")
         /\ ~(Here = "telemetry" \/ (Here = "statistics" /\ options.json)) =>
              UNCHANGED WasAsked("telemetry")
<1>1. asked' = asked \cup (asked' \ asked)
  BY NewKinds
<1>2. \A kind \in Sweeps \cup {"resource"} :
        (\A q \in asked' \ asked : q[1] # kind) => UNCHANGED WasAsked(kind)
  BY <1>1 DEF WasAsked
<1>3. QED
  BY <1>2, NewKinds DEF Sweeps

\* A full scan of capabilities, type by type and attribute by attribute.
LEMMA CapabilityProgress ==
  ASSUME Typed, Scanning, Next, section # 0, Full, InProgress("capability", "capability", TRUE)
  PROVE  InProgress("capability", "capability", TRUE)'
<1>0. /\ type \in 1 .. NumTypes + 1 /\ attr \in Nat /\ NumTypes \in Nat
      /\ "capability" \in Sweeps
  BY ReportAssumption DEF Typed, TypeOK, Sweeps
<1>1. SUFFICES ASSUME Here = "capability"
               PROVE  \/ NextSection /\ type > NumTypes /\ UNCHANGED WasAsked("capability")
                      \/ /\ NextType
                         /\ WasAsked("capability")' =
                              WasAsked("capability") \cup {d \in Due("capability") : d[1] = type}
                      \/ /\ NextAttr
                         /\ WasAsked("capability")' =
                              WasAsked("capability") \cup {d \in Due("capability") : TRUE /\ d = <<type, attr>>}
  BY <1>0, OtherSections, ProgressStep
<1>2. Due("capability") = {a \in Types \X Nat : a[1] \in Admitted /\ a[2] \in DOMAIN Schema[a[1]]}
  BY DueFacts
<1>3. CASE EndScan \/ EndSweep
  BY <1>0, <1>3 DEF EndScan, EndSweep, WasAsked
<1>4. CASE PassType \/ AnnounceType \/ PassTypeJson
  <2>1. type \in Types /\ type \notin Admitted /\ NextType /\ UNCHANGED asked
    BY <1>4 DEF PassType, AnnounceType, PassTypeJson, Admitted, Matching, Scanned
  <2>2. {d \in Due("capability") : d[1] = type} = {}
    BY <1>2, <2>1
  <2>3. QED
    BY <2>1, <2>2 DEF WasAsked
<1>5. CASE OpenType \/ OpenTypeJson
  <2>1. type \in Types /\ attr = 0 /\ NextAttr /\ UNCHANGED asked
    BY <1>5 DEF OpenType, OpenTypeJson, said
  <2>2. {d \in Due("capability") : TRUE /\ d = <<type, attr>>} = {}
    BY <1>2, <2>1, AttrFacts
  <2>3. QED
    BY <2>1, <2>2 DEF WasAsked
<1>6. CASE CloseType
  <2>1. type \in Types /\ attr > Len(Schema[type]) /\ NextType /\ UNCHANGED asked
    BY <1>6 DEF CloseType, said
  <2>2. \A d \in Due("capability") : d[1] = type => d[2] < attr
    BY <1>0, <1>2, <2>1, AttrFacts
  <2>3. {d \in Due("capability") : d[1] = type} \subseteq WasAsked("capability")
    BY <1>1, <2>2 DEF InProgress, Reached
  <2>4. QED
    BY <2>1, <2>3 DEF WasAsked
<1>7. CASE AskAttribute
  <2>1. ScansText /\ type \in Types /\ attr \in DOMAIN Schema[type] /\ NextAttr /\ attr > 0
    BY <1>7, AttrFacts DEF AskAttribute
  <2>2. <<type, attr>> \in Due("capability")
    <3>1. Matches(type) /\ ~Excluded(type)
      BY <2>1 DEF Scanning, Opened
    <3>2. QED
      BY <1>0, <1>2, <2>1, <3>1 DEF Admitted, Matching
  <2>3. WasAsked("capability")' = WasAsked("capability") \cup {<<type, attr>>}
    BY <1>7, AskStep, AskedOne
  <2>4. QED
    BY <2>1, <2>2, <2>3
<1>8. CASE WriteEntry
  <2>1. ScansJson /\ type \in Types /\ attr \in DOMAIN Schema[type] /\ NextAttr /\ attr > 0
    BY <1>8, AttrFacts DEF WriteEntry
  <2>2. Matches(type)
    BY <2>1 DEF Scanning, Opened, Scanned
  <2>3. query_capability(type) <=> ~Excluded(type)
    BY DEF query_capability, asic_supported, Excluded
  <2>4. <<type, attr>> \in Due("capability") <=> query_capability(type)
    BY <1>0, <1>2, <2>1, <2>2, <2>3 DEF Admitted, Matching
  <2>5. CASE query_capability(type)
    <3>1. asked' = asked \cup {<<"capability", <<type, attr>>>>}
      BY <1>8, <2>5 DEF WriteEntry, Ask
    <3>2. WasAsked("capability")' = WasAsked("capability") \cup {<<type, attr>>}
      BY <3>1, AskedOne
    <3>3. QED
      BY <2>1, <2>4, <2>5, <3>2
  <2>6. CASE ~query_capability(type)
    <3>1. UNCHANGED WasAsked("capability")
      BY <1>8, <2>6 DEF WriteEntry, WasAsked
    <3>2. QED
      BY <2>1, <2>4, <2>6, <3>1
  <2>7. QED
    BY <2>5, <2>6
<1>9. QED
  BY <1>1, <1>3, <1>4, <1>5, <1>6, <1>7, <1>8
    DEF Next, ReadSupported, ReadAttribute, EndList, AskFocused, EndFocused, SweepStatistics,
        SweepTelemetry, SweepAvailability, SweepResources, Lists

\* The sweeps that ask one question per type.
LEMMA SweepProgress ==
  ASSUME Typed, Next, section # 0, Full
  PROVE  /\ InProgress("statistics", "statistics", FALSE) =>
              InProgress("statistics", "statistics", FALSE)'
         /\ InProgress("availability", "availability", FALSE) =>
              InProgress("availability", "availability", FALSE)'
         /\ options.json /\ InProgress("telemetry", "statistics", FALSE) =>
              InProgress("telemetry", "statistics", FALSE)'
         /\ ~options.json /\ InProgress("telemetry", "telemetry", FALSE) =>
              InProgress("telemetry", "telemetry", FALSE)'
         /\ InProgress("resource", "resource", FALSE) => InProgress("resource", "resource", FALSE)'
<1>0. /\ type \in 1 .. NumTypes + 1 /\ NumTypes \in Nat
      /\ {"statistics", "availability", "telemetry"} \subseteq Sweeps
  BY ReportAssumption DEF Typed, TypeOK, Sweeps
<1> DEFINE Kept(kind) ==
      \/ NextSection /\ type > NumTypes /\ UNCHANGED WasAsked(kind)
      \/ NextType /\ WasAsked(kind)' = WasAsked(kind) \cup {d \in Due(kind) : d[1] = type}
<1>1. Here \in {"statistics", "telemetry", "availability", "resource"} =>
        \/ NextSection /\ type > NumTypes /\ UNCHANGED asked
        \/ SweepStatistics \/ SweepTelemetry \/ SweepAvailability \/ SweepResources
  BY <1>0 DEF Next, ReadSupported, ReadAttribute, EndList, AskFocused, EndFocused, PassType,
              AnnounceType, OpenType, AskAttribute, EndScan, PassTypeJson, OpenTypeJson, WriteEntry,
              CloseType, EndSweep, ScansText, ScansJson, Lists
<1>2. Here = "statistics" => Kept("statistics") /\ (options.json => Kept("telemetry"))
  <2> SUFFICES ASSUME Here = "statistics"
               PROVE  Kept("statistics") /\ (options.json => Kept("telemetry"))
    OBVIOUS
  <2>1. CASE NextSection /\ type > NumTypes /\ UNCHANGED asked
    BY <2>1 DEF WasAsked
  <2>2. CASE SweepStatistics
    <3>1. NextType /\ type \in Types
      BY <2>2 DEF SweepStatistics
    <3>2. CASE Looks("statistics", type) /\ ~Spared(type)
      <4>1. type \in Admitted \cap StatTypes
        BY <3>1, <3>2 DEF Looks, Spared, Admitted, Matching
      <4>2. /\ {d \in Due("statistics") : d[1] = type} = {<<type, 0>>}
            /\ {d \in Due("telemetry") : d[1] = type} = {<<type, 0>>}
        BY <4>1 DEF Due
      <4>3. asked' = asked \cup {<<"statistics", <<type, 0>>>>}
                       \cup (IF options.json THEN {<<"telemetry", <<type, 0>>>>} ELSE {})
        BY <2>2, <3>2 DEF SweepStatistics
      <4>4. /\ WasAsked("statistics")' = WasAsked("statistics") \cup {<<type, 0>>}
            /\ options.json => WasAsked("telemetry")' = WasAsked("telemetry") \cup {<<type, 0>>}
        <5>1. CASE options.json
          BY <4>3, <5>1, AskedBoth
        <5>2. CASE ~options.json
          <6>1. asked' = asked \cup {<<"statistics", <<type, 0>>>>}
            BY <4>3, <5>2
          <6>2. QED
            BY <5>2, <6>1, AskedOne
        <5>3. QED
          BY <5>1, <5>2
      <4>5. QED
        BY <3>1, <4>2, <4>4
    <3>3. CASE ~(Looks("statistics", type) /\ ~Spared(type))
      <4>1. type \notin Admitted \cap StatTypes
        BY <3>1, <3>3 DEF Looks, Spared, Admitted, Matching
      <4>2. /\ {d \in Due("statistics") : d[1] = type} = {}
            /\ {d \in Due("telemetry") : d[1] = type} = {}
        BY <4>1 DEF Due
      <4>3. UNCHANGED asked
        BY <2>2, <3>3 DEF SweepStatistics
      <4>4. QED
        BY <3>1, <4>2, <4>3 DEF WasAsked
    <3>4. QED
      BY <3>2, <3>3
  <2>3. QED
    BY <1>1, <2>1, <2>2 DEF SweepTelemetry, SweepAvailability, SweepResources
<1>3. Here = "telemetry" => Kept("telemetry")
  <2> SUFFICES ASSUME Here = "telemetry"
               PROVE  Kept("telemetry")
    OBVIOUS
  <2>1. CASE NextSection /\ type > NumTypes /\ UNCHANGED asked
    BY <2>1 DEF WasAsked
  <2>2. CASE SweepTelemetry
    <3>1. NextType /\ type \in Types
      BY <2>2 DEF SweepTelemetry
    <3>2. CASE Looks("telemetry", type) /\ ~Spared(type)
      <4>1. type \in Admitted \cap StatTypes
        BY <3>1, <3>2 DEF Looks, Spared, Admitted, Matching
      <4>2. {d \in Due("telemetry") : d[1] = type} = {<<type, 0>>}
        BY <4>1 DEF Due
      <4>3. asked' = asked \cup {<<"telemetry", <<type, 0>>>>}
        BY <2>2, <3>2 DEF SweepTelemetry, Ask
      <4>4. QED
        BY <3>1, <4>2, <4>3, AskedOne
    <3>3. CASE ~(Looks("telemetry", type) /\ ~Spared(type))
      <4>1. type \notin Admitted \cap StatTypes
        BY <3>1, <3>3 DEF Looks, Spared, Admitted, Matching
      <4>2. {d \in Due("telemetry") : d[1] = type} = {}
        BY <4>1 DEF Due
      <4>3. QED
        BY <2>2, <3>1, <3>3, <4>2 DEF SweepTelemetry, WasAsked
    <3>4. QED
      BY <3>2, <3>3
  <2>3. QED
    BY <1>1, <2>1, <2>2 DEF SweepStatistics, SweepAvailability, SweepResources
<1>4. Here = "availability" => Kept("availability")
  <2> SUFFICES ASSUME Here = "availability"
               PROVE  Kept("availability")
    OBVIOUS
  <2>1. CASE NextSection /\ type > NumTypes /\ UNCHANGED asked
    BY <2>1 DEF WasAsked
  <2>2. CASE SweepAvailability
    <3>1. NextType /\ type \in Types
      BY <2>2 DEF SweepAvailability
    <3> DEFINE Offered == IF options.include /\ ~options.json THEN Matching ELSE Admitted
               goes == /\ Looks("availability", type)
                       /\ Spared(type) => options.include /\ ~options.json
    <3>5. Due("availability") = Offered \X {0}
      BY DEF Due
    <3>6. goes <=> type \in Offered
      BY <3>1 DEF Looks, Spared, Admitted, Matching
    <3>7. goes => asked' = asked \cup {<<"availability", <<type, 0>>>>}
      BY <2>2 DEF SweepAvailability, Ask
    <3>8. ~goes => UNCHANGED asked
      BY <2>2 DEF SweepAvailability
    <3> HIDE DEF goes, Offered
    <3>2. CASE goes
      <4>1. {d \in Due("availability") : d[1] = type} = {<<type, 0>>}
        BY <3>2, <3>5, <3>6
      <4>2. QED
        BY <3>1, <3>2, <3>7, <4>1, AskedOne
    <3>3. CASE ~goes
      <4>1. {d \in Due("availability") : d[1] = type} = {}
        BY <3>3, <3>5, <3>6
      <4>2. QED
        BY <3>1, <3>3, <3>8, <4>1 DEF WasAsked
    <3>4. QED
      BY <3>2, <3>3
  <2>3. QED
    BY <1>1, <2>1, <2>2 DEF SweepStatistics, SweepTelemetry, SweepResources
<1>5. ~options.json /\ Here # "telemetry" => UNCHANGED WasAsked("telemetry")
  BY OtherSections
<1>6. options.json /\ Here # "statistics" => UNCHANGED WasAsked("telemetry")
  <2>1. options.json => Here # "telemetry"
    <3>1. options.json => Sections = <<"readable", "capability", "statistics", "availability">>
      BY DEF Sections
    <3>2. options.json => \A i \in DOMAIN Sections : Sections[i] # "telemetry"
      BY <3>1
    <3>3. QED
      BY <3>2, HereFacts
  <2>2. QED
    BY <2>1, OtherSections
<1>7. Here = "resource" => Kept("resource")
  <2> SUFFICES ASSUME Here = "resource"
               PROVE  Kept("resource")
    OBVIOUS
  <2>1. CASE NextSection /\ type > NumTypes /\ UNCHANGED asked
    BY <2>1 DEF WasAsked
  <2>2. CASE SweepResources
    <3> DEFINE D == {<<"resource", a>> : a \in {b \in Resources : b[1] = type /\ ~Excluded(type)}}
               E == {b \in Resources : b[1] = type /\ ~Excluded(type)}
    <3>1. NextType /\ asked' = asked \cup D
      BY <2>2 DEF SweepResources
    <3>2. ~options.json
      <4>1. options.json => Sections = <<"readable", "capability", "statistics", "availability">>
        BY DEF Sections
      <4>2. options.json => \A i \in DOMAIN Sections : Sections[i] # "resource"
        BY <4>1
      <4>3. QED
        BY <4>2, HereFacts
    <3>3. {d \in Due("resource") : d[1] = type} = E
      BY <3>2 DEF Due
    <3>4. WasAsked("resource")' = WasAsked("resource") \cup E
      <4>1. Put(D, "resource") = E
        <5>1. \A q \in D : q[1] = "resource" /\ q[2] \in E
          OBVIOUS
        <5>2. \A a \in E : <<"resource", a>> \in D
          OBVIOUS
        <5> HIDE DEF D, E
        <5>3. ASSUME NEW a \in E
              PROVE  a \in Put(D, "resource")
          <6>1. \E q \in D : q[1] = "resource" /\ q[2] = a
            BY <5>2
          <6>2. QED
            BY <6>1 DEF Put
        <5>4. \A a \in Put(D, "resource") : a \in E
          BY <5>1 DEF Put
        <5>5. QED
          BY <5>3, <5>4
      <4>2. Put(asked \cup D, "resource") = Put(asked, "resource") \cup Put(D, "resource")
        BY PutFacts
      <4>3. WasAsked("resource")' = Put(asked', "resource") /\ WasAsked("resource") = Put(asked, "resource")
        BY PutFacts
      <4> HIDE DEF D, E
      <4>4. QED
        BY <3>1, <4>1, <4>2, <4>3
    <3> HIDE DEF D, E
    <3>5. QED
      BY <3>1, <3>3, <3>4
  <2>3. QED
    BY <1>1, <2>1, <2>2 DEF SweepStatistics, SweepTelemetry, SweepAvailability
<1>8. QED
  BY <1>0, <1>2, <1>3, <1>4, <1>5, <1>6, <1>7, OtherSections, ProgressStep

LEMMA StutterFacts ==
  ASSUME UNCHANGED vars
  PROVE  /\ UNCHANGED <<options, supported, section, type, attr, matched, queried, summary>>
         /\ UNCHANGED <<asked, answered, listed, verdicts, message, entries>>
         /\ UNCHANGED <<Sections, Here, Full, Admitted, Matching>>
         /\ \A name : (Past(name)' <=> Past(name))
         /\ \A kind : WasAsked(kind)' = WasAsked(kind) /\ Due(kind)' = Due(kind)
         /\ \A name, byAttribute, d : (Reached(name, byAttribute, d)' <=> Reached(name, byAttribute, d))
<1>1. /\ UNCHANGED <<options, supported, section, type, attr, matched, queried, summary>>
      /\ UNCHANGED <<asked, answered, listed, verdicts, message, entries>>
  BY DEF vars, position, counts, said
<1>2. UNCHANGED Sections
  BY <1>1 DEF Sections
<1>3. UNCHANGED <<Here, Full>> /\ \A name : (Past(name)' <=> Past(name))
  BY <1>1, <1>2 DEF Here, Full, Past
<1>4. UNCHANGED <<Admitted, Matching>> /\ \A t : Excluded(t)' = Excluded(t)
  BY <1>1 DEF Admitted, Matching, Matches, Excluded
<1>5. \A kind : WasAsked(kind)' = WasAsked(kind) /\ Due(kind)' = Due(kind)
  BY <1>1, <1>4 DEF WasAsked, Due
<1>6. \A name, byAttribute, d : (Reached(name, byAttribute, d)' <=> Reached(name, byAttribute, d))
  BY <1>1, <1>3 DEF Reached
<1>7. QED
  BY <1>1, <1>2, <1>3, <1>4, <1>5, <1>6

LEMMA EvenInductive == Typed /\ Scanning /\ Even /\ [Next]_vars => Even'
<1> SUFFICES ASSUME Typed, Scanning, Even, [Next]_vars
             PROVE  Even'
  OBVIOUS
<1>1. CASE UNCHANGED vars
  <2>1. \A kind, name, byAttribute :
          InProgress(kind, name, byAttribute)' <=> InProgress(kind, name, byAttribute)
    BY <1>1, StutterFacts DEF InProgress
  <2>2. UNCHANGED <<options, Full>>
    BY <1>1, StutterFacts
  <2>3. QED
    BY <2>1, <2>2 DEF Even
<1>2. CASE Next /\ section = 0
  <2>1. section' = 1 /\ type' = 1 /\ attr' = 0 /\ asked' = {} /\ UNCHANGED options
    BY <1>2, StepFacts DEF ReadSupported, NextSection, Scanning, Untouched
  <2>2. \A kind \in Sweeps \cup {"resource"} : Due(kind)' \subseteq Types \X Nat
    <3>1. Resources \subseteq Types \X Nat /\ Admitted' \subseteq Types /\ Matching' \subseteq Types
      BY AttrFacts DEF Resources, Admitted, Matching
    <3>2. AttrsOf(Admitted)' \subseteq Types \X Nat
      BY <3>1, AttrFacts
    <3>3. QED
      BY <3>1, <3>2 DEF Due
  <2>3. \A kind : WasAsked(kind)' = {}
    BY <2>1 DEF WasAsked
  <2>4. \A d \in Types \X Nat :
          /\ ~Reached("capability", TRUE, d)'
          /\ ~Reached("statistics", FALSE, d)'
          /\ ~Reached("availability", FALSE, d)'
          /\ ~Reached("telemetry", FALSE, d)'
          /\ ~Reached("resource", FALSE, d)'
    BY <2>1, NothingReached
  <2>5. /\ InProgress("capability", "capability", TRUE)'
        /\ InProgress("statistics", "statistics", FALSE)'
        /\ InProgress("availability", "availability", FALSE)'
        /\ InProgress("telemetry", "statistics", FALSE)'
        /\ InProgress("telemetry", "telemetry", FALSE)'
        /\ InProgress("resource", "resource", FALSE)'
    BY <2>2, <2>3, <2>4 DEF InProgress, Sweeps
  <2>6. QED
    BY <2>5 DEF Even
<1>3. CASE Next /\ section # 0
  <2>1. UNCHANGED <<options, Full>>
    BY <1>3, DueKept
  <2>2. QED
    BY <1>3, <2>1, CapabilityProgress, SweepProgress DEF Even
<1>4. QED
  BY <1>1, <1>2, <1>3

LEMMA DoneIsPast ==
  ASSUME Typed, Done
  PROVE  /\ Past("capability") /\ Past("statistics") /\ Past("availability")
         /\ ~options.json => Past("telemetry") /\ Past("resource")
<1>1. \A i \in DOMAIN Sections : i < section
  BY SectionsFacts DEF Typed, TypeOK, Done
<1>2. QED
  BY <1>1, SectionsFacts DEF Past

LEMMA EvenInvariant == Spec => [](Typed /\ Scanning /\ Even)
<1>1. Init => Even
  <2> SUFFICES ASSUME Init PROVE Even
    OBVIOUS
  <2>1. section = 0 /\ asked = {}
    BY DEF Init
  <2>2. \A kind : WasAsked(kind) = {}
    BY <2>1 DEF WasAsked
  <2>3. \A name : ~Past(name)
    BY <2>1, SectionsFacts DEF Past
  <2>4. Here = "none"
    BY <2>1, SectionsFacts DEF Here
  <2>5. QED
    BY <2>2, <2>3, <2>4 DEF Even, InProgress, Reached
<1>2. QED
  BY <1>1, InitTyped, TypedInductive, ScanningInductive, ScanningInvariant, EvenInductive,
     PTL DEF Spec

\* Enum values are asked of attributes only that were asked about themselves, and
\* only by the text.
EnumsAsked ==
  /\ WasAsked("enum") \subseteq Enums \cap WasAsked("capability")
  /\ options.json => WasAsked("enum") = {}

LEMMA EnumsAskedStep == Typed /\ EnumsAsked /\ [Next]_vars => EnumsAsked'
<1> SUFFICES ASSUME Typed, EnumsAsked, [Next]_vars
             PROVE  EnumsAsked'
  OBVIOUS
<1>1. CASE UNCHANGED vars
  BY <1>1, StutterFacts DEF EnumsAsked
<1>2. CASE Next
  <2>1. UNCHANGED options /\ asked \subseteq asked'
    BY <1>2, StepFacts, NewKinds
  <2>2. WasAsked("capability") \subseteq WasAsked("capability")'
    BY <2>1 DEF WasAsked
  <2>3. \A q \in asked' \ asked : q[1] = "enum" =>
          ~options.json /\ q[2] \in Enums /\ <<"capability", q[2]>> \in asked'
    <3>1. CASE UNCHANGED asked
      BY <3>1
    <3>2. CASE AskFocused
      BY <3>2 DEF AskFocused, Ask
    <3>3. CASE AskAttribute
      <4>1. ~options.json
        BY <3>3 DEF AskAttribute, ScansText
      <4>2. PICK status \in Statuses \cup {FAILURE}, usable \in BOOLEAN :
              asked' = asked \cup {<<"capability", <<type, attr>>>>}
                         \cup (IF <<type, attr>> \in Enums /\ status = SUCCESS /\ usable
                               THEN {<<"enum", <<type, attr>>>>} ELSE {})
        BY <3>3 DEF AskAttribute
      <4>3. QED
        BY <4>1, <4>2
    <3>4. CASE WriteEntry \/ SweepStatistics \/ SweepTelemetry \/ SweepAvailability \/ SweepResources
      BY <3>4 DEF WriteEntry, SweepStatistics, SweepTelemetry, SweepAvailability, SweepResources, Ask
    <3>5. QED
      BY <1>2, <3>1, <3>2, <3>3, <3>4
        DEF Next, ReadSupported, ReadAttribute, EndList, EndFocused, PassType, AnnounceType,
            OpenType, EndScan, PassTypeJson, OpenTypeJson, CloseType, EndSweep
  <2>4. ASSUME NEW a \in WasAsked("enum")'
        PROVE  ~options.json /\ a \in Enums /\ a \in WasAsked("capability")'
    <3>1. PICK q \in asked' : q[1] = "enum" /\ q[2] = a
      BY DEF WasAsked
    <3>2. CASE q \in asked
      <4>1. a \in WasAsked("enum")
        BY <3>1, <3>2 DEF WasAsked
      <4>2. QED
        BY <2>2, <4>1 DEF EnumsAsked
    <3>3. CASE q \notin asked
      <4>1. ~options.json /\ a \in Enums /\ <<"capability", a>> \in asked'
        BY <2>3, <3>1, <3>3
      <4>2. a \in WasAsked("capability")'
        BY <4>1 DEF WasAsked
      <4>3. QED
        BY <4>1, <4>2
    <3>4. QED
      BY <3>2, <3>3
  <2>5. QED
    BY <2>1, <2>4 DEF EnumsAsked
<1>3. QED
  BY <1>1, <1>2

\* The questions of a full scan are those that are due, all of them and no others,
\* for every metadata: the same as text and as JSON in the four sweeps, enum
\* values and resource types as text only.
THEOREM ReportQuestionsByFormat == Spec => []QuestionsByFormat
<1>1. Typed /\ Even /\ EnumsAsked => QuestionsByFormat
  <2> SUFFICES ASSUME Typed, Even, EnumsAsked, Done, Full
               PROVE  /\ \A kind \in Sweeps \cup {"resource"} : WasAsked(kind) = Due(kind)
                      /\ WasAsked("enum") \subseteq Enums \cap AttrsOf(Admitted)
                      /\ options.json => WasAsked("enum") = {} /\ WasAsked("resource") = {}
    BY DEF QuestionsByFormat
  <2>1. /\ WasAsked("capability") = Due("capability")
        /\ WasAsked("statistics") = Due("statistics")
        /\ WasAsked("availability") = Due("availability")
    BY DoneIsPast DEF Even, InProgress, Reached
  <2>2. WasAsked("telemetry") = Due("telemetry")
    <3>1. CASE options.json
      BY <3>1, DoneIsPast DEF Even, InProgress, Reached
    <3>2. CASE ~options.json
      BY <3>2, DoneIsPast DEF Even, InProgress, Reached
    <3>3. QED
      BY <3>1, <3>2
  <2>3. WasAsked("resource") = Due("resource") /\ (options.json => WasAsked("resource") = {})
    <3>1. WasAsked("resource") = {d \in Due("resource") : Reached("resource", FALSE, d)}
      BY DEF Even, InProgress
    <3>2. CASE options.json
      BY <3>1, <3>2 DEF Due
    <3>3. CASE ~options.json
      BY <3>1, <3>3, DoneIsPast DEF Reached
    <3>4. QED
      BY <3>2, <3>3
  <2>4. Due("capability") = AttrsOf(Admitted)
    BY DEF Due
  <2>5. QED
    BY <2>1, <2>2, <2>3, <2>4 DEF Sweeps, EnumsAsked
<1>2. Init => EnumsAsked
  BY DEF Init, EnumsAsked, WasAsked
<1>3. QED
  BY <1>1, <1>2, InitTyped, TypedInductive, EnumsAskedStep, EvenInvariant, PTL DEF Spec

-----------------------------------------------------------------------------
(* Nothing is passed over.                                                 *)

\* The text says of the types left behind which of them are excluded, knows
\* whether it opened one, and says so at the end.
TextSaid ==
  Full /\ ~options.json =>
    \A t \in Types : Matches(t) =>
      (<<"capability", t>> \in verdicts <=> Excluded(t) /\ Reached("capability", FALSE, <<t, 0>>))

MatchedSaid ==
  ScansText => (matched > 0 <=> \E t \in Admitted : t < type \/ (t = type /\ attr > 0))

MessageSaid ==
  Past("capability") /\ Full /\ ~options.json => (message = "none" <=> Admitted # {})

\* JSON has an entry for every attribute left behind, and the entries know which
\* of them the adapter was asked about.
JsonSaid ==
  Full /\ options.json =>
    {e.of : e \in entries} =
      {a \in AttrsOf(Matching) : Reached("capability", TRUE, a)}

EntriesSaid ==
  options.json =>
    /\ \A e \in entries :
         /\ e.queried <=> query_capability(e.of[1])
         /\ e.verdict = (IF query_capability(e.of[1]) THEN "none" ELSE verdict(e.of[1]))
         /\ e.asic_supported <=> asic_supported(e.of[1])
    /\ \A a : a \in WasAsked("capability") <=> \E e \in entries : e.queried /\ e.of = a

\* What is said of the list is what is known of it.
ListedSaid == section # 0 => listed = supported

Told == TextSaid /\ MatchedSaid /\ MessageSaid /\ JsonSaid /\ EntriesSaid /\ ListedSaid

LEMMA ListedSaidStep ==
  ASSUME Next, section # 0, ListedSaid
  PROVE  ListedSaid'
  BY StepFacts, ListedStep DEF ListedSaid

\* The step of a text scan of capabilities.
LEMMA TextScanSteps ==
  ASSUME Typed, Next, ScansText
  PROVE  \/ PassType \/ AnnounceType \/ OpenType \/ AskAttribute \/ EndScan
         \/ CloseType /\ attr > 0
<1>1. Here = "capability" /\ ~options.json /\ Full /\ attr \in Nat
  BY DEF ScansText, Typed, TypeOK
<1>2. section # 0
  BY <1>1, SectionsFacts DEF Here
<1>3. CloseType => attr > 0
  BY <1>1, AttrFacts DEF CloseType
<1>4. QED
  BY <1>1, <1>2, <1>3
    DEF Next, ReadSupported, ReadAttribute, EndList, AskFocused, EndFocused, PassTypeJson,
        OpenTypeJson, WriteEntry, SweepStatistics, SweepTelemetry, SweepAvailability,
        SweepResources, EndSweep, ScansJson, Lists

LEMMA TextSaidStep ==
  ASSUME Typed, Scanning, Next, section # 0, TextSaid
  PROVE  TextSaid'
<1>1. UNCHANGED <<options, Full>> /\ \A t : (Matches(t)' <=> Matches(t)) /\ (Excluded(t)' <=> Excluded(t))
  <2>1. UNCHANGED <<options, supported>>
    BY StepFacts
  <2>2. QED
    BY <2>1 DEF Full, Matches, Excluded
<1> SUFFICES ASSUME Full, ~options.json, NEW t \in Types, Matches(t)
             PROVE  <<"capability", t>> \in verdicts' <=>
                      Excluded(t) /\ Reached("capability", FALSE, <<t, 0>>)'
  BY <1>1 DEF TextSaid
<1> DEFINE reached == Reached("capability", FALSE, <<t, 0>>)
<1>2. <<"capability", t>> \in verdicts <=> Excluded(t) /\ reached
  BY DEF TextSaid
<1>3. /\ NextSection /\ (Here = "capability" => type > NumTypes) => (reached' <=> reached)
      /\ NextType => (reached' <=> reached \/ (Here = "capability" /\ t = type))
      /\ NextAttr => (reached' <=> reached)
  <2>1. <<t, 0>> \in Types \X Nat /\ <<t, 0>>[1] = t
    OBVIOUS
  <2>2. QED
    BY <2>1, ReachedStep
<1> HIDE DEF reached
<1>4. CASE Here # "capability"
  <2>1. reached' <=> reached
    BY <1>3, <1>4, StepFacts DEF Moves
  <2>2. <<"capability", t>> \in verdicts' <=> <<"capability", t>> \in verdicts
    <3>1. UNCHANGED verdicts \/ verdicts' = verdicts \cup {<<"statistics", type>>}
      BY <1>4 DEF Next, ReadSupported, ReadAttribute, EndList, AskFocused, EndFocused, PassType,
         AnnounceType, OpenType, AskAttribute, EndScan, PassTypeJson, OpenTypeJson, WriteEntry,
         CloseType, SweepStatistics, SweepTelemetry, SweepAvailability, SweepResources, EndSweep,
         ScansText, ScansJson, said
    <3>2. QED
      BY <3>1
  <2>3. QED
    BY <1>2, <2>1, <2>2 DEF reached
<1>5. CASE Here = "capability"
  <2>1. ScansText
    BY <1>5 DEF ScansText
  <2>2. CASE AnnounceType
    <3>1. NextType /\ Excluded(type) /\ verdicts' = verdicts \cup {<<"capability", type>>}
      BY <2>2 DEF AnnounceType
    <3>2. <<"capability", t>> \in verdicts' <=> <<"capability", t>> \in verdicts \/ t = type
      BY <3>1
    <3>3. QED
      BY <1>2, <1>3, <1>5, <3>1, <3>2 DEF reached
  <2>3. CASE PassType
    <3>1. NextType /\ t # type /\ UNCHANGED verdicts
      BY <2>3 DEF PassType, said
    <3>2. QED
      BY <1>2, <1>3, <3>1 DEF reached
  <2>4. CASE CloseType /\ attr > 0
    <3>1. NextType /\ ~Excluded(type) /\ UNCHANGED verdicts
      BY <2>1, <2>4 DEF CloseType, Scanning, Opened, said
    <3>2. QED
      BY <1>2, <1>3, <3>1 DEF reached
  <2>5. CASE OpenType \/ AskAttribute
    <3>1. NextAttr /\ UNCHANGED verdicts
      BY <2>5 DEF OpenType, AskAttribute, said
    <3>2. QED
      BY <1>2, <1>3, <3>1 DEF reached
  <2>6. CASE EndScan
    <3>1. NextSection /\ type > NumTypes /\ UNCHANGED verdicts
      BY <2>6 DEF EndScan
    <3>2. QED
      BY <1>2, <1>3, <3>1 DEF reached
  <2>7. QED
    BY <2>1, <2>2, <2>3, <2>4, <2>5, <2>6, TextScanSteps
<1>6. QED
  BY <1>4, <1>5

LEMMA MatchedSaidStep ==
  ASSUME Typed, Next, MatchedSaid
  PROVE  MatchedSaid'
<1>0. /\ type \in 1 .. NumTypes + 1 /\ attr \in Nat /\ matched \in Nat /\ NumTypes \in Nat
      /\ Admitted \subseteq 1 .. NumTypes /\ Admitted' \subseteq 1 .. NumTypes
  BY ReportAssumption DEF Typed, TypeOK, Admitted, Matching, Types
<1>1. CASE NextSection
  <2>1. matched' = 0 /\ type' = 1 /\ attr' = 0
    BY <1>1 DEF NextSection
  <2>2. QED
    BY <1>0, <2>1 DEF MatchedSaid
<1>2. CASE UNCHANGED section
  <2>1. UNCHANGED <<ScansText, Admitted>> /\ section # 0
    BY <1>2, HereKept, DueKept
  <2>2. SUFFICES ASSUME ScansText
                 PROVE  matched' > 0 <=> \E t \in Admitted : t < type' \/ (t = type' /\ attr' > 0)
    BY <2>1 DEF MatchedSaid
  <2>3. matched > 0 <=> \E t \in Admitted : t < type \/ (t = type /\ attr > 0)
    BY <2>2 DEF MatchedSaid
  <2>4. CASE PassType \/ AnnounceType
    <3>1. matched' = matched /\ type' = type + 1 /\ attr' = 0 /\ attr = 0 /\ type \notin Admitted
      BY <2>4 DEF PassType, AnnounceType, NextType, Admitted, Matching, counts
    <3>2. \A t \in Admitted : t < type + 1 <=> t < type
      BY <1>0, <3>1
    <3>3. QED
      BY <1>0, <2>3, <3>1, <3>2
  <2>5. CASE OpenType
    <3>1. matched' = matched + 1 /\ type' = type /\ attr' = attr + 1 /\ type \in Admitted
      BY <2>5 DEF OpenType, NextAttr, Admitted, Matching
    <3>2. QED
      BY <1>0, <3>1
  <2>6. CASE AskAttribute
    <3>1. matched' = matched /\ type' = type /\ attr' = attr + 1 /\ attr > 0
      BY <2>6, AttrFacts DEF AskAttribute, NextAttr
    <3>2. QED
      BY <1>0, <2>3, <3>1
  <2>7. CASE CloseType /\ attr > 0
    <3>1. matched' = matched /\ type' = type + 1 /\ attr' = 0
      BY <2>7 DEF CloseType, NextType, counts
    <3>2. \A t \in Admitted : t < type + 1 <=> t < type \/ t = type
      BY <1>0
    <3>3. QED
      BY <1>0, <2>3, <2>7, <3>1, <3>2
  <2>8. ~EndScan
    <3>1. section \in Nat
      BY SectionsFacts DEF Typed, TypeOK
    <3>2. QED
      BY <1>2, <3>1 DEF EndScan, NextSection
  <2>9. QED
    BY <2>2, <2>4, <2>5, <2>6, <2>7, <2>8, TextScanSteps
<1>3. QED
  BY <1>1, <1>2, StepFacts DEF Moves, NextType, NextAttr

LEMMA MessageSaidStep ==
  ASSUME Typed, Next, section # 0, MatchedSaid, MessageSaid
  PROVE  MessageSaid'
<1>1. UNCHANGED <<options, Full, Admitted>>
  BY DueKept
<1>2. SUFFICES ASSUME Past("capability")', Full, ~options.json
               PROVE  message' = "none" <=> Admitted # {}
  BY <1>1 DEF MessageSaid
<1>3. CASE Past("capability")
  <2>1. Here # "capability"
    BY <1>3, PastStep
  <2>2. UNCHANGED message
    BY <2>1 DEF Next, ReadSupported, ReadAttribute, EndList, AskFocused, EndFocused, PassType,
         AnnounceType, OpenType, AskAttribute, EndScan, PassTypeJson, OpenTypeJson, WriteEntry,
         CloseType, SweepStatistics, SweepTelemetry, SweepAvailability, SweepResources, EndSweep,
         ScansText, ScansJson, said
  <2>3. QED
    BY <1>2, <1>3, <2>2 DEF MessageSaid
<1>4. CASE ~Past("capability")
  <2>1. NextSection /\ Here = "capability"
    BY <1>2, <1>4, PastStep, StepFacts DEF Moves, NextType, NextAttr
  <2>2. ScansText /\ section \in Nat /\ type \in Nat /\ NumTypes \in Nat
    BY <1>2, <2>1, SectionsFacts, ReportAssumption DEF ScansText, Typed, TypeOK
  <2>3. EndScan
    <3>1. section' = section + 1
      BY <2>1 DEF NextSection
    <3>2. ~UNCHANGED section
      BY <2>2, <3>1
    <3>3. QED
      BY <2>2, <3>2, TextScanSteps
        DEF PassType, AnnounceType, OpenType, AskAttribute, CloseType, NextType, NextAttr
  <2>4. type > NumTypes /\ (message' = "none" <=> matched > 0)
    BY <2>3 DEF EndScan
  <2>5. (\E t \in Admitted : t < type \/ (t = type /\ attr > 0)) <=> Admitted # {}
    <3>1. \A t \in Admitted : t < type
      BY <2>2, <2>4 DEF Admitted, Matching, Types
    <3>2. QED
      BY <3>1
  <2>6. QED
    BY <2>2, <2>4, <2>5 DEF MatchedSaid
<1>5. QED
  BY <1>3, <1>4

\* The step of a JSON scan of capabilities.
LEMMA JsonScanSteps ==
  ASSUME Typed, Next, ScansJson
  PROVE  \/ PassTypeJson \/ OpenTypeJson \/ WriteEntry
         \/ CloseType
         \/ EndSweep
<1>1. Here = "capability" /\ options.json
  BY DEF ScansJson
<1>2. section # 0
  BY <1>1, SectionsFacts DEF Here
<1>3. QED
  BY <1>1, <1>2
    DEF Next, ReadSupported, ReadAttribute, EndList, AskFocused, EndFocused, PassType, AnnounceType,
        OpenType, AskAttribute, EndScan, SweepStatistics, SweepTelemetry, SweepAvailability,
        SweepResources, ScansText, Lists

LEMMA EntriesKept ==
  ASSUME Next, Here # "capability" \/ ~options.json
  PROVE  UNCHANGED entries
  BY DEF Next, ReadSupported, ReadAttribute, EndList, AskFocused, EndFocused, PassType,
         AnnounceType, OpenType, AskAttribute, EndScan, PassTypeJson, OpenTypeJson, WriteEntry,
         CloseType, SweepStatistics, SweepTelemetry, SweepAvailability, SweepResources, EndSweep,
         ScansText, ScansJson, said

LEMMA EntriesSaidStep ==
  ASSUME Typed, Next, section # 0, EntriesSaid
  PROVE  EntriesSaid'
<1>1. UNCHANGED options /\ \A t : /\ query_capability(t)' <=> query_capability(t)
                                  /\ verdict(t)' = verdict(t)
                                  /\ asic_supported(t)' <=> asic_supported(t)
  BY StepFacts DEF query_capability, asic_supported, verdict
<1>2. SUFFICES ASSUME options.json
               PROVE  /\ \A e \in entries' :
                           /\ e.queried <=> query_capability(e.of[1])
                           /\ e.verdict = (IF query_capability(e.of[1]) THEN "none"
                                                                       ELSE verdict(e.of[1]))
                           /\ e.asic_supported <=> asic_supported(e.of[1])
                      /\ \A a : a \in WasAsked("capability")'
                                  <=> \E e \in entries' : e.queried /\ e.of = a
  BY <1>1 DEF EntriesSaid
<1>3. CASE WriteEntry
  <2> DEFINE e0 == NewEntry
  <2>1. entries' = entries \cup {e0}
    BY <1>3 DEF WriteEntry, NewEntry
  <2>2. /\ e0.of = <<type, attr>> /\ e0.of[1] = type /\ (e0.queried <=> query_capability(type))
        /\ e0.verdict = (IF query_capability(type) THEN "none" ELSE verdict(type))
        /\ e0.asic_supported <=> asic_supported(type)
    BY DEF NewEntry
  <2>3. \A a : a \in WasAsked("capability")'
                 <=> a \in WasAsked("capability") \/ (query_capability(type) /\ a = <<type, attr>>)
    <3>1. CASE query_capability(type)
      <4>1. asked' = asked \cup {<<"capability", <<type, attr>>>>}
        BY <1>3, <3>1 DEF WriteEntry, Ask
      <4>2. WasAsked("capability")' = WasAsked("capability") \cup {<<type, attr>>}
        BY <4>1, AskedOne
      <4>3. QED
        BY <3>1, <4>2
    <3>2. CASE ~query_capability(type)
      BY <1>3, <3>2 DEF WriteEntry, WasAsked
    <3>3. QED
      BY <3>1, <3>2
  <2> HIDE DEF e0
  <2>4. QED
    BY <1>2, <2>1, <2>2, <2>3 DEF EntriesSaid
<1>4. CASE ~WriteEntry
  <2>1. UNCHANGED entries /\ UNCHANGED WasAsked("capability")
    <3>1. CASE Here = "capability"
      <4>1. ScansJson
        BY <1>2, <3>1 DEF ScansJson
      <4>2. QED
        BY <1>4, <4>1, JsonScanSteps
          DEF PassTypeJson, OpenTypeJson, CloseType, EndSweep, WasAsked, said
    <3>2. CASE Here # "capability"
      BY <3>2, EntriesKept, OtherSections
    <3>3. QED
      BY <3>1, <3>2
  <2>2. QED
    BY <1>2, <2>1 DEF EntriesSaid
<1>5. QED
  BY <1>3, <1>4

LEMMA JsonSaidStep ==
  ASSUME Typed, Scanning, Next, section # 0, JsonSaid
  PROVE  JsonSaid'
<1> DEFINE D == AttrsOf(Matching)
           Of0 == {e.of : e \in entries}
<1>1. UNCHANGED <<options, Full, D>>
  <2>1. UNCHANGED <<options, supported>>
    BY StepFacts
  <2>2. QED
    BY <2>1 DEF Full, Matches, Matching
<1>2. D = {a \in Types \X Nat : Matches(a[1]) /\ a[2] \in DOMAIN Schema[a[1]]}
  BY AttrFacts DEF Matching
<1>3. SUFFICES ASSUME Full, options.json
               PROVE  /\ Of0' \subseteq D
                      /\ \A a \in D : a \in Of0' <=> Reached("capability", TRUE, a)'
  BY <1>1 DEF JsonSaid
<1>4. Of0 \subseteq D /\ \A a \in D : a \in Of0 <=> Reached("capability", TRUE, a)
  BY <1>3 DEF JsonSaid
<1>5. \A a \in D :
        /\ NextSection /\ (Here = "capability" => type > NumTypes) =>
             (Reached("capability", TRUE, a)' <=> Reached("capability", TRUE, a))
        /\ NextType => (Reached("capability", TRUE, a)' <=>
             Reached("capability", TRUE, a) \/ (Here = "capability" /\ a[1] = type))
        /\ NextAttr => (Reached("capability", TRUE, a)' <=>
             \/ Reached("capability", TRUE, a)
             \/ Here = "capability" /\ TRUE /\ a = <<type, attr>>)
  BY <1>2, ReachedStep
<1>6. attr \in Nat /\ type \in Nat
  BY DEF Typed, TypeOK
<1>7. CASE Here # "capability"
  <2>1. UNCHANGED Of0
    BY <1>7, EntriesKept
  <2>2. \A a \in D : Reached("capability", TRUE, a)' <=> Reached("capability", TRUE, a)
    BY <1>5, <1>7, StepFacts DEF Moves
  <2>3. QED
    BY <1>4, <2>1, <2>2
<1>8. CASE Here = "capability"
  <2>1. ScansJson
    BY <1>3, <1>8 DEF ScansJson
  <2>2. CASE PassTypeJson
    <3>1. NextType /\ ~Matches(type) /\ UNCHANGED entries
      BY <1>3, <2>2 DEF PassTypeJson, Scanned, said
    <3>2. UNCHANGED Of0
      BY <3>1
    <3>3. \A a \in D : a[1] # type
      BY <1>2, <3>1
    <3>4. QED
      BY <1>4, <1>5, <3>1, <3>2, <3>3
  <2>3. CASE OpenTypeJson
    <3>1. NextAttr /\ attr = 0 /\ UNCHANGED entries /\ type \in Types
      BY <2>3 DEF OpenTypeJson, said
    <3>2. UNCHANGED Of0
      BY <3>1
    <3>3. \A a \in D : a # <<type, attr>>
      BY <1>2, <3>1, AttrFacts
    <3>4. QED
      BY <1>4, <1>5, <3>1, <3>2, <3>3
  <2>4. CASE WriteEntry
    <3> DEFINE e0 == NewEntry
    <3>1. /\ NextAttr /\ type \in Types /\ attr \in DOMAIN Schema[type] /\ attr > 0
          /\ entries' = entries \cup {e0}
      BY <2>4, AttrFacts DEF WriteEntry, NewEntry
    <3>2. e0.of = <<type, attr>>
      BY DEF NewEntry
    <3>3. Of0' = Of0 \cup {<<type, attr>>}
      BY <3>1, <3>2
    <3>4. Matches(type)
      BY <2>1, <3>1 DEF Scanning, Opened, Scanned
    <3>5. <<type, attr>> \in D
      BY <1>2, <1>6, <3>1, <3>4
    <3> HIDE DEF D, Of0, e0
    <3>6. QED
      BY <1>4, <1>5, <1>8, <3>1, <3>3, <3>5
  <2>5. CASE CloseType
    <3>1. NextType /\ attr > Len(Schema[type]) /\ UNCHANGED entries /\ type \in Types
      BY <2>5 DEF CloseType, said
    <3>2. UNCHANGED Of0
      BY <3>1
    <3>3. \A a \in D : a[1] = type => a[2] < attr
      BY <1>2, <1>6, <3>1, AttrFacts
    <3>4. \A a \in D : a[1] = type => Reached("capability", TRUE, a)
      BY <1>8, <3>3 DEF Reached
    <3>5. QED
      BY <1>4, <1>5, <3>1, <3>2, <3>4
  <2>6. CASE EndSweep
    <3>1. NextSection /\ type > NumTypes /\ UNCHANGED entries
      BY <2>6 DEF EndSweep, said
    <3>2. UNCHANGED Of0
      BY <3>1
    <3>3. QED
      BY <1>4, <1>5, <3>1, <3>2
  <2>7. QED
    BY <2>1, <2>2, <2>3, <2>4, <2>5, <2>6, JsonScanSteps
<1>9. QED
  BY <1>7, <1>8

LEMMA ToldInductive == Typed /\ Scanning /\ Told /\ [Next]_vars => Told'
<1> SUFFICES ASSUME Typed, Scanning, Told, [Next]_vars
             PROVE  Told'
  OBVIOUS
<1>1. CASE UNCHANGED vars
  <2>1. /\ UNCHANGED <<options, supported, section, type, attr, matched>>
        /\ UNCHANGED <<listed, verdicts, message, entries>>
        /\ UNCHANGED <<Full, Admitted, Matching, Here>>
    BY <1>1, StutterFacts
  <2>2. UNCHANGED ScansText
    BY <2>1 DEF ScansText
  <2>3. \A t : (Matches(t)' <=> Matches(t)) /\ (Excluded(t)' <=> Excluded(t))
               /\ (query_capability(t)' <=> query_capability(t))
               /\ (asic_supported(t)' <=> asic_supported(t))
               /\ verdict(t)' = verdict(t)
    BY <2>1 DEF Matches, Excluded, query_capability, asic_supported, verdict
  <2>4. UNCHANGED AttrsOf(Matching)
    BY <2>1
  <2>5. /\ \A name : Past(name)' <=> Past(name)
        /\ WasAsked("capability")' = WasAsked("capability")
        /\ \A name, byAttribute, d : Reached(name, byAttribute, d)' <=> Reached(name, byAttribute, d)
    BY <1>1, StutterFacts
  <2>6. TextSaid'
    BY <2>1, <2>3, <2>5 DEF Told, TextSaid
  <2>7. MatchedSaid' /\ MessageSaid'
    BY <2>1, <2>2, <2>5 DEF Told, MatchedSaid, MessageSaid
  <2>8. JsonSaid'
    BY <2>1, <2>4, <2>5 DEF Told, JsonSaid
  <2>9. EntriesSaid'
    BY <2>1, <2>3, <2>5 DEF Told, EntriesSaid
  <2>10. ListedSaid'
    BY <2>1 DEF Told, ListedSaid
  <2>11. QED
    BY <2>6, <2>7, <2>8, <2>9, <2>10 DEF Told
<1>2. CASE Next /\ section = 0
  <2>1. /\ section' = 1 /\ type' = 1 /\ attr' = 0 /\ UNCHANGED options
        /\ asked' = {} /\ entries' = {} /\ verdicts' = {} /\ listed' = supported'
    BY <1>2, StepFacts DEF ReadSupported, NextSection, Scanning, Untouched
  <2>2. /\ \A d \in Types \X Nat : ~Reached("capability", TRUE, d)' /\ ~Reached("capability", FALSE, d)'
    BY <2>1, NothingReached
  <2>3. TextSaid'
    <3>1. \A t \in Types : <<t, 0>> \in Types \X Nat
      OBVIOUS
    <3>2. QED
      BY <2>1, <2>2, <3>1 DEF TextSaid
  <2>4. ~Past("capability")'
    <3>1. Sections' = Sections
      BY <2>1 DEF Sections
    <3>2. \A i \in DOMAIN Sections : ~(i < section')
      BY <2>1, SectionsFacts
    <3>3. QED
      BY <3>1, <3>2 DEF Past
  <2>5. MatchedSaid' /\ MessageSaid'
    BY <1>2, <2>4, MatchedSaidStep DEF Told, MessageSaid
  <2>6. JsonSaid'
    <3>1. (AttrsOf(Matching))' \subseteq Types \X Nat
      BY AttrFacts DEF Matching
    <3>2. QED
      BY <2>1, <2>2, <3>1 DEF JsonSaid
  <2>7. EntriesSaid'
    BY <2>1 DEF EntriesSaid, WasAsked
  <2>8. QED
    BY <2>1, <2>3, <2>5, <2>6, <2>7 DEF Told, ListedSaid
<1>3. CASE Next /\ section # 0
  BY <1>3, TextSaidStep, MatchedSaidStep, MessageSaidStep, JsonSaidStep, EntriesSaidStep,
     ListedSaidStep DEF Told
<1>4. QED
  BY <1>1, <1>2, <1>3

LEMMA InitTold == Init => Told
<1> SUFFICES ASSUME Init PROVE Told
  OBVIOUS
<1>1. section = 0 /\ asked = {} /\ entries = {} /\ verdicts = {}
  BY DEF Init
<1>2. Here = "none" /\ ~Past("capability")
  BY <1>1, SectionsFacts DEF Here, Past
<1>3. \A byAttribute, d : ~Reached("capability", byAttribute, d)
  BY <1>2 DEF Reached
<1>4. TextSaid /\ JsonSaid
  BY <1>1, <1>3 DEF TextSaid, JsonSaid
<1>5. MatchedSaid /\ MessageSaid
  BY <1>2 DEF MatchedSaid, MessageSaid, ScansText
<1>6. EntriesSaid
  BY <1>1 DEF EntriesSaid, WasAsked
<1>7. ListedSaid
  BY <1>1 DEF ListedSaid
<1>8. QED
  BY <1>4, <1>5, <1>6, <1>7 DEF Told

LEMMA ToldInvariant == Spec => [](Typed /\ Scanning /\ Told)
  BY InitTold, InitTyped, TypedInductive, ScanningInvariant, ToldInductive, PTL DEF Spec

\* What the members of an entry say of the list at the head of the document.
LEMMA EntriesAndList ==
  ASSUME ListedSaid, section # 0, NEW e,
         e.queried <=> query_capability(e.of[1]),
         e.verdict = (IF query_capability(e.of[1]) THEN "none" ELSE verdict(e.of[1])),
         e.asic_supported <=> asic_supported(e.of[1])
  PROVE  /\ e.verdict = (IF e.queried THEN "none" ELSE "asic_unsupported")
         /\ ~e.queried <=> listed.authoritative /\ e.of[1] \notin listed.types
         /\ e.asic_supported <=> listed.authoritative /\ e.of[1] \in listed.types
  BY DEF ListedSaid, query_capability, asic_supported, verdict

\* A full scan accounts for every type that matches: in either format it asks about
\* all attributes of the types that are not excluded and about no others; as text
\* it says which types are excluded, and that it asked nothing exactly when
\* nothing was to be asked; as JSON it has an entry for each attribute, which says
\* what the list at the head of the document says.
THEOREM ReportNothingPassedOver == Spec => []NothingPassedOver
<1>1. Typed /\ Scanning /\ Even /\ Told => NothingPassedOver
  <2> SUFFICES ASSUME Typed, Even, Told, Past("capability"), Full
               PROVE  NothingPassedOver
    BY DEF NothingPassedOver
  <2>1. \A byAttribute, d : Reached("capability", byAttribute, d)
    BY DEF Reached
  <2>2. ~options.json => \A t \in Matching : <<"capability", t>> \in verdicts <=> Excluded(t)
    BY <2>1 DEF Told, TextSaid, Matching
  <2>3. ~options.json => (message = "none" <=> Admitted # {})
    BY DEF Told, MessageSaid
  <2>4. options.json => {e.of : e \in entries} = AttrsOf(Matching)
    BY <2>1 DEF Told, JsonSaid
  <2>5. WasAsked("capability") = AttrsOf(Admitted)
    BY <2>1 DEF Even, InProgress, Due
  <2>6. section # 0
    <3>1. \A i \in DOMAIN Sections : ~(i < 0)
      BY SectionsFacts
    <3>2. QED
      BY <3>1 DEF Past
  <2>7. ASSUME options.json, NEW e \in entries
        PROVE  /\ e.queried <=> e.of \in WasAsked("capability")
               /\ e.verdict = (IF e.queried THEN "none" ELSE "asic_unsupported")
               /\ ~e.queried <=> listed.authoritative /\ e.of[1] \notin listed.types
               /\ e.asic_supported <=> listed.authoritative /\ e.of[1] \in listed.types
    <3>1. EntriesSaid /\ ListedSaid
      BY DEF Told
    <3>2. e.queried <=> e.of \in WasAsked("capability")
      BY <2>7, <3>1 DEF EntriesSaid
    <3>3. /\ e.queried <=> query_capability(e.of[1])
          /\ e.verdict = (IF query_capability(e.of[1]) THEN "none" ELSE verdict(e.of[1]))
          /\ e.asic_supported <=> asic_supported(e.of[1])
      BY <2>7, <3>1 DEF EntriesSaid
    <3>4. QED
      BY <2>6, <3>1, <3>2, <3>3, EntriesAndList
  <2>8. QED
    BY <2>2, <2>3, <2>4, <2>5, <2>7 DEF NothingPassedOver
<1>2. QED
  BY <1>1, ToldInvariant, EvenInvariant, PTL

-----------------------------------------------------------------------------
(* How the statuses of an adapter are sorted, for every plain code that    *)
(* status_name knows and every code a vendor forms as <range>_0 + index;   *)
(* that the header's own ranges are read otherwise; and that the summaries *)
(* are honest for every adapter that answers with the former. A plain code *)
(* that status_name has no case for falls into the band of the first range *)
(* (PlainStatusIsNamed).                                                   *)

\* A status in the negated encoding, and no plain code without a name.
InScope(s) ==
  /\ s \in Status
  /\ s <= 0
  /\ -s \in DOMAIN PlainNames => -s \in Recognised

LEMMA NamesFacts ==
  /\ DOMAIN PlainNames = 1 .. 24 /\ DOMAIN RangeNames = 1 .. 5
  /\ \A i \in 1 .. 24 : PlainNames[i] # "OTHER"
  /\ \A k \in 1 .. 5 : RangeNames[k] # "OTHER"
<1>1. DOMAIN PlainNames = 1 .. 24 /\ DOMAIN RangeNames = 1 .. 5
  BY DEF PlainNames, RangeNames
<1>2. \A k \in 1 .. 5 : RangeNames[k] # "OTHER"
  BY DEF RangeNames
<1>3. \A i \in 1 .. 24 : PlainNames[i] # "OTHER"
  BY DEF PlainNames
<1>4. QED
  BY <1>1, <1>2, <1>3

\* Numbers that fit into a half, without counting them out.
LEMMA UnitRange == Unit \in Nat /\ \A x \in Int : x \in 0 .. Unit - 1 <=> 0 <= x /\ x < Unit
<1>1. Unit \in Nat
  BY DEF Unit
<1>2. QED
  BY <1>1

LEMMA StatusBound == \A s \in Status : s \in Int /\ -s < 32768 * Unit
<1>1. Limit \in Int /\ Limit < 32768 * Unit
  BY DEF Limit, Unit
<1>2. \A s \in Status : s \in Int /\ -s <= Limit
  BY <1>1 DEF Status
<1>3. 32768 * Unit \in Int
  BY UnitRange
<1>4. QED
  BY <1>1, <1>2, <1>3

\* The half a negative code is in.
LEMMA HighHalfFacts ==
  ASSUME NEW s \in Int, s < 0, -s < 32768 * Unit
  PROVE  \E q \in Int :
           /\ -q > 0 /\ -q <= 32768
           /\ HighHalf(s) = Unit + q
           /\ q * Unit <= s /\ s < q * Unit + Unit
<1> DEFINE q == s \div 65536
<1>1. q \in Int /\ q * 65536 <= s /\ s < q * 65536 + 65536
  OBVIOUS
<1>2. -s < 32768 * 65536
  BY DEF Unit
<1> HIDE DEF q
<1>3. -q > 0 /\ -q <= 32768
  BY <1>1, <1>2
<1>4. q % 65536 = 65536 + q
  BY <1>1, <1>3
<1>5. HighHalf(s) = Unit + q
  BY <1>4 DEF HighHalf, Unit, q
<1>6. QED
  BY <1>1, <1>3, <1>5 DEF Unit

\* The half a code is in tells its range, and no other range claims it.
LEMMA RangeFacts ==
  ASSUME NEW s \in Int, NEW q \in Int,
         -q > 0, -q <= 32768, q * Unit <= s, s < q * Unit + Unit
  PROVE  /\ RangeOf(Unit + q) = IF -q \in 1 .. 5 THEN RangeNames[-q] ELSE "OTHER"
         /\ \A k \in 1 .. 5 : s - RangeCode(k, 0) \in 0 .. Unit - 1 <=> k = -q
<1>1. Unit + q > 5 /\ Unit - (Unit + q) = -q
  BY DEF Unit
<1>2. Unit + q \notin 1 .. 5
  BY <1>1, UnitRange
<1>3. RangeOf(Unit + q) = IF -q \in 1 .. 5 THEN RangeNames[-q] ELSE "OTHER"
  BY <1>1, <1>2, NamesFacts DEF RangeOf
<1>4. ASSUME NEW k \in 1 .. 5
      PROVE  s - RangeCode(k, 0) \in 0 .. Unit - 1 <=> k = -q
  <2>1. RangeCode(k, 0) = -(k * Unit) /\ k * Unit \in Int
    BY UnitRange DEF RangeCode
  <2>2. s - RangeCode(k, 0) = s + k * Unit /\ s + k * Unit \in Int
    BY <2>1
  <2>3. s - RangeCode(k, 0) \in 0 .. Unit - 1 <=> 0 <= s + k * Unit /\ s + k * Unit < Unit
    BY <2>2, UnitRange
  <2>4. 0 <= s + k * Unit /\ s + k * Unit < Unit <=> k = -q
    BY DEF Unit
  <2>5. QED
    BY <2>3, <2>4
<1>5. QED
  BY <1>3, <1>4

\* For each of the 2^31 codes but the unnamed plain ones, classify_status gives
\* the name of the plain status, or of the range to whose first code a vendor
\* added an index, and gives no name to a code that is neither.
THEOREM ClassifiesVendorCodes ==
  ASSUME NEW s, InScope(s), NEW b, b # "OTHER"
  PROVE  classify_status(s) = b <=> VendorMeans(s, b)
<1>1. s \in Int /\ s <= 0 /\ -s < 32768 * Unit
  BY StatusBound DEF InScope
<1>2. CASE s = 0
  <2>1. classify_status(s) = "SUCCESS"
    BY <1>2 DEF classify_status, status_name, SUCCESS
  <2>2. -s \notin DOMAIN PlainNames
    BY <1>2, NamesFacts
  <2>3. ASSUME NEW k \in 1 .. 5
        PROVE  s - RangeCode(k, 0) \notin 0 .. Unit - 1
    <3>1. s - RangeCode(k, 0) = k * Unit /\ k * Unit \in Int
      BY <1>2, UnitRange DEF RangeCode
    <3>2. k * Unit >= Unit
      BY DEF Unit
    <3>3. QED
      BY <3>1, <3>2, UnitRange
  <2>4. VendorMeans(s, b) <=> b = "SUCCESS"
    BY <1>2, <2>2, <2>3, NamesFacts DEF VendorMeans, SUCCESS
  <2>5. QED
    BY <2>1, <2>4
<1>3. CASE s # 0 /\ -s \in DOMAIN PlainNames
  <2>1. -s \in Recognised /\ PlainNames[-s] # "OTHER"
    BY <1>3, NamesFacts DEF InScope
  <2>2. classify_status(s) = PlainNames[-s]
    BY <1>3, <2>1 DEF classify_status, status_name, SUCCESS
  <2>3. VendorMeans(s, b) <=> b = PlainNames[-s]
    BY <1>3 DEF VendorMeans, SUCCESS
  <2>4. QED
    BY <2>2, <2>3
<1>4. CASE s # 0 /\ -s \notin DOMAIN PlainNames
  <2>1. PICK q \in Int : /\ -q > 0 /\ -q <= 32768
                         /\ HighHalf(s) = Unit + q
                         /\ q * Unit <= s /\ s < q * Unit + Unit
    BY <1>1, <1>4, HighHalfFacts
  <2>2. RangeOf(Unit + q) = IF -q \in 1 .. 5 THEN RangeNames[-q] ELSE "OTHER"
    BY <1>1, <2>1, RangeFacts
  <2>3. \A k \in 1 .. 5 : s - RangeCode(k, 0) \in 0 .. Unit - 1 <=> k = -q
    BY <1>1, <2>1, RangeFacts
  <2>4. -s \notin Recognised
    BY <1>1, <1>4, NamesFacts DEF Recognised
  <2>5. classify_status(s) = IF -q \in 1 .. 5 THEN RangeNames[-q] ELSE "OTHER"
    BY <1>4, <2>1, <2>2, <2>4 DEF classify_status, status_name, SUCCESS
  <2>6. VendorMeans(s, b) <=> \E k \in 1 .. 5 : k = -q /\ b = RangeNames[k]
    BY <1>4, <2>3, NamesFacts DEF VendorMeans, SUCCESS
  <2>7. QED
    BY <2>5, <2>6
<1>5. QED
  BY <1>2, <1>3, <1>4

\* What the header's own ranges are taken for. A code "from 0x000k0000L to
\* 0x000kFFFFL", negated as SAI_STATUS_CODE does, is given the name of its range
\* for the first code only; every later one up to <name>_MAX gets the name of the
\* next range, and those of the last range are "OTHER".
THEOREM HeaderRangesAreShifted ==
  ASSUME NEW k \in DOMAIN RangeNames, NEW index \in 0 .. Unit - 1
  PROVE  classify_status(HeaderCode(k, index)) =
           IF index = 0 THEN RangeNames[k]
           ELSE IF k < Len(RangeNames) THEN RangeNames[k + 1] ELSE "OTHER"
<1> DEFINE s == HeaderCode(k, index)
           next == IF index = 0 THEN k ELSE k + 1
<1>1. k \in 1 .. 5 /\ Len(RangeNames) = 5
  BY NamesFacts DEF RangeNames
<1>2. Unit \in Nat /\ index \in Int /\ 0 <= index /\ index < Unit
  BY UnitRange
<1>3. k * Unit \in Int /\ Unit <= k * Unit /\ k * Unit <= 5 * Unit
  BY <1>1 DEF Unit
<1>4. s \in Int /\ s = -(k * Unit) - index /\ s < 0 /\ -s < 32768 * Unit
  BY <1>2, <1>3 DEF HeaderCode, Unit
<1>5. -s > 24
  BY <1>2, <1>3, <1>4 DEF Unit
<1> HIDE DEF s
<1>6. PICK q \in Int : /\ -q > 0 /\ -q <= 32768
                       /\ HighHalf(s) = Unit + q
                       /\ q * Unit <= s /\ s < q * Unit + Unit
  BY <1>4, HighHalfFacts
<1>7. -q = next
  BY <1>1, <1>2, <1>4, <1>6 DEF Unit
<1>8. RangeOf(Unit + q) = IF -q \in 1 .. 5 THEN RangeNames[-q] ELSE "OTHER"
  BY <1>4, <1>6, RangeFacts
<1>9. s # 0 /\ -s \notin Recognised
  BY <1>4, <1>5 DEF Recognised
<1>10. classify_status(s) = IF next \in 1 .. 5 THEN RangeNames[next] ELSE "OTHER"
  BY <1>6, <1>7, <1>8, <1>9 DEF classify_status, status_name, SUCCESS
<1>11. classify_status(s) = IF index = 0 THEN RangeNames[k]
                            ELSE IF k < 5 THEN RangeNames[k + 1] ELSE "OTHER"
  BY <1>1, <1>10
<1>12. QED
  BY <1>1, <1>11 DEF s

-----------------------------------------------------------------------------
(* The summaries. The outcomes are counted one at a time, and each of them *)
(* is a new one: a section takes its attributes in order.                  *)

\* The counts of the summary, without the questions.
Sums ==
  /\ summary.ok = Cardinality(Of("Ok"))
  /\ summary.skipped = Cardinality(Of("Skipped"))
  /\ \A b \in Buckets \ {"OTHER"} : summary.failures[b] = Cardinality(Under(b))

\* All outcomes are of attributes before the position.
Behind ==
  /\ Here \in Lists => type = 1
  /\ \A x \in answered : x[1][1] < type \/ (x[1][1] = type /\ x[1][2] < attr)

Counted == IsFiniteSet(answered) /\ Behind /\ CountsAreHonest

\* "ok" and "skipped_by_tool" are no names of failures.
LEMMA BucketFacts == "ok" \notin Buckets /\ "skipped_by_tool" \notin Buckets
<1>1. \A i \in 1 .. 24 : PlainNames[i] # "ok" /\ PlainNames[i] # "skipped_by_tool"
  BY DEF PlainNames
<1>2. \A k \in 1 .. 5 : RangeNames[k] # "ok" /\ RangeNames[k] # "skipped_by_tool"
  BY DEF RangeNames
<1>3. QED
  BY <1>1, <1>2, NamesFacts DEF Buckets

LEMMA StatusTyped ==
  ASSUME NEW outcome \in Outcomes
  PROVE  outcome[1] \in FetchKinds /\ outcome[2] \in Int
<1>1. Limit \in Int
  BY DEF Limit, Unit
<1>2. Statuses \subseteq Int
  BY <1>1, ReportAssumption DEF Status
<1>3. SUCCESS \in Int /\ FAILURE \in Int
  BY DEF SUCCESS, FAILURE
<1>4. QED
  BY <1>2, <1>3 DEF Outcomes

\* What Add makes of the summary, one count at a time.
LEMMA AddFacts ==
  ASSUME CountsTyped, NEW outcome \in Outcomes, Add(outcome)
  PROVE  /\ summary'.ok = summary.ok + (IF outcome[1] = "Ok" THEN 1 ELSE 0)
         /\ summary'.skipped = summary.skipped + (IF outcome[1] = "Skipped" THEN 1 ELSE 0)
         /\ \A b \in Buckets :
              summary'.failures[b] = summary.failures[b]
                + (IF outcome[1] = "Failure" /\ classify_status(outcome[2]) = b THEN 1 ELSE 0)
<1>1. summary \in [ok : Nat, skipped : Nat, failures : [Buckets -> Nat]]
  BY DEF CountsTyped
<1>2. outcome[1] \in FetchKinds /\ classify_status(outcome[2]) \in Buckets
  BY StatusTyped, ClassifyTyped
<1>3. CASE outcome[1] = "Ok"
  <2>1. summary' = [summary EXCEPT !.ok = @ + 1]
    BY <1>3 DEF Add, summary_bucket
  <2>2. QED
    BY <1>1, <1>3, <2>1, SMT
<1>4. CASE outcome[1] = "Skipped"
  <2>1. summary' = [summary EXCEPT !.skipped = @ + 1]
    BY <1>4 DEF Add, summary_bucket
  <2>2. QED
    BY <1>1, <1>4, <2>1, SMT
<1>5. CASE outcome[1] = "Failure"
  <2> DEFINE name == classify_status(outcome[2])
  <2>1. summary_bucket(outcome[1], outcome[2]) = name
    BY <1>5 DEF summary_bucket
  <2>2. name \in Buckets /\ name # "ok" /\ name # "skipped_by_tool"
    BY <1>2, BucketFacts
  <2> HIDE DEF name
  <2>3. summary' = [summary EXCEPT !.failures[name] = @ + 1]
    BY <2>1, <2>2, SMT DEF Add
  <2>4. /\ summary'.ok = summary.ok /\ summary'.skipped = summary.skipped
        /\ \A b \in Buckets : summary'.failures[b] =
             IF b = name THEN summary.failures[b] + 1 ELSE summary.failures[b]
    BY <1>1, <2>2, <2>3, SMT
  <2>5. \A b \in Buckets : summary.failures[b] \in Nat
    BY <1>1
  <2>6. QED
    BY <1>1, <1>5, <2>4, <2>5 DEF name
<1>6. QED
  BY <1>2, <1>3, <1>4, <1>5 DEF FetchKinds

\* A part of a set that grows by one element grows with it or stays.
LEMMA PartGrows ==
  ASSUME NEW S, IsFiniteSet(S), NEW x, x \notin S, NEW A, A \subseteq S,
         NEW B, NEW grows \in BOOLEAN, B = IF grows THEN A \cup {x} ELSE A
  PROVE  Cardinality(B) = Cardinality(A) + (IF grows THEN 1 ELSE 0)
<1>1. IsFiniteSet(A) /\ Cardinality(A) \in Nat
  BY FS_Subset, FS_CardinalityType
<1>2. CASE grows
  <2>1. x \notin A /\ B = A \cup {x}
    BY <1>2
  <2>2. QED
    BY <1>1, <1>2, <2>1, FS_AddElement
<1>3. CASE ~grows
  BY <1>1, <1>3
<1>4. QED
  BY <1>2, <1>3

\* A new outcome is counted where its kind and its status say.
LEMMA CountOne ==
  ASSUME \A s \in Statuses : InScope(s),
         CountsTyped, Sums, IsFiniteSet(answered),
         NEW a, NEW outcome \in Outcomes, <<a, outcome>> \notin answered,
         Add(outcome), answered' = answered \cup {<<a, outcome>>}
  PROVE  Sums' /\ IsFiniteSet(answered') /\ Cardinality(answered') = Cardinality(answered) + 1
<1> DEFINE x == <<a, outcome>>
<1>1. x[2] = outcome
  OBVIOUS
<1>2. /\ IsFiniteSet(answered') /\ Cardinality(answered') = Cardinality(answered) + 1
      /\ x \notin answered /\ answered' = answered \cup {x}
  BY FS_AddElement
<1> HIDE DEF x
<1>3. ASSUME NEW kind
      PROVE  Cardinality(Of(kind)') =
               Cardinality(Of(kind)) + (IF outcome[1] = kind THEN 1 ELSE 0)
  <2>1. Of(kind) \subseteq answered
    BY DEF Of
  <2>2. Of(kind)' = IF outcome[1] = kind THEN Of(kind) \cup {x} ELSE Of(kind)
    BY <1>1, <1>2 DEF Of
  <2> DEFINE now == Of(kind)'
             grows == outcome[1] = kind
  <2>3. now = IF grows THEN Of(kind) \cup {x} ELSE Of(kind)
    BY <2>2
  <2>4. grows \in BOOLEAN
    OBVIOUS
  <2> HIDE DEF now, grows
  <2>5. Cardinality(now) = Cardinality(Of(kind)) + (IF grows THEN 1 ELSE 0)
    BY ONLY <1>2, <2>1, <2>3, <2>4, IsFiniteSet(answered), PartGrows
  <2>6. QED
    BY <2>5 DEF now, grows
<1>4. InScope(outcome[2])
  <2>1. outcome[2] \in Statuses \cup {SUCCESS, FAILURE}
    BY DEF Outcomes
  <2>2. Limit >= 1
    BY DEF Limit, Unit
  <2>3. SUCCESS \in Status /\ FAILURE \in Status
    <3>1. Limit \in Int
      BY DEF Limit, Unit
    <3>2. QED
      BY <2>2, <3>1 DEF Status, SUCCESS, FAILURE
  <2>4. InScope(SUCCESS) /\ InScope(FAILURE)
    BY <2>3, NamesFacts DEF InScope, SUCCESS, FAILURE, Recognised
  <2>5. QED
    BY <2>1, <2>4
<1>5. ASSUME NEW b, b # "OTHER"
      PROVE  Cardinality(Under(b)') =
               Cardinality(Under(b))
                 + (IF outcome[1] = "Failure" /\ classify_status(outcome[2]) = b THEN 1 ELSE 0)
  <2>1. Under(b) \subseteq answered
    BY DEF Under
  <2>2. classify_status(outcome[2]) = b <=> VendorMeans(outcome[2], b)
    BY <1>4, <1>5, ClassifiesVendorCodes
  <2>3. Under(b)' = IF outcome[1] = "Failure" /\ classify_status(outcome[2]) = b
                    THEN Under(b) \cup {x} ELSE Under(b)
    <3>1. Under(b)' = {y \in answered' : y[2][1] = "Failure" /\ VendorMeans(y[2][2], b)}
      BY DEF Under
    <3>2. CASE outcome[1] = "Failure" /\ classify_status(outcome[2]) = b
      BY <1>1, <1>2, <2>2, <3>1, <3>2 DEF Under
    <3>3. CASE ~(outcome[1] = "Failure" /\ classify_status(outcome[2]) = b)
      BY <1>1, <1>2, <2>2, <3>1, <3>3 DEF Under
    <3>4. QED
      BY <3>2, <3>3
  <2> DEFINE now == Under(b)'
             grows == outcome[1] = "Failure" /\ classify_status(outcome[2]) = b
  <2>4. now = IF grows THEN Under(b) \cup {x} ELSE Under(b)
    BY <2>3
  <2>5. grows \in BOOLEAN
    OBVIOUS
  <2> HIDE DEF now, grows
  <2>6. Cardinality(now) = Cardinality(Under(b)) + (IF grows THEN 1 ELSE 0)
    BY ONLY <1>2, <2>1, <2>4, <2>5, IsFiniteSet(answered), PartGrows
  <2>7. QED
    BY <2>6 DEF now, grows
<1>6. /\ summary'.ok = Cardinality(Of("Ok")')
      /\ summary'.skipped = Cardinality(Of("Skipped")')
  BY <1>3, AddFacts DEF Sums
<1>7. \A b \in Buckets \ {"OTHER"} : summary'.failures[b] = Cardinality(Under(b)')
  BY <1>5, AddFacts DEF Sums
<1>8. QED
  BY <1>2, <1>6, <1>7 DEF Sums

\* Nothing is counted at the start of a section.
Nothing == summary = NoOutcomes /\ answered = {} /\ queried = 0 /\ type = 1

LEMMA NothingCounted == Nothing => Counted
<1> SUFFICES ASSUME Nothing
             PROVE  Counted
  OBVIOUS
<1> USE DEF Nothing
<1>1. \A kind : Of(kind) = {}
  BY DEF Of
<1>2. \A b : Under(b) = {}
  BY DEF Under
<1>3. summary.ok = 0 /\ summary.skipped = 0 /\ \A b \in Buckets : summary.failures[b] = 0
  BY DEF NoOutcomes
<1>4. CountsAreHonest
  BY <1>1, <1>2, <1>3, FS_EmptySet DEF CountsAreHonest
<1>5. QED
  BY <1>4, FS_EmptySet DEF Counted, Behind

\* What is behind the position stays behind it.
LEMMA BehindStep ==
  ASSUME Typed, Counted, Next, UNCHANGED section
  PROVE  /\ Here' \in Lists => type' = 1
         /\ \A x \in answered : x[1][1] < type' \/ (x[1][1] = type' /\ x[1][2] < attr')
<1>1. type \in Int /\ attr \in Int /\ section \in Int
  BY ReportAssumption DEF Typed, TypeOK
<1>2. \A x \in answered : x[1][1] \in Int /\ x[1][2] \in Int
  BY DEF Typed, TypeOK, Types
<1>3. ~NextSection
  BY <1>1 DEF NextSection
<1>4. Here' = Here
  BY HereKept
<1>5. CASE NextType
  <2>1. Here \notin Lists
    <3>1. ~ReadAttribute
      BY <1>1, <1>5 DEF ReadAttribute, NextType, NextAttr
    <3>2. ~ReadSupported /\ ~EndList
      BY <1>3 DEF ReadSupported, EndList
    <3>3. \/ Here \in {"capability", "statistics", "telemetry", "availability", "resource"}
      BY <3>1, <3>2, SMT DEF Next, AskFocused, EndFocused, PassType, AnnounceType, OpenType,
         AskAttribute, EndScan, PassTypeJson, OpenTypeJson, WriteEntry, CloseType, SweepStatistics,
         SweepTelemetry, SweepAvailability, SweepResources, EndSweep, ScansText, ScansJson
    <3>4. QED
      BY <3>3 DEF Lists
  <2>2. type' = type + 1
    BY <1>5 DEF NextType
  <2>3. QED
    BY <1>1, <1>2, <1>4, <2>1, <2>2 DEF Counted, Behind
<1>6. CASE NextAttr
  <2>1. type' = type /\ attr' = attr + 1
    BY <1>6 DEF NextAttr
  <2>2. QED
    BY <1>1, <1>2, <1>4, <2>1 DEF Counted, Behind
<1>7. QED
  BY <1>3, <1>5, <1>6, StepFacts DEF Moves

\* A step that counts nothing.
LEMMA CountsKept ==
  ASSUME Typed, Counted, Next, UNCHANGED section, UNCHANGED <<summary, queried, answered>>
  PROVE  Counted'
<1>1. Here' = Here
  BY HereKept
<1>2. \A kind : Of(kind)' = Of(kind)
  BY DEF Of
<1>3. \A b : Under(b)' = Under(b)
  BY DEF Under
<1>4. CountsAreHonest'
  BY <1>1, <1>2, <1>3 DEF Counted, CountsAreHonest
<1>5. Behind'
  BY BehindStep DEF Behind
<1>6. QED
  BY <1>4, <1>5 DEF Counted

\* Two actions count.
LEMMA WhoCounts ==
  ASSUME Next, ~NextSection
  PROVE  ReadAttribute \/ AskAttribute \/ UNCHANGED <<summary, queried, answered>>
<1>1. CASE ReadSupported \/ EndList \/ EndFocused \/ EndScan \/ EndSweep
  BY <1>1 DEF ReadSupported, EndList, EndFocused, EndScan, EndSweep
<1>2. CASE AskFocused \/ PassType \/ AnnounceType \/ PassTypeJson \/ OpenTypeJson \/ CloseType
  BY <1>2 DEF AskFocused, PassType, AnnounceType, PassTypeJson, OpenTypeJson, CloseType, counts
<1>3. CASE WriteEntry \/ SweepStatistics \/ SweepTelemetry \/ SweepAvailability \/ SweepResources
  BY <1>3 DEF WriteEntry, SweepStatistics, SweepTelemetry, SweepAvailability, SweepResources, counts
<1>4. CASE OpenType
  BY <1>4 DEF OpenType
<1>5. QED
  BY <1>1, <1>2, <1>3, <1>4 DEF Next

LEMMA CountedInductive ==
  ASSUME \A s \in Statuses : InScope(s), Typed, Counted, [Next]_vars
  PROVE  Counted'
<1>1. /\ type \in 1 .. NumTypes + 1 /\ attr \in Nat /\ section \in Int
      /\ NumTypes \in Nat /\ CountsTyped
  BY ReportAssumption DEF Typed, TypeOK, CountsTyped
<1>2. Sums /\ IsFiniteSet(answered) /\ Behind
  BY DEF Counted, CountsAreHonest, Sums
<1>3. CASE UNCHANGED vars
  <2>1. UNCHANGED <<type, attr, summary, queried, answered, Here>>
    BY <1>3, StutterFacts
  <2>2. (\A kind : Of(kind)' = Of(kind)) /\ (\A b : Under(b)' = Under(b))
    BY <2>1 DEF Of, Under
  <2>3. CountsAreHonest' /\ Behind'
    BY <2>1, <2>2 DEF Counted, CountsAreHonest, Behind
  <2>4. QED
    BY <2>1, <2>3 DEF Counted
<1>4. CASE Next /\ NextSection
  <2>1. Nothing'
    BY <1>4 DEF NextSection, Nothing
  <2>2. QED
    BY <2>1, NothingCounted, PTL
<1>5. CASE Next /\ ~NextSection
  <2>1. UNCHANGED section
    BY <1>5, StepFacts DEF Moves, NextType, NextAttr
  <2>2. Here' = Here
    BY <1>5, <2>1, HereKept
  <2>3. /\ Here' \in Lists => type' = 1
        /\ \A x \in answered : x[1][1] < type' \/ (x[1][1] = type' /\ x[1][2] < attr')
    BY <1>5, <2>1, BehindStep
  <2>4. CASE UNCHANGED <<summary, queried, answered>>
    BY <1>5, <2>1, <2>4, CountsKept
  <2>5. CASE ReadAttribute /\ ~UNCHANGED <<summary, queried, answered>>
    <3>1. PICK outcome \in Outcomes :
            /\ Add(outcome)
            /\ answered' = answered \cup {<<<<1, attr>>, outcome>>}
            /\ UNCHANGED <<matched, queried>>
      BY <2>5, ReadStep DEF counts
    <3>2. type = 1 /\ type' = 1 /\ attr' = attr + 1 /\ Here \in Lists
      BY <1>2, <2>5 DEF ReadAttribute, NextAttr, Behind
    <3>3. <<<<1, attr>>, outcome>> \notin answered
      BY <1>1, <1>2, <3>2 DEF Behind
    <3>4. Sums' /\ IsFiniteSet(answered')
      BY <1>1, <1>2, <3>1, <3>3, CountOne
    <3>5. CountsAreHonest'
      BY <2>2, <3>2, <3>4 DEF Sums, CountsAreHonest, Lists
    <3>6. Behind'
      BY <1>1, <2>3, <3>1, <3>2 DEF Behind
    <3>7. QED
      BY <3>4, <3>5, <3>6 DEF Counted
  <2>6. CASE AskAttribute
    <3>1. PICK outcome \in Outcomes :
            /\ Add(outcome)
            /\ answered' = answered \cup {<<<<type, attr>>, outcome>>}
      BY <2>6, AskStep
    <3>2. queried' = queried + 1 /\ type' = type /\ attr' = attr + 1 /\ Here = "capability"
      BY <2>6 DEF AskAttribute, NextAttr, ScansText
    <3>3. <<<<type, attr>>, outcome>> \notin answered
      BY <1>1, <1>2 DEF Behind
    <3>4. Sums' /\ IsFiniteSet(answered') /\ Cardinality(answered') = Cardinality(answered) + 1
      BY <1>1, <1>2, <3>1, <3>3, CountOne
    <3>5. CountsAreHonest'
      BY <3>2, <3>4 DEF Sums, Counted, CountsAreHonest
    <3>6. Behind'
      BY <1>1, <2>3, <3>1, <3>2 DEF Behind
    <3>7. QED
      BY <3>4, <3>5, <3>6 DEF Counted
  <2>7. QED
    BY <1>5, <2>4, <2>5, <2>6, WhoCounts
<1>6. QED
  BY <1>3, <1>4, <1>5

LEMMA InitCounted == Init => Counted
  BY NothingCounted DEF Init, Nothing

\* The summary of every section says what happened, whatever the metadata and
\* however many attributes, as long as the statuses an adapter answers are none of
\* the plain ones status_name leaves out. Codes of a range are read as vendors
\* form them, <range>_0 + index.
THEOREM ReportCountsAreHonest ==
  ASSUME \A s \in Statuses : InScope(s)
  PROVE  Spec => []CountsAreHonest
<1>1. Typed /\ Counted /\ [Next]_vars => Counted'
  BY CountedInductive
<1>2. Counted => CountsAreHonest
  BY DEF Counted
<1>3. QED
  BY <1>1, <1>2, InitTyped, TypedInductive, InitCounted, PTL DEF Spec

-----------------------------------------------------------------------------
(* How much is left.                                                       *)

\* Steps from one attribute to the next that the section, or the type it is at,
\* may take.
Width ==
  IF Here \in Lists THEN Len(ReadLists[Here])
  ELSE IF Here = "capability" /\ ~options.json /\ ~Full THEN Len(FocusedNames)
  ELSE IF (ScansText \/ ScansJson) /\ type \in Types THEN Len(Schema[type]) + 1
  ELSE 0

Left == <<Len(Sections) + 1 - section, NumTypes + 1 - type, Width - attr>>

Within == attr <= Width

LEMMA WidthType == Width \in Nat
<1>1. \A list \in Lists : Len(ReadLists[list]) \in Nat
  <2>1. \A list \in Lists : ReadLists[list] \in Seq(ReadKinds)
    BY ReportAssumption
  <2>2. QED
    BY <2>1
<1>2. Len(FocusedNames) \in Nat
  BY ReportAssumption
<1>3. \A t \in Types : Len(Schema[t]) + 1 \in Nat
  BY AttrFacts
<1>4. QED
  BY <1>1, <1>2, <1>3 DEF Width

\* A step that stays with a type has an attribute left to go to.
LEMMA AttrStep ==
  ASSUME Typed, Next
  PROVE  NextSection \/ (NextType /\ type \in Types) \/ (NextAttr /\ attr < Width)
<1> SUFFICES ASSUME NextAttr, ~NextSection, ~(NextType /\ type \in Types)
             PROVE  attr < Width
  BY StepFacts DEF Moves
<1>0. attr \in Nat
  BY DEF Typed, TypeOK
<1>1. CASE ReadAttribute
  BY <1>1 DEF ReadAttribute, Width
<1>2. CASE AskFocused
  BY <1>2 DEF AskFocused, Width, Lists
<1>3. CASE OpenType \/ AskAttribute \/ OpenTypeJson \/ WriteEntry
  <2>1. type \in Types /\ (ScansText \/ ScansJson) /\ (attr = 0 \/ attr \in DOMAIN Schema[type])
    BY <1>3 DEF OpenType, AskAttribute, OpenTypeJson, WriteEntry
  <2>2. Width = Len(Schema[type]) + 1
    BY <2>1 DEF Width, ScansText, ScansJson, Lists
  <2>3. Len(Schema[type]) \in Nat /\ attr <= Len(Schema[type])
    BY <1>0, <2>1, AttrFacts
  <2>4. QED
    BY <1>0, <2>2, <2>3
<1>4. CASE ReadSupported \/ EndList \/ EndFocused \/ EndScan \/ EndSweep
  BY <1>4 DEF ReadSupported, EndList, EndFocused, EndScan, EndSweep
<1>5. CASE PassType \/ AnnounceType \/ PassTypeJson \/ CloseType
  BY <1>5 DEF PassType, AnnounceType, PassTypeJson, CloseType
<1>6. CASE SweepStatistics \/ SweepTelemetry \/ SweepAvailability \/ SweepResources
  BY <1>6 DEF SweepStatistics, SweepTelemetry, SweepAvailability, SweepResources
<1>7. QED
  BY <1>1, <1>2, <1>3, <1>4, <1>5, <1>6 DEF Next

LEMMA WidthKept ==
  ASSUME Next, NextAttr
  PROVE  Width' = Width
<1>1. UNCHANGED <<section, type, options>>
  BY StepFacts DEF NextAttr
<1>2. UNCHANGED <<Here, ScansText, ScansJson, Full>>
  BY <1>1, HereKept
<1>3. QED
  BY <1>1, <1>2 DEF Width

\* A report winds down: every step leaves fewer sections, or types of the section,
\* or attributes of the type, for every metadata and whatever the adapter answers.
\* With the steps themselves ending (FetchWindsDown, QueryWindsDown) none of its
\* loops runs for ever.
THEOREM ReportWindsDown ==
  Spec => [](Left \in [1 .. 3 -> Nat]) /\ [][Down(3, Left', Left)]_vars
<1> DEFINE Sizes == /\ Len(Sections) + 1 - section \in Nat
                    /\ NumTypes + 1 - type \in Nat
                    /\ Width - attr \in Nat
<1>1. Typed /\ Within => Sizes
  <2> SUFFICES ASSUME Typed, Within PROVE Sizes
    OBVIOUS
  <2>1. /\ Len(Sections) \in Nat /\ NumTypes \in Nat
        /\ section \in 0 .. Len(Sections) + 1 /\ type \in 1 .. NumTypes + 1
    BY SectionsFacts, ReportAssumption DEF Typed, TypeOK
  <2>2. attr \in Nat /\ Width \in Nat /\ attr <= Width
    BY WidthType DEF Typed, TypeOK, Within
  <2>3. QED
    BY <2>1, <2>2
<1>2. Sizes => Left \in [1 .. 3 -> Nat]
  BY DEF Left
<1>3. Init => Within
  BY WidthType DEF Init, Within
<1>4. Typed /\ Within /\ [Next]_vars => Within'
  <2> SUFFICES ASSUME Typed, Within, [Next]_vars PROVE Within'
    OBVIOUS
  <2>1. CASE Next
    <3>1. attr \in Nat /\ Width \in Nat
      BY WidthType DEF Typed, TypeOK
    <3>2. (Width \in Nat)'
      BY WidthType, PTL
    <3>3. CASE NextSection \/ NextType
      BY <3>2, <3>3 DEF NextSection, NextType, Within
    <3>4. CASE NextAttr /\ attr < Width
      BY <2>1, <3>1, <3>4, WidthKept DEF NextAttr, Within
    <3>5. QED
      BY <2>1, <3>3, <3>4, AttrStep
  <2>2. CASE UNCHANGED vars
    BY <2>2 DEF vars, position, Within, Width, Here, Sections, ScansText, ScansJson, Full
  <2>3. QED
    BY <2>1, <2>2
<1>5. Typed /\ Sizes /\ Sizes' /\ Next => Down(3, Left', Left)
  <2> SUFFICES ASSUME Typed, Sizes, Sizes', Next PROVE Down(3, Left', Left)
    OBVIOUS
  <2>1. Sections' = Sections
    BY PositionTyped
  <2>2. /\ Len(Sections) \in Nat /\ NumTypes \in Nat
        /\ section \in Nat /\ type \in Nat /\ attr \in Nat /\ Width \in Nat
    BY SectionsFacts, ReportAssumption, WidthType DEF Typed, TypeOK
  <2>3. \/ section' = section + 1
        \/ section' = section /\ type' = type + 1
        \/ section' = section /\ type' = type /\ attr' = attr + 1 /\ Width' = Width
    BY AttrStep, WidthKept DEF NextSection, NextType, NextAttr
  <2> DEFINE a == Len(Sections) + 1 - section
             b == NumTypes + 1 - type
             c == Width - attr
  <2>4. /\ a \in Nat /\ b \in Nat /\ c \in Nat
        /\ a' \in Nat /\ b' \in Nat /\ c' \in Nat
    OBVIOUS
  <2>5. a' < a \/ (a' = a /\ b' < b) \/ (a' = a /\ b' = b /\ c' < c)
    BY <2>1, <2>2, <2>3
  <2>6. Left = <<a, b, c>> /\ Left' = <<a', b', c'>>
    BY DEF Left
  <2> HIDE DEF a, b, c
  <2>7. QED
    BY <2>4, <2>5, <2>6, TripleDown
<1>6. QED
  BY <1>1, <1>2, <1>3, <1>4, <1>5, InitTyped, TypedInductive, PTL DEF Spec

===============================================================================
