--------------------------- MODULE StatsProbeProofs ---------------------------
(***************************************************************************)
(* What StatsProbe guarantees for every number of counters, every set of   *)
(* markers, every declaration an adapter may make and every port list: the *)
(* types, that there is one declaration per object type, that the counts   *)
(* of a stage add up, whom a contradiction accuses and what is cleared.    *)
(***************************************************************************)
EXTENDS StatsProbe, NumberProofs, FiniteSetTheorems

\* The port list is looked at from its first port on.
Typed == TypeOK /\ (pc \in {"report", "list"} => at = 1)

LEMMA SubjectIsType == ASSUME stage \in 1 .. Len(Stages) PROVE Subject \in Types
<1>1. Len(Stages) = 5
  BY DEF Stages
<1>2. stage \in {1, 2} \/ stage = 3 \/ stage = 4 \/ stage = 5
  BY <1>1
<1>3. Stages[3] = "queue" /\ Stages[4] = "ipg" /\ Stages[5] = "switch"
  BY DEF Stages
<1>4. QED
  BY <1>2, <1>3 DEF Subject, Types

\* Consult leaves a cache of the same shape, and asks about one type at most.
LEMMA ConsultTyped ==
  ASSUME NEW t \in Types, Consult(t),
         standing \in [Types -> {"unread", "known", "unavailable"}],
         declared \in [Types -> SUBSET Entry]
  PROVE  /\ standing' \in [Types -> {"unread", "known", "unavailable"}]
         /\ declared' \in [Types -> SUBSET Entry]
         /\ standing'[t] # "unread"
<1>1. CASE standing[t] # "unread"
  BY <1>1 DEF Consult, cache
<1>2. CASE standing[t] = "unread"
  <2>1. CASE \E d \in Declarations[t] :
               /\ standing' = [standing EXCEPT ![t] = "known"]
               /\ declared' = [declared EXCEPT ![t] = d]
    <3>1. PICK d \in Declarations[t] :
                 /\ standing' = [standing EXCEPT ![t] = "known"]
                 /\ declared' = [declared EXCEPT ![t] = d]
      BY <2>1
    <3>2. d \in SUBSET Entry
      BY ProbeAssumption
    <3>3. QED
      BY <3>1, <3>2
  <2>2. CASE /\ standing' = [standing EXCEPT ![t] = "unavailable"]
             /\ UNCHANGED declared
    BY <2>2
  <2>3. QED
    BY <1>2, <2>1, <2>2 DEF Consult
<1>3. QED
  BY <1>1, <1>2

\* Once an answer is in, Consult changes nothing about it.
LEMMA ConsultKeeps ==
  ASSUME NEW t \in Types, Consult(t), NEW u \in Types, standing[u] # "unread",
         standing \in [Types -> {"unread", "known", "unavailable"}],
         declared \in [Types -> SUBSET Entry]
  PROVE  standing'[u] = standing[u] /\ declared'[u] = declared[u]
<1>1. CASE standing[t] # "unread"
  BY <1>1 DEF Consult, cache
<1>2. CASE standing[t] = "unread"
  <2>1. u # t
    BY <1>2
  <2>2. QED
    BY <1>2, <2>1 DEF Consult
<1>3. QED
  BY <1>1, <1>2

LEMMA AddTyped ==
  ASSUME NEW f \in [Counts -> Nat], NEW c \in Counts
  PROVE  /\ Add(f, c) \in [Counts -> Nat]
         /\ \A b \in Counts : Add(f, c)[b] = IF b = c THEN f[b] + 1 ELSE f[b]
  BY DEF Add

LEMMA AdvanceTyped ==
  ASSUME Advance, stage \in 1 .. Len(Stages)
  PROVE  pc' \in {"stage", "done"} /\ stage' \in 1 .. Len(Stages)
  BY DEF Advance, Stages

LEMMA ReadTyped ==
  ASSUME TypeOK, ReadCounter
  PROVE  /\ count' \in [Counts -> Nat]
         /\ stat' = stat + 1 /\ stat \in Stats /\ stat \notin Markers
<1>1. stat \in Stats /\ stat' = stat + 1 /\ stat \notin Markers
  BY ProbeAssumption DEF TypeOK, ReadCounter, AtCounter, Stats
<1>2. count' \in [Counts -> Nat]
  <2> DEFINE first == {e \in EntriesOf(stat) : Known}
             noted == IF Known /\ first = {} THEN Add(count, "unclaimed") ELSE count
  <2>1. noted \in [Counts -> Nat]
    BY AddTyped DEF TypeOK, Counts
  <2>2. \A ok, claimed : Verdict(ok, claimed) \in Counts
    BY DEF Verdict, Counts
  <2>3. \E v \in Counts : count' = Add(noted, v)
    <3>1. PICK ok \in ReadResults(stat, "READ") :
            \/ first = {} /\ count' = Add(noted, Verdict(ok, FALSE))
            \/ \E e \in first : count' = Add(noted, Verdict(ok, "READ" \in e[2]))
      BY Zenon DEF ReadCounter
    <3> HIDE DEF first, noted
    <3>2. QED
      BY <2>2, <3>1, Zenon
  <2> HIDE DEF noted
  <2>4. QED
    BY <2>1, <2>3, AddTyped
<1>3. QED
  BY <1>1, <1>2

LEMMA TryTyped ==
  ASSUME TypeOK, TryEntry
  PROVE  /\ todo' \subseteq todo
         /\ count' \in [Counts -> Nat]
         /\ cleared' \subseteq Types \X Stats
<1>1. PICK e \in todo :
        /\ todo' = todo \ {e}
        /\ IF e[1] \in Markers
           THEN UNCHANGED <<count, cleared>>
           ELSE IF SelectMode(e[2]) = "none"
           THEN count' = Add(count, "no mode") /\ UNCHANGED cleared
           ELSE /\ \E ok \in ReadResults(e[1], SelectMode(e[2])) :
                     count' = Add(count, IF ok THEN "accepted" ELSE "contradiction")
                /\ cleared' = IF SelectMode(e[2]) = "READ_AND_CLEAR"
                              THEN cleared \cup {<<Subject, e[1]>>} ELSE cleared
  BY Zenon DEF TryEntry
<1>2. e[1] \in Stats
  BY DEF TypeOK, Entry
<1>s. Subject \in Types
  BY SubjectIsType DEF TypeOK
<1>3. count' = count \/ \E c \in Counts : count' = Add(count, c)
  <2>1. "no mode" \in Counts /\ "accepted" \in Counts /\ "contradiction" \in Counts
    BY DEF Counts
  <2>2. QED
    BY <1>1, <2>1
<1>4. cleared' = cleared \/ cleared' = cleared \cup {<<Subject, e[1]>>}
  BY <1>1
<1>5. count' \in [Counts -> Nat]
  BY <1>3, AddTyped DEF TypeOK
<1>6. cleared' \subseteq Types \X Stats
  <2>1. cleared \subseteq Types \X Stats
    BY DEF TypeOK
  <2>2. <<Subject, e[1]>> \in Types \X Stats
    BY <1>2, <1>s
  <2>3. QED
    BY <1>4, <2>1, <2>2
<1>7. QED
  BY <1>1, <1>5, <1>6

LEMMA TypedInductive == Typed /\ [Next]_vars => Typed'
<1> SUFFICES ASSUME Typed, [Next]_vars
             PROVE  Typed'
  OBVIOUS
<1> USE DEF Typed
<1>0. ports \in PortLists \cup {<<>>} /\ Len(ports) \in Nat /\ NumStats \in Nat
  BY ProbeAssumption DEF TypeOK
<1>1. CASE \E t \in Types : Report(t)
  <2>1. PICK t \in Types : Report(t)
    BY <1>1
  <2>2. QED
    BY <2>1, ConsultTyped DEF Report, TypeOK, config, sampled, work
<1>2. CASE StartProbe \/ OpenPortApi \/ LosePort
  BY <1>2 DEF StartProbe, OpenPortApi, LosePort, TypeOK, config, cache, sampled, work
<1>3. CASE ListPorts
  <2>1. ports' \in PortLists \cup {<<>>} /\ pc' \in {"done", "select"} /\ at' = 1
    BY <1>3 DEF ListPorts, TypeOK
  <2>2. Len(ports') \in Nat
    BY <2>1, ProbeAssumption
  <2>3. at' \in 1 .. Len(ports') + 1
    BY <2>1, <2>2
  <2>4. QED
    BY <1>3, <2>1, <2>3 DEF ListPorts, TypeOK, config, cache, work
<1>4. CASE TryPort
  <2>1. at' \in 1 .. Len(ports) + 1 /\ pc' \in {"open", "select"} /\ UNCHANGED ports
    BY <1>0, <1>4 DEF TryPort, TypeOK
  <2>2. QED
    BY <1>4, <2>1 DEF TryPort, TypeOK, config, cache, work
<1>5. CASE FirstPort
  <2>1. at' \in 1 .. Len(ports) + 1 /\ pc' = "open" /\ UNCHANGED ports
    BY <1>0, <1>5 DEF FirstPort
  <2>2. QED
    BY <1>5, <2>1 DEF FirstPort, TypeOK, config, cache, work
<1>6. CASE EnterStage
  <2>1. Subject \in Types
    BY SubjectIsType DEF TypeOK
  <2>2. /\ standing' \in [Types -> {"unread", "known", "unavailable"}]
        /\ declared' \in [Types -> SUBSET Entry]
    BY <1>6, <2>1, ConsultTyped DEF EnterStage, TypeOK
  <2>3. stat' \in 1 .. NumStats + 1
    BY <1>0, <1>6 DEF EnterStage
  <2>4. todo' \subseteq Entry
    BY <1>6, <2>1, <2>2 DEF EnterStage
  <2>5. count' \in [Counts -> Nat]
    BY <1>6 DEF EnterStage, NoCounts
  <2>6. QED
    BY <1>6, <2>2, <2>3, <2>4, <2>5 DEF EnterStage, TypeOK, config, sampled
<1>7. CASE ModesUnavailable
  <2>1. Subject \in Types
    BY SubjectIsType DEF TypeOK
  <2>2. /\ standing' \in [Types -> {"unread", "known", "unavailable"}]
        /\ declared' \in [Types -> SUBSET Entry]
    BY <1>7, <2>1, ConsultTyped DEF ModesUnavailable, TypeOK
  <2>3. pc' \in {"stage", "done"} /\ stage' \in 1 .. Len(Stages)
    BY <1>7, AdvanceTyped DEF ModesUnavailable, TypeOK
  <2>4. QED
    BY <1>7, <2>2, <2>3 DEF ModesUnavailable, TypeOK, config, sampled
<1>8. CASE SkipStage \/ EndStage
  <2>1. pc' \in {"stage", "done"} /\ stage' \in 1 .. Len(Stages)
    BY <1>8, AdvanceTyped DEF SkipStage, EndStage, TypeOK
  <2>2. QED
    BY <1>8, <2>1 DEF SkipStage, EndStage, TypeOK, config, cache, sampled
<1>9. CASE SkipMarker
  <2>1. stat' \in 1 .. NumStats + 1
    BY <1>0, <1>9 DEF SkipMarker, AtCounter, TypeOK
  <2>2. QED
    BY <1>9, <2>1 DEF SkipMarker, TypeOK, config, cache, sampled
<1>10. CASE ReadCounter
  <2>1. count' \in [Counts -> Nat] /\ stat' = stat + 1 /\ stat \in Stats
    BY <1>10, ReadTyped
  <2>2. stat' \in 1 .. NumStats + 1
    BY <1>0, <2>1 DEF Stats
  <2>3. UNCHANGED <<config, lost, pc, cache, sampled, stage, todo, cleared>>
    BY <1>10 DEF ReadCounter
  <2>4. QED
    BY <2>1, <2>2, <2>3 DEF TypeOK, config, cache, sampled
<1>11. CASE TryEntry
  <2>1. todo' \subseteq todo /\ count' \in [Counts -> Nat] /\ cleared' \subseteq Types \X Stats
    BY <1>11, TryTyped
  <2>2. UNCHANGED <<config, lost, pc, cache, sampled, stage, stat>>
    BY <1>11 DEF TryEntry
  <2>3. QED
    BY <2>1, <2>2 DEF TypeOK, config, cache, sampled
<1>12. CASE UNCHANGED vars
  BY <1>12 DEF vars, TypeOK, config, cache, sampled, work
<1>13. QED
  BY <1>1, <1>2, <1>3, <1>4, <1>5, <1>6, <1>7, <1>8, <1>9, <1>10, <1>11, <1>12
    DEF Next, Tool

LEMMA InitTyped == Init => Typed
<1> SUFFICES ASSUME Init PROVE Typed
  OBVIOUS
<1>1. Len(ports) = 0 /\ at \in 1 .. Len(ports) + 1
  BY DEF Init
<1>2. stage \in 1 .. Len(Stages) /\ stat \in 1 .. NumStats + 1
  BY ProbeAssumption DEF Init, Stages
<1>3. count \in [Counts -> Nat]
  BY DEF Init, NoCounts
<1>4. QED
  BY <1>1, <1>2, <1>3 DEF Init, Typed, TypeOK

\* The variables of StatsProbe have the types its type invariant gives them.
THEOREM ProbeTypeCorrect == Spec => []TypeOK
<1>1. Typed => TypeOK
  BY DEF Typed
<1>2. QED
  BY <1>1, InitTyped, TypedInductive, PTL DEF Spec

-----------------------------------------------------------------------------
(* One declaration per type.                                               *)

\* A type whose declaration was asked for keeps the answer until the run ends,
\* so what the probe is held against is what the report printed.
THEOREM ProbeOneDeclaration == Spec => OneDeclaration
<1>1. Typed /\ [Next]_vars =>
        [\A t \in Types :
           standing[t] # "unread" =>
             standing'[t] = standing[t] /\ declared'[t] = declared[t]]_vars
  <2> SUFFICES ASSUME Typed, [Next]_vars, NEW t \in Types, standing[t] # "unread"
               PROVE  standing'[t] = standing[t] /\ declared'[t] = declared[t]
    OBVIOUS
  <2>1. CASE UNCHANGED cache
    BY <2>1 DEF cache
  <2>2. CASE \E u \in Types : Consult(u)
    BY <2>2, ConsultKeeps DEF Typed, TypeOK
  <2>3. UNCHANGED cache \/ \E u \in Types : Consult(u)
    <3>1. Subject \in Types
      BY SubjectIsType DEF Typed, TypeOK
    <3>2. QED
      BY <3>1 DEF Next, Tool, Report, StartProbe, ListPorts, TryPort, FirstPort, OpenPortApi,
         EnterStage, ModesUnavailable, SkipStage, SkipMarker, ReadCounter, TryEntry, EndStage,
         LosePort, vars
  <2>4. QED
    BY <2>1, <2>2, <2>3
<1>2. QED
  BY <1>1, InitTyped, TypedInductive, PTL DEF Spec, OneDeclaration

-----------------------------------------------------------------------------
(* What a stage works with, and what it counts.                            *)

\* The modes validation goes by a declaration that is known, and has only
\* entries of it to look at; the probes of READ have none.
Working ==
  pc = "reading" =>
    IF ReadsModes
    THEN standing["port"] = "known" /\ todo \subseteq declared["port"]
    ELSE todo = {}

\* What was cleared was declared, and the declaration stays.
Clearing == cleared # {} => standing["port"] = "known"

Inv == Working /\ CountsAddUp /\ NoFalseContradiction /\ Clearing /\ ClearedByEntry

LEMMA InitInv == Init => Inv
  BY DEF Init, Inv, Working, CountsAddUp, NoFalseContradiction, Clearing, ClearedByEntry

\* A step that neither reads nor enters a stage.
LEMMA OutsideInv ==
  ASSUME Typed, Inv, pc' # "reading", UNCHANGED cleared,
         standing["port"] = "known" =>
           standing'["port"] = "known" /\ declared'["port"] = declared["port"],
         UNCHANGED allowClear
  PROVE  Inv'
  BY DEF Inv, Working, CountsAddUp, NoFalseContradiction, Clearing, ClearedByEntry

LEMMA PortKept ==
  ASSUME Typed, [Next]_vars, standing["port"] = "known"
  PROVE  standing'["port"] = "known" /\ declared'["port"] = declared["port"]
<1>1. Subject \in Types /\ "port" \in Types
  BY SubjectIsType DEF Typed, TypeOK, Types
<1>2. UNCHANGED cache \/ \E u \in Types : Consult(u)
  BY <1>1 DEF Next, Tool, Report, StartProbe, ListPorts, TryPort, FirstPort, OpenPortApi,
     EnterStage, ModesUnavailable, SkipStage, SkipMarker, ReadCounter, TryEntry, EndStage,
     LosePort, vars
<1>3. CASE UNCHANGED cache
  BY <1>3 DEF cache
<1>4. CASE \E u \in Types : Consult(u)
  BY <1>1, <1>4, ConsultKeeps DEF Typed, TypeOK
<1>5. QED
  BY <1>2, <1>3, <1>4

\* The counters seen so far, and one more.
LEMMA SeenFacts ==
  ASSUME stat \in Stats, stat' = stat + 1
  PROVE  /\ IsFiniteSet((1 .. stat - 1) \ Markers)
         /\ stat \in Markers => (1 .. stat' - 1) \ Markers = (1 .. stat - 1) \ Markers
         /\ stat \notin Markers =>
              /\ (1 .. stat' - 1) \ Markers = ((1 .. stat - 1) \ Markers) \cup {stat}
              /\ stat \notin (1 .. stat - 1) \ Markers
<1>1. stat \in Nat
  BY ProbeAssumption DEF Stats
<1>2. IsFiniteSet(1 .. stat - 1)
  BY <1>1, FS_Interval
<1>3. 1 .. stat' - 1 = (1 .. stat - 1) \cup {stat}
  BY <1>1, ProbeAssumption DEF Stats
<1>4. stat \notin 1 .. stat - 1
  BY <1>1
<1>5. QED
  BY <1>2, <1>3, <1>4, FS_Subset

LEMMA CountsMeet ==
  ASSUME NEW f \in [Counts -> Nat], NEW c \in Counts
  PROVE  /\ Add(f, c) \in [Counts -> Nat]
         /\ Add(f, c)["accepted"] = IF c = "accepted" THEN f["accepted"] + 1 ELSE f["accepted"]
         /\ Add(f, c)["contradiction"] =
              IF c = "contradiction" THEN f["contradiction"] + 1 ELSE f["contradiction"]
         /\ Add(f, c)["failure"] = IF c = "failure" THEN f["failure"] + 1 ELSE f["failure"]
         /\ Add(f, c)["unclaimed"] = IF c = "unclaimed" THEN f["unclaimed"] + 1 ELSE f["unclaimed"]
  BY AddTyped DEF Counts

\* What one read adds to the counts, and why.
LEMMA ReadEffect ==
  ASSUME TypeOK, ReadCounter
  PROVE  LET open == Known /\ EntriesOf(stat) = {} IN
         \E ok \in ReadResults(stat, "READ"), claimed \in BOOLEAN :
           /\ claimed => Known /\ \E e \in EntriesOf(stat) : "READ" \in e[2]
           /\ count' = Add(IF open THEN Add(count, "unclaimed") ELSE count,
                           Verdict(ok, claimed))
           /\ open => ~claimed
<1> DEFINE first == {e \in EntriesOf(stat) : Known}
           noted == IF Known /\ first = {} THEN Add(count, "unclaimed") ELSE count
<1>1. PICK ok \in ReadResults(stat, "READ") :
        \/ first = {} /\ count' = Add(noted, Verdict(ok, FALSE))
        \/ \E e \in first : count' = Add(noted, Verdict(ok, "READ" \in e[2]))
  BY Zenon DEF ReadCounter
<1>2. Known => first = EntriesOf(stat)
  OBVIOUS
<1>3. noted = IF Known /\ EntriesOf(stat) = {} THEN Add(count, "unclaimed") ELSE count
  BY <1>2
<1>4. \A e \in first : Known /\ e \in EntriesOf(stat)
  OBVIOUS
<1> HIDE DEF first, noted
<1>5. CASE first = {} /\ count' = Add(noted, Verdict(ok, FALSE))
  BY <1>3, <1>5, Zenon
<1>6. CASE \E e \in first : count' = Add(noted, Verdict(ok, "READ" \in e[2]))
  <2>1. PICK e \in first : count' = Add(noted, Verdict(ok, "READ" \in e[2]))
    BY <1>6
  <2>2. Known /\ e \in EntriesOf(stat)
    BY <1>4, <2>1
  <2>3. EntriesOf(stat) # {}
    BY <2>2
  <2>4. CASE "READ" \in e[2]
    <3>1. count' = Add(noted, Verdict(ok, TRUE))
      BY <2>1, <2>4
    <3>2. QED
      BY <1>3, <2>2, <2>3, <2>4, <3>1
  <2>5. CASE "READ" \notin e[2]
    <3>1. Verdict(ok, "READ" \in e[2]) = Verdict(ok, FALSE)
      BY <2>5 DEF Verdict
    <3>2. count' = Add(noted, Verdict(ok, FALSE))
      BY <2>1, <3>1, Zenon
    <3>3. QED
      BY <1>3, <2>3, <3>2
  <2>6. QED
    BY <2>4, <2>5
<1>7. QED
  BY <1>1, <1>5, <1>6

\* A read counts as it should: one more result, at most one more contradiction
\* or unclaimed counter.
LEMMA ReadCountsUp ==
  ASSUME Typed, CountsAddUp, pc = "reading", ~ReadsModes, ReadCounter
  PROVE  CountsAddUp'
<1> DEFINE seen == (1 .. stat - 1) \ Markers
           open == {s \in seen : Known /\ EntriesOf(s) = {}}
           opens == Known /\ EntriesOf(stat) = {}
           f == count
<1>0. TypeOK
  BY DEF Typed
<1>1. /\ count' \in [Counts -> Nat]
      /\ stat' = stat + 1 /\ stat \in Stats /\ stat \notin Markers
  BY <1>0, ReadTyped
<1>2. UNCHANGED <<pc, standing, declared, stage>>
  BY DEF ReadCounter, cache
<1>3. UNCHANGED Subject /\ UNCHANGED ReadsModes /\ UNCHANGED Known
  BY <1>2 DEF Subject, ReadsModes, Known
<1>4. \A s : EntriesOf(s)' = EntriesOf(s)
  BY <1>2, <1>3 DEF EntriesOf
<1>5. /\ IsFiniteSet(seen) /\ seen' = seen \cup {stat} /\ stat \notin seen
  BY <1>1, SeenFacts
<1>6. /\ Cardinality(seen') = Cardinality(seen) + 1
      /\ Cardinality(seen) \in Nat
  BY <1>5, FS_AddElement, FS_CardinalityType
<1>7. open' = IF opens THEN open \cup {stat} ELSE open
  BY <1>3, <1>4, <1>5
<1>8. /\ IsFiniteSet(open) /\ stat \notin open
  BY <1>5, FS_Subset
<1>9. /\ Cardinality(open') = IF opens THEN Cardinality(open) + 1 ELSE Cardinality(open)
      /\ Cardinality(open) \in Nat
  BY <1>7, <1>8, FS_AddElement, FS_CardinalityType
<1>10. /\ f["accepted"] + f["contradiction"] + f["failure"] = Cardinality(seen)
       /\ f["unclaimed"] = Cardinality(open)
       /\ f["contradiction"] + f["unclaimed"] <= Cardinality(seen)
  BY DEF CountsAddUp
<1>11. PICK ok \in ReadResults(stat, "READ"), claimed \in BOOLEAN :
         /\ count' = Add(IF opens THEN Add(count, "unclaimed") ELSE count, Verdict(ok, claimed))
         /\ opens => ~claimed
  BY <1>0, ReadEffect
<1> DEFINE v == Verdict(ok, claimed)
           noted == IF opens THEN Add(count, "unclaimed") ELSE count
<1>12. v \in {"accepted", "contradiction", "failure"} /\ (opens => v # "contradiction")
  BY <1>11 DEF Verdict
<1>13. /\ noted \in [Counts -> Nat] /\ count \in [Counts -> Nat]
       /\ noted["accepted"] = f["accepted"] /\ noted["contradiction"] = f["contradiction"]
       /\ noted["failure"] = f["failure"]
       /\ noted["unclaimed"] = IF opens THEN f["unclaimed"] + 1 ELSE f["unclaimed"]
  <2>1. count \in [Counts -> Nat] /\ "unclaimed" \in Counts
    BY <1>0 DEF TypeOK, Counts
  <2>2. QED
    BY <2>1, CountsMeet
<1>14. v \in Counts
  BY <1>12 DEF Counts
<1>15. count' = Add(noted, v)
  BY <1>11
<1> HIDE DEF v, noted, opens, seen, open
<1>16. /\ count'["accepted"] = IF v = "accepted" THEN f["accepted"] + 1 ELSE f["accepted"]
       /\ count'["contradiction"] =
            IF v = "contradiction" THEN f["contradiction"] + 1 ELSE f["contradiction"]
       /\ count'["failure"] = IF v = "failure" THEN f["failure"] + 1 ELSE f["failure"]
       /\ count'["unclaimed"] = IF opens THEN f["unclaimed"] + 1 ELSE f["unclaimed"]
  <2>1. v # "unclaimed"
    BY <1>12
  <2>2. QED
    BY <1>13, <1>14, <1>15, <2>1, CountsMeet
<1>17. /\ f["accepted"] \in Nat /\ f["contradiction"] \in Nat /\ f["failure"] \in Nat
       /\ f["unclaimed"] \in Nat
  BY <1>13 DEF Counts
<1>18. /\ count'["accepted"] + count'["contradiction"] + count'["failure"] = Cardinality(seen')
       /\ count'["unclaimed"] = Cardinality(open')
       /\ count'["contradiction"] + count'["unclaimed"] <= Cardinality(seen')
  <2>1. CASE v = "accepted"
    BY <1>6, <1>9, <1>10, <1>16, <1>17, <2>1
  <2>2. CASE v = "failure"
    BY <1>6, <1>9, <1>10, <1>16, <1>17, <2>2
  <2>3. CASE v = "contradiction"
    BY <1>6, <1>9, <1>10, <1>12, <1>16, <1>17, <2>3
  <2>4. QED
    BY <1>12, <2>1, <2>2, <2>3
<1>19. QED
  BY <1>18 DEF CountsAddUp, seen, open

\* An honest adapter's declared reads of an object that is there succeed.
LEMMA HonestReads ==
  ASSUME NEW s, NEW m, honest, ~lost \/ Subject = "switch",
         \E e \in EntriesOf(s) : m \in e[2]
  PROVE  ReadResults(s, m) = {TRUE}
  BY DEF ReadResults

LEMMA ReadAccusesRightly ==
  ASSUME Typed, NoFalseContradiction, pc = "reading", ReadCounter
  PROVE  NoFalseContradiction'
<1>1. UNCHANGED <<honest, lost, pc, stage>>
  BY DEF ReadCounter, config
<1>2. UNCHANGED Subject
  BY <1>1 DEF Subject
<1> SUFFICES ASSUME honest, ~lost \/ Subject = "switch"
             PROVE  count'["contradiction"] = 0
  BY <1>1, <1>2 DEF NoFalseContradiction
<1>3. count \in [Counts -> Nat] /\ count["contradiction"] = 0
  BY DEF NoFalseContradiction, Typed, TypeOK
<1>4. PICK ok \in ReadResults(stat, "READ"), claimed \in BOOLEAN :
        /\ claimed => \E e \in EntriesOf(stat) : "READ" \in e[2]
        /\ count' = Add(IF Known /\ EntriesOf(stat) = {} THEN Add(count, "unclaimed") ELSE count,
                        Verdict(ok, claimed))
  BY ReadEffect DEF Typed
<1>5. Verdict(ok, claimed) \in {"accepted", "failure"}
  <2>1. CASE claimed
    <3>1. ReadResults(stat, "READ") = {TRUE}
      BY <1>4, <2>1, HonestReads
    <3>2. ok
      BY <3>1
    <3>3. QED
      BY <3>2 DEF Verdict
  <2>2. CASE ~claimed
    BY <2>2 DEF Verdict
  <2>3. QED
    BY <2>1, <2>2
<1> DEFINE noted == IF Known /\ EntriesOf(stat) = {} THEN Add(count, "unclaimed") ELSE count
<1>6. /\ noted \in [Counts -> Nat]
      /\ noted["contradiction"] = 0
  BY <1>3, CountsMeet DEF Counts
<1>7. count' = Add(noted, Verdict(ok, claimed))
  BY <1>4
<1>8. Verdict(ok, claimed) \in Counts /\ Verdict(ok, claimed) # "contradiction"
  BY <1>5 DEF Counts
<1> HIDE DEF noted
<1>9. QED
  BY <1>6, <1>7, <1>8, CountsMeet

\* The modes validation reads under a mode its entry declares.
LEMMA TryEffect ==
  ASSUME TypeOK, TryEntry, todo \subseteq declared["port"], Subject = "port"
  PROVE  \E e \in declared["port"] :
           LET m == SelectMode(e[2]) IN
           /\ \/ count' = count
              \/ count' = Add(count, "no mode")
              \/ /\ m # "none"
                 /\ \E ok \in ReadResults(e[1], m) :
                      count' = Add(count, IF ok THEN "accepted" ELSE "contradiction")
           /\ \/ cleared' = cleared
              \/ /\ m = "READ_AND_CLEAR" /\ e[1] \notin Markers
                 /\ cleared' = cleared \cup {<<Subject, e[1]>>}
<1>1. PICK e \in todo :
        /\ todo' = todo \ {e}
        /\ IF e[1] \in Markers
           THEN UNCHANGED <<count, cleared>>
           ELSE IF SelectMode(e[2]) = "none"
           THEN count' = Add(count, "no mode") /\ UNCHANGED cleared
           ELSE /\ \E ok \in ReadResults(e[1], SelectMode(e[2])) :
                     count' = Add(count, IF ok THEN "accepted" ELSE "contradiction")
                /\ cleared' = IF SelectMode(e[2]) = "READ_AND_CLEAR"
                              THEN cleared \cup {<<Subject, e[1]>>} ELSE cleared
  BY Zenon DEF TryEntry
<1>2. e \in declared["port"]
  BY <1>1
<1>3. QED
  BY <1>1, <1>2

LEMMA ModeIsDeclared ==
  ASSUME NEW modes
  PROVE  /\ SelectMode(modes) # "none" => SelectMode(modes) \in modes
         /\ SelectMode(modes) = "READ_AND_CLEAR" => allowClear /\ "READ" \notin modes
  BY DEF SelectMode

\* Contradictions and clears of the modes validation rest on what is declared.
LEMMA TryInv == ASSUME Typed, Inv, TryEntry PROVE Inv'
<1>1. /\ UNCHANGED <<honest, allowClear, lost, pc, standing, declared, stage, stat>>
      /\ pc = "reading"
  BY DEF TryEntry, config, cache
<1>2. /\ UNCHANGED <<Subject, ReadsModes>>
  BY <1>1 DEF Subject, ReadsModes
<1>3. todo # {}
  BY DEF TryEntry
<1>4. /\ ReadsModes /\ Subject = "port"
      /\ standing["port"] = "known" /\ todo \subseteq declared["port"]
  BY <1>1, <1>3 DEF Inv, Working, ReadsModes, Subject
<1>5. todo' \subseteq todo
  BY TryTyped DEF Typed
<1>6. PICK e \in declared["port"] :
        /\ \/ count' = count
           \/ count' = Add(count, "no mode")
           \/ /\ SelectMode(e[2]) # "none"
              /\ \E ok \in ReadResults(e[1], SelectMode(e[2])) :
                   count' = Add(count, IF ok THEN "accepted" ELSE "contradiction")
        /\ \/ cleared' = cleared
           \/ /\ SelectMode(e[2]) = "READ_AND_CLEAR" /\ e[1] \notin Markers
              /\ cleared' = cleared \cup {<<Subject, e[1]>>}
  BY <1>4, TryEffect, Zenon DEF Typed
<1>7. Working' /\ CountsAddUp' /\ Clearing'
  BY <1>1, <1>2, <1>4, <1>5 DEF Working, CountsAddUp, Clearing
<1>8. NoFalseContradiction'
  <2> SUFFICES ASSUME honest, ~lost \/ Subject = "switch"
               PROVE  count'["contradiction"] = 0
    BY <1>1, <1>2 DEF NoFalseContradiction
  <2>1. count \in [Counts -> Nat] /\ count["contradiction"] = 0
    BY <1>1 DEF Inv, NoFalseContradiction, Typed, TypeOK
  <2>2. SelectMode(e[2]) # "none" => ReadResults(e[1], SelectMode(e[2])) = {TRUE}
    <3>1. e \in EntriesOf(e[1])
      BY <1>4, <1>6 DEF EntriesOf
    <3>2. QED
      BY <3>1, ModeIsDeclared, HonestReads
  <2>3. \/ count' = count
        \/ count' = Add(count, "no mode")
        \/ count' = Add(count, "accepted")
    <3>1. CASE /\ SelectMode(e[2]) # "none"
               /\ \E ok \in ReadResults(e[1], SelectMode(e[2])) :
                    count' = Add(count, IF ok THEN "accepted" ELSE "contradiction")
      <4>1. PICK ok \in ReadResults(e[1], SelectMode(e[2])) :
              count' = Add(count, IF ok THEN "accepted" ELSE "contradiction")
        BY <3>1
      <4>2. ReadResults(e[1], SelectMode(e[2])) = {TRUE}
        BY <2>2, <3>1
      <4>3. ok = TRUE
        BY <4>2
      <4>4. QED
        BY <4>1, <4>3
    <3>2. QED
      BY <1>6, <3>1
  <2>4. QED
    BY <2>1, <2>3, CountsMeet DEF Counts
<1>9. ClearedByEntry'
  <2> SUFFICES ASSUME NEW s \in cleared'
               PROVE  /\ allowClear
                      /\ s[1] = "port"
                      /\ s[2] \notin Markers
                      /\ \E d \in declared[s[1]] :
                           d[1] = s[2] /\ "READ_AND_CLEAR" \in d[2] /\ "READ" \notin d[2]
    BY <1>1 DEF ClearedByEntry
  <2>1. CASE s \in cleared
    BY <2>1 DEF Inv, ClearedByEntry
  <2>2. CASE s \notin cleared
    <3>1. /\ SelectMode(e[2]) = "READ_AND_CLEAR" /\ e[1] \notin Markers
          /\ s = <<Subject, e[1]>>
      <4>1. \/ cleared' = cleared
            \/ /\ SelectMode(e[2]) = "READ_AND_CLEAR" /\ e[1] \notin Markers
               /\ cleared' = cleared \cup {<<Subject, e[1]>>}
        BY <1>6
      <4>2. QED
        BY <2>2, <4>1
    <3>2. allowClear /\ "READ_AND_CLEAR" \in e[2] /\ "READ" \notin e[2]
      BY <3>1, ModeIsDeclared
    <3>3. QED
      BY <1>4, <3>1, <3>2
  <2>3. QED
    BY <2>1, <2>2
<1>10. QED
  BY <1>7, <1>8, <1>9 DEF Inv

LEMMA EnterInv == ASSUME Typed, Inv, EnterStage, [Next]_vars PROVE Inv'
<1>1. /\ UNCHANGED <<allowClear, stage, cleared>>
      /\ pc' = "reading" /\ count' = NoCounts
      /\ ReadsModes => standing'[Subject] = "known"
      /\ stat' = IF ReadsModes THEN NumStats + 1 ELSE 1
      /\ todo' = IF ReadsModes THEN declared'[Subject] ELSE {}
  BY DEF EnterStage, config
<1>2. UNCHANGED ReadsModes /\ (ReadsModes => Subject = "port")
  BY <1>1 DEF ReadsModes, Subject
<1>3. Working'
  BY <1>1, <1>2 DEF Working
<1>4. standing["port"] = "known" =>
        standing'["port"] = "known" /\ declared'["port"] = declared["port"]
  BY PortKept
<1>5. Clearing' /\ ClearedByEntry'
  BY <1>1, <1>4 DEF Inv, Clearing, ClearedByEntry
<1>6. /\ count'["accepted"] = 0 /\ count'["contradiction"] = 0
      /\ count'["failure"] = 0 /\ count'["unclaimed"] = 0
  BY <1>1 DEF NoCounts, Counts
<1>7. NoFalseContradiction'
  BY <1>6 DEF NoFalseContradiction
<1>8. CountsAddUp'
  <2> DEFINE seen == (1 .. stat - 1) \ Markers
             open == {s \in seen : Known /\ EntriesOf(s) = {}}
  <2>1. ~ReadsModes => seen' = {}
    <3>1. ~ReadsModes => stat' = 1
      BY <1>1
    <3>2. 1 .. 1 - 1 = {}
      OBVIOUS
    <3>3. QED
      BY <3>1, <3>2
  <2>2. ~ReadsModes => open' = {}
    BY <2>1
  <2>3. Cardinality({}) = 0
    BY FS_EmptySet
  <2> HIDE DEF seen, open
  <2>4. ~ReadsModes => /\ count'["accepted"] + count'["contradiction"] + count'["failure"]
                             = Cardinality(seen')
                       /\ count'["unclaimed"] = Cardinality(open')
                       /\ count'["contradiction"] + count'["unclaimed"] <= Cardinality(seen')
    BY <1>6, <2>1, <2>2, <2>3
  <2>5. QED
    BY <1>2, <2>4 DEF CountsAddUp, seen, open
<1>9. QED
  BY <1>3, <1>5, <1>7, <1>8 DEF Inv

LEMMA ReadInv == ASSUME Typed, Inv, ReadCounter PROVE Inv'
<1>1. /\ UNCHANGED <<allowClear, pc, standing, declared, stage, todo, cleared>>
      /\ pc = "reading" /\ ~ReadsModes
  BY DEF ReadCounter, AtCounter, config, cache
<1>2. Working' /\ Clearing' /\ ClearedByEntry'
  BY <1>1 DEF Inv, Working, Clearing, ClearedByEntry, ReadsModes
<1>3. QED
  BY <1>1, <1>2, ReadCountsUp, ReadAccusesRightly DEF Inv

LEMMA MarkerInv == ASSUME Typed, Inv, SkipMarker PROVE Inv'
<1>1. /\ UNCHANGED <<honest, allowClear, lost, pc, standing, declared, stage, todo, count, cleared>>
      /\ stat' = stat + 1 /\ stat \in Stats /\ stat \in Markers
  BY ProbeAssumption DEF SkipMarker, AtCounter, Typed, TypeOK, Stats, config, cache
<1>2. UNCHANGED <<Subject, ReadsModes, Known>> /\ \A s : EntriesOf(s)' = EntriesOf(s)
  BY <1>1 DEF Subject, ReadsModes, Known, EntriesOf
<1>3. (1 .. stat' - 1) \ Markers = (1 .. stat - 1) \ Markers
  BY <1>1, SeenFacts
<1>4. CountsAddUp'
  BY <1>1, <1>2, <1>3 DEF Inv, CountsAddUp
<1>5. QED
  BY <1>1, <1>2, <1>4 DEF Inv, Working, NoFalseContradiction, Clearing, ClearedByEntry

LEMMA InvInductive == Typed /\ Inv /\ [Next]_vars => Inv'
<1> SUFFICES ASSUME Typed, Inv, [Next]_vars
             PROVE  Inv'
  OBVIOUS
<1>0. standing["port"] = "known" =>
        standing'["port"] = "known" /\ declared'["port"] = declared["port"]
  BY PortKept
<1>1. CASE (\E t \in Types : Report(t)) \/ StartProbe \/ ListPorts \/ TryPort \/ FirstPort
             \/ OpenPortApi
  <2>1. pc' # "reading" /\ UNCHANGED cleared /\ UNCHANGED allowClear
    BY <1>1 DEF Report, StartProbe, ListPorts, TryPort, FirstPort, OpenPortApi, config
  <2>2. QED
    BY <1>0, <2>1, OutsideInv
<1>2. CASE ModesUnavailable \/ SkipStage \/ EndStage
  <2>1. pc' # "reading" /\ UNCHANGED cleared /\ UNCHANGED allowClear
    BY <1>2 DEF ModesUnavailable, SkipStage, EndStage, Advance, config
  <2>2. QED
    BY <1>0, <2>1, OutsideInv
<1>3. CASE EnterStage
  BY <1>3, EnterInv
<1>4. CASE SkipMarker
  BY <1>4, MarkerInv
<1>5. CASE ReadCounter
  BY <1>5, ReadInv
<1>6. CASE TryEntry
  BY <1>6, TryInv
<1>7. CASE LosePort \/ UNCHANGED vars
  <2>1. /\ UNCHANGED <<honest, allowClear, pc, standing, declared, stage, stat, todo, count, cleared>>
        /\ lost => lost'
    BY <1>7 DEF LosePort, vars, config, cache, work
  <2>2. UNCHANGED <<Subject, ReadsModes, Known>> /\ \A s : EntriesOf(s)' = EntriesOf(s)
    BY <2>1 DEF Subject, ReadsModes, Known, EntriesOf
  <2>3. CountsAddUp'
    BY <2>1, <2>2 DEF Inv, CountsAddUp
  <2>4. QED
    BY <2>1, <2>2, <2>3 DEF Inv, Working, NoFalseContradiction, Clearing, ClearedByEntry
<1>8. QED
  BY <1>1, <1>2, <1>3, <1>4, <1>5, <1>6, <1>7 DEF Next, Tool

LEMMA ProbeInvariant == Spec => [](Typed /\ Inv)
  BY InitTyped, TypedInductive, InitInv, InvInductive, PTL DEF Spec

\* The summary of a probe adds up for any number of counters: every counter that
\* is no marker is counted once, whatever was declared of it and however it reads.
THEOREM ProbeCountsAddUp == Spec => []CountsAddUp
<1>1. Inv => CountsAddUp
  BY DEF Inv
<1>2. QED
  BY <1>1, ProbeInvariant, PTL

\* An adapter whose declarations are true is not accused, in neither of the two
\* validations, as long as the sampled object exists.
THEOREM ProbeNoFalseContradiction == Spec => []NoFalseContradiction
<1>1. Inv => NoFalseContradiction
  BY DEF Inv
<1>2. QED
  BY <1>1, ProbeInvariant, PTL

\* A counter is cleared only with --allow-clear, on the port, and by an entry of the
\* declaration that says READ_AND_CLEAR and not READ, whatever another entry for
\* the same counter says.
THEOREM ProbeClearedByEntry == Spec => []ClearedByEntry
<1>1. Inv => ClearedByEntry
  BY DEF Inv
<1>2. QED
  BY <1>1, ProbeInvariant, PTL

\* Whoever is contradicted by a READ has declared READ of that counter.
THEOREM ProbeContradictionIsDeclared == Spec => ContradictionIsDeclared
<1>1. Typed /\ Inv /\ [Next]_vars =>
        [pc = "reading" /\ ~ReadsModes /\ count'["contradiction"] > count["contradiction"] =>
           /\ Known
           /\ stat \notin Markers
           /\ \E e \in EntriesOf(stat) : "READ" \in e[2]]_vars
  <2> SUFFICES ASSUME Typed, Inv, [Next]_vars, pc = "reading", ~ReadsModes,
                      count'["contradiction"] > count["contradiction"]
               PROVE  /\ Known
                      /\ stat \notin Markers
                      /\ \E e \in EntriesOf(stat) : "READ" \in e[2]
    OBVIOUS
  <2>1. count \in [Counts -> Nat] /\ count["contradiction"] \in Nat
    BY DEF Typed, TypeOK, Counts
  <2>2. count' # count
    BY <2>1
  <2>3. todo = {}
    BY DEF Inv, Working
  <2>4. ReadCounter
    BY <2>2, <2>3 DEF Next, Tool, Report, StartProbe, ListPorts, TryPort, FirstPort, OpenPortApi,
       EnterStage, ModesUnavailable, SkipStage, SkipMarker, TryEntry, EndStage, LosePort, vars, work
  <2>5. PICK ok \in ReadResults(stat, "READ"), claimed \in BOOLEAN :
          /\ claimed => Known /\ \E e \in EntriesOf(stat) : "READ" \in e[2]
          /\ count' = Add(IF Known /\ EntriesOf(stat) = {} THEN Add(count, "unclaimed") ELSE count,
                          Verdict(ok, claimed))
    BY <2>4, ReadEffect DEF Typed
  <2> DEFINE noted == IF Known /\ EntriesOf(stat) = {} THEN Add(count, "unclaimed") ELSE count
  <2>6. noted \in [Counts -> Nat] /\ noted["contradiction"] = count["contradiction"]
    BY <2>1, CountsMeet DEF Counts
  <2>7. count' = Add(noted, Verdict(ok, claimed)) /\ Verdict(ok, claimed) \in Counts
    BY <2>5 DEF Verdict, Counts
  <2> HIDE DEF noted
  <2>8. Verdict(ok, claimed) = "contradiction"
    BY <2>1, <2>6, <2>7, CountsMeet
  <2>9. claimed
    BY <2>8 DEF Verdict
  <2>10. QED
    BY <2>4, <2>5, <2>9 DEF ReadCounter
<1>2. QED
  BY <1>1, ProbeInvariant, PTL DEF Spec, ContradictionIsDeclared

-----------------------------------------------------------------------------
(* How much is left.                                                       *)

\* Turns of the probe: up to the port API, and two for each stage.
Turns ==
  CASE pc = "report" -> 14
    [] pc = "list" -> 13
    [] pc = "select" -> 12
    [] pc = "open" -> 11
    [] pc = "stage" -> 12 - 2 * stage
    [] pc = "reading" -> 11 - 2 * stage
    [] OTHER -> 0

Unread == {t \in Types : standing[t] = "unread"}

\* Steps of a turn: types to report, ports to look at, counters and entries to read.
Steps ==
  CASE pc = "report" -> Cardinality(Unread)
    [] pc = "select" -> Len(ports) + 1 - at
    [] pc = "reading" -> NumStats + 1 - stat + Cardinality(todo)
    [] OTHER -> 0

Left == <<Turns, Steps>>

\* A declaration is finite, and so is what a stage works with.
Finite == \A t \in Types : IsFiniteSet(declared[t])

LEMMA FiniteInductive == Typed /\ Finite /\ [Next]_vars => Finite'
<1> SUFFICES ASSUME Typed, Finite, [Next]_vars, NEW u \in Types
             PROVE  IsFiniteSet(declared'[u])
  BY DEF Finite
<1>1. UNCHANGED declared \/ \E t \in Types : Consult(t)
  <2>1. Subject \in Types
    BY SubjectIsType DEF Typed, TypeOK
  <2>2. QED
    BY <2>1 DEF Next, Tool, Report, StartProbe, ListPorts, TryPort, FirstPort, OpenPortApi,
       EnterStage, ModesUnavailable, SkipStage, SkipMarker, ReadCounter, TryEntry, EndStage,
       LosePort, vars, cache
<1>2. CASE UNCHANGED declared
  BY <1>2 DEF Finite
<1>3. ASSUME NEW t \in Types, Consult(t) PROVE IsFiniteSet(declared'[u])
  <2>1. CASE UNCHANGED declared
    BY <2>1 DEF Finite
  <2>2. CASE \E d \in Declarations[t] : declared' = [declared EXCEPT ![t] = d]
    <3>1. PICK d \in Declarations[t] : declared' = [declared EXCEPT ![t] = d]
      BY <2>2
    <3>2. IsFiniteSet(d) /\ declared \in [Types -> SUBSET Entry]
      BY ProbeAssumption DEF Typed, TypeOK
    <3>3. QED
      BY <3>1, <3>2 DEF Finite
  <2>3. QED
    BY <1>3, <2>1, <2>2 DEF Consult, cache
<1>4. QED
  BY <1>1, <1>2, <1>3

LEMMA UnreadFinite == IsFiniteSet(Unread) /\ Cardinality(Unread) \in Nat
<1>1. IsFiniteSet({"port"})
  BY FS_EmptySet, FS_AddElement
<1>2. IsFiniteSet({"port", "queue"})
  BY <1>1, FS_AddElement
<1>3. IsFiniteSet({"port", "queue", "ipg"})
  BY <1>2, FS_AddElement
<1>4. IsFiniteSet(Types)
  BY <1>3, FS_AddElement DEF Types
<1>5. Unread \in SUBSET Types
  BY DEF Unread
<1>6. QED
  BY <1>4, <1>5, FS_Subset, FS_CardinalityType

LEMMA LeftType ==
  ASSUME Typed, Inv, Finite
  PROVE  /\ Turns \in Nat /\ Steps \in Nat
         /\ Left \in [1 .. 2 -> Nat]
         /\ pc = "reading" => IsFiniteSet(todo) /\ Cardinality(todo) \in Nat
<1>1. stage \in 1 .. 5
  BY DEF Typed, TypeOK, Stages
<1>2. Turns \in Nat
  BY <1>1 DEF Turns
<1>3. pc = "reading" => IsFiniteSet(todo) /\ Cardinality(todo) \in Nat
  <2> SUFFICES ASSUME pc = "reading" PROVE IsFiniteSet(todo) /\ Cardinality(todo) \in Nat
    OBVIOUS
  <2>1. IsFiniteSet(todo)
    <3>1. CASE ReadsModes
      <4>1. todo \in SUBSET declared["port"] /\ IsFiniteSet(declared["port"])
        BY <3>1 DEF Inv, Working, Finite, Types
      <4>2. QED
        BY <4>1, FS_Subset
    <3>2. CASE ~ReadsModes
      BY <3>2, FS_EmptySet DEF Inv, Working
    <3>3. QED
      BY <3>1, <3>2
  <2>2. QED
    BY <2>1, FS_CardinalityType
<1>4. Steps \in Nat
  <2>1. /\ NumStats \in Nat /\ stat \in 1 .. NumStats + 1
        /\ Len(ports) \in Nat /\ at \in 1 .. Len(ports) + 1
    <3>1. Len(ports) \in Nat
      BY ProbeAssumption DEF Typed, TypeOK
    <3>2. QED
      BY <3>1, ProbeAssumption DEF Typed, TypeOK
  <2>2. QED
    BY <1>3, <2>1, UnreadFinite DEF Steps
<1>5. QED
  BY <1>2, <1>3, <1>4 DEF Left

\* A step that goes on to another turn leaves fewer of them.
LEMMA TurnsDown ==
  ASSUME Typed, Typed',
         StartProbe \/ ListPorts \/ FirstPort \/ OpenPortApi \/ EnterStage
           \/ ModesUnavailable \/ SkipStage \/ EndStage
  PROVE  Turns' < Turns
<1>1. stage \in 1 .. 5 /\ stage' \in 1 .. 5 /\ Len(Stages) = 5
  BY DEF Typed, TypeOK, Stages
<1>2. CASE StartProbe \/ ListPorts \/ FirstPort
  <2>1. \/ pc = "report" /\ pc' = "list"
        \/ pc = "list" /\ pc' \in {"select", "done"}
        \/ pc = "select" /\ pc' = "open"
    BY <1>2 DEF StartProbe, ListPorts, FirstPort
  <2>2. QED
    BY <2>1 DEF Turns
<1>3. CASE OpenPortApi
  <2>1. pc = "open" /\ pc' \in {"stage", "done"}
    BY <1>3 DEF OpenPortApi
  <2>2. QED
    BY <1>1, <2>1 DEF Turns
<1>4. CASE EnterStage
  <2>1. pc = "stage" /\ pc' = "reading" /\ stage' = stage
    BY <1>4 DEF EnterStage
  <2>2. QED
    BY <1>1, <2>1 DEF Turns
<1>5. CASE ModesUnavailable \/ SkipStage \/ EndStage
  <2>1. pc \in {"stage", "reading"} /\ Advance
    BY <1>5 DEF ModesUnavailable, SkipStage, EndStage
  <2>2. pc' = "done" \/ (pc' = "stage" /\ stage' = stage + 1)
    BY <2>1 DEF Advance
  <2>3. QED
    BY <1>1, <2>1, <2>2 DEF Turns
<1>6. QED
  BY <1>2, <1>3, <1>4, <1>5

\* The steps of a turn are fewer after each of them, but for a type that is
\* reported again, which changes nothing.
LEMMA StepsDown ==
  ASSUME Typed, Typed', Inv, Finite, vars' # vars,
         (\E t \in Types : Report(t)) \/ TryPort \/ SkipMarker \/ ReadCounter \/ TryEntry
  PROVE  Turns' < Turns \/ (Turns' = Turns /\ Steps' < Steps)
<1>1. CASE \E t \in Types : Report(t)
  <2>1. PICK t \in Types : Report(t)
    BY <1>1
  <2>2. Consult(t) /\ pc = "report" /\ UNCHANGED <<config, lost, pc, sampled, work, cleared>>
    BY <2>1 DEF Report
  <2>3. standing[t] = "unread"
    BY <2>2 DEF Consult, vars
  <2>4. standing' = [standing EXCEPT ![t] = "known"]
          \/ standing' = [standing EXCEPT ![t] = "unavailable"]
    BY <2>2, <2>3 DEF Consult
  <2>5. Unread' = Unread \ {t} /\ t \in Unread
    BY <2>3, <2>4 DEF Unread, Typed, TypeOK
  <2>6. Cardinality(Unread') = Cardinality(Unread) - 1
    BY <2>5, UnreadFinite, FS_RemoveElement
  <2>7. Turns' = Turns /\ Steps = Cardinality(Unread) /\ Steps' = Cardinality(Unread')
    BY <2>2 DEF Turns, Steps
  <2>8. QED
    BY <2>6, <2>7, UnreadFinite
<1>2. CASE TryPort
  <2>1. /\ pc = "select" /\ ports' = ports
        /\ pc' = "open" \/ (pc' = pc /\ at' = at + 1)
    BY <1>2 DEF TryPort
  <2>2. Len(ports) \in Nat /\ at \in Nat
    BY ProbeAssumption DEF Typed, TypeOK
  <2>3. QED
    BY <2>1, <2>2 DEF Turns, Steps
<1>3. CASE SkipMarker \/ ReadCounter
  <2>1. pc = "reading" /\ UNCHANGED <<pc, stage, todo>> /\ stat' = stat + 1
    BY <1>3 DEF SkipMarker, ReadCounter, AtCounter
  <2>2. Cardinality(todo) \in Nat /\ NumStats \in Nat /\ stat \in Nat
    BY <2>1, LeftType, ProbeAssumption DEF Typed, TypeOK
  <2>3. QED
    BY <2>1, <2>2 DEF Turns, Steps
<1>4. CASE TryEntry
  <2>1. pc = "reading" /\ UNCHANGED <<pc, stage, stat>> /\ \E e \in todo : todo' = todo \ {e}
    BY <1>4 DEF TryEntry
  <2>2. IsFiniteSet(todo) /\ Cardinality(todo) \in Nat /\ NumStats \in Nat /\ stat \in Nat
    BY <2>1, LeftType, ProbeAssumption DEF Typed, TypeOK
  <2>3. Cardinality(todo') = Cardinality(todo) - 1
    BY <2>1, <2>2, FS_RemoveElement
  <2>4. QED
    BY <2>1, <2>2, <2>3 DEF Turns, Steps
<1>5. QED
  BY <1>1, <1>2, <1>3, <1>4

\* A probe winds down: every step of the tool that changes anything leaves it less
\* to do, whatever the adapter declares and answers, and losing the port adds
\* nothing. ProbeEnds rests on it.
THEOREM ProbeWindsDown ==
  Spec => /\ [](Left \in [1 .. 2 -> Nat])
          /\ [][(Tool => Down(2, Left', Left)) /\ (LosePort => Left' = Left)]_vars
<1> DEFINE Sizes == Turns \in Nat /\ Steps \in Nat
<1>0. Typed /\ Inv /\ Finite => Sizes
  BY LeftType
<1>1. Sizes => Left \in [1 .. 2 -> Nat]
  BY DEF Left
<1>2. Typed /\ Inv /\ Finite /\ Sizes /\ (Typed /\ Inv /\ Finite /\ Sizes)' =>
        [(Tool => Down(2, Left', Left)) /\ (LosePort => Left' = Left)]_vars
  <2> SUFFICES ASSUME Typed, Inv, Finite, Sizes, (Typed /\ Inv /\ Finite /\ Sizes)', vars' # vars
               PROVE  (Tool => Down(2, Left', Left)) /\ (LosePort => Left' = Left)
    OBVIOUS
  <2>1. ASSUME Tool PROVE Down(2, Left', Left)
    <3>1. /\ Turns \in Nat /\ Steps \in Nat
          /\ Turns' \in Nat /\ Steps' \in Nat
      OBVIOUS
    <3>2. Turns' < Turns \/ (Turns' = Turns /\ Steps' < Steps)
      BY <2>1, TurnsDown, StepsDown DEF Tool
    <3> HIDE DEF Turns, Steps
    <3>3. QED
      BY <3>1, <3>2, PairDown DEF Left
  <2>2. ASSUME LosePort PROVE Left' = Left
    BY <2>2 DEF LosePort, cache, sampled, work, Left, Turns, Steps, Unread
  <2>3. QED
    BY <2>1, <2>2
<1>3. Init => Finite
  BY FS_EmptySet DEF Init, Finite
<1>4. QED
  BY <1>0, <1>1, <1>2, <1>3, InitTyped, FiniteInductive, TypedInductive, InitInv, InvInductive, PTL
  DEF Spec

===============================================================================
