-------------------------- MODULE VerificationProofs --------------------------
(***************************************************************************)
(* What Verification guarantees for every list of objects, every metadata  *)
(* table, every cap on printed lines and every number of reconfigurations. *)
(* The argument has three layers: the types, what the condition cache      *)
(* holds, and from both why a truthful adapter is accused of nothing it    *)
(* refused. The last part is about the counts.                             *)
(***************************************************************************)
EXTENDS Verification, NumberProofs, FiniteSetTheorems

-----------------------------------------------------------------------------
(* Lemmas about the operators.                                             *)

LEMMA ObjectType == TypeOK => Object \in DOMAIN Meta
  BY VerificationAssumption DEF TypeOK, Object, Scans

\* An attribute of the scanned object is metadata.
LEMMA AttributeType ==
  ASSUME TypeOK, index \in Ids
  PROVE  Attribute \in Metadata
  BY ObjectType, VerificationAssumption DEF Attribute

LEMMA PredicateType ==
  ASSUME TypeOK, index \in Ids, NEW i \in 1 .. 2
  PROVE  Attribute.predicates[i] \in Predicate
  BY AttributeType DEF Metadata

\* The entries of a predicate's list are ids or null, and its references are
\* the entries that are not null.
LEMMA ReferenceType ==
  ASSUME NEW p \in Predicate
  PROVE  /\ Referenced(p) \subseteq Ids
         /\ \A j \in DOMAIN p.refs :
              p.refs[j] # Null => p.refs[j] \in Referenced(p)
         /\ \A a \in Referenced(p) :
              \E j \in DOMAIN p.refs : p.refs[j] = a /\ p.refs[j] # Null
<1>1. p.refs \in Seq(Ids \cup {Null})
  BY DEF Predicate
<1>2. \A j \in DOMAIN p.refs : p.refs[j] \in Ids \cup {Null}
  BY <1>1
<1>3. QED
  BY <1>2 DEF Referenced

\* What reading an attribute may return.
LEMMA ResultFacts ==
  ASSUME TypeOK, NEW a \in Ids
  PROVE  /\ GetResults(a) \subseteq Values \cup {"failed"}
         /\ ReferenceResults(a) \subseteq Values \cup {"failed"}
         /\ honest => /\ ReferenceResults(a) \subseteq {live[Object][a], "failed"}
                      /\ "failed" \in GetResults(a) => ~InForce(Object, a)
<1>1. live[Object][a] \in Values
  BY ObjectType DEF TypeOK
<1>2. live[Object][a] # "failed"
  BY <1>1 DEF Values
<1>3. QED
  BY <1>1, <1>2 DEF GetResults, ReferenceResults

\* Where the evaluation of an attribute goes next.
LEMMA GoToFacts ==
  ASSUME NEW i \in 1 .. 3, GoTo(i), list \in 1 .. 2
  PROVE  /\ pos' = 1
         /\ list' \in 1 .. 2
         /\ \/ /\ pc' = "condition"
               /\ list' \in i .. 2
               /\ Attribute.predicates[list'].on
               /\ \A j \in i .. 2 : Attribute.predicates[j].on => list' <= j
            \/ /\ pc' = "judge"
               /\ \A j \in i .. 2 : ~Attribute.predicates[j].on
  BY DEF GoTo

\* Counting keeps the type of a table of counters.
LEMMA CountType ==
  ASSUME NEW S, NEW f \in [S -> Nat], NEW k \in S
  PROVE  Count(f, k) \in [S -> Nat]
  BY DEF Count

-----------------------------------------------------------------------------
(* Types.                                                                  *)

\* An attribute is under examination only at a valid position, only a predicate
\* it has is evaluated, and the last object is followed by no other.
Scope ==
  /\ pc \in {"get", "condition", "judge"} => index \in Ids
  /\ pc = "condition" => Attribute.predicates[list].on
  /\ pc = "next" => scan < Len(Objects)

Typed == TypeOK /\ Scope

LEMMA InitTyped == Init => Typed
<1> SUFFICES ASSUME Init PROVE Typed
  OBVIOUS
<1>1. NumAttributes \in Nat /\ MaxReconfigs \in Nat /\ MaxLines \in Nat /\ Len(Objects) \in Nat
      /\ Len(Objects) > 0
  BY VerificationAssumption
<1>2. scan \in Scans /\ index \in 1 .. NumAttributes + 1 /\ reconfigs \in 0 .. MaxReconfigs
      /\ printed \in 0 .. MaxLines /\ list \in 1 .. 2 /\ pos \in Nat \ {0} /\ hidden \in Nat
  BY <1>1 DEF Init, Scans
<1>3. tally \in [Tallies -> Nat] /\ states \in [Conditions -> Nat] /\ reads \in [Ids -> Nat]
      /\ cache \in [Ids -> Entries] /\ condition \in Conditions
  BY DEF Init, Entries, Conditions
<1>4. QED
  BY <1>2, <1>3 DEF Init, Typed, Probes, Scope, TypeOK

\* The facts of every step that only walks on within the scanned object.
LEMMA ScanTyped ==
  ASSUME Typed, UNCHANGED <<asic, scan>>,
         pc' \in {"claim", "get", "condition", "judge", "next", "done"},
         index' \in 1 .. NumAttributes + 1, probe' \in Probes,
         list' \in 1 .. 2, pos' \in Nat \ {0}, condition' \in Conditions,
         cache' \in [Ids -> Entries], tally' \in [Tallies -> Nat],
         states' \in [Conditions -> Nat],
         contradicted' \subseteq (DOMAIN Meta) \X Ids,
         printed' \in 0 .. MaxLines, hidden' \in Nat, reads' \in [Ids -> Nat],
         Scope'
  PROVE  Typed'
  BY DEF Typed, TypeOK, asic

LEMMA IndexSteps ==
  ASSUME TypeOK, index \in Ids
  PROVE  index + 1 \in 1 .. NumAttributes + 1
  BY VerificationAssumption DEF TypeOK, Ids

LEMMA ClaimTyped ==
  Typed /\ (SkipAttribute \/ NotClaimed \/ Claimed \/ EndScan) => Typed'
<1> SUFFICES ASSUME Typed, SkipAttribute \/ NotClaimed \/ Claimed \/ EndScan PROVE Typed'
  OBVIOUS
<1>1. TypeOK
  BY DEF Typed
<1>2. CASE SkipAttribute
  <2>1. tally' \in [Tallies -> Nat]
    BY <1>1, <1>2, CountType DEF TypeOK, Tallies, Agreements, SkipAttribute
  <2>2. index' \in 1 .. NumAttributes + 1
    BY <1>1, <1>2, IndexSteps DEF SkipAttribute
  <2>3. QED
    BY <1>1, <1>2, <2>1, <2>2 DEF SkipAttribute, Typed, TypeOK, Scope, asic
<1>3. CASE NotClaimed
  <2>1. index' \in 1 .. NumAttributes + 1
    BY <1>1, <1>3, IndexSteps DEF NotClaimed
  <2>2. QED
    BY <1>1, <1>3, <2>1 DEF NotClaimed, Typed, TypeOK, Scope, asic, summary
<1>4. CASE Claimed
  <2>1. tally' \in [Tallies -> Nat]
    BY <1>1, <1>4, CountType DEF TypeOK, Tallies, Agreements, Claimed
  <2>2. QED
    BY <1>1, <1>4, <2>1 DEF Claimed, Typed, TypeOK, Scope, asic
<1>5. CASE EndScan
  BY <1>1, <1>5 DEF EndScan, Typed, TypeOK, Scope, asic, summary
<1>6. QED
  BY <1>2, <1>3, <1>4, <1>5

LEMMA GetTyped == Typed /\ (Get \/ GiveUpGet) => Typed'
<1> SUFFICES ASSUME Typed, Get \/ GiveUpGet PROVE Typed'
  OBVIOUS
<1>1. TypeOK /\ index \in Ids /\ list \in 1 .. 2
  BY DEF Typed, TypeOK, Scope, Get, GiveUpGet
<1>2. /\ GoTo(1) /\ condition' = "Met" /\ probe' \in Probes
      /\ UNCHANGED <<asic, scan, index, cache, summary, reads>>
  BY DEF Get, GiveUpGet, Probed, Probes
<1>3. /\ pos' = 1 /\ list' \in 1 .. 2 /\ pc' \in {"condition", "judge"}
      /\ pc' = "condition" => Attribute.predicates[list'].on
  BY <1>1, <1>2, GoToFacts
<1>4. Scope'
  BY <1>1, <1>2, <1>3 DEF Scope, Attribute, Object
<1>5. QED
  BY <1>1, <1>2, <1>3, <1>4 DEF Typed, TypeOK, Conditions, asic, summary

LEMMA WalkTyped ==
  Typed /\ (SkipNullRef \/ UseReference \/ ReadReference) => Typed'
<1> SUFFICES ASSUME Typed, SkipNullRef \/ UseReference \/ ReadReference PROVE Typed'
  OBVIOUS
<1>1. TypeOK /\ index \in Ids /\ pc = "condition" /\ Attribute.predicates[list].on
  BY DEF Typed, Scope, SkipNullRef, UseReference, ReadReference, AtRef
<1>2. Scope' <=> Scope
  BY DEF SkipNullRef, UseReference, ReadReference, place, Scope, Attribute, Object
<1>3. CASE SkipNullRef \/ UseReference
  <2>1. pos' = pos + 1 /\ pos \in Nat
    BY <1>1, <1>3 DEF SkipNullRef, UseReference, TypeOK
  <2>2. pos' \in Nat \ {0}
    BY <2>1
  <2>3. UNCHANGED <<asic, place, probe, list, condition, cache, summary, reads>>
    BY <1>3 DEF SkipNullRef, UseReference
  <2>4. QED
    BY <1>1, <1>2, <2>2, <2>3 DEF Typed, TypeOK, asic, place, summary
<1>4. CASE ReadReference
  <2> DEFINE a == CurrentRef
  <2>1. PICK r \in ReferenceResults(a) : cache' = [cache EXCEPT ![a] = r]
    BY <1>4 DEF ReadReference
  <2>2. a \in Ids
    <3>1. CurrentPredicate \in Predicate
      BY <1>1, PredicateType DEF TypeOK, CurrentPredicate
    <3>2. pos \in DOMAIN CurrentPredicate.refs /\ CurrentRef # Null
      BY <1>4 DEF ReadReference, AtRef
    <3>3. QED
      BY <3>1, <3>2, ReferenceType DEF CurrentRef
  <2>3. r \in Entries
    BY <1>1, <2>2, ResultFacts DEF Entries
  <2>4. cache' \in [Ids -> Entries]
    BY <1>1, <2>1, <2>2, <2>3 DEF TypeOK
  <2>5. reads' \in [Ids -> Nat]
    BY <1>1, <1>4, <2>2, CountType DEF ReadReference, TypeOK
  <2>6. UNCHANGED <<asic, place, probe, list, pos, condition, summary>>
    BY <1>4 DEF ReadReference
  <2>7. QED
    BY <1>1, <1>2, <2>4, <2>5, <2>6 DEF Typed, TypeOK, asic, place, summary
<1>5. QED
  BY <1>3, <1>4

\* Combining keeps the type.
LEMMA CombineType ==
  ASSUME NEW a \in Conditions, NEW b \in Conditions
  PROVE  /\ Combine(a, b) \in Conditions
         /\ Combine(a, b) = "Met" <=> a = "Met" /\ b = "Met"
  BY DEF Combine, Conditions

LEMMA EvaluateTyped ==
  Typed /\ (UnusableReference \/ EvaluatePredicate) => Typed'
<1> SUFFICES ASSUME Typed, UnusableReference \/ EvaluatePredicate PROVE Typed'
  OBVIOUS
<1>1. TypeOK /\ index \in Ids /\ list \in 1 .. 2 /\ condition \in Conditions
  BY DEF Typed, TypeOK, Scope, UnusableReference, EvaluatePredicate, AtRef
<1>2. UNCHANGED <<asic, scan, index, probe, cache, summary, reads>>
  BY DEF UnusableReference, EvaluatePredicate
<1>3. PICK s \in Conditions : Evaluated(s)
  BY DEF UnusableReference, EvaluatePredicate, Conditions
<1>4. condition' \in Conditions /\ GoTo(list + 1)
  BY <1>1, <1>3, CombineType DEF Evaluated
<1>5. list + 1 \in 1 .. 3
  BY <1>1
<1>6. /\ pos' = 1 /\ list' \in 1 .. 2 /\ pc' \in {"condition", "judge"}
      /\ pc' = "condition" => Attribute.predicates[list'].on
  BY <1>1, <1>4, <1>5, GoToFacts
<1>7. Scope'
  BY <1>1, <1>2, <1>6 DEF Scope, Attribute, Object
<1>8. QED
  BY <1>1, <1>2, <1>4, <1>6, <1>7 DEF Typed, TypeOK, asic, summary

LEMMA JudgeTyped == Typed /\ Judge => Typed'
<1> SUFFICES ASSUME Typed, Judge PROVE Typed'
  OBVIOUS
<1>1. TypeOK /\ index \in Ids /\ condition \in Conditions /\ Object \in DOMAIN Meta
  BY ObjectType DEF Typed, TypeOK, Scope, Judge
<1>2. index' \in 1 .. NumAttributes + 1
  BY <1>1, IndexSteps DEF Judge
<1>3. tally' \in [Tallies -> Nat]
  BY <1>1, CountType DEF Judge, TypeOK, Agreement, Tallies, Agreements
<1>4. states' \in [Conditions -> Nat]
  BY <1>1, CountType DEF Judge, TypeOK
<1>5. contradicted' \subseteq (DOMAIN Meta) \X Ids
  BY <1>1 DEF Judge, ReportContradiction, TypeOK
<1>6. printed' \in 0 .. MaxLines /\ hidden' \in Nat
  <2>1. printed \in 0 .. MaxLines /\ hidden \in Nat /\ MaxLines \in Nat
    BY <1>1, VerificationAssumption DEF TypeOK
  <2>2. \/ UNCHANGED <<printed, hidden>>
        \/ printed < MaxLines /\ printed' = printed + 1 /\ UNCHANGED hidden
        \/ hidden' = hidden + 1 /\ UNCHANGED printed
    BY DEF Judge, ReportContradiction
  <2>3. QED
    BY <2>1, <2>2
<1>7. pc' = "claim" /\ UNCHANGED <<asic, scan, probe, list, pos, condition, cache, reads>>
  BY DEF Judge
<1>8. QED
  BY <1>1, <1>2, <1>3, <1>4, <1>5, <1>6, <1>7 DEF Typed, TypeOK, Scope, asic

LEMMA ObjectTyped == Typed /\ (NextObject \/ NoFurtherObject) => Typed'
<1> SUFFICES ASSUME Typed, NextObject \/ NoFurtherObject PROVE Typed'
  OBVIOUS
<1>1. TypeOK /\ pc = "next" /\ scan < Len(Objects)
  BY DEF Typed, Scope, NextObject, NoFurtherObject
<1>2. CASE NextObject
  <2>1. scan' \in Scans
    BY <1>1, <1>2, VerificationAssumption DEF TypeOK, Scans, NextObject
  <2>2. index' \in 1 .. NumAttributes + 1 /\ printed' \in 0 .. MaxLines
    BY <1>2, VerificationAssumption DEF NextObject
  <2>3. cache' \in [Ids -> Entries] /\ reads' \in [Ids -> Nat] /\ hidden' \in Nat
    BY <1>2 DEF NextObject, Entries
  <2>4. QED
    BY <1>1, <1>2, <2>1, <2>2, <2>3 DEF NextObject, Typed, TypeOK, Scope, asic
<1>3. CASE NoFurtherObject
  BY <1>1, <1>3 DEF NoFurtherObject, Typed, TypeOK, Scope, asic, summary
<1>4. QED
  BY <1>2, <1>3

LEMMA ReconfigureTyped == Typed /\ Reconfigure => Typed'
<1> SUFFICES ASSUME Typed, Reconfigure PROVE Typed'
  OBVIOUS
<1>1. TypeOK /\ reconfigs < MaxReconfigs /\ reconfigs' = reconfigs + 1
      /\ UNCHANGED <<honest, place, probe, list, pos, condition, cache, summary, reads>>
  BY DEF Typed, Reconfigure
<1>2. reconfigs' \in 0 .. MaxReconfigs
  BY <1>1, VerificationAssumption DEF TypeOK
<1>3. live' \in [DOMAIN Meta -> [Ids -> Values]]
  BY <1>1 DEF Reconfigure, TypeOK, Values
<1>4. Scope'
  BY <1>1 DEF Typed, Scope, place, Attribute, Object
<1>5. QED
  BY <1>1, <1>2, <1>3, <1>4 DEF Typed, TypeOK, place, summary

LEMMA NextTyped == Typed /\ [Next]_vars => Typed'
<1>1. Typed /\ UNCHANGED vars => Typed'
  BY DEF vars, asic, place, summary, Typed, TypeOK, Scope, Attribute, Object
<1>2. QED
  BY <1>1, ClaimTyped, GetTyped, WalkTyped, EvaluateTyped, JudgeTyped, ObjectTyped,
     ReconfigureTyped DEF Next, Tool

\* The verification keeps its types; in particular no more contradiction lines
\* are printed for an object than the cap allows.
THEOREM VerificationTypeCorrect == Spec => []TypeOK
<1>1. Typed => TypeOK
  BY DEF Typed
<1>2. QED
  BY <1>1, InitTyped, NextTyped, PTL DEF Spec

-----------------------------------------------------------------------------
(* The condition cache.                                                    *)

\* An attribute was read exactly when the cache has an entry for it.
ReadsInv == \A a \in Ids : reads[a] = IF cache[a] = "unread" THEN 0 ELSE 1

CacheInv == ReadsInv /\ CacheIsOfThisObject

LEMMA InitCache == Init => CacheInv
  BY DEF Init, CacheInv, ReadsInv, CacheIsOfThisObject

LEMMA NextCache == Typed /\ CacheInv /\ [Next]_vars => CacheInv'
<1> SUFFICES ASSUME Typed, CacheInv, [Next]_vars PROVE CacheInv'
  OBVIOUS
<1>0. TypeOK
  BY DEF Typed
<1>1. CASE UNCHANGED <<cache, reads, asic, scan>>
  BY <1>1 DEF CacheInv, ReadsInv, CacheIsOfThisObject, Undisturbed, asic, Object
<1>2. CASE Reconfigure
  <2>1. reconfigs \in Nat /\ reconfigs' = reconfigs + 1
    BY <1>0, <1>2, VerificationAssumption DEF TypeOK, Reconfigure
  <2>2. ~Undisturbed'
    BY <2>1 DEF Undisturbed
  <2>3. UNCHANGED <<cache, reads>>
    BY <1>2 DEF Reconfigure
  <2>4. QED
    BY <2>2, <2>3 DEF CacheInv, ReadsInv, CacheIsOfThisObject
<1>3. CASE NextObject
  BY <1>3 DEF NextObject, CacheInv, ReadsInv, CacheIsOfThisObject
<1>4. CASE ReadReference
  <2> DEFINE a == CurrentRef
  <2>1. PICK r \in ReferenceResults(a) : cache' = [cache EXCEPT ![a] = r]
    BY <1>4 DEF ReadReference
  <2>2. /\ cache[a] = "unread" /\ reads' = [reads EXCEPT ![a] = @ + 1]
        /\ UNCHANGED <<asic, scan>>
    BY <1>4 DEF ReadReference, Count, place
  <2>3. a \in Ids
    <3>1. CurrentPredicate \in Predicate
      BY <1>0, <1>4, PredicateType
        DEF Typed, Scope, TypeOK, CurrentPredicate, ReadReference, AtRef
    <3>2. pos \in DOMAIN CurrentPredicate.refs /\ CurrentRef # Null
      BY <1>4 DEF ReadReference, AtRef
    <3>3. QED
      BY <3>1, <3>2, ReferenceType DEF CurrentRef
  <2>4. /\ r # "unread"
        /\ honest => r \in {live[Object][a], "failed"}
    BY <1>0, <2>3, ResultFacts DEF Values
  <2> HIDE DEF a
  <2>5. /\ \A b \in Ids : cache'[b] = IF b = a THEN r ELSE cache[b]
        /\ \A b \in Ids : reads'[b] = IF b = a THEN reads[a] + 1 ELSE reads[b]
    BY <1>0, <2>1, <2>2 DEF TypeOK
  <2>6. reads[a] = 0
    BY <2>2, <2>3 DEF CacheInv, ReadsInv
  <2>7. ReadsInv'
    BY <2>3, <2>4, <2>5, <2>6 DEF CacheInv, ReadsInv
  <2>8. CacheIsOfThisObject'
    BY <2>2, <2>4, <2>5 DEF CacheInv, CacheIsOfThisObject, Undisturbed, asic, Object
  <2>9. QED
    BY <2>7, <2>8 DEF CacheInv
<1>5. CASE SkipAttribute \/ NotClaimed \/ Claimed \/ Get \/ GiveUpGet \/ SkipNullRef
           \/ UseReference
           \/ UnusableReference \/ EvaluatePredicate \/ Judge \/ EndScan \/ NoFurtherObject
  BY <1>1, <1>5 DEF SkipAttribute, NotClaimed, Claimed, Get, GiveUpGet, Probed, SkipNullRef,
     UseReference, UnusableReference, EvaluatePredicate, Judge, EndScan, NoFurtherObject, place
<1>6. CASE UNCHANGED vars
  BY <1>1, <1>6 DEF vars, place
<1>7. QED
  BY <1>2, <1>3, <1>4, <1>5, <1>6 DEF Next, Tool

THEOREM CacheInvariant == Spec => [](Typed /\ CacheInv)
  BY InitTyped, NextTyped, InitCache, NextCache, PTL DEF Spec

\* However many conditions refer to an attribute, and whether or not reading it
\* worked, it is read for them once per object.
THEOREM ReadsOnce == Spec => []ReadOnce
<1>1. CacheInv => ReadOnce
  BY DEF CacheInv, ReadsInv, ReadOnce
<1>2. QED
  BY <1>1, CacheInvariant, PTL

\* As long as nobody else touches the ASIC, the conditions of a truthful adapter's
\* object are evaluated on that object's values.
THEOREM CacheHoldsThisObject == Spec => []CacheIsOfThisObject
<1>1. CacheInv => CacheIsOfThisObject
  BY DEF CacheInv
<1>2. QED
  BY <1>1, CacheInvariant, PTL

-----------------------------------------------------------------------------
(* Why a truthful adapter is never accused.                                *)

\* Predicate i of the attribute refers to something, all of it was read, and
\* it is true of the values read.
Backed(i) ==
  LET p == Attribute.predicates[i] IN
    /\ Referenced(p) # {}
    /\ \A a \in Referenced(p) : cache[a] \in Values
    /\ Holds(p, cache)

\* The entries of the list passed so far were all read.
Walked ==
  pc = "condition" =>
    \A j \in DOMAIN CurrentPredicate.refs :
      j < pos /\ CurrentPredicate.refs[j] # Null =>
        cache[CurrentPredicate.refs[j]] \in Values

\* The state is "Met" only when every predicate evaluated so far is backed.
MetInv ==
  condition = "Met" =>
    \A i \in 1 .. 2 : Attribute.predicates[i].on =>
      /\ pc = "judge" => Backed(i)
      /\ pc = "condition" /\ i < list => Backed(i)

\* A GET was refused because the attribute does not exist.
ProbeInv ==
  Undisturbed /\ probe = "refused" /\ pc \in {"condition", "judge"} =>
    ~InForce(Object, index)

TruthInv == Walked /\ MetInv /\ ProbeInv

LEMMA InitTruth == Init => TruthInv
  BY DEF Init, TruthInv, Walked, MetInv, ProbeInv

\* A step that examines no attribute afterwards.
LEMMA IdleTruth ==
  ASSUME TruthInv, pc' \notin {"condition", "judge"}
  PROVE  TruthInv'
  BY DEF TruthInv, Walked, MetInv, ProbeInv

\* What was read stays in the cache, so what was backed stays backed.
LEMMA BackedKept ==
  ASSUME TypeOK, index \in Ids, NEW i \in 1 .. 2, Backed(i),
         UNCHANGED <<scan, index>>,
         \A a \in Ids : cache[a] \in Values => cache'[a] = cache[a]
  PROVE  Backed(i)'
<1> DEFINE p == Attribute.predicates[i]
<1>1. Referenced(p) \subseteq Ids
  BY PredicateType, ReferenceType
<1>2. \A a \in Referenced(p) : cache[a] \in Values /\ cache'[a] = cache[a]
  BY <1>1 DEF Backed
<1>3. Attribute' = Attribute
  BY DEF Attribute, Object
<1>4. Referenced(p) # {} /\ Holds(p, cache)
  BY DEF Backed
<1> HIDE DEF p
<1>5. Holds(p, cache')
  BY <1>2, <1>4 DEF Holds
<1> USE DEF p
<1>6. QED
  BY <1>2, <1>3, <1>4, <1>5 DEF Backed

\* The start of a list has no entry passed yet.
LEMMA StartWalked ==
  ASSUME TypeOK, index \in Ids, UNCHANGED <<scan, index>>, pos' = 1, list' \in 1 .. 2
  PROVE  Walked'
<1>1. Attribute' = Attribute
  BY DEF Attribute, Object
<1>2. CurrentPredicate' \in Predicate
  BY <1>1, PredicateType DEF CurrentPredicate
<1>3. \A j \in DOMAIN CurrentPredicate'.refs : ~(j < 1)
  BY <1>2 DEF Predicate
<1>4. QED
  BY <1>3 DEF Walked

LEMMA GetTruth == Typed /\ TruthInv /\ (Get \/ GiveUpGet) => TruthInv'
<1> SUFFICES ASSUME Typed, TruthInv, Get \/ GiveUpGet PROVE TruthInv'
  OBVIOUS
<1>1. /\ TypeOK /\ index \in Ids /\ list \in 1 .. 2 /\ GoTo(1)
      /\ UNCHANGED <<asic, scan, index, cache, summary, reads>>
  BY DEF Typed, TypeOK, Scope, Get, GiveUpGet, Probed
<1>2. /\ pos' = 1 /\ list' \in 1 .. 2
      /\ \/ /\ pc' = "condition"
            /\ \A j \in 1 .. 2 : Attribute.predicates[j].on => list' <= j
         \/ pc' = "judge" /\ \A j \in 1 .. 2 : ~Attribute.predicates[j].on
  BY <1>1, GoToFacts
<1>3. Attribute' = Attribute /\ Object' = Object
  BY <1>1 DEF Attribute, Object
<1>4. Walked'
  BY <1>1, <1>2, StartWalked
<1>5. MetInv'
  BY <1>2, <1>3 DEF MetInv
<1>6. ProbeInv'
  <2> SUFFICES ASSUME Undisturbed', probe' = "refused" PROVE ~InForce(Object, index)'
    BY DEF ProbeInv
  <2>1. honest
    BY <1>1 DEF Undisturbed, asic
  <2>2. PICK r \in GetResults(index) : probe' = IF r = "failed" THEN "refused" ELSE "ok"
    BY DEF Get, GiveUpGet, Probed
  <2>3. r = "failed"
    BY <2>2
  <2>4. ~InForce(Object, index)
    BY <1>1, <2>1, <2>2, <2>3, ResultFacts
  <2>5. QED
    BY <1>1, <1>3, <2>4 DEF InForce, asic
<1>7. QED
  BY <1>4, <1>5, <1>6 DEF TruthInv

\* A step within a list: only the cache and the position move.
LEMMA WalkTruth ==
  Typed /\ TruthInv /\ (SkipNullRef \/ UseReference \/ ReadReference) => TruthInv'
<1> SUFFICES ASSUME Typed, TruthInv, SkipNullRef \/ UseReference \/ ReadReference
             PROVE  TruthInv'
  OBVIOUS
<1>1. /\ TypeOK /\ index \in Ids /\ pc = "condition" /\ pos \in DOMAIN CurrentPredicate.refs
      /\ UNCHANGED <<asic, place, probe, list, condition, summary>>
  BY DEF Typed, Scope, SkipNullRef, UseReference, ReadReference, AtRef
<1>2. CurrentPredicate \in Predicate /\ CurrentPredicate' = CurrentPredicate
  BY <1>1, PredicateType DEF TypeOK, CurrentPredicate, Attribute, Object, place
<1>3. \A j \in DOMAIN CurrentPredicate.refs :
        /\ j \in Nat
        /\ CurrentPredicate.refs[j] # Null => CurrentPredicate.refs[j] \in Ids
  BY <1>2, ReferenceType DEF Predicate
<1>4. \A a \in Ids : cache[a] \in Values => cache'[a] = cache[a]
  <2>1. CASE SkipNullRef \/ UseReference
    BY <2>1 DEF SkipNullRef, UseReference
  <2>2. CASE ReadReference
    BY <1>1, <2>2 DEF ReadReference, Values, TypeOK
  <2>3. QED
    BY <2>1, <2>2
<1>5. Walked'
  <2> SUFFICES ASSUME NEW j \in DOMAIN CurrentPredicate.refs, j < pos',
                      CurrentPredicate.refs[j] # Null
               PROVE  cache'[CurrentPredicate.refs[j]] \in Values
    BY <1>2 DEF Walked
  <2>1. j \in Nat /\ CurrentPredicate.refs[j] \in Ids /\ pos \in Nat
    BY <1>1, <1>3
  <2>2. CASE j < pos
    BY <1>1, <1>4, <2>1, <2>2 DEF TruthInv, Walked
  <2>3. CASE ~(j < pos)
    <3>1. pos' = pos + 1
      BY <2>3 DEF SkipNullRef, UseReference, ReadReference
    <3>2. j = pos
      BY <2>1, <2>3, <3>1
    <3>3. UseReference
      BY <2>3, <3>2 DEF SkipNullRef, ReadReference, CurrentRef
    <3>4. QED
      BY <3>2, <3>3 DEF UseReference, CurrentRef
  <2>4. QED
    BY <2>2, <2>3
<1>6. MetInv'
  <2> SUFFICES ASSUME condition' = "Met", NEW i \in 1 .. 2, Attribute'.predicates[i].on, i < list'
               PROVE  Backed(i)'
    BY <1>1 DEF MetInv, place
  <2>1. Backed(i)
    BY <1>1 DEF TruthInv, MetInv, Attribute, Object, place
  <2>2. QED
    BY <1>1, <1>4, <2>1, BackedKept DEF place
<1>7. ProbeInv'
  BY <1>1 DEF TruthInv, ProbeInv, Undisturbed, InForce, Object,
     asic, place, summary
<1>8. QED
  BY <1>5, <1>6, <1>7 DEF TruthInv

\* A list walked to its end has every reference read.
LEMMA EndOfList ==
  ASSUME Typed, TruthInv, EvaluatePredicate
  PROVE  \A a \in Referenced(CurrentPredicate) : cache[a] \in Values
<1>1. /\ TypeOK /\ index \in Ids /\ pc = "condition"
      /\ pos \notin DOMAIN CurrentPredicate.refs /\ pos \in Nat \ {0}
  BY DEF Typed, TypeOK, Scope, EvaluatePredicate, AtRef
<1>2. CurrentPredicate \in Predicate
  BY <1>1, PredicateType DEF TypeOK, CurrentPredicate
<1>3. CurrentPredicate.refs \in Seq(Ids \cup {Null})
  BY <1>2 DEF Predicate
<1>4. \A j \in DOMAIN CurrentPredicate.refs : j < pos
  BY <1>1, <1>3
<1>5. QED
  BY <1>1, <1>2, <1>4, ReferenceType DEF TruthInv, Walked

LEMMA EvaluateTruth ==
  Typed /\ TruthInv /\ (UnusableReference \/ EvaluatePredicate) => TruthInv'
<1> SUFFICES ASSUME Typed, TruthInv, UnusableReference \/ EvaluatePredicate PROVE TruthInv'
  OBVIOUS
<1>1. /\ TypeOK /\ index \in Ids /\ list \in 1 .. 2 /\ condition \in Conditions
      /\ pc = "condition" /\ UNCHANGED <<asic, scan, index, probe, cache, summary, reads>>
  BY DEF Typed, TypeOK, Scope, UnusableReference, EvaluatePredicate, AtRef
<1>2. PICK s \in Conditions :
        /\ Evaluated(s)
        /\ s = "Met" => /\ EvaluatePredicate
                       /\ Referenced(CurrentPredicate) # {}
                       /\ Holds(CurrentPredicate, cache)
  BY DEF UnusableReference, EvaluatePredicate, Conditions
<1>3. condition' = Combine(condition, s) /\ GoTo(list + 1) /\ list + 1 \in 1 .. 3
  BY <1>1, <1>2 DEF Evaluated
<1>4. /\ pos' = 1 /\ list' \in 1 .. 2
      /\ \/ /\ pc' = "condition"
            /\ \A j \in list + 1 .. 2 : Attribute.predicates[j].on => list' <= j
         \/ /\ pc' = "judge"
            /\ \A j \in list + 1 .. 2 : ~Attribute.predicates[j].on
  BY <1>1, <1>3, GoToFacts
<1>5. Attribute' = Attribute
  BY <1>1 DEF Attribute, Object
<1>6. Walked'
  BY <1>1, <1>4, StartWalked
<1>7. MetInv'
  <2> SUFFICES ASSUME condition' = "Met", NEW i \in 1 .. 2, Attribute.predicates[i].on,
                      pc' = "judge" \/ i < list'
               PROVE  Backed(i)'
    BY <1>5 DEF MetInv
  <2>1. condition = "Met" /\ s = "Met"
    BY <1>1, <1>3, CombineType
  <2>2. i <= list
    BY <1>1, <1>4
  <2>3. CASE i < list
    BY <1>1, <2>1, <2>3 DEF TruthInv, MetInv, Backed, Attribute, Object
  <2>4. CASE i = list
    <3>1. Backed(i)
      BY <1>2, <2>1, <2>4, EndOfList DEF Backed, CurrentPredicate
    <3>2. QED
      BY <1>1, <3>1 DEF Backed, Attribute, Object
  <2>5. QED
    BY <1>1, <2>2, <2>3, <2>4
<1>8. ProbeInv'
  BY <1>1, <1>4 DEF TruthInv, ProbeInv, Undisturbed, InForce, Object,
     asic, summary
<1>9. QED
  BY <1>6, <1>7, <1>8 DEF TruthInv

\* What an accusation rests on.
LEMMA AccusedBacked ==
  ASSUME Typed, TruthInv, Judge, contradicted' # contradicted
  PROVE  probe # "ok" /\ \A i \in 1 .. 2 : Attribute.predicates[i].on => Backed(i)
<1>1. Agreement(probe = "ok", IsConditional(Attribute), condition) = "Contradiction"
  BY DEF Judge
<1>2. probe # "ok" /\ (IsConditional(Attribute) => condition = "Met")
  BY <1>1 DEF Agreement
<1>3. SUFFICES ASSUME NEW i \in 1 .. 2, Attribute.predicates[i].on PROVE Backed(i)
  BY <1>2
<1>4. IsConditional(Attribute)
  BY <1>3 DEF IsConditional
<1>5. QED
  BY <1>2, <1>3, <1>4 DEF TruthInv, MetInv, Judge

LEMMA JudgeTruth == TruthInv /\ Judge => TruthInv'
  BY IdleTruth DEF Judge

\* As long as nobody else touches the ASIC, what a truthful adapter refused is not
\* there: were its conditions read and true, it would be.
LEMMA RefusalsExcused ==
  ASSUME Typed, CacheInv, TruthInv, Judge, contradicted' # contradicted, Undisturbed
  PROVE  probe = "given_up"
<1>1. TypeOK /\ index \in Ids /\ pc = "judge"
  BY DEF Typed, Scope, Judge
<1>2. probe # "ok" /\ \A i \in 1 .. 2 : Attribute.predicates[i].on => Backed(i)
  BY AccusedBacked
<1>3. SUFFICES ASSUME probe = "refused" PROVE FALSE
  BY <1>1, <1>2 DEF TypeOK, Probes
<1>4. ~InForce(Object, index)
  BY <1>1, <1>3 DEF TruthInv, ProbeInv
<1>5. PICK i \in 1 .. 2 : Attribute.predicates[i].on
                         /\ ~Holds(Attribute.predicates[i], live[Object])
  BY <1>4 DEF InForce, Attribute
<1> DEFINE p == Attribute.predicates[i]
<1>6. /\ Referenced(p) \subseteq Ids
      /\ \A a \in Referenced(p) : cache[a] \in Values
      /\ Holds(p, cache)
  BY <1>1, <1>2, <1>5, PredicateType, ReferenceType DEF Backed
<1>7. \A a \in Referenced(p) : cache[a] = live[Object][a]
  BY <1>6 DEF CacheInv, CacheIsOfThisObject, Values
<1> HIDE DEF p
<1>8. Holds(p, live[Object])
  BY <1>6, <1>7 DEF Holds
<1>9. QED
  BY <1>5, <1>8 DEF p

LEMMA ReconfigureTruth == Typed /\ TruthInv /\ Reconfigure => TruthInv'
<1> SUFFICES ASSUME Typed, TruthInv, Reconfigure PROVE TruthInv'
  OBVIOUS
<1>1. reconfigs \in Nat /\ reconfigs' = reconfigs + 1
      /\ UNCHANGED <<honest, place, probe, list, pos, condition, cache, summary, reads>>
  BY VerificationAssumption DEF Typed, TypeOK, Reconfigure
<1>2. ~Undisturbed'
  BY <1>1 DEF Undisturbed
<1>3. Walked' /\ MetInv'
  BY <1>1 DEF TruthInv, Walked, MetInv, Backed, CurrentPredicate, Attribute, Object, place
<1>4. QED
  BY <1>2, <1>3 DEF TruthInv, ProbeInv

LEMMA NextTruth == Typed /\ TruthInv /\ [Next]_vars => TruthInv'
<1> SUFFICES ASSUME Typed, TruthInv, [Next]_vars PROVE TruthInv'
  OBVIOUS
<1>1. CASE SkipAttribute \/ NotClaimed \/ Claimed \/ EndScan \/ NextObject \/ NoFurtherObject
  BY <1>1, IdleTruth DEF SkipAttribute, NotClaimed, Claimed, EndScan, NextObject,
     NoFurtherObject
<1>2. CASE UNCHANGED vars
  BY <1>2 DEF vars, asic, place, summary, TruthInv, Walked, MetInv, Backed, ProbeInv,
     Undisturbed, InForce, CurrentPredicate, Attribute, Object
<1>3. QED
  BY <1>1, <1>2, GetTruth, WalkTruth, EvaluateTruth, JudgeTruth, ReconfigureTruth DEF Next, Tool

\* The invariant the theorems below rest on.
THEOREM VerificationInvariant == Spec => [](Typed /\ CacheInv /\ TruthInv)
  BY InitTyped, InitCache, InitTruth, NextTyped, NextCache, NextTruth, PTL DEF Spec

\* Only the verdict on a claim accuses.
LEMMA OnlyJudgeAccuses == [Next]_vars /\ contradicted' # contradicted => Judge
  BY DEF Next, Tool, SkipAttribute, NotClaimed, Claimed, Get, GiveUpGet, Probed,
     SkipNullRef, ReadReference, UseReference, UnusableReference, EvaluatePredicate,
     EndScan, NextObject, NoFurtherObject, Reconfigure, vars, summary

\* An adapter whose declarations are true is accused only for a GET the tool gave
\* up by itself, however its metadata nests conditions and whichever of them cannot
\* be read or compared, as long as nobody else touches the ASIC during the run.
THEOREM RefusalsNeverAccused == Spec => NoFalseContradiction
<1>1. Typed /\ CacheInv /\ TruthInv /\ [Next]_vars =>
        [Undisturbed /\ contradicted' # contradicted => probe = "given_up"]_vars
  BY OnlyJudgeAccuses, RefusalsExcused
<1>2. QED
  BY <1>1, VerificationInvariant, PTL DEF Spec, NoFalseContradiction

\* No adapter, truthful or not, is accused of a conditional attribute unless all
\* its conditions were read and found true.
THEOREM ContradictionsBacked == Spec => ContradictionIsBacked
<1> DEFINE Rests ==
      contradicted' # contradicted =>
        \A i \in 1 .. 2 : Attribute.predicates[i].on => Backed(i)
<1>1. Typed /\ TruthInv /\ [Next]_vars => [Rests]_vars
  <2> SUFFICES ASSUME Typed, TruthInv, [Next]_vars, contradicted' # contradicted
               PROVE  \A i \in 1 .. 2 : Attribute.predicates[i].on => Backed(i)
    OBVIOUS
  <2>1. Judge
    BY OnlyJudgeAccuses
  <2>2. QED
    BY <2>1, AccusedBacked
<1>2. [Rests]_vars <=>
        [contradicted' # contradicted =>
           \A i \in 1 .. 2 : Attribute.predicates[i].on =>
             LET p == Attribute.predicates[i] IN
               /\ Referenced(p) # {}
               /\ \A a \in Referenced(p) : cache[a] \in Values
               /\ Holds(p, cache)]_vars
  BY DEF Backed
<1> HIDE DEF Rests
<1>3. QED
  BY <1>1, <1>2, VerificationInvariant, PTL DEF Spec, ContradictionIsBacked

-----------------------------------------------------------------------------
(* A summary adds up for every list of objects and every metadata table:   *)
(* what is printed can be trusted as a count.                              *)

\* Contradictions of the scanned object.
Here == {c \in contradicted : c[1] = Object}

\* Only attributes the run has left behind are contradicted.
LeftBehind ==
  \A c \in contradicted :
    \E k \in 1 .. scan : c[1] = Objects[k] /\ (k = scan => c[2] < index)

CountInv ==
  /\ IsFiniteSet(contradicted)
  /\ LeftBehind
  /\ Accounting
  /\ CappedButExact

Busy == {"get", "condition", "judge"}

LEMMA InitCount == Init => CountInv
<1> SUFFICES ASSUME Init PROVE CountInv
  OBVIOUS
<1>1. contradicted = {} /\ Here = {} /\ IsFiniteSet({}) /\ Cardinality({}) = 0
  BY FS_EmptySet DEF Init, Here
<1>2. /\ tally["checked"] = 0 /\ tally["Agree"] = 0 /\ tally["Contradiction"] = 0
      /\ tally["Unverifiable"] = 0 /\ states["NotMet"] = 0 /\ states["Unknown"] = 0
  BY DEF Init, Tallies, Agreements, Conditions
<1>3. Accounting
  BY <1>1, <1>2 DEF Accounting, Init
<1>4. CappedButExact
  BY <1>1 DEF CappedButExact, Here, Init
<1>5. QED
  BY <1>1, <1>3, <1>4 DEF CountInv, LeftBehind

\* The values of the counters are numbers.
LEMMA CounterFacts ==
  ASSUME TypeOK
  PROVE  /\ tally["checked"] \in Nat /\ tally["skipped"] \in Nat /\ tally["Agree"] \in Nat
         /\ tally["Contradiction"] \in Nat /\ tally["Unverifiable"] \in Nat
         /\ states["Met"] \in Nat /\ states["NotMet"] \in Nat /\ states["Unknown"] \in Nat
         /\ printed \in Nat /\ hidden \in Nat /\ scan \in Nat
  BY VerificationAssumption
    DEF TypeOK, Tallies, Agreements, Conditions, Scans

LEMMA CountFacts ==
  ASSUME NEW S, NEW f \in [S -> Nat], NEW k \in S
  PROVE  \A j \in S : Count(f, k)[j] = IF j = k THEN f[k] + 1 ELSE f[j]
  BY DEF Count

\* A step that moves on within the object and judges nothing.
LEMMA QuietCount ==
  ASSUME CountInv, TypeOK, UNCHANGED <<scan, contradicted, printed, hidden, states>>,
         tally'["Agree"] = tally["Agree"],
         tally'["Contradiction"] = tally["Contradiction"],
         tally'["Unverifiable"] = tally["Unverifiable"],
         \/ UNCHANGED index \/ (index' = index + 1 /\ index \in Ids),
         tally'["checked"] - tally["checked"] =
           (IF pc' \in Busy THEN 1 ELSE 0) - (IF pc \in Busy THEN 1 ELSE 0),
         tally'["checked"] \in Nat
  PROVE  CountInv'
<1>0. tally["checked"] \in Nat /\ tally["Agree"] \in Nat /\ tally["Contradiction"] \in Nat
      /\ tally["Unverifiable"] \in Nat
  BY CounterFacts
<1>1. Accounting'
  BY <1>0 DEF CountInv, Accounting, Busy
<1>2. CappedButExact'
  BY DEF CountInv, CappedButExact, Object
<1>3. LeftBehind'
  <2> SUFFICES ASSUME NEW c \in contradicted
               PROVE  \E k \in 1 .. scan : c[1] = Objects[k] /\ (k = scan => c[2] < index')
    BY DEF LeftBehind
  <2>1. PICK k \in 1 .. scan : c[1] = Objects[k] /\ (k = scan => c[2] < index)
    BY DEF CountInv, LeftBehind
  <2>2. c[2] \in Nat /\ index \in Nat
    <3>1. contradicted \subseteq (DOMAIN Meta) \X Ids /\ index \in 1 .. NumAttributes + 1
      BY DEF TypeOK
    <3>2. QED
      BY <3>1, VerificationAssumption DEF Ids
  <2>3. c[2] < index => c[2] < index'
    BY <2>2
  <2>4. QED
    BY <2>1, <2>3
<1>4. QED
  BY <1>1, <1>2, <1>3 DEF CountInv

LEMMA ClaimCount ==
  Typed /\ CountInv /\ (SkipAttribute \/ NotClaimed \/ Claimed \/ EndScan) => CountInv'
<1> SUFFICES ASSUME Typed, CountInv, SkipAttribute \/ NotClaimed \/ Claimed \/ EndScan
             PROVE  CountInv'
  OBVIOUS
<1>1. /\ TypeOK /\ tally \in [Tallies -> Nat] /\ tally["checked"] \in Nat /\ pc = "claim"
      /\ UNCHANGED <<scan, contradicted, printed, hidden, states>>
  BY CounterFacts DEF Typed, TypeOK, SkipAttribute, NotClaimed, Claimed, EndScan, summary
<1>2. CASE SkipAttribute
  <2>1. \A t \in Tallies : tally'[t] = IF t = "skipped" THEN tally["skipped"] + 1 ELSE tally[t]
    BY <1>1, <1>2, CountFacts DEF SkipAttribute, Tallies
  <2>2. pc' = "claim" /\ index' = index + 1 /\ index \in Ids
    BY <1>1, <1>2 DEF SkipAttribute
  <2>3. QED
    BY <1>1, <2>1, <2>2, QuietCount DEF Tallies, Agreements, Busy
<1>3. CASE NotClaimed \/ EndScan
  <2>1. /\ pc' \notin Busy /\ UNCHANGED tally
        /\ UNCHANGED index \/ (index' = index + 1 /\ index \in Ids)
    BY <1>1, <1>3 DEF NotClaimed, EndScan, summary, Busy
  <2>2. QED
    BY <1>1, <2>1, QuietCount DEF Busy
<1>4. CASE Claimed
  <2>1. \A t \in Tallies : tally'[t] = IF t = "checked" THEN tally["checked"] + 1 ELSE tally[t]
    BY <1>1, <1>4, CountFacts DEF Claimed, Tallies
  <2>2. pc' = "get" /\ UNCHANGED index
    BY <1>4 DEF Claimed
  <2>3. tally'["checked"] = tally["checked"] + 1
    BY <2>1 DEF Tallies
  <2>4. tally'["checked"] - tally["checked"] = 1 /\ tally'["checked"] \in Nat
    BY <1>1, <2>3
  <2>5. QED
    BY <1>1, <2>1, <2>2, <2>4, QuietCount DEF Tallies, Agreements, Busy
<1>5. QED
  BY <1>2, <1>3, <1>4

\* Reading the attribute and its conditions leaves the summary alone.
LEMMA ExamineCount ==
  ASSUME Typed, CountInv, pc \in Busy, pc' \in Busy, UNCHANGED <<scan, index, summary>>
  PROVE  CountInv'
<1>1. TypeOK /\ tally["checked"] \in Nat
  BY CounterFacts DEF Typed
<1>2. QED
  BY <1>1, QuietCount DEF summary, Busy

LEMMA JudgeCount == Typed /\ CountInv /\ Judge => CountInv'
<1> SUFFICES ASSUME Typed, CountInv, Judge PROVE CountInv'
  OBVIOUS
<1> DEFINE conditional == IsConditional(Attribute)
           verdict == Agreement(probe = "ok", conditional, condition)
<1>1. /\ TypeOK /\ index \in Ids /\ condition \in Conditions /\ index \in Nat
      /\ tally \in [Tallies -> Nat] /\ states \in [Conditions -> Nat] /\ scan \in Nat
      /\ scan \in 1 .. Len(Objects) /\ index' = index + 1 /\ scan' = scan
      /\ pc = "judge" /\ pc' = "claim"
  <2>1. TypeOK /\ index \in Ids /\ scan \in Scans
    BY DEF Typed, Scope, TypeOK, Judge
  <2>2. index \in Nat /\ scan \in Nat
    BY <2>1, CounterFacts DEF Ids
  <2>3. QED
    BY <2>1, <2>2 DEF TypeOK, Judge, Scans
<1>2. verdict \in Agreements /\ (verdict = "Unverifiable" => conditional /\ condition # "Met")
  BY DEF Agreement, Agreements
<1>3. \A t \in Tallies : tally'[t] = IF t = verdict THEN tally[verdict] + 1 ELSE tally[t]
  <2>1. verdict \in Tallies /\ tally' = Count(tally, verdict)
    BY <1>2 DEF Judge, Tallies
  <2> HIDE DEF verdict
  <2>2. QED
    BY <1>1, <2>1, CountFacts
<1>4. \A s \in Conditions :
        states'[s] = IF conditional /\ s = condition THEN states[s] + 1 ELSE states[s]
  <2>1. CASE conditional
    BY <1>1, <2>1, CountFacts DEF Judge
  <2>2. CASE ~conditional
    BY <2>2 DEF Judge
  <2>3. QED
    BY <2>1, <2>2
<1>5. /\ verdict = "Contradiction" => ReportContradiction
      /\ verdict # "Contradiction" => UNCHANGED <<contradicted, printed, hidden>>
  BY DEF Judge
<1> HIDE DEF verdict, conditional
<1>6. <<Object, index>> \notin contradicted
  <2> SUFFICES ASSUME <<Object, index>> \in contradicted PROVE FALSE
    OBVIOUS
  <2>1. PICK k \in 1 .. scan : Object = Objects[k] /\ (k = scan => index < index)
    BY DEF CountInv, LeftBehind
  <2>2. k \in DOMAIN Objects /\ scan \in DOMAIN Objects
    BY <1>1, VerificationAssumption
  <2>3. k = scan
    BY <2>1, <2>2, VerificationAssumption DEF Object
  <2>4. QED
    BY <1>1, <2>1, <2>3
<1>7. LeftBehind'
  <2> SUFFICES ASSUME NEW c \in contradicted'
               PROVE  \E k \in 1 .. scan : c[1] = Objects[k] /\ (k = scan => c[2] < index + 1)
    BY <1>1 DEF LeftBehind
  <2>1. CASE c \in contradicted
    <3>1. PICK k \in 1 .. scan : c[1] = Objects[k] /\ (k = scan => c[2] < index)
      BY <2>1 DEF CountInv, LeftBehind
    <3>2. c[2] \in Nat
      BY <1>1, <2>1 DEF TypeOK, Ids
    <3>3. QED
      BY <1>1, <3>1, <3>2
  <2>2. CASE c \notin contradicted
    <3>1. c[1] = Objects[scan] /\ c[2] = index
      BY <1>5, <2>2 DEF ReportContradiction, Object
    <3>2. QED
      BY <1>1, <3>1
  <2>3. QED
    BY <2>1, <2>2
<1>8. /\ IsFiniteSet(contradicted)
      /\ IsFiniteSet(contradicted \cup {<<Object, index>>})
      /\ Cardinality(contradicted \cup {<<Object, index>>}) = Cardinality(contradicted) + 1
  BY <1>6, FS_AddElement DEF CountInv
<1>9. /\ IsFiniteSet(contradicted')
      /\ Cardinality(contradicted') =
           IF verdict = "Contradiction" THEN Cardinality(contradicted) + 1
           ELSE Cardinality(contradicted)
  BY <1>5, <1>8 DEF ReportContradiction
<1>10. Accounting'
  <2>1. /\ tally'["checked"] = tally["checked"]
        /\ tally'["Agree"] = IF verdict = "Agree" THEN tally["Agree"] + 1 ELSE tally["Agree"]
        /\ tally'["Contradiction"] = IF verdict = "Contradiction" THEN tally["Contradiction"] + 1
                                     ELSE tally["Contradiction"]
        /\ tally'["Unverifiable"] = IF verdict = "Unverifiable" THEN tally["Unverifiable"] + 1
                                    ELSE tally["Unverifiable"]
    BY <1>2, <1>3 DEF Tallies, Agreements
  <2>2. /\ states'["NotMet"] = IF conditional /\ condition = "NotMet" THEN states["NotMet"] + 1
                               ELSE states["NotMet"]
        /\ states'["Unknown"] = IF conditional /\ condition = "Unknown" THEN states["Unknown"] + 1
                                ELSE states["Unknown"]
    BY <1>4 DEF Conditions
  <2>3. verdict = "Unverifiable" => conditional /\ condition \in {"NotMet", "Unknown"}
    BY <1>1, <1>2 DEF Conditions
  <2>4. /\ tally["checked"] \in Nat /\ tally["Agree"] \in Nat
        /\ tally["Contradiction"] \in Nat /\ tally["Unverifiable"] \in Nat
        /\ states["NotMet"] \in Nat /\ states["Unknown"] \in Nat
    BY <1>1, CounterFacts
  <2>5. tally["checked"] =
          tally["Agree"] + tally["Contradiction"] + tally["Unverifiable"] + 1
    BY <1>1 DEF CountInv, Accounting
  <2>6. tally'["checked"] =
          tally'["Agree"] + tally'["Contradiction"] + tally'["Unverifiable"] + 0
    <3>1. verdict \in {"Agree", "Contradiction", "Unverifiable"}
      BY <1>2 DEF Agreements
    <3>2. QED
      BY <2>1, <2>4, <2>5, <3>1
  <2>7. tally["Unverifiable"] <= states["NotMet"] + states["Unknown"]
    BY DEF CountInv, Accounting
  <2>8. tally'["Unverifiable"] <= states'["NotMet"] + states'["Unknown"]
    <3>1. CASE verdict = "Unverifiable"
      BY <2>1, <2>2, <2>3, <2>4, <2>7, <3>1
    <3>2. CASE verdict # "Unverifiable"
      BY <2>1, <2>2, <2>4, <2>7, <3>2
    <3>3. QED
      BY <3>1, <3>2
  <2>9. tally["Contradiction"] = Cardinality(contradicted)
    BY DEF CountInv, Accounting
  <2>10. tally'["Contradiction"] = Cardinality(contradicted')
    BY <1>9, <2>1, <2>9
  <2>11. QED
    BY <1>1, <2>6, <2>8, <2>10 DEF Accounting
<1>11. CappedButExact'
  <2>1. Here \in SUBSET contradicted /\ <<Object, index>> \notin Here
    BY <1>6 DEF Here
  <2>2. IsFiniteSet(Here)
    BY <1>8, <2>1, FS_Subset
  <2>3. Cardinality(Here \cup {<<Object, index>>}) = Cardinality(Here) + 1
    BY <2>1, <2>2, FS_AddElement
  <2>4. Here' = IF verdict = "Contradiction" THEN Here \cup {<<Object, index>>} ELSE Here
    BY <1>1, <1>5 DEF ReportContradiction, Here, Object
  <2>5. printed + hidden = Cardinality(Here) /\ (hidden > 0 => printed = MaxLines)
    BY DEF CountInv, CappedButExact, Here
  <2>6. printed \in Nat /\ hidden \in Nat /\ printed <= MaxLines /\ MaxLines \in Nat
    BY <1>1, VerificationAssumption DEF TypeOK
  <2>7. CASE verdict = "Contradiction"
    <3>1. \/ printed < MaxLines /\ printed' = printed + 1 /\ hidden' = hidden
          \/ ~(printed < MaxLines) /\ hidden' = hidden + 1 /\ printed' = printed
      BY <1>5, <2>7 DEF ReportContradiction
    <3>2. printed' + hidden' = printed + hidden + 1 /\ (hidden' > 0 => printed' = MaxLines)
      BY <2>5, <2>6, <3>1
    <3>3. Cardinality(Here') = Cardinality(Here) + 1
      BY <2>3, <2>4, <2>7
    <3>4. QED
      BY <2>5, <3>2, <3>3 DEF CappedButExact, Here
  <2>8. CASE verdict # "Contradiction"
    BY <1>5, <2>4, <2>5, <2>8 DEF CappedButExact, Here
  <2>9. QED
    BY <2>7, <2>8
<1>12. QED
  BY <1>7, <1>9, <1>10, <1>11 DEF CountInv

LEMMA ObjectCount == Typed /\ CountInv /\ (NextObject \/ NoFurtherObject) => CountInv'
<1> SUFFICES ASSUME Typed, CountInv, NextObject \/ NoFurtherObject PROVE CountInv'
  OBVIOUS
<1>1. TypeOK /\ pc = "next" /\ scan < Len(Objects) /\ scan \in 1 .. Len(Objects)
  BY DEF Typed, Scope, TypeOK, Scans, NextObject, NoFurtherObject
<1>2. CASE NoFurtherObject
  <2>1. /\ UNCHANGED <<scan, index, summary>> /\ pc' = "done" /\ tally["checked"] \in Nat
    BY <1>1, <1>2, CounterFacts DEF NoFurtherObject
  <2>2. QED
    BY <1>1, <2>1, QuietCount DEF summary, Busy
<1>3. CASE NextObject
  <2>1. /\ scan' = scan + 1 /\ index' = 1 /\ pc' = "claim" /\ printed' = 0 /\ hidden' = 0
        /\ UNCHANGED <<tally, states, contradicted>>
    BY <1>3 DEF NextObject
  <2>2. scan \in Nat /\ scan' \in DOMAIN Objects /\ \A k \in 1 .. scan : k \in DOMAIN Objects
    BY <1>1, <2>1, VerificationAssumption
  <2>3. \A c \in contradicted : \E k \in 1 .. scan : c[1] = Objects[k]
    BY DEF CountInv, LeftBehind
  <2>4. \A k \in 1 .. scan : k # scan' /\ k \in 1 .. scan'
    BY <2>1, <2>2
  <2>5. LeftBehind'
    BY <2>1, <2>3, <2>4 DEF LeftBehind
  <2>6. Here' = {}
    BY <2>1, <2>2, <2>3, <2>4, VerificationAssumption DEF Here, Object
  <2>7. CappedButExact'
    BY <2>1, <2>6, FS_EmptySet DEF CappedButExact, Here
  <2>8. Accounting'
    BY <1>1, <2>1 DEF CountInv, Accounting
  <2>9. QED
    BY <2>1, <2>5, <2>7, <2>8 DEF CountInv
<1>4. QED
  BY <1>2, <1>3

LEMMA NextCount == Typed /\ CountInv /\ [Next]_vars => CountInv'
<1> SUFFICES ASSUME Typed, CountInv, [Next]_vars PROVE CountInv'
  OBVIOUS
<1>1. CASE Get \/ GiveUpGet \/ SkipNullRef \/ ReadReference \/ UseReference
           \/ UnusableReference \/ EvaluatePredicate
  <2>1. pc \in Busy /\ UNCHANGED <<scan, index, summary>>
    BY <1>1 DEF Get, GiveUpGet, Probed, SkipNullRef, ReadReference, UseReference,
       UnusableReference, EvaluatePredicate, AtRef, place, Busy
  <2>2. pc' \in Busy
    BY <1>1 DEF Get, GiveUpGet, Probed, SkipNullRef, ReadReference, UseReference,
       UnusableReference, EvaluatePredicate, AtRef, place, Busy, Evaluated, GoTo
  <2>3. QED
    BY <2>1, <2>2, ExamineCount
<1>2. CASE Reconfigure \/ UNCHANGED vars
  BY <1>2 DEF Reconfigure, vars, place, summary, CountInv, LeftBehind, Accounting,
     CappedButExact, Object
<1>3. QED
  BY <1>1, <1>2, ClaimCount, JudgeCount, ObjectCount DEF Next, Tool

THEOREM CountInvariant == Spec => [](Typed /\ CountInv)
  BY InitTyped, NextTyped, InitCount, NextCount, PTL DEF Spec

\* The verification summary adds up at every moment of every run.
THEOREM SummaryAddsUp == Spec => []Accounting
<1>1. CountInv => Accounting
  BY DEF CountInv
<1>2. QED
  BY <1>1, CountInvariant, PTL

\* However many contradictions an object has, no more than MaxLines are printed
\* and the rest is counted exactly.
THEOREM LinesCapped == Spec => []CappedButExact
<1>1. CountInv => CappedButExact
  BY DEF CountInv
<1>2. QED
  BY <1>1, CountInvariant, PTL

-----------------------------------------------------------------------------
(* How much is left.                                                       *)

\* Of the scanned object: six turns for each attribute, from its claim over its
\* two predicates to the verdict, and the way to the next object.
Turns ==
  CASE pc = "done" -> 0
    [] pc = "next" -> 1
    [] pc = "judge" -> 6 * (NumAttributes + 1 - index) + 2
    [] pc = "condition" -> 6 * (NumAttributes + 1 - index) + 5 - list
    [] pc = "get" -> 6 * (NumAttributes + 1 - index) + 5
    [] OTHER -> 6 * (NumAttributes + 1 - index) + 6

\* Of a predicate: the rest of its list, and whether the entry it is at has still
\* to be read.
Unread == IF CurrentRef # Null /\ cache[CurrentRef] = "unread" THEN 1 ELSE 0

References ==
  IF AtRef THEN 2 * (Len(CurrentPredicate.refs) + 1 - pos) + Unread ELSE 0

Left == <<Len(Objects) - scan, Turns, References>>

\* The three of them are numbers in every typed state.
LEMMA ReferencesType == Typed => References \in Nat
<1> SUFFICES ASSUME Typed PROVE References \in Nat
  OBVIOUS
<1>1. CASE AtRef
  <2>1. /\ pos \in DOMAIN CurrentPredicate.refs
        /\ CurrentPredicate \in Predicate
    BY <1>1, PredicateType DEF AtRef, Typed, TypeOK, Scope, CurrentPredicate
  <2>2. CurrentPredicate.refs \in Seq(Ids \cup {Null})
    BY <2>1 DEF Predicate
  <2>3. pos \in 1 .. Len(CurrentPredicate.refs) /\ Len(CurrentPredicate.refs) \in Nat
    BY <2>1, <2>2
  <2>4. Unread \in 0 .. 1
    BY DEF Unread
  <2> DEFINE length == Len(CurrentPredicate.refs)
  <2>5. 2 * (length + 1 - pos) + Unread \in Nat
    <3> HIDE DEF length
    <3>1. pos \in 1 .. length /\ length \in Nat
      BY <2>3 DEF length
    <3>2. QED
      BY <2>4, <3>1
  <2>6. QED
    BY <1>1, <2>5 DEF References
<1>2. QED
  BY <1>1 DEF References

LEMMA Sized ==
  ASSUME Typed
  PROVE  Len(Objects) - scan \in Nat /\ Turns \in Nat /\ References \in Nat
<1>1. Len(Objects) \in Nat /\ scan \in 1 .. Len(Objects)
  BY VerificationAssumption DEF Typed, TypeOK, Scans
<1>2. NumAttributes \in Nat /\ index \in 1 .. NumAttributes + 1 /\ list \in 1 .. 2
  BY VerificationAssumption DEF Typed, TypeOK
<1>3. Turns \in Nat
  BY <1>2 DEF Turns
<1>4. Len(Objects) - scan \in Nat
  BY <1>1
<1>5. QED
  BY <1>3, <1>4, ReferencesType

\* A step within a predicate's list leaves less of it.
LEMMA ReferencesDown ==
  ASSUME Typed, Typed', SkipNullRef \/ ReadReference \/ UseReference
  PROVE  UNCHANGED <<scan, Turns>> /\ References' < References
<1>1. /\ UNCHANGED <<pc, scan, index, list>>
      /\ AtRef
      /\ \/ pos' = pos + 1
         \/ pos' = pos /\ CurrentRef # Null
              /\ cache[CurrentRef] = "unread" /\ cache'[CurrentRef] # "unread"
  <2>1. CASE SkipNullRef \/ UseReference
    BY <2>1 DEF SkipNullRef, UseReference, place
  <2>2. CASE ReadReference
    <3>1. PICK r \in ReferenceResults(CurrentRef) : cache' = [cache EXCEPT ![CurrentRef] = r]
      BY <2>2 DEF ReadReference
    <3>2. index \in Ids /\ TypeOK /\ CurrentPredicate \in Predicate
      BY <2>2, PredicateType DEF ReadReference, AtRef, Typed, TypeOK, Scope, CurrentPredicate
    <3>3. CurrentRef \in Ids
      BY <2>2, <3>2, ReferenceType DEF ReadReference, AtRef, CurrentRef
    <3>4. r # "unread"
      BY <3>2, <3>3, ResultFacts DEF Values
    <3>5. cache \in [Ids -> Entries]
      BY <3>2 DEF TypeOK
    <3>6. cache'[CurrentRef] # "unread"
      BY <3>1, <3>3, <3>4, <3>5
    <3>7. QED
      BY <2>2, <3>6 DEF ReadReference, place
  <2>3. QED
    BY <2>1, <2>2
<1>2. UNCHANGED <<scan, Turns, CurrentPredicate>>
  BY <1>1 DEF Turns, CurrentPredicate, Attribute, Object
<1>3. /\ pos \in 1 .. Len(CurrentPredicate.refs)
      /\ Len(CurrentPredicate.refs) \in Nat
  <2>1. CurrentPredicate \in Predicate /\ pos \in DOMAIN CurrentPredicate.refs
    BY <1>1, PredicateType DEF AtRef, Typed, TypeOK, Scope, CurrentPredicate
  <2>2. QED
    BY <2>1 DEF Predicate
<1> DEFINE length == Len(CurrentPredicate.refs)
<1>u. Unread \in 0 .. 1 /\ Unread' \in 0 .. 1
  BY DEF Unread
<1>r. References = 2 * (length + 1 - pos) + Unread
  BY <1>1 DEF References
<1>l. pos \in 1 .. length /\ length \in Nat /\ length' = length
  BY <1>2, <1>3
<1>n. AtRef' => References' = 2 * (length + 1 - pos') + Unread'
  BY <1>l DEF References
<1>o. ~AtRef' => References' = 0
  BY DEF References
<1> HIDE DEF length
<1>4. CASE pos' = pos + 1
  BY <1>2, <1>4, <1>u, <1>r, <1>l, <1>n, <1>o
<1>5. CASE pos' = pos /\ CurrentRef # Null
             /\ cache[CurrentRef] = "unread" /\ cache'[CurrentRef] # "unread"
  <2>1. AtRef' /\ CurrentRef' = CurrentRef
    BY <1>1, <1>2, <1>5 DEF AtRef, CurrentRef
  <2>2. Unread' = 0 /\ Unread = 1
    BY <1>5, <2>1 DEF Unread
  <2>3. References' = 2 * (length + 1 - pos)
    BY <1>5, <1>l, <1>n, <2>1, <2>2
  <2>4. QED
    BY <1>2, <1>l, <1>r, <2>2, <2>3
<1>6. QED
  BY <1>1, <1>4, <1>5

\* Any other step leaves fewer turns, or fewer objects.
LEMMA TurnsDown ==
  ASSUME Typed, Typed', Tool, ~ (SkipNullRef \/ ReadReference \/ UseReference)
  PROVE  \/ scan' = scan /\ Turns' < Turns
         \/ scan' = scan + 1
<1>0. /\ NumAttributes \in Nat
      /\ index \in 1 .. NumAttributes + 1 /\ index' \in 1 .. NumAttributes + 1
      /\ list \in 1 .. 2 /\ list' \in 1 .. 2
  BY VerificationAssumption DEF Typed, TypeOK
<1>1. CASE SkipAttribute \/ NotClaimed
  <2>1. UNCHANGED <<pc, scan>> /\ pc = "claim" /\ index' = index + 1
    BY <1>1 DEF SkipAttribute, NotClaimed
  <2>2. QED
    BY <1>0, <2>1 DEF Turns
<1>2. CASE Claimed
  BY <1>0, <1>2 DEF Claimed, Turns
<1>3. CASE Get \/ GiveUpGet
  <2>1. pc = "get" /\ UNCHANGED <<scan, index>> /\ GoTo(1)
    BY <1>3 DEF Get, GiveUpGet, Probed
  <2>2. pc' \in {"condition", "judge"}
    BY <2>1 DEF GoTo
  <2>3. QED
    BY <1>0, <2>1, <2>2 DEF Turns
<1>4. CASE UnusableReference \/ EvaluatePredicate
  <2>1. pc = "condition" /\ UNCHANGED <<scan, index>> /\ GoTo(list + 1)
    BY <1>4 DEF UnusableReference, EvaluatePredicate, Evaluated, AtRef
  <2>2. \/ pc' = "condition" /\ list' \in list + 1 .. 2
        \/ pc' = "judge"
    BY <2>1 DEF GoTo
  <2>3. QED
    BY <1>0, <2>1, <2>2 DEF Turns
<1>5. CASE Judge
  <2>1. pc = "judge" /\ pc' = "claim" /\ scan' = scan /\ index' = index + 1
    BY <1>5, Zenon DEF Judge
  <2>2. QED
    BY <1>0, <2>1 DEF Turns
<1>6. CASE EndScan
  <2>1. pc = "claim" /\ pc' \in {"next", "done"} /\ UNCHANGED <<scan, index>>
    BY <1>6 DEF EndScan
  <2>2. QED
    BY <1>0, <2>1 DEF Turns
<1>7. CASE NoFurtherObject
  BY <1>7 DEF NoFurtherObject, Turns
<1>8. CASE NextObject
  BY <1>8 DEF NextObject
<1>9. QED
  BY <1>1, <1>2, <1>3, <1>4, <1>5, <1>6, <1>7, <1>8 DEF Tool

\* A verification winds down: every step of the tool leaves it less to do, and
\* however often other processes reconfigure the ASIC in between, that adds
\* nothing. VerificationEnds rests on it.
THEOREM VerificationWindsDown ==
  Spec => /\ [](Left \in [1 .. 3 -> Nat])
          /\ [][(Tool => Down(3, Left', Left)) /\ (Reconfigure => Left' = Left)]_vars
<1> DEFINE Sizes == Len(Objects) - scan \in Nat /\ Turns \in Nat /\ References \in Nat
<1>0. Typed => Sizes
  BY Sized
<1>1. Sizes => Left \in [1 .. 3 -> Nat]
  BY DEF Left
<1>2. Typed /\ Typed' /\ Sizes /\ Sizes' /\ Tool => Down(3, Left', Left)
  <2> SUFFICES ASSUME Typed, Typed', Sizes, Sizes', Tool PROVE Down(3, Left', Left)
    OBVIOUS
  <2>1. /\ Len(Objects) - scan \in Nat /\ Turns \in Nat /\ References \in Nat
        /\ Len(Objects) - scan' \in Nat /\ Turns' \in Nat /\ References' \in Nat
    OBVIOUS
  <2>2. \/ Len(Objects) - scan' < Len(Objects) - scan
        \/ scan' = scan /\ Turns' < Turns
        \/ scan' = scan /\ Turns' = Turns /\ References' < References
    <3>1. Len(Objects) \in Nat /\ scan \in 1 .. Len(Objects)
      BY VerificationAssumption DEF Typed, TypeOK, Scans
    <3>2. \/ scan' = scan + 1
          \/ scan' = scan /\ Turns' < Turns
          \/ scan' = scan /\ Turns' = Turns /\ References' < References
      BY ReferencesDown, TurnsDown
    <3>3. scan' = scan + 1 => Len(Objects) - scan' < Len(Objects) - scan
      BY <3>1
    <3>4. QED
      BY <3>2, <3>3
  <2>3. QED
    BY <2>1, <2>2, TripleDown DEF Left
<1>3. Reconfigure => Left' = Left
  <2> SUFFICES ASSUME Reconfigure PROVE Left' = Left
    OBVIOUS
  <2>1. UNCHANGED <<pc, scan, index, list, pos, cache>>
    BY DEF Reconfigure, place
  <2>2. UNCHANGED CurrentPredicate
    BY <2>1 DEF CurrentPredicate, Attribute, Object
  <2>3. UNCHANGED <<AtRef, CurrentRef>>
    BY <2>1, <2>2 DEF AtRef, CurrentRef
  <2>4. QED
    BY <2>1, <2>2, <2>3 DEF Left, Turns, References, Unread
<1>4. QED
  BY <1>0, <1>1, <1>2, <1>3, InitTyped, NextTyped, PTL DEF Spec

===============================================================================
