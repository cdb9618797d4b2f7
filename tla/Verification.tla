----------------------------- MODULE Verification -----------------------------
(***************************************************************************)
(* --verify-attributes: for every attribute the adapter declares gettable  *)
(* the tool performs a real GET on the switch and then on one sampled      *)
(* port, evaluates the conditions the attribute is subject to against live *)
(* values, and counts the claim as confirmed, contradicted or unverifiable *)
(* (verify_attribute_capabilities and the functions it calls).             *)
(*                                                                         *)
(* The ASIC is shared: other processes may reconfigure it between any two  *)
(* GETs. An honest adapter declares what is true and its GETs tell what is *)
(* live; any other adapter may declare, fail and answer as it likes.       *)
(*                                                                         *)
(* One fetch_attribute call is one step (FetchAttribute shows that it      *)
(* always returns, and reports Ok only for a read that succeeded). A probe *)
(* that does not return Ok has failed, whether the adapter refused the GET *)
(* or the tool gave it up: at the limit, after the last retry, or because  *)
(* the call threw or timed out. A live value is "on" when a condition that *)
(* refers to it compares true.                                             *)
(***************************************************************************)
EXTENDS Naturals, FiniteSets, Sequences

CONSTANTS
  Objects,        \* the objects scanned, in order: the switch, then a port
  NumAttributes,  \* attributes of a type; ids are shared between the types
  Meta,           \* [object -> [id -> metadata]]
  MaxLines,       \* kMaxContradictionLines
  MaxReconfigs    \* how often other processes change the ASIC (a bound)

Ids  == 1 .. NumAttributes
Null == 0                       \* a null entry of a condition list
Scans == 1 .. Len(Objects)

\* A predicate of an attribute: whether it has one, the attributes its list
\* refers to, and whether one true condition is enough or all must be true.
Predicate == [on : BOOLEAN, refs : Seq(Ids \cup {Null}), any : BOOLEAN]

\* fetch: can_fetch_value_type; comparable: is_condition_evaluable_value_type;
\* predicates: first `conditions' (isconditional), then `validonly'.
Metadata == [fetch : BOOLEAN, comparable : BOOLEAN, predicates : [1 .. 2 -> Predicate]]

ASSUME VerificationAssumption ==
  /\ NumAttributes \in Nat
  /\ Objects \in Seq(DOMAIN Meta)
  /\ Objects # <<>>
  /\ \A i, j \in DOMAIN Objects : Objects[i] = Objects[j] => i = j
  /\ Meta \in [DOMAIN Meta -> [Ids -> Metadata]]
  /\ MaxLines \in Nat
  /\ MaxReconfigs \in Nat

VARIABLES
  honest,         \* does the adapter tell the truth? fixed
  live,           \* [object -> [id -> value]]: what the ASIC holds
  reconfigs,      \* how often it was changed during the run
  pc,             \* where the run is
  scan,           \* which object is scanned
  index,          \* the attribute the scan is at
  probe,          \* what became of the GET of that attribute
  list,           \* which of its predicates is evaluated
  pos,            \* the next entry of that predicate's list
  condition,      \* what its predicates evaluated to so far
  cache,          \* ConditionAttributeCache of this object
  tally,          \* AttributeVerificationSummary: the attribute counts
  states,         \* AttributeVerificationSummary: the condition counts
  contradicted,   \* AttributeVerificationSummary: contradictory_attributes
  printed,        \* contradictions printed for this object
  hidden,         \* contradictions of this object that were not printed
  reads           \* history: condition GETs per attribute of this object

asic    == <<honest, live, reconfigs>>
place   == <<pc, scan, index>>
summary == <<tally, states, contradicted, printed, hidden>>
vars == <<asic, place, probe, list, pos, condition, cache, summary, reads>>

Values     == {"off", "on"}
Entries    == Values \cup {"unread", "failed"}
Probes     == {"ok", "refused", "given_up"}
Conditions == {"Met", "NotMet", "Unknown"}
Agreements == {"Agree", "Contradiction", "Unverifiable"}
Tallies    == Agreements \cup {"checked", "skipped"}

Object    == Objects[scan]
Attribute == Meta[Object][index]
IsConditional(m) == m.predicates[1].on \/ m.predicates[2].on

-----------------------------------------------------------------------------
(* The metadata condition evaluators and the ASIC, both external.          *)

Referenced(p) == {p.refs[i] : i \in DOMAIN p.refs} \ {Null}

\* Is predicate p true of the values v?
Holds(p, v) ==
  IF p.any THEN \E a \in Referenced(p) : v[a] = "on"
           ELSE \A a \in Referenced(p) : v[a] = "on"

\* Does attribute a of object o exist under the present configuration?
InForce(o, a) ==
  \A i \in 1 .. 2 :
    Meta[o][a].predicates[i].on => Holds(Meta[o][a].predicates[i], live[o])

\* What a GET of attribute a of the scanned object may return, if the adapter
\* declares a gettable and the tool sees the GET through to its answer. Out of
\* force, an honest adapter may refuse or answer.
GetResults(a) ==
  IF honest
  THEN {live[Object][a]} \cup (IF InForce(Object, a) THEN {} ELSE {"failed"})
  ELSE Values \cup {"failed"}

\* Nothing was declared of an attribute that is read for a condition: it may
\* fail to be read although it is in force.
ReferenceResults(a) == GetResults(a) \cup {"failed"}

-----------------------------------------------------------------------------

TypeOK ==
  /\ honest \in BOOLEAN
  /\ live \in [DOMAIN Meta -> [Ids -> Values]]
  /\ reconfigs \in 0 .. MaxReconfigs
  /\ pc \in {"claim", "get", "condition", "judge", "next", "done"}
  /\ scan \in Scans
  /\ index \in 1 .. NumAttributes + 1
  /\ probe \in Probes
  /\ list \in 1 .. 2
  /\ pos \in Nat \ {0}
  /\ condition \in Conditions
  /\ cache \in [Ids -> Entries]
  /\ tally \in [Tallies -> Nat]
  /\ states \in [Conditions -> Nat]
  /\ contradicted \subseteq (DOMAIN Meta) \X Ids
  /\ printed \in 0 .. MaxLines
  /\ hidden \in Nat
  /\ reads \in [Ids -> Nat]

AllOff == [o \in DOMAIN Meta |-> [a \in Ids |-> "off"]]

\* What the ASIC holds matters only to the answers of an honest adapter.
Init ==
  /\ honest \in BOOLEAN
  /\ live \in [DOMAIN Meta -> [Ids -> Values]]
  /\ honest \/ live = AllOff
  /\ reconfigs = 0
  /\ pc = "claim"
  /\ scan = 1
  /\ index = 1
  /\ probe = "ok"
  /\ list = 1
  /\ pos = 1
  /\ condition = "Met"
  /\ cache = [a \in Ids |-> "unread"]
  /\ tally = [t \in Tallies |-> 0]
  /\ states = [c \in Conditions |-> 0]
  /\ contradicted = {}
  /\ printed = 0
  /\ hidden = 0
  /\ reads = [a \in Ids |-> 0]

Count(f, k) == [f EXCEPT ![k] = @ + 1]

\* Another process changes a value of an object.
Reconfigure ==
  /\ pc # "done"
  /\ honest
  /\ reconfigs < MaxReconfigs
  /\ \E o \in DOMAIN Meta, a \in Ids :
       live' = [live EXCEPT ![o][a] = IF @ = "on" THEN "off" ELSE "on"]
  /\ reconfigs' = reconfigs + 1
  /\ UNCHANGED <<honest, place, probe, list, pos, condition, cache, summary, reads>>

-----------------------------------------------------------------------------
(* The scan of one object.                                                 *)

\* A value type the tool cannot ask for is only counted.
SkipAttribute ==
  /\ pc = "claim"
  /\ index \in Ids
  /\ ~Attribute.fetch
  /\ tally' = Count(tally, "skipped")
  /\ index' = index + 1
  /\ UNCHANGED <<asic, pc, scan, probe, list, pos, condition, cache,
                 states, contradicted, printed, hidden, reads>>

\* sai_query_attribute_capability: failed (or threw), or not gettable.
NotClaimed ==
  /\ pc = "claim"
  /\ index \in Ids
  /\ Attribute.fetch
  /\ index' = index + 1
  /\ UNCHANGED <<asic, pc, scan, probe, list, pos, condition, cache, summary, reads>>

\* The adapter declares the attribute gettable.
Claimed ==
  /\ pc = "claim"
  /\ index \in Ids
  /\ Attribute.fetch
  /\ tally' = Count(tally, "checked")
  /\ pc' = "get"
  /\ UNCHANGED <<asic, scan, index, probe, list, pos, condition, cache,
                 states, contradicted, printed, hidden, reads>>

\* Where the evaluation goes after predicate i - 1 of an attribute: to the
\* next predicate it has, or to the verdict.
GoTo(i) ==
  LET left == {j \in i .. 2 : Attribute.predicates[j].on} IN
    /\ pos' = 1
    /\ IF left = {}
       THEN pc' = "judge" /\ UNCHANGED list
       ELSE /\ pc' = "condition"
            /\ list' \in left
            /\ \A j \in left : list' <= j

\* The GET that puts the claim to the test comes before any condition is read.
Probed(p) ==
  /\ probe' = p
  /\ condition' = "Met"
  /\ GoTo(1)
  /\ UNCHANGED <<asic, scan, index, cache, summary, reads>>

\* The adapter answered, or refused.
Get ==
  /\ pc = "get"
  /\ \E r \in GetResults(index) : Probed(IF r = "failed" THEN "refused" ELSE "ok")

\* fetch_attribute gave up by itself, which says nothing of the claim: the value
\* is larger than the limit, an adapter that reports no size overflowed once too
\* often, or the call threw, as it does when the response times out.
GiveUpGet ==
  /\ pc = "get"
  /\ Probed("given_up")

-----------------------------------------------------------------------------
(* evaluate_attribute_condition and evaluate_condition_list.               *)

CurrentPredicate == Attribute.predicates[list]
CurrentRef       == CurrentPredicate.refs[pos]
AtRef == pc = "condition" /\ pos \in DOMAIN CurrentPredicate.refs

\* Slip: a condition that could not be evaluated does not count.
CombineIgnoresUnknown(a, b) == IF "NotMet" \in {a, b} THEN "NotMet" ELSE "Met"

\* combine_condition_states
Combine(a, b) ==
  IF "NotMet" \in {a, b} THEN "NotMet"
  ELSE IF "Unknown" \in {a, b} THEN "Unknown"
  ELSE "Met"

\* The current predicate evaluated to s.
Evaluated(s) == condition' = Combine(condition, s) /\ GoTo(list + 1)

\* Slip: a null entry is looked at again instead of passed over.
SkipNullRefStays ==
  /\ AtRef
  /\ CurrentRef = Null
  /\ UNCHANGED vars

SkipNullRef ==
  /\ AtRef
  /\ CurrentRef = Null
  /\ pos' = pos + 1
  /\ UNCHANGED <<asic, place, probe, list, condition, cache, summary, reads>>

\* Slip: the cache remembers values only, so a failed read is repeated.
ReadReferenceRetriesFailures ==
  /\ AtRef
  /\ CurrentRef # Null
  /\ Meta[Object][CurrentRef].comparable
  /\ cache[CurrentRef] \in {"unread", "failed"}
  /\ \E r \in ReferenceResults(CurrentRef) : cache' = [cache EXCEPT ![CurrentRef] = r]
  /\ reads' = Count(reads, CurrentRef)
  /\ UNCHANGED <<asic, place, probe, list, pos, condition, summary>>

\* ConditionAttributeCache::read on first use; a failure is remembered too.
ReadReference ==
  /\ AtRef
  /\ CurrentRef # Null
  /\ Meta[Object][CurrentRef].comparable
  /\ cache[CurrentRef] = "unread"
  /\ \E r \in ReferenceResults(CurrentRef) : cache' = [cache EXCEPT ![CurrentRef] = r]
  /\ reads' = Count(reads, CurrentRef)
  /\ UNCHANGED <<asic, place, probe, list, pos, condition, summary>>

\* A value that is already cached, for this list or for an earlier one.
UseReference ==
  /\ AtRef
  /\ CurrentRef # Null
  /\ Meta[Object][CurrentRef].comparable
  /\ cache[CurrentRef] \in Values
  /\ pos' = pos + 1
  /\ UNCHANGED <<asic, place, probe, list, condition, cache, summary, reads>>

\* A reference that cannot be compared or could not be read.
UnusableReference ==
  /\ AtRef
  /\ CurrentRef # Null
  /\ ~Meta[Object][CurrentRef].comparable \/ cache[CurrentRef] = "failed"
  /\ Evaluated("Unknown")
  /\ UNCHANGED <<asic, scan, index, probe, cache, summary, reads>>

\* Every reference was read. A list without one is not put to the evaluator,
\* which would fall back to default values.
EvaluatePredicate ==
  /\ pc = "condition"
  /\ ~AtRef
  /\ Evaluated(IF Referenced(CurrentPredicate) = {} THEN "Unknown"
               ELSE IF Holds(CurrentPredicate, cache) THEN "Met"
               ELSE "NotMet")
  /\ UNCHANGED <<asic, scan, index, probe, cache, summary, reads>>

-----------------------------------------------------------------------------
(* The verdict.                                                            *)

\* Slip: only a condition known to be unmet excuses a failed GET.
AgreementUnlessNotMet(ok, conditional, c) ==
  IF ok THEN "Agree"
  ELSE IF conditional /\ c = "NotMet" THEN "Unverifiable"
  ELSE "Contradiction"

\* compare_attribute_capability_with_condition, for an attribute declared
\* gettable.
Agreement(ok, conditional, c) ==
  IF ok THEN "Agree"
  ELSE IF conditional /\ c # "Met" THEN "Unverifiable"
  ELSE "Contradiction"

\* Slip: a contradiction that is not printed is not counted as hidden either.
ReportContradictionForgets ==
  /\ contradicted' = contradicted \cup {<<Object, index>>}
  /\ printed' = IF printed < MaxLines THEN printed + 1 ELSE printed
  /\ UNCHANGED hidden

\* Slip: one line too many is printed.
ReportContradictionOneMore ==
  /\ contradicted' = contradicted \cup {<<Object, index>>}
  /\ IF printed <= MaxLines
     THEN printed' = printed + 1 /\ UNCHANGED hidden
     ELSE hidden' = hidden + 1 /\ UNCHANGED printed

ReportContradiction ==
  /\ contradicted' = contradicted \cup {<<Object, index>>}
  /\ IF printed < MaxLines
     THEN printed' = printed + 1 /\ UNCHANGED hidden
     ELSE hidden' = hidden + 1 /\ UNCHANGED printed

\* Slip: an unverifiable claim leaves no trace in the summary.
JudgeDropsUnverifiable ==
  LET conditional == IsConditional(Attribute)
      verdict     == Agreement(probe = "ok", conditional, condition) IN
  /\ pc = "judge"
  /\ tally' = IF verdict = "Unverifiable" THEN tally ELSE Count(tally, verdict)
  /\ states' = IF conditional THEN Count(states, condition) ELSE states
  /\ IF verdict = "Contradiction"
     THEN ReportContradiction
     ELSE UNCHANGED <<contradicted, printed, hidden>>
  /\ index' = index + 1
  /\ pc' = "claim"
  /\ UNCHANGED <<asic, scan, probe, list, pos, condition, cache, reads>>

Judge ==
  LET conditional == IsConditional(Attribute)
      verdict     == Agreement(probe = "ok", conditional, condition) IN
  /\ pc = "judge"
  /\ tally' = Count(tally, verdict)
  /\ states' = IF conditional THEN Count(states, condition) ELSE states
  /\ IF verdict = "Contradiction"
     THEN ReportContradiction
     ELSE UNCHANGED <<contradicted, printed, hidden>>
  /\ index' = index + 1
  /\ pc' = "claim"
  /\ UNCHANGED <<asic, scan, probe, list, pos, condition, cache, reads>>

-----------------------------------------------------------------------------
(* verify_attribute_capabilities: from one object to the next.             *)

EndScan ==
  /\ pc = "claim"
  /\ index \notin Ids
  /\ pc' = IF scan < Len(Objects) THEN "next" ELSE "done"
  /\ UNCHANGED <<asic, scan, index, probe, list, pos, condition, cache, summary, reads>>

\* Slip: one cache serves both scans.
NextObjectKeepsCache ==
  /\ pc = "next"
  /\ scan' = scan + 1
  /\ index' = 1
  /\ pc' = "claim"
  /\ printed' = 0
  /\ hidden' = 0
  /\ reads' = [a \in Ids |-> 0]
  /\ UNCHANGED <<asic, probe, list, pos, condition, cache, tally, states, contradicted>>

\* A port was found: its scan has counters and a cache of its own.
NextObject ==
  /\ pc = "next"
  /\ scan' = scan + 1
  /\ index' = 1
  /\ pc' = "claim"
  /\ printed' = 0
  /\ hidden' = 0
  /\ cache' = [a \in Ids |-> "unread"]
  /\ reads' = [a \in Ids |-> 0]
  /\ UNCHANGED <<asic, probe, list, pos, condition, tally, states, contradicted>>

\* No port list, no port API or no usable port: the run ends here.
NoFurtherObject ==
  /\ pc = "next"
  /\ pc' = "done"
  /\ UNCHANGED <<asic, scan, index, probe, list, pos, condition, cache, summary, reads>>

Tool ==
  \/ SkipAttribute
  \/ NotClaimed
  \/ Claimed
  \/ Get
  \/ GiveUpGet
  \/ SkipNullRef
  \/ ReadReference
  \/ UseReference
  \/ UnusableReference
  \/ EvaluatePredicate
  \/ Judge
  \/ EndScan
  \/ NextObject
  \/ NoFurtherObject

Next == Tool \/ Reconfigure

\* The tool is one thread and every SAI call returns or throws within the
\* response timeout; nothing obliges other processes to touch the ASIC.
Fairness == WF_vars(Tool)

Spec == Init /\ [][Next]_vars /\ Fairness

-----------------------------------------------------------------------------
(* What the verification promises.                                         *)

\* Does the run concern an adapter that tells the truth about an ASIC nobody
\* else touches?
Undisturbed == honest /\ reconfigs = 0

\* The summary line adds up at every moment: each checked claim gets exactly
\* one verdict, each contradicted attribute is counted once, and only an
\* attribute whose condition was counted as unmet or unknown is unverifiable.
Accounting ==
  /\ tally["checked"] =
       tally["Agree"] + tally["Contradiction"] + tally["Unverifiable"]
         + (IF pc \in {"get", "condition", "judge"} THEN 1 ELSE 0)
  /\ tally["Contradiction"] = Cardinality(contradicted)
  /\ tally["Unverifiable"] <= states["NotMet"] + states["Unknown"]

\* Contradiction lines are capped per object while the counts stay exact: the
\* printed and the hidden ones are all of this object's, and nothing is hidden
\* before the cap is reached.
CappedButExact ==
  /\ printed + hidden = Cardinality({c \in contradicted : c[1] = Object})
  /\ hidden > 0 => printed = MaxLines

\* An adapter whose declarations are true is accused only for a GET the tool gave
\* up by itself: whatever conditions cannot be read or compared and whatever does
\* not exist at the moment, what the adapter rightly refused is never held against
\* it. (What the tool gave up is: any outcome but Ok counts as a failed probe.)
NoFalseContradiction ==
  [][Undisturbed /\ contradicted' # contradicted => probe = "given_up"]_vars

\* A conditional attribute is called contradicted only by a step for which every
\* reference of every predicate it carries has been read, there is at least one,
\* and the predicates are true of the values read.
ContradictionIsBacked ==
  [][contradicted' # contradicted =>
       \A i \in 1 .. 2 : Attribute.predicates[i].on =>
         LET p == Attribute.predicates[i] IN
           /\ Referenced(p) # {}
           /\ \A a \in Referenced(p) : cache[a] \in Values
           /\ Holds(p, cache)]_vars

\* The cache holds what the scanned object holds, never a value of the object
\* scanned before it, although both number their attributes alike.
CacheIsOfThisObject ==
  Undisturbed => \A a \in Ids : cache[a] \in {"unread", "failed", live[Object][a]}

\* However many conditions refer to an attribute, and whether or not reading it
\* worked, it is read for them once per object.
ReadOnce == \A a \in Ids : reads[a] <= 1

\* The verification ends, whatever the adapter answers.
VerificationEnds == <>(pc = "done")

\* cap_logic.h says of false contradictions for conditional attributes that they
\* are "exactly the kind of false positive it exists to avoid". Leave aside the
\* GETs the tool gave up: even what a truthful adapter rightly refused is held
\* against it. The GET comes before its conditions are read, so another process
\* can bring the attribute into force in between.
NoFalsePositive ==
  [][honest /\ contradicted' # contradicted => probe = "given_up"]_vars

===============================================================================
