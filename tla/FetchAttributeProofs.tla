------------------------- MODULE FetchAttributeProofs -------------------------
(***************************************************************************)
(* What FetchAttribute guarantees for every first buffer, safety limit,    *)
(* retry bound and set of list sizes.                                      *)
(***************************************************************************)
EXTENDS FetchAttribute, NumberProofs

-----------------------------------------------------------------------------
(* Lemmas about the operators.                                             *)

\* A buffer that was too small is followed by a larger one.
LEMMA RequiredGrows ==
  ASSUME NEW c \in 1 .. MaximumCapacity, NEW n \in Nat
  PROVE  Required(c, n) \in Nat /\ Required(c, n) > c
  BY FetchAssumption DEF Required

\* The size an adapter reports is the size of the next buffer.
LEMMA RequiredFollowsTheReport ==
  ASSUME NEW c \in Nat, NEW n \in Nat, n > c
  PROVE  Required(c, n) = n
  BY DEF Required

\* The limit is refused only for a size announced above it, or once the
\* buffer is past half of it.
LEMMA LimitIsReal ==
  ASSUME NEW c \in 1 .. MaximumCapacity, NEW n \in Nat, ~Binds(Required(c, n))
  PROVE  n > MaximumCapacity \/ 2 * c > MaximumCapacity
  BY FetchAssumption DEF Required, Binds

\* What a reply is.
LEMMA ReplyFacts ==
  ASSUME TypeOK, NEW c \in Nat, NEW r \in Replies(c)
  PROVE  /\ r.status \in Statuses
         /\ r.count \in Nat
         /\ manner # "erratic" =>
              (r.status = "BUFFER_OVERFLOW" => ~Fits(c))
         /\ manner = "reports" =>
              (r.status = "BUFFER_OVERFLOW" => r.count = size)
  BY FetchAssumption DEF Replies, TypeOK, Statuses, Refusals

-----------------------------------------------------------------------------
(* The inductive invariant.                                                *)

\* Before the first GET nothing has happened.
StartInv ==
  pc = "start" =>
    /\ asks = 0 /\ attempt = 0 /\ capacity = 0
    /\ status = "FAILURE" /\ outcome = NoOutcome

\* Between two GETs every GET but the first was a retry, and a buffer is
\* bound exactly for a list.
AnsweredInv ==
  pc = "answered" =>
    /\ asks = attempt + 1
    /\ CanFetch(kind)
    /\ IsBuffered(kind) <=> capacity # 0
    /\ outcome = NoOutcome

\* An adapter that reports sizes says its own, and gets a buffer of that size.
ReportInv ==
  manner = "reports" /\ pc = "answered" =>
    /\ status = "BUFFER_OVERFLOW" =>
         count = size /\ IsBuffered(kind) /\ capacity < size
    /\ attempt > 0 => size <= capacity /\ attempt = 1

IInv ==
  /\ TypeOK
  /\ StartInv
  /\ AnsweredInv
  /\ ReportInv
  /\ OutcomeHonest
  /\ pc = "done" => (outcome.result = "Ok" => asks > 0 /\ status = "SUCCESS" /\ outcome.detail = "none")
  /\ ReportedListIsRead

\* The outcomes the code can return are outcomes.
LEMMA OutcomeType ==
  /\ NoOutcome \in Outcomes
  /\ [result |-> "Failure", status |-> "FAILURE", detail |-> "threw"] \in Outcomes
  /\ [result |-> "Skipped", status |-> "FAILURE", detail |-> "not_probeable"] \in Outcomes
  /\ [result |-> "Failure", status |-> "NO_MEMORY", detail |-> "limit"] \in Outcomes
  /\ \A st \in Statuses :
       /\ [result |-> "Failure", status |-> st, detail |-> "non_list"] \in Outcomes
       /\ [result |-> "Failure", status |-> st, detail |-> "none"] \in Outcomes
       /\ [result |-> "Ok", status |-> st, detail |-> "none"] \in Outcomes
  BY DEF NoOutcome, Outcomes, Results, Statuses, Refusals, Details

LEMMA InitIInv == Init => IInv
<1> SUFFICES ASSUME Init PROVE IInv
  OBVIOUS
<1>1. TypeOK
  BY FetchAssumption, OutcomeType DEF Init, TypeOK, Statuses, Refusals
<1>2. StartInv /\ AnsweredInv /\ ReportInv
  BY DEF Init, StartInv, AnsweredInv, ReportInv
<1>3. OutcomeHonest /\ ReportedListIsRead
  BY DEF Init, OutcomeHonest, ReportedListIsRead, GaveUp
<1>4. QED
  BY <1>1, <1>2, <1>3 DEF IInv, Init

LEMMA SkipValueIInv == IInv /\ SkipValue => IInv'
<1> SUFFICES ASSUME IInv, SkipValue PROVE IInv'
  OBVIOUS
<1>1. TypeOK /\ asks = 0
  BY DEF IInv, StartInv, SkipValue
<1>2. TypeOK'
  BY <1>1, OutcomeType DEF SkipValue, Return, TypeOK
<1>3. StartInv' /\ AnsweredInv' /\ ReportInv'
  BY DEF SkipValue, Return, StartInv, AnsweredInv, ReportInv
<1>4. OutcomeHonest' /\ ReportedListIsRead'
  BY <1>1 DEF SkipValue, Return, OutcomeHonest, ReportedListIsRead, GaveUp
<1>5. QED
  BY <1>2, <1>3, <1>4 DEF IInv, SkipValue, Return

\* One GET into a buffer of c elements, offered when the loop may ask: the
\* facts both the first GET and a retry need.
LEMMA GetIInv ==
  ASSUME TypeOK, outcome = NoOutcome, CanFetch(kind),
         NEW c \in 0 .. MaximumCapacity, IsBuffered(kind) <=> c # 0,
         Get(c), UNCHANGED <<manner, size, kind>>,
         attempt' = asks, asks \in 0 .. MaxRetries,
         manner = "reports" =>
           \/ asks = 0
           \/ asks = 1 /\ size <= c /\ IsBuffered(kind),
         status # "SUCCESS"
  PROVE  IInv'
<1>0. c \in Nat /\ MaxRetries \in Nat /\ asks \in Nat /\ size \in Nat
  BY FetchAssumption DEF TypeOK
<1>a. capacity' = c /\ asks' = asks + 1 /\ UNCHANGED <<manner, size, kind>>
  BY DEF Get
<1>1. CASE \E r \in Replies(c) : status' = r.status /\ count' = r.count
           /\ pc' = "answered" /\ UNCHANGED outcome
  <2>1. PICK r \in Replies(c) : status' = r.status /\ count' = r.count
             /\ pc' = "answered" /\ UNCHANGED outcome
    BY <1>1
  <2>2. /\ r.status \in Statuses /\ r.count \in Nat
        /\ manner = "reports" /\ r.status = "BUFFER_OVERFLOW" =>
             ~Fits(c) /\ r.count = size
    BY <1>0, ReplyFacts
  <2>3. TypeOK'
    BY <1>0, <1>a, <2>1, <2>2 DEF TypeOK
  <2>4. StartInv' /\ AnsweredInv' /\ OutcomeHonest'
    BY <1>0, <1>a, <2>1 DEF StartInv, AnsweredInv, OutcomeHonest, CanFetch, IsBuffered
  <2>5. ReportInv'
    BY <1>0, <1>a, <2>1, <2>2 DEF ReportInv, Fits, IsBuffered
  <2>6. ReportedListIsRead'
    BY <1>0, <1>a, <2>1 DEF ReportedListIsRead, GaveUp
  <2>7. QED
    BY <2>1, <2>3, <2>4, <2>5, <2>6 DEF IInv
<1>2. CASE Return("Failure", "FAILURE", "threw") /\ UNCHANGED <<status, count>>
  <2>1. TypeOK'
    BY <1>0, <1>a, <1>2, OutcomeType DEF Return, TypeOK
  <2>2. StartInv' /\ AnsweredInv' /\ ReportInv'
    BY <1>2 DEF Return, StartInv, AnsweredInv, ReportInv
  <2>3. asks' > 0
    BY <1>0, <1>a
  <2>4. OutcomeHonest'
    BY <1>2, <2>3 DEF Return, OutcomeHonest
  <2>5. ReportedListIsRead'
    BY <1>0, <1>a, <1>2 DEF Return, ReportedListIsRead, GaveUp
  <2>6. QED
    BY <1>2, <2>1, <2>2, <2>4, <2>5 DEF IInv, Return
<1>3. QED
  BY <1>1, <1>2 DEF Get

LEMMA FirstGetIInv == IInv /\ FirstGet => IInv'
<1> SUFFICES ASSUME IInv, FirstGet PROVE IInv'
  OBVIOUS
<1>1. TypeOK /\ asks = 0 /\ attempt = 0 /\ outcome = NoOutcome /\ status # "SUCCESS"
  BY DEF IInv, StartInv, FirstGet
<1>0. MaxRetries \in Nat
  BY FetchAssumption
<1>2. CASE IsBuffered(kind)
  <2>1. InitialCapacity \in 0 .. MaximumCapacity /\ InitialCapacity # 0
    BY FetchAssumption
  <2>2. QED
    BY <1>0, <1>1, <1>2, <2>1, GetIInv DEF FirstGet
<1>3. CASE ~IsBuffered(kind)
  BY <1>0, <1>1, <1>3, FetchAssumption, GetIInv DEF FirstGet
<1>4. QED
  BY <1>2, <1>3

LEMMA OverflowOnNonListIInv == IInv /\ OverflowOnNonList => IInv'
<1> SUFFICES ASSUME IInv, OverflowOnNonList PROVE IInv'
  OBVIOUS
<1> USE DEF OverflowOnNonList, Overflowed
<1>1. /\ TypeOK /\ status \in Statuses /\ status = "BUFFER_OVERFLOW"
      /\ ~IsBuffered(kind) /\ asks = attempt + 1
  BY DEF IInv, AnsweredInv, TypeOK
<1>2. asks > 0
  <2>1. attempt \in Nat
    BY FetchAssumption, <1>1 DEF TypeOK
  <2>2. QED
    BY <1>1, <2>1
<1>3. manner # "reports"
  BY <1>1 DEF IInv, ReportInv
<1>4. TypeOK'
  BY <1>1, OutcomeType DEF Return, TypeOK
<1>5. StartInv' /\ AnsweredInv' /\ ReportInv'
  BY DEF Return, StartInv, AnsweredInv, ReportInv
<1>6. OutcomeHonest' /\ ReportedListIsRead'
  BY <1>1, <1>2, <1>3 DEF Return, OutcomeHonest, ReportedListIsRead
<1>7. QED
  BY <1>4, <1>5, <1>6 DEF IInv, Return

LEMMA OverflowAboveLimitIInv == IInv /\ OverflowAboveLimit => IInv'
<1> SUFFICES ASSUME IInv, OverflowAboveLimit PROVE IInv'
  OBVIOUS
<1> USE DEF OverflowAboveLimit, Overflowed
<1>1. /\ TypeOK /\ status = "BUFFER_OVERFLOW"
      /\ IsBuffered(kind) /\ asks = attempt + 1
  BY DEF IInv, AnsweredInv
<1>2. asks > 0
  <2>1. attempt \in Nat
    BY FetchAssumption, <1>1 DEF TypeOK
  <2>2. QED
    BY <1>1, <2>1
<1>3. capacity \in 1 .. MaximumCapacity /\ count \in Nat /\ ReportedCount = count
  BY <1>1, FetchAssumption DEF TypeOK, ReportedCount
<1>4. count > MaximumCapacity \/ 2 * capacity > MaximumCapacity
  BY <1>3, LimitIsReal
<1>5. manner = "reports" => size > MaximumCapacity
  <2> SUFFICES ASSUME manner = "reports" PROVE size > MaximumCapacity
    OBVIOUS
  <2>1. count = size /\ capacity < size
    BY <1>1 DEF IInv, ReportInv
  <2>2. size \in Nat
    BY <1>1, FetchAssumption DEF TypeOK
  <2>3. Required(capacity, count) = size
    BY <1>3, <2>1, <2>2, RequiredFollowsTheReport
  <2>4. QED
    BY <1>3, <2>2, <2>3, FetchAssumption DEF Binds
<1>6. TypeOK'
  BY <1>1, OutcomeType DEF Return, TypeOK
<1>7. StartInv' /\ AnsweredInv' /\ ReportInv'
  BY DEF Return, StartInv, AnsweredInv, ReportInv
<1>8. OutcomeHonest'
  BY <1>1, <1>2, <1>4 DEF Return, OutcomeHonest
<1>9. ReportedListIsRead'
  <2>1. size \in Nat /\ MaximumCapacity \in Nat
    BY <1>1, FetchAssumption DEF TypeOK
  <2>2. QED
    BY <1>5, <2>1 DEF ReportedListIsRead
<1>10. QED
  BY <1>6, <1>7, <1>8, <1>9 DEF IInv, Return

LEMMA GrowAndGetIInv == IInv /\ GrowAndGet => IInv'
<1> SUFFICES ASSUME IInv, GrowAndGet PROVE IInv'
  OBVIOUS
<1> DEFINE c == Required(capacity, ReportedCount)
<1>1. /\ TypeOK /\ status = "BUFFER_OVERFLOW" /\ attempt < MaxRetries /\ capacity # 0
      /\ IsBuffered(kind) /\ CanFetch(kind) /\ asks = attempt + 1 /\ outcome = NoOutcome
      /\ attempt' = attempt + 1 /\ Get(c) /\ UNCHANGED <<manner, size, kind>>
      /\ Binds(c)
  BY DEF IInv, AnsweredInv, GrowAndGet, Overflowed
<1>2. capacity \in 1 .. MaximumCapacity /\ count \in Nat /\ ReportedCount = count
  BY <1>1, FetchAssumption DEF TypeOK, ReportedCount
<1>3. c \in Nat /\ c > capacity
  BY <1>2, RequiredGrows
<1>4. c \in 0 .. MaximumCapacity /\ c # 0
  BY <1>1, <1>2, <1>3, FetchAssumption DEF Binds
<1>5. manner = "reports" => asks = 1 /\ size <= c
  <2> SUFFICES ASSUME manner = "reports" PROVE asks = 1 /\ size <= c
    OBVIOUS
  <2>1. count = size /\ capacity < size /\ (attempt > 0 => size <= capacity)
    BY <1>1 DEF IInv, ReportInv, GrowAndGet, Overflowed
  <2>2. size \in Nat /\ attempt \in Nat
    BY <1>1, FetchAssumption DEF TypeOK
  <2>3. attempt = 0
    BY <1>2, <2>1, <2>2
  <2>4. c = size
    BY <1>2, <2>1, <2>2, RequiredFollowsTheReport
  <2>5. QED
    BY <1>1, <2>2, <2>3, <2>4
<1>6. asks \in 0 .. MaxRetries /\ attempt' = asks
  <2>1. attempt \in Nat /\ MaxRetries \in Nat
    BY <1>1, FetchAssumption DEF TypeOK
  <2>2. QED
    BY <1>1, <2>1
<1> HIDE DEF c
<1>7. QED
  BY <1>1, <1>4, <1>5, <1>6, GetIInv

LEMMA FinishIInv == IInv /\ Finish => IInv'
<1> SUFFICES ASSUME IInv, Finish PROVE IInv'
  OBVIOUS
<1>1. /\ TypeOK /\ asks = attempt + 1 /\ status \in Statuses
      /\ pc = "answered" /\ pc' = "done"
      /\ UNCHANGED <<manner, size, kind, capacity, count, attempt, status, asks>>
      /\ outcome' = [result |-> IF status = "SUCCESS" THEN "Ok" ELSE "Failure",
                     status |-> status, detail |-> "none"]
  BY DEF IInv, AnsweredInv, Finish, Return, TypeOK
<1>2. attempt \in Nat /\ asks \in Nat /\ asks > 0 /\ size \in Nat
  <2>1. attempt \in Nat /\ size \in Nat
    BY <1>1, FetchAssumption DEF TypeOK
  <2>2. QED
    BY <1>1, <2>1
<1>3. TypeOK'
  BY <1>1, OutcomeType DEF TypeOK
<1>4. StartInv' /\ AnsweredInv' /\ ReportInv'
  BY <1>1 DEF StartInv, AnsweredInv, ReportInv
<1>5. OutcomeHonest'
  BY <1>1, <1>2 DEF OutcomeHonest
<1>6. ReportedListIsRead'
  <2> SUFFICES ASSUME manner = "reports" PROVE status # "BUFFER_OVERFLOW" /\ asks <= 2
    BY <1>1 DEF ReportedListIsRead, GaveUp
  <2>1. CASE attempt = 0
    BY <1>1, <2>1, FetchAssumption DEF Finish, Overflowed
  <2>2. CASE attempt > 0
    <3>1. size <= capacity /\ attempt = 1
      BY <1>1, <2>2 DEF IInv, ReportInv
    <3>2. capacity \in Nat
      BY <1>1, FetchAssumption DEF TypeOK
    <3>3. status # "BUFFER_OVERFLOW"
      BY <1>1, <1>2, <3>1, <3>2 DEF IInv, ReportInv
    <3>4. QED
      BY <1>1, <3>1, <3>3
  <2>3. QED
    BY <1>2, <2>1, <2>2
<1>7. QED
  BY <1>1, <1>2, <1>3, <1>4, <1>5, <1>6 DEF IInv

LEMMA StutterIInv == IInv /\ UNCHANGED vars => IInv'
  BY DEF vars, IInv, TypeOK, StartInv, AnsweredInv, ReportInv, OutcomeHonest,
     ReportedListIsRead, GaveUp, Fits

LEMMA NextIInv == IInv /\ [Next]_vars => IInv'
  BY SkipValueIInv, FirstGetIInv, OverflowOnNonListIInv, OverflowAboveLimitIInv,
     GrowAndGetIInv, FinishIInv, StutterIInv DEF Next

-----------------------------------------------------------------------------

\* The invariant the theorems below rest on.
THEOREM FetchInvariant == Spec => []IInv
  BY InitIInv, NextIInv, PTL DEF Spec

\* fetch_attribute never binds a buffer above the safety limit, never asks
\* more than MaxRetries + 1 times, and every variable keeps its type.
THEOREM TypeCorrect == Spec => []TypeOK
<1>1. IInv => TypeOK
  BY DEF IInv
<1>2. QED
  BY <1>1, FetchInvariant, PTL

\* A skip is reported exactly when nothing was asked, and a status that the
\* tool did not get from the adapter is only reported for a real limit.
THEOREM OutcomeIsHonest == Spec => []OutcomeHonest
<1>1. IInv => OutcomeHonest
  BY DEF IInv
<1>2. QED
  BY <1>1, FetchInvariant, PTL

\* An adapter that reports the size it needs gets its list read with two GETs
\* at most, as long as the list fits the safety limit.
THEOREM ReportedListRead == Spec => []ReportedListIsRead
<1>1. IInv => ReportedListIsRead
  BY DEF IInv
<1>2. QED
  BY <1>1, FetchInvariant, PTL

-----------------------------------------------------------------------------
(* fetch_attribute keeps the promise of BoundedQuery.                      *)

\* A GET is an Ask of the promise.
LEMMA GetAsks ==
  ASSUME IInv, NEW c \in 0 .. MaximumCapacity, Get(c), pc # "done",
         asks = 0 \/ (asks <= MaxRetries /\ c > capacity /\ status = "BUFFER_OVERFLOW")
  PROVE  Query!Ask
<1>1. TypeOK /\ asks \in Nat /\ capacity' = c /\ asks' = asks + 1
  BY FetchAssumption DEF IInv, TypeOK, Get
<1>2. asks < MaxRetries + 1 /\ asks' > 0 /\ (asks > 0 => capacity' > capacity)
  BY <1>1, FetchAssumption
<1>3. outcome = NoOutcome /\ Verdict = "pending"
  BY <1>1 DEF IInv, StartInv, AnsweredInv, Verdict, TypeOK
<1>4. LastAnswer \in {"none", "short"}
  BY <1>1, <1>3 DEF LastAnswer, NoOutcome
<1>5. /\ LastAnswer' \in {"enough", "short", "error"}
      /\ Verdict' \in {"pending", Query!VerdictFor(LastAnswer')}
  <2>1. CASE /\ \E r \in Replies(c) : status' = r.status /\ count' = r.count
             /\ pc' = "answered"
             /\ UNCHANGED outcome
    BY <1>1, <1>2, <1>3, <2>1 DEF LastAnswer, Verdict, NoOutcome
  <2>2. CASE Return("Failure", "FAILURE", "threw") /\ UNCHANGED <<status, count>>
    BY <1>1, <1>2, <2>2 DEF Return, LastAnswer, Verdict, Query!VerdictFor
  <2>3. QED
    BY <2>1, <2>2 DEF Get
<1>6. QED
  BY <1>1, <1>2, <1>3, <1>4, <1>5 DEF Query!Ask, Query!Answers

\* Returning without a further GET settles the promise.
LEMMA ReturnSettles ==
  ASSUME IInv, pc = "answered", pc' = "done",
         UNCHANGED <<capacity, status, asks>>,
         outcome'.detail # "threw",
         outcome'.result = IF status = "SUCCESS" THEN "Ok" ELSE "Failure"
  PROVE  Query!Settle
<1>1. asks > 0 /\ outcome = NoOutcome
  <2>1. attempt \in Nat /\ asks = attempt + 1 /\ outcome = NoOutcome
    BY FetchAssumption DEF IInv, AnsweredInv, TypeOK
  <2>2. QED
    BY <2>1
<1>2. asks \in Nat /\ asks # 0
  BY <1>1, FetchAssumption DEF IInv, TypeOK
<1>3. LastAnswer' = LastAnswer
  BY <1>1 DEF LastAnswer, NoOutcome
<1>4. LastAnswer \in {"enough", "short", "error"} /\ (LastAnswer = "enough" <=> status = "SUCCESS")
  BY <1>1, <1>2 DEF LastAnswer, NoOutcome
<1>5. Verdict = "pending"
  BY DEF Verdict
<1>6. Verdict' = Query!VerdictFor(LastAnswer)
  BY <1>4 DEF Verdict, Query!VerdictFor
<1>7. QED
  BY <1>3, <1>4, <1>5, <1>6 DEF Query!Settle

LEMMA StepKeepsPromise == IInv /\ [Next]_vars => [Query!Next]_(Query!vars)
<1> SUFFICES ASSUME IInv, [Next]_vars PROVE [Query!Next]_(Query!vars)
  OBVIOUS
<1> USE DEF Query!Next
<1>1. CASE SkipValue
  <2>1. asks = 0 /\ UNCHANGED <<asks, capacity>> /\ pc = "start"
    BY <1>1 DEF IInv, StartInv, SkipValue
  <2>2. LastAnswer = "none" /\ LastAnswer' = "none"
    BY <2>1 DEF LastAnswer
  <2>3. Verdict = "pending" /\ Verdict' = "skipped"
    BY <1>1, <2>1 DEF SkipValue, Return, Verdict
  <2>4. QED
    BY <2>1, <2>2, <2>3 DEF Query!Skip
<1>2. CASE FirstGet
  <2>1. asks = 0 /\ pc # "done"
    BY <1>2 DEF IInv, StartInv, FirstGet
  <2>2. InitialCapacity \in 0 .. MaximumCapacity /\ 0 \in 0 .. MaximumCapacity
    BY FetchAssumption
  <2>3. QED
    BY <1>2, <2>1, <2>2, GetAsks DEF FirstGet
<1>3. CASE OverflowOnNonList
  BY <1>3, ReturnSettles DEF OverflowOnNonList, Overflowed, Return
<1>4. CASE OverflowAboveLimit
  BY <1>4, ReturnSettles DEF OverflowAboveLimit, Overflowed, Return
<1>5. CASE GrowAndGet
  <2> DEFINE c == Required(capacity, ReportedCount)
  <2>1. /\ TypeOK /\ pc # "done" /\ status = "BUFFER_OVERFLOW" /\ attempt < MaxRetries
        /\ asks = attempt + 1 /\ capacity # 0 /\ IsBuffered(kind)
        /\ Get(c) /\ Binds(c)
    BY <1>5 DEF IInv, AnsweredInv, GrowAndGet, Overflowed
  <2>2. capacity \in 1 .. MaximumCapacity /\ ReportedCount \in Nat
    BY <2>1, FetchAssumption DEF TypeOK, ReportedCount
  <2>3. c \in Nat /\ c > capacity
    BY <2>2, RequiredGrows
  <2>4. c \in 0 .. MaximumCapacity
    BY <2>1, <2>3, FetchAssumption DEF Binds
  <2>5. asks <= MaxRetries
    <3>1. attempt \in Nat /\ MaxRetries \in Nat
      BY <2>1, FetchAssumption DEF TypeOK
    <3>2. QED
      BY <2>1, <3>1
  <2> HIDE DEF c
  <2>6. QED
    BY <2>1, <2>3, <2>4, <2>5, GetAsks
<1>6. CASE Finish
  BY <1>6, ReturnSettles DEF Finish, Return
<1>7. CASE UNCHANGED vars
  BY <1>7 DEF vars, Query!vars, LastAnswer, Verdict
<1>8. QED
  BY <1>1, <1>2, <1>3, <1>4, <1>5, <1>6, <1>7 DEF Next

\* fetch_attribute implements the bounded query: at most MaxRetries + 1 GETs,
\* strictly growing buffers below the limit, and Ok only after a SUCCESS.
THEOREM PromiseKept == Spec => Promise
<1>1. Init => Query!Init
  BY DEF Init, Query!Init, LastAnswer, Verdict
<1>2. QED
  BY <1>1, StepKeepsPromise, FetchInvariant, PTL DEF Spec, Promise, Query!Spec

-----------------------------------------------------------------------------
(* An adapter that leaves the count field alone. The buffers are the       *)
(* doublings of the first, so what the loop has not reached when it stops  *)
(* is more than the retries or the limit allow.                            *)

Buffers == Doublings(InitialCapacity, MaxRetries)

SilentInv ==
  manner = "silent" /\ pc = "answered" =>
    /\ IsBuffered(kind) => capacity = Buffers[attempt]
    /\ status = "BUFFER_OVERFLOW" => IsBuffered(kind) /\ count = capacity /\ size > capacity

LEMMA BuffersGrow ==
  /\ MaxRetries \in Nat /\ MaximumCapacity \in Nat
  /\ Buffers \in [0 .. MaxRetries -> Nat] /\ Buffers[0] = InitialCapacity
  /\ \A k \in 0 .. MaxRetries - 1 : Buffers[k + 1] = 2 * Buffers[k]
  /\ \A j, k \in 0 .. MaxRetries : j <= k => Buffers[j] <= Buffers[k]
  BY FetchAssumption, DoublingsGrow DEF Buffers

\* One GET leaves a silent adapter's buffer what it was asked to be.
LEMMA SilentGet ==
  ASSUME TypeOK, NEW c \in Nat, Get(c), UNCHANGED <<manner, size, kind>>,
         pc # "done", outcome = NoOutcome,
         manner = "silent" /\ IsBuffered(kind) => c = Buffers[attempt']
  PROVE  SilentInv' /\ SilentListIsRead'
<1>1. CASE \E r \in Replies(c) : status' = r.status /\ count' = r.count
           /\ pc' = "answered" /\ UNCHANGED outcome
  <2>1. PICK r \in Replies(c) : status' = r.status /\ count' = r.count
             /\ pc' = "answered" /\ UNCHANGED outcome
    BY <1>1
  <2>2. manner = "silent" /\ r.status = "BUFFER_OVERFLOW" => ~Fits(c) /\ r.count = c
    BY DEF Replies, Refusals
  <2>3. size \in Nat /\ capacity' = c
    BY FetchAssumption DEF TypeOK, Get
  <2>4. ~Fits(c) => IsBuffered(kind) /\ size > c
    BY <2>3 DEF Fits
  <2>5. SilentInv'
    BY <2>1, <2>2, <2>3, <2>4 DEF SilentInv, IsBuffered, Buffers
  <2>6. QED
    BY <2>1, <2>5 DEF SilentListIsRead, GaveUp
<1>2. CASE Return("Failure", "FAILURE", "threw") /\ UNCHANGED <<status, count>>
  BY <1>2 DEF Return, SilentInv, SilentListIsRead, GaveUp
<1>3. QED
  BY <1>1, <1>2 DEF Get

\* What is given up is beyond every doubling.
LEMMA BeyondEveryDoubling ==
  ASSUME IInv, SilentInv, manner = "silent", pc = "answered", status = "BUFFER_OVERFLOW",
         attempt = MaxRetries \/ ~Binds(Required(capacity, ReportedCount)),
         NEW k \in 0 .. MaxRetries, Buffers[k] <= MaximumCapacity
  PROVE  size > Buffers[k]
<1>1. /\ IsBuffered(kind) /\ capacity = Buffers[attempt] /\ count = capacity /\ size > capacity
      /\ ReportedCount = capacity
  BY DEF SilentInv, ReportedCount
<1>2. /\ attempt \in 0 .. MaxRetries /\ capacity \in Nat /\ size \in Nat /\ Buffers[k] \in Nat
  BY FetchAssumption, BuffersGrow DEF IInv, TypeOK
<1>3. CASE k <= attempt
  <2>1. Buffers[k] <= capacity
    BY <1>1, <1>2, <1>3, BuffersGrow
  <2>2. QED
    BY <1>1, <1>2, <2>1
<1>4. CASE attempt < k
  <2>1. attempt \in 0 .. MaxRetries - 1 /\ attempt + 1 \in 0 .. MaxRetries /\ attempt + 1 <= k
    BY <1>2, <1>4, BuffersGrow
  <2>2. Buffers[attempt + 1] = 2 * capacity /\ Buffers[attempt + 1] <= Buffers[k]
    BY <1>1, <2>1, BuffersGrow
  <2>3. 2 * capacity <= MaximumCapacity
    BY <1>2, <2>2, BuffersGrow
  <2>4. Binds(Required(capacity, ReportedCount))
    BY <1>1, <1>2, <2>3, BuffersGrow DEF Binds, Required
  <2>5. QED
    BY <1>2, <1>4, <2>4, BuffersGrow
<1>5. QED
  BY <1>2, <1>3, <1>4, BuffersGrow

LEMMA SilentInductive ==
  IInv /\ SilentInv /\ SilentListIsRead /\ [Next]_vars => SilentInv' /\ SilentListIsRead'
<1> SUFFICES ASSUME IInv, SilentInv, SilentListIsRead, [Next]_vars
             PROVE  SilentInv' /\ SilentListIsRead'
  OBVIOUS
<1>0. TypeOK /\ attempt \in Nat /\ MaxRetries \in Nat /\ attempt <= MaxRetries
  BY FetchAssumption DEF IInv, TypeOK
<1>1. CASE UNCHANGED vars
  BY <1>1 DEF vars, SilentInv, SilentListIsRead, GaveUp, IsBuffered
<1>2. CASE SkipValue
  BY <1>2 DEF SkipValue, Return, SilentInv, SilentListIsRead, GaveUp
<1>3. CASE FirstGet
  <2> DEFINE c == IF IsBuffered(kind) THEN InitialCapacity ELSE 0
  <2>1. /\ Get(c) /\ UNCHANGED <<manner, size, kind>> /\ attempt' = 0 /\ pc # "done"
        /\ outcome = NoOutcome
    BY <1>3 DEF FirstGet, IInv, StartInv
  <2>2. c \in Nat /\ (IsBuffered(kind) => c = Buffers[attempt'])
    BY <2>1, FetchAssumption, BuffersGrow
  <2> HIDE DEF c
  <2>3. QED
    BY <1>0, <2>1, <2>2, SilentGet
<1>4. CASE OverflowOnNonList
  BY <1>4 DEF OverflowOnNonList, Return, SilentInv, SilentListIsRead, GaveUp, Overflowed
<1>5. CASE OverflowAboveLimit
  <2>1. /\ pc = "answered" /\ status = "BUFFER_OVERFLOW" /\ pc' = "done"
        /\ ~Binds(Required(capacity, ReportedCount)) /\ UNCHANGED <<manner, size>>
    BY <1>5 DEF OverflowAboveLimit, Overflowed, Return
  <2>2. manner = "silent" =>
          \A k \in 0 .. MaxRetries : Buffers[k] <= MaximumCapacity => size > Buffers[k]
    BY <2>1, BeyondEveryDoubling
  <2>3. SilentListIsRead'
    <3>1. \A k \in 0 .. MaxRetries : Buffers[k] \in Nat
      BY BuffersGrow
    <3>2. size \in Nat
      BY <1>0, FetchAssumption DEF TypeOK
    <3>3. QED
      BY <2>1, <2>2, <3>1, <3>2 DEF SilentListIsRead, Buffers
  <2>4. QED
    BY <2>1, <2>3 DEF SilentInv
<1>6. CASE GrowAndGet
  <2> DEFINE c == Required(capacity, ReportedCount)
  <2>1. /\ Get(c) /\ UNCHANGED <<manner, size, kind>> /\ attempt' = attempt + 1
        /\ pc = "answered" /\ outcome = NoOutcome /\ status = "BUFFER_OVERFLOW"
        /\ attempt < MaxRetries /\ Binds(c) /\ capacity # 0
    BY <1>6 DEF GrowAndGet, Overflowed, IInv, AnsweredInv
  <2>2. capacity \in 1 .. MaximumCapacity /\ ReportedCount \in Nat
    BY <1>0, <2>1, FetchAssumption DEF TypeOK, ReportedCount
  <2>3. c \in Nat
    BY <2>2, RequiredGrows
  <2>4. manner = "silent" => c = Buffers[attempt']
    <3> SUFFICES ASSUME manner = "silent" PROVE c = Buffers[attempt']
      OBVIOUS
    <3>1. capacity = Buffers[attempt] /\ ReportedCount = capacity
      BY <2>1 DEF SilentInv, ReportedCount
    <3>2. c = 2 * capacity
      BY <2>1, <2>2, <3>1, BuffersGrow DEF Required, Binds
    <3>3. attempt \in 0 .. MaxRetries - 1
      BY <1>0, <2>1
    <3>4. QED
      BY <2>1, <3>1, <3>2, <3>3, BuffersGrow
  <2> HIDE DEF c
  <2>5. QED
    BY <1>0, <2>1, <2>3, <2>4, SilentGet
<1>7. CASE Finish
  <2>1. /\ pc = "answered" /\ pc' = "done" /\ UNCHANGED <<manner, size>>
        /\ status = "BUFFER_OVERFLOW" => attempt = MaxRetries
        /\ GaveUp' => status = "BUFFER_OVERFLOW"
    BY <1>0, <1>7 DEF Finish, Return, Overflowed, GaveUp
  <2>2. manner = "silent" /\ status = "BUFFER_OVERFLOW" =>
          \A k \in 0 .. MaxRetries : Buffers[k] <= MaximumCapacity => size > Buffers[k]
    BY <2>1, BeyondEveryDoubling
  <2>3. SilentListIsRead'
    <3>1. \A k \in 0 .. MaxRetries : Buffers[k] \in Nat
      BY BuffersGrow
    <3>2. size \in Nat
      BY <1>0, FetchAssumption DEF TypeOK
    <3>3. QED
      BY <2>1, <2>2, <3>1, <3>2 DEF SilentListIsRead, Buffers
  <2>4. QED
    BY <2>1, <2>3 DEF SilentInv
<1>8. QED
  BY <1>1, <1>2, <1>3, <1>4, <1>5, <1>6, <1>7 DEF Next

\* For every first buffer, limit and number of retries, a list of an adapter that
\* does not say its size is given up only when no doubling could hold it.
THEOREM SilentListRead == Spec => []SilentListIsRead
<1>1. IInv /\ SilentInv /\ SilentListIsRead /\ [Next]_vars => SilentInv' /\ SilentListIsRead'
  BY SilentInductive
<1>2. Init => SilentInv /\ SilentListIsRead
  BY DEF Init, SilentInv, SilentListIsRead, GaveUp
<1>3. QED
  BY <1>1, <1>2, FetchInvariant, PTL DEF Spec

-----------------------------------------------------------------------------
(* How much is left.                                                       *)

\* Steps a fetch may still take: a GET for each retry that is left, and its end.
Left ==
  CASE pc = "start" -> MaxRetries + 2
    [] pc = "answered" -> MaxRetries - attempt + 1
    [] OTHER -> 0

\* A fetch winds down: whatever the adapter answers, every step leaves less to do,
\* so that there are at most MaxRetries + 2 of them. FetchReturns rests on it.
THEOREM FetchWindsDown == Spec => [](Left \in Nat) /\ [][Left' < Left]_vars
<1>1. TypeOK => Left \in Nat
  BY FetchAssumption DEF TypeOK, Left
<1>2. TypeOK /\ TypeOK' /\ Next => Left' < Left
  <2> SUFFICES ASSUME TypeOK, TypeOK', Next PROVE Left' < Left
    OBVIOUS
  <2>1. /\ MaxRetries \in Nat
        /\ attempt \in 0 .. MaxRetries /\ attempt' \in 0 .. MaxRetries
    BY FetchAssumption DEF TypeOK
  <2>2. CASE SkipValue \/ OverflowOnNonList \/ OverflowAboveLimit \/ Finish
    <3>1. pc \in {"start", "answered"} /\ pc' = "done"
      BY <2>2 DEF SkipValue, OverflowOnNonList, OverflowAboveLimit, Overflowed, Finish, Return
    <3>2. QED
      BY <2>1, <3>1 DEF Left
  <2>3. CASE FirstGet
    <3>1. pc = "start" /\ pc' \in {"answered", "done"}
      BY <2>3 DEF FirstGet, Get, Return
    <3>2. QED
      BY <2>1, <3>1 DEF Left
  <2>4. CASE GrowAndGet
    <3>1. pc = "answered" /\ pc' \in {"answered", "done"} /\ attempt' = attempt + 1
      BY <2>4 DEF GrowAndGet, Overflowed, Get, Return
    <3>2. QED
      BY <2>1, <3>1 DEF Left
  <2>5. QED
    BY <2>2, <2>3, <2>4 DEF Next
<1>3. QED
  BY <1>1, <1>2, TypeCorrect, PTL DEF Spec

===============================================================================
