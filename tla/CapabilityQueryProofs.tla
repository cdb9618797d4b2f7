------------------------- MODULE CapabilityQueryProofs -------------------------
(***************************************************************************)
(* What CapabilityQuery guarantees for every capacity, limit, number of    *)
(* attempts and set of list sizes.                                         *)
(***************************************************************************)
EXTENDS CapabilityQuery, NumberProofs

-----------------------------------------------------------------------------
(* Lemmas about the operators.                                             *)

\* A first offer is within the limit and not empty.
LEMMA FirstCapacityFits ==
  ASSUME NEW k \in KnownCounts
  PROVE  FirstCapacity(k) \in 1 .. MaximumCapacity
<1>1. k \in Nat /\ Headroom \in Nat /\ InitialCapacity \in Nat \ {0} /\ MaximumCapacity \in Nat
  BY CapabilityAssumption
<1>2. FirstCapacity(k) <= MaximumCapacity
  BY CapabilityAssumption
<1>3. QED
  BY <1>1, <1>2 DEF FirstCapacity

\* An offer that was too small is followed by a larger one.
LEMMA NextCapacityGrows ==
  ASSUME NEW c \in 1 .. MaximumCapacity, NEW n \in Nat
  PROVE  NextCapacity(c, n) \in Nat /\ NextCapacity(c, n) > c
  BY CapabilityAssumption DEF NextCapacity

\* What a SUCCESS leaves is never more than the offer held.
LEMMA KeptFits ==
  ASSUME NEW c \in Nat, NEW n \in Nat
  PROVE  Kept(n, c) \in 0 .. c /\ (n <= c => Kept(n, c) = n)
  BY DEF Kept

\* What a reply is.
LEMMA ReplyFacts ==
  ASSUME TypeOK, NEW c \in Nat, NEW r \in Replies(c)
  PROVE  /\ r.status \in Statuses
         /\ r.count \in Nat
         /\ manner = "reports" =>
              /\ r.status = "SUCCESS" => r.count = size /\ size <= c
              /\ r.status = "BUFFER_OVERFLOW" => r.count = size /\ size > c
  BY CapabilityAssumption DEF Replies, TypeOK, Statuses, Refusals

-----------------------------------------------------------------------------
(* The inductive invariant.                                                *)

\* Before an offer: every offer made so far was too small and smaller.
AskInv ==
  pc = "ask" =>
    /\ asks = attempt
    /\ values = 0
    /\ asks = 0 => status = "FAILURE"
    /\ asks > 0 => status = "BUFFER_OVERFLOW" /\ capacity > offered

\* After an offer: it was the last one, and nothing was kept of it yet.
AnsweredInv ==
  pc = "answered" =>
    /\ asks = attempt + 1
    /\ offered = capacity
    /\ values = 0

\* An adapter that reports sizes says its own, and is offered room for it.
ReportInv ==
  manner = "reports" =>
    /\ pc = "ask" => asks = 0 \/ (asks = 1 /\ capacity = size)
    /\ pc = "answered" =>
         /\ asks <= 2
         /\ status = "SUCCESS" => required = size /\ size <= capacity
         /\ status = "BUFFER_OVERFLOW" =>
              required = size /\ size > capacity /\ asks = 1

IInv ==
  /\ TypeOK
  /\ AskInv
  /\ AnsweredInv
  /\ pc = "done" => asks > 0
  /\ ReportInv
  /\ ValuesAreBacked
  /\ ReportedListIsRead

LEMMA InitIInv == Init => IInv
<1> SUFFICES ASSUME Init PROVE IInv
  OBVIOUS
<1>1. PICK k \in KnownCounts : first = FirstCapacity(k) /\ capacity = first
  BY DEF Init
<1>2. first \in 1 .. MaximumCapacity /\ capacity \in 1 .. MaximumCapacity
  BY <1>1, FirstCapacityFits
<1>3. MaxAttempts \in Nat \ {0, 1} /\ MaximumCapacity \in Nat
  BY CapabilityAssumption
<1>4. TypeOK
  BY <1>2, <1>3 DEF Init, TypeOK, Statuses, Refusals
<1>5. AskInv /\ AnsweredInv /\ ReportInv
  BY DEF Init, AskInv, AnsweredInv, ReportInv
<1>6. ValuesAreBacked /\ ReportedListIsRead
  BY DEF Init, ValuesAreBacked, ReportedListIsRead
<1>7. QED
  BY <1>4, <1>5, <1>6 DEF IInv, Init

LEMMA AskIInv == IInv /\ Ask => IInv'
<1> SUFFICES ASSUME IInv, Ask PROVE IInv'
  OBVIOUS
<1>0. /\ TypeOK /\ asks = attempt /\ values = 0
      /\ attempt \in Nat /\ attempt <= MaxAttempts - 1 /\ MaxAttempts \in Nat
      /\ capacity \in Nat /\ capacity <= MaximumCapacity /\ MaximumCapacity \in Nat
      /\ size \in Nat
  BY CapabilityAssumption DEF IInv, AskInv, Ask, TypeOK
<1>1. PICK r \in Replies(capacity) : status' = r.status /\ required' = r.count
  BY DEF Ask
<1>2. /\ r.status \in Statuses /\ r.count \in Nat
      /\ manner = "reports" =>
           /\ r.status = "SUCCESS" => r.count = size /\ size <= capacity
           /\ r.status = "BUFFER_OVERFLOW" => r.count = size /\ size > capacity
  BY <1>0, <1>1, ReplyFacts
<1>3. /\ pc = "ask" /\ pc' = "answered" /\ offered' = capacity /\ asks' = asks + 1
      /\ UNCHANGED <<manner, size, first, capacity, attempt, values>>
  BY DEF Ask
<1>4. asks' \in 0 .. MaxAttempts /\ asks' > 0
  BY <1>0, <1>3
<1>5. TypeOK'
  BY <1>0, <1>1, <1>2, <1>3, <1>4 DEF TypeOK
<1>6. AskInv' /\ AnsweredInv'
  BY <1>0, <1>3 DEF AskInv, AnsweredInv
<1>7. manner = "reports" => asks = 0 \/ (asks = 1 /\ capacity = size)
  BY <1>3 DEF IInv, ReportInv
<1>8. ReportInv' /\ ReportedListIsRead'
  BY <1>0, <1>1, <1>2, <1>3, <1>7 DEF ReportInv, ReportedListIsRead
<1>9. ValuesAreBacked'
  BY <1>0, <1>3 DEF ValuesAreBacked
<1>10. QED
  BY <1>3, <1>5, <1>6, <1>8, <1>9 DEF IInv

LEMMA ReturnAnswerIInv == IInv /\ ReturnAnswer => IInv'
<1> SUFFICES ASSUME IInv, ReturnAnswer PROVE IInv'
  OBVIOUS
<1>0. /\ TypeOK /\ asks = attempt + 1 /\ offered = capacity /\ values = 0
      /\ attempt \in Nat /\ capacity \in Nat /\ capacity <= MaximumCapacity
      /\ MaximumCapacity \in Nat /\ required \in Nat /\ size \in Nat
  BY CapabilityAssumption DEF IInv, AnsweredInv, ReturnAnswer, TypeOK
<1>1. /\ pc = "answered" /\ pc' = "done" /\ status # "BUFFER_OVERFLOW"
      /\ values' = IF status = "SUCCESS" THEN Kept(required, capacity) ELSE 0
      /\ UNCHANGED <<manner, size, first, capacity, offered, attempt, status, required, asks>>
  BY DEF ReturnAnswer
<1>2. Kept(required, capacity) \in 0 .. capacity /\ (required <= capacity => Kept(required, capacity) = required)
  BY <1>0, KeptFits
<1>3. values' \in Nat /\ values' <= capacity /\ (status # "SUCCESS" => values' = 0)
  BY <1>0, <1>1, <1>2
<1>4. values' \in 0 .. MaximumCapacity
  BY <1>0, <1>3
<1>5. TypeOK'
  BY <1>0, <1>1, <1>4 DEF TypeOK
<1>6. AskInv' /\ AnsweredInv' /\ ReportInv'
  BY <1>1 DEF AskInv, AnsweredInv, ReportInv
<1>7. ValuesAreBacked'
  BY <1>0, <1>1, <1>3 DEF ValuesAreBacked
<1>8. ReportedListIsRead'
  <2> SUFFICES ASSUME manner = "reports"
               PROVE  asks <= 2 /\ (status = "SUCCESS" => values' = size)
    BY <1>1 DEF ReportedListIsRead
  <2>1. asks <= 2 /\ (status = "SUCCESS" => required = size /\ size <= capacity)
    BY <1>1 DEF IInv, ReportInv
  <2>2. QED
    BY <1>1, <1>2, <2>1
<1>9. asks > 0
  BY <1>0
<1>10. QED
  BY <1>1, <1>5, <1>6, <1>7, <1>8, <1>9 DEF IInv

LEMMA GrowIInv == IInv /\ Grow => IInv'
<1> SUFFICES ASSUME IInv, Grow PROVE IInv'
  OBVIOUS
<1>0. /\ TypeOK /\ asks = attempt + 1 /\ offered = capacity /\ values = 0
      /\ attempt \in Nat /\ capacity \in 1 .. MaximumCapacity /\ MaxAttempts \in Nat
      /\ MaximumCapacity \in Nat /\ required \in Nat /\ size \in Nat
  BY CapabilityAssumption DEF IInv, AnsweredInv, Grow, TypeOK
<1>1. /\ pc = "answered" /\ pc' = "ask" /\ status = "BUFFER_OVERFLOW"
      /\ capacity' = NextCapacity(capacity, required) /\ attempt' = attempt + 1
      /\ attempt < MaxAttempts - 1 /\ capacity' <= MaximumCapacity
      /\ UNCHANGED <<manner, size, first, offered, status, required, values, asks>>
  BY DEF Grow, MayGrow
<1>2. capacity' \in Nat /\ capacity' > capacity
  BY <1>0, <1>1, NextCapacityGrows
<1>3. capacity' \in 1 .. MaximumCapacity /\ attempt' \in 0 .. MaxAttempts - 1
  BY <1>0, <1>1, <1>2
<1>4. TypeOK'
  BY <1>0, <1>1, <1>3 DEF TypeOK
<1>5. asks > 0 /\ asks' = attempt' /\ capacity' > offered'
  BY <1>0, <1>1, <1>2
<1>6. AskInv' /\ AnsweredInv'
  BY <1>0, <1>1, <1>5 DEF AskInv, AnsweredInv
<1>7. ReportInv'
  <2> SUFFICES ASSUME manner = "reports" PROVE asks = 1 /\ capacity' = size
    BY <1>1 DEF ReportInv
  <2>1. required = size /\ size > capacity /\ asks = 1
    BY <1>1 DEF IInv, ReportInv
  <2>2. QED
    BY <1>0, <1>1, <2>1 DEF NextCapacity
<1>8. ValuesAreBacked'
  BY <1>0, <1>1 DEF IInv, ValuesAreBacked
<1>9. ReportedListIsRead'
  BY <1>1 DEF IInv, ReportedListIsRead
<1>10. QED
  BY <1>1, <1>4, <1>6, <1>7, <1>8, <1>9 DEF IInv

LEMMA GiveUpIInv == IInv /\ GiveUp => IInv'
<1> SUFFICES ASSUME IInv, GiveUp PROVE IInv'
  OBVIOUS
<1>0. /\ TypeOK /\ asks = attempt + 1 /\ offered = capacity /\ values = 0
      /\ attempt \in Nat /\ capacity \in 1 .. MaximumCapacity /\ MaxAttempts \in Nat \ {0, 1}
      /\ MaximumCapacity \in Nat /\ required \in Nat /\ size \in Nat
  BY CapabilityAssumption DEF IInv, AnsweredInv, GiveUp, TypeOK
<1>1. /\ pc = "answered" /\ pc' = "done" /\ status = "BUFFER_OVERFLOW"
      /\ ~MayGrow(capacity, required) /\ values' = 0
      /\ UNCHANGED <<manner, size, first, capacity, offered, attempt, status, required, asks>>
  BY DEF GiveUp
<1>2. TypeOK'
  BY <1>0, <1>1 DEF TypeOK
<1>3. AskInv' /\ AnsweredInv' /\ ReportInv'
  BY <1>1 DEF AskInv, AnsweredInv, ReportInv
<1>4. ValuesAreBacked'
  BY <1>0, <1>1 DEF ValuesAreBacked
<1>5. ReportedListIsRead'
  <2> SUFFICES ASSUME manner = "reports"
               PROVE  asks <= 2 /\ required = size /\ size > MaximumCapacity
    BY <1>1 DEF ReportedListIsRead
  <2>1. required = size /\ size > capacity /\ asks = 1
    BY <1>1 DEF IInv, ReportInv
  <2>2. NextCapacity(capacity, required) = size
    BY <1>0, <2>1 DEF NextCapacity
  <2>3. attempt < MaxAttempts - 1
    BY <1>0, <2>1
  <2>4. ~(size <= MaximumCapacity)
    BY <1>1, <2>2, <2>3 DEF MayGrow
  <2>5. QED
    BY <1>0, <2>1, <2>4
<1>6. asks > 0
  BY <1>0
<1>7. QED
  BY <1>1, <1>2, <1>3, <1>4, <1>5, <1>6 DEF IInv

LEMMA NextIInv == IInv /\ [Next]_vars => IInv'
<1>1. IInv /\ UNCHANGED vars => IInv'
  BY DEF vars, IInv, TypeOK, AskInv, AnsweredInv, ReportInv, ValuesAreBacked,
     ReportedListIsRead
<1>2. QED
  BY <1>1, AskIInv, ReturnAnswerIInv, GrowIInv, GiveUpIInv DEF Next

-----------------------------------------------------------------------------

\* The invariant the theorems below rest on.
THEOREM CapabilityInvariant == Spec => []IInv
  BY InitIInv, NextIInv, PTL DEF Spec

\* A capability query never offers more than the safety limit, never asks more
\* than MaxAttempts times, and every variable keeps its type.
THEOREM CapabilityTypeCorrect == Spec => []TypeOK
<1>1. IInv => TypeOK
  BY DEF IInv
<1>2. QED
  BY <1>1, CapabilityInvariant, PTL

\* Whatever count an adapter claims, the caller is handed no more values than
\* there was room for, and none without a SUCCESS.
THEOREM ValuesBacked == Spec => []ValuesAreBacked
<1>1. IInv => ValuesAreBacked
  BY DEF IInv
<1>2. QED
  BY <1>1, CapabilityInvariant, PTL

\* An adapter that reports the size it needs has its whole list returned after
\* two queries at most, unless the list really is above the limit.
THEOREM ReportedCapabilityRead == Spec => []ReportedListIsRead
<1>1. IInv => ReportedListIsRead
  BY DEF IInv
<1>2. QED
  BY <1>1, CapabilityInvariant, PTL

-----------------------------------------------------------------------------
(* The query keeps the promise of BoundedQuery.                            *)

LEMMA StepKeepsPromise == IInv /\ [Next]_vars => [Query!Next]_(Query!vars)
<1> SUFFICES ASSUME IInv, [Next]_vars PROVE [Query!Next]_(Query!vars)
  OBVIOUS
<1> USE DEF Query!Next
<1>0. /\ asks \in Nat /\ attempt \in Nat /\ attempt <= MaxAttempts - 1
      /\ MaxAttempts \in Nat /\ MaximumCapacity \in Nat
      /\ capacity \in 1 .. MaximumCapacity
  BY CapabilityAssumption DEF IInv, TypeOK
<1>1. CASE Ask
  <2>1. /\ asks = attempt /\ asks < MaxAttempts /\ asks' = asks + 1 /\ offered' = capacity
        /\ asks > 0 => status = "BUFFER_OVERFLOW" /\ capacity > offered
    BY <1>0, <1>1 DEF IInv, AskInv, Ask
  <2>2. asks' > 0 /\ offered' \in 0 .. MaximumCapacity
    BY <1>0, <2>1
  <2>3. Verdict = "pending" /\ Verdict' = "pending"
    BY <1>1 DEF Ask, Verdict
  <2>4. LastAnswer \in {"none", "short"}
    BY <1>0, <2>1 DEF LastAnswer
  <2>5. LastAnswer' \in {"enough", "short", "error"}
    BY <2>2, <1>0, <2>1 DEF LastAnswer
  <2>6. QED
    BY <2>1, <2>2, <2>3, <2>4, <2>5 DEF Query!Ask, Query!Answers
<1>2. CASE Grow
  BY <1>2 DEF Grow, Query!vars, LastAnswer, Verdict
<1>3. CASE ReturnAnswer \/ GiveUp
  <2>1. /\ pc = "answered" /\ pc' = "done" /\ UNCHANGED <<asks, offered, status>>
    BY <1>3 DEF ReturnAnswer, GiveUp
  <2>2. asks > 0 /\ asks # 0
    BY <1>0, <2>1 DEF IInv, AnsweredInv
  <2>3. LastAnswer' = LastAnswer /\ LastAnswer \in {"enough", "short", "error"}
        /\ (LastAnswer = "enough" <=> status = "SUCCESS")
    BY <2>1, <2>2 DEF LastAnswer
  <2>4. Verdict = "pending" /\ Verdict' = Query!VerdictFor(LastAnswer)
    BY <2>1, <2>3 DEF Verdict, Query!VerdictFor
  <2>5. QED
    BY <2>1, <2>3, <2>4 DEF Query!Settle
<1>4. CASE UNCHANGED vars
  BY <1>4 DEF vars, Query!vars, LastAnswer, Verdict
<1>5. QED
  BY <1>1, <1>2, <1>3, <1>4 DEF Next

\* A capability query implements the bounded query: at most MaxAttempts asks,
\* strictly growing offers within the limit, and success only after a SUCCESS.
THEOREM CapabilityPromiseKept == Spec => Promise
<1>1. Init => Query!Init
  BY DEF Init, Query!Init, LastAnswer, Verdict
<1>2. QED
  BY <1>1, StepKeepsPromise, CapabilityInvariant, PTL DEF Spec, Promise, Query!Spec

-----------------------------------------------------------------------------
(* An adapter that leaves the count field alone. Its offers are the        *)
(* doublings of the first, so what the loop has not reached when it stops  *)
(* is more than the attempts or the limit allow.                           *)

Offers == Doublings(first, MaxAttempts - 1)

SilentInv ==
  manner = "silent" =>
    /\ pc # "done" => capacity = Offers[attempt]
    /\ pc = "answered" /\ status = "BUFFER_OVERFLOW" => required = capacity /\ size > capacity

LEMMA OffersGrow ==
  ASSUME TypeOK
  PROVE  /\ MaxAttempts \in Nat /\ MaximumCapacity \in Nat /\ attempt \in Nat
         /\ attempt <= MaxAttempts - 1 /\ capacity \in 1 .. MaximumCapacity /\ size \in Nat
         /\ Offers \in [0 .. MaxAttempts - 1 -> Nat] /\ Offers[0] = first
         /\ \A k \in 0 .. MaxAttempts - 2 : Offers[k + 1] = 2 * Offers[k]
         /\ \A j, k \in 0 .. MaxAttempts - 1 : j <= k => Offers[j] <= Offers[k]
<1>1. /\ MaxAttempts \in Nat \ {0, 1} /\ MaximumCapacity \in Nat /\ attempt \in Nat
      /\ attempt <= MaxAttempts - 1 /\ capacity \in 1 .. MaximumCapacity /\ size \in Nat
      /\ first \in Nat
  BY CapabilityAssumption DEF TypeOK
<1>2. MaxAttempts - 1 \in Nat /\ (MaxAttempts - 1) - 1 = MaxAttempts - 2
  BY <1>1
<1> DEFINE n == MaxAttempts - 1
<1>3. /\ Doublings(first, n) \in [0 .. n -> Nat]
      /\ Doublings(first, n)[0] = first
      /\ \A k \in 0 .. n - 1 : Doublings(first, n)[k + 1] = 2 * Doublings(first, n)[k]
      /\ \A j, k \in 0 .. n : j <= k => Doublings(first, n)[j] <= Doublings(first, n)[k]
  <2> HIDE DEF n
  <2>1. n \in Nat
    BY <1>2 DEF n
  <2>2. QED
    BY <1>1, <2>1, DoublingsGrow
<1>4. QED
  BY <1>1, <1>2, <1>3 DEF Offers

LEMMA SilentInductive ==
  IInv /\ SilentInv /\ SilentListIsRead /\ [Next]_vars => SilentInv' /\ SilentListIsRead'
<1> SUFFICES ASSUME IInv, SilentInv, SilentListIsRead, [Next]_vars
             PROVE  SilentInv' /\ SilentListIsRead'
  OBVIOUS
<1>0. TypeOK
  BY DEF IInv
<1>1. CASE UNCHANGED vars
  BY <1>1 DEF vars, SilentInv, SilentListIsRead, Offers
<1>2. CASE Ask
  <2>1. PICK r \in Replies(capacity) : status' = r.status /\ required' = r.count
    BY <1>2 DEF Ask
  <2>2. manner = "silent" /\ r.status = "BUFFER_OVERFLOW" => r.count = capacity /\ size > capacity
    BY DEF Replies, Refusals
  <2>3. /\ pc = "ask" /\ pc' = "answered"
        /\ UNCHANGED <<manner, size, first, capacity, attempt, Offers>>
    BY <1>2 DEF Ask, Offers
  <2>4. QED
    BY <2>1, <2>2, <2>3 DEF SilentInv, SilentListIsRead
<1>3. CASE ReturnAnswer
  BY <1>3 DEF ReturnAnswer, SilentInv, SilentListIsRead
<1>4. CASE Grow
  <2>1. /\ pc = "answered" /\ pc' = "ask" /\ status = "BUFFER_OVERFLOW"
        /\ attempt < MaxAttempts - 1 /\ attempt' = attempt + 1
        /\ capacity' = NextCapacity(capacity, required) /\ capacity' <= MaximumCapacity
        /\ UNCHANGED <<manner, Offers>>
    BY <1>4 DEF Grow, MayGrow, Offers
  <2>2. manner = "silent" => capacity' = Offers[attempt']
    <3> SUFFICES ASSUME manner = "silent" PROVE capacity' = Offers[attempt']
      OBVIOUS
    <3>1. capacity = Offers[attempt] /\ required = capacity
      BY <2>1 DEF SilentInv
    <3>2. capacity' = 2 * capacity
      BY <1>0, <2>1, <3>1, OffersGrow DEF NextCapacity
    <3>3. attempt \in 0 .. MaxAttempts - 2
      BY <1>0, <2>1, OffersGrow
    <3>4. QED
      BY <1>0, <2>1, <3>1, <3>2, <3>3, OffersGrow
  <2>3. QED
    BY <2>1, <2>2 DEF SilentInv, SilentListIsRead
<1>5. CASE GiveUp
  <2>1. /\ pc = "answered" /\ pc' = "done" /\ status = "BUFFER_OVERFLOW"
        /\ ~MayGrow(capacity, required)
        /\ UNCHANGED <<manner, size, first, Offers>>
    BY <1>5 DEF GiveUp, Offers
  <2>2. ASSUME manner = "silent", NEW k \in 0 .. MaxAttempts - 1, Offers[k] <= MaximumCapacity
        PROVE  size > Offers[k]
    <3>1. capacity = Offers[attempt] /\ required = capacity /\ size > capacity
      BY <2>1, <2>2 DEF SilentInv
    <3>2. attempt \in 0 .. MaxAttempts - 1 /\ Offers[k] \in Nat
      BY <1>0, OffersGrow
    <3>3. CASE k <= attempt
      <4>1. Offers[k] <= capacity
        BY <1>0, <3>1, <3>2, <3>3, OffersGrow
      <4>2. QED
        BY <1>0, <3>1, <3>2, <4>1, OffersGrow
    <3>4. CASE attempt < k
      <4>1. attempt \in 0 .. MaxAttempts - 2 /\ attempt + 1 \in 0 .. MaxAttempts - 1 /\ attempt + 1 <= k
        BY <1>0, <3>2, <3>4, OffersGrow
      <4>2. Offers[attempt + 1] = 2 * capacity /\ Offers[attempt + 1] <= Offers[k]
        BY <1>0, <3>1, <4>1, OffersGrow
      <4>3. 2 * capacity <= MaximumCapacity
        BY <1>0, <2>2, <3>2, <4>2, OffersGrow
      <4>4. MayGrow(capacity, required)
        BY <1>0, <3>1, <3>4, <4>1, <4>3, OffersGrow DEF MayGrow, NextCapacity
      <4>5. QED
        BY <2>1, <4>4
    <3>5. QED
      BY <1>0, <3>2, <3>3, <3>4, OffersGrow
  <2>3. SilentListIsRead'
    BY <2>1, <2>2 DEF SilentListIsRead, Offers
  <2>4. QED
    BY <2>1, <2>3 DEF SilentInv
<1>6. QED
  BY <1>1, <1>2, <1>3, <1>4, <1>5 DEF Next

LEMMA SilentInit == Init => SilentInv /\ SilentListIsRead
<1> SUFFICES ASSUME Init PROVE SilentInv /\ SilentListIsRead
  OBVIOUS
<1>1. TypeOK
  BY InitIInv DEF IInv
<1>2. capacity = first /\ attempt = 0 /\ pc = "ask"
  BY DEF Init
<1>3. QED
  BY <1>1, <1>2, OffersGrow DEF SilentInv, SilentListIsRead

\* For every limit, number of attempts and first offer, a list of an adapter that
\* does not say its size is given up only when no doubling could hold it.
THEOREM SilentCapabilityRead == Spec => []SilentListIsRead
<1>1. IInv /\ SilentInv /\ SilentListIsRead /\ [Next]_vars => SilentInv' /\ SilentListIsRead'
  BY SilentInductive
<1>2. QED
  BY <1>1, SilentInit, CapabilityInvariant, PTL DEF Spec

-----------------------------------------------------------------------------
(* How much is left.                                                       *)

\* Steps a query may still take: an ask and what follows it for each attempt.
Left ==
  CASE pc = "ask" -> 2 * (MaxAttempts - attempt)
    [] pc = "answered" -> 2 * (MaxAttempts - attempt) - 1
    [] OTHER -> 0

\* A query winds down: whatever the adapter answers, every step leaves less to do,
\* so that there are at most two for each attempt. QueryReturns rests on it.
THEOREM QueryWindsDown == Spec => [](Left \in Nat) /\ [][Left' < Left]_vars
<1>1. TypeOK => Left \in Nat
  BY CapabilityAssumption DEF TypeOK, Left
<1>2. TypeOK /\ TypeOK' /\ Next => Left' < Left
  <2> SUFFICES ASSUME TypeOK, TypeOK', Next PROVE Left' < Left
    OBVIOUS
  <2>1. /\ MaxAttempts \in Nat \ {0, 1}
        /\ attempt \in 0 .. MaxAttempts - 1 /\ attempt' \in 0 .. MaxAttempts - 1
    BY CapabilityAssumption DEF TypeOK
  <2>2. CASE Ask
    BY <2>1, <2>2 DEF Ask, Left
  <2>3. CASE ReturnAnswer \/ GiveUp
    <3>1. pc = "answered" /\ pc' = "done"
      BY <2>3 DEF ReturnAnswer, GiveUp
    <3>2. QED
      BY <2>1, <3>1 DEF Left
  <2>4. CASE Grow
    BY <2>1, <2>4 DEF Grow, Left
  <2>5. QED
    BY <2>2, <2>3, <2>4 DEF Next
<1>3. QED
  BY <1>1, <1>2, CapabilityTypeCorrect, PTL DEF Spec

===============================================================================
