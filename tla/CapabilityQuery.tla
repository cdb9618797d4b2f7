---------------------------- MODULE CapabilityQuery ----------------------------
(***************************************************************************)
(* The list negotiation that query_enum_capability, query_stats_capability *)
(* and query_stats_st_capability of sai_cap_query.cpp share line for line: *)
(* a list is offered with a first capacity derived from the metadata, and  *)
(* the offer grows on BUFFER_OVERFLOW until the loop runs out of attempts  *)
(* or the next offer would pass the safety limit.                          *)
(*                                                                         *)
(* It differs from fetch_attribute: a throw counts as the status FAILURE,  *)
(* the limit ends the query with the adapter's own BUFFER_OVERFLOW, and a  *)
(* SUCCESS that claims more elements than were offered is cut to the offer.*)
(***************************************************************************)
EXTENDS Doubling

CONSTANTS
  InitialCapacity,   \* kInitialListCapacity
  MaximumCapacity,   \* kMaximumListCapacity
  MaxAttempts,       \* the bound on `attempt' in the loop
  Headroom,          \* what is added to the metadata's value count
  KnownCounts,       \* how many values the metadata may list
  Sizes              \* the element counts an adapter may hold or report

\* The capacity of the first offer.
FirstCapacity(known) ==
  IF known + Headroom > InitialCapacity THEN known + Headroom ELSE InitialCapacity

ASSUME CapabilityAssumption ==
  /\ InitialCapacity \in Nat \ {0}
  /\ MaximumCapacity \in Nat
  /\ MaxAttempts \in Nat \ {0, 1}
  /\ Headroom \in Nat
  /\ KnownCounts \subseteq Nat
  /\ \A k \in KnownCounts : FirstCapacity(k) <= MaximumCapacity
  /\ Sizes \subseteq Nat

VARIABLES
  manner,     \* how the adapter answers BUFFER_OVERFLOW, fixed
  size,       \* how many capabilities the adapter really has, fixed
  pc,         \* where the call is
  first,      \* history: elements the first offer holds, fixed
  capacity,   \* elements the next offer holds
  offered,    \* history: elements the last offer held
  attempt,    \* the loop counter
  status,     \* result.status
  required,   \* result.required_count
  values,     \* result.values.size() once the call has returned
  asks        \* history: how many queries were issued

vars == <<manner, size, pc, first, capacity, offered, attempt, status, required, values, asks>>

Refusals == {"FAILURE", "NOT_SUPPORTED"}
Statuses == Refusals \cup {"SUCCESS", "BUFFER_OVERFLOW"}
Manners  == {"reports", "silent", "erratic"}

\* What a query offering c elements may come back with. A throw is FAILURE.
Replies(c) ==
  {r \in [status : Statuses, count : Sizes \cup {c}] :
     \/ manner = "erratic"
     \/ r.status \in Refusals
     \/ r.status = "SUCCESS" /\ size <= c /\ r.count = size
     \/ /\ r.status = "BUFFER_OVERFLOW"
        /\ size > c
        /\ r.count = IF manner = "reports" THEN size ELSE c}

TypeOK ==
  /\ manner \in Manners
  /\ size \in Sizes
  /\ pc \in {"ask", "answered", "done"}
  /\ first \in 1 .. MaximumCapacity
  /\ capacity \in 1 .. MaximumCapacity
  /\ offered \in 0 .. MaximumCapacity
  /\ attempt \in 0 .. MaxAttempts - 1
  /\ status \in Statuses
  /\ required \in Nat
  /\ values \in 0 .. MaximumCapacity
  /\ asks \in 0 .. MaxAttempts

Init ==
  /\ manner \in Manners
  /\ size \in Sizes
  /\ pc = "ask"
  /\ \E known \in KnownCounts : first = FirstCapacity(known)
  /\ capacity = first
  /\ offered = 0
  /\ attempt = 0
  /\ status = "FAILURE"
  /\ required = 0
  /\ values = 0
  /\ asks = 0

\* One query of the loop.
Ask ==
  /\ pc = "ask"
  /\ \E r \in Replies(capacity) : status' = r.status /\ required' = r.count
  /\ offered' = capacity
  /\ asks' = asks + 1
  /\ pc' = "answered"
  /\ UNCHANGED <<manner, size, first, capacity, attempt, values>>

\* Slip: the claimed count is taken as it is.
KeptUnclamped(n, c) == n

\* How many values a SUCCESS that claims n elements leaves of an offer of c.
Kept(n, c) == IF n < c THEN n ELSE c

\* Slip: a refusal does not end the query.
ReturnOnlySuccess ==
  /\ pc = "answered"
  /\ status = "SUCCESS"
  /\ values' = Kept(required, capacity)
  /\ pc' = "done"
  /\ UNCHANGED <<manner, size, first, capacity, offered, attempt, status, required, asks>>

\* Anything but BUFFER_OVERFLOW ends the query.
ReturnAnswer ==
  /\ pc = "answered"
  /\ status # "BUFFER_OVERFLOW"
  /\ values' = IF status = "SUCCESS" THEN Kept(required, capacity) ELSE 0
  /\ pc' = "done"
  /\ UNCHANGED <<manner, size, first, capacity, offered, attempt, status, required, asks>>

\* Slip: an untouched count field repeats the offer.
NextCapacityNeverDoubles(c, n) == IF n > c THEN n ELSE c

\* Slip: the reported size is ignored.
NextCapacityIgnoresTheReport(c, n) ==
  IF c > MaximumCapacity \div 2 THEN MaximumCapacity + 1 ELSE 2 * c

\* Slip: an untouched count field adds one more block instead of doubling.
NextCapacityAddsABlock(c, n) == IF n > c THEN n ELSE c + InitialCapacity

\* The capacity of the next offer; more than MaximumCapacity means "stop".
NextCapacity(c, n) ==
  IF n > c THEN n
  ELSE IF c > MaximumCapacity \div 2 THEN MaximumCapacity + 1
  ELSE 2 * c

\* Slip: the limit is tested before the capacity is raised.
MayGrowTestedTooEarly(c, n) == attempt < MaxAttempts - 1 /\ c <= MaximumCapacity

\* Is there an attempt left and an offer the limit allows?
MayGrow(c, n) ==
  /\ attempt < MaxAttempts - 1
  /\ NextCapacity(c, n) <= MaximumCapacity

Grow ==
  /\ pc = "answered"
  /\ status = "BUFFER_OVERFLOW"
  /\ MayGrow(capacity, required)
  /\ capacity' = NextCapacity(capacity, required)
  /\ attempt' = attempt + 1
  /\ pc' = "ask"
  /\ UNCHANGED <<manner, size, first, offered, status, required, values, asks>>

\* The loop is left with BUFFER_OVERFLOW and the values cleared.
GiveUp ==
  /\ pc = "answered"
  /\ status = "BUFFER_OVERFLOW"
  /\ ~MayGrow(capacity, required)
  /\ values' = 0
  /\ pc' = "done"
  /\ UNCHANGED <<manner, size, first, capacity, offered, attempt, status, required, asks>>

Next == Ask \/ ReturnAnswer \/ Grow \/ GiveUp

\* The call runs to its end: one thread that waits only inside a query, and
\* a query answers or throws within the response timeout.
Fairness == WF_vars(Next)

Spec == Init /\ [][Next]_vars /\ Fairness

-----------------------------------------------------------------------------
(* What the query promises.                                                *)

\* The query seen as a bounded query.
LastAnswer ==
  CASE asks = 0 -> "none"
    [] asks > 0 /\ status = "SUCCESS" -> "enough"
    [] asks > 0 /\ status = "BUFFER_OVERFLOW" -> "short"
    [] OTHER -> "error"

Verdict ==
  CASE pc # "done" -> "pending"
    [] pc = "done" /\ status = "SUCCESS" -> "ok"
    [] OTHER -> "failed"

Query == INSTANCE BoundedQuery WITH
           MaxAsks <- MaxAttempts,
           MaxRoom <- MaximumCapacity,
           room    <- offered,
           answer  <- LastAnswer,
           verdict <- Verdict

\* The loop asks at most MaxAttempts times, always offers strictly more than
\* before and never more than the safety limit.
Promise == Query!Spec

\* A result never holds more values than the adapter was offered room for,
\* whatever count it claims, and holds none unless the query succeeded.
ValuesAreBacked ==
  /\ values <= offered
  /\ values > 0 => pc = "done" /\ status = "SUCCESS"

\* An adapter that reports the size it needs is understood at once: the whole
\* list comes back after two queries at most, or the required_count that is
\* printed with BUFFER_OVERFLOW is the true size and really above the limit.
ReportedListIsRead ==
  manner = "reports" =>
    /\ asks <= 2
    /\ pc = "done" /\ status = "SUCCESS" => values = size
    /\ pc = "done" /\ status = "BUFFER_OVERFLOW" =>
         required = size /\ size > MaximumCapacity

\* An adapter that leaves the count field alone is found by doubling: its list
\* is given up only when no doubling of the first offer that the attempts and
\* the limit allow could hold it.
SilentListIsRead ==
  manner = "silent" /\ pc = "done" /\ status = "BUFFER_OVERFLOW" =>
    \A k \in 0 .. MaxAttempts - 1 :
      Doublings(first, MaxAttempts - 1)[k] <= MaximumCapacity =>
        size > Doublings(first, MaxAttempts - 1)[k]

\* Every capability query returns.
QueryReturns == <>(pc = "done")

===============================================================================
