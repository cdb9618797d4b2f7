---------------------------- MODULE FetchAttribute ----------------------------
(***************************************************************************)
(* fetch_attribute() of sai_cap_query.cpp: one attribute is read through a *)
(* getter, and when the adapter says the list buffer is too small the      *)
(* buffer is grown and the read repeated a bounded number of times.        *)
(*                                                                         *)
(* The adapter is external. It may return any status, it may throw (a      *)
(* transport error or a response timeout surfaces as an exception), and on *)
(* BUFFER_OVERFLOW it may report the size it needs, leave the count field  *)
(* as it was, or write anything at all. `manner' fixes which of these the  *)
(* adapter does, so that what the loop guarantees can be stated for the    *)
(* two manners its comment names.                                          *)
(*                                                                         *)
(* The buffer contents are left out: a buffer is its number of elements.   *)
(***************************************************************************)
EXTENDS Doubling

CONSTANTS
  InitialCapacity,   \* kInitialListCapacity
  MaximumCapacity,   \* kMaximumListCapacity
  MaxRetries,        \* the bound on `attempt' in the growth loop
  Sizes              \* the element counts an adapter may hold or report

ASSUME FetchAssumption ==
  /\ InitialCapacity \in Nat \ {0}
  /\ MaximumCapacity \in Nat
  /\ InitialCapacity <= MaximumCapacity
  /\ MaxRetries \in Nat \ {0}
  /\ Sizes \subseteq Nat

VARIABLES
  manner,     \* how the adapter answers BUFFER_OVERFLOW, fixed
  size,       \* how many elements the attribute really has, fixed
  kind,       \* value type class of the attribute, fixed
  pc,         \* where the call is
  capacity,   \* elements in the bound buffer, 0 when none is bound
  count,      \* the count field of the attribute value
  attempt,    \* the loop counter
  status,     \* the local `status': the last status a GET returned
  asks,       \* history: how many GETs were issued
  outcome     \* the FetchOutcome returned

vars == <<manner, size, kind, pc, capacity, count, attempt, status, asks, outcome>>

-----------------------------------------------------------------------------
(* Value types. "opaque" stands for the pointer and per-lane types the tool *)
(* refuses to ask for, "list" for the twenty buffered types, "inline" for   *)
(* every other one.                                                         *)

Kinds == {"opaque", "inline", "list"}

CanFetch(k)   == k # "opaque"
IsBuffered(k) == k = "list"

\* FAILURE and NO_MEMORY are told apart from the other refusals because the
\* tool also makes them up itself.
Refusals == {"FAILURE", "NO_MEMORY", "NOT_SUPPORTED"}
Statuses == Refusals \cup {"SUCCESS", "BUFFER_OVERFLOW"}

Results == {"Ok", "Skipped", "Failure"}
Details == {"none", "not_probeable", "threw", "non_list", "limit"}
Outcomes == [result : Results, status : Statuses, detail : Details]

NoOutcome == [result |-> "Failure", status |-> "FAILURE", detail |-> "none"]

-----------------------------------------------------------------------------
(* The adapter.                                                            *)

Manners == {"reports", "silent", "erratic"}

\* Does the value the adapter holds fit a buffer of c elements?
Fits(c) == IsBuffered(kind) => size <= c

\* What a GET into a buffer of c elements may come back with. A refusal is
\* always possible. A SUCCESS fills at most the room that was offered, as the
\* SAI list contract demands; "erratic" keeps to nothing else.
Replies(c) ==
  {r \in [status : Statuses, count : Sizes \cup {c}] :
     \/ r.status \in Refusals
     \/ /\ r.status = "SUCCESS"
        /\ r.count <= c
        /\ manner # "erratic" => Fits(c)
     \/ /\ r.status = "BUFFER_OVERFLOW"
        /\ manner # "erratic" => ~Fits(c)
        /\ manner = "reports" => r.count = size
        /\ manner = "silent" => r.count = c}

-----------------------------------------------------------------------------
(* Buffers.                                                                *)

\* Slip: the limit check lets one element too many through.
BindsOneTooMany(c) == c <= MaximumCapacity + 1

\* bind_attribute_buffer: a buffer above the safety limit is refused.
Binds(c) == c <= MaximumCapacity

\* Slip: an untouched count field leaves the buffer as it was.
RequiredNeverDoubles(c, n) == IF n > c THEN n ELSE c

\* Slip: an untouched count field adds one more block instead of doubling.
RequiredAddsABlock(c, n) ==
  IF n > c THEN n
  ELSE IF c > MaximumCapacity - InitialCapacity THEN MaximumCapacity + 1
  ELSE c + InitialCapacity

\* Slip: the reported size is ignored.
RequiredIgnoresTheReport(c, n) ==
  IF c > MaximumCapacity \div 2 THEN MaximumCapacity + 1 ELSE 2 * c

\* The size of the next buffer when one of c elements was too small and the
\* count field says n.
Required(c, n) ==
  IF n > c THEN n
  ELSE IF c > MaximumCapacity \div 2 THEN MaximumCapacity + 1
  ELSE 2 * c

\* get_buffer_count: no count field is read of a value that is not a list.
ReportedCount == IF IsBuffered(kind) THEN count ELSE 0

-----------------------------------------------------------------------------

TypeOK ==
  /\ manner \in Manners
  /\ size \in Sizes
  /\ kind \in Kinds
  /\ pc \in {"start", "answered", "done"}
  /\ capacity \in 0 .. MaximumCapacity
  /\ count \in Nat
  /\ attempt \in 0 .. MaxRetries
  /\ status \in Statuses
  /\ asks \in 0 .. MaxRetries + 1
  /\ outcome \in Outcomes

Init ==
  /\ manner \in Manners
  /\ size \in Sizes
  /\ kind \in Kinds
  /\ pc = "start"
  /\ capacity = 0
  /\ count = 0
  /\ attempt = 0
  /\ status = "FAILURE"
  /\ asks = 0
  /\ outcome = NoOutcome

Return(result, st, detail) ==
  /\ pc' = "done"
  /\ outcome' = [result |-> result, status |-> st, detail |-> detail]

\* One getter call into a buffer of c elements: it answers, or it throws and
\* the fetch returns at once.
Get(c) ==
  /\ capacity' = c
  /\ asks' = asks + 1
  /\ \/ /\ \E r \in Replies(c) : status' = r.status /\ count' = r.count
        /\ pc' = "answered"
        /\ UNCHANGED outcome
     \/ /\ Return("Failure", "FAILURE", "threw")
        /\ UNCHANGED <<status, count>>

\* Slip: a value type the tool does not ask for counts as a failed read.
SkipValueAsFailure ==
  /\ pc = "start"
  /\ ~CanFetch(kind) \/ (IsBuffered(kind) /\ ~Binds(InitialCapacity))
  /\ Return("Failure", "FAILURE", "not_probeable")
  /\ UNCHANGED <<manner, size, kind, capacity, count, attempt, status, asks>>

\* A value type that cannot be probed, or a first buffer above the limit.
SkipValue ==
  /\ pc = "start"
  /\ \/ ~CanFetch(kind)
     \/ IsBuffered(kind) /\ ~Binds(InitialCapacity)
  /\ Return("Skipped", "FAILURE", "not_probeable")
  /\ UNCHANGED <<manner, size, kind, capacity, count, attempt, status, asks>>

FirstGet ==
  /\ pc = "start"
  /\ CanFetch(kind)
  /\ IsBuffered(kind) => Binds(InitialCapacity)
  /\ Get(IF IsBuffered(kind) THEN InitialCapacity ELSE 0)
  /\ UNCHANGED <<manner, size, kind, attempt>>

\* The loop condition.
Overflowed ==
  /\ pc = "answered"
  /\ status = "BUFFER_OVERFLOW"
  /\ attempt < MaxRetries

OverflowOnNonList ==
  /\ Overflowed
  /\ capacity = 0
  /\ Return("Failure", status, "non_list")
  /\ UNCHANGED <<manner, size, kind, capacity, count, attempt, status, asks>>

OverflowAboveLimit ==
  /\ Overflowed
  /\ capacity # 0
  /\ ~Binds(Required(capacity, ReportedCount))
  /\ Return("Failure", "NO_MEMORY", "limit")
  /\ UNCHANGED <<manner, size, kind, capacity, count, attempt, status, asks>>

\* Slip: the read is repeated into the same buffer and is not counted.
GrowAndGetUncounted ==
  /\ Overflowed
  /\ capacity # 0
  /\ Binds(Required(capacity, ReportedCount))
  /\ \E r \in Replies(capacity) : status' = r.status /\ count' = r.count
  /\ UNCHANGED <<manner, size, kind, pc, capacity, attempt, asks, outcome>>

GrowAndGet ==
  /\ Overflowed
  /\ capacity # 0
  /\ Binds(Required(capacity, ReportedCount))
  /\ Get(Required(capacity, ReportedCount))
  /\ attempt' = attempt + 1
  /\ UNCHANGED <<manner, size, kind>>

\* The loop is over: the last status decides.
Finish ==
  /\ pc = "answered"
  /\ ~Overflowed
  /\ Return(IF status = "SUCCESS" THEN "Ok" ELSE "Failure", status, "none")
  /\ UNCHANGED <<manner, size, kind, capacity, count, attempt, status, asks>>

Next ==
  \/ SkipValue
  \/ FirstGet
  \/ OverflowOnNonList
  \/ OverflowAboveLimit
  \/ GrowAndGet
  \/ Finish

\* The call runs to its end: the tool is one thread that never waits except
\* inside a GET, and a GET returns or throws within the response timeout.
Fairness == WF_vars(Next)

Spec == Init /\ [][Next]_vars /\ Fairness

-----------------------------------------------------------------------------
(* What the fetch promises.                                                *)

\* The fetch seen as a bounded query: how its state maps to the promise.
LastAnswer ==
  CASE asks = 0 -> "none"
    [] asks > 0 /\ outcome.detail = "threw" -> "error"
    [] asks > 0 /\ outcome.detail # "threw" /\ status = "SUCCESS" -> "enough"
    [] asks > 0 /\ outcome.detail # "threw" /\ status = "BUFFER_OVERFLOW" -> "short"
    [] OTHER -> "error"

Verdict ==
  CASE pc # "done" -> "pending"
    [] pc = "done" /\ outcome.result = "Ok" -> "ok"
    [] pc = "done" /\ outcome.result = "Skipped" -> "skipped"
    [] OTHER -> "failed"

Query == INSTANCE BoundedQuery WITH
           MaxAsks <- MaxRetries + 1,
           MaxRoom <- MaximumCapacity,
           room    <- capacity,
           answer  <- LastAnswer,
           verdict <- Verdict

\* The growth loop asks at most MaxRetries + 1 times, always with a strictly
\* larger buffer and never with one above the safety limit, and reports Ok
\* only for a read that succeeded.
Promise == Query!Spec

\* "Skipped" is reported exactly when nothing was asked, so that "we did not
\* ask" is never mixed up with an answer of the ASIC; a status is reported as
\* it was returned unless the tool stopped by itself, and it says NO_MEMORY
\* only when a list above the limit was really announced or the buffer could
\* no longer be doubled. A call that throws is a failure and nothing else, whatever
\* the calls before it answered.
OutcomeHonest ==
  pc = "done" =>
    /\ outcome.result = "Skipped" <=> asks = 0
    /\ outcome.detail = "none" => outcome.status = status
    /\ outcome.detail = "threw" => outcome.result = "Failure" /\ outcome.status = "FAILURE"
    /\ outcome.detail = "non_list" => ~IsBuffered(kind)
    /\ outcome.detail = "limit" =>
         IsBuffered(kind) /\ (count > MaximumCapacity \/ 2 * capacity > MaximumCapacity)

\* The tool itself, and not a refusal, ended the fetch of a list.
GaveUp ==
  /\ pc = "done"
  /\ \/ outcome.detail = "limit"
     \/ outcome.detail = "none" /\ outcome.status = "BUFFER_OVERFLOW"

\* An adapter that reports the size it needs is understood at once: a list
\* within the safety limit is never given up, and it takes two reads at most.
ReportedListIsRead ==
  manner = "reports" /\ size <= MaximumCapacity =>
    ~GaveUp /\ asks <= 2

\* An adapter that leaves the count field alone is found by doubling: a list
\* is given up only when no doubling the loop may still make could hold it.
SilentListIsRead ==
  /\ manner = "silent"
  /\ \E k \in 0 .. MaxRetries :
       /\ Doublings(InitialCapacity, MaxRetries)[k] <= MaximumCapacity
       /\ size <= Doublings(InitialCapacity, MaxRetries)[k]
  => ~GaveUp

\* Every fetch returns, whatever the adapter answers.
FetchReturns == <>(pc = "done")

===============================================================================
