----------------------------- MODULE BoundedQuery -----------------------------
(***************************************************************************)
(* The promise every size-negotiating query of sai_cap_query makes to the  *)
(* code that calls it, whether the query reads one attribute               *)
(* (fetch_attribute) or a capability list (query_enum_capability,          *)
(* query_stats_capability, query_stats_st_capability):                     *)
(*                                                                         *)
(*   - the adapter is asked at most MaxAsks times;                         *)
(*   - no ask offers more than MaxRoom elements, and every ask after the   *)
(*     first one offers strictly more room than the one before it;         *)
(*   - only an answer that said "your room is too small" is asked again;   *)
(*   - the caller gets one verdict, and it is "ok" only when the last      *)
(*     answer was a success.                                               *)
(*                                                                         *)
(* The detailed modules FetchAttribute and CapabilityQuery are shown to    *)
(* implement this one.                                                     *)
(***************************************************************************)
EXTENDS Naturals

CONSTANTS
  MaxAsks,   \* how often the adapter may be asked
  MaxRoom    \* the largest number of elements an ask may offer

VARIABLES
  asks,      \* how often the adapter has been asked
  room,      \* the number of elements the last ask offered
  answer,    \* what the last ask was answered with
  verdict    \* what the caller is told

vars == <<asks, room, answer, verdict>>

Answers  == {"none", "enough", "short", "error"}
Verdicts == {"pending", "ok", "failed", "skipped"}

TypeOK ==
  /\ asks \in 0 .. MaxAsks
  /\ room \in 0 .. MaxRoom
  /\ answer \in Answers
  /\ verdict \in Verdicts

Init ==
  /\ asks = 0
  /\ room = 0
  /\ answer = "none"
  /\ verdict = "pending"

\* The verdict an answer justifies once the query stops asking.
VerdictFor(a) == IF a = "enough" THEN "ok" ELSE "failed"

\* One more call to the adapter. The verdict may be settled with the call.
Ask ==
  /\ verdict = "pending"
  /\ answer \in {"none", "short"}
  /\ asks < MaxAsks
  /\ asks' = asks + 1
  /\ room' \in 0 .. MaxRoom
  /\ asks > 0 => room' > room
  /\ answer' \in Answers \ {"none"}
  /\ verdict' \in {"pending", VerdictFor(answer')}

\* The query stops with what the last answer justifies.
Settle ==
  /\ verdict = "pending"
  /\ answer # "none"
  /\ verdict' = VerdictFor(answer)
  /\ UNCHANGED <<asks, room, answer>>

\* The query decides not to ask at all.
Skip ==
  /\ verdict = "pending"
  /\ asks = 0
  /\ verdict' = "skipped"
  /\ UNCHANGED <<asks, room, answer>>

Next == Ask \/ Settle \/ Skip

Spec == Init /\ [][Next]_vars

===============================================================================
