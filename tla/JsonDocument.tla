----------------------------- MODULE JsonDocument -----------------------------
(***************************************************************************)
(* The way build_json_report puts its document together: containers are    *)
(* made, filled, and set into or pushed to the one they were made for,     *)
(* innermost first. The document is the outermost of the open containers.  *)
(***************************************************************************)
EXTENDS JsonReader

CONSTANTS
  Keys,      \* member names (a bound)
  Scalars,   \* what members are set to (a bound)
  MaxCalls   \* how many containers and members there are (a bound)

ASSUME DocumentAssumption ==
  /\ Keys \subseteq Seq(Chars)
  /\ Scalars \subseteq Leaves
  /\ MaxCalls \in Nat

VARIABLES
  open,    \* the containers that are filled, the document first
  given,   \* history: what each of them was given, in order
  calls    \* how many calls there were

vars == <<open, given, calls>>

Depth == Len(open)

TypeOK ==
  /\ open \in Seq(Values[MaxDepth])
  /\ Depth \in 1 .. MaxDepth
  /\ DOMAIN given = 1 .. Depth
  /\ \A k \in 1 .. Depth :
       /\ open[k] \in Values[MaxDepth + 1 - k]
       /\ \/ open[k].is = "array" /\ given[k] \in Seq(Values[MaxDepth])
          \/ open[k].is = "object" /\ given[k] \in Seq(Keys \X Values[MaxDepth])
  /\ calls \in 0 .. MaxCalls

Init ==
  /\ open = <<EmptyObject>>
  /\ given = << <<>> >>
  /\ calls = 0

Call == calls < MaxCalls /\ calls' = calls + 1

SetScalar ==
  /\ Call
  /\ open[Depth].is = "object"
  /\ \E key \in Keys, value \in Scalars :
       /\ open' = [open EXCEPT ![Depth] = set(@, key, value)]
       /\ given' = [given EXCEPT ![Depth] = Append(@, <<key, value>>)]

\* The array of a section or of a counter list.
OpenArray ==
  /\ Call
  /\ Depth < MaxDepth
  /\ open[Depth].is = "object"
  /\ open' = Append(open, EmptyArray)
  /\ given' = Append(given, <<>>)

\* An entry of an array, or an object that is a member.
OpenObject ==
  /\ Call
  /\ Depth < MaxDepth
  /\ open' = Append(open, EmptyObject)
  /\ given' = Append(given, <<>>)

\* The last container is done: it becomes a member of the object around it.
SetMember ==
  /\ Call
  /\ Depth > 1
  /\ open[Depth - 1].is = "object"
  /\ \E key \in Keys :
       /\ open' = [Front(open) EXCEPT ![Depth - 1] = set(@, key, open[Depth])]
       /\ given' = [Front(given) EXCEPT ![Depth - 1] = Append(@, <<key, open[Depth]>>)]

\* It is an entry of the array around it.
PushEntry ==
  /\ Call
  /\ Depth > 1
  /\ open[Depth - 1].is = "array"
  /\ open' = [Front(open) EXCEPT ![Depth - 1] = push(@, open[Depth])]
  /\ given' = [Front(given) EXCEPT ![Depth - 1] = Append(@, open[Depth])]

Next == SetScalar \/ OpenArray \/ OpenObject \/ SetMember \/ PushEntry

Spec == Init /\ [][Next]_vars

-----------------------------------------------------------------------------

\* What a sequence of set calls is to leave: each member has the value its name
\* was given last, no name is lost, and names stand in the order in which they
\* were first given, each once.
AsGiven(members, history) ==
  /\ \A m \in DOMAIN members :
       \E i \in DOMAIN history :
         /\ history[i] = members[m]
         /\ \A j \in DOMAIN history : j > i => history[j][1] # members[m][1]
  /\ \A i \in DOMAIN history :
       \E m \in DOMAIN members : members[m][1] = history[i][1]
  /\ \A m, n \in DOMAIN members :
       m < n => \E i \in DOMAIN history :
                  /\ history[i][1] = members[m][1]
                  /\ \A j \in 1 .. i : history[j][1] # members[n][1]

\* Whatever names and details the adapter, the library or the command line put
\* into it, at every moment the text of each container is JSON and reads back
\* as what set and push gave it, and so does the document around them.
ReadsBack ==
  \A k \in DOMAIN open :
    LET got == Read(write(open[k])) IN
      /\ got.is = open[k].is
      /\ IF got.is = "array" THEN got.val = given[k] ELSE AsGiven(got.val, given[k])

===============================================================================
