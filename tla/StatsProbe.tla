------------------------------ MODULE StatsProbe ------------------------------
(***************************************************************************)
(* --probe-stats: counters are read on a sampled port, on its first queue  *)
(* and priority group, and on the switch, and every read is held against   *)
(* the statistics capability the adapter declared for that type            *)
(* (probe_live_stats and the functions it calls). The declaration is       *)
(* queried once per type and shared with the report that is printed before *)
(* (StatsCapabilityCache).                                                 *)
(*                                                                         *)
(* The adapter is external. The reads an honest one declares work as long  *)
(* as the sampled object exists; another process may remove the sampled    *)
(* port, and with it its queues and priority groups, at any time.          *)
(*                                                                         *)
(* One capability query is one step (see CapabilityQuery), and so is the   *)
(* reading of one object list (see FetchAttribute). A declaration is a set *)
(* of entries, counter and modes; which of two entries for one counter     *)
(* comes first in the adapter's list is a choice.                          *)
(***************************************************************************)
EXTENDS Naturals, FiniteSets, Sequences

CONSTANTS
  NumStats,       \* counters of a type's statistics enum
  Markers,        \* those that are range markers, not counters
  Declarations,   \* [type -> what an adapter may declare] (a bound)
  PortLists       \* the port lists a switch may have (a bound)

Stats == 1 .. NumStats
Types == {"port", "queue", "ipg", "switch"}
Modes == {"READ", "READ_AND_CLEAR", "BULK_READ"}
Entry == Stats \X SUBSET Modes

\* probe_stats_on_object for every type, and after the port's
\* validate_stats_modes_on_object.
Stages == <<"port", "port modes", "queue", "ipg", "switch">>

ASSUME ProbeAssumption ==
  /\ NumStats \in Nat
  /\ Markers \subseteq Stats
  /\ Declarations \in [Types -> SUBSET SUBSET Entry]
  /\ \A t \in Types : \A d \in Declarations[t] : IsFiniteSet(d)
  /\ \A l \in PortLists : Len(l) \in Nat

VARIABLES
  honest,       \* does the adapter tell the truth? fixed
  allowClear,   \* --allow-clear, fixed
  lost,         \* was the sampled port removed?
  pc,           \* where the run is
  standing,     \* StatsCapabilityCache: was a type asked for, and with success?
  declared,     \* StatsCapabilityCache: the entries of a type
  ports,        \* the switch's port list
  at,           \* which of them select_sample_port looks at
  stage,        \* which of Stages is carried out
  stat,         \* the counter the stage is at
  todo,         \* the entries the modes validation still has to look at
  count,        \* the counts of this stage
  cleared       \* history: counters read under READ_AND_CLEAR, and of which type

config  == <<honest, allowClear>>
cache   == <<standing, declared>>
sampled == <<ports, at>>
work    == <<stage, stat, todo, count>>
vars    == <<config, lost, pc, cache, sampled, work, cleared>>

Counts   == {"accepted", "contradiction", "failure", "unclaimed", "no mode"}
NoCounts == [c \in Counts |-> 0]
Add(f, c) == [f EXCEPT ![c] = @ + 1]

\* The object type a stage is about.
Subject == IF stage \in {1, 2} THEN "port" ELSE Stages[stage]
ReadsModes == stage = 2

\* What the adapter declared of counter s.
EntriesOf(s) == {e \in declared[Subject] : e[1] = s}
Known == standing[Subject] = "known"

\* Can a read of counter s under mode m succeed, can it fail?
ReadResults(s, m) ==
  IF /\ honest
     /\ Subject = "switch" \/ ~lost
     /\ \E e \in EntriesOf(s) : m \in e[2]
  THEN {TRUE}
  ELSE BOOLEAN

-----------------------------------------------------------------------------

TypeOK ==
  /\ honest \in BOOLEAN
  /\ allowClear \in BOOLEAN
  /\ lost \in BOOLEAN
  /\ pc \in {"report", "list", "select", "open", "stage", "reading", "done"}
  /\ standing \in [Types -> {"unread", "known", "unavailable"}]
  /\ declared \in [Types -> SUBSET Entry]
  /\ ports \in PortLists \cup {<<>>}
  /\ at \in 1 .. Len(ports) + 1
  /\ stage \in 1 .. Len(Stages)
  /\ stat \in 1 .. NumStats + 1
  /\ todo \subseteq Entry
  /\ count \in [Counts -> Nat]
  /\ cleared \subseteq Types \X Stats

Init ==
  /\ honest \in BOOLEAN
  /\ allowClear \in BOOLEAN
  /\ lost = FALSE
  /\ pc = "report"
  /\ standing = [t \in Types |-> "unread"]
  /\ declared = [t \in Types |-> {}]
  /\ ports = <<>>
  /\ at = 1
  /\ stage = 1
  /\ stat = 1
  /\ todo = {}
  /\ count = NoCounts
  /\ cleared = {}

\* Another process removes the port that was sampled. Only the reads of an honest
\* adapter depend on it: those of any other may fail, or not, as they are.
LosePort ==
  /\ pc \in {"open", "stage", "reading"}
  /\ honest
  /\ ~lost
  /\ lost' = TRUE
  /\ UNCHANGED <<config, pc, cache, sampled, work, cleared>>

-----------------------------------------------------------------------------
(* The declaration of a type.                                              *)

\* Slip: a query that failed is repeated.
ConsultRetriesFailures(t) ==
  IF standing[t] = "known"
  THEN UNCHANGED cache
  ELSE \/ \E d \in Declarations[t] :
            /\ standing' = [standing EXCEPT ![t] = "known"]
            /\ declared' = [declared EXCEPT ![t] = d]
       \/ /\ standing' = [standing EXCEPT ![t] = "unavailable"]
          /\ UNCHANGED declared

\* StatsCapabilityCache::get: asked on first use, and whatever came back stays.
Consult(t) ==
  IF standing[t] # "unread"
  THEN UNCHANGED cache
  ELSE \/ \E d \in Declarations[t] :
            /\ standing' = [standing EXCEPT ![t] = "known"]
            /\ declared' = [declared EXCEPT ![t] = d]
       \/ /\ standing' = [standing EXCEPT ![t] = "unavailable"]
          /\ UNCHANGED declared

\* show_stats_capabilities prints the types the options select.
Report(t) ==
  /\ pc = "report"
  /\ Consult(t)
  /\ UNCHANGED <<config, lost, pc, sampled, work, cleared>>

\* The report is over and the probe was asked for.
StartProbe ==
  /\ pc = "report"
  /\ pc' = "list"
  /\ UNCHANGED <<config, lost, cache, sampled, work, cleared>>

-----------------------------------------------------------------------------
(* The sampled port.                                                       *)

\* The port list is read, or cannot be read, or is empty.
ListPorts ==
  /\ pc = "list"
  /\ \/ /\ ports' \in PortLists
        /\ pc' = IF ports' = <<>> THEN "done" ELSE "select"
     \/ pc' = "done" /\ UNCHANGED ports
  /\ UNCHANGED <<config, lost, cache, at, work, cleared>>

\* What is learnt of a port: its type, which may be refused or throw, and
\* whether it has queues. The type counts only when it was read; a throw ends
\* the look at this port.
Suits(type, queues) == type \in {"logical", "refused"} /\ queues

\* Slip: after a port that threw the search starts over.
TryPortFromTheFirst ==
  /\ pc = "select"
  /\ at <= Len(ports)
  /\ \E type \in {"logical", "other", "refused", "threw"}, queues \in BOOLEAN :
       IF Suits(type, queues)
       THEN pc' = "open" /\ UNCHANGED at
       ELSE at' = (IF type = "threw" THEN 1 ELSE at + 1) /\ UNCHANGED pc
  /\ UNCHANGED <<config, lost, cache, ports, work, cleared>>

TryPort ==
  /\ pc = "select"
  /\ at <= Len(ports)
  /\ \E type \in {"logical", "other", "refused", "threw"}, queues \in BOOLEAN :
       IF Suits(type, queues)
       THEN pc' = "open" /\ UNCHANGED at
       ELSE at' = at + 1 /\ UNCHANGED pc
  /\ UNCHANGED <<config, lost, cache, ports, work, cleared>>

\* No port suits, or none could be looked at: the first one has to do.
FirstPort ==
  /\ pc = "select"
  /\ at > Len(ports) \/ at = 1
  /\ at' = 1
  /\ pc' = "open"
  /\ UNCHANGED <<config, lost, cache, ports, work, cleared>>

\* The port API is there, or the probe ends.
OpenPortApi ==
  /\ pc = "open"
  /\ pc' \in {"stage", "done"}
  /\ UNCHANGED <<config, lost, cache, sampled, work, cleared>>

-----------------------------------------------------------------------------
(* The stages.                                                             *)

\* On to the next stage.
Advance ==
  IF stage = Len(Stages)
  THEN pc' = "done" /\ UNCHANGED stage
  ELSE pc' = "stage" /\ stage' = stage + 1

\* The stage has an object, an API and a declaration to hold reads against.
\* The modes validation needs to know the declaration, the probes do not.
EnterStage ==
  /\ pc = "stage"
  /\ Consult(Subject)
  /\ ReadsModes => standing'[Subject] = "known"
  /\ pc' = "reading"
  /\ stat' = IF ReadsModes THEN NumStats + 1 ELSE 1
  /\ todo' = IF ReadsModes THEN declared'[Subject] ELSE {}
  /\ count' = NoCounts
  /\ UNCHANGED <<config, lost, sampled, stage, cleared>>

\* The modes of a type whose declaration is unavailable are not validated.
ModesUnavailable ==
  /\ pc = "stage"
  /\ ReadsModes
  /\ Consult(Subject)
  /\ standing'[Subject] # "known"
  /\ Advance
  /\ UNCHANGED <<config, lost, sampled, stat, todo, count, cleared>>

\* The port has no queues or priority groups, or a statistics function or API
\* is missing.
SkipStage ==
  /\ pc = "stage"
  /\ stage # 1
  /\ Advance
  /\ UNCHANGED <<config, lost, cache, sampled, stat, todo, count, cleared>>

\* Slip: the loop runs one counter too far.
AtCounterTooFar == pc = "reading" /\ stat <= NumStats + 1 /\ ~ReadsModes

AtCounter == pc = "reading" /\ stat <= NumStats /\ ~ReadsModes

SkipMarker ==
  /\ AtCounter
  /\ stat \in Markers
  /\ stat' = stat + 1
  /\ UNCHANGED <<config, lost, pc, cache, sampled, stage, todo, count, cleared>>

\* Slip: every counter that is listed counts as declared readable.
VerdictOnAnyEntry(ok, claimedRead) ==
  IF ok THEN "accepted"
  ELSE IF Known /\ EntriesOf(stat) # {} THEN "contradiction"
  ELSE "failure"

\* Slip: a failed read is always the adapter's fault.
VerdictOnEveryFailure(ok, claimedRead) ==
  IF ok THEN "accepted" ELSE "contradiction"

\* What the read of a counter is counted as.
Verdict(ok, claimedRead) ==
  IF ok THEN "accepted"
  ELSE IF claimedRead THEN "contradiction"
  ELSE "failure"

\* Slip: a contradiction is counted among the plain failures as well.
ReadCounterTwice ==
  /\ AtCounter
  /\ stat \notin Markers
  /\ \E ok \in ReadResults(stat, "READ") :
       LET first == {e \in EntriesOf(stat) : Known}
           noted == IF Known /\ first = {} THEN Add(count, "unclaimed") ELSE count IN
         \/ first = {} /\ count' = Add(noted, Verdict(ok, FALSE))
         \/ \E e \in first :
              count' = IF ok THEN Add(noted, "accepted")
                       ELSE Add(Add(noted, "failure"), Verdict(ok, "READ" \in e[2]))
  /\ stat' = stat + 1
  /\ UNCHANGED <<config, lost, pc, cache, sampled, stage, todo, cleared>>

\* One counter is read and the read held against the declaration.
ReadCounter ==
  /\ AtCounter
  /\ stat \notin Markers
  /\ \E ok \in ReadResults(stat, "READ") :
       LET first == {e \in EntriesOf(stat) : Known}
           noted == IF Known /\ first = {} THEN Add(count, "unclaimed") ELSE count IN
         \/ first = {} /\ count' = Add(noted, Verdict(ok, FALSE))
         \/ \E e \in first : count' = Add(noted, Verdict(ok, "READ" \in e[2]))
  /\ stat' = stat + 1
  /\ UNCHANGED <<config, lost, pc, cache, sampled, stage, todo, cleared>>

\* Slip: READ_AND_CLEAR is preferred once it is allowed.
SelectModePrefersClear(modes) ==
  IF allowClear /\ "READ_AND_CLEAR" \in modes THEN "READ_AND_CLEAR"
  ELSE IF "READ" \in modes THEN "READ"
  ELSE "none"

\* select_read_only_stats_mode
SelectMode(modes) ==
  IF "READ" \in modes THEN "READ"
  ELSE IF allowClear /\ "READ_AND_CLEAR" \in modes THEN "READ_AND_CLEAR"
  ELSE "none"

\* One entry of the declaration is put to the test under a mode it declares.
TryEntry ==
  /\ pc = "reading"
  /\ \E e \in todo :
       LET m == SelectMode(e[2]) IN
         /\ todo' = todo \ {e}
         /\ IF e[1] \in Markers
            THEN UNCHANGED <<count, cleared>>
            ELSE IF m = "none"
            THEN count' = Add(count, "no mode") /\ UNCHANGED cleared
            ELSE /\ \E ok \in ReadResults(e[1], m) :
                      count' = Add(count, IF ok THEN "accepted" ELSE "contradiction")
                 /\ cleared' = IF m = "READ_AND_CLEAR"
                               THEN cleared \cup {<<Subject, e[1]>>} ELSE cleared
  /\ UNCHANGED <<config, lost, pc, cache, sampled, stage, stat>>

EndStage ==
  /\ pc = "reading"
  /\ ~AtCounter
  /\ todo = {}
  /\ Advance
  /\ UNCHANGED <<config, lost, cache, sampled, stat, todo, count, cleared>>

Tool ==
  \/ \E t \in Types : Report(t)
  \/ StartProbe
  \/ ListPorts
  \/ TryPort
  \/ FirstPort
  \/ OpenPortApi
  \/ EnterStage
  \/ ModesUnavailable
  \/ SkipStage
  \/ SkipMarker
  \/ ReadCounter
  \/ TryEntry
  \/ EndStage

Next == Tool \/ LosePort

\* One thread, and every SAI call returns or throws within the response timeout;
\* a run without --probe-stats is not of interest here.
Fairness == WF_vars(Tool)

Spec == Init /\ [][Next]_vars /\ Fairness

-----------------------------------------------------------------------------
(* What the probe promises.                                                *)

\* Report and probe go by one declaration per type: once an answer is in, a
\* good or a bad one, it is the answer until the run ends.
OneDeclaration ==
  [][\A t \in Types :
       standing[t] # "unread" =>
         standing'[t] = standing[t] /\ declared'[t] = declared[t]]_vars

\* The probe summary adds up: every counter that is no marker is counted as
\* accepted, contradicted or failed, once, and a counter the adapter did not
\* declare is counted as unclaimed and never contradicted.
CountsAddUp ==
  pc = "reading" /\ ~ReadsModes =>
    LET seen == (1 .. stat - 1) \ Markers
        open == {s \in seen : Known /\ EntriesOf(s) = {}} IN
      /\ count["accepted"] + count["contradiction"] + count["failure"] = Cardinality(seen)
      /\ count["unclaimed"] = Cardinality(open)
      /\ count["contradiction"] + count["unclaimed"] <= Cardinality(seen)

\* Every contradiction of the READ probe rests on a declaration that is known
\* and says READ of a real counter.
ContradictionIsDeclared ==
  [][pc = "reading" /\ ~ReadsModes /\ count'["contradiction"] > count["contradiction"] =>
       /\ Known
       /\ stat \notin Markers
       /\ \E e \in EntriesOf(stat) : "READ" \in e[2]]_vars

\* An adapter whose declarations are true is not contradicted on objects that
\* exist, under whatever mode they are read; the switch always exists.
NoFalseContradiction ==
  honest /\ pc = "reading" /\ (~lost \/ Subject = "switch") => count["contradiction"] = 0

\* Counters are cleared only with --allow-clear, only on the port, never a marker,
\* and each by an entry of the declaration that says READ_AND_CLEAR and not READ.
\* The validation goes entry by entry: another entry for the same counter may well
\* say READ, and the counter is cleared all the same.
ClearedByEntry ==
  \A c \in cleared :
    /\ allowClear
    /\ c[1] = "port"
    /\ c[2] \notin Markers
    /\ \E e \in declared[c[1]] :
         e[1] = c[2] /\ "READ_AND_CLEAR" \in e[2] /\ "READ" \notin e[2]

\* The probe ends, whatever the adapter answers.
ProbeEnds == <>(pc = "done")

===============================================================================
