---------------------------------- MODULE Run ----------------------------------
(***************************************************************************)
(* One run of the tool, main() of sai_cap_query.cpp: the command line, the *)
(* role this process takes towards libsairedis, the preflight of the       *)
(* built-in ZMQ endpoints, the session with the library, the probe of the  *)
(* switch VID, the report in one of its forms, and the exit code.          *)
(*                                                                         *)
(* External are the endpoints, which other processes bind and leave at any *)
(* time, and libsairedis, which takes the role the profile answers give it *)
(* and, in either role, unlinks what is at an endpoint it binds. Any call  *)
(* of it may throw. What the report says is left to the other modules.     *)
(***************************************************************************)
EXTENDS Naturals

CONSTANTS
  NumPairs,     \* kDefaultClientEndpoints; the first is the server's pair too
  MaxChanges    \* how often other processes change an endpoint (a bound)

ASSUME RunAssumption == NumPairs \in Nat \ {0} /\ MaxChanges \in Nat

Pairs == 1 .. NumPairs

\* What is at a main endpoint: nothing, a socket nobody listens on or another
\* kind of file, or a listening sairedis server. At a notification endpoint it
\* only matters whether there is anything.
Mains     == {"missing", "leftover", "live"}
Endpoints == [main : Mains, ntf : BOOLEAN]

\* The command line, as far as the run depends on it, and the environment:
\* SAI_CAP_ZMQ_PRECHECK and SAI_CAP_ENABLE_CLIENT.
Options == [client : BOOLEAN, clientConfig : BOOLEAN,
            serverConfig : BOOLEAN, contextConfig : BOOLEAN,
            json : BOOLEAN, list : BOOLEAN, precheck : BOOLEAN,
            override : {"absent", "true", "false", "unset"}]

VARIABLES
  options,     \* Options, fixed
  libPair,     \* the pair the linked library uses as a client, fixed
  endpoints,   \* [Pairs -> Endpoints]
  changes,     \* how often others changed them
  pc,          \* where the run is
  at,          \* the pair the client preflight looks at
  found,       \* server_pair, 0 while there is none
  announced,   \* endpoints the user was warned to be taken
  taken,       \* endpoints that the library took from somebody
  session,     \* is the library initialized?
  vid,         \* how the VID probe was answered
  report,      \* was a report produced?
  text,        \* stdout: does it hold any text?
  document,    \* stdout: none, the whole or a part of the JSON document
  strict,      \* does the status of the coming uninitialize decide the exit?
  exit         \* the exit code

setting == <<options, libPair>>
world   == <<endpoints, changes>>
checks  == <<at, found, announced>>
output  == <<report, text, document>>
ending  == <<strict, exit>>
vars == <<setting, world, pc, checks, taken, session, vid, output, ending>>

Answers == {"SUCCESS", "INVALID_OBJECT_ID", "ITEM_NOT_FOUND", "threw"}

-----------------------------------------------------------------------------
(* Decisions.                                                              *)

\* endpoints_relocated
Relocated ==
  IF options.client
  THEN options.clientConfig
  ELSE options.serverConfig \/ options.contextConfig

\* redis_profile_answer for SAI_REDIS_KEY_ENABLE_CLIENT
ProfileAnswer ==
  IF options.override = "absent"
  THEN IF options.client THEN "true" ELSE "false"
  ELSE IF options.override = "unset" THEN "null" ELSE options.override

\* The role libsairedis takes.
ActsAsClient == ProfileAnswer = "true"

\* The built-in endpoints it may bind in that role. A server without a server
\* configuration binds its default pair, unless a context configuration has it
\* elsewhere; that file is the library's to read.
Bindings ==
  LET server == {<<1, "main">>, <<1, "ntf">>} IN
    IF ActsAsClient
    THEN IF options.clientConfig THEN {{}} ELSE {{<<libPair, "ntf">>}}
    ELSE IF options.serverConfig THEN {{}}
    ELSE IF options.contextConfig THEN {{}, server}
    ELSE {server}

\* Does somebody use what is at this endpoint?
InUse(e) == IF e[2] = "main" THEN endpoints[e[1]].main = "live" ELSE endpoints[e[1]].ntf

\* Slip: a switch the view does not carry yet is a wrong VID.
ClassifyEveryRefusal(a) == IF a \in {"SUCCESS", "threw"} THEN "proceed" ELSE "refuse"

\* classify_switch_probe; a throw is an environmental failure.
Classify(a) == IF a = "INVALID_OBJECT_ID" THEN "refuse" ELSE "proceed"

-----------------------------------------------------------------------------

TypeOK ==
  /\ options \in Options
  /\ libPair \in Pairs
  /\ endpoints \in [Pairs -> Endpoints]
  /\ changes \in 0 .. MaxChanges
  /\ pc \in {"start", "preflight", "initialize", "banner", "probe", "sweep",
             "closing", "done", "terminated"}
  /\ at \in 1 .. NumPairs + 1
  /\ found \in 0 .. NumPairs
  /\ announced \subseteq Pairs \X {"main", "ntf"}
  /\ taken \subseteq Pairs \X {"main", "ntf"}
  /\ session \in {"none", "open", "closed"}
  /\ vid \in Answers \cup {"unasked"}
  /\ report \in BOOLEAN
  /\ text \in BOOLEAN
  /\ document \in {"none", "whole", "part"}
  /\ strict \in BOOLEAN
  /\ exit \in 0 .. 3

Init ==
  /\ options \in Options
  /\ libPair \in Pairs
  /\ endpoints \in [Pairs -> Endpoints]
  /\ changes = 0
  /\ pc = "start"
  /\ at = 1
  /\ found = 0
  /\ announced = {}
  /\ taken = {}
  /\ session = "none"
  /\ vid = "unasked"
  /\ report = FALSE
  /\ text = FALSE
  /\ document = "none"
  /\ strict = FALSE
  /\ exit = 0

\* Another process binds, leaves or abandons an endpoint. Once the library is
\* initialized nothing here depends on it any more.
OthersAct ==
  /\ pc \in {"preflight", "initialize"}
  /\ changes < MaxChanges
  /\ \E p \in Pairs, e \in Endpoints : endpoints' = [endpoints EXCEPT ![p] = e]
  /\ changes' = changes + 1
  /\ UNCHANGED <<setting, pc, checks, taken, session, vid, output, ending>>

\* main returns.
Exit(code) == pc' = "done" /\ exit' = code /\ UNCHANGED strict

\* main returns once it has uninitialized the library.
CloseAndExit(code) == pc' = "closing" /\ exit' = code /\ UNCHANGED strict

-----------------------------------------------------------------------------
(* Before the library is touched.                                          *)

\* An argument is wrong, no number is where one must be, or two exclude each
\* other.
BadCommandLine ==
  /\ pc = "start"
  /\ Exit(2)
  /\ UNCHANGED <<setting, world, checks, taken, session, vid, output>>

\* The arguments are in order. With --help they end the run.
ParseCommandLine ==
  /\ pc = "start"
  /\ ~(options.list /\ options.json)
  /\ \/ pc' = "preflight" /\ UNCHANGED ending
     \/ Exit(0)
  /\ UNCHANGED <<setting, world, checks, taken, session, vid, output>>

SkipPreflight ==
  /\ pc = "preflight"
  /\ ~options.precheck \/ Relocated
  /\ pc' = "initialize"
  /\ UNCHANGED <<setting, world, checks, taken, session, vid, output, ending>>

Prechecks == pc = "preflight" /\ options.precheck /\ ~Relocated

\* Slip: a socket file is good enough.
TryPairByFile ==
  /\ Prechecks /\ options.client
  /\ at <= NumPairs
  /\ IF endpoints[at].main # "missing"
     THEN /\ found' = at
          /\ announced' = IF endpoints[at].ntf THEN {<<at, "ntf">>} ELSE {}
          /\ pc' = "initialize"
          /\ UNCHANGED at
     ELSE at' = at + 1 /\ UNCHANGED <<found, announced, pc>>
  /\ UNCHANGED <<setting, world, taken, session, vid, output, ending>>

\* Slip: a pair without a server is looked at again.
TryPairForever ==
  /\ Prechecks /\ options.client
  /\ at <= NumPairs
  /\ IF endpoints[at].main = "live"
     THEN /\ found' = at
          /\ announced' = IF endpoints[at].ntf THEN {<<at, "ntf">>} ELSE {}
          /\ pc' = "initialize"
     ELSE UNCHANGED <<found, announced, pc>>
  /\ UNCHANGED <<setting, world, at, taken, session, vid, output, ending>>

\* A client needs a server that listens: the first pair that has one is taken,
\* with a warning when its notification endpoint exists.
TryPair ==
  /\ Prechecks /\ options.client
  /\ at <= NumPairs
  /\ IF endpoints[at].main = "live"
     THEN /\ found' = at
          /\ announced' = IF endpoints[at].ntf THEN {<<at, "ntf">>} ELSE {}
          /\ pc' = "initialize"
          /\ UNCHANGED at
     ELSE at' = at + 1 /\ UNCHANGED <<found, announced, pc>>
  /\ UNCHANGED <<setting, world, taken, session, vid, output, ending>>

NoServer ==
  /\ Prechecks /\ options.client
  /\ at > NumPairs
  /\ Exit(1)
  /\ UNCHANGED <<setting, world, checks, taken, session, vid, output>>

\* Slip: only leftovers are warned about.
WarnServerOfLeftovers ==
  /\ Prechecks /\ ~options.client
  /\ announced' = IF endpoints[1].main = "leftover" THEN {<<1, "main">>} ELSE {}
  /\ pc' = "initialize"
  /\ UNCHANGED <<setting, world, at, found, taken, session, vid, output, ending>>

\* A server binds: what exists at its main endpoint is only warned about.
WarnServer ==
  /\ Prechecks /\ ~options.client
  /\ announced' = IF endpoints[1].main # "missing" THEN {<<1, "main">>} ELSE {}
  /\ pc' = "initialize"
  /\ UNCHANGED <<setting, world, at, found, taken, session, vid, output, ending>>

-----------------------------------------------------------------------------
(* The session with the library.                                           *)

\* sai_api_initialize: it binds its endpoints and succeeds, or fails or throws
\* before or after that.
Initialize ==
  /\ pc = "initialize"
  /\ \/ /\ pc' = "banner"
        /\ session' = "open"
        /\ \E bound \in Bindings : taken' = {e \in bound : InUse(e)}
        /\ UNCHANGED ending
     \/ /\ Exit(1)
        /\ \E bound \in Bindings \cup {{}} : taken' = {e \in bound : InUse(e)}
        /\ UNCHANGED session
  /\ UNCHANGED <<setting, world, checks, vid, output>>

\* Slip: the metadata inventory is printed whatever the format.
OpenSwitchApiAlwaysPrints ==
  /\ pc = "banner"
  /\ text' = TRUE
  /\ \/ pc' = "probe" /\ UNCHANGED ending
     \/ CloseAndExit(1)
  /\ UNCHANGED <<setting, world, checks, taken, session, vid, report, document>>

\* Banner and metadata inventory go to stdout unless that is kept for the JSON
\* document; the API version is advisory. Without the switch API, or without
\* the metadata of the attribute to probe, the run ends.
OpenSwitchApi ==
  /\ pc = "banner"
  /\ text' = ~options.json
  /\ \/ pc' = "probe" /\ UNCHANGED ending
     \/ CloseAndExit(1)
  /\ UNCHANGED <<setting, world, checks, taken, session, vid, report, document>>

\* Slip: the refusal returns at once and leaves the library initialized.
ProbeVidLeavesSession ==
  /\ pc = "probe"
  /\ vid' \in Answers
  /\ IF Classify(vid') = "refuse"
     THEN Exit(3)
     ELSE pc' = "sweep" /\ UNCHANGED ending
  /\ UNCHANGED <<setting, world, checks, taken, session, output>>

\* The VID is probed with one GET. Any verdict but "refuse" goes on, through
\* the timeout setting and the query of supported types, which cannot fail.
ProbeVid ==
  /\ pc = "probe"
  /\ vid' \in Answers
  /\ IF Classify(vid') = "refuse"
     THEN CloseAndExit(3)
     ELSE pc' = "sweep" /\ UNCHANGED ending
  /\ UNCHANGED <<setting, world, checks, taken, session, output>>

\* The JSON document or the one-line description: the run is a success then.
ReportAtOnce ==
  /\ pc = "sweep"
  /\ options.json \/ options.list
  /\ report' = TRUE
  /\ IF options.json
     THEN document' = "whole" /\ UNCHANGED text
     ELSE text' = TRUE /\ UNCHANGED document
  /\ CloseAndExit(0)
  /\ UNCHANGED <<setting, world, checks, taken, session, vid>>

\* The text report with all its sections, the probe and the verification.
ReportText ==
  /\ pc = "sweep"
  /\ ~options.json
  /\ ~options.list
  /\ report' = TRUE
  /\ text' = TRUE
  /\ pc' = "closing"
  /\ strict' = TRUE
  /\ UNCHANGED <<setting, world, checks, taken, session, vid, document, exit>>

\* Slip: the status is handed on as the exit code.
CloseWithStatus ==
  /\ pc = "closing"
  /\ session' = "closed"
  /\ pc' = "done"
  /\ \/ UNCHANGED exit
     \/ exit' = IF strict THEN 255 ELSE exit
  /\ UNCHANGED <<setting, world, checks, taken, vid, output, strict>>

\* sai_api_uninitialize. Its status matters after a text report only.
Close ==
  /\ pc = "closing"
  /\ session' = "closed"
  /\ pc' = "done"
  /\ \/ UNCHANGED exit
     \/ exit' = IF strict THEN 1 ELSE exit
  /\ UNCHANGED <<setting, world, checks, taken, vid, output, strict>>

\* sai_api_query and sai_api_uninitialize are called outside any try block,
\* here and in the probe and the verification a text report may include. The
\* process ends without flushing stdout: what was written may reach its reader,
\* in part or not at all.
UnguardedThrow ==
  /\ pc \in {"banner", "sweep", "closing"}
  /\ pc = "sweep" => ~options.json /\ ~options.list
  /\ pc' = "terminated"
  /\ text' \in {text, FALSE}
  /\ document' \in (IF document = "none" THEN {"none"} ELSE {"none", "part", "whole"})
  /\ UNCHANGED <<setting, world, checks, taken, session, vid, report, ending>>

Tool ==
  \/ BadCommandLine
  \/ ParseCommandLine
  \/ SkipPreflight
  \/ TryPair
  \/ NoServer
  \/ WarnServer
  \/ Initialize
  \/ OpenSwitchApi
  \/ ProbeVid
  \/ ReportAtOnce
  \/ ReportText
  \/ Close
  \/ UnguardedThrow

Next == Tool \/ OthersAct

\* One thread, and a library call returns or throws within the response timeout.
Fairness == WF_vars(Tool)

Spec == Init /\ [][Next]_vars /\ Fairness

-----------------------------------------------------------------------------
(* What a run promises.                                                    *)

\* Whoever calls the tool may go by its exit code. 3 means exactly that the VID
\* was called invalid, and then there is no report; no other answer to the probe
\* and no throw keeps a report back. The library was not touched when the code
\* is 2. After a JSON report or a description of the switch the code is 0. After
\* a text report it is 0 or, if the library could not be shut down, 1, which is
\* not what the README's table of exit codes says: see ExitTable.
ExitCodes ==
  pc = "done" =>
    /\ exit = 3 <=> vid = "INVALID_OBJECT_ID"
    /\ report <=> vid \notin {"unasked", "INVALID_OBJECT_ID"}
    /\ report /\ (options.json \/ options.list) => exit = 0
    /\ report => exit \in {0, 1}
    /\ exit = 2 => session = "none"

\* README, "Exit codes": 0 is "report produced", 1 is "SAI initialization /
\* transport-setup failure". So a run that produced its report does not end with
\* a 1.
ExitTable == pc = "done" /\ report => exit # 1

\* However the run ends of itself, it does not leave the library initialized.
SessionClosed == pc = "done" => session # "open"

\* In JSON mode stdout never carries a line of text, and it carries the whole
\* document at the end of a run that produced its report, nothing at the end of
\* one that did not. Only a run that is terminated by an unhandled exception may
\* leave a part of it.
OneDocument ==
  /\ text => ~options.json
  /\ document # "none" => options.json /\ report
  /\ options.json /\ report /\ pc # "terminated" => document = "whole"

\* The role is the one the command line names, and no endpoint changed.
Plain == options.override = "absent" /\ options.precheck /\ changes = 0

\* The preflight turns a client away exactly when nobody listens at any of the
\* built-in endpoints, and what it lets through has a listening server.
PreflightIsRight ==
  Plain /\ options.client /\ ~options.clientConfig =>
    /\ pc = "done" /\ exit = 1 /\ session = "none" /\ found = 0 =>
         \A p \in Pairs : endpoints[p].main # "live"
    /\ pc \notin {"start", "preflight", "done"} =>
         found \in Pairs /\ endpoints[found].main = "live"

\* Nobody loses an endpoint he is using without a warning having been printed
\* before: the server whose main endpoint is bound, the client whose
\* notification endpoint is bound. (A client preflight speaks of the pair it
\* found, which must be the one the library uses; the notification endpoint of
\* the server role is not looked at, and neither is anything when a context
\* configuration is given, although the library may then bind its default pair.)
TakenIsAnnounced ==
  Plain =>
    \A e \in taken : \/ e \in announced
                     \/ options.client /\ libPair # found
                     \/ ~options.client /\ e[2] = "ntf"
                     \/ ~options.client /\ options.contextConfig

\* Every run comes to an end.
RunEnds == <>(pc \in {"done", "terminated"})

\* README and the preflight's own advice: dropping --client is the same as
\* SAI_CAP_ENABLE_CLIENT=false, so that with it no run is turned away for want
\* of a server endpoint. The preflight goes by --client alone.
OverrideDropsClient ==
  options.override = "false" =>
    ~(pc = "done" /\ exit = 1 /\ session = "none" /\ at > NumPairs)

\* README: "Every SAI call is now wrapped in try/catch", so none ends the
\* process by an unhandled exception.
NoUnhandledException == pc # "terminated"

===============================================================================
