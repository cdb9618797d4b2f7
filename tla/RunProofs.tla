------------------------------- MODULE RunProofs -------------------------------
(***************************************************************************)
(* What Run guarantees for every number of endpoint pairs and every number *)
(* of changes others make to them. The types come first, then what each    *)
(* phase of a run may assume of the session, the VID probe and the output, *)
(* then what the preflight learnt of endpoints that did not change.        *)
(***************************************************************************)
EXTENDS Run, TLAPS

\* The variables of Run have the types its type invariant gives them.
THEOREM RunTypeCorrect == Spec => []TypeOK
<1>1. Init => TypeOK
  <2> SUFFICES ASSUME Init
               PROVE  TypeOK
    OBVIOUS
  <2>1. changes \in 0 .. MaxChanges /\ at \in 1 .. NumPairs + 1 /\ found \in 0 .. NumPairs
    BY RunAssumption DEF Init
  <2>2. document = "none" /\ exit \in 0 .. 3
    BY DEF Init
  <2>3. /\ options \in Options /\ libPair \in Pairs /\ endpoints \in [Pairs -> Endpoints]
        /\ announced = {} /\ taken = {} /\ vid = "unasked" /\ pc = "start" /\ session = "none"
        /\ report = FALSE /\ text = FALSE /\ strict = FALSE
    BY DEF Init
  <2>4. QED
    BY <2>1, <2>2, <2>3, Zenon DEF TypeOK
<1>2. TypeOK /\ [Next]_vars => TypeOK'
  <2> SUFFICES ASSUME TypeOK, [Next]_vars
               PROVE  TypeOK'
    OBVIOUS
  <2> USE RunAssumption DEF TypeOK, Pairs, setting, world, checks, output, ending
  <2>1. CASE OthersAct
    BY <2>1 DEF OthersAct
  <2>2. CASE BadCommandLine \/ ParseCommandLine \/ SkipPreflight \/ NoServer
    BY <2>2 DEF BadCommandLine, ParseCommandLine, SkipPreflight, NoServer, Exit
  <2>3. CASE TryPair
    BY <2>3 DEF TryPair
  <2>4. CASE WarnServer
    BY <2>4 DEF WarnServer
  <2>5. CASE Initialize
    <3>1. \A bound \in Bindings : bound \subseteq Pairs \X {"main", "ntf"}
      BY DEF Bindings
    <3>2. QED
      BY <2>5, <3>1 DEF Initialize, Exit
  <2>6. CASE OpenSwitchApi
    <3>1. text' \in BOOLEAN
      <4>1. text' = ~options.json
        BY <2>6 DEF OpenSwitchApi
      <4>2. QED
        BY <4>1
    <3>2. /\ UNCHANGED <<setting, world, checks, taken, session, vid, report, document, strict>>
          /\ \/ pc' = "probe" /\ exit' = exit
             \/ pc' = "closing" /\ exit' = 1
      BY <2>6, Zenon DEF OpenSwitchApi, CloseAndExit, ending, output, setting, world, checks
    <3>3. QED
      BY <3>1, <3>2
  <2>11. CASE ReportText
    BY <2>11 DEF ReportText
  <2>12. CASE Close
    <3>1. /\ UNCHANGED <<setting, world, checks, taken, vid, output, strict>>
          /\ pc' = "done" /\ session' = "closed"
          /\ exit' = exit \/ exit' = IF strict THEN 1 ELSE exit
      BY <2>12 DEF Close
    <3>2. exit' \in 0 .. 3
      BY <3>1
    <3>3. QED
      BY <3>1, <3>2
  <2>13. CASE UnguardedThrow
    <3>1. /\ UNCHANGED <<setting, world, checks, taken, session, vid, report, ending>>
          /\ pc' = "terminated" /\ document' \in {"none", "whole", "part"}
          /\ text' = text \/ text' = FALSE
      BY <2>13 DEF UnguardedThrow
    <3>2. text' \in BOOLEAN
      BY <3>1
    <3>3. QED
      BY <3>1, <3>2
  <2>7. CASE ProbeVid
    BY <2>7 DEF ProbeVid, CloseAndExit
  <2>8. CASE ReportAtOnce
    <3>1. /\ UNCHANGED <<setting, world, checks, taken, session, vid, strict>>
          /\ report' = TRUE /\ exit' = 0 /\ pc' = "closing"
          /\ document' \in {document, "whole"}
          /\ text' = TRUE \/ text' = text
      BY <2>8 DEF ReportAtOnce, CloseAndExit
    <3>2. document' \in {"none", "whole", "part"} /\ exit' \in 0 .. 3
      BY <3>1
    <3>3. text' \in BOOLEAN
      BY <3>1
    <3>4. QED
      BY <3>1, <3>2, <3>3
  <2>9. CASE UNCHANGED vars
    BY <2>9 DEF vars
  <2>10. QED
    BY <2>1, <2>2, <2>3, <2>4, <2>5, <2>6, <2>7, <2>8, <2>9, <2>11, <2>12, <2>13 DEF Next, Tool
<1>3. QED
  BY <1>1, <1>2, PTL DEF Spec

-----------------------------------------------------------------------------
(* The phases of a run.                                                    *)

\* Nothing was printed or reported yet, and nothing was decided about the end.
Silent == ~report /\ document = "none" /\ exit = 0 /\ ~strict

\* How a run that has opened the library may come to its end.
Concluded ==
  \/ vid = "unasked" /\ ~report /\ ~strict /\ exit = 1
  \/ vid = "INVALID_OBJECT_ID" /\ ~report /\ ~strict /\ exit = 3
  \/ /\ vid \notin {"unasked", "INVALID_OBJECT_ID"}
     /\ report
     /\ exit = 0 \/ (exit = 1 /\ strict)

Phases ==
  /\ pc \in {"start", "preflight", "initialize"} =>
       session = "none" /\ vid = "unasked" /\ Silent /\ ~text
  /\ pc \in {"banner", "probe"} => session = "open" /\ vid = "unasked" /\ Silent
  /\ pc = "sweep" => /\ session = "open"
                     /\ vid \notin {"unasked", "INVALID_OBJECT_ID"}
                     /\ Silent
  /\ pc = "closing" => session = "open" /\ Concluded
  /\ pc = "done" =>
       \/ session = "none" /\ vid = "unasked" /\ ~report /\ exit \in {0, 1, 2}
       \/ session = "closed" /\ Concluded
  /\ strict => ~options.json /\ ~options.list
  /\ OneDocument

THEOREM PhasesInvariant == Spec => []Phases
<1>1. Init => Phases
  BY DEF Init, Phases, Silent, OneDocument
<1>2. TypeOK /\ Phases /\ [Next]_vars => Phases'
  <2> SUFFICES ASSUME TypeOK, Phases, [Next]_vars
               PROVE  Phases'
    OBVIOUS
  <2> USE DEF Phases, Silent, OneDocument, Concluded,
              setting, world, checks, output, ending
  <2>1. CASE OthersAct
    BY <2>1 DEF OthersAct
  <2>2. CASE BadCommandLine \/ ParseCommandLine
    BY <2>2 DEF BadCommandLine, ParseCommandLine, Exit
  <2>3. CASE SkipPreflight \/ NoServer \/ WarnServer
    BY <2>3 DEF SkipPreflight, NoServer, WarnServer, Prechecks, Exit
  <2>4. CASE TryPair
    BY <2>4 DEF TryPair, Prechecks
  <2>5. CASE Initialize
    BY <2>5 DEF Initialize, Exit
  <2>6. CASE OpenSwitchApi
    <3>1. text' => ~options.json
      <4>1. text' = ~options.json
        BY <2>6 DEF OpenSwitchApi
      <4>2. QED
        BY <4>1
    <3>2. /\ UNCHANGED <<options, session, vid, report, document, strict>>
          /\ pc = "banner"
          /\ \/ pc' = "probe" /\ exit' = exit
             \/ pc' = "closing" /\ exit' = 1
      BY <2>6, Zenon DEF OpenSwitchApi, CloseAndExit, ending, output, setting, world, checks
    <3>3. QED
      BY <3>1, <3>2
  <2>7. CASE ProbeVid
    BY <2>7 DEF ProbeVid, CloseAndExit, Classify, Answers
  <2>8. CASE ReportAtOnce
    BY <2>8 DEF ReportAtOnce, CloseAndExit
  <2>9. CASE ReportText
    BY <2>9 DEF ReportText
  <2>10. CASE Close
    <3>1. /\ pc = "closing" /\ pc' = "done" /\ session' = "closed"
          /\ UNCHANGED <<options, vid, report, text, document, strict>>
          /\ exit' = exit \/ exit' = IF strict THEN 1 ELSE exit
      BY <2>10 DEF Close
    <3>2. strict => report
      BY <3>1
    <3>3. exit' = exit \/ (strict /\ exit' = 1)
      <4>1. CASE strict
        BY <3>1, <4>1
      <4>2. CASE ~strict
        BY <3>1, <4>2
      <4>3. QED
        BY <4>1, <4>2
    <3>4. QED
      BY <3>1, <3>2, <3>3
  <2>11. CASE UnguardedThrow
    <3>1. /\ UNCHANGED <<options, session, vid, report, strict, exit>>
          /\ pc' = "terminated" /\ (document = "none" => document' = "none")
          /\ text' = text \/ text' = FALSE
      BY <2>11 DEF UnguardedThrow
    <3>2. text' => text
      BY <3>1
    <3>3. QED
      BY <3>1, <3>2
  <2>12. CASE UNCHANGED vars
    BY <2>12 DEF vars
  <2>13. QED
    BY <2>1, <2>2, <2>3, <2>4, <2>5, <2>6, <2>7, <2>8, <2>9, <2>10, <2>11, <2>12
    DEF Next, Tool
<1>3. QED
  BY <1>1, <1>2, RunTypeCorrect, PTL DEF Spec

\* The exit code means what ExitCodes says of it, however the library answers,
\* fails or throws.
THEOREM ExitCodesMean == Spec => []ExitCodes
<1>1. TypeOK /\ Phases => ExitCodes
  BY DEF TypeOK, Phases, Concluded, ExitCodes, Answers
<1>2. QED
  BY <1>1, RunTypeCorrect, PhasesInvariant, PTL

\* Every return of main leaves the library as it should: never initialized, or
\* shut down again.
THEOREM SessionIsClosed == Spec => []SessionClosed
<1>1. Phases => SessionClosed
  BY DEF Phases, SessionClosed
<1>2. QED
  BY <1>1, PhasesInvariant, PTL

\* In JSON mode stdout carries the document and nothing else, whole unless an
\* unhandled exception ends the run.
THEOREM StdoutIsTheDocument == Spec => []OneDocument
<1>1. Phases => OneDocument
  BY DEF Phases
<1>2. QED
  BY <1>1, PhasesInvariant, PTL

-----------------------------------------------------------------------------
(* What the preflight knows.                                               *)

\* The part of Plain that is fixed, for a client and for a server that use the
\* built-in endpoints.
PlainClient == Plain /\ options.client /\ ~options.clientConfig
PlainServer ==
  Plain /\ ~options.client /\ ~options.serverConfig /\ ~options.contextConfig

\* What holds of the endpoints once a preflight has let the run go on.
Cleared ==
  /\ PlainClient => /\ found \in Pairs
                    /\ endpoints[found].main = "live"
                    /\ endpoints[found].ntf => <<found, "ntf">> \in announced
  /\ PlainServer => (endpoints[1].main = "live" => <<1, "main">> \in announced)

Known ==
  /\ pc \in {"start", "preflight"} =>
       found = 0 /\ (PlainClient => \A p \in 1 .. at - 1 : endpoints[p].main # "live")
  /\ pc \in {"start", "preflight", "initialize"} => taken = {}
  /\ pc \notin {"start", "preflight", "done"} => Cleared
  /\ PlainClient /\ pc = "done" /\ exit = 1 /\ session = "none" /\ found = 0 =>
       \A p \in Pairs : endpoints[p].main # "live"
  /\ TakenIsAnnounced

THEOREM KnownInvariant == Spec => []Known
<1>1. Init => Known
  BY DEF Init, Known, TakenIsAnnounced
<1>2. TypeOK /\ Phases /\ Known /\ [Next]_vars => Known'
  <2> SUFFICES ASSUME TypeOK, Phases, Known, [Next]_vars
               PROVE  Known'
    OBVIOUS
  <2> USE DEF setting, world, checks, output, ending, PlainClient, PlainServer, Plain
  <2>1. CASE OthersAct
    <3>1. pc' = pc /\ taken' = taken /\ found' = found /\ changes' = changes + 1
      BY <2>1 DEF OthersAct
    <3>2. changes' # 0
      BY <3>1 DEF TypeOK
    <3>3. QED
      BY <2>1, <3>1, <3>2 DEF OthersAct, Known, Cleared, TakenIsAnnounced
  <2>2. CASE BadCommandLine \/ ParseCommandLine
    BY <2>2 DEF BadCommandLine, ParseCommandLine, Exit, Known, TakenIsAnnounced
  <2>3. CASE SkipPreflight
    BY <2>3 DEF SkipPreflight, Relocated, Known, Cleared, TakenIsAnnounced
  <2>4. CASE NoServer
    <3>1. /\ pc = "preflight" /\ pc' = "done" /\ at > NumPairs
          /\ UNCHANGED <<options, libPair, endpoints, changes, at, found, announced, taken>>
      BY <2>4 DEF NoServer, Prechecks, Exit
    <3>2. Pairs \subseteq 1 .. at - 1
      BY <3>1, RunAssumption DEF TypeOK, Pairs
    <3>3. PlainClient => \A p \in Pairs : endpoints[p].main # "live"
      BY <3>1, <3>2 DEF Known
    <3>4. QED
      BY <3>1, <3>3 DEF Known, TakenIsAnnounced
  <2>5. CASE TryPair
    <3>1. at \in Pairs /\ pc = "preflight" /\ options.client /\ taken' = taken /\ taken = {}
      BY <2>5 DEF TryPair, Prechecks, TypeOK, Pairs, Known
    <3>2. CASE endpoints[at].main = "live"
      BY <2>5, <3>1, <3>2 DEF TryPair, Known, Cleared, TakenIsAnnounced
    <3>3. CASE endpoints[at].main # "live"
      <4>1. at' = at + 1 /\ pc' = pc /\ UNCHANGED <<found, endpoints, options, changes, announced>>
        BY <2>5, <3>3 DEF TryPair
      <4>2. \A p \in 1 .. at' - 1 : p = at \/ p \in 1 .. at - 1
        BY <4>1, <3>1, RunAssumption DEF Pairs
      <4>3. QED
        BY <3>1, <3>3, <4>1, <4>2 DEF Known, TakenIsAnnounced
    <3>4. QED
      BY <3>2, <3>3
  <2>6. CASE WarnServer
    BY <2>6 DEF WarnServer, Prechecks, Known, Cleared, TakenIsAnnounced
  <2>7. CASE Initialize
    <3>1. /\ pc = "initialize"
          /\ pc' \in {"banner", "done"}
          /\ \E bound \in Bindings \cup {{}} : taken' = {e \in bound : InUse(e)}
          /\ UNCHANGED <<options, libPair, endpoints, changes, at, found, announced>>
      BY <2>7 DEF Initialize, Exit
    <3>2. Cleared
      BY <3>1 DEF Known
    <3>3. Cleared'
      BY <3>1, <3>2 DEF Cleared
    <3>4. TakenIsAnnounced'
      <4> SUFFICES ASSUME Plain', NEW e \in taken'
                   PROVE  \/ e \in announced
                          \/ options.client /\ libPair # found
                          \/ ~options.client /\ e[2] = "ntf"
                          \/ ~options.client /\ options.contextConfig
        BY <3>1 DEF TakenIsAnnounced
      <4>1. Plain /\ InUse(e) /\ \E bound \in Bindings : e \in bound
        BY <3>1
      <4>2. ActsAsClient <=> options.client
        BY <4>1 DEF ActsAsClient, ProfileAnswer, TypeOK, Options
      <4>3. CASE options.client
        <5>1. ~options.clientConfig /\ e = <<libPair, "ntf">>
          BY <4>1, <4>2, <4>3 DEF Bindings
        <5>2. endpoints[libPair].ntf
          BY <4>1, <5>1 DEF InUse
        <5>3. QED
          BY <3>2, <4>1, <4>3, <5>1, <5>2 DEF Cleared
      <4>4. CASE ~options.client /\ ~options.contextConfig
        <5>1. ~options.serverConfig /\ e \in {<<1, "main">>, <<1, "ntf">>}
          BY <4>1, <4>2, <4>4 DEF Bindings
        <5>2. CASE e = <<1, "main">>
          <6>1. endpoints[1].main = "live"
            BY <4>1, <5>2 DEF InUse
          <6>2. QED
            BY <3>2, <4>1, <4>4, <5>1, <5>2, <6>1 DEF Cleared
        <5>3. CASE e = <<1, "ntf">>
          BY <4>4, <5>3
        <5>4. QED
          BY <5>1, <5>2, <5>3
      <4>5. QED
        BY <4>3, <4>4
    <3>5. 0 \notin Pairs
      BY DEF Pairs
    <3>6. QED
      BY <3>1, <3>2, <3>3, <3>4, <3>5 DEF Known, Cleared
  <2>8. CASE OpenSwitchApi \/ ProbeVid \/ ReportAtOnce \/ ReportText \/ Close \/ UnguardedThrow
    <3>1. /\ UNCHANGED <<options, libPair, endpoints, changes, at, found, announced, taken>>
          /\ pc \in {"banner", "probe", "sweep", "closing"}
          /\ pc' \notin {"start", "preflight", "initialize"}
          /\ pc' = "done" => session' = "closed"
      BY <2>8 DEF OpenSwitchApi, ProbeVid, ReportAtOnce, ReportText, Close, UnguardedThrow,
                  CloseAndExit
    <3>2. Cleared /\ TakenIsAnnounced
      BY <3>1 DEF Known
    <3>3. Cleared' /\ TakenIsAnnounced'
      BY <3>1, <3>2 DEF Cleared, TakenIsAnnounced
    <3>4. QED
      BY <3>1, <3>3 DEF Known
  <2>9. CASE UNCHANGED vars
    BY <2>9 DEF vars, Known, Cleared, TakenIsAnnounced
  <2>10. QED
    BY <2>1, <2>2, <2>3, <2>4, <2>5, <2>6, <2>7, <2>8, <2>9 DEF Next, Tool
<1>3. QED
  BY <1>1, <1>2, RunTypeCorrect, PhasesInvariant, PTL DEF Spec

\* A client is turned away exactly when no built-in endpoint has a listening
\* server.
THEOREM PreflightRight == Spec => []PreflightIsRight
<1>1. Known => PreflightIsRight
  BY DEF Known, Cleared, PreflightIsRight, PlainClient
<1>2. QED
  BY <1>1, KnownInvariant, PTL

\* An endpoint in use is not taken without a warning.
THEOREM NothingTakenSilently == Spec => []TakenIsAnnounced
<1>1. Known => TakenIsAnnounced
  BY DEF Known
<1>2. QED
  BY <1>1, KnownInvariant, PTL

-----------------------------------------------------------------------------
(* How much is left.                                                       *)

\* Steps the tool may still take: the pairs the preflight has not looked at, and
\* the sections of main.
Left ==
  CASE pc = "start" -> NumPairs + 7
    [] pc = "preflight" -> NumPairs + 7 - at
    [] pc = "initialize" -> 5
    [] pc = "banner" -> 4
    [] pc = "probe" -> 3
    [] pc = "sweep" -> 2
    [] pc = "closing" -> 1
    [] OTHER -> 0

\* A run winds down: every step of the tool leaves it less to do, and what other
\* processes do to the endpoints adds nothing. RunEnds rests on it.
THEOREM RunWindsDown ==
  Spec => /\ [](Left \in Nat)
          /\ [][(Tool => Left' < Left) /\ (OthersAct => Left' = Left)]_vars
<1>1. TypeOK => Left \in Nat
  BY RunAssumption DEF TypeOK, Left
<1>2. TypeOK /\ TypeOK' /\ Tool => Left' < Left
  <2> SUFFICES ASSUME TypeOK, TypeOK', Tool PROVE Left' < Left
    OBVIOUS
  <2>1. NumPairs \in Nat /\ at \in 1 .. NumPairs + 1 /\ at' \in 1 .. NumPairs + 1
    BY RunAssumption DEF TypeOK
  <2>2. CASE BadCommandLine \/ ParseCommandLine
    <3>1. pc = "start" /\ pc' \in {"preflight", "done"}
      BY <2>2 DEF BadCommandLine, ParseCommandLine, Exit
    <3>2. QED
      BY <2>1, <3>1 DEF Left
  <2>3. CASE SkipPreflight \/ WarnServer \/ NoServer
    <3>1. pc = "preflight" /\ pc' \in {"initialize", "done"}
      BY <2>3 DEF SkipPreflight, WarnServer, NoServer, Prechecks, Exit
    <3>2. QED
      BY <2>1, <3>1 DEF Left
  <2>4. CASE TryPair
    <3>1. /\ pc = "preflight" /\ at <= NumPairs
          /\ pc' = "initialize" \/ (pc' = pc /\ at' = at + 1)
      BY <2>4 DEF TryPair, Prechecks
    <3>2. QED
      BY <2>1, <3>1 DEF Left
  <2>5. CASE Initialize \/ OpenSwitchApi \/ ProbeVid \/ ReportAtOnce \/ ReportText
    <3>1. \/ pc = "initialize" /\ pc' \in {"banner", "done"}
          \/ pc = "banner" /\ pc' \in {"probe", "closing"}
          \/ pc = "probe" /\ pc' \in {"sweep", "closing"}
          \/ pc = "sweep" /\ pc' = "closing"
      BY <2>5, Zenon DEF Initialize, OpenSwitchApi, ProbeVid, ReportAtOnce, ReportText,
                         Exit, CloseAndExit
    <3>2. QED
      BY <3>1 DEF Left
  <2>6. CASE Close \/ UnguardedThrow
    <3>1. pc \in {"banner", "sweep", "closing"} /\ pc' \in {"done", "terminated"}
      BY <2>6, Zenon DEF Close, UnguardedThrow
    <3>2. QED
      BY <3>1 DEF Left
  <2>7. QED
    BY <2>2, <2>3, <2>4, <2>5, <2>6 DEF Tool
<1>3. OthersAct => Left' = Left
  BY DEF OthersAct, checks, Left
<1>4. QED
  BY <1>1, <1>2, <1>3, RunTypeCorrect, PTL DEF Spec

===============================================================================
