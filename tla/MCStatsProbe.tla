----------------------------- MODULE MCStatsProbe -----------------------------
(***************************************************************************)
(* StatsProbe with three counters, the last of them a range marker, and    *)
(* port lists of up to two ports. The port's declarations cover each case  *)
(* of the modes validation: nothing, READ alone, only READ_AND_CLEAR,      *)
(* both, only a bulk mode, two entries for one counter, a declared marker. *)
(***************************************************************************)
EXTENDS StatsProbe

LastIsMarker == {3}

R  == {"READ"}
C  == {"READ_AND_CLEAR"}
B  == {"BULK_READ"}

AFewDeclarations ==
  [t \in Types |->
     CASE t = "port" ->
            {{}, {<<1, R>>, <<2, C>>}, {<<1, R \cup C>>, <<2, B>>, <<3, R>>},
             {<<1, R>>, <<1, C>>}}
       [] t = "queue" -> {{<<2, R>>}}
       [] t = "ipg" -> {{<<1, B>>}}
       [] OTHER -> {{<<1, R>>, <<2, C>>}}]

UpToTwoPorts == {<<>>, <<"front">>, <<"cpu", "front">>}

===============================================================================
