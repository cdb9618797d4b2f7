------------------------------- MODULE MCReport -------------------------------
(* A small metadata: a type with statistics, a plain and an enum attribute;  *)
(* one whose enum attribute tells pools apart; one without statistics.       *)
EXTENDS Report

ThreeTypes == <<<<"plain", "enum">>, <<"resource">>, <<"plain">>>>
FirstTwo   == {1, 2}
NamedAttrs == <<<<1, 2>>, Missing, <<2, 1>>>>

\* JSON looks at one more type for telemetry than the text does.
FocusTypes ==
  [capability |-> {1, 2}, statistics |-> {1, 2}, telemetry |-> {1},
   availability |-> {2, 3}]

SwitchLists ==
  [summary |-> <<"readable", "missing">>, readable |-> <<"readable", "pointer">>,
   legacy |-> <<"readable">>]

\* A filter matches nothing, one type or several.
FilterMatches == {{}, {2}, {1, 2, 3}}

\* Plain codes, a first and a later code of a range, and one nobody documents.
KnownStatuses ==
  {SUCCESS, NOT_SUPPORTED, NOT_IMPLEMENTED, RangeCode(5, 0), RangeCode(1, 7), RangeCode(7, 0)}

\* A plain code as well that status_name has no case for: INVALID_PORT_NUMBER.
AllStatuses == {SUCCESS, NOT_SUPPORTED, -9}

===============================================================================
