------------------------------- MODULE JsonValue -------------------------------
(***************************************************************************)
(* The JSON values of the report and their text (json_value.h).            *)
(*                                                                         *)
(* A string is a sequence of characters, because escaping is about them; a *)
(* numeral is a symbol of its own, and so are true, false and null. The    *)
(* blanks and line breaks between the symbols are left out, a reader skips *)
(* them. Values nest up to a bound; what is written of a value does not    *)
(* depend on it.                                                           *)
(***************************************************************************)
EXTENDS Naturals, Sequences, SequencesExt

CONSTANTS
  Plain,      \* characters that are written as they are
  Code,       \* [control character without a short escape -> its hex digits]
  Numerals,   \* numbers, each a symbol
  MaxDepth    \* how deep values nest (a bound)

Quote     == "\""
Backslash == "\\"

\* Characters below 0x20 with a short escape, by its letter.
Letter == [backspace |-> "b", formfeed |-> "f", newline |-> "n",
           return |-> "r", tab |-> "t"]

Control == DOMAIN Letter \cup DOMAIN Code
Chars   == Plain \cup {Quote, Backslash} \cup Control

\* What a reader meets where a value, a name or a separator is expected.
Symbols == {Quote, "[", "]", "{", "}", ",", ":", "true", "false", "null"}

ASSUME JsonAssumption ==
  /\ Plain \cap ({Quote, Backslash} \cup Control) = {}
  /\ DOMAIN Code \cap ({Quote, Backslash} \cup DOMAIN Letter) = {}
  /\ \A c \in DOMAIN Code : Code[c] \in Seq(Plain) /\ Len(Code[c]) = 2
  /\ \A c, d \in DOMAIN Code : Code[c] = Code[d] => c = d
  /\ Numerals \cap Symbols = {}
  /\ MaxDepth \in Nat \ {0}

-----------------------------------------------------------------------------
(* Values: the type of a value and what is in it.                          *)

String(chars)  == [is |-> "string", val |-> chars]
Number(digits) == [is |-> "number", val |-> digits]
Bool(b)        == [is |-> "bool", val |-> b]
Null           == [is |-> "null", val |-> <<>>]
Array(items)   == [is |-> "array", val |-> items]
Object(members) == [is |-> "object", val |-> members]

EmptyArray  == Array(<<>>)
EmptyObject == Object(<<>>)

Leaves == {Null} \cup [is : {"bool"}, val : BOOLEAN]
            \cup [is : {"number"}, val : Numerals] \cup [is : {"string"}, val : Seq(Chars)]

\* No name occurs twice.
NamesDiffer(members) ==
  \A m, n \in DOMAIN members : members[m][1] = members[n][1] => m = n

Members(S) == {members \in Seq(Seq(Chars) \X S) : NamesDiffer(members)}

\* The values that nest up to a depth.
Values[d \in 0 .. MaxDepth] ==
  IF d = 0 THEN Leaves
  ELSE Leaves \cup [is : {"array"}, val : Seq(Values[d - 1])]
              \cup [is : {"object"}, val : Members(Values[d - 1])]

push(array, value) == [array EXCEPT !.val = Append(@, value)]

\* Insert or overwrite a member; one that is there keeps its place.
set(object, key, value) ==
  IF \E m \in DOMAIN object.val : object.val[m][1] = key
  THEN [object EXCEPT !.val =
          [m \in DOMAIN @ |-> IF @[m][1] = key THEN <<key, value>> ELSE @[m]]]
  ELSE [object EXCEPT !.val = Append(@, <<key, value>>)]

-----------------------------------------------------------------------------
(* Writing.                                                                *)

\* Slip: only the quote is escaped.
EscapeQuoteOnly(c) == IF c = Quote THEN <<Backslash, c>> ELSE <<c>>

EscapeChar(c) ==
  IF c \in {Quote, Backslash} THEN <<Backslash, c>>
  ELSE IF c \in DOMAIN Letter THEN <<Backslash, Letter[c]>>
  ELSE IF c \in DOMAIN Code THEN <<Backslash, "u", "0", "0", Code[c][1], Code[c][2]>>
  ELSE <<c>>

json_escape(chars) == FlattenSeq([i \in DOMAIN chars |-> EscapeChar(chars[i])])

Quoted(chars) == <<Quote>> \o json_escape(chars) \o <<Quote>>

\* The parts, a comma after each but the last.
Listed(parts) ==
  FlattenSeq([i \in DOMAIN parts |->
                IF i = Len(parts) THEN parts[i] ELSE Append(parts[i], ",")])

\* A value, given the texts of what is in it.
Node(v, texts) ==
  IF v.is = "string" THEN Quoted(v.val)
  ELSE IF v.is = "bool" THEN <<IF v.val THEN "true" ELSE "false">>
  ELSE IF v.is = "number" THEN <<v.val>>
  ELSE IF v.is = "null" THEN <<"null">>
  ELSE IF v.is = "array"
  THEN <<"[">> \o Listed([i \in DOMAIN v.val |-> texts[v.val[i]]]) \o <<"]">>
  ELSE <<"{">> \o Listed([m \in DOMAIN v.val |->
                            Quoted(v.val[m][1]) \o <<":">> \o texts[v.val[m][2]]])
               \o <<"}">>

\* The texts of the values that nest up to a depth.
Texts[d \in 0 .. MaxDepth] ==
  [v \in Values[d] |-> Node(v, IF d = 0 THEN <<>> ELSE Texts[d - 1])]

write(v) == Texts[MaxDepth][v]

===============================================================================
