------------------------------ MODULE JsonReader ------------------------------
(***************************************************************************)
(* A reader of JSON, from the first symbol of a text to the last: RFC 8259,*)
(* which every consumer of the document goes by. It is not part of the     *)
(* program. It keeps what it expects next, the containers that are open    *)
(* and the characters of the literal it is in. What a name that occurs     *)
(* twice means is not defined, so the text is refused.                     *)
(***************************************************************************)
EXTENDS JsonValue

\* An open container: its type, what is in it, the name of the member that comes
\* next, and the container around it.
Outside == [is |-> "none"]
Frame(type, val, name, around) ==
  [is |-> type, val |-> val, name |-> name, around |-> around]

Literal(expects, frame, naming, chars, hex) ==
  [expects |-> expects, frame |-> frame, naming |-> naming, chars |-> chars, hex |-> hex]
Reading(expects, frame) == Literal(expects, frame, FALSE, <<>>, <<>>)

Bad == Reading("nothing", Outside)

\* A value is complete.
Accept(frame, v) ==
  IF frame.is = "none" THEN Reading("end", v)
  ELSE IF frame.is = "array"
  THEN Reading("more", Frame("array", Append(frame.val, v), <<>>, frame.around))
  ELSE Reading("more", Frame("object", Append(frame.val, <<frame.name, v>>), <<>>,
                             frame.around))

Close(frame) == Accept(frame.around, [is |-> frame.is, val |-> frame.val])

\* The name of a member is complete.
Name(frame, chars) ==
  IF \E m \in DOMAIN frame.val : frame.val[m][1] = chars
  THEN Bad ELSE Reading("colon", Frame("object", frame.val, chars, frame.around))

\* One more character of a literal.
Take(s, c) == Literal("character", s.frame, s.naming, Append(s.chars, c), <<>>)

\* A value, or the end of an array that has none.
StepValue(s, c) ==
  IF c = Quote THEN Literal("character", s.frame, FALSE, <<>>, <<>>)
  ELSE IF c \in {"true", "false"} THEN Accept(s.frame, Bool(c = "true"))
  ELSE IF c = "null" THEN Accept(s.frame, Null)
  ELSE IF c = "[" THEN Reading("item", Frame("array", <<>>, <<>>, s.frame))
  ELSE IF c = "{" THEN Reading("member", Frame("object", <<>>, <<>>, s.frame))
  ELSE IF c = "]" /\ s.expects = "item" THEN Close(s.frame)
  ELSE IF c \in Numerals THEN Accept(s.frame, Number(c))
  ELSE Bad

\* A name, or the end of an object that has no member.
StepName(s, c) ==
  IF c = Quote THEN Literal("character", s.frame, TRUE, <<>>, <<>>)
  ELSE IF c = "}" /\ s.expects = "member" THEN Close(s.frame)
  ELSE Bad

\* Behind a value.
StepMore(s, c) ==
  IF c = "," THEN Reading(IF s.frame.is = "array" THEN "value" ELSE "name", s.frame)
  ELSE IF c = (IF s.frame.is = "array" THEN "]" ELSE "}") THEN Close(s.frame)
  ELSE Bad

StepCharacter(s, c) ==
  IF c = Quote
  THEN IF s.naming THEN Name(s.frame, s.chars) ELSE Accept(s.frame, String(s.chars))
  ELSE IF c = Backslash THEN Literal("escape", s.frame, s.naming, s.chars, <<>>)
  ELSE IF c \in Plain THEN Take(s, c)
  ELSE Bad

StepEscape(s, c) ==
  IF c \in {Quote, Backslash} THEN Take(s, c)
  ELSE IF c = "u" THEN Literal("hex", s.frame, s.naming, s.chars, <<>>)
  ELSE IF \E x \in DOMAIN Letter : Letter[x] = c
  THEN Take(s, CHOOSE x \in DOMAIN Letter : Letter[x] = c)
  ELSE Bad

\* Four digits, of which the codes of control characters have two.
StepHex(s, c) ==
  LET hex == Append(s.hex, c) IN
    IF Len(hex) < 4 THEN Literal("hex", s.frame, s.naming, s.chars, hex)
    ELSE IF \E x \in DOMAIN Code : hex = <<"0", "0", Code[x][1], Code[x][2]>>
    THEN Take(s, CHOOSE x \in DOMAIN Code : hex = <<"0", "0", Code[x][1], Code[x][2]>>)
    ELSE Bad

Step(s, c) ==
  IF s.expects \in {"value", "item"} THEN StepValue(s, c)
  ELSE IF s.expects \in {"name", "member"} THEN StepName(s, c)
  ELSE IF s.expects = "more" THEN StepMore(s, c)
  ELSE IF s.expects = "character" THEN StepCharacter(s, c)
  ELSE IF s.expects = "escape" THEN StepEscape(s, c)
  ELSE IF s.expects = "hex" THEN StepHex(s, c)
  ELSE IF s.expects = "colon" /\ c = ":" THEN Reading("value", s.frame)
  ELSE Bad

\* Where a text takes the reader.
After(s, text) ==
  LET f[k \in 0 .. Len(text)] == IF k = 0 THEN s ELSE Step(f[k - 1], text[k])
  IN  f[Len(text)]

\* A text is read as a whole.
Read(text) ==
  LET s == After(Reading("value", Outside), text) IN
    IF s.expects = "end" THEN s.frame ELSE [is |-> "bad"]

===============================================================================
