---------------------------- MODULE MCJsonDocument ----------------------------
EXTENDS JsonDocument

\* Two control characters without a short escape.
Codes == ("0x01" :> <<"0", "1">>) @@ ("0x1f" :> <<"1", "f">>)

PlainChars == {"a", "n", "u", "0", "1", "f", ",", "0x80"}

\* One key is an ordinary name, one needs escaping.
TwoKeys == {<<"a">>, <<Quote, "n">>}

\* Every kind of character: an escape, what looks like one, a character that has
\* no short escape and one that needs none.
Strings == {<<Backslash, "n">>, <<Quote, "newline", ",", "0x1f", "0x80">>}

SomeScalars == {String(s) : s \in Strings} \cup {Number("7")}

===============================================================================
