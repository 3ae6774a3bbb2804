------------------------------ MODULE MCLexer ------------------------------
(* Texts put together from lexemes and what may stand between them, and     *)
(* every short text over a few small alphabets.                             *)
EXTENDS Lexer
Chars(s) == [k \in 1..Len(s) |-> SubSeq(s, k, k)]
Sym(s)     == [text |-> Chars(s), token |-> <<s, 0>>]
Id(s)      == [text |-> Chars(s), token |-> <<"identifier", 0>>]
Num(s, v)  == [text |-> Chars(s), token |-> <<"integer", v>>]
Chr(s, v)  == [text |-> Chars(s), token |-> <<"char", v>>]
Lexemes ==
    {Sym(s) : s \in {"fn", "if", "i64", "-", "->", "=", "==", "<", "<=", "&&", "/", "*", "(", ";"}}
    \cup {Id(s) : s \in {"a", "fn_", "i64a", "true1", "_"}}
    \cup {Num("7", 7), Num("64", 64), Num("6i64", 6), Num("00i64", 0)}
    \cup {Chr("'a'", <<"a">>), Chr("'/'", <<"/">>), Chr("'\\''", <<"\\", "'">>), Chr("'''", <<"'">>)}
    \cup {[text |-> Chars("true"), token |-> <<"bool", 1>>]}

Gaps == {Chars(s) : s \in {" ", "\n", "//a\n", "// /*\n", "/**/", "/*/**/*/", "/* // */", "/*\n*/ ", "/***/"}}

(* Two lexemes that are read as something else when nothing is between.     *)
IsWord(x)   == x.token[1] \in Keywords \cup {"identifier", "bool"}
IsNumber(x) == x.token[1] = "integer"
Merge(x, y) ==
    LET last  == x.text[Len(x.text)]
        first == y.text[1]
    IN  \/ IsWord(x) /\ first \in Alnum
        \/ IsNumber(x) /\ "i" \notin ToSet(x.text) /\ first \in Digits
        \/ IsNumber(x) /\ "i" \notin ToSet(x.text) /\ IsPrefix(Chars("i64"), y.text)
        \/ Len(x.text) = 1 /\ last \o first \in {"->", "==", "<=", "//", "/*"}

Of(lexemes, text) == [text |-> text, written |-> [k \in DOMAIN lexemes |-> lexemes[k].token]]
Joined == {Of(<<x, y>>, x.text \o y.text) : <<x, y>> \in {p \in Lexemes \X Lexemes : ~Merge(p[1], p[2])}}
Apart  == {Of(<<x, y>>, x.text \o g \o y.text) : <<x, y, g>> \in
             {p \in Lexemes \X Lexemes \X Gaps : ~(p[1].text = Chars("/") /\ p[3][1] = "/")}}
Around == {Of(<<x>>, g \o x.text \o h) : x \in Lexemes \ {Sym("/")}, g, h \in Gaps}
AllOver(chars, n) == {[text |-> s, written |-> <<>>] : s \in UNION {[1..m -> chars] : m \in 0..n}}

MCSources == Joined \cup Apart \cup Around
             \cup AllOver({"/", "*", "\n", "a"}, 6) \cup AllOver({"'", "\\", "n", "\n", " "}, 5)
             \cup AllOver({"1", "9", "i", "6", "4", "_"}, 4) \cup AllOver({"=", "-", ">", "&", "|", "#", " "}, 4)
MCLetters == {"a", "b", "c", "d", "e", "f", "h", "i", "k", "l", "n", "o", "r", "t", "u", "w", "_"}
=============================================================================
