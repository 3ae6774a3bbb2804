------------------------------- MODULE Lexer -------------------------------
(***************************************************************************)
(* src/compiler/src/lexer/lexer.cpp: tokenize(), one step per turn of the  *)
(* loop of skip_whitespace_and_comments() and one per scan_token().  A     *)
(* source is a sequence of characters; a position of the lexer is pos_,    *)
(* which counts from 0, with line_ and column_, which count from 1.        *)
(***************************************************************************)
EXTENDS Naturals, FiniteSets, SequencesExt, FiniteSetsExt

CONSTANTS
    Sources,      \* what may be lexed: the text, with the tokens it was
                  \* written as, or <<>> where nothing is known of it
    Letters,      \* the letters of the alphabet, `_` among them
    MaxLiteral    \* bound: the largest integer literal (2^63 - 1 in the code)

VARIABLES source, written,
          here,     \* the position
          tokens,
          errs,     \* the diagnostics: code and offset
          ended,    \* tokenize() has added Eof
          turn      \* flips with every turn of a loop
lexerVars == <<source, written, here, tokens, errs, ended, turn>>

Nul    == "\\0"    \* what peek() returns behind the end
Spaces == {" ", "\n", "\t"}
Digits == {"0", "1", "2", "3", "4", "5", "6", "7", "8", "9"}
Digit  == [d \in Digits |-> CHOOSE n \in 0..9 : ToString(n) = d]
Alnum  == Letters \cup Digits

Start  == [pos |-> 0, line |-> 1, column |-> 1]
AtEnd(l)   == l.pos >= Len(source)
Peek(l, k) == IF l.pos + k < Len(source) THEN source[l.pos + k + 1] ELSE Nul

(* Mutant: a character is put back without its column. *)
PutBackPos(l) == [l EXCEPT !.pos = @ - 1]

Advance(l) == IF Peek(l, 0) = "\n" THEN [pos |-> l.pos + 1, line |-> l.line + 1, column |-> 1]
              ELSE [l EXCEPT !.pos = @ + 1, !.column = @ + 1]
PutBack(l) == [l EXCEPT !.pos = @ - 1, !.column = @ - 1]

RECURSIVE AdvanceTo(_, _), BlockComment(_, _)
AdvanceTo(l, p) == IF l.pos = p THEN l ELSE AdvanceTo(Advance(l), p)

(* Over all characters up to the first one outside the set. *)
Past(l, chars) ==
    AdvanceTo(l, Min({p \in l.pos..Len(source) : p = Len(source) \/ source[p + 1] \notin chars}))
Next2(l) == Advance(Advance(l))
Text(l, m) == SubSeq(source, l.pos + 1, Min({m.pos, Len(source)}))    \* substr()

-----------------------------------------------------------------------------
Opens(l)  == Peek(l, 0) = "/" /\ Peek(l, 1) = "*"
Closes(l) == Peek(l, 0) = "*" /\ Peek(l, 1) = "/"

(* Mutant: comments do not nest. *)
BlockCommentFlat(l, depth) ==
    CASE AtEnd(l) \/ depth = 0 -> [at |-> l, depth |-> depth]
      [] ~AtEnd(l) /\ depth > 0 /\ Closes(l) -> BlockComment(Next2(l), 0)
      [] OTHER -> BlockComment(Advance(l), depth)

(* Inside `depth` comments. *)
BlockComment(l, depth) ==
    CASE AtEnd(l) \/ depth = 0 -> [at |-> l, depth |-> depth]
      [] ~AtEnd(l) /\ depth > 0 /\ Opens(l)  -> BlockComment(Next2(l), depth + 1)
      [] ~AtEnd(l) /\ depth > 0 /\ Closes(l) -> BlockComment(Next2(l), depth - 1)
      [] OTHER -> BlockComment(Advance(l), depth)

(* Mutant: nothing of the comment is consumed. *)
LineCommentHere(l) == l

LineComment(l) ==
    AdvanceTo(l, Min({p \in l.pos..Len(source) : p = Len(source) \/ source[p + 1] = "\n"}))

Commented(l) == Peek(l, 0) = "/" /\ Peek(l, 1) \in {"/", "*"}
Blank(l)     == Peek(l, 0) \in Spaces \/ Commented(l)

-----------------------------------------------------------------------------
(* scan_token(): where it ends, what it found and what it reports. *)
Scanned(l, kind, value, codes) == [at |-> l, kind |-> kind, value |-> value, codes |-> codes]

Singles == {"+", "*", "/", "%", "(", ")", "{", "}", "[", "]", ";", ":", ",", "."}
Doubles == {"-", "=", "!", "<", ">", "&", "|"}
Second(c) == CASE c = "-" -> ">" [] c \in {"&", "|"} -> c [] OTHER -> "="

ScanDouble(l, c) ==
    CASE Peek(l, 0) = Second(c)  -> Scanned(Advance(l), c \o Second(c), 0, {})
      [] c \in {"&", "|"} /\ Peek(l, 0) # Second(c) -> Scanned(l, "invalid", 0, {"E0002"})
      [] OTHER -> Scanned(l, c, 0, {})

(* Every keyword, as its spelling: the kind of a word is the word itself.   *)
Keywords == {"fn", "let", "mut", "if", "else", "while", "loop", "break", "continue", "return",
             "true", "false", "i32", "i64", "bool", "char"}
Spelled(chars) == FoldLeft(\o, "", chars)
ScanWord(l) ==
    LET end  == Past(l, Alnum)
        word == Spelled(Text(l, end))
    IN  CASE word \in {"true", "false"} -> Scanned(end, "bool", IF word = "true" THEN 1 ELSE 0, {})
          [] word \in Keywords \ {"true", "false"} -> Scanned(end, word, 0, {})
          [] OTHER -> Scanned(end, "identifier", 0, {})

ScanInteger(l) ==
    LET digits == Past(l, Digits)
        suffix == <<Peek(digits, 0), Peek(digits, 1), Peek(digits, 2)>> = <<"i", "6", "4">>
        value  == FoldLeft(LAMBDA n, d : IF n > MaxLiteral THEN n ELSE n * 10 + Digit[d], 0, Text(l, digits))
        end    == IF suffix THEN Advance(Next2(digits)) ELSE digits
    IN  IF value > MaxLiteral THEN Scanned(end, "integer", 0, {"E0004"})
        ELSE Scanned(end, "integer", value, {})

Escapes == {"n", "t", "r", "0", "\\", "'"}
ScanChar(l) ==
    LET open    == Advance(l)
        escaped == Peek(open, 0) = "\\"
        esc     == Peek(open, 1)
        close   == IF escaped THEN Next2(open) ELSE Advance(open)
        value   == CASE escaped /\ esc \in Escapes    -> <<"\\", esc>>
                     [] escaped /\ esc \notin Escapes -> <<"?">>
                     [] OTHER -> <<Peek(open, 0)>>
        unknown == IF escaped /\ esc \notin Escapes THEN {"E0006"} ELSE {}
    IN  CASE AtEnd(open) \/ Peek(open, 0) = "\n" -> Scanned(open, "invalid", 0, {"E0005"})
          [] ~AtEnd(open) /\ Peek(open, 0) # "\n" /\ Peek(close, 0) = "'" ->
               Scanned(Advance(close), "char", value, unknown)
          [] OTHER -> Scanned(close, "char", value, unknown \cup {"E0005"})

ScanToken(l) ==
    LET c    == Peek(l, 0)
        next == Advance(l)
    IN  CASE c \in Singles -> Scanned(next, c, 0, {})
          [] c \in Doubles -> ScanDouble(next, c)
          [] c = "'"       -> ScanChar(PutBack(next))
          [] c \in Digits  -> ScanInteger(PutBack(next))
          [] c \in Letters -> ScanWord(PutBack(next))
          [] OTHER         -> Scanned(next, "invalid", 0, {"E0003"})

-----------------------------------------------------------------------------
Init == /\ \E s \in Sources : source = s.text /\ written = s.written
        /\ here = Start /\ tokens = <<>> /\ errs = {} /\ ended = FALSE /\ turn = 0

SkipSpace ==
    /\ Peek(here, 0) \in Spaces
    /\ here' = Advance(here)
    /\ turn' = 1 - turn
    /\ UNCHANGED <<source, written, tokens, errs, ended>>

SkipLineComment ==
    /\ Peek(here, 0) = "/" /\ Peek(here, 1) = "/"
    /\ here' = LineComment(here)
    /\ turn' = 1 - turn
    /\ UNCHANGED <<source, written, tokens, errs, ended>>

SkipBlockComment ==
    /\ Opens(here)
    /\ LET c == BlockComment(Next2(here), 1)
       IN  /\ here' = c.at
           /\ errs' = errs \cup (IF c.depth > 0 THEN {<<"E0001", here.pos>>} ELSE {})
    /\ turn' = 1 - turn
    /\ UNCHANGED <<source, written, tokens, ended>>

AddToken ==
    /\ ~AtEnd(here) /\ ~Blank(here)
    /\ LET t == ScanToken(here)
       IN  /\ here' = t.at
           /\ errs' = errs \cup {<<code, here.pos>> : code \in t.codes}
           /\ tokens' = Append(tokens, [kind |-> t.kind, lexeme |-> Text(here, t.at),
                                        value |-> t.value, location |-> here])
    /\ turn' = 1 - turn
    /\ UNCHANGED <<source, written, ended>>

AddEof ==
    /\ AtEnd(here) /\ ~ended
    /\ tokens' = Append(tokens, [kind |-> "eof", lexeme |-> <<>>, value |-> 0, location |-> here])
    /\ ended' = TRUE
    /\ turn' = 1 - turn
    /\ UNCHANGED <<source, written, here, errs>>

Next == SkipSpace \/ SkipLineComment \/ SkipBlockComment \/ AddToken \/ AddEof

(* The loops go on turning, whether or not a turn gets anywhere. *)
Turns == ~ended /\ turn' = 1 - turn
Spec  == Init /\ [][Next]_lexerVars /\ WF_turn(Turns)

-----------------------------------------------------------------------------
(* Every source is lexed to its end: no turn of the loops consumes nothing. *)
EventuallyLexed == <>ended

(* README.md:45: line, column and offset of every token are those of its    *)
(* first character, and its lexeme is the text there, also behind comments  *)
(* and after what was put back.                                             *)
Breaks(p) == {q \in 1..Len(source) : q <= p /\ source[q] = "\n"}
TrueLocations ==
    \A k \in DOMAIN tokens :
        LET at == tokens[k].location
            b  == Breaks(at.pos)
        IN  /\ at.line = Cardinality(b) + 1
            /\ at.column = at.pos - (IF b = {} THEN 0 ELSE Max(b)) + 1
            /\ tokens[k].lexeme = SubSeq(source, at.pos + 1, at.pos + Len(tokens[k].lexeme))
            /\ k > 1 => at.pos >= tokens[k - 1].location.pos + Len(tokens[k - 1].lexeme)

(* A text is read as the tokens it was written as, whatever blanks and      *)
(* comments stand between them, and as nothing else: the longest token that *)
(* can be read is, and no longer one.                                       *)
ReadAsWritten ==
    ended /\ written # <<>> =>
        /\ errs = {}
        /\ [k \in DOMAIN tokens |-> <<tokens[k].kind, tokens[k].value>>]
             = Append(written, <<"eof", 0>>)
=============================================================================
