------------------------------- MODULE Lexer -------------------------------
(***************************************************************************)
(* tokenize() of lexer.cpp: a ProgramText, that is a text with the index,  *)
(* line and column of the current character, and the tokens made so far.   *)
(*                                                                         *)
(* One action is one turn of the loop of tokenize(), with the blanks it    *)
(* skips at its end, or one turn of the loop of get_string_literal().      *)
(* Indexes count from 1, so that done() is idx = End.  Characters are      *)
(* themselves, but for the three blanks that have names here, "NL", "CR"   *)
(* and "TAB".                                                              *)
(***************************************************************************)
EXTENDS Token, Integers, Sequences, FiniteSets

CONSTANTS
  Texts,                \* the programs
  IntMax                \* the greatest int stoi() returns

Quote == "\""
Backslash == "\\"
Underscore == "_"

Lower == {"a", "b", "c", "d", "e", "f", "g", "h", "i", "j", "k", "l", "m", "n", "o", "p", "q",
          "r", "s", "t", "u", "v", "w", "x", "y", "z"}
Upper == {"A", "B", "C", "D", "E", "F", "G", "H", "I", "J", "K", "L", "M", "N", "O", "P", "Q",
          "R", "S", "T", "U", "V", "W", "X", "Y", "Z"}
Alpha        == Lower \union Upper
Octal        == {"0", "1", "2", "3", "4", "5", "6", "7"}
Numeric      == Octal \union {"8", "9"}
Alphanumeric == Alpha \union Numeric
Whitespace   == {" ", "TAB", "NL", "CR"}
Punctuation  == {"(", ")", "[", "]", "{", "}", ";", ","}
Symbols      == {"+", "-", "*", "/", "%", "!", "&", "|", "^", "<", ">", "=", ":", ".", "#", "$",
                 Underscore, Quote, Backslash}
Char == Alphanumeric \union Whitespace \union Punctuation \union Symbols

ASSUME TextsAssumption == Texts \subseteq Seq(Char)
ASSUME IntMaxAssumption == IntMax \in Nat

VARIABLES
  text,                 \* stream
  idx, line_num, col_num,
  tokens,               \* with at, the index of the first character, a history
  open,                 \* what get_string_literal() has of the token it reads
  status                \* "lexing", "string", "lexed" or "error" (AlbatrossError)

vars == <<text, idx, line_num, col_num, tokens, open, status>>

End == Len(text) + 1
CharAt(i) == IF i < End THEN text[i] ELSE "none"     \* -1 at the end
Cur  == CharAt(idx)
Peek == CharAt(idx + 1)
Slice(from, end) == SubSeq(text, from, end - 1)

-----------------------------------------------------------------------------
(* advance_char() asks for the character that follows when it has moved    *)
(* on already, so that a CR ends a line if the second character behind it  *)
(* is a newline.                                                           *)
EndsLineEarly(i) ==                    \* mutant: peek() before idx++
  text[i] = "NL" \/ (text[i] = "CR" /\ CharAt(i + 1) = "NL")

EndsLine(i) == text[i] = "NL" \/ (text[i] = "CR" /\ CharAt(i + 2) = "NL")

LinesEnded(from, end) == {i \in from .. end - 1 : EndsLine(i)}

MoveToFromZero(end) ==                 \* mutant: columns count from 0 after a line end
  LET ended == LinesEnded(idx, end)
  IN  /\ idx' = end
      /\ line_num' = line_num + Cardinality(ended)
      /\ \/ ended = {} /\ col_num' = col_num + (end - idx)
         \/ \E last \in ended : (\A i \in ended : i <= last) /\ col_num' = end - last - 1

(* Advance to the character at end.                                        *)
MoveTo(end) ==
  LET ended == LinesEnded(idx, end)
  IN  /\ idx' = end
      /\ line_num' = line_num + Cardinality(ended)
      /\ \/ ended = {} /\ col_num' = col_num + (end - idx)
         \/ \E last \in ended : (\A i \in ended : i <= last) /\ col_num' = end - last

(* The loops that advance while they see characters of a set stop at end.  *)
Run(from, end, chars) ==
  /\ \A i \in from .. end - 1 : text[i] \in chars
  /\ CharAt(end) \notin chars

SkipWhitespace(from) == \E end \in from .. End : Run(from, end, Whitespace) /\ MoveTo(end)

NewToken(type, value) ==
  [type |-> type, value |-> value, at |-> idx, line_num |-> line_num, col_num |-> col_num]

(* The token ends before end, and so does this turn of the loop but for    *)
(* the blanks.                                                             *)
Push(token, end) ==
  /\ tokens' = Append(tokens, token)
  /\ SkipWhitespace(end)
  /\ UNCHANGED <<text, open, status>>

(* An AlbatrossError at the character at end.                              *)
ThrowAt(end) ==
  /\ MoveTo(end)
  /\ status' = "error"
  /\ UNCHANGED <<text, tokens, open>>

Lexing == status = "lexing" /\ idx < End

-----------------------------------------------------------------------------
KeywordMap ==
  [w \in {<<"v", "a", "r">>, <<"i", "f">>, <<"e", "l", "s", "e">>, <<"w", "h", "i", "l", "e">>,
          <<"r", "e", "t", "u", "r", "n">>, <<"o", "t", "h", "e", "r", "w", "i", "s", "e">>,
          <<"r", "e", "p", "e", "a", "t">>, <<"f", "u", "n">>, <<"i", "n", "t">>,
          <<"s", "t", "r", "i", "n", "g">>, <<"c", "h", "a", "r">>, <<"v", "o", "i", "d">>} |->
     CASE w = <<"v", "a", "r">>                -> "KeywordVar"
       [] w = <<"i", "f">>                     -> "KeywordIf"
       [] w = <<"e", "l", "s", "e">>           -> "KeywordElse"
       [] w = <<"w", "h", "i", "l", "e">>      -> "KeywordWhile"
       [] w = <<"r", "e", "t", "u", "r", "n">> -> "KeywordReturn"
       [] w = <<"o", "t", "h", "e", "r", "w", "i", "s", "e">> -> "KeywordOtherwise"
       [] w = <<"r", "e", "p", "e", "a", "t">> -> "KeywordRepeat"
       [] w = <<"f", "u", "n">>                -> "KeywordFun"
       [] OTHER                                -> "TypeName"]

WordType(w) == IF w \in DOMAIN KeywordMap THEN KeywordMap[w] ELSE "Identifier"

WordChars == Alphanumeric \union {Underscore}

GetSymbol ==
  /\ Lexing /\ Cur \in Alpha
  /\ \E end \in idx .. End :
       /\ Run(idx, end, WordChars)
       /\ Push(NewToken(WordType(Slice(idx, end)), Slice(idx, end)), end)

-----------------------------------------------------------------------------
DigitValue == [c \in Numeric \union {"a", "b", "c", "d", "e", "f", "A", "B", "C", "D", "E", "F"} |->
  CASE c = "0" -> 0 [] c = "1" -> 1 [] c = "2" -> 2 [] c = "3" -> 3 [] c = "4" -> 4
    [] c = "5" -> 5 [] c = "6" -> 6 [] c = "7" -> 7 [] c = "8" -> 8 [] c = "9" -> 9
    [] c \in {"a", "A"} -> 10 [] c \in {"b", "B"} -> 11 [] c \in {"c", "C"} -> 12
    [] c \in {"d", "D"} -> 13 [] c \in {"e", "E"} -> 14 [] c \in {"f", "F"} -> 15]

Digits(base) == {c \in DOMAIN DigitValue : DigitValue[c] < base}

(* stoi() of the digits among s; -1 stands for invalid_argument, and what  *)
(* is above IntMax is out_of_range.                                        *)
Number(s, base) ==
  LET value[n \in 0 .. Len(s)] ==
        IF n = 0 THEN 0
        ELSE IF s[n] = Underscore THEN value[n - 1]
        ELSE value[n - 1] * base + DigitValue[s[n]]
  IN  IF s = <<>> THEN -1 ELSE value[Len(s)]

(* The turn of get_numeric_literal() over the digits that begin at from.   *)
GetDigitsUnchecked(from, base) ==      \* mutant: the digits are not checked
  \E end \in from .. End :
    /\ Run(from, end, Digits(base) \union {Underscore})
    /\ IF Number(Slice(from, end), base) \notin 0 .. IntMax
       THEN ThrowAt(end)
       ELSE Push(NewToken("IntLiteral", Number(Slice(from, end), base)), end)

GetDigits(from, base) ==
  \E end \in from .. End :
    /\ Run(from, end, Digits(base) \union {Underscore})
    /\ IF CharAt(end) \in Alphanumeric \/ Number(Slice(from, end), base) \notin 0 .. IntMax
       THEN ThrowAt(end)
       ELSE Push(NewToken("IntLiteral", Number(Slice(from, end), base)), end)

GetNumericLiteral ==
  /\ Lexing
  /\ Cur \in Numeric \/ (Cur = "." /\ Peek \in Numeric)
  /\ LET from == IF Cur = "0" /\ Peek = "x" THEN idx + 2 ELSE idx
         base == IF Cur # "0" THEN 10 ELSE IF Peek = "x" THEN 16 ELSE 8
     IN  IF CharAt(from) = Underscore THEN ThrowAt(from) ELSE GetDigits(from, base)

-----------------------------------------------------------------------------
PunctuationType == [c \in Punctuation |->
  CASE c = "(" -> "Lparen" [] c = ")" -> "Rparen" [] c = "{" -> "Lcurl" [] c = "}" -> "Rcurl"
    [] c = "[" -> "Lbracket" [] c = "]" -> "Rbracket" [] c = ";" -> "Semicolon"
    [] c = "," -> "Comma"]

GetPunctuation ==
  /\ Lexing /\ Cur \in Punctuation
  /\ Push(NewToken(PunctuationType[Cur], <<Cur>>), idx + 1)

OneChar == [c \in {"+", "-", "*", "/", "%", "!", "&", "|", "^", "<", ">"} |->
  CASE c = "+" -> "OpPlus" [] c = "-" -> "OpMinus" [] c = "*" -> "OpTimes" [] c = "/" -> "OpDiv"
    [] c = "%" -> "OpRem" [] c = "!" -> "OpNot" [] c = "&" -> "OpBand" [] c = "|" -> "OpBor"
    [] c = "^" -> "OpXor" [] c = "<" -> "OpLt" [] c = ">" -> "OpGt"]

TwoChars == [p \in {<<"&", "&">>, <<"|", "|">>, <<"<", "=">>, <<"<", ">">>, <<">", "=">>,
                    <<"=", "=">>, <<":", "=">>} |->
  CASE p = <<"&", "&">> -> "OpAnd" [] p = <<"|", "|">> -> "OpOr" [] p = <<"<", "=">> -> "OpLe"
    [] p = <<"<", ">">> -> "OpNe" [] p = <<">", "=">> -> "OpGe" [] p = <<"=", "=">> -> "OpEq"
    [] p = <<":", "=">> -> "Assign"]

(* What no other branch of tokenize() takes: neither a digit nor a point   *)
(* before one, a quote, a comment, punctuation or a letter.                *)
NotOther ==
  /\ Cur \notin Numeric \union Punctuation \union Alpha \union {Quote, "#"}
  /\ ~ (Cur = "." /\ Peek \in Numeric)

GetOperatorPeek ==                     \* mutant: one character is looked at and not consumed
  /\ Lexing /\ NotOther
  /\ IF <<Cur, Peek>> \in DOMAIN TwoChars
     THEN Push(NewToken(TwoChars[<<Cur, Peek>>], <<Cur, Peek>>), idx + 2)
     ELSE IF Cur \in DOMAIN OneChar
     THEN Push(NewToken(OneChar[Cur], <<Cur>>), idx)
     ELSE ThrowAt(idx)

GetOperator ==
  /\ Lexing /\ NotOther
  /\ IF <<Cur, Peek>> \in DOMAIN TwoChars
     THEN Push(NewToken(TwoChars[<<Cur, Peek>>], <<Cur, Peek>>), idx + 2)
     ELSE IF Cur \in DOMAIN OneChar
     THEN Push(NewToken(OneChar[Cur], <<Cur>>), idx + 1)
     ELSE ThrowAt(idx)

-----------------------------------------------------------------------------
(* A comment ends with its line, or at a CR that is not the end of a line. *)
SkipComment ==
  /\ Lexing /\ Cur = "#"
  /\ \E stop \in idx + 1 .. End :
       /\ Run(idx + 1, stop, Char \ {"NL", "CR"})
       /\ SkipWhitespace(IF CharAt(stop) = "NL" THEN stop + 1
                         ELSE IF CharAt(stop) = "CR" /\ CharAt(stop + 1) = "NL" THEN stop + 2
                         ELSE stop)
  /\ UNCHANGED <<text, tokens, open, status>>

-----------------------------------------------------------------------------
(* get_string_literal().                                                   *)

OpenString ==
  /\ Lexing /\ Cur = Quote
  /\ open' = NewToken("StrLiteral", <<>>)
  /\ MoveTo(idx + 1)
  /\ status' = "string"
  /\ UNCHANGED <<text, tokens>>

InString == status = "string" /\ Cur # Quote /\ idx < End

Read(c, end) ==
  /\ open' = [open EXCEPT !.value = Append(@, c)]
  /\ MoveTo(end)
  /\ UNCHANGED <<text, tokens, status>>

Escapes == [c \in {"n", "t", Backslash, Quote} |-> CASE c = "n" -> "NL" [] c = "t" -> "TAB" [] OTHER -> c]

ReadEscape ==
  /\ InString /\ Cur = Backslash
  /\ IF Peek \in DOMAIN Escapes THEN Read(Escapes[Peek], idx + 2) ELSE ThrowAt(idx)

ReadCharAny ==                         \* mutant: a newline may stand in a string
  InString /\ Cur # Backslash /\ Read(Cur, idx + 1)

ReadChar ==
  /\ InString /\ Cur # Backslash
  /\ IF Cur = "NL" THEN ThrowAt(idx) ELSE Read(Cur, idx + 1)

CloseString ==
  /\ status = "string" /\ Cur = Quote
  /\ tokens' = Append(tokens, open)
  /\ SkipWhitespace(idx + 1)
  /\ status' = "lexing"
  /\ UNCHANGED <<text, open>>

NoMatchingQuote == status = "string" /\ idx = End /\ ThrowAt(idx)

-----------------------------------------------------------------------------
NoEof ==                               \* mutant: the deque ends with the last token of the text
  /\ status = "lexing" /\ idx = End
  /\ status' = "lexed"
  /\ UNCHANGED <<text, idx, line_num, col_num, open, tokens>>

PushEof ==
  /\ status = "lexing" /\ idx = End
  /\ tokens' = Append(tokens, NewToken("Eof", <<>>))
  /\ status' = "lexed"
  /\ UNCHANGED <<text, idx, line_num, col_num, open>>

Init ==
  /\ text \in Texts
  /\ idx = 1 /\ line_num = 1 /\ col_num = 1
  /\ tokens = <<>>
  /\ open = NewToken("StrLiteral", <<>>)
  /\ status = "lexing"

StringLiteral == OpenString \/ ReadEscape \/ ReadChar \/ CloseString \/ NoMatchingQuote
OtherToken == GetSymbol \/ GetNumericLiteral \/ GetPunctuation \/ GetOperator
Stopped == status \in {"lexed", "error"} /\ UNCHANGED vars

Next == StringLiteral \/ OtherToken \/ SkipComment \/ PushEof \/ Stopped

Spec == Init /\ [][Next]_vars

-----------------------------------------------------------------------------
(* Types, and what print_err() asserts of the positions it is given: both  *)
(* numbers are above zero.                                                 *)
Position == [at : 1 .. End, line_num : Nat \ {0}, col_num : Nat \ {0}]
PositionOf(t) == [at |-> t.at, line_num |-> t.line_num, col_num |-> t.col_num]

TypeOK ==
  /\ status \in {"lexing", "string", "lexed", "error"}
  /\ [at |-> idx, line_num |-> line_num, col_num |-> col_num] \in Position
  /\ open.type = "StrLiteral" /\ PositionOf(open) \in Position
  /\ \A k \in DOMAIN tokens : tokens[k].type \in TokenType /\ PositionOf(tokens[k]) \in Position

(* The lines of the text all end in the same way, in a newline or in a CR  *)
(* and a newline.                                                          *)
UniformLineEnds ==
  \/ \A i \in DOMAIN text : text[i] # "CR"
  \/ \A i \in DOMAIN text :
       /\ text[i] = "CR" => CharAt(i + 1) = "NL"
       /\ text[i] = "NL" => i > 1 /\ text[i - 1] = "CR"

(* The character at i is the one in column c of line l of the text.        *)
StandsAt(i, l, c) ==
  /\ l = 1 + Cardinality({p \in 1 .. i - 1 : text[p] = "NL"})
  /\ c \in 1 .. i
  /\ c = i \/ text[i - c] = "NL"
  /\ \A p \in i - c + 1 .. i - 1 : text[p] # "NL"

(* Every token has the line and column its first character has in the      *)
(* text, and so has the character an error is thrown at, whatever mix of   *)
(* tokens, comments, blanks and line ends the lexer has come through.      *)
PositionsTrue ==
  UniformLineEnds =>
    /\ StandsAt(idx, line_num, col_num)
    /\ \A k \in DOMAIN tokens : StandsAt(tokens[k].at, tokens[k].line_num, tokens[k].col_num)

(* What tokenize() hands to the parser ends in Eof, and no other token is  *)
(* one: the parser reads front() and at(1) without asking for a length.    *)
EofLast ==
  /\ \A k \in DOMAIN tokens : tokens[k].type = "Eof" <=> status = "lexed" /\ k = Len(tokens)
  /\ status = "lexed" => tokens # <<>>

(* No turn of a loop leaves idx where it was, but the last: the lexer ends *)
(* on every text.                                                          *)
MovesOn == [][idx' > idx \/ status' \in {"lexed", "error"}]_vars
=============================================================================
