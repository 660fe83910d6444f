------------------------------ MODULE Lexicon ------------------------------
(***************************************************************************)
(* The tokens of the language as sets of words, the longest of which is    *)
(* taken at each place of a text, and what they ask of Lexer and of the    *)
(* report of an error.                                                     *)
(***************************************************************************)
EXTENDS Lexer, Report

AllIn(s, chars) == \A i \in DOMAIN s : s[i] \in chars
Behind(s, n) == SubSeq(s, n + 1, Len(s))

HexDigits == Numeric \union {"a", "b", "c", "d", "e", "f", "A", "B", "C", "D", "E", "F"}

IsWord(s) == s # <<>> /\ s[1] \in Alpha /\ AllIn(s, Alpha \union Numeric \union {Underscore})

IsHex(s) == Len(s) > 2 /\ s[1] = "0" /\ s[2] = "x" /\ s[3] \in HexDigits
            /\ AllIn(Behind(s, 2), HexDigits \union {Underscore})
IsOctal(s) == s # <<>> /\ s[1] = "0" /\ AllIn(s, Octal \union {Underscore})
IsDecimal(s) == s # <<>> /\ s[1] \in Numeric \ {"0"} /\ AllIn(s, Numeric \union {Underscore})

(* What a digit in front of s[k] counts for each unit of its own.          *)
Place(s, base) ==
  LET place[k \in 1 .. Len(s) + 1] ==
        IF k > Len(s) THEN 1
        ELSE IF s[k] = Underscore THEN place[k + 1]
        ELSE base * place[k + 1]
  IN  place

Worth(s, base) ==
  LET worth[k \in 1 .. Len(s) + 1] ==
        IF k > Len(s) THEN 0
        ELSE IF s[k] = Underscore THEN worth[k + 1]
        ELSE DigitValue[s[k]] * Place(s, base)[k + 1] + worth[k + 1]
  IN  worth

Positional(s, base) == Worth(s, base)[1]

IntValue(s) ==
  IF IsHex(s) THEN Positional(Behind(s, 2), 16)
  ELSE Positional(s, IF IsOctal(s) THEN 8 ELSE 10)

IsInt(s) == (IsHex(s) \/ IsOctal(s) \/ IsDecimal(s)) /\ IntValue(s) <= IntMax

(* What the inside of a string stands for; nothing, if it is not one.      *)
Decoded[s \in Seq(Char)] ==
  IF s = <<>> THEN {<<>>}
  ELSE IF s[1] = Backslash
  THEN IF Len(s) > 1 /\ s[2] \in {"n", "t", Backslash, Quote}
       THEN {<<CASE s[2] = "n" -> "NL" [] s[2] = "t" -> "TAB" [] OTHER -> s[2]>> \o d :
               d \in Decoded[Behind(s, 2)]}
       ELSE {}
  ELSE IF s[1] \in {Quote, "NL"} THEN {}
  ELSE {<<s[1]>> \o d : d \in Decoded[Tail(s)]}

Inside(s) == SubSeq(s, 2, Len(s) - 1)
IsString(s) == Len(s) > 1 /\ s[1] = Quote /\ s[Len(s)] = Quote /\ Decoded[Inside(s)] # {}

IsSign(s) ==
  \/ Len(s) = 1 /\ s[1] \in DOMAIN OneChar \union Punctuation
  \/ s \in DOMAIN TwoChars

SignType(s) ==
  IF Len(s) = 2 THEN TwoChars[s]
  ELSE IF s[1] \in Punctuation THEN PunctuationType[s[1]] ELSE OneChar[s[1]]

IsLexeme(s) == IsWord(s) \/ IsInt(s) \/ IsString(s) \/ IsSign(s)

TokenOf(s, i) ==
  [at |-> i,
   type |-> IF IsWord(s) THEN WordType(s) ELSE IF IsInt(s) THEN "IntLiteral"
            ELSE IF IsString(s) THEN "StrLiteral" ELSE SignType(s),
   value |-> IF IsInt(s) THEN <<IntValue(s)>>
             ELSE IF IsString(s) THEN CHOOSE d \in Decoded[Inside(s)] : TRUE ELSE s]

-----------------------------------------------------------------------------
(* The tokens of the text from i on, or Stuck if they are not              *)
(* all tokens.  Blanks and comments stand between tokens; a text does not  *)
(* begin with a blank; a number is not followed by a letter or a digit.    *)
Stuck == <<[at |-> 0, type |-> "Stuck", value |-> <<>>]>>

LexemeEnds(i) == {end \in i + 1 .. End : IsLexeme(Slice(i, end))}
LineEnds(i) == {k \in i .. End : CharAt(k) \in {"NL", "CR", "none"}}
Least(S) == CHOOSE x \in S : \A y \in S : x <= y
Greatest(S) == CHOOSE x \in S : \A y \in S : x >= y

(* Tokens in front of the others.                                          *)
Joined(front, rest) == IF rest = Stuck THEN Stuck ELSE front \o rest

TokensFrom[i \in 1 .. End] ==
  IF i = End THEN <<[at |-> i, type |-> "Eof", value |-> <<>>]>>
  ELSE IF text[i] \in Whitespace THEN IF i = 1 THEN Stuck ELSE TokensFrom[i + 1]
  ELSE IF text[i] = "#" THEN TokensFrom[Least(LineEnds(i))]
  ELSE IF LexemeEnds(i) = {} THEN Stuck
  ELSE LET end == Greatest(LexemeEnds(i))
       IN  IF text[i] \in Numeric /\ CharAt(end) \in Alphanumeric THEN Stuck
           ELSE Joined(<<TokenOf(Slice(i, end), i)>>, TokensFrom[end])

Bare(t) == [at |-> t.at, type |-> t.type,
            value |-> IF t.type = "IntLiteral" THEN <<t.value>> ELSE t.value]

BareOf(toks) == [k \in DOMAIN toks |-> Bare(toks[k])]

(* tokenize() makes the tokens of the text, the longest at each place, and *)
(* refuses a text only if it does not consist of tokens.                   *)
FollowsLexicon ==
  /\ status = "lexed" => BareOf(tokens) = TokensFrom[1]
  /\ status = "error" => TokensFrom[1] = Stuck

(* A report shows the line of what it is about and points at it: at the    *)
(* character the lexer stopped at, and at the first character of a token   *)
(* for a later stage, whatever ends the text.  (Eof is left out: when the  *)
(* text ends with its last line, Eof is on a line that no report shows.)   *)
CaretPoints ==
  UniformLineEnds =>
    /\ status = "error" => Marked(text, line_num, col_num) = {idx}
    /\ \A k \in DOMAIN tokens :
         tokens[k].type # "Eof" =>
           Marked(text, tokens[k].line_num, tokens[k].col_num) = {tokens[k].at}
=============================================================================
