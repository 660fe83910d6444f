---------------------------- MODULE LexerProofs ----------------------------
(***************************************************************************)
(* Theorems about the lexer, for every set of texts and every IntMax:      *)
(* positions are those of the text, and what print_err() marks, the tokens *)
(* are those of the lexicon with Eof at the end, and every turn of a loop  *)
(* consumes a character.                                                   *)
(***************************************************************************)
EXTENDS Lexicon, FiniteSetTheorems, SequenceTheorems, Induction

(* The position advance_char() has counted up to the character at i, in    *)
(* texts with any line ends: StandsAt with the code's view of a line end.  *)
Placed(i, l, c) ==
  /\ l = 1 + Cardinality(LinesEnded(1, i))
  /\ c \in 1 .. i
  /\ c = i \/ EndsLine(i - c)
  /\ \A p \in i - c + 1 .. i - 1 : ~ EndsLine(p)

IsPlaced(t) == t.at \in 1 .. End /\ Placed(t.at, t.line_num, t.col_num)
GoodToken(t) == t.type \in TokenType \ {"Eof"} /\ IsPlaced(t)

Here == text \in Seq(Char) /\ idx \in 1 .. End /\ Placed(idx, line_num, col_num)

OpenOK ==
  /\ open = [type |-> "StrLiteral", value |-> open.value, at |-> open.at,
             line_num |-> open.line_num, col_num |-> open.col_num]
  /\ IsPlaced(open)

TokensOK ==
  /\ \E S : tokens \in Seq(S)
  /\ \A k \in DOMAIN tokens :
       IF status = "lexed" /\ k = Len(tokens)
       THEN tokens[k].type = "Eof" /\ IsPlaced(tokens[k])
       ELSE GoodToken(tokens[k])
  /\ status = "lexed" => tokens # <<>>

IInv == Here /\ OpenOK /\ TokensOK /\ status \in {"lexing", "string", "lexed", "error"}

-----------------------------------------------------------------------------
LEMMA LinesFinite ==
  ASSUME NEW from \in Nat, NEW end \in Nat
  PROVE  IsFiniteSet(LinesEnded(from, end)) /\ Cardinality(LinesEnded(from, end)) \in Nat
<1>1. IsFiniteSet(from .. end - 1)
  BY FS_Interval
<1>2. IsFiniteSet(LinesEnded(from, end))
  BY <1>1, FS_Subset DEF LinesEnded
<1>3. QED
  BY <1>2, FS_CardinalityType

(* Lines are counted piece by piece.                                       *)
LEMMA LinesAdd ==
  ASSUME NEW i \in Nat \ {0}, NEW end \in Nat, i <= end
  PROVE  Cardinality(LinesEnded(1, end)) =
           Cardinality(LinesEnded(1, i)) + Cardinality(LinesEnded(i, end))
<1>1. LinesEnded(1, end) = LinesEnded(1, i) \union LinesEnded(i, end)
  BY DEF LinesEnded
<1>2. LinesEnded(1, i) \cap LinesEnded(i, end) = {}
  BY DEF LinesEnded
<1>3. /\ IsFiniteSet(LinesEnded(1, i)) /\ Cardinality(LinesEnded(1, i)) \in Nat
      /\ IsFiniteSet(LinesEnded(i, end)) /\ Cardinality(LinesEnded(i, end)) \in Nat
  BY LinesFinite
<1>4. Cardinality(LinesEnded(1, i) \union LinesEnded(i, end)) =
        Cardinality(LinesEnded(1, i)) + Cardinality(LinesEnded(i, end))
        - Cardinality(LinesEnded(1, i) \cap LinesEnded(i, end))
  BY <1>3, FS_Union
<1>5. Cardinality(LinesEnded(1, i) \cap LinesEnded(i, end)) = 0
  BY <1>2, FS_EmptySet
<1>6. QED
  BY <1>1, <1>3, <1>4, <1>5

(* To advance is to be placed further on.                                  *)
LEMMA MovePlaces ==
  ASSUME Here, NEW end \in idx .. End, MoveTo(end), text' = text
  PROVE  Here' /\ idx' = end
<1> DEFINE ended == LinesEnded(idx, end)
<1>1. /\ idx \in Nat \ {0} /\ end \in Nat \ {0} /\ idx <= end /\ Len(text) \in Nat
      /\ Placed(idx, line_num, col_num) /\ idx' = end
      /\ line_num' = line_num + Cardinality(ended)
  BY DEF Here, End, MoveTo
<1>2. Cardinality(LinesEnded(1, idx)) \in Nat /\ Cardinality(ended) \in Nat
  BY <1>1, LinesFinite
<1>3. line_num' = 1 + Cardinality(LinesEnded(1, end))
  BY <1>1, <1>2, LinesAdd DEF Placed
<1>4. \A i \in idx .. end - 1 : i \in ended <=> EndsLine(i)
  BY DEF LinesEnded
<1>5. Placed(end, line_num', col_num')
  <2>1. CASE ended = {} /\ col_num' = col_num + (end - idx)
    <3>1. col_num \in 1 .. idx /\ col_num' = col_num + (end - idx) /\ end - col_num' = idx - col_num
      BY <1>1, <2>1 DEF Placed
    <3>2. \A p \in end - col_num' + 1 .. end - 1 : ~ EndsLine(p)
      <4> TAKE p \in end - col_num' + 1 .. end - 1
      <4>1. CASE p < idx
        BY <1>1, <3>1, <4>1 DEF Placed
      <4>2. CASE p >= idx
        BY <1>1, <1>4, <2>1, <3>1, <4>2
      <4>3. QED
        BY <1>1, <3>1, <4>1, <4>2
    <3>3. col_num' \in 1 .. end
      BY <1>1, <3>1
    <3>4. col_num' = end \/ EndsLine(end - col_num')
      BY <1>1, <3>1 DEF Placed
    <3>5. QED
      BY <1>3, <3>2, <3>3, <3>4 DEF Placed
  <2>2. CASE \E last \in ended : (\A i \in ended : i <= last) /\ col_num' = end - last
    <3>1. PICK last \in ended : (\A i \in ended : i <= last) /\ col_num' = end - last
      BY <2>2
    <3>2. last \in idx .. end - 1 /\ EndsLine(last)
      BY <3>1 DEF LinesEnded
    <3>3. \A p \in last + 1 .. end - 1 : ~ EndsLine(p)
      <4> TAKE p \in last + 1 .. end - 1
      <4>1. p \in idx .. end - 1 /\ ~ (p <= last)
        BY <1>1, <3>2
      <4>2. QED
        BY <1>4, <3>1, <4>1
    <3>4. end - col_num' = last /\ col_num' \in 1 .. end
      BY <1>1, <3>1, <3>2
    <3>5. QED
      BY <1>3, <3>2, <3>3, <3>4 DEF Placed
  <2>3. QED
    BY <2>1, <2>2 DEF MoveTo
<1>6. idx' \in 1 .. End' /\ text' \in Seq(Char)
  BY <1>1 DEF Here, End
<1>7. Placed(idx, line_num, col_num)'
  <2>1. \A p \in Int : EndsLine(p)' <=> EndsLine(p)
    BY DEF EndsLine, CharAt, End
  <2>2. LinesEnded(1, idx)' = LinesEnded(1, end)
    BY <1>1, <2>1 DEF LinesEnded
  <2>3. line_num' = 1 + Cardinality(LinesEnded(1, idx)') /\ col_num' \in 1 .. idx'
    BY <1>1, <1>3, <1>5, <2>2 DEF Placed
  <2>4. col_num' = idx' \/ EndsLine(idx - col_num)'
    BY <1>1, <1>5, <2>1, <2>3 DEF Placed
  <2>5. \A p \in end - col_num' + 1 .. end - 1 : ~ EndsLine(p)'
    <3>1. col_num' \in Int /\ end \in Int
      BY <1>1, <2>3
    <3>2. \A p \in end - col_num' + 1 .. end - 1 : p \in Int
      BY <3>1
    <3>3. \A p \in end - col_num' + 1 .. end - 1 : ~ EndsLine(p)
      BY <1>5 DEF Placed
    <3>4. QED
      BY <2>1, <3>2, <3>3
  <2>6. QED
    BY <1>1, <2>3, <2>4, <2>5 DEF Placed
<1>8. QED
  BY <1>1, <1>6, <1>7 DEF Here

LEMMA StaysPlaced ==
  ASSUME text' = text, NEW t, IsPlaced(t)
  PROVE  IsPlaced(t)'
<1>1. \A p : EndsLine(p)' <=> EndsLine(p)
  BY DEF EndsLine, CharAt, End
<1>2. \A n : LinesEnded(1, n)' = LinesEnded(1, n)
  BY <1>1 DEF LinesEnded
<1>3. QED
  BY <1>1, <1>2 DEF IsPlaced, Placed, End

(* What does not touch the tokens keeps them.                              *)
LEMMA TokensStay ==
  ASSUME TokensOK, text' = text, tokens' = tokens, status # "lexed", status' # "lexed"
  PROVE  TokensOK'
<1>1. \A k \in DOMAIN tokens' : GoodToken(tokens[k]) /\ tokens'[k] = tokens[k]
  BY DEF TokensOK
<1>2. \A k \in DOMAIN tokens' : GoodToken(tokens[k])'
  BY <1>1, StaysPlaced DEF GoodToken
<1>3. QED
  BY <1>2 DEF TokensOK

LEMMA TokensPush ==
  ASSUME TokensOK, text' = text, NEW t, tokens' = Append(tokens, t), status # "lexed",
         IsPlaced(t), t.type \in TokenType,
         t.type = "Eof" <=> status' = "lexed"
  PROVE  TokensOK'
<1>1. PICK S : tokens \in Seq(S)
  BY DEF TokensOK
<1>2. tokens \in Seq(S \union {t})
  BY <1>1
<1>3. /\ tokens' \in Seq(S \union {t}) /\ Len(tokens') = Len(tokens) + 1 /\ Len(tokens) \in Nat
      /\ DOMAIN tokens' = 1 .. Len(tokens) + 1
      /\ \A k \in 1 .. Len(tokens) : tokens'[k] = tokens[k]
      /\ tokens'[Len(tokens) + 1] = t
  BY <1>2
<1>4. \A k \in 1 .. Len(tokens) : GoodToken(tokens[k])
  BY <1>1 DEF TokensOK
<1>5. \A k \in 1 .. Len(tokens) : GoodToken(tokens[k])' /\ k # Len(tokens')
  BY <1>3, <1>4, StaysPlaced DEF GoodToken
<1>6. IsPlaced(t)'
  BY StaysPlaced
<1>7. \A k \in DOMAIN tokens' :
        (IF status = "lexed" /\ k = Len(tokens)
         THEN tokens[k].type = "Eof" /\ IsPlaced(tokens[k])
         ELSE GoodToken(tokens[k]))'
  <2> TAKE k \in DOMAIN tokens'
  <2>1. CASE k \in 1 .. Len(tokens)
    BY <1>5, <2>1
  <2>2. CASE k = Len(tokens) + 1
    <3>1. tokens'[k] = t /\ k = Len(tokens') /\ IsPlaced(tokens[k])'
      BY <1>3, <1>6, <2>2
    <3>2. QED
      BY <3>1 DEF GoodToken
  <2>3. QED
    BY <1>3, <2>1, <2>2
<1>8. tokens' # <<>>
  BY <1>3
<1>9. QED
  BY <1>3, <1>7, <1>8 DEF TokensOK

-----------------------------------------------------------------------------
LEMMA OpenStays == ASSUME OpenOK, text' = text, open' = open PROVE OpenOK'
  BY StaysPlaced DEF OpenOK

LEMMA NewPlaced ==
  ASSUME Here, NEW type, NEW value
  PROVE  IsPlaced(NewToken(type, value)) /\ NewToken(type, value).type = type
  BY DEF Here, IsPlaced, NewToken

Moves == IInv' /\ (idx' > idx \/ status' \in {"lexed", "error"})

LEMMA SkipMoves ==
  ASSUME Here, NEW from \in idx .. End, SkipWhitespace(from), text' = text
  PROVE  Here' /\ idx' >= from
<1>1. PICK end \in from .. End : MoveTo(end)
  BY DEF SkipWhitespace
<1>2. idx \in Int /\ End \in Int /\ end \in idx .. End
  BY DEF Here, End
<1>3. QED
  BY <1>1, <1>2, MovePlaces

LEMMA PushMoves ==
  ASSUME IInv, status = "lexing", NEW type \in TokenType \ {"Eof"}, NEW value,
         NEW end \in idx + 1 .. End, Push(NewToken(type, value), end)
  PROVE  Moves
<1>1. text' = text /\ Here /\ idx \in Int /\ End \in Int /\ end \in idx .. End
  BY DEF Push, IInv, Here, End
<1>2. Here' /\ idx' >= end
  BY <1>1, SkipMoves DEF Push
<1>3. idx' \in Int
  BY <1>2 DEF Here, End
<1>4. TokensOK'
  BY <1>1, NewPlaced, TokensPush DEF Push, IInv
<1>5. OpenOK' /\ status' = "lexing"
  BY OpenStays DEF Push, IInv
<1>6. QED
  BY <1>1, <1>2, <1>3, <1>4, <1>5 DEF IInv, Moves

LEMMA ThrowMoves ==
  ASSUME IInv, status # "lexed", NEW end \in idx .. End, ThrowAt(end)
  PROVE  Moves
<1>1. text' = text /\ tokens' = tokens /\ open' = open /\ status' = "error"
  BY DEF ThrowAt
<1>2. Here'
  BY <1>1, MovePlaces DEF ThrowAt, IInv
<1>3. TokensOK' /\ OpenOK'
  BY <1>1, TokensStay, OpenStays DEF IInv
<1>4. QED
  BY <1>1, <1>2, <1>3 DEF IInv, Moves

(* A run of characters that begins with one of them is not empty.          *)
LEMMA RunMoves ==
  ASSUME Here, NEW chars, NEW end \in idx .. End, Run(idx, end, chars), CharAt(idx) \in chars
  PROVE  end \in idx + 1 .. End
<1>1. end # idx
  BY DEF Run
<1>2. idx \in Int /\ End \in Int
  BY DEF Here, End
<1>3. QED
  BY <1>1, <1>2

LEMMA WordTypes == ASSUME NEW w PROVE WordType(w) \in TokenType \ {"Eof"}
<1>1. \A v \in DOMAIN KeywordMap :
        KeywordMap[v] \in {"KeywordVar", "KeywordIf", "KeywordElse", "KeywordWhile", "KeywordReturn",
                          "KeywordOtherwise", "KeywordRepeat", "KeywordFun", "TypeName"}
  BY DEF KeywordMap
<1>2. QED
  BY <1>1 DEF WordType, TokenType

LEMMA SymbolMoves == ASSUME IInv, GetSymbol PROVE Moves
<1>1. PICK end \in idx .. End :
        /\ Run(idx, end, WordChars)
        /\ Push(NewToken(WordType(Slice(idx, end)), Slice(idx, end)), end)
  BY DEF GetSymbol
<1>2. CharAt(idx) \in WordChars /\ status = "lexing"
  BY DEF GetSymbol, Lexing, Cur, WordChars, Alphanumeric
<1>3. end \in idx + 1 .. End
  BY <1>1, <1>2, RunMoves DEF IInv
<1>4. WordType(Slice(idx, end)) \in TokenType \ {"Eof"}
  BY WordTypes
<1>5. QED
  BY <1>1, <1>2, <1>3, <1>4, PushMoves

(* Of no digits stoi() makes no number.                                    *)
LEMMA NoDigits ==
  ASSUME Here, NEW base
  PROVE  Number(Slice(idx, idx), base) \notin 0 .. IntMax
<1>1. Slice(idx, idx) = <<>>
  BY DEF Here, End, Slice
<1>2. Number(<<>>, base) = -1
  BY DEF Number
<1>3. QED
  BY <1>1, <1>2, IntMaxAssumption

LEMMA DigitsMove ==
  ASSUME IInv, status = "lexing", NEW from \in idx .. End, NEW base, GetDigits(from, base)
  PROVE  Moves
<1>1. PICK end \in from .. End :
        IF CharAt(end) \in Alphanumeric \/ Number(Slice(from, end), base) \notin 0 .. IntMax
        THEN ThrowAt(end)
        ELSE Push(NewToken("IntLiteral", Number(Slice(from, end), base)), end)
  BY DEF GetDigits
<1>2. idx \in Int /\ End \in Int /\ end \in idx .. End /\ Here
  BY DEF IInv, Here, End
<1>3. CASE ThrowAt(end)
  BY <1>2, <1>3, ThrowMoves
<1>4. CASE /\ Number(Slice(from, end), base) \in 0 .. IntMax
           /\ Push(NewToken("IntLiteral", Number(Slice(from, end), base)), end)
  <2>1. end # idx
    <3>1. end = idx => from = idx
      BY <1>2
    <3>2. QED
      BY <1>2, <1>4, <3>1, NoDigits
  <2>2. end \in idx + 1 .. End /\ "IntLiteral" \in TokenType \ {"Eof"}
    BY <1>2, <2>1 DEF TokenType
  <2>3. QED
    BY <1>4, <2>2, PushMoves
<1>5. QED
  BY <1>1, <1>3, <1>4

LEMMA NumberMoves == ASSUME IInv, GetNumericLiteral PROVE Moves
<1>0. Lexing
  BY DEF GetNumericLiteral
<1>1. status = "lexing" /\ idx < End /\ idx \in 1 .. End /\ End \in Int
  BY <1>0 DEF Lexing, IInv, Here, End
<1>2. PICK from \in idx .. End, base \in {8, 10, 16} :
        ThrowAt(from) \/ GetDigits(from, base)
  <2>1. CASE Cur = "0" /\ Peek = "x"
    <3>1. idx + 2 \in idx .. End
      BY <1>1, <2>1 DEF Peek, CharAt
    <3>2. QED
      BY <2>1, <3>1 DEF GetNumericLiteral
  <2>2. CASE ~ (Cur = "0" /\ Peek = "x")
    <3>1. idx \in idx .. End
      BY <1>1
    <3>2. QED
      BY <2>2, <3>1 DEF GetNumericLiteral
  <2>3. QED
    BY <2>1, <2>2
<1>3. QED
  BY <1>1, <1>2, ThrowMoves, DigitsMove

LEMMA PunctuationMoves == ASSUME IInv, GetPunctuation PROVE Moves
<1>1. PunctuationType[Cur] \in TokenType \ {"Eof"}
  BY DEF GetPunctuation, PunctuationType, Punctuation, TokenType
<1>2. status = "lexing" /\ idx + 1 \in idx + 1 .. End
  BY DEF GetPunctuation, Lexing, IInv, Here, End
<1>3. QED
  BY <1>1, <1>2, PushMoves DEF GetPunctuation

LEMMA OperatorMoves == ASSUME IInv, GetOperator PROVE Moves
<1>1. status = "lexing" /\ idx < End /\ idx \in 1 .. End /\ End \in Int
  BY DEF GetOperator, Lexing, IInv, Here, End
<1>2. CASE <<Cur, Peek>> \in DOMAIN TwoChars
  <2>1. TwoChars[<<Cur, Peek>>] \in TokenType \ {"Eof"}
    BY <1>2 DEF TwoChars, TokenType
  <2>2. Peek # "none"
    BY <1>2 DEF TwoChars
  <2>3. idx + 2 \in idx + 1 .. End
    BY <1>1, <2>2 DEF Peek, CharAt
  <2>4. QED
    BY <1>1, <1>2, <2>1, <2>3, PushMoves DEF GetOperator
<1>3. CASE <<Cur, Peek>> \notin DOMAIN TwoChars /\ Cur \in DOMAIN OneChar
  <2>1. OneChar[Cur] \in TokenType \ {"Eof"}
    BY <1>3 DEF OneChar, TokenType
  <2>2. idx + 1 \in idx + 1 .. End
    BY <1>1
  <2>3. QED
    BY <1>1, <1>3, <2>1, <2>2, PushMoves DEF GetOperator
<1>4. CASE <<Cur, Peek>> \notin DOMAIN TwoChars /\ Cur \notin DOMAIN OneChar
  BY <1>1, <1>4, ThrowMoves DEF GetOperator
<1>5. QED
  BY <1>2, <1>3, <1>4

LEMMA CommentMoves == ASSUME IInv, SkipComment PROVE Moves
<1>1. /\ status = "lexing" /\ idx < End /\ idx \in 1 .. End /\ End \in Int /\ Here
      /\ UNCHANGED <<text, tokens, open, status>>
  BY DEF SkipComment, Lexing, IInv, Here, End
<1>2. PICK stop \in idx + 1 .. End :
        SkipWhitespace(IF CharAt(stop) = "NL" THEN stop + 1
                       ELSE IF CharAt(stop) = "CR" /\ CharAt(stop + 1) = "NL" THEN stop + 2
                       ELSE stop)
  BY DEF SkipComment
<1>3. PICK from \in idx + 1 .. End : SkipWhitespace(from)
  <2>1. CharAt(stop) = "NL" => stop + 1 \in idx + 1 .. End
    BY <1>1 DEF CharAt
  <2>2. CharAt(stop + 1) = "NL" => stop + 2 \in idx + 1 .. End
    BY <1>1 DEF CharAt
  <2>3. QED
    BY <1>2, <2>1, <2>2
<1>4. from \in idx .. End
  BY <1>1
<1>5. Here' /\ idx' >= from
  BY <1>1, <1>3, <1>4, SkipMoves
<1>6. TokensOK' /\ OpenOK'
  BY <1>1, TokensStay, OpenStays DEF IInv
<1>7. idx' > idx
  BY <1>1, <1>5 DEF Here, End
<1>8. QED
  BY <1>1, <1>5, <1>6, <1>7 DEF IInv, Moves

-----------------------------------------------------------------------------
LEMMA OpenMoves == ASSUME IInv, OpenString PROVE Moves
<1>1. /\ status = "lexing" /\ status' = "string" /\ idx < End /\ idx \in 1 .. End /\ End \in Int
      /\ Here /\ text' = text /\ tokens' = tokens
  BY DEF OpenString, Lexing, IInv, Here, End
<1>2. Here' /\ idx' = idx + 1
  <2>1. idx + 1 \in idx .. End
    BY <1>1
  <2>2. QED
    BY <1>1, <2>1, MovePlaces DEF OpenString
<1>3. OpenOK'
  <2>1. open' = NewToken("StrLiteral", <<>>) /\ IsPlaced(NewToken("StrLiteral", <<>>))
    BY <1>1, NewPlaced DEF OpenString
  <2>2. PICK t : t = open' /\ IsPlaced(t)
    BY <2>1
  <2>3. IsPlaced(open)'
    BY <1>1, <2>2, StaysPlaced
  <2>4. QED
    BY <2>1, <2>3 DEF OpenOK, NewToken
<1>4. TokensOK'
  BY <1>1, TokensStay DEF IInv
<1>5. QED
  BY <1>1, <1>2, <1>3, <1>4 DEF IInv, Moves

LEMMA ReadMoves ==
  ASSUME IInv, status = "string", NEW c, NEW end \in idx + 1 .. End, Read(c, end)
  PROVE  Moves
<1>1. /\ text' = text /\ tokens' = tokens /\ status' = "string" /\ Here
      /\ idx \in Int /\ End \in Int /\ end \in idx .. End
  BY DEF Read, IInv, Here, End
<1>2. Here' /\ idx' = end
  BY <1>1, MovePlaces DEF Read
<1>3. OpenOK'
  <2>1. PICK v : open' = [open EXCEPT !.value = v]
    BY DEF Read
  <2>2. /\ open' = [type |-> "StrLiteral", value |-> open'.value, at |-> open.at,
                    line_num |-> open.line_num, col_num |-> open.col_num]
        /\ IsPlaced(open)
    BY <2>1 DEF IInv, OpenOK
  <2>3. PICK t : t = open' /\ IsPlaced(t)
    BY <2>2 DEF IsPlaced
  <2>4. IsPlaced(open)'
    BY <1>1, <2>3, StaysPlaced
  <2>5. QED
    BY <2>2, <2>4 DEF OpenOK
<1>4. TokensOK'
  BY <1>1, TokensStay DEF IInv
<1>5. QED
  BY <1>1, <1>2, <1>3, <1>4 DEF IInv, Moves

LEMMA EscapeMoves == ASSUME IInv, ReadEscape PROVE Moves
<1>1. status = "string" /\ idx < End /\ idx \in 1 .. End /\ End \in Int
  BY DEF ReadEscape, InString, IInv, Here, End
<1>2. CASE Peek \in DOMAIN Escapes
  <2>1. Peek # "none"
    BY <1>2 DEF Escapes, Quote, Backslash
  <2>2. idx + 2 \in idx + 1 .. End
    BY <1>1, <2>1 DEF Peek, CharAt
  <2>3. QED
    BY <1>1, <1>2, <2>2, ReadMoves DEF ReadEscape
<1>3. CASE Peek \notin DOMAIN Escapes
  BY <1>1, <1>3, ThrowMoves DEF ReadEscape
<1>4. QED
  BY <1>2, <1>3

LEMMA CharMoves == ASSUME IInv, ReadChar PROVE Moves
<1>1. status = "string" /\ idx < End /\ idx \in 1 .. End /\ End \in Int
  BY DEF ReadChar, InString, IInv, Here, End
<1>2. CASE Cur = "NL"
  BY <1>1, <1>2, ThrowMoves DEF ReadChar
<1>3. CASE Cur # "NL"
  <2>1. idx + 1 \in idx + 1 .. End
    BY <1>1
  <2>2. QED
    BY <1>1, <1>3, <2>1, ReadMoves DEF ReadChar
<1>4. QED
  BY <1>2, <1>3

LEMMA CloseMoves == ASSUME IInv, CloseString PROVE Moves
<1>1. /\ status = "string" /\ status' = "lexing" /\ Here /\ OpenOK /\ TokensOK
      /\ text' = text /\ open' = open /\ tokens' = Append(tokens, open)
      /\ idx \in 1 .. End /\ End \in Int
  BY DEF CloseString, IInv, Here, End
<1>2. idx + 1 \in idx .. End
  <2>1. Cur # "none"
    BY Zenon DEF CloseString, Quote
  <2>2. QED
    BY <1>1, <2>1 DEF Cur, CharAt
<1>3. Here' /\ idx' >= idx + 1
  BY <1>1, <1>2, SkipMoves DEF CloseString
<1>4. OpenOK'
  BY <1>1, OpenStays
<1>5. TokensOK'
  <2>1. PICK t : t = open
    OBVIOUS
  <2>2. t.type = "StrLiteral" /\ IsPlaced(t)
    BY <1>1, <2>1 DEF OpenOK
  <2>3. t.type \in TokenType \ {"Eof"}
    BY <2>2 DEF TokenType
  <2>4. QED
    BY <1>1, <2>1, <2>2, <2>3, TokensPush
<1>6. idx' > idx
  BY <1>1, <1>3 DEF Here, End
<1>7. QED
  BY <1>1, <1>3, <1>4, <1>5, <1>6 DEF IInv, Moves

LEMMA QuoteMoves == ASSUME IInv, NoMatchingQuote PROVE Moves
<1>1. status = "string" /\ idx \in idx .. End /\ ThrowAt(idx)
  BY DEF NoMatchingQuote, IInv, Here, End
<1>2. QED
  BY <1>1, ThrowMoves

LEMMA EofMoves == ASSUME IInv, PushEof PROVE Moves
<1>1. /\ status = "lexing" /\ status' = "lexed" /\ text' = text /\ open' = open
      /\ UNCHANGED <<idx, line_num, col_num>> /\ Here /\ OpenOK /\ TokensOK
  BY DEF PushEof, IInv
<1>2. TokensOK'
  <2>1. IsPlaced(NewToken("Eof", <<>>)) /\ NewToken("Eof", <<>>).type = "Eof"
    BY <1>1, NewPlaced
  <2>2. "Eof" \in TokenType
    BY DEF TokenType
  <2>3. QED
    BY <1>1, <2>1, <2>2, TokensPush DEF PushEof
<1>3. Here'
  BY <1>1 DEF Here, Placed, LinesEnded, EndsLine, CharAt, End
<1>4. OpenOK'
  BY <1>1, OpenStays
<1>5. QED
  BY <1>1, <1>2, <1>3, <1>4 DEF IInv, Moves

-----------------------------------------------------------------------------
LEMMA InitIInv == Init => IInv
<1> SUFFICES ASSUME Init PROVE IInv
  OBVIOUS
<1>1. text \in Seq(Char) /\ idx = 1 /\ line_num = 1 /\ col_num = 1 /\ status = "lexing"
  BY TextsAssumption DEF Init
<1>2. LinesEnded(1, 1) = {} /\ Cardinality({}) = 0
  BY FS_EmptySet DEF LinesEnded
<1>3. Placed(1, 1, 1)
  BY <1>2 DEF Placed
<1>4. Here
  BY <1>1, <1>3 DEF Here, End
<1>5. OpenOK
  <2>1. open = NewToken("StrLiteral", <<>>)
    BY DEF Init
  <2>2. IsPlaced(open)
    BY <1>4, <2>1, NewPlaced
  <2>3. QED
    BY <2>1, <2>2 DEF OpenOK, NewToken
<1>6. TokensOK
  <2>1. tokens = <<>> /\ tokens \in Seq({})
    BY DEF Init
  <2>2. QED
    BY <1>1, <2>1 DEF TokensOK
<1>7. QED
  BY <1>1, <1>4, <1>5, <1>6 DEF IInv

LEMMA StayIInv == ASSUME IInv, UNCHANGED vars PROVE IInv'
<1>1. text' = text /\ tokens' = tokens /\ open' = open /\ status' = status /\ idx' = idx
  BY DEF vars
<1>2. Here'
  BY <1>1 DEF vars, IInv, Here, Placed, LinesEnded, EndsLine, CharAt, End
<1>3. OpenOK'
  BY <1>1, OpenStays DEF IInv
<1>4. TokensOK'
  <2>1. \A k \in DOMAIN tokens :
          (IF status = "lexed" /\ k = Len(tokens)
           THEN tokens[k].type = "Eof" /\ IsPlaced(tokens[k])
           ELSE GoodToken(tokens[k]))'
    BY <1>1, StaysPlaced DEF IInv, TokensOK, GoodToken
  <2>2. QED
    BY <1>1, <2>1 DEF IInv, TokensOK
<1>5. QED
  BY <1>1, <1>2, <1>3, <1>4 DEF IInv

LEMMA StepIInv ==
  ASSUME IInv, [Next]_vars
  PROVE  IInv' /\ (vars' # vars => idx' > idx \/ status' \in {"lexed", "error"})
<1>1. CASE StringLiteral
  BY <1>1, OpenMoves, EscapeMoves, CharMoves, CloseMoves, QuoteMoves DEF StringLiteral, Moves
<1>2. CASE OtherToken
  BY <1>2, SymbolMoves, NumberMoves, PunctuationMoves, OperatorMoves DEF OtherToken, Moves
<1>3. CASE SkipComment
  BY <1>3, CommentMoves DEF Moves
<1>4. CASE PushEof
  BY <1>4, EofMoves DEF Moves
<1>5. CASE UNCHANGED vars
  BY <1>5, StayIInv
<1>6. QED
  BY <1>1, <1>2, <1>3, <1>4, <1>5 DEF Next, Stopped

LEMMA Invariance == Spec => []IInv
  BY InitIInv, StepIInv, PTL DEF Spec

-----------------------------------------------------------------------------
(* What is placed has a column and a line above 0.                         *)
LEMMA PlacedPositive ==
  ASSUME NEW t, IsPlaced(t), text \in Seq(Char)
  PROVE  PositionOf(t) \in Position
<1>1. t.at \in 1 .. End /\ t.at \in Nat
  BY DEF IsPlaced, End
<1>2. Cardinality(LinesEnded(1, t.at)) \in Nat
  BY <1>1, LinesFinite
<1>3. QED
  BY <1>1, <1>2 DEF IsPlaced, Placed, PositionOf, Position

(* The lexer's state is well typed, and both numbers of every position it  *)
(* reports or puts into a token are above zero, as print_err() asserts.    *)
THEOREM Typing == Spec => []TypeOK
<1>1. IInv => TypeOK
  <2> SUFFICES ASSUME IInv PROVE TypeOK
    OBVIOUS
  <2>1. text \in Seq(Char)
    BY DEF IInv, Here
  <2>2. [at |-> idx, line_num |-> line_num, col_num |-> col_num] \in Position
    <3>1. idx \in 1 .. End /\ Placed(idx, line_num, col_num) /\ idx \in Nat
      BY DEF IInv, Here, End
    <3>2. Cardinality(LinesEnded(1, idx)) \in Nat
      BY <3>1, LinesFinite
    <3>3. QED
      BY <3>1, <3>2 DEF Placed, Position
  <2>3. open.type = "StrLiteral" /\ PositionOf(open) \in Position
    BY <2>1, PlacedPositive DEF IInv, OpenOK
  <2>4. \A k \in DOMAIN tokens : tokens[k].type \in TokenType /\ IsPlaced(tokens[k])
    BY DEF IInv, TokensOK, GoodToken, TokenType
  <2>5. \A k \in DOMAIN tokens : PositionOf(tokens[k]) \in Position
    BY <2>1, <2>4, PlacedPositive
  <2>6. QED
    BY <2>2, <2>3, <2>4, <2>5 DEF TypeOK, IInv
<1>2. QED
  BY <1>1, Invariance, PTL

(* In a text whose lines end in one way only newlines end lines: the       *)
(* second character behind a CR of such a text is never a newline that the *)
(* CR is not the beginning of.                                             *)
LEMMA UniformEnds ==
  ASSUME text \in Seq(Char), UniformLineEnds, NEW i \in DOMAIN text
  PROVE  EndsLine(i) <=> text[i] = "NL"
<1>1. i \in 1 .. Len(text) /\ Len(text) \in Nat
  OBVIOUS
<1>2. CASE text[i] # "CR"
  BY <1>2 DEF EndsLine
<1>3. CASE text[i] = "CR"
  <2>1. /\ CharAt(i + 1) = "NL"
        /\ \A k \in DOMAIN text : text[k] = "NL" => text[k - 1] = "CR"
    BY <1>3 DEF UniformLineEnds
  <2>2. i + 1 \in DOMAIN text /\ text[i + 1] = "NL"
    BY <1>1, <2>1 DEF CharAt, End
  <2>3. ASSUME CharAt(i + 2) = "NL" PROVE FALSE
    <3>1. i + 2 \in DOMAIN text /\ text[i + 2] = "NL"
      BY <1>1, <2>3 DEF CharAt, End
    <3>2. text[i + 1] = "CR"
      BY <1>1, <2>1, <3>1
    <3>3. QED
      BY <2>2, <3>2
  <2>4. QED
    BY <1>3, <2>3 DEF EndsLine
<1>4. QED
  BY <1>2, <1>3

LEMMA PlacedStands ==
  ASSUME text \in Seq(Char), UniformLineEnds, NEW i \in 1 .. End, NEW l, NEW c, Placed(i, l, c)
  PROVE  StandsAt(i, l, c)
<1>1. Len(text) \in Nat /\ End = Len(text) + 1
  BY DEF End
<1>2. \A p \in 1 .. i - 1 : EndsLine(p) <=> text[p] = "NL"
  BY <1>1, UniformEnds
<1>3. LinesEnded(1, i) = {p \in 1 .. i - 1 : text[p] = "NL"}
  BY <1>2 DEF LinesEnded
<1>4. c \in 1 .. i /\ l = 1 + Cardinality(LinesEnded(1, i))
  BY DEF Placed
<1>5. c = i \/ text[i - c] = "NL"
  BY <1>1, <1>2, <1>4 DEF Placed
<1>6. \A p \in i - c + 1 .. i - 1 : text[p] # "NL"
  BY <1>1, <1>2, <1>4 DEF Placed
<1>7. QED
  BY <1>3, <1>4, <1>5, <1>6 DEF StandsAt

(* Every token and every error of the lexer has the line and column its    *)
(* character has in the text, in texts of any length whose lines all end   *)
(* alike.                                                                  *)
THEOREM Positions == Spec => []PositionsTrue
<1>1. IInv => PositionsTrue
  <2> SUFFICES ASSUME IInv, UniformLineEnds
               PROVE  /\ StandsAt(idx, line_num, col_num)
                      /\ \A k \in DOMAIN tokens :
                           StandsAt(tokens[k].at, tokens[k].line_num, tokens[k].col_num)
    BY DEF PositionsTrue
  <2>1. text \in Seq(Char) /\ idx \in 1 .. End /\ Placed(idx, line_num, col_num)
    BY DEF IInv, Here
  <2>2. \A k \in DOMAIN tokens : IsPlaced(tokens[k])
    BY DEF IInv, TokensOK, GoodToken
  <2>3. QED
    BY <2>1, <2>2, PlacedStands DEF IsPlaced
<1>2. QED
  BY <1>1, Invariance, PTL

(* The tokens end in Eof, and in no other place is there one.              *)
THEOREM OneEof == Spec => []EofLast
<1>1. IInv => EofLast
  BY DEF IInv, TokensOK, GoodToken, EofLast
<1>2. QED
  BY <1>1, Invariance, PTL

(* With that the deque is one the parser is proved for: tokens of its      *)
(* types, none of them Eof, and an Eof behind them.                        *)
THEOREM HandsOver ==
  Spec => [](status = "lexed" =>
               \E s \in Seq(TokenType \ {"Eof"}) :
                 [k \in DOMAIN tokens |-> tokens[k].type] = Append(s, "Eof"))
<1>1. ASSUME IInv, status = "lexed"
      PROVE  \E s \in Seq(TokenType \ {"Eof"}) :
               [k \in DOMAIN tokens |-> tokens[k].type] = Append(s, "Eof")
  <2>1. PICK S : tokens \in Seq(S)
    BY <1>1 DEF IInv, TokensOK
  <2>2. tokens # <<>> /\ Len(tokens) \in Nat \ {0} /\ DOMAIN tokens = 1 .. Len(tokens)
    BY <1>1, <2>1 DEF IInv, TokensOK
  <2> DEFINE n == Len(tokens) - 1
             s == [k \in 1 .. n |-> tokens[k].type]
  <2>3. n \in Nat /\ \A k \in 1 .. n : tokens[k].type \in TokenType \ {"Eof"}
    BY <1>1, <2>2 DEF IInv, TokensOK, GoodToken
  <2>4. s \in Seq(TokenType \ {"Eof"}) /\ Len(s) = n
    BY <2>3
  <2>5. tokens[Len(tokens)].type = "Eof"
    BY <1>1, <2>2 DEF IInv, TokensOK
  <2>6. Append(s, "Eof") = [k \in 1 .. n + 1 |-> IF k \in 1 .. n THEN s[k] ELSE "Eof"]
    BY <2>3, <2>4
  <2>7. Append(s, "Eof") = [k \in DOMAIN tokens |-> tokens[k].type]
    BY <2>2, <2>3, <2>5, <2>6
  <2>8. QED
    BY <2>4, <2>7
<1>2. QED
  BY <1>1, Invariance, PTL

(* Every turn of a loop consumes a character or ends the lexer.            *)
THEOREM Progress == Spec => MovesOn
<1>1. IInv /\ [Next]_vars => [idx' > idx \/ status' \in {"lexed", "error"}]_vars
  BY StepIInv
<1>2. QED
  BY <1>1, Invariance, PTL DEF Spec, MovesOn

-----------------------------------------------------------------------------
(* What print_err() marks.                                                 *)
Newlines(i) == {p \in 1 .. i - 1 : text[p] = "NL"}

LEMMA NewlinesFinite ==
  ASSUME NEW i \in Nat
  PROVE  IsFiniteSet(Newlines(i)) /\ Cardinality(Newlines(i)) \in Nat
<1>1. IsFiniteSet(1 .. i - 1)
  BY FS_Interval
<1>2. IsFiniteSet(Newlines(i))
  BY <1>1, FS_Subset DEF Newlines
<1>3. QED
  BY <1>2, FS_CardinalityType

(* Behind a newline there are more of them.                                *)
LEMMA MoreNewlines ==
  ASSUME NEW i \in Nat, NEW k \in Nat, i <= k - 1, i >= 1, text[k - 1] = "NL"
  PROVE  Cardinality(Newlines(i)) < Cardinality(Newlines(k))
<1>1. IsFiniteSet(Newlines(k)) /\ Newlines(i) \subseteq Newlines(k)
  BY NewlinesFinite DEF Newlines
<1>2. k - 1 \in Newlines(k) /\ k - 1 \notin Newlines(i)
  BY DEF Newlines
<1>3. /\ Cardinality(Newlines(i)) <= Cardinality(Newlines(k))
      /\ Cardinality(Newlines(k)) = Cardinality(Newlines(i)) => Newlines(k) = Newlines(i)
  <2>1. Newlines(i) \in SUBSET Newlines(k)
    BY <1>1
  <2>2. QED
    BY <1>1, <2>1, FS_Subset
<1>4. Cardinality(Newlines(i)) \in Nat /\ Cardinality(Newlines(k)) \in Nat
  BY NewlinesFinite
<1>5. Newlines(k) # Newlines(i)
  BY <1>2
<1>6. QED
  BY <1>3, <1>4, <1>5

(* The line that the character at i is in, the one in front of the end of  *)
(* the text for the end, has the caret below that character.               *)
LEMMA CaretStands ==
  ASSUME text \in Seq(Char), NEW i \in 1 .. End, NEW l, NEW c, StandsAt(i, l, c),
         i = End => i > 1 /\ text[i - 1] # "NL"
  PROVE  Marked(text, l, c) = {i}
<1> DEFINE from == i - c + 1
           num(k) == 1 + Cardinality(Newlines(k))
<1>1. Len(text) \in Nat /\ End = Len(text) + 1 /\ DOMAIN text = 1 .. Len(text)
  BY DEF End
<1>2. /\ l = num(i) /\ c \in 1 .. i /\ (c = i \/ text[i - c] = "NL")
      /\ \A p \in i - c + 1 .. i - 1 : text[p] # "NL"
  BY DEF StandsAt, Newlines
<1>3. from \in DOMAIN text /\ (from = 1 \/ text[from - 1] = "NL") /\ from + c - 1 = i /\ from <= i
  <2>1. c \in Int /\ i \in Int /\ from - 1 = i - c
    BY <1>1, <1>2
  <2>2. c = 1 => i # End
    BY <1>1, <1>2
  <2>3. QED
    BY <1>1, <1>2, <2>1, <2>2
<1>4. Newlines(from) = Newlines(i)
  <2>1. \A p \in 1 .. i - 1 : text[p] = "NL" => p \in 1 .. from - 1
    BY <1>1, <1>2, <1>3
  <2>2. QED
    BY <1>1, <1>3, <2>1 DEF Newlines
<1> HIDE DEF from
<1>5. l = num(from) /\ l \in Nat
  <2>1. i \in Nat
    BY <1>1
  <2>2. Cardinality(Newlines(i)) \in Nat
    BY <2>1, NewlinesFinite
  <2>3. QED
    BY <1>2, <1>4, <2>2
<1>6. ASSUME NEW k \in DOMAIN text, k = 1 \/ text[k - 1] = "NL", num(k) = l
      PROVE  k = from
  <2>0. /\ k \in Nat /\ from \in Nat /\ i \in Nat /\ k >= 1 /\ from >= 1
        /\ Cardinality(Newlines(k)) \in Nat /\ Cardinality(Newlines(from)) \in Nat
        /\ Cardinality(Newlines(i)) \in Nat
    <3>1. k \in Nat /\ from \in Nat /\ i \in Nat /\ k >= 1 /\ from >= 1
      BY <1>1, <1>3
    <3>2. QED
      BY <3>1, NewlinesFinite
  <2>1. ~ (k < from)
    <3>1. k < from => Cardinality(Newlines(k)) < Cardinality(Newlines(from))
      BY <1>3, <2>0, MoreNewlines
    <3>2. QED
      BY <1>5, <1>6, <2>0, <3>1
  <2>2. ~ (from < k)
    <3>1. ASSUME from < k PROVE FALSE
      <4>1. text[k - 1] = "NL"
        BY <1>3, <1>6, <2>0, <3>1
      <4>2. ~ (k <= i)
        <5>1. k <= i => k - 1 \in from .. i - 1
          BY <2>0, <3>1
        <5>2. QED
          BY <1>2, <4>1, <5>1 DEF from
      <4>3. Cardinality(Newlines(i)) < Cardinality(Newlines(k))
        BY <2>0, <4>1, <4>2, MoreNewlines
      <4>4. QED
        BY <1>2, <1>6, <2>0, <4>3
    <3>2. QED
      BY <3>1
  <2>3. QED
    BY <2>0, <2>1, <2>2
<1>7. Lines(text) = {[num |-> num(k), from |-> k] : k \in {k \in DOMAIN text : k = 1 \/ text[k - 1] = "NL"}}
  BY DEF Lines, Newlines
<1>8. Marked(text, l, c) =
        {s.from + c - 1 : s \in {s \in Lines(text) : l - 2 <= s.num /\ s.num <= l + 2 /\ s.num = l}}
  BY DEF Marked, Shown, UpLimit, DownLimit
<1>9. {s \in Lines(text) : l - 2 <= s.num /\ s.num <= l + 2 /\ s.num = l} = {[num |-> l, from |-> from]}
  <2>1. [num |-> l, from |-> from] \in Lines(text)
    BY <1>3, <1>5, <1>7
  <2>2. ASSUME NEW s \in Lines(text), s.num = l PROVE s = [num |-> l, from |-> from]
    BY <1>6, <1>7, <2>2
  <2>3. l - 2 <= l /\ l <= l + 2
    BY <1>5
  <2>4. QED
    BY <2>1, <2>2, <2>3
<1>10. Marked(text, l, c) = {from + c - 1}
  <2> DEFINE m == [num |-> l, from |-> from]
  <2>1. m.from = from
    OBVIOUS
  <2>2. Marked(text, l, c) = {s.from + c - 1 : s \in {m}}
    BY <1>8, <1>9
  <2> HIDE DEF m
  <2>3. QED
    BY <2>1, <2>2
<1>11. QED
  BY <1>3, <1>10

(* Tokens begin in front of the end of the text, and an error at the end   *)
(* of the text is on the line of the character in front of it.             *)
InLine(i) == i > 1 /\ text[i - 1] # "NL"

CaretInv ==
  /\ \A k \in DOMAIN tokens : tokens[k].type # "Eof" => tokens[k].at < End
  /\ status = "string" => open.at < End /\ InLine(idx)
  /\ status = "error" /\ idx = End => InLine(idx)

LEMMA PushCaret ==
  ASSUME IInv, CaretInv, Lexing, NEW type, NEW value, NEW end, Push(NewToken(type, value), end)
  PROVE  CaretInv'
<1>1. PICK S : tokens \in Seq(S)
  BY DEF IInv, TokensOK
<1> DEFINE t == NewToken(type, value)
<1>2. t.at = idx /\ idx < End /\ status = "lexing"
  BY DEF NewToken, Lexing
<1>3. tokens' = Append(tokens, t) /\ text' = text /\ status' = "lexing"
  BY <1>2 DEF Push
<1> HIDE DEF t
<1>4. /\ DOMAIN tokens' = 1 .. Len(tokens) + 1 /\ tokens'[Len(tokens) + 1] = t
      /\ \A k \in 1 .. Len(tokens) : tokens'[k] = tokens[k] /\ k \in DOMAIN tokens
      /\ Len(tokens) \in Nat
  BY <1>1, <1>3
<1>5. \A k \in DOMAIN tokens' : tokens'[k].type # "Eof" => tokens'[k].at < End
  BY <1>2, <1>4 DEF CaretInv
<1>6. QED
  BY <1>3, <1>5 DEF CaretInv, End

LEMMA ThrowCaret ==
  ASSUME IInv, CaretInv, NEW end, ThrowAt(end), end = End => InLine(end)
  PROVE  CaretInv'
BY DEF CaretInv, ThrowAt, MoveTo, End, InLine

LEMMA NumberCaret == ASSUME IInv, CaretInv, GetNumericLiteral PROVE CaretInv'
<1>1. status = "lexing" /\ idx < End /\ idx \in 1 .. End /\ End = Len(text) + 1 /\ Len(text) \in Nat /\ Lexing
  <2>1. text \in Seq(Char) /\ idx \in 1 .. End
    BY DEF IInv, Here
  <2>2. Lexing /\ status = "lexing" /\ idx < End
    BY DEF GetNumericLiteral, Lexing
  <2>3. QED
    BY <2>1, <2>2 DEF End
<1>2. PICK from \in idx .. End, base \in {8, 10, 16} :
        /\ ThrowAt(from) \/ GetDigits(from, base)
        /\ from = End => InLine(from)
  <2>1. CASE Cur = "0" /\ Peek = "x"
    <3>1. idx + 2 \in idx .. End /\ text[idx + 1] = "x"
      BY <1>1, <2>1 DEF Peek, CharAt
    <3>2. InLine(idx + 2)
      BY <1>1, <3>1 DEF InLine
    <3>3. QED
      BY <2>1, <3>1, <3>2 DEF GetNumericLiteral
  <2>2. CASE ~ (Cur = "0" /\ Peek = "x")
    <3>1. idx \in idx .. End /\ idx # End
      BY <1>1
    <3>2. QED
      BY <2>2, <3>1 DEF GetNumericLiteral
  <2>3. QED
    BY <2>1, <2>2
<1>3. CASE ThrowAt(from)
  BY <1>2, <1>3, ThrowCaret
<1>4. CASE GetDigits(from, base)
  <2>1. PICK end \in from .. End :
          /\ Run(from, end, Digits(base) \union {Underscore})
          /\ \/ ThrowAt(end)
             \/ Push(NewToken("IntLiteral", Number(Slice(from, end), base)), end)
    BY <1>4 DEF GetDigits
  <2>2. CASE Push(NewToken("IntLiteral", Number(Slice(from, end), base)), end)
    BY <1>1, <2>2, PushCaret
  <2>3. CASE ThrowAt(end)
    <3>1. ASSUME end = End, end # from PROVE InLine(end)
      <4>1. end - 1 \in from .. end - 1 /\ end > 1
        <5>1. end \in from .. End /\ from \in idx .. End
          OBVIOUS
        <5>2. QED
          BY <1>1, <5>1, <3>1
      <4>2. text[end - 1] \in Digits(base) \union {Underscore}
        BY <2>1, <4>1 DEF Run
      <4>3. "NL" \notin Digits(base) \union {Underscore}
        BY Zenon DEF Digits, DigitValue, Numeric, Octal, Underscore
      <4>4. QED
        BY <4>1, <4>2, <4>3 DEF InLine
    <3>2. QED
      BY <1>2, <2>3, <3>1, ThrowCaret
  <2>4. QED
    BY <2>1, <2>2, <2>3
<1>5. QED
  BY <1>2, <1>3, <1>4

LEMMA WordsCaret ==
  ASSUME IInv, CaretInv, GetSymbol \/ GetPunctuation \/ GetOperator
  PROVE  CaretInv'
<1>1. Lexing
  BY DEF GetSymbol, GetPunctuation, GetOperator
<1>2. CASE ThrowAt(idx)
  BY <1>1, <1>2, ThrowCaret DEF Lexing, IInv, Here, End
<1>3. ASSUME NEW type, NEW value, NEW end, Push(NewToken(type, value), end) PROVE CaretInv'
  BY <1>1, <1>3, PushCaret
<1>4. QED
  BY <1>2, <1>3 DEF GetSymbol, GetPunctuation, GetOperator

LEMMA StringCaret ==
  ASSUME IInv, CaretInv, StringLiteral
  PROVE  CaretInv'
<1>1. idx \in 1 .. End /\ End = Len(text) + 1 /\ Len(text) \in Nat
  BY DEF IInv, Here, End
<1>2. CASE OpenString
  <2>1. /\ idx < End /\ idx' = idx + 1 /\ text[idx] = Quote /\ status' = "string"
        /\ open'.at = idx /\ text' = text /\ tokens' = tokens
    BY <1>2 DEF OpenString, Lexing, Cur, CharAt, NewToken, MoveTo
  <2>2. InLine(idx)'
    <3>1. idx' > 1 /\ idx' - 1 = idx
      BY <1>1, <2>1
    <3>2. text'[idx' - 1] = Quote
      BY <2>1, <3>1
    <3>3. Quote # "NL"
      BY DEF Quote
    <3>4. QED
      BY <3>1, <3>2, <3>3 DEF InLine
  <2>3. QED
    BY <2>1, <2>2 DEF CaretInv, End
<1>3. CASE ReadEscape
  <2>1. CASE ThrowAt(idx)
    <3>1. idx # End
      BY <1>1, <1>3 DEF ReadEscape, InString
    <3>2. QED
      BY <2>1, <3>1, ThrowCaret
  <2>2. CASE Peek \in DOMAIN Escapes /\ Read(Escapes[Peek], idx + 2)
    <3>1. Peek \notin {"none", "NL"}
      BY <2>2 DEF Escapes, Quote, Backslash
    <3>2. text[idx + 1] # "NL"
      BY <1>1, <3>1 DEF Peek, CharAt
    <3>3. /\ idx' = idx + 2 /\ status' = status /\ text' = text /\ tokens' = tokens
          /\ status = "string" /\ open' = [open EXCEPT !.value = Append(open.value, Escapes[Peek])]
      BY <1>3, <2>2 DEF Read, MoveTo, ReadEscape, InString
    <3>4. open'.at = open.at
      BY <3>3 DEF IInv, OpenOK
    <3>5. InLine(idx)'
      BY <1>1, <3>2, <3>3 DEF InLine
    <3>6. QED
      BY <3>3, <3>4, <3>5 DEF CaretInv, End
  <2>3. QED
    BY <1>3, <2>1, <2>2 DEF ReadEscape
<1>4. CASE ReadChar
  <2>1. CASE ThrowAt(idx)
    <3>1. idx # End
      BY <1>1, <1>4 DEF ReadChar, InString
    <3>2. QED
      BY <2>1, <3>1, ThrowCaret
  <2>2. CASE Cur # "NL" /\ Read(Cur, idx + 1)
    <3>1. idx < End /\ text[idx] # "NL"
      BY <1>4, <2>2 DEF ReadChar, InString, Cur, CharAt
    <3>3. /\ idx' = idx + 1 /\ status' = status /\ text' = text /\ tokens' = tokens
          /\ status = "string" /\ open' = [open EXCEPT !.value = Append(open.value, Cur)]
      BY <1>4, <2>2 DEF Read, MoveTo, ReadChar, InString
    <3>4. open'.at = open.at
      BY <3>3 DEF IInv, OpenOK
    <3>5. InLine(idx)'
      BY <1>1, <3>1, <3>3 DEF InLine
    <3>6. QED
      BY <3>3, <3>4, <3>5 DEF CaretInv, End
  <2>3. QED
    BY <1>4, <2>1, <2>2 DEF ReadChar
<1>5. CASE CloseString
  <2>1. PICK S : tokens \in Seq(S)
    BY DEF IInv, TokensOK
  <2>2. PICK t : t = open
    OBVIOUS
  <2>3. tokens' = Append(tokens, t) /\ text' = text /\ status' = "lexing" /\ t.at < End
    BY <1>5, <2>2 DEF CloseString, CaretInv
  <2>4. /\ DOMAIN tokens' = 1 .. Len(tokens) + 1 /\ tokens'[Len(tokens) + 1] = t
        /\ \A k \in 1 .. Len(tokens) : tokens'[k] = tokens[k] /\ k \in DOMAIN tokens
        /\ Len(tokens) \in Nat
    BY <2>1, <2>3
  <2>5. \A k \in DOMAIN tokens' : tokens'[k].type # "Eof" => tokens'[k].at < End
    BY <2>3, <2>4 DEF CaretInv
  <2>6. QED
    BY <2>3, <2>5 DEF CaretInv, End
<1>6. CASE NoMatchingQuote
  <2>1. ThrowAt(idx) /\ InLine(idx)
    BY <1>6 DEF NoMatchingQuote, CaretInv
  <2>2. QED
    BY <2>1, ThrowCaret
<1>7. QED
  BY <1>2, <1>3, <1>4, <1>5, <1>6 DEF StringLiteral

LEMMA EofCaret == ASSUME IInv, CaretInv, PushEof PROVE CaretInv'
<1>1. PICK S : tokens \in Seq(S)
  BY DEF IInv, TokensOK
<1>2. PICK t : t = NewToken("Eof", <<>>)
  OBVIOUS
<1>3. tokens' = Append(tokens, t) /\ text' = text /\ status' = "lexed" /\ t.type = "Eof"
  BY <1>2 DEF PushEof, NewToken
<1>4. /\ DOMAIN tokens' = 1 .. Len(tokens) + 1 /\ tokens'[Len(tokens) + 1] = t
      /\ \A k \in 1 .. Len(tokens) : tokens'[k] = tokens[k] /\ k \in DOMAIN tokens
      /\ Len(tokens) \in Nat
  BY <1>1, <1>3
<1>5. \A k \in DOMAIN tokens' : tokens'[k].type # "Eof" => tokens'[k].at < End
  BY <1>3, <1>4 DEF CaretInv
<1>6. QED
  BY <1>3, <1>5 DEF CaretInv, End

LEMMA CaretNext == ASSUME IInv, CaretInv, [Next]_vars PROVE CaretInv'
<1>1. CASE OtherToken
  BY <1>1, WordsCaret, NumberCaret DEF OtherToken
<1>2. CASE SkipComment
  BY <1>2 DEF SkipComment, Lexing, CaretInv, End
<1>3. CASE UNCHANGED vars
  BY <1>3 DEF vars, CaretInv, End, InLine
<1>4. QED
  BY <1>1, <1>2, <1>3, StringCaret, EofCaret DEF Next, Stopped

(* The report of a lexer error has its caret below the character the lexer *)
(* stopped at, and that of a later stage below the first character of its  *)
(* token, in texts of any length whose lines all end alike.                *)
THEOREM CaretsPoint == Spec => []CaretPoints
<1>1. Init => CaretInv
  BY DEF Init, CaretInv
<1>2. IInv /\ CaretInv /\ [Next]_vars => CaretInv'
  BY CaretNext
<1>3. IInv /\ CaretInv => CaretPoints
  <2> SUFFICES ASSUME IInv, CaretInv, UniformLineEnds
               PROVE  /\ status = "error" => Marked(text, line_num, col_num) = {idx}
                      /\ \A k \in DOMAIN tokens :
                           tokens[k].type # "Eof" =>
                             Marked(text, tokens[k].line_num, tokens[k].col_num) = {tokens[k].at}
    BY DEF CaretPoints
  <2>1. text \in Seq(Char) /\ idx \in 1 .. End /\ Placed(idx, line_num, col_num)
    BY DEF IInv, Here
  <2>2. StandsAt(idx, line_num, col_num)
    BY <2>1, PlacedStands
  <2>3. \A k \in DOMAIN tokens :
          tokens[k].at \in 1 .. End /\ Placed(tokens[k].at, tokens[k].line_num, tokens[k].col_num)
    BY DEF IInv, TokensOK, GoodToken, IsPlaced
  <2>4. \A k \in DOMAIN tokens : StandsAt(tokens[k].at, tokens[k].line_num, tokens[k].col_num)
    BY <2>1, <2>3, PlacedStands
  <2>5. status = "error" => Marked(text, line_num, col_num) = {idx}
    BY <2>1, <2>2, CaretStands DEF CaretInv, InLine
  <2>6. ASSUME NEW k \in DOMAIN tokens, tokens[k].type # "Eof"
        PROVE  Marked(text, tokens[k].line_num, tokens[k].col_num) = {tokens[k].at}
    <3>1. tokens[k].at < End
      BY <2>6 DEF CaretInv
    <3>2. tokens[k].at # End
      BY <2>1, <2>3, <3>1 DEF End
    <3>3. QED
      BY <2>1, <2>3, <2>4, <3>2, CaretStands
  <2>7. QED
    BY <2>5, <2>6
<1>4. QED
  BY <1>1, <1>2, <1>3, Invariance, PTL DEF Spec

-----------------------------------------------------------------------------
(* The value of the digits of a number.                                    *)
LEMMA PlaceDef ==
  ASSUME NEW S, NEW s \in Seq(S), NEW base \in Nat
  PROVE  /\ Place(s, base) \in [1 .. Len(s) + 1 -> Nat] /\ Place(s, base)[Len(s) + 1] = 1
         /\ \A k \in 1 .. Len(s) :
              Place(s, base)[k] = IF s[k] = Underscore THEN Place(s, base)[k + 1]
                                  ELSE base * Place(s, base)[k + 1]
<1>0. \A v \in Nat : base * v \in Nat
  <2> TAKE v \in Nat
  <2> QED OBVIOUS
<1>1. PICK n \in Nat : n = Len(s)
  OBVIOUS
<1> DEFINE F(place) == [k \in 1 .. n + 1 |->
                          IF k > n THEN 1 ELSE IF s[k] = Underscore THEN place[k + 1]
                          ELSE base * place[k + 1]]
           step == [k \in 1 .. n |-> [v \in Nat |-> IF s[k] = Underscore THEN v ELSE base * v]]
<1>2. /\ n + 1 \in 1 .. n + 1 /\ n + 1 > n
      /\ \A k \in 1 .. n + 1 : k > n => k = n + 1
      /\ \A k \in 1 .. n + 1 : ~ (k > n) => k \in 1 .. n
      /\ \A k \in 1 .. n : k \in 1 .. n + 1 /\ ~ (k > n) /\ k + 1 \in 1 .. n + 1
  OBVIOUS
<1>3. PICK h \in [1 .. n + 1 -> Nat] : h = F(h)
  <2>1. step \in [1 .. n -> [Nat -> Nat]]
    BY <1>0
  <2>2. PICK h \in [1 .. n + 1 -> Nat] : RepeatsDown(h, n, 1, step)
    <3> HIDE DEF step
    <3> QED BY <2>1, SuffixRecursion
  <2>3. h[n + 1] = 1 /\ \A k \in 1 .. n : h[k] = IF s[k] = Underscore THEN h[k + 1] ELSE base * h[k + 1]
    BY <1>2, <2>2 DEF RepeatsDown
  <2>4. \A k \in 1 .. n + 1 : h[k] = F(h)[k]
    BY <1>2, <2>3
  <2>5. QED
    BY <2>4
<1>4. PICK p : p = Place(s, base)
  OBVIOUS
<1>5. p = F(p)
  <2>1. p = CHOOSE place : place = F(place)
    BY <1>1, <1>4 DEF Place
  <2> HIDE DEF F
  <2> QED BY <1>3, <2>1
<1>6. p[n + 1] = 1 /\ \A k \in 1 .. n : p[k] = IF s[k] = Underscore THEN p[k + 1] ELSE base * p[k + 1]
  BY <1>2, <1>5
<1>7. p \in [1 .. n + 1 -> Nat]
  <2>1. p[n + 1] \in Nat
    BY <1>6
  <2>2. ASSUME NEW k \in 1 .. n, p[k + 1] \in Nat PROVE p[k] \in Nat
    <3>1. p[k] = IF s[k] = Underscore THEN p[k + 1] ELSE base * p[k + 1]
      BY <1>6
    <3>2. base * p[k + 1] \in Nat
      BY <1>0, <2>2
    <3>3. QED
      BY <2>2, <3>1, <3>2
  <2>3. DOMAIN p = 1 .. n + 1 /\ p = [k \in 1 .. n + 1 |-> p[k]]
    BY <1>5
  <2> HIDE DEF F
  <2>4. QED
    BY <2>1, <2>2, <2>3, SuffixTyped
<1>8. QED
  BY <1>1, <1>4, <1>6, <1>7

(* The digits of a base are among those DigitValue knows.                  *)
LEMMA DigitsOf ==
  ASSUME NEW base \in {8, 10, 16}
  PROVE  /\ \A c \in Digits(base) : DigitValue[c] \in Nat /\ DigitValue[c] < base /\ c # Underscore
         /\ Digits(8) = Octal /\ Digits(10) = Numeric /\ Digits(16) = HexDigits
<1>1. \A c \in Digits(base) : c \in DOMAIN DigitValue
  BY DEF Digits
<1>2. \A c \in DOMAIN DigitValue : DigitValue[c] \in Nat
  BY DEF DigitValue, Numeric, Octal
<1>7. \A c \in DOMAIN DigitValue : c # Underscore
  BY Zenon DEF DigitValue, Numeric, Octal, Underscore
<1>3. Digits(8) = Octal
  BY DEF Digits, DigitValue, Numeric, Octal
<1>4. Digits(10) = Numeric
  BY DEF Digits, DigitValue, Numeric, Octal
<1>5. Digits(16) = HexDigits
  BY DEF Digits, DigitValue, Numeric, Octal, HexDigits
<1>6. QED
  BY <1>1, <1>2, <1>3, <1>4, <1>5, <1>7 DEF Digits

LEMMA WorthDef ==
  ASSUME NEW base \in {8, 10, 16}, NEW D, D = Digits(base) \union {Underscore}, NEW s \in Seq(D)
  PROVE  /\ Worth(s, base) \in [1 .. Len(s) + 1 -> Nat] /\ Worth(s, base)[Len(s) + 1] = 0
         /\ \A k \in 1 .. Len(s) :
              Worth(s, base)[k] =
                IF s[k] = Underscore THEN Worth(s, base)[k + 1]
                ELSE DigitValue[s[k]] * Place(s, base)[k + 1] + Worth(s, base)[k + 1]
<1>1. PICK n \in Nat : n = Len(s)
  OBVIOUS
<1>0. PICK c : /\ c \in [1 .. n -> Nat]
               /\ \A k \in 1 .. n : s[k] # Underscore => c[k] = DigitValue[s[k]] * Place(s, base)[k + 1]
  <2> DEFINE c == [k \in 1 .. n |-> IF s[k] = Underscore THEN 0 ELSE DigitValue[s[k]] * Place(s, base)[k + 1]]
  <2>1. ASSUME NEW k \in 1 .. n, s[k] # Underscore PROVE DigitValue[s[k]] * Place(s, base)[k + 1] \in Nat
    <3>0. s[k] \in Digits(base)
      BY <1>1, <2>1
    <3>1. DigitValue[s[k]] \in Nat
      BY <3>0, DigitsOf
    <3>2. base \in Nat /\ k + 1 \in 1 .. n + 1
      OBVIOUS
    <3>3. Place(s, base)[k + 1] \in Nat
      BY <1>1, <3>2, PlaceDef
    <3>4. \A x, y \in Nat : x * y \in Nat
      OBVIOUS
    <3>5. QED
      BY <3>1, <3>3, <3>4
  <2>2. c \in [1 .. n -> Nat]
    BY <2>1
  <2>3. \A k \in 1 .. n : s[k] # Underscore => c[k] = DigitValue[s[k]] * Place(s, base)[k + 1]
    OBVIOUS
  <2> HIDE DEF c
  <2>4. QED
    BY <2>2, <2>3
<1> DEFINE F(worth) == [k \in 1 .. n + 1 |->
                          IF k > n THEN 0 ELSE IF s[k] = Underscore THEN worth[k + 1]
                          ELSE DigitValue[s[k]] * Place(s, base)[k + 1] + worth[k + 1]]
           step == [k \in 1 .. n |-> [v \in Nat |-> IF s[k] = Underscore THEN v ELSE c[k] + v]]
<1>2. /\ n + 1 \in 1 .. n + 1 /\ n + 1 > n
      /\ \A k \in 1 .. n + 1 : k > n => k = n + 1
      /\ \A k \in 1 .. n + 1 : ~ (k > n) => k \in 1 .. n
      /\ \A k \in 1 .. n : k \in 1 .. n + 1 /\ ~ (k > n) /\ k + 1 \in 1 .. n + 1
  OBVIOUS
<1>3. PICK h \in [1 .. n + 1 -> Nat] : h = F(h)
  <2>1. step \in [1 .. n -> [Nat -> Nat]]
    BY <1>0
  <2>2. PICK h \in [1 .. n + 1 -> Nat] : RepeatsDown(h, n, 0, step)
    <3> HIDE DEF step
    <3> QED BY <2>1, SuffixRecursion
  <2>3. h[n + 1] = 0 /\ \A k \in 1 .. n : h[k] = IF s[k] = Underscore THEN h[k + 1] ELSE c[k] + h[k + 1]
    BY <1>2, <2>2 DEF RepeatsDown
  <2>4. \A k \in 1 .. n + 1 : h[k] = F(h)[k]
    BY <1>0, <1>2, <2>3
  <2>5. QED
    BY <2>4
<1>4. PICK p : p = Worth(s, base)
  OBVIOUS
<1>5. p = F(p)
  <2>1. p = CHOOSE worth : worth = F(worth)
    BY <1>1, <1>4 DEF Worth
  <2> HIDE DEF F
  <2> QED BY <1>3, <2>1
<1>6. p[n + 1] = 0 /\ \A k \in 1 .. n : p[k] = IF s[k] = Underscore THEN p[k + 1] ELSE c[k] + p[k + 1]
  <2>1. p[n + 1] = 0
    BY <1>2, <1>5
  <2>2. ASSUME NEW k \in 1 .. n PROVE p[k] = IF s[k] = Underscore THEN p[k + 1] ELSE c[k] + p[k + 1]
    <3>1. k \in 1 .. n + 1 /\ ~ (k > n)
      BY <1>2
    <3>2. p[k] = F(p)[k]
      <4> HIDE DEF F
      <4> QED BY <1>5
    <3>3. QED
      BY <1>0, <3>1, <3>2
  <2>3. QED
    BY <2>1, <2>2
<1>7. p \in [1 .. n + 1 -> Nat]
  <2>1. p[n + 1] \in Nat
    BY <1>6
  <2>2. ASSUME NEW k \in 1 .. n, p[k + 1] \in Nat PROVE p[k] \in Nat
    <3>1. p[k] = IF s[k] = Underscore THEN p[k + 1] ELSE c[k] + p[k + 1]
      BY <1>6
    <3>2. c[k] \in Nat
      BY <1>0
    <3>3. QED
      BY <2>2, <3>1, <3>2
  <2>3. DOMAIN p = 1 .. n + 1 /\ p = [k \in 1 .. n + 1 |-> p[k]]
    BY <1>5
  <2> HIDE DEF F
  <2>4. QED
    BY <2>1, <2>2, <2>3, SuffixTyped
<1>8. QED
  BY <1>0, <1>1, <1>4, <1>6, <1>7

(* stoi() computes what the digits are worth at their places.              *)
LEMMA NumberIs ==
  ASSUME NEW base \in {8, 10, 16}, NEW D, D = Digits(base) \union {Underscore}, NEW s \in Seq(D)
  PROVE  /\ s = <<>> => Number(s, base) = -1
         /\ s # <<>> => Number(s, base) = Positional(s, base)
         /\ Positional(s, base) \in Nat
<1>0. PICK b \in Nat : b = base
  OBVIOUS
<1>1. PICK n \in Nat : n = Len(s)
  OBVIOUS
<1>2. PICK d \in [1 .. n -> Nat] : \A k \in 1 .. n : s[k] # Underscore => d[k] = DigitValue[s[k]]
  <2> DEFINE d == [k \in 1 .. n |-> IF s[k] = Underscore THEN 0 ELSE DigitValue[s[k]]]
  <2>1. ASSUME NEW k \in 1 .. n, s[k] # Underscore PROVE DigitValue[s[k]] \in Nat
    <3>1. s[k] \in Digits(base)
      BY <1>1, <2>1
    <3>2. QED
      BY <3>1, DigitsOf
  <2>2. d \in [1 .. n -> Nat]
    BY <2>1
  <2>3. \A k \in 1 .. n : s[k] # Underscore => d[k] = DigitValue[s[k]]
    OBVIOUS
  <2> HIDE DEF d
  <2>4. QED
    BY <2>2, <2>3
<1>3. PICK P \in [1 .. n + 1 -> Nat], W \in [1 .. n + 1 -> Nat] :
        /\ P = Place(s, base) /\ W = Worth(s, base)
        /\ P[n + 1] = 1 /\ W[n + 1] = 0
        /\ \A k \in 1 .. n : /\ P[k] = IF s[k] = Underscore THEN P[k + 1] ELSE b * P[k + 1]
                             /\ W[k] = IF s[k] = Underscore THEN W[k + 1] ELSE d[k] * P[k + 1] + W[k + 1]
  <2>1. /\ Place(s, base) \in [1 .. n + 1 -> Nat] /\ Place(s, base)[n + 1] = 1
        /\ \A k \in 1 .. n : Place(s, base)[k] = IF s[k] = Underscore THEN Place(s, base)[k + 1]
                                               ELSE base * Place(s, base)[k + 1]
    BY <1>0, <1>1, PlaceDef
  <2>2. /\ Worth(s, base) \in [1 .. n + 1 -> Nat] /\ Worth(s, base)[n + 1] = 0
        /\ \A k \in 1 .. n :
             Worth(s, base)[k] =
               IF s[k] = Underscore THEN Worth(s, base)[k + 1]
               ELSE DigitValue[s[k]] * Place(s, base)[k + 1] + Worth(s, base)[k + 1]
    <3>1. /\ Worth(s, base) \in [1 .. Len(s) + 1 -> Nat] /\ Worth(s, base)[Len(s) + 1] = 0
          /\ \A k \in 1 .. Len(s) :
               Worth(s, base)[k] =
                 IF s[k] = Underscore THEN Worth(s, base)[k + 1]
                 ELSE DigitValue[s[k]] * Place(s, base)[k + 1] + Worth(s, base)[k + 1]
      BY WorthDef
    <3>2. QED
      BY <1>1, <3>1, Zenon
  <2>3. PICK P, W : P = Place(s, base) /\ W = Worth(s, base)
    OBVIOUS
  <2>4. ASSUME NEW k \in 1 .. n
        PROVE  /\ P[k] = IF s[k] = Underscore THEN P[k + 1] ELSE b * P[k + 1]
               /\ W[k] = IF s[k] = Underscore THEN W[k + 1] ELSE d[k] * P[k + 1] + W[k + 1]
    BY <1>0, <1>2, <2>1, <2>2, <2>3
  <2>5. /\ P \in [1 .. n + 1 -> Nat] /\ P[n + 1] = 1
        /\ W \in [1 .. n + 1 -> Nat] /\ W[n + 1] = 0
    BY <2>1, <2>2, <2>3
  <2>6. QED
    BY <2>3, <2>4, <2>5, Zenon
<1> DEFINE F(value) == [k \in 0 .. n |->
                          IF k = 0 THEN 0 ELSE IF s[k] = Underscore THEN value[k - 1]
                          ELSE value[k - 1] * base + DigitValue[s[k]]]
           step == [k \in 1 .. n |-> [v \in Nat |-> IF s[k] = Underscore THEN v ELSE v * b + d[k]]]
<1>4. /\ 0 \in 0 .. n
      /\ \A k \in 0 .. n : k # 0 => k \in 1 .. n
      /\ \A k \in 1 .. n : k \in 0 .. n /\ k # 0 /\ k - 1 \in 0 .. n
  OBVIOUS
<1>5. PICK h \in [0 .. n -> Nat] : h = F(h)
  <2>1. step \in [1 .. n -> [Nat -> Nat]]
    <3>1. ASSUME NEW k \in 1 .. n, NEW v \in Nat PROVE v * b + d[k] \in Nat
      <4>1. \A x, y \in Nat : x * y \in Nat /\ x + y \in Nat
        OBVIOUS
      <4>2. d[k] \in Nat
        BY <1>2
      <4>3. QED
        BY <4>1, <4>2
    <3>2. QED
      BY <3>1
  <2>2. PICK h \in [0 .. n -> Nat] : Repeats(h, n, 0, step)
    <3> HIDE DEF step
    <3> QED BY <2>1, PrefixRecursion
  <2>3. h[0] = 0 /\ \A k \in 1 .. n : h[k] = IF s[k] = Underscore THEN h[k - 1] ELSE h[k - 1] * b + d[k]
    BY <1>4, <2>2 DEF Repeats
  <2>4. \A k \in 0 .. n : h[k] = F(h)[k]
    BY <1>0, <1>2, <1>4, <2>3
  <2>5. QED
    BY <2>4
<1>6. PICK v : v = F(v) /\ (s # <<>> => Number(s, base) = v[n])
  <2> DEFINE v == CHOOSE value : value = F(value)
  <2>1. s # <<>> => Number(s, base) = v[n]
    BY <1>1 DEF Number
  <2>2. v = F(v)
    <3> HIDE DEF F
    <3> QED BY <1>5
  <2> HIDE DEF v, F
  <2>3. QED
    BY <2>1, <2>2
<1>7. v[0] = 0
  BY <1>4, <1>6
<1>8. ASSUME NEW k \in 1 .. n
      PROVE  v[k] = IF s[k] = Underscore THEN v[k - 1] ELSE v[k - 1] * b + d[k]
  <2>1. k \in 0 .. n /\ k # 0
    OBVIOUS
  <2>2. v[k] = F(v)[k]
    <3> HIDE DEF F
    <3> QED BY <1>6
  <2>3. QED
    BY <1>0, <1>2, <2>1, <2>2
<1> DEFINE A == {j \in Nat : j <= n => v[j] \in Nat /\ v[j] * P[j + 1] + W[j + 1] = W[1]}
<1>9. 0 \in A
  <2>1. 1 \in 1 .. n + 1 /\ 0 + 1 = 1
    OBVIOUS
  <2>2. W[1] \in Nat /\ P[1] \in Nat
    BY <2>1
  <2>3. 0 * P[1] + W[1] = W[1]
    BY <2>2
  <2>4. QED
    BY <1>7, <2>3
<1>10. ASSUME NEW j \in Nat, j \in A PROVE j + 1 \in A
  <2> SUFFICES ASSUME NEW k \in 1 .. n, k = j + 1
               PROVE  v[k] \in Nat /\ v[k] * P[k + 1] + W[k + 1] = W[1]
    OBVIOUS
  <2>1. v[k - 1] \in Nat /\ v[k - 1] * P[k] + W[k] = W[1]
    BY <1>10
  <2> DEFINE u == v[k - 1]
             p == P[k + 1]
             w == W[k + 1]
  <2>2. u \in Nat /\ d[k] \in Nat /\ p \in Nat /\ w \in Nat
    <3>1. k + 1 \in 1 .. n + 1
      OBVIOUS
    <3>2. QED
      BY <2>1, <3>1
  <2>3. CASE s[k] = Underscore
    <3>1. v[k] = v[k - 1] /\ P[k] = P[k + 1] /\ W[k] = W[k + 1]
      BY <1>3, <1>8, <2>3, Zenon
    <3>2. QED
      BY <2>1, <3>1
  <2>4. CASE s[k] # Underscore
    <3>1. v[k] = u * b + d[k] /\ P[k] = b * p /\ W[k] = d[k] * p + w
      BY <1>3, <1>8, <2>4, Zenon
    <3>2. u * (b * p) + (d[k] * p + w) = W[1]
      BY <2>1, <3>1, Zenon
    <3>3. (u * b + d[k]) * p + w = W[1]
      <4> HIDE DEF u, p, w
      <4>1. PICK c \in Nat : c = d[k]
        BY <2>2
      <4>2. (u * b + c) * p + w = u * (b * p) + (c * p + w)
        <5>1. (u * b + c) * p = u * b * p + c * p
          BY <2>2
        <5>2. u * (b * p) = u * b * p
          BY <2>2
        <5>3. u * b * p \in Nat /\ c * p \in Nat
          BY <2>2
        <5>4. QED
          BY <2>2, <5>1, <5>2, <5>3
      <4>3. QED
        BY <3>2, <4>1, <4>2, Zenon
    <3>4. v[k] * p + w = W[1]
      BY <3>1, <3>3, Zenon
    <3>5. u * b + d[k] \in Nat
      <4>1. \A x, y \in Nat : x * y \in Nat /\ x + y \in Nat
        OBVIOUS
      <4> HIDE DEF u
      <4> QED BY <2>2, <4>1, Zenon
    <3>6. QED
      BY <3>1, <3>4, <3>5, Zenon
  <2>5. QED
    BY <2>3, <2>4
<1>11. n \in A
  <2> HIDE DEF A
  <2> QED BY <1>9, <1>10, NaturalInduction
<1>12. v[n] \in Nat /\ v[n] * P[n + 1] + W[n + 1] = W[1]
  BY <1>11
<1>13. v[n] = W[1]
  <2>1. v[n] * 1 + 0 = W[1]
    BY <1>3, <1>12
  <2>2. QED
    BY <1>12, <2>1
<1>14. QED
  <2>1. 1 \in 1 .. n + 1
    OBVIOUS
  <2>2. s = <<>> => Number(s, base) = -1
    BY DEF Number
  <2> HIDE DEF F, A
  <2>3. QED
    BY <1>3, <1>6, <1>13, <2>1, <2>2 DEF Positional

-----------------------------------------------------------------------------
LEMMA SliceIs ==
  ASSUME text \in Seq(Char), NEW i \in 1 .. End, NEW end \in i .. End
  PROVE  /\ Slice(i, end) \in Seq(Char) /\ Len(Slice(i, end)) = end - i
         /\ \A k \in 1 .. end - i : Slice(i, end)[k] = text[i + k - 1]
         /\ Slice(i, end) = <<>> <=> end = i
<1>1. Len(text) \in Nat /\ End = Len(text) + 1 /\ i \in Int /\ end \in Int /\ end - 1 \in Int
  BY DEF End
<1>2. \A k \in i .. end - 1 : text[k] \in Char
  BY <1>1
<1>3. /\ SubSeq(text, i, end - 1) \in Seq(Char)
      /\ Len(SubSeq(text, i, end - 1)) = IF i <= end - 1 THEN end - 1 - i + 1 ELSE 0
      /\ \A k \in 1 .. end - 1 - i + 1 : SubSeq(text, i, end - 1)[k] = text[i + k - 1]
  BY <1>1, <1>2, SubSeqProperties
<1>4. end - 1 - i + 1 = end - i /\ (i <= end - 1 \/ end = i)
  BY <1>1
<1>5. PICK s \in Seq(Char) : s = Slice(i, end)
  BY <1>3 DEF Slice
<1>6. Len(s) = end - i /\ \A k \in 1 .. end - i : s[k] = text[i + k - 1]
  BY <1>1, <1>3, <1>4, <1>5 DEF Slice
<1>7. s = <<>> <=> end = i
  BY <1>1, <1>6
<1>8. QED
  BY <1>5, <1>6, <1>7

(* What is behind the first characters of a slice, and inside a slice.     *)
LEMMA SliceParts ==
  ASSUME text \in Seq(Char), NEW i \in 1 .. End, NEW end \in i + 1 .. End
  PROVE  /\ Tail(Slice(i, end)) = Slice(i + 1, end)
         /\ end > i + 1 => /\ Behind(Slice(i, end), 2) = Slice(i + 2, end)
                           /\ Inside(Slice(i, end)) = Slice(i + 1, end - 1)
<1>1. Len(text) \in Nat /\ End = Len(text) + 1 /\ i \in Int /\ end \in Int /\ end \in i .. End
  BY DEF End
<1>2. PICK s \in Seq(Char), n \in Nat :
        s = Slice(i, end) /\ n = Len(s) /\ n = end - i /\ s # <<>> /\ n > 0
  BY <1>1, SliceIs
<1>3. \A k \in 1 .. n : s[k] = text[i + k - 1] /\ s[k] \in Char
  <2>1. \A k \in 1 .. end - i : Slice(i, end)[k] = text[i + k - 1]
    BY <1>1, SliceIs
  <2>2. \A k \in 1 .. Len(s) : s[k] \in Char
    OBVIOUS
  <2>3. QED
    BY <1>2, <2>1, <2>2
<1>4. ASSUME NEW from \in 1 .. n + 1, NEW to \in from - 1 .. n,
             NEW a \in 1 .. End, NEW b \in a .. End, a = i + from - 1, b = i + to
      PROVE  SubSeq(s, from, to) = Slice(a, b)
  <2>1. PICK m \in Nat : m = to - from + 1 /\ m = b - a
    BY <1>1, <1>4
  <2>2. PICK u \in Seq(Char) : u = Slice(a, b)
    BY SliceIs
  <2>3. Len(u) = m /\ \A k \in 1 .. m : u[k] = text[a + k - 1]
    <3>1. Len(Slice(a, b)) = b - a /\ \A k \in 1 .. b - a : Slice(a, b)[k] = text[a + k - 1]
      BY SliceIs
    <3>2. QED
      BY <2>1, <2>2, <3>1
  <2>4. \A k \in from .. to : s[k] \in Char
    BY <1>2, <1>3
  <2>5. from \in Int /\ to \in Int
    OBVIOUS
  <2>6. PICK t \in Seq(Char) : t = SubSeq(s, from, to)
    BY <2>4, <2>5, SubSeqProperties
  <2>7. /\ Len(t) = IF from <= to THEN to - from + 1 ELSE 0
        /\ \A k \in 1 .. to - from + 1 : t[k] = s[from + k - 1]
    BY <2>4, <2>5, <2>6, SubSeqProperties
  <2>8. Len(t) = m /\ \A k \in 1 .. m : t[k] = s[from + k - 1]
    BY <2>1, <2>7
  <2>9. ASSUME NEW k \in 1 .. m PROVE t[k] = u[k]
    <3>1. from + k - 1 \in 1 .. n /\ i + (from + k - 1) - 1 = a + k - 1
      BY <1>1, <1>4, <2>1
    <3>2. QED
      BY <1>3, <2>3, <2>8, <3>1
  <2>10. t = u
    BY <2>3, <2>8, <2>9, SeqEqual
  <2>11. QED
    BY <2>2, <2>6, <2>10
<1>5. Tail(s) = SubSeq(s, 2, n)
  BY <1>2, TailIsSubSeq
<1>6. SubSeq(s, 2, n) = Slice(i + 1, end)
  <2>1. /\ 2 \in 1 .. n + 1 /\ n \in 2 - 1 .. n /\ i + 1 \in 1 .. End /\ end \in i + 1 .. End
        /\ i + 1 = i + 2 - 1 /\ end = i + n
    BY <1>1, <1>2
  <2>2. QED
    BY <1>4, <2>1
<1>7. ASSUME end > i + 1
      PROVE  SubSeq(s, 2 + 1, n) = Slice(i + 2, end) /\ SubSeq(s, 2, n - 1) = Slice(i + 1, end - 1)
  <2>0. PICK from \in 1 .. n + 1 : from = 3
    BY <1>1, <1>2, <1>7
  <2>1. /\ n \in from - 1 .. n /\ i + 2 \in 1 .. End /\ end \in i + 2 .. End
        /\ i + 2 = i + from - 1 /\ end = i + n /\ 2 + 1 = from
    BY <1>1, <1>2, <1>7, <2>0
  <2>2. /\ 2 \in 1 .. n + 1 /\ n - 1 \in 2 - 1 .. n /\ i + 1 \in 1 .. End /\ end - 1 \in i + 1 .. End
        /\ i + 1 = i + 2 - 1 /\ end - 1 = i + (n - 1)
    BY <1>1, <1>2, <1>7
  <2>3. SubSeq(s, from, n) = Slice(i + 2, end)
    BY <1>4, <2>1
  <2>4. SubSeq(s, 2, n - 1) = Slice(i + 1, end - 1)
    BY <1>4, <2>2
  <2>5. QED
    BY <2>1, <2>3, <2>4
<1>8. QED
  BY <1>2, <1>5, <1>6, <1>7 DEF Behind, Inside

LEMMA SliceStarts ==
  ASSUME text \in Seq(Char), NEW i \in 1 .. End, NEW end \in i + 1 .. End,
         NEW s, s = Slice(i, end)
  PROVE  /\ s \in Seq(Char) /\ s # <<>> /\ Len(s) = end - i
         /\ s[1] = text[i] /\ s[Len(s)] = text[end - 1]
<1>1. i \in Int /\ End \in Int /\ end \in i .. End /\ end # i
  BY DEF End
<1>2. /\ s \in Seq(Char) /\ Len(s) = end - i /\ s # <<>>
      /\ \A k \in 1 .. end - i : s[k] = text[i + k - 1]
  BY <1>1, SliceIs
<1>3. /\ 1 \in 1 .. end - i /\ i + 1 - 1 = i
      /\ end - i \in 1 .. end - i /\ i + (end - i) - 1 = end - 1
  BY <1>1
<1>4. s[1] = text[i]
  BY <1>2, <1>3
<1>5. s[Len(s)] = text[end - 1]
  BY <1>2, <1>3
<1>6. QED
  BY <1>2, <1>4, <1>5

LEMMA SliceSecond ==
  ASSUME text \in Seq(Char), NEW i \in 1 .. End, NEW end \in i + 2 .. End,
         NEW s, s = Slice(i, end)
  PROVE  s[2] = text[i + 1]
<1>1. /\ end \in i .. End /\ 2 \in 1 .. end - i /\ i + 2 - 1 = i + 1
  BY DEF End
<1>2. \A k \in 1 .. end - i : s[k] = text[i + k - 1]
  BY <1>1, SliceIs
<1>3. QED
  BY <1>1, <1>2

-----------------------------------------------------------------------------
(* What the inside of a string stands for.                                 *)
LEMMA Characters ==
  /\ \A c \in DOMAIN Escapes : Escapes[c] \in Char
  /\ \A c \in DOMAIN Escapes :
       Escapes[c] = CASE c = "n" -> "NL" [] c = "t" -> "TAB" [] OTHER -> c
  /\ DOMAIN Escapes = {"n", "t", Backslash, Quote}
  /\ Quote # Backslash /\ Quote # "NL" /\ Backslash # "NL" /\ "none" \notin DOMAIN Escapes
<1>1. DOMAIN Escapes = {"n", "t", Backslash, Quote}
  BY DEF Escapes
<1>2. \A c \in DOMAIN Escapes :
        Escapes[c] = CASE c = "n" -> "NL" [] c = "t" -> "TAB" [] OTHER -> c
  BY DEF Escapes
<1>3. "NL" \in Char /\ "TAB" \in Char /\ Backslash \in Char /\ Quote \in Char
  BY DEF Char, Whitespace, Symbols
<1>4. \A c \in DOMAIN Escapes : Escapes[c] \in Char
  BY <1>3 DEF Escapes
<1>5. Quote # Backslash /\ Quote # "NL" /\ Backslash # "NL"
  BY Zenon DEF Quote, Backslash
<1>6. "none" # Quote /\ "none" # Backslash
  BY Zenon DEF Quote, Backslash
<1>7. QED
  BY <1>1, <1>2, <1>4, <1>5, <1>6

(* Decoded is what its definition says it is.                              *)
DecodedBy(f, s) ==
  IF s = <<>> THEN {<<>>}
  ELSE IF s[1] = Backslash
  THEN IF Len(s) > 1 /\ s[2] \in {"n", "t", Backslash, Quote}
       THEN {<<CASE s[2] = "n" -> "NL" [] s[2] = "t" -> "TAB" [] OTHER -> s[2]>> \o d :
               d \in f[Behind(s, 2)]}
       ELSE {}
  ELSE IF s[1] \in {Quote, "NL"} THEN {}
  ELSE {<<s[1]>> \o d : d \in f[Tail(s)]}

LEMMA DecodedDef ==
  \A s \in Seq(Char) : Decoded[s] = DecodedBy(Decoded, s) /\ Decoded[s] \subseteq Seq(Char)
<1> DEFINE S == Seq(Char)
           V == SUBSET S
           rank == [s \in S |-> Len(s)]
           step == [s \in S |-> [f \in [S -> V] |-> DecodedBy(f, s)]]
<1>1. rank \in [S -> Nat]
  OBVIOUS
<1>2. ASSUME NEW s \in S, s # <<>> PROVE Tail(s) \in S /\ rank[Tail(s)] < rank[s]
  <2>1. Tail(s) \in Seq(Char) /\ Len(Tail(s)) = Len(s) - 1 /\ Len(s) \in Nat
    BY <1>2, HeadTailProperties
  <2>2. QED
    BY <2>1
<1>3. ASSUME NEW s \in S, Len(s) > 1 PROVE Behind(s, 2) \in S /\ rank[Behind(s, 2)] < rank[s]
  <2>1. \A k \in 3 .. Len(s) : s[k] \in Char
    OBVIOUS
  <2>2. /\ SubSeq(s, 3, Len(s)) \in Seq(Char)
        /\ Len(SubSeq(s, 3, Len(s))) = IF 3 <= Len(s) THEN Len(s) - 3 + 1 ELSE 0
    BY <2>1, SubSeqProperties
  <2>3. Behind(s, 2) = SubSeq(s, 3, Len(s))
    BY DEF Behind
  <2>4. PICK r \in Seq(Char) : r = SubSeq(s, 3, Len(s))
    BY <2>2
  <2>5. PICK n \in Nat : n = Len(s)
    OBVIOUS
  <2>6. Len(r) = IF 3 <= n THEN n - 2 ELSE 0
    BY <2>2, <2>4, <2>5
  <2>7. Len(r) < Len(s)
    BY <1>3, <2>5, <2>6
  <2>8. QED
    BY <2>3, <2>4, <2>7
<1>4. ASSUME NEW s \in S, NEW f, \A r \in S : rank[r] < rank[s] => f[r] \in V
      PROVE  DecodedBy(f, s) \in V
  <2>1. \A c \in Char : \A d \in Seq(Char) : <<c>> \o d \in Seq(Char)
    OBVIOUS
  <2>2. CASE s = <<>>
    BY <2>2 DEF DecodedBy
  <2>3. CASE s # <<>> /\ s[1] = Backslash /\ Len(s) > 1 /\ s[2] \in {"n", "t", Backslash, Quote}
    <3>1. PICK c \in Char : c = CASE s[2] = "n" -> "NL" [] s[2] = "t" -> "TAB" [] OTHER -> s[2]
      BY <2>3, Characters
    <3>2. f[Behind(s, 2)] \in V
      BY <1>3, <1>4, <2>3
    <3>3. DecodedBy(f, s) = {<<c>> \o d : d \in f[Behind(s, 2)]}
      BY <2>3, <3>1, Zenon DEF DecodedBy
    <3>4. QED
      BY <2>1, <3>2, <3>3
  <2>4. CASE s # <<>> /\ s[1] = Backslash /\ ~ (Len(s) > 1 /\ s[2] \in {"n", "t", Backslash, Quote})
    BY <2>4, Zenon DEF DecodedBy
  <2>5. CASE s # <<>> /\ s[1] # Backslash
    <3>1. PICK c \in Char : c = s[1]
      BY <2>5
    <3>2. f[Tail(s)] \in V
      BY <1>2, <1>4, <2>5
    <3>3. DecodedBy(f, s) = {} \/ DecodedBy(f, s) = {<<c>> \o d : d \in f[Tail(s)]}
      BY <2>5, <3>1, Zenon DEF DecodedBy
    <3>4. {<<c>> \o d : d \in f[Tail(s)]} \in V
      BY <2>1, <3>2
    <3>5. {} \in V
      OBVIOUS
    <3>6. QED
      BY <3>3, <3>4, <3>5
  <2>6. QED
    BY <2>2, <2>3, <2>4, <2>5
<1>5. step \in [S -> [[S -> V] -> V]]
  <2>1. \A s \in S : \A f \in [S -> V] : DecodedBy(f, s) \in V
    BY <1>4
  <2>2. QED
    BY <2>1
<1>6. ASSUME NEW s \in S, NEW f \in [S -> V], NEW g \in [S -> V],
             \A r \in S : rank[r] < rank[s] => f[r] = g[r]
      PROVE  DecodedBy(f, s) = DecodedBy(g, s)
  <2>1. s # <<>> => f[Tail(s)] = g[Tail(s)]
    BY <1>2, <1>6
  <2>2. Len(s) > 1 => f[Behind(s, 2)] = g[Behind(s, 2)]
    BY <1>3, <1>6
  <2>3. QED
    BY <2>1, <2>2, Zenon DEF DecodedBy
<1>7. Looks(S, rank, V, step)
  <2> HIDE DEF rank, V, S
  <2> QED BY <1>6 DEF Looks
<1>8. PICK h \in [S -> V] : Defines(h, S, step)
  <2>1. V # {}
    OBVIOUS
  <2> HIDE DEF S, V, rank, step
  <2>2. QED
    BY <1>1, <1>5, <1>7, <2>1, RankRecursion
<1>9. h = [s \in Seq(Char) |-> DecodedBy(h, s)]
  BY <1>8 DEF Defines
<1>10. Decoded = CHOOSE f : f = [s \in Seq(Char) |-> DecodedBy(f, s)]
  BY DEF Decoded, DecodedBy
<1>11. Decoded = [s \in Seq(Char) |-> DecodedBy(Decoded, s)]
  BY <1>9, <1>10
<1>12. S \subseteq {s \in S : Decoded[s] \in V}
  <2> DEFINE A == {s \in S : Decoded[s] \in V}
  <2>1. ASSUME NEW s \in S, \A r \in S : rank[r] < rank[s] => r \in A PROVE s \in A
    <3>1. DecodedBy(Decoded, s) \in V
      <4> HIDE DEF V, rank
      <4> QED BY <1>4, <2>1
    <3>2. QED
      BY <1>11, <3>1
  <2> HIDE DEF A, rank, V, S
  <2>2. S \subseteq A
    BY <1>1, <2>1, RankInduction
  <2>3. QED
    BY <2>2 DEF A
<1>13. QED
  BY <1>11, <1>12

(* What get_string_literal() has read since the quote at p is v, whatever  *)
(* the rest turns out to be, and no quote it came over ends a string.      *)
ReadSoFar(p, v, i) ==
  /\ v \in Seq(Char)
  /\ \A end \in i .. End :
       Decoded[Slice(p + 1, end)] = {v \o d : d \in Decoded[Slice(i, end)]}
  /\ \A end \in p + 1 .. i - 1 : text[end] = Quote => Decoded[Slice(p + 1, end)] = {}

LEMMA ReadOpens ==
  ASSUME text \in Seq(Char), NEW p \in 1 .. End, p < End
  PROVE  ReadSoFar(p, <<>>, p + 1)
<1>1. p \in Int /\ End \in Int /\ p + 1 \in 1 .. End
  BY DEF End
<1>2. ASSUME NEW end \in p + 1 .. End
      PROVE  Decoded[Slice(p + 1, end)] = {<<>> \o d : d \in Decoded[Slice(p + 1, end)]}
  <2>1. Slice(p + 1, end) \in Seq(Char)
    BY <1>1, SliceIs
  <2>2. PICK D \in SUBSET Seq(Char) : D = Decoded[Slice(p + 1, end)]
    BY <2>1, DecodedDef
  <2>3. \A d \in D : <<>> \o d = d
    BY <2>2
  <2>4. D = {<<>> \o d : d \in D}
    BY <2>3
  <2>5. QED
    BY <2>2, <2>4
<1>3. <<>> \in Seq(Char) /\ p + 1 .. p + 1 - 1 = {}
  BY <1>1
<1>4. QED
  BY <1>2, <1>3 DEF ReadSoFar

(* One character of the value more, from one or two of the text.           *)
LEMMA ReadGoesOn ==
  ASSUME text \in Seq(Char), NEW p \in 1 .. End, NEW i \in 1 .. End, p < i,
         NEW v, ReadSoFar(p, v, i), NEW next \in i + 1 .. End, NEW c \in Char,
         \A end \in next .. End :
           Decoded[Slice(i, end)] = {<<c>> \o d : d \in Decoded[Slice(next, end)]},
         \A end \in i .. next - 1 : text[end] = Quote => Decoded[Slice(i, end)] = {}
  PROVE  ReadSoFar(p, Append(v, c), next)
<1>1. p \in Int /\ End \in Int /\ i \in Int /\ next \in Int /\ next \in 1 .. End /\ v \in Seq(Char)
  BY DEF End, ReadSoFar
<1>2. ASSUME NEW end \in next .. End
      PROVE  Decoded[Slice(p + 1, end)] = {Append(v, c) \o d : d \in Decoded[Slice(next, end)]}
  <2>1. PICK D \in SUBSET Seq(Char) : D = Decoded[Slice(next, end)]
    <3>1. Slice(next, end) \in Seq(Char)
      BY <1>1, SliceIs
    <3>2. QED
      BY <3>1, DecodedDef
  <2>2. end \in i .. End
    BY <1>1
  <2>3. Decoded[Slice(p + 1, end)] = {v \o d : d \in Decoded[Slice(i, end)]}
    BY <2>2 DEF ReadSoFar
  <2>4. Decoded[Slice(i, end)] = {<<c>> \o d : d \in D}
    BY <2>1
  <2>5. ASSUME NEW d \in D PROVE v \o (<<c>> \o d) = Append(v, c) \o d
    <3>1. <<c>> \in Seq(Char) /\ d \in Seq(Char)
      BY <2>1
    <3>2. Append(v, c) = v \o <<c>>
      BY <1>1, AppendIsConcat
    <3>3. (v \o <<c>>) \o d = v \o (<<c>> \o d)
      BY <1>1, <3>1, ConcatAssociative
    <3>4. QED
      BY <3>2, <3>3
  <2>6. {v \o e : e \in {<<c>> \o d : d \in D}} = {v \o (<<c>> \o d) : d \in D}
    OBVIOUS
  <2>7. {v \o (<<c>> \o d) : d \in D} = {Append(v, c) \o d : d \in D}
    BY <2>5
  <2>8. QED
    BY <2>1, <2>3, <2>4, <2>6, <2>7, Zenon
<1>3. ASSUME NEW end \in p + 1 .. next - 1, text[end] = Quote
      PROVE  Decoded[Slice(p + 1, end)] = {}
  <2>1. CASE end \in p + 1 .. i - 1
    BY <1>3, <2>1 DEF ReadSoFar
  <2>2. CASE end \in i .. next - 1
    <3>1. end \in i .. End
      BY <1>1, <2>2
    <3>2. Decoded[Slice(p + 1, end)] = {v \o d : d \in Decoded[Slice(i, end)]}
      BY <3>1 DEF ReadSoFar
    <3>3. Decoded[Slice(i, end)] = {}
      BY <1>3, <2>2
    <3>4. QED
      BY <3>2, <3>3
  <2>3. QED
    BY <1>1, <2>1, <2>2
<1>4. Append(v, c) \in Seq(Char)
  BY <1>1
<1>5. QED
  BY <1>2, <1>3, <1>4 DEF ReadSoFar

LEMMA ReadPlain ==
  ASSUME text \in Seq(Char), NEW p \in 1 .. End, NEW i \in 1 .. End, p < i, i < End,
         NEW v, ReadSoFar(p, v, i), text[i] \notin {Quote, Backslash, "NL"}
  PROVE  ReadSoFar(p, Append(v, text[i]), i + 1)
<1>1. i \in Int /\ End \in Int /\ i + 1 \in i + 1 .. End /\ text[i] \in Char
  BY DEF End
<1>2. ASSUME NEW end \in i + 1 .. End
      PROVE  Decoded[Slice(i, end)] = {<<text[i]>> \o d : d \in Decoded[Slice(i + 1, end)]}
  <2>1. PICK s : s = Slice(i, end)
    OBVIOUS
  <2>2. s \in Seq(Char) /\ s # <<>> /\ s[1] = text[i]
    BY <2>1, SliceStarts
  <2>3. Tail(s) = Slice(i + 1, end)
    BY <2>1, SliceParts
  <2>4. Decoded[s] = DecodedBy(Decoded, s)
    BY <2>2, DecodedDef
  <2>5. s[1] # Backslash /\ s[1] \notin {Quote, "NL"}
    BY <2>2
  <2>6. Decoded[s] = {<<s[1]>> \o d : d \in Decoded[Tail(s)]}
    BY <2>2, <2>4, <2>5, Zenon DEF DecodedBy
  <2>7. QED
    BY <2>1, <2>2, <2>3, <2>6
<1>3. \A end \in i .. i + 1 - 1 : text[end] = Quote => Decoded[Slice(i, end)] = {}
  BY <1>1
<1>4. PICK c \in Char, next \in i + 1 .. End : c = text[i] /\ next = i + 1
  BY <1>1
<1>5. /\ \A end \in next .. End :
           Decoded[Slice(i, end)] = {<<c>> \o d : d \in Decoded[Slice(next, end)]}
      /\ \A end \in i .. next - 1 : text[end] = Quote => Decoded[Slice(i, end)] = {}
  <2>1. ASSUME NEW end \in next .. End
        PROVE  Decoded[Slice(i, end)] = {<<c>> \o d : d \in Decoded[Slice(next, end)]}
    BY <1>2, <1>4, <2>1
  <2>2. \A end \in i .. next - 1 : text[end] = Quote => Decoded[Slice(i, end)] = {}
    BY <1>3, <1>4
  <2>3. QED
    BY <2>1, <2>2
<1>6. ReadSoFar(p, Append(v, c), next)
  BY <1>5, ReadGoesOn
<1>7. QED
  BY <1>4, <1>6

LEMMA ReadEscaped ==
  ASSUME text \in Seq(Char), NEW p \in 1 .. End, NEW i \in 1 .. End, p < i, i + 1 < End,
         NEW v, ReadSoFar(p, v, i), text[i] = Backslash, text[i + 1] \in DOMAIN Escapes
  PROVE  ReadSoFar(p, Append(v, Escapes[text[i + 1]]), i + 2)
<1>1. i \in Int /\ End \in Int /\ i + 2 \in i + 1 .. End
  BY DEF End
<1>2. PICK c \in Char : c = Escapes[text[i + 1]]
  BY Characters
<1>3. ASSUME NEW end \in i + 2 .. End
      PROVE  Decoded[Slice(i, end)] = {<<c>> \o d : d \in Decoded[Slice(i + 2, end)]}
  <2>1. end \in i + 1 .. End /\ end > i + 1
    BY <1>1
  <2>2. PICK s : s = Slice(i, end)
    OBVIOUS
  <2>3. /\ s \in Seq(Char) /\ s # <<>> /\ Len(s) = end - i
        /\ s[1] = text[i] /\ s[2] = text[i + 1] /\ Behind(s, 2) = Slice(i + 2, end)
    <3>1. s \in Seq(Char) /\ s # <<>> /\ Len(s) = end - i /\ s[1] = text[i]
      BY <2>1, <2>2, SliceStarts
    <3>2. s[2] = text[i + 1]
      BY <2>2, SliceSecond
    <3>3. Behind(s, 2) = Slice(i + 2, end)
      BY <2>1, <2>2, SliceParts
    <3>4. QED
      BY <3>1, <3>2, <3>3
  <2>4. Len(s) > 1
    BY <1>1, <2>1, <2>3
  <2>5. Decoded[s] = DecodedBy(Decoded, s)
    BY <2>3, DecodedDef
  <2>6. c = CASE s[2] = "n" -> "NL" [] s[2] = "t" -> "TAB" [] OTHER -> s[2]
    BY <1>2, <2>3, Characters, Zenon
  <2>7. s[2] \in {"n", "t", Backslash, Quote}
    BY <2>3, Characters
  <2>8. Decoded[s] = {<<c>> \o d : d \in Decoded[Behind(s, 2)]}
    BY <2>3, <2>4, <2>5, <2>6, <2>7, Zenon DEF DecodedBy
  <2>9. QED
    BY <2>2, <2>3, <2>8
<1>4. ASSUME NEW end \in i .. i + 2 - 1, text[end] = Quote PROVE Decoded[Slice(i, end)] = {}
  <2>1. end = i + 1
    BY <1>1, <1>4, Characters
  <2>2. end \in i + 1 .. End /\ end - i = 1
    BY <1>1, <2>1
  <2>3. PICK s : s = Slice(i, end)
    OBVIOUS
  <2>4. s \in Seq(Char) /\ s # <<>> /\ s[1] = Backslash /\ Len(s) = 1
    BY <2>2, <2>3, SliceStarts
  <2>5. ~ (Len(s) > 1)
    BY <2>4
  <2>6. Decoded[s] = DecodedBy(Decoded, s)
    BY <2>4, DecodedDef
  <2>7. QED
    BY <2>3, <2>4, <2>5, <2>6, Zenon DEF DecodedBy
<1>5. PICK next \in i + 1 .. End : next = i + 2
  BY <1>1
<1>6. /\ \A end \in next .. End :
           Decoded[Slice(i, end)] = {<<c>> \o d : d \in Decoded[Slice(next, end)]}
      /\ \A end \in i .. next - 1 : text[end] = Quote => Decoded[Slice(i, end)] = {}
  <2>1. ASSUME NEW end \in next .. End
        PROVE  Decoded[Slice(i, end)] = {<<c>> \o d : d \in Decoded[Slice(next, end)]}
    BY <1>3, <1>5, <2>1
  <2>2. \A end \in i .. next - 1 : text[end] = Quote => Decoded[Slice(i, end)] = {}
    BY <1>4, <1>5
  <2>3. QED
    BY <2>1, <2>2
<1>7. ReadSoFar(p, Append(v, c), next)
  BY <1>6, ReadGoesOn
<1>8. QED
  BY <1>2, <1>5, <1>7

-----------------------------------------------------------------------------
(* The kinds of tokens begin with different characters.                    *)
LEMMA Classes ==
  /\ \A c \in Alpha : c \notin Numeric \union Punctuation \union DOMAIN OneChar \union Whitespace
                      /\ c \notin {"=", ":", "#", "none", Quote, Underscore}
  /\ \A c \in Numeric : c \notin Punctuation \union DOMAIN OneChar \union Whitespace
                        /\ c \notin {"=", ":", "#", "none", ".", Quote, Underscore}
  /\ \A c \in Punctuation \union DOMAIN OneChar \union {"=", ":"} :
       c \notin Whitespace /\ c \notin {"#", Quote, "none"}
  /\ \A c \in Punctuation : c \notin DOMAIN OneChar \union {"=", ":"}
  /\ Quote \notin Whitespace \union {"#", "none"}
<1>1. /\ \A c \in Alpha : c \notin Numeric \union Punctuation \union DOMAIN OneChar \union Whitespace
      /\ \A c \in Alpha : c \notin {"=", ":", "#", "none"}
  BY DEF Alpha, Lower, Upper, Numeric, Octal, Punctuation, OneChar, Whitespace
<1>2. /\ \A c \in Numeric : c \notin Punctuation \union DOMAIN OneChar \union Whitespace
      /\ \A c \in Numeric : c \notin {"=", ":", "#", "none", "."}
  BY DEF Numeric, Octal, Punctuation, OneChar, Whitespace
<1>3. /\ \A c \in Punctuation \union DOMAIN OneChar \union {"=", ":"} :
           c \notin Whitespace /\ c \notin {"#", "none"}
      /\ \A c \in Punctuation : c \notin DOMAIN OneChar \union {"=", ":"}
  BY DEF Punctuation, OneChar, Whitespace
<1>4. \A c \in Alpha : c # Quote /\ c # Underscore
  BY Zenon DEF Alpha, Lower, Upper, Quote, Underscore
<1>5. \A c \in Numeric : c # Quote /\ c # Underscore
  BY Zenon DEF Numeric, Octal, Quote, Underscore
<1>6. Quote \notin Punctuation /\ Quote \notin DOMAIN OneChar /\ Quote # "=" /\ Quote # ":"
  BY Zenon DEF Punctuation, OneChar, Quote
<1>7. Quote \notin Whitespace /\ Quote # "#" /\ Quote # "none"
  BY Zenon DEF Whitespace, Quote
<1>8. QED
  BY <1>1, <1>2, <1>3, <1>4, <1>5, <1>6, <1>7

LEMMA NoneNoChar == "none" \notin Char
<1>1. "none" # Underscore /\ "none" # Quote /\ "none" # Backslash
  BY Zenon DEF Underscore, Quote, Backslash
<1>2. QED
  BY <1>1 DEF Char, Alphanumeric, Alpha, Lower, Upper, Numeric, Octal, Whitespace, Punctuation, Symbols

Firsts == DOMAIN OneChar \union Punctuation \union {"=", ":"}

LEMMA LexemeKinds ==
  ASSUME NEW s \in Seq(Char), s # <<>>
  PROVE  /\ IsWord(s) => s[1] \in Alpha
         /\ IsInt(s) => s[1] \in Numeric
         /\ IsString(s) => s[1] = Quote
         /\ IsSign(s) => s[1] \in Firsts
<1>1. IsWord(s) => s[1] \in Alpha
  BY DEF IsWord
<1>2. IsInt(s) => s[1] \in Numeric
  <2>1. "0" \in Numeric
    BY DEF Numeric, Octal
  <2>2. QED
    BY <2>1 DEF IsInt, IsHex, IsOctal, IsDecimal
<1>3. IsString(s) => s[1] = Quote
  BY DEF IsString
<1>4. IsSign(s) => s[1] \in Firsts
  <2>1. \A p \in DOMAIN TwoChars : p[1] \in Firsts
    BY DEF TwoChars, Firsts, OneChar
  <2>2. QED
    BY <2>1 DEF IsSign, Firsts
<1>5. QED
  BY <1>1, <1>2, <1>3, <1>4

LEMMA LexemeFirst ==
  ASSUME NEW s \in Seq(Char), s # <<>>
  PROVE  /\ s[1] \in Alpha => (IsLexeme(s) <=> IsWord(s)) /\ ~ IsInt(s) /\ ~ IsString(s)
         /\ s[1] \in Numeric => (IsLexeme(s) <=> IsInt(s)) /\ ~ IsWord(s) /\ ~ IsString(s)
         /\ s[1] = Quote => (IsLexeme(s) <=> IsString(s)) /\ ~ IsWord(s) /\ ~ IsInt(s)
         /\ s[1] \notin Alpha \union Numeric \union {Quote} =>
              (IsLexeme(s) <=> IsSign(s)) /\ ~ IsWord(s) /\ ~ IsInt(s) /\ ~ IsString(s)
<1>1. /\ s[1] \in Alpha => s[1] \notin Numeric /\ s[1] # Quote /\ s[1] \notin Firsts
      /\ s[1] \in Numeric => s[1] # Quote /\ s[1] \notin Firsts
      /\ s[1] = Quote => s[1] \notin Firsts
  BY Classes DEF Firsts
<1>2. QED
  BY <1>1, LexemeKinds DEF IsLexeme

LEMMA GreatestIs ==
  ASSUME NEW n \in Nat, NEW T, T \subseteq 1 .. n, T # {}
  PROVE  Greatest(T) \in T /\ \A y \in T : y <= Greatest(T)
<1> DEFINE D == {n - x : x \in T}
<1>1. D \subseteq Nat /\ D # {}
  <2>1. \A x \in T : x \in 1 .. n
    OBVIOUS
  <2>2. \A x \in 1 .. n : n - x \in Nat
    OBVIOUS
  <2>3. QED
    BY <2>1, <2>2
<1>2. PICK d \in D : \A e \in D : d <= e
  <2> HIDE DEF D
  <2> QED BY <1>1, LeastNatural
<1>3. PICK x \in T : d = n - x
  BY <1>2
<1>4. \A y \in T : x >= y
  <2> TAKE y \in T
  <2>1. n - x <= n - y
    BY <1>2, <1>3
  <2>2. x \in 1 .. n /\ y \in 1 .. n
    OBVIOUS
  <2>3. QED
    BY <2>1, <2>2
<1>5. Greatest(T) \in T /\ \A y \in T : Greatest(T) >= y
  BY <1>3, <1>4 DEF Greatest
<1>6. QED
  BY <1>5

LEMMA LeastIs ==
  ASSUME NEW T, T \subseteq Nat, T # {}
  PROVE  Least(T) \in T /\ \A y \in T : Least(T) <= y
BY LeastNatural DEF Least

-----------------------------------------------------------------------------
(* TokensFrom is what its definition says it is.                           *)
TokensBy(f, i) ==
  IF i = End THEN <<[at |-> i, type |-> "Eof", value |-> <<>>]>>
  ELSE IF text[i] \in Whitespace THEN IF i = 1 THEN Stuck ELSE f[i + 1]
  ELSE IF text[i] = "#" THEN f[Least(LineEnds(i))]
  ELSE IF LexemeEnds(i) = {} THEN Stuck
  ELSE LET end == Greatest(LexemeEnds(i))
       IN  IF text[i] \in Numeric /\ CharAt(end) \in Alphanumeric THEN Stuck
           ELSE Joined(<<TokenOf(Slice(i, end), i)>>, f[end])

Items ==
  {TokenOf(Slice(i, end), i) : i \in 1 .. End, end \in 1 .. End}
    \union {[at |-> i, type |-> "Eof", value |-> <<>>] : i \in 1 .. End}
    \union {[at |-> 0, type |-> "Stuck", value |-> <<>>]}

LEMMA LexemesAhead ==
  ASSUME text \in Seq(Char), NEW i \in 1 .. End, i < End
  PROVE  /\ LexemeEnds(i) # {} => Greatest(LexemeEnds(i)) \in LexemeEnds(i)
         /\ \A y \in LexemeEnds(i) : y <= Greatest(LexemeEnds(i))
         /\ text[i] = "#" => Least(LineEnds(i)) \in i + 1 .. End
<1>1. i \in Int /\ End \in Nat
  BY DEF End
<1>2. LexemeEnds(i) \subseteq 1 .. End
  BY <1>1 DEF LexemeEnds
<1>3. LexemeEnds(i) # {} => /\ Greatest(LexemeEnds(i)) \in LexemeEnds(i)
                            /\ \A y \in LexemeEnds(i) : y <= Greatest(LexemeEnds(i))
  BY <1>1, <1>2, GreatestIs
<1>4. ASSUME text[i] = "#" PROVE Least(LineEnds(i)) \in i + 1 .. End
  <2>1. End \in LineEnds(i) /\ i \notin LineEnds(i) /\ LineEnds(i) \subseteq i .. End
    BY <1>1, <1>4 DEF LineEnds, CharAt
  <2>2. LineEnds(i) \subseteq Nat
    BY <1>1, <2>1
  <2>3. Least(LineEnds(i)) \in LineEnds(i)
    BY <2>1, <2>2, LeastIs
  <2>4. QED
    BY <1>1, <2>1, <2>3
<1>5. QED
  BY <1>3, <1>4

LEMMA TokensFromDef ==
  ASSUME text \in Seq(Char)
  PROVE  \A i \in 1 .. End :
           /\ TokensFrom[i] = TokensBy(TokensFrom, i)
           /\ TokensFrom[i] \in Seq(Items) /\ TokensFrom[i] # <<>>
<1>0. PICK n \in Nat : n = End
  BY DEF End
<1> DEFINE S == 1 .. n
           V == Seq(Items) \ {<<>>}
           rank == [i \in S |-> n - i]
           step == [i \in S |-> [f \in [S -> V] |-> TokensBy(f, i)]]
<1>1. rank \in [S -> Nat] /\ n \in S /\ S = 1 .. End
  BY <1>0 DEF End
<1>2. ASSUME NEW i \in S, i # End
      PROVE  /\ i + 1 \in S /\ rank[i + 1] < rank[i]
             /\ text[i] = "#" => /\ Least(LineEnds(i)) \in S
                                 /\ rank[Least(LineEnds(i))] < rank[i]
             /\ LexemeEnds(i) # {} => /\ Greatest(LexemeEnds(i)) \in S
                                      /\ rank[Greatest(LexemeEnds(i))] < rank[i]
  <2>1. \A k \in i + 1 .. n : k \in S /\ rank[k] < rank[i]
    OBVIOUS
  <2>2. i + 1 \in i + 1 .. n /\ i < End /\ i \in 1 .. End
    BY <1>0, <1>2
  <2>3. text[i] = "#" => Least(LineEnds(i)) \in i + 1 .. n
    BY <1>0, <2>2, LexemesAhead
  <2>4. LexemeEnds(i) # {} => Greatest(LexemeEnds(i)) \in i + 1 .. n
    BY <1>0, <2>2, LexemesAhead DEF LexemeEnds
  <2>5. QED
    BY <2>1, <2>2, <2>3, <2>4
<1>3. Stuck \in V
  BY DEF Stuck, Items
<1>4. ASSUME NEW i \in S, NEW f, \A k \in S : rank[k] < rank[i] => f[k] \in V
      PROVE  TokensBy(f, i) \in V
  <2>1. CASE i = End
    <3>1. [at |-> i, type |-> "Eof", value |-> <<>>] \in Items
      BY <1>0 DEF Items
    <3>2. <<[at |-> i, type |-> "Eof", value |-> <<>>]>> \in V
      BY <3>1
    <3>3. QED
      BY <2>1, <3>2 DEF TokensBy
  <2>2. CASE i # End /\ text[i] \in Whitespace
    <3>1. f[i + 1] \in V
      BY <1>2, <1>4, <2>2
    <3>2. TokensBy(f, i) = Stuck \/ TokensBy(f, i) = f[i + 1]
      BY <2>2, Zenon DEF TokensBy
    <3>3. QED
      BY <1>3, <3>1, <3>2
  <2>3. CASE i # End /\ text[i] \notin Whitespace /\ text[i] = "#"
    <3>1. f[Least(LineEnds(i))] \in V
      BY <1>2, <1>4, <2>3
    <3>2. TokensBy(f, i) = f[Least(LineEnds(i))]
      BY <2>3, Zenon DEF TokensBy
    <3>3. QED
      BY <3>1, <3>2
  <2>4. CASE i # End /\ text[i] \notin Whitespace /\ text[i] # "#" /\ LexemeEnds(i) = {}
    BY <1>3, <2>4, Zenon DEF TokensBy
  <2>5. CASE i # End /\ text[i] \notin Whitespace /\ text[i] # "#" /\ LexemeEnds(i) # {}
    <3>1. PICK end \in S : end = Greatest(LexemeEnds(i)) /\ f[end] \in V
      BY <1>2, <1>4, <2>5
    <3>2. TokenOf(Slice(i, end), i) \in Items
      BY <1>0 DEF Items
    <3>3. PICK t \in Items : t = TokenOf(Slice(i, end), i)
      BY <3>2
    <3>4. Joined(<<t>>, f[end]) \in V
      <4>1. PICK rest \in Seq(Items) : rest = f[end]
        BY <3>1
      <4>2. <<t>> \o rest \in Seq(Items) /\ Len(<<t>> \o rest) = 1 + Len(rest) /\ Len(rest) \in Nat
        OBVIOUS
      <4>3. <<t>> \o rest # <<>>
        BY <4>2
      <4>4. QED
        BY <1>3, <4>1, <4>2, <4>3 DEF Joined
    <3>5. TokensBy(f, i) = Stuck \/ TokensBy(f, i) = Joined(<<t>>, f[end])
      BY <2>5, <3>1, <3>3, Zenon DEF TokensBy
    <3>6. QED
      BY <1>3, <3>4, <3>5
  <2>6. QED
    BY <2>1, <2>2, <2>3, <2>4, <2>5
<1>5. step \in [S -> [[S -> V] -> V]]
  <2>1. \A i \in S : \A f \in [S -> V] : TokensBy(f, i) \in V
    BY <1>4
  <2> HIDE DEF S, V
  <2>2. QED
    BY <2>1
<1>6. ASSUME NEW i \in S, NEW f \in [S -> V], NEW g \in [S -> V],
             \A k \in S : rank[k] < rank[i] => f[k] = g[k]
      PROVE  TokensBy(f, i) = TokensBy(g, i)
  <2>1. i # End => /\ f[i + 1] = g[i + 1]
                   /\ text[i] = "#" => f[Least(LineEnds(i))] = g[Least(LineEnds(i))]
                   /\ LexemeEnds(i) # {} => f[Greatest(LexemeEnds(i))] = g[Greatest(LexemeEnds(i))]
    BY <1>2, <1>6
  <2>2. QED
    BY <2>1, Zenon DEF TokensBy
<1>7. Looks(S, rank, V, step)
  <2> HIDE DEF rank, V, S
  <2> QED BY <1>6 DEF Looks
<1>8. PICK h \in [S -> V] : Defines(h, S, step)
  <2>1. V # {}
    BY <1>3
  <2> HIDE DEF S, V, rank, step
  <2>2. QED
    BY <1>1, <1>5, <1>7, <2>1, RankRecursion
<1>9. h = [i \in 1 .. End |-> TokensBy(h, i)]
  BY <1>1, <1>8 DEF Defines
<1>10. TokensFrom = CHOOSE f : f = [i \in 1 .. End |-> TokensBy(f, i)]
  BY DEF TokensFrom, TokensBy
<1>11. TokensFrom = [i \in 1 .. End |-> TokensBy(TokensFrom, i)]
  BY <1>9, <1>10
<1>12. S \subseteq {i \in S : TokensFrom[i] \in V}
  <2> DEFINE A == {i \in S : TokensFrom[i] \in V}
  <2>1. ASSUME NEW i \in S, \A k \in S : rank[k] < rank[i] => k \in A PROVE i \in A
    <3>1. TokensBy(TokensFrom, i) \in V
      <4> HIDE DEF V, rank
      <4> QED BY <1>4, <2>1
    <3>2. QED
      BY <1>1, <1>11, <3>1
  <2> HIDE DEF A, rank, V, S
  <2>2. rank \in [S -> Nat]
    BY <1>1
  <2>3. S \subseteq A
    BY <2>1, <2>2, RankInduction
  <2>4. QED
    BY <2>3 DEF A
<1>13. QED
  BY <1>1, <1>11, <1>12

-----------------------------------------------------------------------------
(* What TokensFrom is at each kind of character.                           *)
LEMMA FromEnd ==
  ASSUME text \in Seq(Char)
  PROVE  TokensFrom[End] = <<[at |-> End, type |-> "Eof", value |-> <<>>]>>
<1>1. End \in 1 .. End
  BY DEF End
<1>2. TokensFrom[End] = TokensBy(TokensFrom, End)
  BY <1>1, TokensFromDef
<1>3. QED
  BY <1>2 DEF TokensBy

LEMMA FromBlank ==
  ASSUME text \in Seq(Char), NEW i \in 1 .. End, i # End, text[i] \in Whitespace
  PROVE  /\ i = 1 => TokensFrom[i] = Stuck
         /\ i # 1 => TokensFrom[i] = TokensFrom[i + 1]
<1>1. TokensFrom[i] = TokensBy(TokensFrom, i)
  BY TokensFromDef
<1>2. QED
  BY <1>1, Zenon DEF TokensBy

LEMMA FromBlanks ==
  ASSUME text \in Seq(Char), NEW i \in 2 .. End, NEW end \in i .. End,
         \A k \in i .. end - 1 : text[k] \in Whitespace
  PROVE  TokensFrom[i] = TokensFrom[end]
<1> DEFINE A == {n \in Nat : i + n <= end => TokensFrom[i] = TokensFrom[i + n]}
<1>1. i \in Int /\ End \in Int /\ end \in Int
  BY DEF End
<1>2. 0 \in A
  BY <1>1
<1>3. ASSUME NEW n \in Nat, n \in A PROVE n + 1 \in A
  <2> SUFFICES ASSUME i + (n + 1) <= end PROVE TokensFrom[i] = TokensFrom[i + (n + 1)]
    OBVIOUS
  <2>1. /\ i + n \in 1 .. End /\ i + n # End /\ i + n # 1 /\ i + n \in i .. end - 1
        /\ i + (n + 1) = (i + n) + 1
    BY <1>1
  <2>2. TokensFrom[i] = TokensFrom[i + n]
    BY <1>1, <1>3
  <2>3. PICK k \in 1 .. End : k = i + n
    BY <2>1
  <2>4. TokensFrom[k] = TokensFrom[k + 1]
    BY <2>1, <2>3, FromBlank
  <2>5. QED
    BY <2>1, <2>2, <2>3, <2>4
<1>4. \A n \in Nat : n \in A
  <2> HIDE DEF A
  <2> QED BY <1>2, <1>3, NaturalInduction
<1>5. end - i \in Nat /\ i + (end - i) = end
  BY <1>1
<1>6. QED
  BY <1>1, <1>4, <1>5

LEMMA FromComment ==
  ASSUME text \in Seq(Char), NEW i \in 1 .. End, i < End, text[i] = "#",
         NEW stop \in i + 1 .. End, Run(i + 1, stop, Char \ {"NL", "CR"})
  PROVE  TokensFrom[i] = TokensFrom[stop]
<1>1. i \in Int /\ End \in Int /\ stop \in Int /\ End = Len(text) + 1
  BY DEF End
<1>2. "none" \notin Char
  BY NoneNoChar
<1>3. stop \in LineEnds(i)
  <2>1. CharAt(stop) \notin Char \ {"NL", "CR"}
    BY DEF Run
  <2>2. stop < End => CharAt(stop) \in Char
    BY <1>1 DEF CharAt
  <2>3. ~ (stop < End) => CharAt(stop) = "none"
    BY DEF CharAt
  <2>4. QED
    BY <1>1, <2>1, <2>2, <2>3 DEF LineEnds
<1>4. ASSUME NEW k \in LineEnds(i), k < stop PROVE FALSE
  <2>1. k \in i .. End /\ k < End /\ CharAt(k) \in {"NL", "CR", "none"} /\ CharAt(k) = text[k]
    BY <1>1, <1>4 DEF LineEnds, CharAt
  <2>2. CASE k = i
    BY <2>1, <2>2
  <2>3. CASE k # i
    <3>1. k \in i + 1 .. stop - 1
      BY <1>1, <1>4, <2>1, <2>3
    <3>2. text[k] \in Char \ {"NL", "CR"}
      BY <3>1 DEF Run
    <3>3. QED
      BY <1>2, <2>1, <3>2
  <2>4. QED
    BY <2>2, <2>3
<1>5. LineEnds(i) \subseteq Nat
  BY <1>1 DEF LineEnds
<1>6. Least(LineEnds(i)) = stop
  <2>1. Least(LineEnds(i)) \in LineEnds(i) /\ Least(LineEnds(i)) <= stop
    BY <1>3, <1>5, LeastIs
  <2>2. ~ (Least(LineEnds(i)) < stop)
    BY <1>4, <2>1
  <2>3. Least(LineEnds(i)) \in Nat
    BY <1>5, <2>1
  <2>4. QED
    BY <1>1, <2>1, <2>2, <2>3
<1>7. TokensFrom[i] = TokensBy(TokensFrom, i)
  BY TokensFromDef
<1>8. i # End /\ "#" \notin Whitespace
  BY <1>1 DEF Whitespace
<1>9. QED
  BY <1>6, <1>7, <1>8, Zenon DEF TokensBy

LEMMA FromLexeme ==
  ASSUME text \in Seq(Char), NEW i \in 1 .. End, i < End, text[i] \notin Whitespace \union {"#"},
         NEW end \in LexemeEnds(i), \A y \in LexemeEnds(i) : y <= end,
         ~ (text[i] \in Numeric /\ CharAt(end) \in Alphanumeric)
  PROVE  TokensFrom[i] = Joined(<<TokenOf(Slice(i, end), i)>>, TokensFrom[end])
<1>1. i \in Int /\ End \in Int /\ i # End
  BY DEF End
<1>2. Greatest(LexemeEnds(i)) = end
  <2>1. Greatest(LexemeEnds(i)) \in LexemeEnds(i) /\ end <= Greatest(LexemeEnds(i))
    BY LexemesAhead
  <2>2. \A y \in LexemeEnds(i) : y \in Int
    BY <1>1 DEF LexemeEnds
  <2>3. Greatest(LexemeEnds(i)) <= end
    BY <2>1
  <2>4. QED
    BY <2>1, <2>2, <2>3
<1>3. TokensFrom[i] = TokensBy(TokensFrom, i)
  BY TokensFromDef
<1>4. LexemeEnds(i) # {} /\ text[i] \notin Whitespace /\ text[i] # "#"
  OBVIOUS
<1>5. QED
  BY <1>1, <1>2, <1>3, <1>4, Zenon DEF TokensBy

LEMMA FromNothing ==
  ASSUME text \in Seq(Char), NEW i \in 1 .. End, i < End,
         text[i] \in Whitespace => i = 1, text[i] # "#",
         \/ LexemeEnds(i) = {}
         \/ /\ text[i] \in Numeric
            /\ \A end \in LexemeEnds(i) :
                 (\A y \in LexemeEnds(i) : y <= end) => CharAt(end) \in Alphanumeric
  PROVE  TokensFrom[i] = Stuck
<1>1. i # End
  BY DEF End
<1>2. TokensFrom[i] = TokensBy(TokensFrom, i)
  BY TokensFromDef
<1>3. CASE text[i] \in Whitespace
  BY <1>1, <1>3, FromBlank
<1>4. CASE text[i] \notin Whitespace /\ LexemeEnds(i) = {}
  BY <1>1, <1>2, <1>4, Zenon DEF TokensBy
<1>5. CASE text[i] \notin Whitespace /\ LexemeEnds(i) # {}
  <2>1. text[i] \in Numeric /\ CharAt(Greatest(LexemeEnds(i))) \in Alphanumeric
    BY <1>5, LexemesAhead
  <2>2. QED
    BY <1>1, <1>2, <1>5, <2>1, Zenon DEF TokensBy
<1>6. QED
  BY <1>3, <1>4, <1>5

-----------------------------------------------------------------------------
(* The tokens made so far, in front of the others.                         *)
LEMMA Appended ==
  ASSUME NEW S, NEW u \in Seq(S), NEW e \in S, NEW n \in Nat, n = Len(u)
  PROVE  /\ Append(u, e) \in Seq(S) /\ DOMAIN Append(u, e) = 1 .. n + 1
         /\ Len(Append(u, e)) = n + 1
         /\ \A k \in 1 .. n : Append(u, e)[k] = u[k]
         /\ Append(u, e)[n + 1] = e
OBVIOUS

LEMMA BareAppended ==
  ASSUME NEW S, NEW toks \in Seq(S), NEW t, NEW C, \A x \in S \union {t} : Bare(x) \in C
  PROVE  /\ BareOf(toks) \in Seq(C) /\ Bare(t) \in C
         /\ BareOf(Append(toks, t)) = Append(BareOf(toks), Bare(t))
<1>1. PICK n \in Nat : n = Len(toks) /\ DOMAIN toks = 1 .. n
  OBVIOUS
<1>2. BareOf(toks) \in Seq(C) /\ Len(BareOf(toks)) = n
  <2>1. BareOf(toks) = [k \in 1 .. n |-> Bare(toks[k])]
    BY <1>1 DEF BareOf
  <2>2. \A k \in 1 .. n : Bare(toks[k]) \in C
    BY <1>1
  <2>3. QED
    BY <2>1, <2>2
<1>3. PICK b \in Seq(C) : b = BareOf(toks)
  BY <1>2
<1>4. PICK c \in C : c = Bare(t)
  OBVIOUS
<1>5. BareOf(Append(toks, t)) = Append(b, c)
  <2>1. /\ DOMAIN Append(toks, t) = 1 .. n + 1 /\ Append(toks, t)[n + 1] = t
        /\ \A k \in 1 .. n : Append(toks, t)[k] = toks[k]
    <3>1. toks \in Seq(S \union {t}) /\ t \in S \union {t} /\ n = Len(toks)
      BY <1>1
    <3>2. QED
      BY <3>1, Appended
  <2>2. BareOf(Append(toks, t)) = [k \in 1 .. n + 1 |-> Bare(Append(toks, t)[k])]
    BY <2>1 DEF BareOf
  <2>3. b = [k \in 1 .. n |-> Bare(toks[k])] /\ n = Len(b)
    BY <1>1, <1>2, <1>3 DEF BareOf
  <2>4. /\ Append(b, c) \in Seq(C) /\ Len(Append(b, c)) = n + 1 /\ Append(b, c)[n + 1] = c
        /\ \A k \in 1 .. n : Append(b, c)[k] = b[k]
    <3>1. b \in Seq(C) /\ c \in C /\ n = Len(b) /\ n \in Nat
      BY <2>3
    <3>2. QED
      BY <3>1, Appended
  <2>5. ASSUME NEW k \in 1 .. n + 1
        PROVE  Bare(Append(toks, t)[k]) = Append(b, c)[k] /\ Bare(Append(toks, t)[k]) \in C
    <3>1. CASE k = n + 1
      BY <1>4, <2>1, <2>4, <3>1
    <3>2. CASE k # n + 1
      <4>1. k \in 1 .. n
        BY <3>2
      <4>2. Append(toks, t)[k] = toks[k] /\ Append(b, c)[k] = b[k]
        BY <2>1, <2>4, <4>1
      <4>3. b[k] = Bare(toks[k])
        BY <2>3, <4>1
      <4>4. toks[k] \in S
        BY <1>1, <4>1
      <4>5. QED
        BY <4>2, <4>3, <4>4
    <3>3. QED
      BY <3>1, <3>2
  <2>6. PICK x : x = BareOf(Append(toks, t))
    OBVIOUS
  <2>7. x = [k \in 1 .. n + 1 |-> Bare(Append(toks, t)[k])]
    BY <2>2, <2>6
  <2>8. PICK y \in Seq(C) : y = Append(b, c)
    BY <2>4
  <2>9. x \in Seq(C) /\ Len(x) = n + 1 /\ \A k \in 1 .. n + 1 : x[k] = y[k]
    <3>1. \A k \in 1 .. n + 1 : x[k] \in C /\ x[k] = y[k]
      BY <2>5, <2>7, <2>8, Zenon
    <3>2. x \in [1 .. n + 1 -> C]
      BY <2>7, <3>1, Zenon
    <3>3. x \in Seq(C) /\ Len(x) = n + 1
      BY <3>2
    <3>4. QED
      BY <3>1, <3>3
  <2>10. x = y
    BY <2>4, <2>8, <2>9, SeqEqual
  <2>11. QED
    BY <2>6, <2>8, <2>10
<1>6. QED
  BY <1>3, <1>4, <1>5

LEMMA JoinToken ==
  ASSUME NEW S, NEW toks \in Seq(S), NEW t, NEW B, NEW rest \in Seq(B), rest # <<>>
  PROVE  Joined(BareOf(toks), Joined(<<Bare(t)>>, rest)) = Joined(BareOf(Append(toks, t)), rest)
<1>0. PICK C : C = {Bare(x) : x \in S \union {t}} \union B
  OBVIOUS
<1>1. \A x \in S \union {t} : Bare(x) \in C
  BY <1>0
<1>2. rest \in Seq(C)
  BY <1>0
<1>3. PICK b \in Seq(C), c \in C :
        b = BareOf(toks) /\ c = Bare(t) /\ BareOf(Append(toks, t)) = Append(b, c)
  <2>1. PICK e : e = Bare(t)
    OBVIOUS
  <2>2. PICK us : us = toks
    OBVIOUS
  <2>3. us \in Seq(S)
    BY <2>2
  <2>4. /\ BareOf(us) \in Seq(C) /\ e \in C
        /\ BareOf(Append(us, t)) = Append(BareOf(us), e)
    BY <1>1, <2>1, <2>3, BareAppended
  <2>5. QED
    BY <2>1, <2>2, <2>4, Zenon
<1>4. Append(b, c) \o rest = b \o (<<c>> \o rest)
  <2>1. Append(b, c) = b \o <<c>> /\ <<c>> \in Seq(C)
    BY AppendIsConcat
  <2>2. QED
    BY <1>2, <2>1, ConcatAssociative
<1>5. <<c>> \o rest # Stuck
  <2>1. PICK one \in Seq(C) : one = <<c>> /\ Len(one) = 1
    <3>1. \A D : \A x \in D : <<x>> \in Seq(D) /\ Len(<<x>>) = 1
      OBVIOUS
    <3>2. QED
      BY <3>1, Zenon
  <2>2. Len(one \o rest) = 1 + Len(rest)
    BY <1>2, <2>1, ConcatProperties
  <2>3. Len(rest) \in Nat \ {0}
    BY <1>2, EmptySeq
  <2>4. Len(Stuck) = 1
    BY DEF Stuck
  <2>5. Len(one \o rest) # Len(Stuck)
    BY <2>2, <2>3, <2>4
  <2>6. QED
    BY <2>1, <2>5
<1>6. QED
  BY <1>3, <1>4, <1>5, Zenon DEF Joined

-----------------------------------------------------------------------------
(* The tokens ahead, where the code finds a word.                          *)
LEMMA SliceAll ==
  ASSUME text \in Seq(Char), NEW i \in 1 .. End, NEW end \in i .. End, NEW X
  PROVE  AllIn(Slice(i, end), X) <=> \A k \in i .. end - 1 : text[k] \in X
<1>1. i \in Int /\ end \in Int
  BY DEF End
<1>2. PICK n \in Nat : n = end - i
  BY <1>1
<1>3. PICK s : s = Slice(i, end)
  OBVIOUS
<1>4. DOMAIN s = 1 .. n /\ \A k \in 1 .. n : s[k] = text[i + k - 1]
  <2>1. s \in Seq(Char) /\ Len(s) = n /\ \A k \in 1 .. n : s[k] = text[i + k - 1]
    BY <1>2, <1>3, SliceIs
  <2>2. QED
    BY <2>1
<1>5. ASSUME AllIn(s, X), NEW k \in i .. end - 1 PROVE text[k] \in X
  <2>1. k - i + 1 \in 1 .. n /\ i + (k - i + 1) - 1 = k
    BY <1>1, <1>2
  <2>2. s[k - i + 1] \in X
    BY <1>4, <1>5, <2>1 DEF AllIn
  <2>3. QED
    BY <1>4, <2>1, <2>2
<1>6. ASSUME \A k \in i .. end - 1 : text[k] \in X PROVE AllIn(s, X)
  <2>1. \A k \in 1 .. n : i + k - 1 \in i .. end - 1
    BY <1>1, <1>2
  <2>2. QED
    BY <1>4, <1>6, <2>1 DEF AllIn
<1>7. QED
  BY <1>3, <1>5, <1>6

(* A run is as long as it can be.                                          *)
LEMMA RunLongest ==
  ASSUME text \in Seq(Char), NEW from \in 1 .. End, NEW end \in from .. End, NEW chars,
         Run(from, end, chars), NEW y \in from .. End, \A k \in from .. y - 1 : text[k] \in chars
  PROVE  y <= end
<1>1. from \in Int /\ end \in Int /\ y \in Int /\ End \in Int
  BY DEF End
<1>2. ASSUME end < y PROVE FALSE
  <2>1. end \in from .. y - 1 /\ end < End
    BY <1>1, <1>2
  <2>2. text[end] \in chars /\ CharAt(end) = text[end]
    BY <2>1 DEF CharAt
  <2>3. QED
    BY <2>2 DEF Run
<1>3. QED
  BY <1>1, <1>2

LEMMA FromWord ==
  ASSUME text \in Seq(Char), NEW i \in 1 .. End, i < End, text[i] \in Alpha,
         NEW end \in i .. End, Run(i, end, WordChars)
  PROVE  /\ end \in i + 1 .. End
         /\ TokensFrom[i] =
              Joined(<<[at |-> i, type |-> WordType(Slice(i, end)), value |-> Slice(i, end)]>>,
                     TokensFrom[end])
<1>1. i \in Int /\ End \in Int /\ end \in Int
  BY DEF End
<1>2. WordChars = Alpha \union Numeric \union {Underscore}
  BY DEF WordChars, Alphanumeric
<1>3. end \in i + 1 .. End
  <2>1. ASSUME end = i PROVE FALSE
    <3>1. CharAt(end) = text[i]
      BY <2>1 DEF CharAt
    <3>2. QED
      BY <1>2, <3>1 DEF Run
  <2>2. QED
    BY <1>1, <2>1
<1>4. ASSUME NEW y \in i + 1 .. End
      PROVE  /\ IsLexeme(Slice(i, y)) <=> \A k \in i .. y - 1 : text[k] \in WordChars
             /\ IsLexeme(Slice(i, y)) <=> IsWord(Slice(i, y))
             /\ ~ IsInt(Slice(i, y)) /\ ~ IsString(Slice(i, y))
  <2>1. PICK s : s = Slice(i, y)
    OBVIOUS
  <2>2. s \in Seq(Char) /\ s # <<>> /\ s[1] = text[i]
    BY <2>1, SliceStarts
  <2>3. (IsLexeme(s) <=> IsWord(s)) /\ ~ IsInt(s) /\ ~ IsString(s)
    BY <2>2, LexemeFirst
  <2>4. y \in i .. End
    BY <1>1
  <2>5. AllIn(s, WordChars) <=> \A k \in i .. y - 1 : text[k] \in WordChars
    BY <2>1, <2>4, SliceAll
  <2>6. IsWord(s) <=> AllIn(s, WordChars)
    BY <1>2, <2>2 DEF IsWord
  <2>7. QED
    BY <2>1, <2>3, <2>5, <2>6
<1>5. end \in LexemeEnds(i)
  BY <1>3, <1>4 DEF LexemeEnds, Run
<1>6. ASSUME NEW y \in LexemeEnds(i) PROVE y <= end
  <2>1. y \in i + 1 .. End /\ IsLexeme(Slice(i, y))
    BY DEF LexemeEnds
  <2>2. y \in i .. End /\ \A k \in i .. y - 1 : text[k] \in WordChars
    BY <1>1, <1>4, <2>1
  <2>3. QED
    BY <2>2, RunLongest
<1>7. text[i] \notin Whitespace \union {"#"} /\ text[i] \notin Numeric
  BY Classes
<1>8. TokensFrom[i] = Joined(<<TokenOf(Slice(i, end), i)>>, TokensFrom[end])
  BY <1>5, <1>6, <1>7, FromLexeme
<1>9. TokenOf(Slice(i, end), i) =
        [at |-> i, type |-> WordType(Slice(i, end)), value |-> Slice(i, end)]
  <2>1. IsWord(Slice(i, end)) /\ ~ IsInt(Slice(i, end)) /\ ~ IsString(Slice(i, end))
    BY <1>3, <1>4, <1>5 DEF LexemeEnds
  <2>2. QED
    BY <2>1, Zenon DEF TokenOf
<1>10. QED
  BY <1>3, <1>8, <1>9, Zenon

-----------------------------------------------------------------------------
(* The tokens ahead at what is neither a word, a number nor a string.      *)
LEMMA Pairs ==
  ASSUME NEW p, p \in DOMAIN TwoChars
  PROVE  /\ p = <<p[1], p[2]>> /\ Len(p) = 2 /\ p[2] # "none"
         /\ p[1] \in DOMAIN OneChar \union {"=", ":"}
BY DEF TwoChars, OneChar

LEMMA SliceShort ==
  ASSUME text \in Seq(Char), NEW i \in 1 .. End
  PROVE  /\ i < End => Slice(i, i + 1) = <<text[i]>>
         /\ i + 1 < End => Slice(i, i + 2) = <<text[i], text[i + 1]>>
<1>1. i \in Int /\ End \in Int
  BY DEF End
<1>2. ASSUME i < End PROVE Slice(i, i + 1) = <<text[i]>>
  <2>1. PICK y \in i + 1 .. End : y = i + 1 /\ y - i = 1
    BY <1>1, <1>2
  <2>0. PICK s : s = Slice(i, y)
    OBVIOUS
  <2>2. s \in Seq(Char) /\ Len(s) = 1 /\ s[1] = text[i]
    BY <2>0, <2>1, SliceStarts
  <2>3. s = <<s[1]>>
    BY <2>2
  <2>4. QED
    BY <2>0, <2>1, <2>2, <2>3
<1>3. ASSUME i + 1 < End PROVE Slice(i, i + 2) = <<text[i], text[i + 1]>>
  <2>1. PICK y \in i + 2 .. End : y = i + 2 /\ y - i = 2 /\ y \in i + 1 .. End
    BY <1>1, <1>3
  <2>0. PICK s : s = Slice(i, y)
    OBVIOUS
  <2>2. s \in Seq(Char) /\ Len(s) = 2 /\ s[1] = text[i]
    BY <2>0, <2>1, SliceStarts
  <2>3. s[2] = text[i + 1]
    BY <2>0, SliceSecond
  <2>4. s = <<s[1], s[2]>>
    BY <2>2
  <2>5. QED
    BY <2>0, <2>1, <2>2, <2>3, <2>4
<1>4. QED
  BY <1>2, <1>3

LEMMA SignEnds ==
  ASSUME text \in Seq(Char), NEW i \in 1 .. End, i < End,
         text[i] \notin Alpha \union Numeric \union {Quote}
  PROVE  /\ \A y \in LexemeEnds(i) :
              \/ y = i + 1 /\ text[i] \in DOMAIN OneChar \union Punctuation
              \/ y = i + 2 /\ i + 1 < End /\ <<text[i], text[i + 1]>> \in DOMAIN TwoChars
         /\ text[i] \in DOMAIN OneChar \union Punctuation => i + 1 \in LexemeEnds(i)
         /\ i + 1 < End /\ <<text[i], text[i + 1]>> \in DOMAIN TwoChars => i + 2 \in LexemeEnds(i)
         /\ \A y \in LexemeEnds(i) :
              TokenOf(Slice(i, y), i) =
                [at |-> i, type |-> SignType(Slice(i, y)), value |-> Slice(i, y)]
<1>1. i \in Int /\ End \in Int
  BY DEF End
<1>2. ASSUME NEW y \in i + 1 .. End
      PROVE  /\ y \in LexemeEnds(i) <=> IsSign(Slice(i, y))
             /\ Slice(i, y) # <<>> /\ Slice(i, y)[1] = text[i] /\ Len(Slice(i, y)) = y - i
             /\ ~ IsWord(Slice(i, y)) /\ ~ IsInt(Slice(i, y)) /\ ~ IsString(Slice(i, y))
  <2>1. PICK s : s = Slice(i, y)
    OBVIOUS
  <2>2. s \in Seq(Char) /\ s # <<>> /\ s[1] = text[i] /\ Len(s) = y - i
    BY <2>1, SliceStarts
  <2>3. (IsLexeme(s) <=> IsSign(s)) /\ ~ IsWord(s) /\ ~ IsInt(s) /\ ~ IsString(s)
    BY <2>2, LexemeFirst
  <2>4. QED
    BY <2>1, <2>2, <2>3 DEF LexemeEnds
<1>3. ASSUME NEW y \in LexemeEnds(i)
      PROVE  \/ y = i + 1 /\ text[i] \in DOMAIN OneChar \union Punctuation
             \/ y = i + 2 /\ i + 1 < End /\ <<text[i], text[i + 1]>> \in DOMAIN TwoChars
  <2>1. y \in i + 1 .. End
    BY DEF LexemeEnds
  <2>2. PICK s : s = Slice(i, y)
    OBVIOUS
  <2>3. IsSign(s) /\ s[1] = text[i] /\ Len(s) = y - i
    BY <1>2, <2>1, <2>2
  <2>4. CASE Len(s) = 1 /\ s[1] \in DOMAIN OneChar \union Punctuation
    <3>1. y - i = 1
      BY <2>3, <2>4
    <3>2. y = i + 1
      BY <1>1, <2>1, <3>1
    <3>3. QED
      BY <2>3, <2>4, <3>2
  <2>5. CASE s \in DOMAIN TwoChars
    <3>1. s = <<s[1], s[2]>> /\ y = i + 2
      <4>1. s = <<s[1], s[2]>> /\ Len(s) = 2
        BY <2>5, Pairs
      <4>2. QED
        <5>1. y - i = 2
          BY <2>3, <4>1
        <5>2. y = i + 2
          BY <1>1, <2>1, <5>1
        <5>3. QED
          BY <4>1, <5>2
    <3>2. i + 1 < End /\ s = <<text[i], text[i + 1]>>
      BY <1>1, <2>1, <2>2, <3>1, SliceShort
    <3>3. QED
      BY <2>5, <3>1, <3>2
  <2>6. QED
    BY <2>3, <2>4, <2>5 DEF IsSign
<1>4. ASSUME text[i] \in DOMAIN OneChar \union Punctuation PROVE i + 1 \in LexemeEnds(i)
  <2>1. PICK y \in i + 1 .. End : y = i + 1 /\ y - i = 1
    BY <1>1
  <2>2. Len(Slice(i, y)) = 1 /\ Slice(i, y)[1] = text[i]
    BY <1>2, <2>1
  <2>3. IsSign(Slice(i, y))
    BY <1>4, <2>2 DEF IsSign
  <2>4. QED
    BY <1>2, <2>1, <2>3
<1>5. ASSUME i + 1 < End, <<text[i], text[i + 1]>> \in DOMAIN TwoChars PROVE i + 2 \in LexemeEnds(i)
  <2>1. i + 2 \in i + 1 .. End
    BY <1>1, <1>5
  <2>2. IsSign(Slice(i, i + 2))
    BY <1>5, SliceShort DEF IsSign
  <2>3. QED
    BY <1>2, <2>1, <2>2
<1>6. ASSUME NEW y \in LexemeEnds(i)
      PROVE  TokenOf(Slice(i, y), i) =
               [at |-> i, type |-> SignType(Slice(i, y)), value |-> Slice(i, y)]
  <2>1. y \in i + 1 .. End
    BY DEF LexemeEnds
  <2>2. ~ IsWord(Slice(i, y)) /\ ~ IsInt(Slice(i, y)) /\ ~ IsString(Slice(i, y))
    BY <1>2, <2>1
  <2>3. QED
    BY <2>2, Zenon DEF TokenOf
<1>7. QED
  BY <1>3, <1>4, <1>5, <1>6

LEMMA FromOne ==
  ASSUME text \in Seq(Char), NEW i \in 1 .. End, i < End,
         text[i] \in DOMAIN OneChar \union Punctuation,
         <<text[i], CharAt(i + 1)>> \notin DOMAIN TwoChars
  PROVE  TokensFrom[i] =
           Joined(<<[at |-> i, value |-> <<text[i]>>,
                     type |-> IF text[i] \in Punctuation THEN PunctuationType[text[i]]
                              ELSE OneChar[text[i]]]>>, TokensFrom[i + 1])
<1>1. i \in Int /\ End \in Int
  BY DEF End
<1>2. text[i] \notin Alpha \union Numeric \union {Quote} /\ text[i] \notin Whitespace \union {"#"}
  BY Classes
<1>3. i + 1 \in LexemeEnds(i)
  BY <1>2, SignEnds
<1>4. ASSUME NEW y \in LexemeEnds(i) PROVE y <= i + 1
  <2>1. i + 1 < End => CharAt(i + 1) = text[i + 1]
    BY DEF CharAt
  <2>2. y = i + 1
    BY <1>2, <2>1, SignEnds
  <2>3. QED
    BY <1>1, <2>2
<1>5. TokensFrom[i] = Joined(<<TokenOf(Slice(i, i + 1), i)>>, TokensFrom[i + 1])
  BY <1>2, <1>3, <1>4, FromLexeme
<1>6. PICK s : s = Slice(i, i + 1) /\ s = <<text[i]>> /\ Len(s) = 1 /\ s[1] = text[i]
  BY SliceShort
<1>7. TokenOf(s, i) = [at |-> i, type |-> SignType(s), value |-> s]
  BY <1>2, <1>3, <1>6, SignEnds
<1>8. SignType(s) = IF text[i] \in Punctuation THEN PunctuationType[text[i]] ELSE OneChar[text[i]]
  <2>1. 1 # 2
    OBVIOUS
  <2>2. QED
    BY <1>6, <2>1, Zenon DEF SignType
<1>9. TokenOf(s, i) = [at |-> i, value |-> <<text[i]>>,
                       type |-> IF text[i] \in Punctuation THEN PunctuationType[text[i]]
                                ELSE OneChar[text[i]]]
  BY <1>6, <1>7, <1>8
<1>10. QED
  BY <1>5, <1>6, <1>9, Zenon

LEMMA FromTwo ==
  ASSUME text \in Seq(Char), NEW i \in 1 .. End, i < End,
         <<text[i], CharAt(i + 1)>> \in DOMAIN TwoChars
  PROVE  /\ i + 2 \in i + 1 .. End
         /\ TokensFrom[i] =
              Joined(<<[at |-> i, value |-> <<text[i], CharAt(i + 1)>>,
                        type |-> TwoChars[<<text[i], CharAt(i + 1)>>]]>>, TokensFrom[i + 2])
<1>1. i \in Int /\ End \in Int
  BY DEF End
<1>2. PICK p : p = <<text[i], CharAt(i + 1)>> /\ p \in DOMAIN TwoChars
  OBVIOUS
<1>3. p[1] = text[i] /\ p[2] = CharAt(i + 1)
  BY <1>2
<1>4. text[i] \in DOMAIN OneChar \union {"=", ":"} /\ CharAt(i + 1) # "none" /\ Len(p) = 2
  BY <1>2, <1>3, Pairs
<1>5. i + 1 < End /\ CharAt(i + 1) = text[i + 1]
  BY <1>4 DEF CharAt
<1>6. text[i] \notin Alpha \union Numeric \union {Quote} /\ text[i] \notin Whitespace \union {"#"}
  BY <1>4, Classes
<1>7. i + 2 \in LexemeEnds(i)
  BY <1>2, <1>5, <1>6, SignEnds
<1>8. ASSUME NEW y \in LexemeEnds(i) PROVE y <= i + 2
  <2>1. y = i + 1 \/ y = i + 2
    BY <1>6, SignEnds
  <2>2. QED
    BY <1>1, <2>1
<1>9. TokensFrom[i] = Joined(<<TokenOf(Slice(i, i + 2), i)>>, TokensFrom[i + 2])
  BY <1>6, <1>7, <1>8, FromLexeme
<1>10. Slice(i, i + 2) = p
  BY <1>2, <1>5, SliceShort
<1>11. TokenOf(p, i) = [at |-> i, type |-> SignType(p), value |-> p]
  BY <1>6, <1>7, <1>10, SignEnds
<1>12. SignType(p) = TwoChars[p]
  BY <1>4 DEF SignType
<1>13. TokenOf(p, i) = [at |-> i, value |-> p, type |-> TwoChars[p]]
  BY <1>11, <1>12
<1>14. QED
  <2>1. i + 2 \in i + 1 .. End
    BY <1>1, <1>5
  <2>2. QED
    BY <1>2, <1>9, <1>10, <1>13, <2>1, Zenon

LEMMA FromNoSign ==
  ASSUME text \in Seq(Char), NEW i \in 1 .. End, i < End,
         text[i] \notin Alpha \union Numeric \union {Quote, "#"}, text[i] \in Whitespace => i = 1,
         text[i] \notin DOMAIN OneChar \union Punctuation,
         <<text[i], CharAt(i + 1)>> \notin DOMAIN TwoChars
  PROVE  TokensFrom[i] = Stuck
<1>1. i + 1 < End => CharAt(i + 1) = text[i + 1]
  BY DEF CharAt
<1>2. LexemeEnds(i) = {}
  BY <1>1, SignEnds
<1>3. QED
  BY <1>2, FromNothing

-----------------------------------------------------------------------------
(* The tokens ahead at a quote.                                            *)
LEMMA StringEnds ==
  ASSUME text \in Seq(Char), NEW p \in 1 .. End, p < End, text[p] = Quote, NEW y \in p + 1 .. End
  PROVE  /\ y \in LexemeEnds(p) <=> /\ y > p + 1 /\ text[y - 1] = Quote
                                    /\ Decoded[Slice(p + 1, y - 1)] # {}
         /\ y \in LexemeEnds(p) =>
              TokenOf(Slice(p, y), p) =
                [at |-> p, type |-> "StrLiteral",
                 value |-> CHOOSE d \in Decoded[Slice(p + 1, y - 1)] : TRUE]
<1>1. p \in Int /\ End \in Int /\ y \in Int
  BY DEF End
<1>2. PICK s : s = Slice(p, y)
  OBVIOUS
<1>3. s \in Seq(Char) /\ s # <<>> /\ s[1] = text[p] /\ Len(s) = y - p /\ s[Len(s)] = text[y - 1]
  <2>1. PICK e : e = y - 1
    OBVIOUS
  <2>2. s \in Seq(Char) /\ s # <<>> /\ s[1] = text[p] /\ Len(s) = y - p /\ s[Len(s)] = text[e]
    BY <1>2, <2>1, SliceStarts, Zenon
  <2>3. QED
    BY <2>1, <2>2, Zenon
<1>4. (IsLexeme(s) <=> IsString(s)) /\ ~ IsWord(s) /\ ~ IsInt(s)
  BY <1>3, LexemeFirst
<1>5. y \in LexemeEnds(p) <=> IsString(s)
  <2>1. y \in LexemeEnds(p) <=> IsLexeme(Slice(p, y))
    BY DEF LexemeEnds
  <2>2. QED
    BY <1>2, <1>4, <2>1, Zenon
<1>6. Len(s) > 1 <=> y > p + 1
  <2>1. y - p > 1 <=> y > p + 1
    BY <1>1
  <2>2. QED
    BY <1>3, <2>1
<1>7. y > p + 1 => Inside(s) = Slice(p + 1, y - 1)
  BY <1>2, SliceParts
<1>8. IsString(s) <=> y > p + 1 /\ text[y - 1] = Quote /\ Decoded[Slice(p + 1, y - 1)] # {}
  BY <1>3, <1>6, <1>7 DEF IsString
<1>9. ASSUME IsString(s)
      PROVE  TokenOf(s, p) = [at |-> p, type |-> "StrLiteral",
                              value |-> CHOOSE d \in Decoded[Slice(p + 1, y - 1)] : TRUE]
  <2>1. Inside(s) = Slice(p + 1, y - 1)
    BY <1>7, <1>8, <1>9
  <2>2. QED
    BY <1>4, <1>9, <2>1, Zenon DEF TokenOf
<1>10. QED
  BY <1>2, <1>5, <1>8, <1>9

LEMMA QuoteFirst ==
  text \in Seq(Char) =>
    \A p \in 1 .. End : p < End /\ text[p] = Quote =>
      text[p] \notin Whitespace \union {"#"} /\ text[p] \notin Numeric
BY Classes

LEMMA FromString ==
  ASSUME text \in Seq(Char), NEW p \in 1 .. End, p < End, text[p] = Quote,
         NEW i \in 1 .. End, p < i, i < End, text[i] = Quote, NEW v, ReadSoFar(p, v, i)
  PROVE  TokensFrom[p] = Joined(<<[at |-> p, type |-> "StrLiteral", value |-> v]>>, TokensFrom[i + 1])
<1>1. p \in Int /\ End \in Int /\ i \in Int /\ v \in Seq(Char)
  BY DEF End, ReadSoFar
<1>2. Decoded[Slice(p + 1, i)] = {v}
  <2>1. i \in i .. End
    BY <1>1
  <2>2. Decoded[Slice(p + 1, i)] = {v \o d : d \in Decoded[Slice(i, i)]}
    BY <2>1 DEF ReadSoFar
  <2>3. Slice(i, i) = <<>>
    BY <2>1, SliceIs
  <2>4. Decoded[<<>>] = {<<>>}
    <3>1. <<>> \in Seq(Char)
      OBVIOUS
    <3>2. Decoded[<<>>] = DecodedBy(Decoded, <<>>)
      BY <3>1, DecodedDef
    <3>3. QED
      BY <3>2 DEF DecodedBy
  <2>5. v \o <<>> = v
    BY <1>1, ConcatEmptySeq
  <2>6. QED
    BY <2>2, <2>3, <2>4, <2>5
<1>3. PICK e \in p + 1 .. End : e = i + 1 /\ e - 1 = i /\ e > p + 1
  BY <1>1
<1>4. e \in LexemeEnds(p)
  BY <1>2, <1>3, StringEnds
<1>5. ASSUME NEW y \in LexemeEnds(p) PROVE y <= e
  <2>1. y \in p + 1 .. End
    BY DEF LexemeEnds
  <2>2. ASSUME y > e PROVE FALSE
    <3>1. PICK x \in i + 1 .. End : x = y - 1 /\ x \in i .. End
      BY <1>1, <1>3, <2>1, <2>2
    <3>2. Decoded[Slice(p + 1, x)] = {v \o d : d \in Decoded[Slice(i, x)]}
      BY <3>1 DEF ReadSoFar
    <3>3. Decoded[Slice(i, x)] = {}
      <4>1. PICK s : s = Slice(i, x)
        OBVIOUS
      <4>2. s \in Seq(Char) /\ s # <<>> /\ s[1] = text[i]
        BY <3>1, <4>1, SliceStarts
      <4>3. Decoded[s] = DecodedBy(Decoded, s) /\ s[1] # Backslash /\ s[1] \in {Quote, "NL"}
        BY <4>2, DecodedDef, Characters
      <4>4. QED
        BY <4>1, <4>2, <4>3, Zenon DEF DecodedBy
    <3>4. Decoded[Slice(p + 1, y - 1)] = {}
      BY <3>1, <3>2, <3>3
    <3>5. QED
      BY <2>1, <3>4, StringEnds
  <2>3. QED
    BY <1>1, <1>3, <2>1, <2>2
<1>6. TokensFrom[p] = Joined(<<TokenOf(Slice(p, e), p)>>, TokensFrom[e])
  BY <1>4, <1>5, QuoteFirst, FromLexeme
<1>7. TokenOf(Slice(p, e), p) = [at |-> p, type |-> "StrLiteral",
                                 value |-> CHOOSE d \in Decoded[Slice(p + 1, e - 1)] : TRUE]
  BY <1>4, StringEnds
<1>8. (CHOOSE d \in {v} : TRUE) = v
  OBVIOUS
<1>9. QED
  BY <1>2, <1>3, <1>6, <1>7, <1>8, Zenon

(* What stops get_string_literal() at i stops every string from p on.      *)
LEMMA FromBadString ==
  ASSUME text \in Seq(Char), NEW p \in 1 .. End, p < End, text[p] = Quote,
         NEW i \in 1 .. End, p < i, NEW v, ReadSoFar(p, v, i),
         i < End => text[i] # Quote /\ \A y \in i + 1 .. End : Decoded[Slice(i, y)] = {}
  PROVE  TokensFrom[p] = Stuck
<1>1. p \in Int /\ End \in Int /\ i \in Int
  BY DEF End
<1>2. ASSUME NEW y \in LexemeEnds(p) PROVE FALSE
  <2>1. y \in p + 1 .. End
    BY DEF LexemeEnds
  <2>2. PICK x : x = y - 1
    OBVIOUS
  <2>3. y > p + 1 /\ text[x] = Quote /\ Decoded[Slice(p + 1, x)] # {}
    BY <2>1, <2>2, StringEnds
  <2>4. x \in p + 1 .. End - 1
    BY <1>1, <2>1, <2>2, <2>3
  <2>5. CASE x < i
    <3>1. x \in p + 1 .. i - 1
      BY <1>1, <2>4, <2>5
    <3>2. QED
      BY <2>3, <3>1 DEF ReadSoFar
  <2>6. CASE x >= i
    <3>1. i < End /\ x # i /\ x \in i .. End /\ x \in i + 1 .. End
      <4>1. i < End
        BY <1>1, <2>4, <2>6
      <4>2. x # i
        BY <2>3, <4>1
      <4>3. QED
        BY <1>1, <2>4, <2>6, <4>1, <4>2
    <3>2. Decoded[Slice(p + 1, x)] = {v \o d : d \in Decoded[Slice(i, x)]}
      BY <3>1 DEF ReadSoFar
    <3>3. Decoded[Slice(i, x)] = {}
      BY <3>1
    <3>4. QED
      BY <2>3, <3>2, <3>3
  <2>7. QED
    BY <1>1, <2>4, <2>5, <2>6
<1>3. QED
  BY <1>2, QuoteFirst, FromNothing

LEMMA NotDecoded ==
  ASSUME text \in Seq(Char), NEW i \in 1 .. End, i < End,
         text[i] = "NL" \/ (text[i] = Backslash /\ CharAt(i + 1) \notin DOMAIN Escapes),
         NEW y \in i + 1 .. End
  PROVE  Decoded[Slice(i, y)] = {}
<1>1. i \in Int /\ End \in Int /\ y \in Int
  BY DEF End
<1>2. PICK s : s = Slice(i, y)
  OBVIOUS
<1>3. s \in Seq(Char) /\ s # <<>> /\ s[1] = text[i] /\ Len(s) = y - i
  BY <1>2, SliceStarts
<1>4. Decoded[s] = DecodedBy(Decoded, s)
  BY <1>3, DecodedDef
<1>5. CASE text[i] = "NL"
  <2>1. s[1] # Backslash /\ s[1] \in {Quote, "NL"}
    BY <1>3, <1>5, Characters
  <2>2. QED
    BY <1>2, <1>3, <1>4, <2>1, Zenon DEF DecodedBy
<1>6. CASE text[i] = Backslash /\ CharAt(i + 1) \notin DOMAIN Escapes
  <2>1. ~ (Len(s) > 1 /\ s[2] \in {"n", "t", Backslash, Quote})
    <3>1. ASSUME Len(s) > 1 PROVE s[2] \notin {"n", "t", Backslash, Quote}
      <4>1. y \in i + 2 .. End /\ i + 1 < End
        <5>1. y - i > 1
          BY <1>3, <3>1
        <5>2. QED
          BY <1>1, <5>1
      <4>2. s[2] = text[i + 1]
        BY <1>2, <4>1, SliceSecond
      <4>3. CharAt(i + 1) = text[i + 1]
        BY <4>1 DEF CharAt
      <4>4. QED
        BY <1>6, <4>2, <4>3, Characters
    <3>2. QED
      BY <3>1
  <2>2. s[1] = Backslash
    BY <1>3, <1>6
  <2>3. QED
    BY <1>2, <1>3, <1>4, <2>1, <2>2, Zenon DEF DecodedBy
<1>7. QED
  BY <1>5, <1>6

-----------------------------------------------------------------------------
(* The tokens ahead at a number.                                           *)
LEMMA SliceTyped ==
  ASSUME text \in Seq(Char), NEW i \in 1 .. End, NEW end \in i .. End, NEW D,
         \A k \in i .. end - 1 : text[k] \in D
  PROVE  Slice(i, end) \in Seq(D)
<1>1. PICK s \in Seq(Char) : s = Slice(i, end)
  BY SliceIs
<1>2. AllIn(s, D)
  BY <1>1, SliceAll
<1>3. QED
  BY <1>1, <1>2 DEF AllIn

(* An underscore at the end changes no value.                              *)
LEMMA Trailing ==
  ASSUME NEW base \in {8, 10, 16}, NEW D, D = Digits(base) \union {Underscore},
         NEW s \in Seq(D), NEW t \in Seq(D), NEW n \in Nat, n = Len(s), Len(t) = n + 1,
         \A k \in 1 .. n : t[k] = s[k], t[n + 1] = Underscore
  PROVE  Positional(t, base) = Positional(s, base)
<1>0. PICK b \in Nat : b = base
  OBVIOUS
<1>1. PICK P, W : P = Place(s, base) /\ W = Worth(s, base)
  OBVIOUS
<1>2. PICK Q, X : Q = Place(t, base) /\ X = Worth(t, base)
  OBVIOUS
<1>3. /\ P[n + 1] = 1 /\ W[n + 1] = 0
      /\ \A k \in 1 .. n :
           /\ P[k] = IF s[k] = Underscore THEN P[k + 1] ELSE b * P[k + 1]
           /\ W[k] = IF s[k] = Underscore THEN W[k + 1] ELSE DigitValue[s[k]] * P[k + 1] + W[k + 1]
  <2>1. /\ Place(s, b)[n + 1] = 1
        /\ \A k \in 1 .. n : Place(s, b)[k] = IF s[k] = Underscore THEN Place(s, b)[k + 1]
                                               ELSE b * Place(s, b)[k + 1]
    BY PlaceDef
  <2>2. /\ Worth(s, base)[n + 1] = 0
        /\ \A k \in 1 .. n :
             Worth(s, base)[k] =
               IF s[k] = Underscore THEN Worth(s, base)[k + 1]
               ELSE DigitValue[s[k]] * Place(s, base)[k + 1] + Worth(s, base)[k + 1]
    BY WorthDef
  <2>3. QED
    BY <1>0, <1>1, <2>1, <2>2, Zenon
<1>4. PICK m \in Nat : m = n + 1
  OBVIOUS
<1>5. /\ Q[m + 1] = 1 /\ X[m + 1] = 0
      /\ \A k \in 1 .. m :
           /\ Q[k] = IF t[k] = Underscore THEN Q[k + 1] ELSE b * Q[k + 1]
           /\ X[k] = IF t[k] = Underscore THEN X[k + 1] ELSE DigitValue[t[k]] * Q[k + 1] + X[k + 1]
  <2>1. m = Len(t)
    BY <1>4
  <2>2. /\ Place(t, b)[m + 1] = 1
        /\ \A k \in 1 .. m : Place(t, b)[k] = IF t[k] = Underscore THEN Place(t, b)[k + 1]
                                               ELSE b * Place(t, b)[k + 1]
    BY <2>1, PlaceDef
  <2>3. /\ Worth(t, base)[m + 1] = 0
        /\ \A k \in 1 .. m :
             Worth(t, base)[k] =
               IF t[k] = Underscore THEN Worth(t, base)[k + 1]
               ELSE DigitValue[t[k]] * Place(t, base)[k + 1] + Worth(t, base)[k + 1]
    BY <2>1, WorthDef
  <2>4. QED
    BY <1>0, <1>2, <2>2, <2>3, Zenon
<1> DEFINE A == {j \in Nat : j <= n => /\ Q[n - j + 1] = P[n - j + 1]
                                       /\ X[n - j + 1] = W[n - j + 1]}
<1>6. 0 \in A
  <2>1. m \in 1 .. m /\ t[m] = Underscore /\ n - 0 + 1 = m
    BY <1>4
  <2>2. Q[m] = 1 /\ X[m] = 0
    BY <1>5, <2>1
  <2>3. QED
    BY <1>3, <1>4, <2>1, <2>2
<1>7. ASSUME NEW j \in Nat, j \in A PROVE j + 1 \in A
  <2> SUFFICES ASSUME j + 1 <= n
               PROVE  Q[n - (j + 1) + 1] = P[n - (j + 1) + 1] /\ X[n - (j + 1) + 1] = W[n - (j + 1) + 1]
    OBVIOUS
  <2>0. PICK k \in 1 .. n : k = n - (j + 1) + 1
    OBVIOUS
  <2>1. k = n - (j + 1) + 1 /\ k + 1 = n - j + 1 /\ k \in 1 .. m
    BY <1>4, <2>0
  <2>2. Q[k + 1] = P[k + 1] /\ X[k + 1] = W[k + 1]
    BY <1>7, <2>1
  <2>3. t[k] = s[k]
    OBVIOUS
  <2>4. Q[k] = P[k] /\ X[k] = W[k]
    <3>1. /\ P[k] = IF s[k] = Underscore THEN P[k + 1] ELSE b * P[k + 1]
          /\ W[k] = IF s[k] = Underscore THEN W[k + 1] ELSE DigitValue[s[k]] * P[k + 1] + W[k + 1]
      BY <1>3
    <3>2. /\ Q[k] = IF t[k] = Underscore THEN Q[k + 1] ELSE b * Q[k + 1]
          /\ X[k] = IF t[k] = Underscore THEN X[k + 1] ELSE DigitValue[t[k]] * Q[k + 1] + X[k + 1]
      BY <1>5, <2>1
    <3>3. QED
      BY <2>2, <2>3, <3>1, <3>2, Zenon
  <2>5. QED
    BY <2>1, <2>4
<1>8. \A j \in Nat : j \in A
  <2> HIDE DEF A
  <2> QED BY <1>6, <1>7, NaturalInduction
<1>9. X[1] = W[1]
  <2>1. n \in A /\ n - n + 1 = 1
    BY <1>8
  <2>2. QED
    BY <2>1
<1>10. QED
  BY <1>1, <1>2, <1>9 DEF Positional

(* A number at i whose digits are those of base and begin at from.         *)
NumberAt(i, from, base) ==
  \/ text[i] = "0" /\ CharAt(i + 1) = "x" /\ from = i + 2 /\ base = 16
  \/ text[i] = "0" /\ CharAt(i + 1) # "x" /\ from = i /\ base = 8
  \/ text[i] \in Numeric \ {"0"} /\ from = i /\ base = 10

LEMMA NumberFrom ==
  ASSUME text \in Seq(Char), NEW i \in 1 .. End, i < End, NEW from, NEW base, NumberAt(i, from, base)
  PROVE  /\ from \in i .. End /\ from \in 1 .. End /\ base \in {8, 10, 16}
         /\ base = 16 => from = i + 2 /\ CharAt(i + 1) = "x" /\ i + 1 < End
         /\ base # 16 => from = i /\ text[i] # Underscore
         /\ text[i] \in Numeric
<1>1. i \in Int /\ End \in Int
  BY DEF End
<1>2. "0" \in Numeric
  BY DEF Numeric, Octal
<1>3. text[i] \in Numeric
  BY <1>2 DEF NumberAt
<1>4. text[i] # Underscore
  BY <1>3, Classes
<1>5. CharAt(i + 1) = "x" => i + 1 < End
  BY DEF CharAt
<1>6. QED
  BY <1>1, <1>3, <1>4, <1>5 DEF NumberAt

(* One zero is a number in any case.                                       *)
LEMMA ZeroWorth == Positional(<<"0">>, 8) = 0
<1>1. PICK D : D = Digits(8) \union {Underscore}
  OBVIOUS
<1>2. PICK s : s = <<"0">>
  OBVIOUS
<1>3. s \in Seq(D) /\ Len(s) = 1 /\ s[1] = "0"
  BY <1>1, <1>2, DigitsOf DEF Octal
<1>4. "0" # Underscore /\ DigitValue["0"] = 0
  <2>1. "0" # Underscore
    BY Zenon DEF Underscore
  <2>2. DigitValue["0"] = 0
    BY DEF DigitValue, Numeric, Octal
  <2>3. QED
    BY <2>1, <2>2
<1>5. /\ Worth(s, 8)[2] = 0 /\ Place(s, 8)[2] \in Nat
      /\ Worth(s, 8)[1] = DigitValue["0"] * Place(s, 8)[2] + Worth(s, 8)[2]
  <2>1. 8 \in {8, 10, 16} /\ 8 \in Nat /\ 1 \in 1 .. Len(s) /\ Len(s) + 1 = 2 /\ 2 \in 1 .. Len(s) + 1 /\ 1 + 1 = 2
    BY <1>3
  <2>2. /\ Worth(s, 8)[Len(s) + 1] = 0
        /\ \A k \in 1 .. Len(s) :
              Worth(s, 8)[k] =
                IF s[k] = Underscore THEN Worth(s, 8)[k + 1]
                ELSE DigitValue[s[k]] * Place(s, 8)[k + 1] + Worth(s, 8)[k + 1]
    BY <1>1, <1>3, <2>1, WorthDef
  <2>3. Place(s, 8) \in [1 .. Len(s) + 1 -> Nat]
    BY <1>3, <2>1, PlaceDef
  <2>4. QED
    BY <1>3, <1>4, <2>1, <2>2, <2>3
<1>6. PICK q \in Nat : q = Place(s, 8)[2]
  BY <1>5
<1>7. 0 * q + 0 = 0
  OBVIOUS
<1>8. QED
  BY <1>2, <1>4, <1>5, <1>6, <1>7, Zenon DEF Positional

DigitsUpTo(from, y, base) ==
  /\ text[from] # Underscore
  /\ \A k \in from .. y - 1 : text[k] \in Digits(base) \union {Underscore}

(* What makes a number of the text from i to y.                            *)
LEMMA HexEnds ==
  ASSUME text \in Seq(Char), NEW i \in 1 .. End, i < End, text[i] = "0", CharAt(i + 1) = "x",
         NEW y \in i + 1 .. End, NEW s, s = Slice(i, y)
  PROVE  /\ y = i + 1 => IsInt(s)
         /\ y = i + 2 => ~ IsInt(s)
         /\ y > i + 2 => IsInt(s) <=> /\ DigitsUpTo(i + 2, y, 16)
                                      /\ Positional(Slice(i + 2, y), 16) <= IntMax
         /\ y > i + 2 /\ IsInt(s) => IntValue(s) = Positional(Slice(i + 2, y), 16)
<1>1. i \in Int /\ End \in Int /\ y \in Int /\ i + 1 < End /\ text[i + 1] = "x"
  BY DEF End, CharAt
<1>2. s \in Seq(Char) /\ s # <<>> /\ s[1] = "0" /\ Len(s) = y - i
  BY SliceStarts
<1>3. "x" \notin Octal \union {Underscore} /\ "0" \in Octal
  <2>1. "x" # Underscore
    BY Zenon DEF Underscore
  <2>2. QED
    BY <2>1 DEF Octal
<1>4. ~ IsDecimal(s)
  BY <1>2 DEF IsDecimal
<1>5. ASSUME y = i + 1 PROVE IsInt(s)
  <2>1. Len(s) = 1 /\ s = <<"0">>
    <3>1. y - i = 1
      BY <1>1, <1>5
    <3>2. s = <<text[i]>>
      BY <1>5, SliceShort
    <3>3. QED
      BY <1>2, <3>1, <3>2
  <2>2. ~ IsHex(s)
    BY <2>1 DEF IsHex
  <2>3. IsOctal(s)
    <3>1. AllIn(s, Octal \union {Underscore})
      BY <1>3, <2>1 DEF AllIn
    <3>2. QED
      BY <1>2, <3>1 DEF IsOctal
  <2>4. IntValue(s) = 0
    BY <2>1, <2>2, <2>3, ZeroWorth DEF IntValue
  <2>5. IntValue(s) <= IntMax
    BY <2>4, IntMaxAssumption
  <2>6. QED
    BY <2>3, <2>5 DEF IsInt
<1>6. ASSUME y > i + 1 PROVE ~ IsOctal(s) /\ s[2] = "x"
  <2>1. y \in i + 2 .. End /\ y \in i .. End /\ i + 1 \in i .. y - 1
    BY <1>1, <1>6
  <2>2. s[2] = text[i + 1]
    BY <2>1, SliceSecond
  <2>3. AllIn(s, Octal \union {Underscore}) => text[i + 1] \in Octal \union {Underscore}
    BY <2>1, SliceAll
  <2>4. QED
    BY <1>1, <1>3, <2>2, <2>3 DEF IsOctal
<1>7. ASSUME y = i + 2 PROVE ~ IsInt(s)
  <2>1. ~ (Len(s) > 2) /\ y > i + 1
    <3>1. y - i = 2 /\ y > i + 1
      BY <1>1, <1>7
    <3>2. QED
      BY <1>2, <3>1
  <2>2. QED
    BY <1>4, <1>6, <2>1 DEF IsInt, IsHex
<1>8. ASSUME y > i + 2
      PROVE  /\ IsInt(s) <=> /\ DigitsUpTo(i + 2, y, 16)
                             /\ Positional(Slice(i + 2, y), 16) <= IntMax
             /\ IsInt(s) => IntValue(s) = Positional(Slice(i + 2, y), 16)
  <2>1. /\ y > i + 1 /\ y - i > 2 /\ 3 \in 1 .. y - i /\ i + 3 - 1 = i + 2 /\ y \in i .. End
        /\ i + 2 \in 1 .. End /\ y \in i + 2 .. End /\ i + 2 \in i + 2 .. y - 1
    BY <1>1, <1>8
  <2>2. ~ IsOctal(s) /\ s[2] = "x" /\ Len(s) > 2
    BY <1>2, <1>6, <2>1
  <2>3. Behind(s, 2) = Slice(i + 2, y)
    BY <2>1, SliceParts
  <2>4. s[3] = text[i + 2]
    <3>1. \A k \in 1 .. y - i : s[k] = text[i + k - 1]
      BY <2>1, SliceIs
    <3>2. QED
      BY <2>1, <3>1
  <2>5. PICK from \in 1 .. End : from = i + 2 /\ y \in from .. End /\ from \in from .. y - 1
    BY <2>1
  <2>6. AllIn(Slice(from, y), HexDigits \union {Underscore})
          <=> \A k \in from .. y - 1 : text[k] \in HexDigits \union {Underscore}
    BY <2>5, SliceAll
  <2>7. IsHex(s) <=> DigitsUpTo(from, y, 16)
    <3>1. IsHex(s) <=> /\ text[from] \in HexDigits
                       /\ \A k \in from .. y - 1 : text[k] \in HexDigits \union {Underscore}
      BY <1>2, <2>2, <2>3, <2>4, <2>5, <2>6 DEF IsHex
    <3>2. Digits(16) = HexDigits /\ \A c \in Digits(16) : c # Underscore
      BY DigitsOf
    <3>3. DigitsUpTo(from, y, 16) <=>
            /\ text[from] # Underscore
            /\ \A k \in from .. y - 1 : text[k] \in HexDigits \union {Underscore}
      BY <3>2 DEF DigitsUpTo
    <3>4. QED
      BY <2>5, <3>1, <3>2, <3>3
  <2>8. IsHex(s) => IntValue(s) = Positional(Slice(from, y), 16)
    BY <2>3, <2>5, Zenon DEF IntValue
  <2>9. IsInt(s) <=> IsHex(s) /\ IntValue(s) <= IntMax
    BY <1>4, <2>2 DEF IsInt
  <2>10. QED
    BY <2>5, <2>7, <2>8, <2>9, Zenon
<1>9. QED
  BY <1>5, <1>7, <1>8

LEMMA PlainEnds ==
  ASSUME text \in Seq(Char), NEW i \in 1 .. End, i < End, NEW base,
         \/ text[i] = "0" /\ CharAt(i + 1) # "x" /\ base = 8
         \/ text[i] \in Numeric \ {"0"} /\ base = 10,
         NEW y \in i + 1 .. End, NEW s, s = Slice(i, y)
  PROVE  /\ IsInt(s) <=> DigitsUpTo(i, y, base) /\ Positional(s, base) <= IntMax
         /\ IsInt(s) => IntValue(s) = Positional(s, base)
<1>1. i \in Int /\ End \in Int /\ y \in Int /\ y \in i .. End
  BY DEF End
<1>2. s \in Seq(Char) /\ s # <<>> /\ s[1] = text[i] /\ Len(s) = y - i
  BY SliceStarts
<1>3. text[i] # Underscore
  BY Classes DEF Numeric, Octal
<1>4. ~ IsHex(s)
  <2>1. CASE text[i] = "0" /\ CharAt(i + 1) # "x"
    <3>1. ASSUME Len(s) > 2 PROVE s[2] # "x"
      <4>1. y - i > 2
        BY <1>2, <3>1
      <4>2. y \in i + 2 .. End /\ i + 1 < End
        BY <1>1, <4>1
      <4>3. s[2] = text[i + 1] /\ CharAt(i + 1) = text[i + 1]
        BY <4>2, SliceSecond DEF CharAt
      <4>4. QED
        BY <2>1, <4>3
    <3>2. QED
      BY <3>1 DEF IsHex
  <2>2. CASE text[i] \in Numeric \ {"0"}
    BY <1>2, <2>2 DEF IsHex
  <2>3. QED
    BY <2>1, <2>2
<1>5. \A X : AllIn(s, X) <=> \A k \in i .. y - 1 : text[k] \in X
  BY <1>1, SliceAll
<1>6. Digits(8) = Octal /\ Digits(10) = Numeric
  BY DigitsOf
<1>7. CASE text[i] = "0" /\ base = 8
  <2>1. IsOctal(s) <=> DigitsUpTo(i, y, base)
    <3>1. IsOctal(s) <=> AllIn(s, Digits(base) \union {Underscore})
      BY <1>2, <1>6, <1>7 DEF IsOctal
    <3>2. QED
      BY <1>3, <1>5, <3>1, Zenon DEF DigitsUpTo
  <2>2. ~ IsDecimal(s)
    BY <1>2, <1>7 DEF IsDecimal
  <2>3. IsOctal(s) => IntValue(s) = Positional(s, base)
    BY <1>4, <1>7, Zenon DEF IntValue
  <2>4. QED
    BY <1>4, <2>1, <2>2, <2>3, Zenon DEF IsInt
<1>8. CASE text[i] \in Numeric \ {"0"} /\ base = 10
  <2>1. IsDecimal(s) <=> DigitsUpTo(i, y, base)
    <3>1. IsDecimal(s) <=> AllIn(s, Digits(base) \union {Underscore})
      BY <1>2, <1>6, <1>8 DEF IsDecimal
    <3>2. QED
      BY <1>3, <1>5, <3>1, Zenon DEF DigitsUpTo
  <2>2. ~ IsOctal(s)
    BY <1>2, <1>8 DEF IsOctal
  <2>3. IntValue(s) = Positional(s, base)
    BY <1>4, <1>8, <2>2, Zenon DEF IntValue
  <2>4. QED
    BY <1>4, <2>1, <2>2, <2>3, Zenon DEF IsInt
<1>9. QED
  BY <1>7, <1>8

LEMMA NumberEnds ==
  ASSUME text \in Seq(Char), NEW i \in 1 .. End, i < End, NEW from, NEW base,
         NumberAt(i, from, base), NEW y \in i + 1 .. End
  PROVE  /\ y > from => (y \in LexemeEnds(i) <=> /\ DigitsUpTo(from, y, base)
                                                 /\ Positional(Slice(from, y), base) <= IntMax)
         /\ y <= from => (y \in LexemeEnds(i) <=> y = i + 1)
         /\ y <= from => base = 16
         /\ y > from /\ y \in LexemeEnds(i) =>
              TokenOf(Slice(i, y), i) =
                [at |-> i, type |-> "IntLiteral", value |-> <<Positional(Slice(from, y), base)>>]
<1>1. /\ i \in Int /\ End \in Int /\ y \in Int
      /\ base = 16 => from = i + 2 /\ text[i] = "0" /\ CharAt(i + 1) = "x"
      /\ base # 16 => from = i
  BY DEF End, NumberAt
<1>2. PICK s : s = Slice(i, y)
  OBVIOUS
<1>3. s \in Seq(Char) /\ s # <<>> /\ s[1] = text[i]
  BY <1>2, SliceStarts
<1>4. (IsLexeme(s) <=> IsInt(s)) /\ ~ IsWord(s)
  BY <1>3, NumberFrom, LexemeFirst
<1>5. y \in LexemeEnds(i) <=> IsInt(s)
  BY <1>2, <1>4 DEF LexemeEnds
<1>6. CASE base = 16
  <2>1. /\ y = i + 1 => IsInt(s)
        /\ y = i + 2 => ~ IsInt(s)
        /\ y > i + 2 => (IsInt(s) <=> /\ DigitsUpTo(i + 2, y, 16)
                                      /\ Positional(Slice(i + 2, y), 16) <= IntMax)
        /\ y > i + 2 /\ IsInt(s) => IntValue(s) = Positional(Slice(i + 2, y), 16)
    BY <1>1, <1>2, <1>6, HexEnds
  <2>2. y = i + 1 \/ y = i + 2 \/ y > i + 2
    BY <1>1
  <2>3. IsInt(s) => TokenOf(s, i) = [at |-> i, type |-> "IntLiteral", value |-> <<IntValue(s)>>]
    BY <1>4, Zenon DEF TokenOf
  <2>4. y > from <=> y > i + 2
    BY <1>1, <1>6
  <2>5. y <= from => y = i + 1 \/ y = i + 2
    BY <1>1, <1>6
  <2>6. i + 1 # i + 2
    BY <1>1
  <2>7. from = i + 2
    BY <1>1, <1>6
  <2>8. QED
    BY <1>2, <1>5, <1>6, <2>1, <2>3, <2>4, <2>5, <2>6, <2>7, Zenon
<1>7. CASE base # 16
  <2>1. /\ IsInt(s) <=> DigitsUpTo(i, y, base) /\ Positional(s, base) <= IntMax
        /\ IsInt(s) => IntValue(s) = Positional(s, base)
    <3>1. \/ text[i] = "0" /\ CharAt(i + 1) # "x" /\ base = 8
          \/ text[i] \in Numeric \ {"0"} /\ base = 10
      BY <1>7 DEF NumberAt
    <3>2. QED
      BY <1>2, <3>1, PlainEnds
  <2>2. IsInt(s) => TokenOf(s, i) = [at |-> i, type |-> "IntLiteral", value |-> <<IntValue(s)>>]
    BY <1>4, Zenon DEF TokenOf
  <2>3. y > from /\ ~ (y <= from) /\ from = i
    BY <1>1, <1>7
  <2>4. QED
    BY <1>2, <1>5, <2>1, <2>2, <2>3, Zenon
<1>8. QED
  BY <1>6, <1>7

LEMMA DigitsRun ==
  ASSUME NEW from, NEW end, NEW base, Run(from, end, Digits(base) \union {Underscore}),
         text[from] # Underscore
  PROVE  DigitsUpTo(from, end, base)
BY DEF Run, DigitsUpTo

LEMMA FromNumber ==
  ASSUME text \in Seq(Char), NEW i \in 1 .. End, i < End, NEW from, NEW base,
         NumberAt(i, from, base), CharAt(from) # Underscore,
         NEW end \in from .. End, Run(from, end, Digits(base) \union {Underscore}),
         CharAt(end) \notin Alphanumeric, Number(Slice(from, end), base) \in 0 .. IntMax
  PROVE  /\ end \in i + 1 .. End
         /\ TokensFrom[i] =
              Joined(<<[at |-> i, type |-> "IntLiteral",
                        value |-> <<Number(Slice(from, end), base)>>]>>, TokensFrom[end])
<1>1. /\ i \in Int /\ End \in Int /\ from \in Int /\ end \in Int /\ from \in 1 .. End
      /\ base \in {8, 10, 16} /\ i <= from /\ text[i] \in Numeric
      /\ from # i => from = i + 2
  <2>1. i \in Int /\ End \in Int
    BY DEF End
  <2>2. QED
    BY <2>1, NumberFrom
<1>2. PICK D : D = Digits(base) \union {Underscore}
  OBVIOUS
<1>3. PICK w \in Seq(D) : w = Slice(from, end)
  <2>1. Slice(from, end) \in Seq(D)
    BY <1>1, <1>2, SliceTyped DEF Run
  <2>2. QED
    BY <2>1
<1>4. w # <<>> /\ Number(w, base) = Positional(w, base)
  <2>1. /\ w = <<>> => Number(w, base) = -1
        /\ w # <<>> => Number(w, base) = Positional(w, base)
    BY <1>1, <1>2, NumberIs
  <2>2. Number(w, base) # -1
    BY <1>3
  <2>3. QED
    BY <2>1, <2>2
<1>5. end > from /\ end \in i + 1 .. End
  <2>1. end # from
    BY <1>1, <1>3, <1>4, SliceIs
  <2>2. QED
    BY <1>1, <2>1
<1>6. DigitsUpTo(from, end, base)
  <2>1. CharAt(from) = text[from]
    BY <1>1, <1>5 DEF CharAt
  <2>2. QED
    BY <2>1, DigitsRun
<1>7. Positional(w, base) <= IntMax
  BY <1>3, <1>4, IntMaxAssumption
<1>8. /\ end \in LexemeEnds(i)
      /\ TokenOf(Slice(i, end), i) =
           [at |-> i, type |-> "IntLiteral", value |-> <<Number(Slice(from, end), base)>>]
  <2>1. Positional(Slice(from, end), base) <= IntMax
    BY <1>3, <1>7
  <2>2. end \in LexemeEnds(i)
    BY <1>5, <1>6, <2>1, NumberEnds
  <2>3. TokenOf(Slice(i, end), i) =
          [at |-> i, type |-> "IntLiteral", value |-> <<Positional(Slice(from, end), base)>>]
    BY <1>5, <2>2, NumberEnds
  <2>4. QED
    BY <1>3, <1>4, <2>2, <2>3
<1>9. ASSUME NEW y \in LexemeEnds(i) PROVE y <= end
  <2>1. y \in i + 1 .. End
    BY DEF LexemeEnds
  <2>2. CASE y > from
    <3>1. DigitsUpTo(from, y, base)
      BY <2>1, <2>2, NumberEnds
    <3>2. y \in from .. End
      BY <1>1, <2>1, <2>2
    <3>3. QED
      BY <1>1, <3>1, <3>2, RunLongest DEF DigitsUpTo
  <2>3. CASE y <= from
    BY <1>1, <1>5, <2>1, <2>3
  <2>4. QED
    BY <1>1, <2>1, <2>2, <2>3
<1>10. text[i] \notin Whitespace \union {"#"}
  BY <1>1, Classes
<1>11. TokensFrom[i] = Joined(<<TokenOf(Slice(i, end), i)>>, TokensFrom[end])
  BY <1>8, <1>9, <1>10, FromLexeme
<1>12. QED
  BY <1>5, <1>8, <1>11, Zenon

(* No longest number is followed by what may follow a number.              *)
LEMMA FromBadNumber ==
  ASSUME text \in Seq(Char), NEW i \in 1 .. End, i < End, NEW from, NEW base,
         NumberAt(i, from, base),
         \/ CharAt(from) = Underscore
         \/ \E end \in from .. End :
              /\ Run(from, end, Digits(base) \union {Underscore})
              /\ CharAt(end) \in Alphanumeric \/ Number(Slice(from, end), base) \notin 0 .. IntMax
  PROVE  TokensFrom[i] = Stuck
<1>1. /\ i \in Int /\ End \in Int /\ from \in Int /\ from \in 1 .. End /\ from \in i .. End
      /\ base \in {8, 10, 16} /\ i <= from /\ text[i] \in Numeric
      /\ base = 16 => CharAt(i + 1) = "x"
  <2>1. i \in Int /\ End \in Int
    BY DEF End
  <2>2. QED
    BY <2>1, NumberFrom
<1>2. PICK D : D = Digits(base) \union {Underscore}
  OBVIOUS
<1>3. ASSUME NEW e \in LexemeEnds(i), \A y \in LexemeEnds(i) : y <= e
      PROVE  CharAt(e) \in Alphanumeric
  <2>1. e \in i + 1 .. End
    BY DEF LexemeEnds
  <2>2. CASE e <= from
    <3>1. e = i + 1 /\ CharAt(e) = "x"
      BY <1>1, <2>1, <2>2, NumberEnds
    <3>2. QED
      BY <3>1 DEF Alphanumeric, Alpha, Lower
  <2>3. CASE e > from
    <3>1. DigitsUpTo(from, e, base) /\ Positional(Slice(from, e), base) <= IntMax
      BY <2>1, <2>3, NumberEnds
    <3>2. e \in from .. End /\ from < End /\ \A k \in from .. e - 1 : text[k] \in D
      BY <1>1, <1>2, <2>1, <2>3, <3>1 DEF DigitsUpTo
    <3>3. CharAt(from) # Underscore
      BY <1>1, <3>1, <3>2 DEF CharAt, DigitsUpTo
    <3>4. PICK end \in from .. End :
            /\ Run(from, end, D)
            /\ CharAt(end) \in Alphanumeric \/ Number(Slice(from, end), base) \notin 0 .. IntMax
      BY <1>2, <3>3
    <3>5. e <= end
      BY <1>1, <3>2, <3>4, RunLongest
    <3>6. PICK w \in Seq(D) : w = Slice(from, e)
      BY <1>1, <3>2, SliceTyped
    <3>7. w # <<>> /\ Len(w) = e - from
      <4>1. Len(Slice(from, e)) = e - from /\ (Slice(from, e) = <<>> <=> e = from)
        BY <1>1, <3>2, SliceIs
      <4>2. e # from
        BY <1>1, <2>1, <2>3
      <4>3. QED
        BY <3>6, <4>1, <4>2
    <3>8. CASE e = end
      <4>1. Number(w, base) = Positional(w, base) /\ Positional(w, base) \in Nat
        BY <1>1, <1>2, <3>7, NumberIs
      <4>2. Number(Slice(from, end), base) \in 0 .. IntMax
        BY <3>1, <3>6, <3>8, <4>1, IntMaxAssumption
      <4>3. QED
        BY <3>4, <3>8, <4>2
    <3>9. CASE e < end
      <4>1. e \in from .. end - 1 /\ e < End /\ e + 1 \in from .. End /\ e + 1 \in i + 1 .. End
        BY <1>1, <2>1, <3>2, <3>4, <3>9
      <4>2. text[e] \in D /\ CharAt(e) = text[e]
        BY <3>4, <4>1 DEF Run, CharAt
      <4>3. ASSUME text[e] = Underscore PROVE FALSE
        <5>1. PICK f \in from .. End : f = e + 1 /\ f \in i + 1 .. End /\ f > from
          BY <1>1, <3>2, <4>1
        <5>2. \A k \in from .. f - 1 : text[k] \in D
          BY <1>1, <3>2, <3>4, <4>1, <5>1 DEF Run
        <5>3. PICK t \in Seq(D) : t = Slice(from, f)
          BY <1>1, <5>2, SliceTyped
        <5>4. PICK n \in Nat : n = e - from
          BY <1>1, <3>2
        <5>5. Len(w) = n /\ \A k \in 1 .. n : w[k] = text[from + k - 1]
          <6>1. /\ Len(Slice(from, e)) = e - from
                /\ \A k \in 1 .. e - from : Slice(from, e)[k] = text[from + k - 1]
            BY <1>1, <3>2, SliceIs
          <6>2. QED
            BY <3>6, <5>4, <6>1
        <5>6. f - from = n + 1
          BY <1>1, <3>2, <5>1, <5>4
        <5>7. Len(t) = n + 1 /\ \A k \in 1 .. n + 1 : t[k] = text[from + k - 1]
          <6>1. /\ Len(Slice(from, f)) = f - from
                /\ \A k \in 1 .. f - from : Slice(from, f)[k] = text[from + k - 1]
            BY <1>1, <5>1, SliceIs
          <6>2. QED
            BY <5>3, <5>6, <6>1
        <5>8. (\A k \in 1 .. n : t[k] = w[k]) /\ t[n + 1] = Underscore
          <6>1. n + 1 \in 1 .. n + 1 /\ from + (n + 1) - 1 = e
            BY <1>1, <3>2, <5>4
          <6>2. \A k \in 1 .. n : k \in 1 .. n + 1
            OBVIOUS
          <6>3. t[n + 1] = text[e]
            BY <5>7, <6>1
          <6>4. \A k \in 1 .. n : t[k] = text[from + k - 1]
            BY <5>7, <6>2
          <6>5. \A k \in 1 .. n : t[k] = w[k]
            BY <5>5, <6>4, Zenon
          <6>6. QED
            BY <4>3, <6>3, <6>5, Zenon
        <5>9. Positional(t, base) = Positional(w, base)
          <6>1. base \in {8, 10, 16} /\ n = Len(w) /\ Len(t) = n + 1
            BY <1>1, <5>5, <5>7
          <6>2. D = Digits(base) \union {Underscore}
            BY <1>2
          <6>3. QED
            BY <5>8, <6>1, <6>2, Trailing, SMTT(30)
        <5>10. DigitsUpTo(from, f, base)
          BY <1>2, <3>1, <5>2 DEF DigitsUpTo
        <5>11. Positional(Slice(from, f), base) <= IntMax
          BY <3>1, <3>6, <5>3, <5>9
        <5>12. f \in LexemeEnds(i)
          BY <5>1, <5>10, <5>11, NumberEnds
        <5>13. f <= e
          BY <1>3, <5>12
        <5>14. QED
          BY <1>1, <3>2, <5>1, <5>13
      <4>4. text[e] \in Digits(base)
        BY <1>2, <4>2, <4>3
      <4>5. Digits(base) \subseteq Alphanumeric
        BY <1>1, DigitsOf DEF Alphanumeric, Alpha, Lower, Upper, Numeric, Octal, HexDigits
      <4>6. QED
        BY <4>2, <4>4, <4>5
    <3>10. QED
      BY <1>1, <3>2, <3>4, <3>5, <3>8, <3>9
  <2>4. QED
    BY <1>1, <2>1, <2>2, <2>3
<1>4. text[i] \notin Whitespace /\ text[i] # "#"
  BY <1>1, Classes
<1>5. QED
  BY <1>1, <1>3, <1>4, FromNothing

-----------------------------------------------------------------------------
(* The tokens made, in front of those ahead, are those of the text.        *)
Ahead(i) == Joined(BareOf(tokens), TokensFrom[i]) = TokensFrom[1]

LexInv ==
  /\ status = "lexing" => Ahead(idx) /\ (idx = 1 \/ CharAt(idx) \notin Whitespace)
  /\ status = "string" => /\ open.at < idx /\ text[open.at] = Quote /\ Ahead(open.at)
                          /\ ReadSoFar(open.at, open.value, idx)
  /\ status = "lexed" => BareOf(tokens) = TokensFrom[1]
  /\ status = "error" => TokensFrom[1] = Stuck

LEMMA SameText ==
  ASSUME text' = text
  PROVE  /\ TokensFrom' = TokensFrom /\ End' = End
         /\ \A i : CharAt(i)' = CharAt(i)
         /\ \A i, end : Slice(i, end)' = Slice(i, end)
<1>1. TokensFrom' = TokensFrom
  BY DEF TokensFrom, LexemeEnds, LineEnds, Slice, CharAt, End
<1>2. End' = End /\ \A i : CharAt(i)' = CharAt(i)
  BY DEF CharAt, End
<1>3. \A i, end : Slice(i, end)' = Slice(i, end)
  BY DEF Slice
<1>4. QED
  BY <1>1, <1>2, <1>3

LEMMA SkipAhead ==
  ASSUME text \in Seq(Char), NEW from \in 2 .. End, SkipWhitespace(from), text' = text
  PROVE  idx' \in from .. End /\ TokensFrom[from] = TokensFrom[idx'] /\ CharAt(idx') \notin Whitespace
<1>1. PICK end \in from .. End : Run(from, end, Whitespace) /\ idx' = end
  BY DEF SkipWhitespace, MoveTo
<1>2. TokensFrom[from] = TokensFrom[end]
  BY <1>1, FromBlanks DEF Run
<1>3. QED
  BY <1>1, <1>2 DEF Run

(* A token is made, and lexing goes on behind the blanks that follow.      *)
LEMMA MadeAhead ==
  ASSUME IInv, NEW i \in 1 .. End, Ahead(i), NEW t, tokens' = Append(tokens, t), text' = text,
         NEW end \in i + 1 .. End, SkipWhitespace(end), status' = "lexing",
         TokensFrom[i] = Joined(<<Bare(t)>>, TokensFrom[end])
  PROVE  LexInv'
<1>1. text \in Seq(Char) /\ i \in Int /\ End \in Int
  BY DEF IInv, Here, End
<1>2. end \in 2 .. End /\ end \in 1 .. End
  BY <1>1
<1>3. idx' \in 1 .. End /\ TokensFrom[end] = TokensFrom[idx'] /\ CharAt(idx') \notin Whitespace
  BY <1>1, <1>2, SkipAhead
<1>4. PICK S : tokens \in Seq(S)
  BY DEF IInv, TokensOK
<1>5. PICK rest \in Seq(Items) : rest = TokensFrom[end] /\ rest # <<>>
  BY <1>1, <1>2, TokensFromDef
<1>6. Joined(BareOf(tokens), Joined(<<Bare(t)>>, rest)) = Joined(BareOf(Append(tokens, t)), rest)
  BY <1>4, <1>5, JoinToken
<1>7. Joined(BareOf(tokens'), TokensFrom[idx']) = TokensFrom[1]
  BY <1>3, <1>5, <1>6 DEF Ahead
<1>8. /\ TokensFrom' = TokensFrom /\ CharAt(idx)' = CharAt(idx')
      /\ BareOf(tokens)' = BareOf(tokens')
  BY SameText DEF BareOf, Bare
<1>9. Ahead(idx)'
  <2>1. Joined(BareOf(tokens), TokensFrom[idx])' = Joined(BareOf(tokens'), TokensFrom[idx'])
    BY <1>8 DEF Joined, Stuck
  <2>2. QED
    BY <1>7, <1>8, <2>1 DEF Ahead
<1>10. QED
  BY <1>3, <1>8, <1>9 DEF LexInv

LEMMA PushAhead ==
  ASSUME IInv, LexInv, Lexing, NEW t, NEW end \in idx + 1 .. End, Push(t, end),
         TokensFrom[idx] = Joined(<<Bare(t)>>, TokensFrom[end])
  PROVE  LexInv'
<1>1. /\ status = "lexing" /\ Ahead(idx) /\ idx \in 1 .. End
      /\ text' = text /\ tokens' = Append(tokens, t) /\ SkipWhitespace(end) /\ status' = "lexing"
  BY DEF LexInv, Lexing, IInv, Here, Push
<1>2. QED
  BY <1>1, MadeAhead

LEMMA StuckAhead ==
  ASSUME NEW i, Ahead(i), TokensFrom[i] = Stuck, text' = text, status' = "error"
  PROVE  LexInv'
<1>1. TokensFrom[1] = Stuck
  BY DEF Ahead, Joined
<1>2. TokensFrom'[1] = Stuck
  BY <1>1, SameText
<1>3. QED
  BY <1>2 DEF LexInv, Stuck

LEMMA LexingHere ==
  ASSUME IInv, LexInv, Lexing
  PROVE  /\ text \in Seq(Char) /\ idx \in 1 .. End /\ idx < End /\ status = "lexing" /\ Ahead(idx)
         /\ Cur = text[idx] /\ Peek = CharAt(idx + 1) /\ idx \in Int /\ End \in Int
         /\ text[idx] \in Whitespace => idx = 1
BY DEF IInv, Here, LexInv, Lexing, Cur, Peek, CharAt, End

LEMMA WordAhead == ASSUME IInv, LexInv, GetSymbol PROVE LexInv'
<1>1. Lexing /\ Cur \in Alpha
  BY DEF GetSymbol
<1>2. PICK end \in idx .. End :
        /\ Run(idx, end, WordChars)
        /\ Push(NewToken(WordType(Slice(idx, end)), Slice(idx, end)), end)
  BY DEF GetSymbol
<1>3. PICK w : w = Slice(idx, end)
  OBVIOUS
<1>4. /\ end \in idx + 1 .. End
      /\ TokensFrom[idx] = Joined(<<[at |-> idx, type |-> WordType(w), value |-> w]>>, TokensFrom[end])
  BY <1>1, <1>2, <1>3, LexingHere, FromWord
<1>5. WordType(w) # "IntLiteral"
  <2>1. \A v \in DOMAIN KeywordMap : KeywordMap[v] # "IntLiteral"
    BY DEF KeywordMap
  <2>2. QED
    BY <2>1 DEF WordType
<1>6. Bare(NewToken(WordType(w), w)) = [at |-> idx, type |-> WordType(w), value |-> w]
  BY <1>5 DEF Bare, NewToken
<1>7. QED
  BY <1>1, <1>2, <1>3, <1>4, <1>6, PushAhead

LEMMA NumberAhead == ASSUME IInv, LexInv, GetNumericLiteral PROVE LexInv'
<1>1. Lexing /\ (Cur \in Numeric \/ (Cur = "." /\ Peek \in Numeric))
  BY DEF GetNumericLiteral
<1>2. /\ text \in Seq(Char) /\ idx \in 1 .. End /\ idx < End /\ Ahead(idx)
      /\ Cur = text[idx] /\ Peek = CharAt(idx + 1) /\ status = "lexing"
  BY <1>1, LexingHere
<1>3. PICK from, base :
        /\ from = IF Cur = "0" /\ Peek = "x" THEN idx + 2 ELSE idx
        /\ base = IF Cur # "0" THEN 10 ELSE IF Peek = "x" THEN 16 ELSE 8
  OBVIOUS
<1>4. IF CharAt(from) = Underscore THEN ThrowAt(from) ELSE GetDigits(from, base)
  BY <1>3, Zenon DEF GetNumericLiteral
<1>5. \A e : ThrowAt(e) => text' = text /\ status' = "error"
  BY DEF ThrowAt
<1>6. CASE Cur \in Numeric
  <2>1. NumberAt(idx, from, base)
    BY <1>2, <1>3, <1>6, Zenon DEF NumberAt
  <2>2. CASE CharAt(from) = Underscore
    <3>1. TokensFrom[idx] = Stuck
      BY <1>2, <2>1, <2>2, FromBadNumber
    <3>2. QED
      BY <1>2, <1>4, <1>5, <2>2, <3>1, StuckAhead
  <2>3. CASE CharAt(from) # Underscore
    <3>1. PICK end \in from .. End :
            /\ Run(from, end, Digits(base) \union {Underscore})
            /\ IF CharAt(end) \in Alphanumeric \/ Number(Slice(from, end), base) \notin 0 .. IntMax
               THEN ThrowAt(end)
               ELSE Push(NewToken("IntLiteral", Number(Slice(from, end), base)), end)
      BY <1>4, <2>3 DEF GetDigits
    <3>2. CASE CharAt(end) \in Alphanumeric \/ Number(Slice(from, end), base) \notin 0 .. IntMax
      <4>1. TokensFrom[idx] = Stuck
        BY <1>2, <2>1, <3>1, <3>2, FromBadNumber
      <4>2. QED
        BY <1>2, <1>5, <3>1, <3>2, <4>1, StuckAhead
    <3>3. CASE /\ CharAt(end) \notin Alphanumeric
               /\ Number(Slice(from, end), base) \in 0 .. IntMax
      <4>1. PICK n : n = Number(Slice(from, end), base)
        OBVIOUS
      <4>2. /\ end \in idx + 1 .. End
            /\ TokensFrom[idx] = Joined(<<[at |-> idx, type |-> "IntLiteral", value |-> <<n>>]>>,
                                        TokensFrom[end])
        BY <1>2, <2>1, <2>3, <3>1, <3>3, <4>1, FromNumber
      <4>3. Bare(NewToken("IntLiteral", n)) = [at |-> idx, type |-> "IntLiteral", value |-> <<n>>]
        BY DEF Bare, NewToken
      <4>4. Push(NewToken("IntLiteral", n), end)
        BY <3>1, <3>3, <4>1
      <4>5. QED
        BY <1>1, <4>2, <4>3, <4>4, PushAhead
    <3>4. QED
      BY <3>2, <3>3
  <2>4. QED
    BY <2>2, <2>3
<1>7. CASE Cur = "." /\ Peek \in Numeric
  <2>1. "." \notin Alpha \union Numeric \union {Quote, "#"} /\ "." \notin Whitespace
        /\ "." \notin DOMAIN OneChar \union Punctuation /\ "." \notin {"=", ":"}
        /\ "." \notin Digits(10) \union {Underscore} /\ "." # "0" /\ "." \notin Alphanumeric
    <3>1. "." # Quote /\ "." # Underscore
      BY Zenon DEF Quote, Underscore
    <3>2. "." \notin Numeric /\ "." \notin Alpha /\ "." \notin Whitespace
          /\ "." \notin DOMAIN OneChar \union Punctuation
      BY DEF Numeric, Octal, Alpha, Lower, Upper, Whitespace, OneChar, Punctuation
    <3>3. QED
      BY <3>1, <3>2, DigitsOf DEF Alphanumeric
  <2>2. <<text[idx], CharAt(idx + 1)>> \notin DOMAIN TwoChars
    <3>1. PICK p : p = <<text[idx], CharAt(idx + 1)>>
      OBVIOUS
    <3>2. p[1] = text[idx]
      BY <3>1
    <3>3. p \notin DOMAIN TwoChars
      BY <1>2, <1>7, <2>1, <3>2, Pairs
    <3>4. QED
      BY <3>1, <3>3
  <2>3. TokensFrom[idx] = Stuck
    BY <1>2, <1>7, <2>1, <2>2, FromNoSign
  <2>4. status' = "error" /\ text' = text
    <3>1. from = idx /\ base = 10 /\ CharAt(idx) = "."
      BY <1>2, <1>3, <1>7, <2>1 DEF CharAt
    <3>2. CharAt(from) # Underscore
      BY <2>1, <3>1
    <3>3. PICK end \in idx .. End :
            /\ Run(idx, end, Digits(10) \union {Underscore})
            /\ IF CharAt(end) \in Alphanumeric \/ Number(Slice(idx, end), 10) \notin 0 .. IntMax
               THEN ThrowAt(end)
               ELSE Push(NewToken("IntLiteral", Number(Slice(idx, end), 10)), end)
      BY <1>4, <3>1, <3>2, Zenon DEF GetDigits
    <3>4. end = idx
      <4>1. end \in idx .. End /\ idx \in Int /\ End \in Int
        BY <1>1, <3>3, LexingHere
      <4>2. ASSUME end > idx PROVE FALSE
        <5>1. idx \in idx .. end - 1
          BY <4>1, <4>2
        <5>2. text[idx] \in Digits(10) \union {Underscore}
          BY <3>3, <5>1 DEF Run
        <5>3. QED
          BY <1>2, <1>7, <2>1, <5>2
      <4>3. QED
        BY <4>1, <4>2
    <3>5. Number(Slice(idx, end), 10) \notin 0 .. IntMax
      BY <3>4, NoDigits DEF IInv
    <3>6. QED
      BY <1>5, <3>3, <3>5
  <2>5. QED
    BY <1>2, <2>3, <2>4, StuckAhead
<1>8. QED
  BY <1>1, <1>6, <1>7

LEMMA PunctuationAhead == ASSUME IInv, LexInv, GetPunctuation PROVE LexInv'
<1>1. Lexing /\ Cur \in Punctuation /\ Push(NewToken(PunctuationType[Cur], <<Cur>>), idx + 1)
  BY DEF GetPunctuation
<1>2. /\ text \in Seq(Char) /\ idx \in 1 .. End /\ idx < End /\ Cur = text[idx]
      /\ idx + 1 \in idx + 1 .. End
  BY <1>1, LexingHere
<1>3. PICK c : c = text[idx] /\ c \in Punctuation
  BY <1>1, <1>2
<1>4. <<text[idx], CharAt(idx + 1)>> \notin DOMAIN TwoChars
  <2>1. PICK p : p = <<text[idx], CharAt(idx + 1)>>
    OBVIOUS
  <2>2. p[1] = c
    BY <1>3, <2>1
  <2>3. p \notin DOMAIN TwoChars
    BY <1>3, <2>2, Pairs, Classes
  <2>4. QED
    BY <2>1, <2>3
<1>5. TokensFrom[idx] =
        Joined(<<[at |-> idx, value |-> <<c>>, type |-> PunctuationType[c]]>>, TokensFrom[idx + 1])
  <2>1. TokensFrom[idx] =
           Joined(<<[at |-> idx, value |-> <<text[idx]>>,
                     type |-> IF text[idx] \in Punctuation THEN PunctuationType[text[idx]]
                              ELSE OneChar[text[idx]]]>>, TokensFrom[idx + 1])
    BY <1>2, <1>3, <1>4, FromOne
  <2>2. QED
    BY <1>3, <2>1, Zenon
<1>6. PunctuationType[c] # "IntLiteral"
  BY <1>3 DEF PunctuationType, Punctuation
<1>7. Bare(NewToken(PunctuationType[c], <<c>>)) =
        [at |-> idx, value |-> <<c>>, type |-> PunctuationType[c]]
  BY <1>6 DEF Bare, NewToken
<1>8. PICK t : t = NewToken(PunctuationType[c], <<c>>)
  OBVIOUS
<1>9. TokensFrom[idx] = Joined(<<Bare(t)>>, TokensFrom[idx + 1]) /\ Push(t, idx + 1)
  BY <1>1, <1>2, <1>3, <1>5, <1>7, <1>8, Zenon
<1>10. QED
  BY <1>1, <1>2, <1>9, PushAhead

LEMMA OperatorAhead == ASSUME IInv, LexInv, GetOperator PROVE LexInv'
<1>1. Lexing /\ NotOther
  BY DEF GetOperator
<1>2. /\ text \in Seq(Char) /\ idx \in 1 .. End /\ idx < End /\ Cur = text[idx] /\ Ahead(idx)
      /\ Peek = CharAt(idx + 1) /\ idx + 1 \in idx + 1 .. End
      /\ text[idx] \in Whitespace => idx = 1
  BY <1>1, LexingHere
<1>3. PICK c, d : c = Cur /\ d = Peek
  OBVIOUS
<1>4. c \notin Numeric \union Punctuation \union Alpha \union {Quote, "#"}
  BY <1>1, <1>3 DEF NotOther
<1>5. CASE <<c, d>> \in DOMAIN TwoChars
  <2>1. Push(NewToken(TwoChars[<<c, d>>], <<c, d>>), idx + 2)
    BY <1>3, <1>5 DEF GetOperator
  <2>2. /\ idx + 2 \in idx + 1 .. End
        /\ TokensFrom[idx] = Joined(<<[at |-> idx, value |-> <<c, d>>, type |-> TwoChars[<<c, d>>]]>>,
                                    TokensFrom[idx + 2])
    BY <1>2, <1>3, <1>5, FromTwo
  <2>3. TwoChars[<<c, d>>] # "IntLiteral"
    <3>1. \A p \in DOMAIN TwoChars : TwoChars[p] # "IntLiteral"
      BY DEF TwoChars
    <3>2. QED
      BY <1>5, <3>1
  <2>4. Bare(NewToken(TwoChars[<<c, d>>], <<c, d>>)) =
          [at |-> idx, value |-> <<c, d>>, type |-> TwoChars[<<c, d>>]]
    BY <2>3 DEF Bare, NewToken
  <2>5. PICK t : t = NewToken(TwoChars[<<c, d>>], <<c, d>>)
    OBVIOUS
  <2>6. TokensFrom[idx] = Joined(<<Bare(t)>>, TokensFrom[idx + 2]) /\ Push(t, idx + 2)
    BY <2>1, <2>2, <2>4, <2>5, Zenon
  <2>7. QED
    BY <1>1, <2>2, <2>6, PushAhead
<1>6. CASE <<c, d>> \notin DOMAIN TwoChars /\ c \in DOMAIN OneChar
  <2>1. Push(NewToken(OneChar[c], <<c>>), idx + 1)
    BY <1>3, <1>6 DEF GetOperator
  <2>2. TokensFrom[idx] =
          Joined(<<[at |-> idx, value |-> <<c>>, type |-> OneChar[c]]>>, TokensFrom[idx + 1])
    <3>1. TokensFrom[idx] =
             Joined(<<[at |-> idx, value |-> <<text[idx]>>,
                       type |-> IF text[idx] \in Punctuation THEN PunctuationType[text[idx]]
                                ELSE OneChar[text[idx]]]>>, TokensFrom[idx + 1])
      BY <1>2, <1>3, <1>6, FromOne
    <3>2. QED
      BY <1>2, <1>3, <1>4, <3>1, Zenon
  <2>3. OneChar[c] # "IntLiteral"
    <3>1. \A x \in DOMAIN OneChar : OneChar[x] # "IntLiteral"
      BY DEF OneChar
    <3>2. QED
      BY <1>6, <3>1
  <2>4. Bare(NewToken(OneChar[c], <<c>>)) = [at |-> idx, value |-> <<c>>, type |-> OneChar[c]]
    BY <2>3 DEF Bare, NewToken
  <2>5. PICK t : t = NewToken(OneChar[c], <<c>>)
    OBVIOUS
  <2>6. TokensFrom[idx] = Joined(<<Bare(t)>>, TokensFrom[idx + 1]) /\ Push(t, idx + 1)
    BY <2>1, <2>2, <2>4, <2>5, Zenon
  <2>7. QED
    BY <1>1, <1>2, <2>6, PushAhead
<1>7. CASE <<c, d>> \notin DOMAIN TwoChars /\ c \notin DOMAIN OneChar
  <2>1. TokensFrom[idx] = Stuck
    BY <1>2, <1>3, <1>4, <1>7, FromNoSign
  <2>2. ThrowAt(idx)
    BY <1>3, <1>7 DEF GetOperator
  <2>3. text' = text /\ status' = "error"
    BY <2>2 DEF ThrowAt
  <2>4. QED
    BY <1>2, <2>1, <2>3, StuckAhead
<1>8. QED
  BY <1>5, <1>6, <1>7

LEMMA CommentAhead == ASSUME IInv, LexInv, SkipComment PROVE LexInv'
<1>1. Lexing /\ Cur = "#" /\ UNCHANGED <<text, tokens, open, status>>
  BY DEF SkipComment
<1>2. /\ text \in Seq(Char) /\ idx \in 1 .. End /\ idx < End /\ Cur = text[idx] /\ Ahead(idx)
      /\ idx \in Int /\ End \in Int /\ status = "lexing"
  BY <1>1, LexingHere
<1>3. PICK stop \in idx + 1 .. End :
        /\ Run(idx + 1, stop, Char \ {"NL", "CR"})
        /\ SkipWhitespace(IF CharAt(stop) = "NL" THEN stop + 1
                          ELSE IF CharAt(stop) = "CR" /\ CharAt(stop + 1) = "NL" THEN stop + 2
                          ELSE stop)
  BY DEF SkipComment
<1>4. PICK from \in stop .. End :
        SkipWhitespace(from) /\ \A k \in stop .. from - 1 : text[k] \in Whitespace
  <2>1. CASE CharAt(stop) = "NL"
    <3>1. stop + 1 \in stop .. End /\ text[stop] = "NL"
      BY <1>2, <2>1 DEF CharAt
    <3>2. \A k \in stop .. stop + 1 - 1 : text[k] \in Whitespace
      <4>1. \A k \in stop .. stop + 1 - 1 : k = stop
        BY <1>2
      <4>2. QED
        BY <3>1, <4>1 DEF Whitespace
    <3>3. SkipWhitespace(stop + 1)
      BY <1>3, <2>1
    <3>4. QED
      BY <3>1, <3>2, <3>3
  <2>2. CASE CharAt(stop) = "CR" /\ CharAt(stop + 1) = "NL"
    <3>1. stop + 2 \in stop .. End /\ text[stop] = "CR" /\ text[stop + 1] = "NL"
      BY <1>2, <2>2 DEF CharAt
    <3>2. \A k \in stop .. stop + 2 - 1 : text[k] \in Whitespace
      <4>1. \A k \in stop .. stop + 2 - 1 : k = stop \/ k = stop + 1
        BY <1>2
      <4>2. QED
        BY <3>1, <4>1 DEF Whitespace
    <3>3. SkipWhitespace(stop + 2)
      BY <1>3, <2>2
    <3>4. QED
      BY <3>1, <3>2, <3>3
  <2>3. CASE CharAt(stop) # "NL" /\ ~ (CharAt(stop) = "CR" /\ CharAt(stop + 1) = "NL")
    <3>1. stop \in stop .. End /\ \A k \in stop .. stop - 1 : text[k] \in Whitespace
      BY <1>2
    <3>2. SkipWhitespace(stop)
      BY <1>3, <2>3, Zenon
    <3>3. QED
      BY <3>1, <3>2
  <2>4. QED
    BY <2>1, <2>2, <2>3
<1>5. TokensFrom[idx] = TokensFrom[stop]
  BY <1>1, <1>2, <1>3, FromComment
<1>6. TokensFrom[stop] = TokensFrom[from]
  <2>1. stop \in 2 .. End /\ from \in stop .. End
    BY <1>2
  <2>2. QED
    BY <1>2, <1>4, <2>1, FromBlanks
<1>7. TokensFrom[from] = TokensFrom[idx'] /\ CharAt(idx') \notin Whitespace
  <2>1. from \in 2 .. End
    BY <1>2
  <2>2. QED
    BY <1>1, <1>2, <1>4, <2>1, SkipAhead
<1>8. Joined(BareOf(tokens), TokensFrom[idx']) = TokensFrom[1]
  BY <1>2, <1>5, <1>6, <1>7 DEF Ahead
<1>9. TokensFrom' = TokensFrom /\ CharAt(idx)' = CharAt(idx') /\ BareOf(tokens)' = BareOf(tokens)
  BY <1>1, SameText DEF BareOf, Bare
<1>10. Joined(BareOf(tokens), TokensFrom[idx])' = Joined(BareOf(tokens), TokensFrom[idx'])
  BY <1>9 DEF Joined, Stuck
<1>11. status' = "lexing"
  BY <1>1, <1>2
<1>12. QED
  BY <1>7, <1>8, <1>9, <1>10, <1>11 DEF LexInv, Ahead

(* What stands in LexInv about a string that is being read.                *)
LEMMA StringHere ==
  ASSUME IInv, LexInv, status = "string"
  PROVE  /\ text \in Seq(Char) /\ idx \in 1 .. End /\ open.at \in 1 .. End /\ open.at < End
         /\ open.at < idx /\ text[open.at] = Quote /\ Ahead(open.at)
         /\ ReadSoFar(open.at, open.value, idx) /\ idx \in Int /\ End \in Int /\ open.at \in Int
         /\ idx < End => Cur = text[idx] /\ Peek = CharAt(idx + 1)
<1>1. /\ text \in Seq(Char) /\ idx \in 1 .. End /\ open.at \in 1 .. End /\ End \in Int
  BY DEF IInv, Here, OpenOK, IsPlaced, End
<1>2. /\ open.at < idx /\ text[open.at] = Quote /\ Ahead(open.at)
      /\ ReadSoFar(open.at, open.value, idx)
  BY DEF LexInv
<1>3. QED
  BY <1>1, <1>2 DEF Cur, Peek, CharAt

LEMMA StringStays ==
  ASSUME text' = text, tokens' = tokens, status' = "string",
         NEW p, NEW v, NEW i, open'.at = p, open'.value = v, idx' = i,
         p < i, text[p] = Quote, Ahead(p), ReadSoFar(p, v, i)
  PROVE  LexInv'
<1>1. /\ TokensFrom' = TokensFrom /\ End' = End /\ BareOf(tokens)' = BareOf(tokens)
      /\ \A j, end : Slice(j, end)' = Slice(j, end)
  BY SameText DEF BareOf, Bare
<1>2. Joined(BareOf(tokens), TokensFrom[open.at])' = Joined(BareOf(tokens), TokensFrom[p])
  BY <1>1 DEF Joined, Stuck
<1>3. Ahead(open.at)'
  BY <1>1, <1>2 DEF Ahead
<1>4. Decoded' = Decoded
  BY DEF Decoded, Behind
<1>5. ReadSoFar(open.at, open.value, idx)'
  BY <1>1, <1>4 DEF ReadSoFar
<1>6. QED
  BY <1>3, <1>5 DEF LexInv

LEMMA OpenAhead == ASSUME IInv, LexInv, OpenString PROVE LexInv'
<1>1. Lexing /\ Cur = Quote
  BY DEF OpenString
<1>2. /\ text \in Seq(Char) /\ idx \in 1 .. End /\ idx < End /\ Cur = text[idx] /\ Ahead(idx)
      /\ idx \in Int
  BY <1>1, LexingHere
<1>3. /\ open'.at = idx /\ open'.value = <<>> /\ idx' = idx + 1
      /\ text' = text /\ tokens' = tokens /\ status' = "string"
  BY DEF OpenString, NewToken, MoveTo
<1>4. ReadSoFar(idx, <<>>, idx + 1)
  BY <1>2, ReadOpens
<1>5. idx < idx + 1
  BY <1>2
<1>6. QED
  BY <1>1, <1>2, <1>3, <1>4, <1>5, StringStays

LEMMA ReadAhead ==
  ASSUME IInv, LexInv, status = "string", NEW c, NEW end \in idx + 1 .. End, Read(c, end),
         ReadSoFar(open.at, Append(open.value, c), end)
  PROVE  LexInv'
<1>1. /\ open.at < idx /\ text[open.at] = Quote /\ Ahead(open.at) /\ idx \in Int /\ End \in Int
      /\ open.at \in Int
  BY StringHere
<1>2. open'.at = open.at /\ open'.value = Append(open.value, c)
  <2>1. open = [type |-> "StrLiteral", value |-> open.value, at |-> open.at,
                line_num |-> open.line_num, col_num |-> open.col_num]
    BY DEF IInv, OpenOK
  <2>2. open' = [open EXCEPT !.value = Append(@, c)]
    BY DEF Read
  <2>3. QED
    BY <2>1, <2>2
<1>3. idx' = end /\ text' = text /\ tokens' = tokens /\ status' = "string"
  BY DEF Read, MoveTo
<1>4. open.at < end
  BY <1>1
<1>5. PICK p, v : p = open.at /\ v = Append(open.value, c)
  OBVIOUS
<1>6. QED
  BY <1>1, <1>2, <1>3, <1>4, <1>5, StringStays

LEMMA BadStringAhead ==
  ASSUME IInv, LexInv, status = "string", ThrowAt(idx),
         idx < End => /\ Cur # Quote
                      /\ Cur = "NL" \/ (Cur = Backslash /\ Peek \notin DOMAIN Escapes)
  PROVE  LexInv'
<1>1. /\ text \in Seq(Char) /\ idx \in 1 .. End /\ open.at \in 1 .. End /\ open.at < End
      /\ open.at < idx /\ text[open.at] = Quote /\ Ahead(open.at)
      /\ ReadSoFar(open.at, open.value, idx)
      /\ idx < End => Cur = text[idx] /\ Peek = CharAt(idx + 1)
  BY StringHere
<1>2. ASSUME idx < End
      PROVE  text[idx] # Quote /\ \A y \in idx + 1 .. End : Decoded[Slice(idx, y)] = {}
  <2>1. text[idx] = "NL" \/ (text[idx] = Backslash /\ CharAt(idx + 1) \notin DOMAIN Escapes)
    BY <1>1, <1>2
  <2>2. \A y \in idx + 1 .. End : Decoded[Slice(idx, y)] = {}
    BY <1>1, <1>2, <2>1, NotDecoded
  <2>3. QED
    BY <1>1, <1>2, <2>2
<1>3. PICK p, v : p \in 1 .. End /\ p = open.at /\ v = open.value
  BY <1>1
<1>4. TokensFrom[p] = Stuck
  BY <1>1, <1>2, <1>3, FromBadString
<1>5. text' = text /\ status' = "error"
  BY DEF ThrowAt
<1>6. QED
  BY <1>1, <1>3, <1>4, <1>5, StuckAhead

LEMMA EscapeAhead == ASSUME IInv, LexInv, ReadEscape PROVE LexInv'
<1>1. status = "string" /\ idx < End /\ Cur = Backslash /\ Cur # Quote
  BY DEF ReadEscape, InString
<1>2. /\ text \in Seq(Char) /\ idx \in 1 .. End /\ open.at \in 1 .. End /\ open.at < idx
      /\ ReadSoFar(open.at, open.value, idx) /\ Cur = text[idx] /\ Peek = CharAt(idx + 1)
      /\ idx \in Int /\ End \in Int
  BY <1>1, StringHere
<1>3. CASE Peek \in DOMAIN Escapes
  <2>1. Read(Escapes[Peek], idx + 2)
    BY <1>3 DEF ReadEscape
  <2>2. CharAt(idx + 1) # "none"
    BY <1>2, <1>3, Characters
  <2>3. idx + 1 < End /\ Peek = text[idx + 1] /\ idx + 2 \in idx + 1 .. End
    <3>1. idx + 1 < End
      BY <2>2 DEF CharAt
    <3>2. QED
      BY <1>2, <3>1 DEF CharAt
  <2>4. PICK p, v : p \in 1 .. End /\ p = open.at /\ v = open.value
    BY <1>2
  <2>5. ReadSoFar(p, Append(v, Escapes[text[idx + 1]]), idx + 2)
    BY <1>1, <1>2, <1>3, <2>3, <2>4, ReadEscaped
  <2>6. ReadSoFar(open.at, Append(open.value, Escapes[Peek]), idx + 2)
    BY <2>3, <2>4, <2>5, Zenon
  <2>7. QED
    BY <1>1, <2>1, <2>3, <2>6, ReadAhead
<1>4. CASE Peek \notin DOMAIN Escapes
  <2>1. ThrowAt(idx)
    BY <1>4 DEF ReadEscape
  <2>2. QED
    BY <1>1, <1>4, <2>1, BadStringAhead
<1>5. QED
  BY <1>3, <1>4

LEMMA CharAhead == ASSUME IInv, LexInv, ReadChar PROVE LexInv'
<1>1. status = "string" /\ idx < End /\ Cur # Backslash /\ Cur # Quote
  BY DEF ReadChar, InString
<1>2. /\ text \in Seq(Char) /\ idx \in 1 .. End /\ open.at \in 1 .. End /\ open.at < idx
      /\ ReadSoFar(open.at, open.value, idx) /\ Cur = text[idx] /\ idx \in Int /\ End \in Int
  BY <1>1, StringHere
<1>3. CASE Cur # "NL"
  <2>1. Read(Cur, idx + 1)
    BY <1>3 DEF ReadChar
  <2>2. PICK p, v : p \in 1 .. End /\ p = open.at /\ v = open.value
    BY <1>2
  <2>3. ReadSoFar(p, Append(v, text[idx]), idx + 1)
    BY <1>1, <1>2, <1>3, <2>2, ReadPlain
  <2>4. ReadSoFar(open.at, Append(open.value, Cur), idx + 1)
    BY <1>2, <2>2, <2>3, Zenon
  <2>5. idx + 1 \in idx + 1 .. End
    BY <1>1, <1>2
  <2>6. QED
    BY <1>1, <2>1, <2>4, <2>5, ReadAhead
<1>4. CASE Cur = "NL"
  <2>1. ThrowAt(idx)
    BY <1>4 DEF ReadChar
  <2>2. QED
    BY <1>1, <1>4, <2>1, BadStringAhead
<1>5. QED
  BY <1>3, <1>4

LEMMA CloseAhead == ASSUME IInv, LexInv, CloseString PROVE LexInv'
<1>1. /\ status = "string" /\ Cur = Quote /\ tokens' = Append(tokens, open) /\ text' = text
      /\ SkipWhitespace(idx + 1) /\ status' = "lexing"
  BY DEF CloseString
<1>2. /\ text \in Seq(Char) /\ idx \in 1 .. End /\ open.at \in 1 .. End /\ open.at < End
      /\ open.at < idx /\ text[open.at] = Quote /\ Ahead(open.at)
      /\ ReadSoFar(open.at, open.value, idx) /\ idx \in Int /\ End \in Int /\ open.at \in Int
      /\ idx < End => Cur = text[idx]
  BY <1>1, StringHere
<1>3. idx < End /\ text[idx] = Quote
  <2>1. Quote # "none"
    BY Classes
  <2>2. QED
    BY <1>1, <1>2, <2>1 DEF Cur, CharAt
<1>4. PICK p, v : p \in 1 .. End /\ p = open.at /\ v = open.value
  BY <1>2
<1>5. TokensFrom[p] =
        Joined(<<[at |-> p, type |-> "StrLiteral", value |-> v]>>, TokensFrom[idx + 1])
  BY <1>2, <1>3, <1>4, FromString
<1>6. Bare(open) = [at |-> p, type |-> "StrLiteral", value |-> v]
  <2>1. open.type = "StrLiteral"
    BY DEF IInv, OpenOK
  <2>2. QED
    BY <1>4, <2>1 DEF Bare
<1>7. PICK t : t = open
  OBVIOUS
<1>8. TokensFrom[p] = Joined(<<Bare(t)>>, TokensFrom[idx + 1])
  BY <1>5, <1>6, <1>7, Zenon
<1>9. idx + 1 \in p + 1 .. End
  BY <1>2, <1>3, <1>4
<1>10. Ahead(p)
  BY <1>2, <1>4, Zenon
<1>11. QED
  BY <1>1, <1>4, <1>7, <1>8, <1>9, <1>10, MadeAhead

LEMMA QuoteAhead == ASSUME IInv, LexInv, NoMatchingQuote PROVE LexInv'
<1>1. status = "string" /\ idx = End /\ ThrowAt(idx)
  BY DEF NoMatchingQuote
<1>2. ~ (idx < End)
  BY <1>1 DEF IInv, Here, End
<1>3. QED
  BY <1>1, <1>2, BadStringAhead

LEMMA EofAhead == ASSUME IInv, LexInv, PushEof PROVE LexInv'
<1>1. /\ status = "lexing" /\ idx = End /\ tokens' = Append(tokens, NewToken("Eof", <<>>))
      /\ status' = "lexed" /\ text' = text
  BY DEF PushEof
<1>2. text \in Seq(Char) /\ Ahead(End)
  BY <1>1 DEF IInv, Here, LexInv
<1>3. PICK e : e = [at |-> End, type |-> "Eof", value |-> <<>>]
  OBVIOUS
<1>4. TokensFrom[End] = <<e>>
  BY <1>2, <1>3, FromEnd
<1>5. PICK t : t = NewToken("Eof", <<>>)
  OBVIOUS
<1>6. Bare(t) = e
  BY <1>1, <1>3, <1>5 DEF Bare, NewToken
<1>7. <<e>> # Stuck
  BY <1>3 DEF Stuck
<1>8. Joined(BareOf(tokens), <<e>>) = BareOf(Append(tokens, t))
  <2>1. PICK S : tokens \in Seq(S)
    BY DEF IInv, TokensOK
  <2>2. PICK C : C = {Bare(x) : x \in S \union {t}}
    OBVIOUS
  <2>3. /\ BareOf(tokens) \in Seq(C) /\ e \in C
        /\ BareOf(Append(tokens, t)) = Append(BareOf(tokens), e)
    <3>1. \A x \in S \union {t} : Bare(x) \in C
      BY <2>2
    <3>2. QED
      BY <1>6, <2>1, <3>1, BareAppended
  <2>4. BareOf(tokens) \o <<e>> = BareOf(Append(tokens, t))
    BY <2>3, AppendIsConcat
  <2>5. QED
    BY <1>7, <2>4, Zenon DEF Joined
<1>9. BareOf(tokens') = TokensFrom[1]
  BY <1>1, <1>2, <1>4, <1>5, <1>8, Zenon DEF Ahead
<1>10. TokensFrom' = TokensFrom /\ BareOf(tokens)' = BareOf(tokens')
  BY <1>1, SameText DEF BareOf, Bare
<1>11. QED
  BY <1>1, <1>9, <1>10 DEF LexInv

LEMMA LexInit == Init /\ IInv => LexInv
<1> SUFFICES ASSUME Init, IInv PROVE LexInv
  OBVIOUS
<1>1. status = "lexing" /\ idx = 1 /\ tokens = <<>> /\ text \in Seq(Char) /\ 1 \in 1 .. End
  BY DEF Init, IInv, Here
<1>2. PICK rest \in Seq(Items) : rest = TokensFrom[1]
  BY <1>1, TokensFromDef
<1>3. BareOf(tokens) = <<>>
  BY <1>1 DEF BareOf
<1>4. <<>> \o rest = rest
  BY ConcatEmptySeq
<1>5. Ahead(1)
  BY <1>2, <1>3, <1>4, Zenon DEF Ahead, Joined
<1>6. QED
  BY <1>1, <1>5 DEF LexInv

LEMMA LexNext == ASSUME IInv, LexInv, [Next]_vars PROVE LexInv'
<1>1. CASE OtherToken
  BY <1>1, WordAhead, NumberAhead, PunctuationAhead, OperatorAhead DEF OtherToken
<1>2. CASE StringLiteral
  BY <1>2, OpenAhead, EscapeAhead, CharAhead, CloseAhead, QuoteAhead DEF StringLiteral
<1>3. CASE UNCHANGED vars
  <2>1. UNCHANGED <<text, idx, tokens, open, status>>
    BY <1>3 DEF vars
  <2>2. /\ TokensFrom' = TokensFrom /\ End' = End /\ BareOf(tokens)' = BareOf(tokens)
        /\ \A i : CharAt(i)' = CharAt(i)
        /\ \A i, end : Slice(i, end)' = Slice(i, end)
    BY <2>1, SameText DEF BareOf, Bare
  <2>3. \A i : Ahead(i)' <=> Ahead(i)
    BY <2>2 DEF Ahead, Joined, Stuck
  <2>4. CASE status = "string"
    <3>1. PICK p, v, i : p = open.at /\ v = open.value /\ i = idx
      OBVIOUS
    <3>2. p < i /\ text[p] = Quote /\ Ahead(p) /\ ReadSoFar(p, v, i)
      BY <2>4, <3>1 DEF LexInv
    <3>3. open'.at = p /\ open'.value = v /\ idx' = i /\ status' = "string"
      BY <2>1, <2>4, <3>1
    <3>4. QED
      BY <2>1, <3>2, <3>3, StringStays
  <2>5. CASE status # "string"
    <3>1. (status = "lexing" => Ahead(idx) /\ (idx = 1 \/ CharAt(idx) \notin Whitespace))'
      BY <2>1, <2>2, <2>3 DEF LexInv
    <3>2. (status = "lexed" => BareOf(tokens) = TokensFrom[1])'
      BY <2>1, <2>2 DEF LexInv
    <3>3. (status = "error" => TokensFrom[1] = Stuck)'
      BY <2>1, <2>2 DEF LexInv, Stuck
    <3>4. status' # "string"
      BY <2>1, <2>5
    <3>5. QED
      BY <3>1, <3>2, <3>3, <3>4 DEF LexInv
  <2>6. QED
    BY <2>4, <2>5
<1>4. QED
  BY <1>1, <1>2, <1>3, CommentAhead, EofAhead DEF Next, Stopped

(* tokenize() makes the tokens the language finds in the text, the longest *)
(* at each place, with their values, and refuses a text only if it does    *)
(* not consist of tokens: for all texts and for every greatest integer.    *)
THEOREM TokensTrue == Spec => []FollowsLexicon
<1>1. Init /\ IInv => LexInv
  BY LexInit
<1>2. IInv /\ LexInv /\ [Next]_vars => LexInv'
  BY LexNext
<1>3. LexInv => FollowsLexicon
  BY DEF LexInv, FollowsLexicon
<1>4. QED
  BY <1>1, <1>2, <1>3, Invariance, PTL DEF Spec
=============================================================================
