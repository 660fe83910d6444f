---------------------------- MODULE ParserProofs ----------------------------
(***************************************************************************)
(* Theorems about the parser, for programs of any length: Eof stays in the *)
(* deque, the calls nest no deeper than twice the tokens consumed and      *)
(* three, and no step leaves the parser with as much to do as before; and, *)
(* behind them, that what the parser returns is the one tree that the      *)
(* grammar has for the program, and that it refuses only what has none.    *)
(***************************************************************************)
EXTENDS Grammar, SequenceTheorems, Induction, TLAPS

(* Trees nest without bound, so that no set holds all frames: all that is  *)
(* said of the calls is that they are a sequence.                          *)
IsCalls(s) == (\E S : s \in Seq(S)) /\ Len(s) > 0

(* The outermost call is parse_stmts() of the program, in its loop.        *)
Based(calls) ==
  /\ {"at", "kind"} \subseteq DOMAIN calls[1]
  /\ calls[1].at = "list" /\ calls[1].kind = "Stmts"

(* The calls of a parser under way.                                        *)
Calls(s) == IsCalls(s) /\ Based(s)

(* In the loop over a list no call waits for an expression of it: the      *)
(* calls are two fewer than they may be elsewhere.                         *)
Shallow ==
  Len(stack) <= 1 + 2 * (Len(input) - Len(tokens)) + (IF Top.at = "list" THEN 0 ELSE 2)

IInv ==
  /\ tokens \in Seq(TokenType) /\ input \in Seq(TokenType)
  /\ Calls(stack)
  /\ EofKept
  /\ Shallow

LEMMA CallsAppend ==
  ASSUME NEW s, NEW S, s \in Seq(S), NEW x
  PROVE  /\ IsCalls(Append(s, x)) /\ Len(Append(s, x)) = Len(s) + 1
         /\ \A i \in 1 .. Len(s) : Append(s, x)[i] = s[i]
         /\ Append(s, x)[Len(s) + 1] = x
<1>1. s \in Seq(S \union {x})
  OBVIOUS
<1>2. Append(s, x) \in Seq(S \union {x}) /\ Len(Append(s, x)) = Len(s) + 1
  BY <1>1
<1>3. (\A i \in 1 .. Len(s) : Append(s, x)[i] = s[i]) /\ Append(s, x)[Len(s) + 1] = x
  BY <1>1
<1>4. QED
  BY <1>2, <1>3 DEF IsCalls

LEMMA CallsPush ==
  ASSUME NEW s, Calls(s), NEW x
  PROVE  /\ Calls(Append(s, x)) /\ Len(Append(s, x)) = Len(s) + 1
         /\ Append(s, x)[Len(s) + 1] = x
<1>1. PICK S : s \in Seq(S)
  BY DEF Calls, IsCalls
<1>2. 1 \in 1 .. Len(s)
  BY <1>1 DEF Calls, IsCalls
<1>3. QED
  BY <1>1, <1>2, CallsAppend DEF Calls, Based

(* Only the outermost call can be the only one.                            *)
LEMMA Inner ==
  ASSUME Calls(stack), Top.at # "list" \/ Top.kind # "Stmts"
  PROVE  Len(stack) \in Nat /\ Len(stack) > 1
<1>1. Len(stack) \in Nat /\ Len(stack) > 0
  BY DEF Calls, IsCalls
<1>2. ~ (Len(stack) = 1)
  BY DEF Calls, Based, Top
<1>3. \A n \in Nat : n > 0 /\ ~ (n = 1) => n > 1
  OBVIOUS
<1>4. QED
  BY <1>1, <1>2, <1>3

(* Replacing the frame at the top.                                         *)
LEMMA CallsTop ==
  ASSUME Calls(stack), Top.at # "list" \/ Top.kind # "Stmts", NEW f
  PROVE  /\ Calls(SetTop(f)) /\ Len(SetTop(f)) = Len(stack)
<1>1. PICK S : stack \in Seq(S)
  BY DEF Calls, IsCalls
<1>2. stack \in Seq(S \union {f})
  BY <1>1
<1>3. Len(stack) \in 1 .. Len(stack) /\ 1 \in 1 .. Len(stack) /\ 1 < Len(stack)
  BY Inner
<1>4. /\ SetTop(f) \in Seq(S \union {f}) /\ Len(SetTop(f)) = Len(stack)
      /\ SetTop(f)[1] = stack[1]
  BY <1>2, <1>3, ExceptSeq DEF SetTop
<1>5. QED
  BY <1>3, <1>4 DEF Calls, IsCalls, Based

(* The outermost calls, all of them but the outermost replaceable.         *)
LEMMA CallsUpTo ==
  ASSUME Calls(stack), NEW k \in 1 .. Len(stack) - 1, NEW f
  PROVE  /\ Calls(Append(SubSeq(stack, 1, k), f))
         /\ Len(Append(SubSeq(stack, 1, k), f)) = k + 1
         /\ Append(SubSeq(stack, 1, k), f)[k + 1] = f
<1>1. PICK S : stack \in Seq(S)
  BY DEF Calls, IsCalls
<1>2. SubSeq(stack, 1, k) \in Seq(S) /\ Len(SubSeq(stack, 1, k)) = k
      /\ SubSeq(stack, 1, k)[1] = stack[1]
  BY <1>1
<1>3. Calls(SubSeq(stack, 1, k))
  BY <1>2 DEF Calls, IsCalls, Based
<1>4. QED
  BY <1>2, <1>3, CallsPush

(* The calls once the one at the top has returned, the one below it        *)
(* replaced by f.                                                          *)
LEMMA CallsPop ==
  ASSUME Calls(stack), Below > 1, NEW f
  PROVE  /\ Calls(SetBelow(f)) /\ Len(SetBelow(f)) = Len(stack) - 1
         /\ SetBelow(f)[Len(stack) - 1] = f
<1>1. Len(stack) \in Nat
  BY DEF Calls, IsCalls
<1>2. Below - 1 \in 1 .. Len(stack) - 1 /\ Below - 1 + 1 = Len(stack) - 1
  BY <1>1 DEF Below
<1>3. QED
  BY <1>2, CallsUpTo DEF SetBelow

(* The call under the one that returns is not the outermost.               *)
LEMMA InnerBelow ==
  ASSUME Calls(stack), NEW where, where # "list", ReturningTo(where)
  PROVE  Len(stack) \in Nat /\ Below > 1
<1>1. Len(stack) \in Nat /\ Len(stack) > 1
  BY Inner DEF ReturningTo, AtEndOfLoop, At
<1>2. ~ (Len(stack) - 1 = 1)
  BY DEF ReturningTo, Calls, Based, Below
<1>3. \A n \in Nat : n > 1 /\ ~ (n - 1 = 1) => n - 1 > 1
  OBVIOUS
<1>4. QED
  BY <1>1, <1>2, <1>3 DEF Below

(* The outermost calls, the last of which gains a statement.               *)
LEMMA CallsWithin ==
  ASSUME Calls(stack), NEW k \in 1 .. Len(stack), NEW s
  PROVE  Calls(Within(k, s)) /\ Len(Within(k, s)) = k
<1>1. PICK S : stack \in Seq(S)
  BY DEF Calls, IsCalls
<1> DEFINE c == SubSeq(stack, 1, k)
           f == [c[k] EXCEPT !.lists[stack[k].in] = Append(@, s)]
<1>2. c \in Seq(S) /\ Len(c) = k /\ c[1] = stack[1] /\ k \in 1 .. Len(c)
  BY <1>1
<1>3. Within(k, s) = [c EXCEPT ![k] = f]
  BY DEF Within
<1>4. DOMAIN c[1] = DOMAIN stack[1] /\ c[1].at = "list" /\ c[1].kind = "Stmts"
  BY <1>2 DEF Calls, Based
<1>5. k = 1 => {"at", "kind"} \subseteq DOMAIN f /\ f.at = "list" /\ f.kind = "Stmts"
  BY <1>2, <1>4 DEF Calls, Based
<1> HIDE DEF c, f
<1>6. c \in Seq(S \union {f})
  BY <1>2
<1>7. Within(k, s) \in Seq(S \union {f}) /\ Len(Within(k, s)) = k
  BY <1>2, <1>3, <1>6, ExceptSeq
<1>8. Within(k, s)[1] = IF k = 1 THEN f ELSE stack[1]
  BY <1>2, <1>3
<1>9. QED
  BY <1>5, <1>7, <1>8 DEF Calls, IsCalls, Based

(* What no Eof is among can be popped.                                     *)
LEMMA PopKeepsEof ==
  ASSUME IInv, NEW n \in Nat, \A i \in 1 .. n : tokens[i] # "Eof",
         tokens' = SubSeq(tokens, n + 1, Len(tokens))
  PROVE  /\ tokens' \in Seq(TokenType)
         /\ Len(tokens') = Len(tokens) - n
         /\ EofKept'
<1>1. tokens \in Seq(TokenType) /\ Len(tokens) \in Nat \ {0} /\ tokens[Len(tokens)] = "Eof"
  BY DEF IInv, EofKept
<1>2. n < Len(tokens)
  BY <1>1
<1>3. /\ tokens' \in Seq(TokenType)
      /\ Len(tokens') = Len(tokens) - n
      /\ \A i \in 1 .. Len(tokens) - n : tokens'[i] = tokens[n + i]
  BY <1>1, <1>2
<1>4. \A i \in 1 .. Len(tokens) - n : tokens'[i] = "Eof" <=> i = Len(tokens) - n
  <2> TAKE i \in 1 .. Len(tokens) - n
  <2>1. n + i \in 1 .. Len(tokens)
    BY <1>1, <1>2
  <2>2. tokens[n + i] = "Eof" <=> n + i = Len(tokens)
    BY <1>1, <2>1 DEF IInv, EofKept
  <2>3. QED
    BY <1>1, <1>2, <1>3, <2>2
<1>5. DOMAIN tokens' = 1 .. Len(tokens) - n
  BY <1>3, LenProperties
<1>6. tokens' # <<>>
  <2>1. 1 \in DOMAIN tokens'
    BY <1>1, <1>2, <1>5
  <2>2. QED
    BY <2>1
<1>7. EofKept'
  BY <1>3, <1>4, <1>5, <1>6 DEF EofKept
<1>8. QED
  BY <1>3, <1>7

Goes == IInv' /\ Left' < Left
Ends == IInv' /\ status' # "parsing"

LEMMA Lengths ==
  ASSUME IInv
  PROVE  Len(stack) \in Nat /\ Len(tokens) \in Nat /\ Len(input) \in Nat
  BY DEF IInv, Calls, IsCalls

(* A step that consumes tokens.  One that adds two calls starts from a     *)
(* list, and one that adds one call does not come to a list.               *)
LEMMA GoKeeps ==
  ASSUME IInv, NEW n \in Nat \ {0}, \A i \in 1 .. n : tokens[i] # "Eof",
         NEW calls, Go(n, calls), Calls(calls),
         \/ Len(calls) <= Len(stack)
         \/ Len(calls) = Len(stack) + 1 /\ calls[Len(calls)].at # "list"
         \/ Len(calls) <= Len(stack) + 2 /\ Top.at = "list"
  PROVE  Goes
<1>1. Len(calls) \in Nat
  BY DEF Calls, IsCalls
<1>2. /\ tokens' \in Seq(TokenType) /\ EofKept' /\ Len(tokens') = Len(tokens) - n
      /\ stack' = calls /\ input' = input
  BY PopKeepsEof DEF Go
<1> DEFINE after == IF calls[Len(calls)].at = "list" THEN 0 ELSE 2
           before == IF Top.at = "list" THEN 0 ELSE 2
<1>3. Shallow' = (Len(calls) <= 1 + 2 * (Len(input) - (Len(tokens) - n)) + after)
  BY <1>2 DEF Shallow, Top
<1>4. Len(stack) <= 1 + 2 * (Len(input) - Len(tokens)) + before
  BY DEF IInv, Shallow
<1>5. /\ before \in {0, 2} /\ after \in {0, 2}
      /\ \/ Len(calls) <= Len(stack)
         \/ Len(calls) = Len(stack) + 1 /\ after = 2
         \/ Len(calls) <= Len(stack) + 2 /\ before = 0
  OBVIOUS
<1>6. /\ Left' = 6 * (Len(tokens) - n) + Len(calls) + (IF after = 0 THEN 3 ELSE 0)
      /\ Left = 6 * Len(tokens) + Len(stack) + (IF before = 0 THEN 3 ELSE 0)
  BY <1>2 DEF Left, Top
<1> HIDE DEF before, after
<1>7. Len(calls) <= 1 + 2 * (Len(input) - (Len(tokens) - n)) + after
  BY <1>1, <1>4, <1>5, Lengths
<1>8. Left' < Left
  BY <1>1, <1>5, <1>6, Lengths
<1>9. QED
  BY <1>2, <1>3, <1>7, <1>8 DEF IInv, Goes

LEMMA StillKeeps == ASSUME IInv, UNCHANGED <<tokens, stack, input>> PROVE IInv'
  BY DEF IInv, EofKept, Shallow, Top

LEMMA ThrowEnds == ASSUME IInv, Throw PROVE Ends
  BY StillKeeps DEF Throw, Ends

(* A step that consumes nothing: it leaves a call that is not in a list,   *)
(* or adds two to one that is.                                             *)
LEMMA GoStill ==
  ASSUME IInv, NEW calls, Go(0, calls), Calls(calls), calls[Len(calls)].at # "list",
         \/ Len(calls) = Len(stack) - 1 /\ Top.at # "list"
         \/ Len(calls) = Len(stack) + 2 /\ Top.at = "list"
  PROVE  Goes
<1>1. /\ tokens' = tokens /\ stack' = calls /\ input' = input
  BY DEF Go, IInv
<1>2. Shallow' /\ Left' < Left
  BY <1>1, Lengths DEF IInv, Shallow, Left, Top
<1>3. EofKept'
  BY <1>1 DEF IInv, EofKept
<1>4. QED
  BY <1>1, <1>2, <1>3 DEF IInv, Goes

-----------------------------------------------------------------------------
(* The shapes of a step: the top goes on, calls another, or returns.       *)

LEMMA TopGoes ==
  ASSUME IInv, NEW n \in Nat \ {0}, \A i \in 1 .. n : tokens[i] # "Eof",
         Top.at # "list" \/ Top.kind # "Stmts", NEW f, Go(n, SetTop(f))
  PROVE  Goes
<1>1. Calls(SetTop(f)) /\ Len(SetTop(f)) = Len(stack)
  BY CallsTop DEF IInv
<1>2. QED
  BY <1>1, Lengths, GoKeeps

LEMMA PushGoes ==
  ASSUME IInv, NEW n \in Nat \ {0}, \A i \in 1 .. n : tokens[i] # "Eof",
         Top.at # "list" \/ Top.kind # "Stmts", NEW f, NEW g, g.at # "list",
         Go(n, Append(SetTop(f), g))
  PROVE  Goes
<1> DEFINE calls == Append(SetTop(f), g)
<1>1. Calls(SetTop(f)) /\ Len(SetTop(f)) = Len(stack)
  BY CallsTop DEF IInv
<1>2. Calls(calls) /\ Len(calls) = Len(stack) + 1 /\ calls[Len(stack) + 1] = g
  BY <1>1, CallsPush
<1> HIDE DEF calls
<1>3. Go(n, calls)
  BY DEF calls
<1>4. QED
  BY <1>2, <1>3, GoKeeps

LEMMA PopGoes ==
  ASSUME IInv, Below > 1, NEW n \in Nat \ {0}, \A i \in 1 .. n : tokens[i] # "Eof",
         NEW f, Go(n, SetBelow(f))
  PROVE  Goes
<1>1. Calls(SetBelow(f)) /\ Len(SetBelow(f)) = Len(stack) - 1
  BY CallsPop DEF IInv
<1>2. QED
  BY <1>1, Lengths, GoKeeps

(* The call below goes on, with another above it.                          *)
LEMMA TurnGoes ==
  ASSUME IInv, Below > 1, NEW n \in Nat \ {0}, \A i \in 1 .. n : tokens[i] # "Eof",
         NEW f, NEW g, Go(n, Append(SetBelow(f), g))
  PROVE  Goes
<1> DEFINE calls == Append(SetBelow(f), g)
<1>1. Calls(SetBelow(f)) /\ Len(SetBelow(f)) = Len(stack) - 1
  BY CallsPop DEF IInv
<1>2. Calls(calls) /\ Len(calls) = Len(stack) - 1 + 1
  BY <1>1, CallsPush
<1> HIDE DEF calls
<1>3. Go(n, calls)
  BY DEF calls
<1>4. QED
  BY <1>2, <1>3, GoKeeps, Lengths

(* A statement ends.                                                       *)
LEMMA WithinGoes ==
  ASSUME IInv, NEW n \in Nat \ {0}, \A i \in 1 .. n : tokens[i] # "Eof",
         NEW k \in 1 .. Len(stack), NEW s, Go(n, Within(k, s))
  PROVE  Goes
<1>1. Calls(Within(k, s)) /\ Len(Within(k, s)) = k
  BY CallsWithin DEF IInv
<1>2. QED
  BY <1>1, Lengths, GoKeeps

-----------------------------------------------------------------------------
(* The actions of exp_bp.                                                  *)

LEMMA LeafGoes == ASSUME IInv, ParseLeaf PROVE Goes
<1>1. \A i \in 1 .. 1 : tokens[i] # "Eof"
  BY DEF ParseLeaf, Front, LeafKind
<1>2. Top.at = "operand"
  BY DEF ParseLeaf, At
<1>3. PICK f : Go(1, SetTop(f))
  BY DEF ParseLeaf
<1>4. QED
  BY <1>1, <1>2, <1>3, TopGoes

LEMMA ExpBpAt == \A p : ExpBp(p).at = "operand"
  BY DEF ExpBp

LEMMA CallGoes == ASSUME IInv, ParseCall PROVE Goes
<1>1. tokens[1] # "Eof" /\ tokens[2] # "Eof" /\ Top.at = "operand"
  BY DEF ParseCall, CallAhead, Front, At
<1>2. CASE tokens[3] = "Rparen"
  <2>1. PICK f : Go(3, SetTop(f))
    BY <1>2 DEF ParseCall
  <2>2. \A i \in 1 .. 3 : tokens[i] # "Eof"
    BY <1>1, <1>2
  <2>3. QED
    BY <1>1, <2>1, <2>2, TopGoes
<1>3. CASE tokens[3] # "Rparen"
  <2>1. PICK f : Go(2, Append(SetTop(f), ExpBp(0)))
    BY <1>3 DEF ParseCall
  <2>2. \A i \in 1 .. 2 : tokens[i] # "Eof"
    BY <1>1
  <2>3. QED
    BY <1>1, <2>1, <2>2, PushGoes, ExpBpAt
<1>4. QED
  BY <1>2, <1>3

LEMMA ParenGoes == ASSUME IInv, ParseParen PROVE Goes
<1>1. (\A i \in 1 .. 1 : tokens[i] # "Eof") /\ Top.at = "operand"
  BY DEF ParseParen, Front, At
<1>2. PICK f : Go(1, Append(SetTop(f), ExpBp(0)))
  BY DEF ParseParen
<1>3. QED
  BY <1>1, <1>2, PushGoes, ExpBpAt

LEMMA PrefixGoes == ASSUME IInv, ParsePrefix PROVE Goes
<1>1. (\A i \in 1 .. 1 : tokens[i] # "Eof") /\ Top.at = "operand"
  BY DEF ParsePrefix, Front, PrefixOps, At
<1>2. PICK f : Go(1, Append(SetTop(f), ExpBp(PrefixBp)))
  BY DEF ParsePrefix
<1>3. QED
  BY <1>1, <1>2, PushGoes, ExpBpAt

LEMMA InfixGoes == ASSUME IInv, ParseInfix PROVE Goes
<1>1. (\A i \in 1 .. 1 : tokens[i] # "Eof") /\ Top.at = "loop"
  BY DEF ParseInfix, Front, InfixOps, Level, At
<1>2. PICK f, p : Go(1, Append(SetTop(f), ExpBp(p)))
  BY DEF ParseInfix
<1>3. QED
  BY <1>1, <1>2, PushGoes, ExpBpAt

LEMMA PostfixGoes == ASSUME IInv, ParsePostfix PROVE Goes
<1>1. (\A i \in 1 .. 1 : tokens[i] # "Eof") /\ Top.at = "loop"
  BY DEF ParsePostfix, Front, PostfixOps, At
<1>2. PICK f : Go(1, SetTop(f))
  BY DEF ParsePostfix
<1>3. QED
  BY <1>1, <1>2, TopGoes

LEMMA OperandReturns == ASSUME IInv, ReturnOperand PROVE Goes
<1>1. PICK e : Go(0, SetBelow(LoopOf(stack[Below], e)))
  BY DEF ReturnOperand, Resume
<1>2. Len(stack) \in Nat /\ Below > 1 /\ Top.at = "loop"
  BY InnerBelow DEF ReturnOperand, IInv, ReturningTo, AtEndOfLoop, At
<1> DEFINE f == LoopOf(stack[Below], e)
           calls == SetBelow(f)
<1>3. f.at = "loop"
  BY DEF LoopOf, ExpBp
<1> HIDE DEF f
<1>4. Calls(calls) /\ Len(calls) = Len(stack) - 1 /\ calls[Len(calls)].at # "list"
  BY <1>2, <1>3, CallsPop DEF IInv
<1>5. Go(0, calls)
  BY <1>1 DEF f
<1> HIDE DEF calls
<1>6. QED
  BY <1>2, <1>4, <1>5, GoStill

LEMMA ParenReturns == ASSUME IInv, ReturnToParen PROVE Goes \/ Ends
<1>1. CASE Front = "Rparen"
  <2>1. PICK f : Go(1, SetBelow(f))
    BY <1>1 DEF ReturnToParen, Resume
  <2>2. Below > 1
    BY InnerBelow DEF ReturnToParen, IInv
  <2>3. \A i \in 1 .. 1 : tokens[i] # "Eof"
    BY <1>1 DEF Front
  <2>4. QED
    BY <2>1, <2>2, <2>3, PopGoes
<1>2. CASE Front # "Rparen"
  BY <1>2, ThrowEnds DEF ReturnToParen
<1>3. QED
  BY <1>1, <1>2

LEMMA ArgumentReturns == ASSUME IInv, ReturnArgument PROVE Goes \/ Ends
<1>1. Below > 1
  BY InnerBelow DEF ReturnArgument, IInv
<1>2. CASE Front = "Comma"
  <2>1. PICK f, g : Go(1, Append(SetBelow(f), g))
    BY <1>2 DEF ReturnArgument
  <2>2. \A i \in 1 .. 1 : tokens[i] # "Eof"
    BY <1>2 DEF Front
  <2>3. QED
    BY <1>1, <2>1, <2>2, TurnGoes
<1>3. CASE Front = "Rparen"
  <2>1. PICK f : Go(1, SetBelow(f))
    BY <1>3 DEF ReturnArgument, Resume
  <2>2. \A i \in 1 .. 1 : tokens[i] # "Eof"
    BY <1>3 DEF Front
  <2>3. QED
    BY <1>1, <2>1, <2>2, PopGoes
<1>4. CASE Front \notin {"Comma", "Rparen"}
  BY <1>4, ThrowEnds DEF ReturnArgument
<1>5. QED
  BY <1>2, <1>3, <1>4

LEMMA ExpSteps == ASSUME IInv, ParseExp PROVE Goes \/ Ends
<1>1. CASE Operand
  BY <1>1, LeafGoes, CallGoes, ParenGoes, PrefixGoes, ThrowEnds DEF Operand, NoOperand
<1>2. CASE OperatorLoop
  BY <1>2, PostfixGoes, InfixGoes DEF OperatorLoop
<1>3. CASE Return
  BY <1>3, OperandReturns, ParenReturns, ArgumentReturns DEF Return
<1>4. QED
  BY <1>1, <1>2, <1>3 DEF ParseExp

-----------------------------------------------------------------------------
(* The actions of the statement parsers.                                   *)

(* Tokens that were expected, and are there, can be popped.                *)
LEMMA AheadPops ==
  ASSUME IInv, NEW types \in Seq(TokenType \ {"Eof"}), Ahead(types)
  PROVE  \A i \in 1 .. Len(types) : tokens[i] # "Eof"
<1> SUFFICES ASSUME NEW i \in 1 .. Len(types) PROVE tokens[i] # "Eof"
  OBVIOUS
<1>1. tokens[i] = SubSeq(tokens, 1, Len(types))[i]
  BY DEF Ahead, IInv
<1>2. tokens[i] = types[i]
  BY <1>1 DEF Ahead
<1>3. QED
  BY <1>2

(* A statement parser and a parse_exp() are called from a list.            *)
LEMMA CallExpGoes ==
  ASSUME IInv, Top.at = "list", NEW f, NEW n \in Nat, \A i \in 1 .. n : tokens[i] # "Eof",
         Go(n, CallExp(f))
  PROVE  Goes
<1> DEFINE calls == CallExp(f)
<1>1. Calls(Append(stack, f)) /\ Len(Append(stack, f)) = Len(stack) + 1
  BY CallsPush DEF IInv
<1>2. Calls(calls) /\ Len(calls) = Len(stack) + 2 /\ calls[Len(calls)].at # "list"
  BY <1>1, CallsPush, ExpBpAt, Lengths DEF CallExp
<1> HIDE DEF calls
<1>3. Go(n, calls)
  BY DEF calls
<1>4. CASE n = 0
  BY <1>2, <1>3, <1>4, GoStill
<1>5. CASE n # 0
  BY <1>2, <1>3, <1>5, GoKeeps, Lengths
<1>6. QED
  BY <1>4, <1>5

LEMMA VardeclGoes == ASSUME IInv, ParseVardecl PROVE Goes \/ Ends
<1> DEFINE types == <<"KeywordVar", "Identifier", "TypeName", "Assign">>
           calls == CallExp(Frame("VardeclStmt", "exp"))
<1>1. Expect(types, calls) /\ Top.at = "list"
  BY DEF ParseVardecl, StmtAhead, At
<1>2. CASE Ahead(types)
  <2>1. types \in Seq(TokenType \ {"Eof"}) /\ Len(types) = 4
    BY DEF TokenType
  <2>2. \A i \in 1 .. 4 : tokens[i] # "Eof"
    BY <1>2, <2>1, AheadPops
  <2>3. Go(4, calls)
    BY <1>1, <1>2, <2>1 DEF Expect
  <2>4. QED
    BY <1>1, <2>2, <2>3, CallExpGoes
<1>3. CASE ~ Ahead(types)
  BY <1>1, <1>3, ThrowEnds DEF Expect
<1>4. QED
  BY <1>2, <1>3

LEMMA AssignGoes == ASSUME IInv, ParseAssign PROVE Goes
<1>1. Go(0, CallExp(Frame("AssignStmt", "exp"))) /\ Top.at = "list"
  BY DEF ParseAssign, StmtAhead, At
<1>2. \A i \in 1 .. 0 : tokens[i] # "Eof"
  OBVIOUS
<1>3. QED
  BY <1>1, <1>2, CallExpGoes

(* The list at the top gains the statement s.                              *)
LEMMA WithinTopGoes ==
  ASSUME IInv, NEW n \in Nat \ {0}, \A i \in 1 .. n : tokens[i] # "Eof",
         NEW s, Go(n, Within(Len(stack), s))
  PROVE  Goes
<1>1. Len(stack) \in 1 .. Len(stack)
  BY DEF IInv, Calls, IsCalls
<1>2. QED
  BY <1>1, WithinGoes

(* The list of the call below gains the statement s.                       *)
LEMMA WithinBelowGoes ==
  ASSUME IInv, Top.at # "list" \/ Top.kind # "Stmts",
         NEW n \in Nat \ {0}, \A i \in 1 .. n : tokens[i] # "Eof",
         NEW s, Go(n, Within(Below, s))
  PROVE  Goes
<1>1. Below \in 1 .. Len(stack)
  BY Inner DEF IInv, Below
<1>2. QED
  BY <1>1, WithinGoes

(* A parse_exp() returns, and so does the statement parser that called it. *)
LEMMA EndStmtGoes ==
  ASSUME IInv, Below > 1, NEW n \in Nat \ {0}, \A i \in 1 .. n : tokens[i] # "Eof",
         NEW s, Go(n, Within(Below - 1, s))
  PROVE  Goes
<1>1. Below - 1 \in 1 .. Len(stack)
  BY Lengths DEF Below
<1>2. QED
  BY <1>1, WithinGoes

LEMMA CallStmtGoes == ASSUME IInv, ParseCallStmt PROVE Goes \/ Ends
<1> DEFINE types == <<"Identifier", "Lparen", "Rparen", "Semicolon">>
<1>1. Top.at = "list" /\ tokens[1] # "Eof" /\ tokens[2] # "Eof"
  BY DEF ParseCallStmt, StmtAhead, CallAhead, Front, At
<1>2. CASE tokens[3] # "Rparen"
  <2>1. Go(2, CallExp(Frame("CallStmt", "exp")))
    BY <1>2 DEF ParseCallStmt
  <2>2. \A i \in 1 .. 2 : tokens[i] # "Eof"
    BY <1>1
  <2>3. QED
    BY <1>1, <2>1, <2>2, CallExpGoes
<1>3. CASE tokens[3] = "Rparen" /\ Ahead(types)
  <2>1. types \in Seq(TokenType \ {"Eof"}) /\ Len(types) = 4
    BY DEF TokenType
  <2>2. \A i \in 1 .. 4 : tokens[i] # "Eof"
    BY <1>3, <2>1, AheadPops
  <2>3. PICK s : Go(4, Within(Len(stack), s))
    BY <1>3, <2>1 DEF ParseCallStmt, Expect
  <2>4. QED
    BY <2>2, <2>3, WithinTopGoes
<1>4. CASE tokens[3] = "Rparen" /\ ~ Ahead(types)
  BY <1>4, ThrowEnds DEF ParseCallStmt, Expect
<1>5. QED
  BY <1>2, <1>3, <1>4

LEMMA ReturnGoes == ASSUME IInv, ParseReturn PROVE Goes
<1>1. Top.at = "list" /\ tokens[1] # "Eof"
  BY DEF ParseReturn, StmtAhead, Front, At
<1>2. CASE tokens[2] = "Semicolon"
  <2>1. PICK s : Go(2, Within(Len(stack), s))
    BY <1>2 DEF ParseReturn
  <2>2. \A i \in 1 .. 2 : tokens[i] # "Eof"
    BY <1>1, <1>2
  <2>3. QED
    BY <2>1, <2>2, WithinTopGoes
<1>3. CASE tokens[2] # "Semicolon"
  <2>1. Go(1, CallExp(Frame("RetStmt", "exp")))
    BY <1>3 DEF ParseReturn
  <2>2. \A i \in 1 .. 1 : tokens[i] # "Eof"
    BY <1>1
  <2>3. QED
    BY <1>1, <2>1, <2>2, CallExpGoes
<1>4. QED
  BY <1>2, <1>3

LEMMA CondGoes == ASSUME IInv, ParseIf \/ ParseWhile \/ ParseRepeat PROVE Goes
<1>1. PICK kind : Go(1, CallExp(Frame(kind, "exp")))
  BY DEF ParseIf, ParseWhile, ParseRepeat
<1>2. (\A i \in 1 .. 1 : tokens[i] # "Eof") /\ Top.at = "list"
  BY DEF ParseIf, ParseWhile, ParseRepeat, StmtAhead, At, Front
<1>3. QED
  BY <1>1, <1>2, CallExpGoes

LEMMA ExpectListGoes ==
  ASSUME IInv, Top.at = "list", NEW types \in Seq(TokenType \ {"Eof"}), Len(types) > 0,
         NEW f, Expect(types, Append(stack, f))
  PROVE  Goes \/ Ends
<1>1. CASE Ahead(types)
  <2>1. \A i \in 1 .. Len(types) : tokens[i] # "Eof"
    BY <1>1, AheadPops
  <2>2. PICK calls : /\ Go(Len(types), calls)
                     /\ Calls(calls) /\ Len(calls) = Len(stack) + 1
    BY <1>1, CallsPush DEF Expect, IInv
  <2>3. Len(calls) <= Len(stack) + 2 /\ Len(types) \in Nat \ {0}
    BY <2>2, Lengths
  <2>4. QED
    BY <2>1, <2>2, <2>3, GoKeeps
<1>2. CASE ~ Ahead(types)
  BY <1>2, ThrowEnds DEF Expect
<1>3. QED
  BY <1>1, <1>2

LEMMA FundecGoes == ASSUME IInv, ParseFundec PROVE Goes \/ Ends
<1> DEFINE rest == <<"Rparen", "Lcurl">>
           long == FundecHead \o rest
<1>1. Top.at = "list"
  BY DEF ParseFundec, StmtAhead, At
<1>2. FundecHead \in Seq(TokenType \ {"Eof"}) /\ Len(FundecHead) > 0
  BY DEF FundecHead, TokenType
<1>3. rest \in Seq(TokenType \ {"Eof"}) /\ Len(rest) > 0
  BY DEF TokenType
<1>4. \/ Expect(long, Append(stack, Frame("FundecStmt", "list")))
      \/ Expect(FundecHead, Append(stack, Frame("FundecStmt", "params")))
  BY Zenon DEF ParseFundec
<1> HIDE DEF rest
<1>5. \A S : \A s, t \in Seq(S) : s \o t \in Seq(S) /\ Len(s \o t) = Len(s) + Len(t)
  OBVIOUS
<1>6. long \in Seq(TokenType \ {"Eof"}) /\ Len(long) = Len(FundecHead) + Len(rest)
  BY <1>2, <1>3, <1>5, Zenon
<1>7. \A m, n \in Nat : m > 0 /\ n > 0 => m + n > 0
  OBVIOUS
<1>8. Len(long) > 0
  BY <1>2, <1>3, <1>6, <1>7, LenProperties
<1> HIDE DEF long
<1>9. CASE Expect(long, Append(stack, Frame("FundecStmt", "list")))
  BY <1>1, <1>6, <1>8, <1>9, ExpectListGoes, Zenon
<1>10. CASE Expect(FundecHead, Append(stack, Frame("FundecStmt", "params")))
  BY <1>1, <1>2, <1>10, ExpectListGoes, Zenon
<1>11. QED
  BY <1>4, <1>9, <1>10

LEMMA StmtSteps == ASSUME IInv, ParseStmt PROVE Goes \/ Ends
  BY VardeclGoes, AssignGoes, CallStmtGoes, ReturnGoes, CondGoes, FundecGoes, ThrowEnds
  DEF ParseStmt, NoStatement

-----------------------------------------------------------------------------
(* The loop over parameters, and parse_exp() returning to a statement.     *)

LEMMA ParamGoes == ASSUME IInv, ParseParam PROVE Goes \/ Ends
<1> DEFINE more == <<"Identifier", "TypeName", "Comma">>
           last == <<"Identifier", "TypeName", "Rparen", "Lcurl">>
<1>1. Top.at = "params"
  BY DEF ParseParam, At
<1>2. /\ more \in Seq(TokenType \ {"Eof"}) /\ Len(more) = 3
      /\ last \in Seq(TokenType \ {"Eof"}) /\ Len(last) = 4
  BY DEF TokenType
<1>3. PICK f, g : IF Ahead(more) THEN Go(3, SetTop(f)) ELSE Expect(last, SetTop(g))
  BY Zenon DEF ParseParam
<1> HIDE DEF more, last
<1>4. CASE Ahead(more)
  <2>1. \A i \in 1 .. 3 : tokens[i] # "Eof"
    BY <1>2, <1>4, AheadPops
  <2>2. QED
    BY <1>1, <1>3, <1>4, <2>1, TopGoes
<1>5. CASE ~ Ahead(more) /\ Ahead(last)
  <2>1. \A i \in 1 .. 4 : tokens[i] # "Eof"
    BY <1>2, <1>5, AheadPops
  <2>2. Go(4, SetTop(g))
    BY <1>2, <1>3, <1>5 DEF Expect
  <2>3. QED
    BY <1>1, <2>1, <2>2, TopGoes
<1>6. CASE ~ Ahead(more) /\ ~ Ahead(last)
  BY <1>3, <1>6, ThrowEnds DEF Expect
<1>7. QED
  BY <1>4, <1>5, <1>6

LEMMA ExpectOne ==
  ASSUME IInv, NEW t \in TokenType \ {"Eof"}, NEW calls, Expect(<<t>>, calls)
  PROVE  \/ Ends
         \/ Go(1, calls) /\ \A i \in 1 .. 1 : tokens[i] # "Eof"
<1>1. <<t>> \in Seq(TokenType \ {"Eof"}) /\ Len(<<t>>) = 1
  OBVIOUS
<1>2. CASE Ahead(<<t>>)
  <2>1. \A i \in 1 .. 1 : tokens[i] # "Eof"
    BY <1>1, <1>2, AheadPops
  <2>2. QED
    BY <1>1, <1>2, <2>1 DEF Expect
<1>3. CASE ~ Ahead(<<t>>)
  BY <1>3, ThrowEnds DEF Expect
<1>4. QED
  BY <1>2, <1>3

LEMMA EndSimpleGoes == ASSUME IInv, EndSimpleStmt PROVE Goes \/ Ends
<1>1. PICK s : Expect(<<"Semicolon">>, Within(Below - 1, s))
  BY DEF EndSimpleStmt
<1>2. ReturningTo("exp")
  BY DEF EndSimpleStmt, ReturningToStmt
<1>3. Below > 1
  BY <1>2, InnerBelow DEF IInv
<1>4. "Semicolon" \in TokenType \ {"Eof"}
  BY DEF TokenType
<1>5. Ends \/ (Go(1, Within(Below - 1, s)) /\ \A i \in 1 .. 1 : tokens[i] # "Eof")
  BY <1>1, <1>4, ExpectOne
<1>6. QED
  BY <1>3, <1>5, EndStmtGoes

LEMMA LhsReturns == ASSUME IInv, ReturnLhs PROVE Goes \/ Ends
<1>1. PICK f, g : Expect(<<"Assign">>, Append(SetBelow(f), g))
  BY DEF ReturnLhs
<1>2. ReturningTo("exp")
  BY DEF ReturnLhs, ReturningToStmt
<1>3. Below > 1
  BY <1>2, InnerBelow DEF IInv
<1>4. "Assign" \in TokenType \ {"Eof"}
  BY DEF TokenType
<1>5. Ends \/ (Go(1, Append(SetBelow(f), g)) /\ \A i \in 1 .. 1 : tokens[i] # "Eof")
  BY <1>1, <1>4, ExpectOne
<1>6. QED
  BY <1>3, <1>5, TurnGoes

LEMMA CondReturns == ASSUME IInv, ReturnCond PROVE Goes \/ Ends
<1>1. PICK f : Expect(<<"Lcurl">>, SetBelow(f))
  BY DEF ReturnCond
<1>2. ReturningTo("exp")
  BY DEF ReturnCond, ReturningToStmt
<1>3. Below > 1
  BY <1>2, InnerBelow DEF IInv
<1>4. "Lcurl" \in TokenType \ {"Eof"}
  BY DEF TokenType
<1>5. Ends \/ (Go(1, SetBelow(f)) /\ \A i \in 1 .. 1 : tokens[i] # "Eof")
  BY <1>1, <1>4, ExpectOne
<1>6. QED
  BY <1>3, <1>5, PopGoes

LEMMA StmtArgumentReturns == ASSUME IInv, ReturnStmtArgument PROVE Goes \/ Ends
<1> DEFINE types == <<"Rparen", "Semicolon">>
<1>1. ReturningTo("exp")
  BY DEF ReturnStmtArgument, ReturningToStmt
<1>2. Below > 1
  BY <1>1, InnerBelow DEF IInv
<1>3. CASE Front = "Comma"
  <2>1. PICK f, g : Go(1, Append(SetBelow(f), g))
    BY <1>3 DEF ReturnStmtArgument
  <2>2. \A i \in 1 .. 1 : tokens[i] # "Eof"
    BY <1>3 DEF Front
  <2>3. QED
    BY <1>2, <2>1, <2>2, TurnGoes
<1>4. CASE Front # "Comma" /\ Ahead(types)
  <2>1. types \in Seq(TokenType \ {"Eof"}) /\ Len(types) = 2
    BY DEF TokenType
  <2>2. \A i \in 1 .. 2 : tokens[i] # "Eof"
    BY <1>4, <2>1, AheadPops
  <2>3. PICK s : Go(2, Within(Below - 1, s))
    BY <1>4, <2>1 DEF ReturnStmtArgument, Expect
  <2>4. QED
    BY <1>2, <2>2, <2>3, EndStmtGoes
<1>5. CASE Front # "Comma" /\ ~ Ahead(types)
  BY <1>5, ThrowEnds DEF ReturnStmtArgument, Expect
<1>6. QED
  BY <1>3, <1>4, <1>5

-----------------------------------------------------------------------------
(* The end of a list.                                                      *)

LEMMA ListCloses ==
  ASSUME IInv, AtRcurl({"IfStmt", "WhileStmt", "RepeatStmt", "FundecStmt"}),
         Go(1, Within(Below, Stmt(Top)))
  PROVE  Goes
<1>1. Top.kind # "Stmts" /\ \A i \in 1 .. 1 : tokens[i] # "Eof"
  BY DEF AtRcurl, StmtAhead, Front
<1>2. PICK s : Go(1, Within(Below, s))
  OBVIOUS
<1>3. QED
  BY <1>1, <1>2, WithinBelowGoes

LEMMA SecondListGoes ==
  ASSUME IInv, NEW kind \in {"IfStmt", "WhileStmt"},
         NEW keyword \in {"KeywordElse", "KeywordOtherwise"},
         SecondList(kind, keyword) \/ NoSecondList(kind, keyword)
  PROVE  Goes \/ Ends
<1> DEFINE types == <<"Rcurl", keyword, "Lcurl">>
<1>1. AtRcurl({"IfStmt", "WhileStmt", "RepeatStmt", "FundecStmt"}) /\ Top.kind # "Stmts"
  BY DEF SecondList, NoSecondList, AtRcurl
<1>2. CASE NoSecondList(kind, keyword)
  BY <1>1, <1>2, ListCloses DEF NoSecondList
<1>3. CASE SecondList(kind, keyword) /\ Ahead(types)
  <2>1. types \in Seq(TokenType \ {"Eof"}) /\ Len(types) = 3
    BY DEF TokenType
  <2>2. \A i \in 1 .. 3 : tokens[i] # "Eof"
    BY <1>3, <2>1, AheadPops
  <2>3. PICK f : Go(3, SetTop(f))
    BY <1>3, <2>1 DEF SecondList, Expect
  <2>4. QED
    BY <1>1, <2>2, <2>3, TopGoes
<1>4. CASE SecondList(kind, keyword) /\ ~ Ahead(types)
  BY <1>4, ThrowEnds DEF SecondList, Expect
<1>5. QED
  BY <1>2, <1>3, <1>4

LEMMA ListSteps == ASSUME IInv, CloseList PROVE Goes \/ Ends
<1>1. CASE CloseIf \/ CloseWhile
  BY <1>1, SecondListGoes DEF CloseIf, CloseWhile
<1>2. CASE CloseRepeat \/ CloseFundec
  BY <1>2, ListCloses DEF CloseRepeat, CloseFundec, AtRcurl
<1>3. CASE CloseProgram
  BY <1>3, StillKeeps DEF CloseProgram, Ends
<1>4. QED
  BY <1>1, <1>2, <1>3 DEF CloseList

-----------------------------------------------------------------------------
LEMMA InitIInv == Init => IInv
<1> SUFFICES ASSUME Init PROVE IInv
  OBVIOUS
<1>1. PICK s \in Inputs : tokens = Append(s, "Eof") /\ input = tokens
  BY DEF Init
<1>2. s \in Seq(TokenType) /\ \A i \in 1 .. Len(s) : s[i] # "Eof"
  BY InputsAssumption
<1>3. /\ tokens \in Seq(TokenType) /\ Len(tokens) = Len(s) + 1
      /\ \A i \in 1 .. Len(s) : tokens[i] = s[i]
      /\ tokens[Len(s) + 1] = "Eof"
  BY <1>1, <1>2 DEF TokenType
<1>4. EofKept
  BY <1>2, <1>3 DEF EofKept
<1> DEFINE program == Frame("Stmts", "list")
<1>5. {"at", "kind"} \subseteq DOMAIN program /\ program.at = "list" /\ program.kind = "Stmts"
  BY DEF Frame
<1>6. stack = <<program>>
  BY DEF Init
<1> HIDE DEF program
<1>7. stack \in Seq({program}) /\ Len(stack) = 1 /\ stack[1] = program
  BY <1>6
<1>8. Calls(stack)
  BY <1>5, <1>7 DEF Calls, IsCalls, Based
<1>9. Shallow
  BY <1>1, <1>3, <1>5, <1>7 DEF Shallow, Top
<1>10. QED
  BY <1>1, <1>3, <1>4, <1>8, <1>9 DEF IInv

LEMMA Step ==
  ASSUME IInv, [Next]_prattv
  PROVE  Goes \/ Ends \/ UNCHANGED prattv
<1>1. CASE ReturnToStmt
  BY <1>1, EndSimpleGoes, LhsReturns, CondReturns, StmtArgumentReturns DEF ReturnToStmt
<1>2. CASE ParseExp \/ ParseStmt \/ ParseParam \/ CloseList
  BY <1>2, ExpSteps, StmtSteps, ParamGoes, ListSteps
<1>3. QED
  BY <1>1, <1>2 DEF Next, Stopped

LEMMA Invariance == Spec => []IInv
<1>1. IInv /\ [Next]_prattv => IInv'
  BY Step, StillKeeps DEF Goes, Ends, prattv
<1>2. QED
  BY InitIInv, <1>1, PTL DEF Spec

(* However the tokens run out, Eof is still in the deque: front() and      *)
(* at(1) exist wherever the parser looks.                                  *)
THEOREM EofStays == Spec => []EofKept
<1>1. IInv => EofKept
  BY DEF IInv
<1>2. QED
  BY <1>1, Invariance, PTL

(* The parser calls itself no deeper than the tokens consumed so far bear. *)
THEOREM Depth == Spec => []DepthBounded
<1>1. IInv => DepthBounded
  BY Lengths DEF IInv, Shallow, DepthBounded
<1>2. QED
  BY <1>1, Invariance, PTL

(* Every step of the parser ends it or lowers what is Left, a number that  *)
(* starts at six times the length of the input and four.                   *)
THEOREM Progress == Spec => MakesProgress
<1>1. IInv /\ [Next]_prattv => [status' # "parsing" \/ Left' < Left]_prattv
  BY Step DEF Goes, Ends, prattv
<1>2. QED
  BY <1>1, Invariance, PTL DEF Spec, MakesProgress
-----------------------------------------------------------------------------
(* The tree of a program.  The calls of the parser are read as what they   *)
(* can still come to: with each goes the set of the trees it may return    *)
(* and of the places before which they may end for the calls below it to   *)
(* go on to the end of the input, and no step changes for which trees of   *)
(* the program the call at the top can go on to that set.  The invariant   *)
(* is TInv, at the end of this section.                                    *)
(* First the trees, as a set: Height(n) has those of height n at most.     *)
OpName == TokenType \union {"Sub"}

Nodes(X) ==
  [kind : {"IntExp", "StringExp", "VarExp"}]
  \union [kind : {"UnopExp"}, op : OpName, e : X]
  \union [kind : {"BinopExp"}, op : OpName, lhs : X, rhs : X]
  \union [kind : {"CallExp"}, args : Seq(X)]
  \union [kind : DOMAIN ListCount, params : Nat, exps : Seq(X), lists : Seq(Seq(X))]

IsTower(h, n) ==
  DOMAIN h = 0 .. n /\ h[0] = {} /\ \A i \in 0 .. n : i < n => h[i + 1] = Nodes(h[i])

Height(n) == (CHOOSE h : IsTower(h, n))[n]
Trees == UNION {Height(n) : n \in Nat}

(* What Init says of the input.                                            *)
EndsInEof ==
  /\ input \in Seq(TokenType) /\ Len(input) \in Nat \ {0}
  /\ \A i \in Place : input[i] = "Eof" <=> i = Len(input)

(* The loop over the operators reads from the left what the grammar groups *)
(* to the left.  <<k, l, i>> is in Grown(m, K) if the tree l, of row k and *)
(* ending before place i, is what some tree e of row m begins with, and    *)
(* <<e, j>> is in K for the place j before which e ends.                   *)
Points == (1 .. 11) \X Trees \X Place

GrowsBy(X, m, K, k, l, i) ==
  \/ k = m /\ <<l, i>> \in K
  \/ k > m /\ <<k - 1, l, i>> \in X
  \/ /\ k \in 1 .. 9 /\ input[i] \in Row[k]
     /\ \E j \in Place : \E r \in Exps[<<k + 1, i + 1, j>>] : <<k, Binop(input[i], l, r), j>> \in X
  \/ k = 11 /\ input[i] = "Lbracket" /\ <<11, Unop("Lbracket", l), i + 1>> \in X

Closed(X, m, K) ==
  \A k \in m .. 11 : \A l \in Trees : \A i \in Place :
    GrowsBy(X, m, K, k, l, i) => <<k, l, i>> \in X

Grown(m, K) == {x \in Points : \A X \in SUBSET Points : Closed(X, m, K) => x \in X}

(* An expression of row m that begins at place i is accepted with K.       *)
Accepts(m, i, K) == \E j \in Place : \E e \in Exps[<<m, i, j>>] : <<e, j>> \in K

(* The least row of the operators that bind as tight as a power.           *)
Bps == {0, 90, 100, 110, 120, 130, 140, 150, 170, 180, 190}

MinRow == [bp \in Bps |->
  CASE bp = 0 -> 1 [] bp = 90 -> 2 [] bp = 100 -> 3 [] bp = 110 -> 4 [] bp = 120 -> 5 [] bp = 130 -> 6
    [] bp = 140 -> 7 [] bp = 150 -> 8 [] bp = 170 -> 9 [] OTHER -> 10]

(* What follows the expressions in K ends the loop of exp_bp over row m.   *)
Refuses(K, m) ==
  \A i \in Place : \A e \in Trees : <<e, i>> \in K =>
    /\ input[i] # "Lbracket" /\ input[i] # "Lparen"
    /\ \A k \in m .. 9 : input[i] \notin Row[k]

(* What the calls made by a call of exp_bp that is accepted with K are     *)
(* accepted with: the right side of an operator, the operand of a prefix   *)
(* one, what is between parentheses.                                       *)
AfterInfix(m, K, k, op, l) ==
  {x \in Trees \X Place : <<k, Binop(op, l, x[1]), x[2]>> \in Grown(m, K)}

AfterPrefix(m, K, op) == {x \in Trees \X Place : <<10, Unop(op, x[1]), x[2]>> \in Grown(m, K)}

AfterParen(m, K) ==
  {x \in Trees \X Place : input[x[2]] = "Rparen" /\ <<11, x[1], x[2] + 1>> \in Grown(m, K)}

(* The loop over arguments: Z has the lists of arguments and the places    *)
(* before which they end that are to be accepted.                          *)
ArgsAccepted(Z, args, i) ==
  \E j \in Place : \E c \in Exps[<<0, i, j>>] : <<args \o c.args, j>> \in Z

AfterArg(Z, args) ==
  {x \in Trees \X Place :
     \/ <<Append(args, x[1]), x[2]>> \in Z
     \/ input[x[2]] = "Comma" /\ ArgsAccepted(Z, Append(args, x[1]), x[2] + 1)}

(* The ends of the calls in expressions and of those that are statements.  *)
EndsCall(m, K) ==
  {x \in Seq(Trees) \X Place : input[x[2]] = "Rparen" /\ <<11, CallTree(x[1]), x[2] + 1>> \in Grown(m, K)}

EndsCallStmt(K) ==
  {x \in Seq(Trees) \X Place : /\ input[x[2]] = "Rparen" /\ input[x[2] + 1] = "Semicolon"
                               /\ <<Node("CallStmt", 0, x[1], <<>>), x[2] + 2>> \in K}

(* The frames of parse_stmts() and of the statement parsers; those that    *)
(* wait for an expression have nothing but the expressions before it, and  *)
(* those that are at a list or at parameters begin with empty lists.       *)
StmtFrames ==
  [at : {"list", "params", "exp"}, kind : DOMAIN ListCount, params : Nat, exps : Seq(Trees),
   in : 1 .. 2, lists : Seq(Seq(Trees))]

ListFrames == {f \in StmtFrames : f.in \in DOMAIN f.lists}
ExpFrame(kind, exps) == [Frame(kind, "exp") EXCEPT !.exps = exps]
NoLists(kind) == [n \in 1 .. ListCount[kind] |-> <<>>]

ListStart(kind, params, exps) ==
  [at |-> "list", kind |-> kind, params |-> params, exps |-> exps, in |-> 1, lists |-> NoLists(kind)]

ParamFrame(n) == [ListStart("FundecStmt", n, <<>>) EXCEPT !.at = "params"]

(* A statement, a list and an expression added to a frame.                 *)
Gains(f, s) == [f EXCEPT !.lists[f.in] = Append(@, s)]
WithList(f, l) == [f EXCEPT !.lists[f.in] = @ \o l]
GainsExp(f, e) == [f EXCEPT !.exps = Append(@, e)]

(* How a frame goes on where its list ends, and what may end it: the '}'   *)
(* of its statement, the keyword of its second list, Eof in the program.   *)
FundecEnd == <<"Rparen", "Lcurl">>
Between(keyword) == <<"Rcurl", keyword, "Lcurl">>
ListEnds(f, K, i) == input[i] = "Rcurl" /\ <<Stmt(f), i + 1>> \in K
OtherList(f) == [f EXCEPT !.in = 2]
OtherWord(kind) == IF kind = "IfStmt" THEN "KeywordElse" ELSE "KeywordOtherwise"

EndsSecond(f, K, i) ==
  \E j \in Place : \E l \in StmtLists[<<i, j>>] : ListEnds(WithList(f, l), K, j)

Closes(f, K, i) ==
  \/ f.kind = "Stmts" /\ i = Len(input) /\ <<f.lists[1], i>> \in K
  \/ f.kind # "Stmts" /\ ListEnds(f, K, i)
  \/ /\ f.kind \in {"IfStmt", "WhileStmt"} /\ f.in = 1
     /\ Stands(i, Between(OtherWord(f.kind))) /\ EndsSecond(OtherList(f), K, i + 3)

(* The loop over a list that began in f can go on from place i.            *)
ListAccepts(f, K, i) ==
  \E j \in Place : \E l \in StmtLists[<<i, j>>] : Closes(WithList(f, l), K, j)

(* What the calls made by a statement parser that is accepted with K are   *)
(* accepted with: a statement of its list, an expression before ';', the   *)
(* left side of an assignment, a condition before '{'.                     *)
AfterStmt(f, K) == {x \in Trees \X Place : ListAccepts(Gains(f, x[1]), K, x[2])}

AfterSimple(f, K) ==
  {x \in Trees \X Place : input[x[2]] = "Semicolon" /\ <<Stmt(GainsExp(f, x[1])), x[2] + 1>> \in K}

AfterLhs(f, K) ==
  {x \in Trees \X Place :
     input[x[2]] = "Assign" /\ Accepts(1, x[2] + 1, AfterSimple(GainsExp(f, x[1]), K))}

AfterCond(f, K) ==
  {x \in Trees \X Place :
     input[x[2]] = "Lcurl" /\ ListAccepts([GainsExp(f, x[1]) EXCEPT !.at = "list"], K, x[2] + 1)}

AfterExp(f, K) ==
  IF f.kind = "AssignStmt" /\ f.exps = <<>> THEN AfterLhs(f, K)
  ELSE IF f.kind \in {"VardeclStmt", "RetStmt", "AssignStmt"} THEN AfterSimple(f, K)
  ELSE IF f.kind = "CallStmt" THEN AfterArg(EndsCallStmt(K), f.exps)
  ELSE AfterCond(f, K)

(* After n parameters: those from place i on, and the body.                *)
Body(n, K, i) == ListAccepts(ListStart("FundecStmt", n, <<>>), K, i)

ParamsAccept(n, K, i) ==
  \E b \in Place : /\ i <= b /\ IsParams(i, b) /\ Stands(b, FundecEnd)
                   /\ Body(n + ParamCount(i, b), K, b + 2)

(* No statement is followed by the keyword of a second list, so that one   *)
(* that stands there belongs to the statement that ends.                   *)
NoOther(K) == \A s, j : <<s, j>> \in K => j \in Place /\ input[j] \notin {"KeywordElse", "KeywordOtherwise"}

(* The frames of calls.                                                    *)
ExpFrames ==
  {f \in [at : {"operand", "loop", "paren", "prefix", "infix", "call"}, min_bp : Bps,
          lhs : Trees \union {None}, op : TokenType \union {"none"}, args : Seq(Trees)] :
     /\ f.at = "operand" => f.args = <<>>
     /\ f.at \in {"loop", "infix"} => f.lhs \in Trees
     /\ f.at = "prefix" => f.op \in PrefixOps
     /\ f.at = "infix" => \E k \in MinRow[f.min_bp] .. 9 : f.op \in Row[k]}

ExpKinds == {"VardeclStmt", "RetStmt", "AssignStmt", "CallStmt", "IfStmt", "WhileStmt", "RepeatStmt"}

WholeFrames ==
  {f \in StmtFrames :
     /\ Len(f.lists) = ListCount[f.kind]
     /\ f.at = "list" => f \in ListFrames
     /\ f.at = "exp" => /\ f.kind \in ExpKinds /\ f = ExpFrame(f.kind, f.exps)
                        /\ f.kind \notin {"AssignStmt", "CallStmt"} => f.exps = <<>>
     /\ f.at = "params" => f = ParamFrame(f.params)}

Frames == ExpFrames \union WholeFrames

(* What a call made by f is accepted with if f is accepted with K.         *)
Cont(f, K) ==
  IF f.at = "paren" THEN AfterParen(MinRow[f.min_bp], K)
  ELSE IF f.at = "prefix" THEN AfterPrefix(MinRow[f.min_bp], K, f.op)
  ELSE IF f.at = "infix"
  THEN AfterInfix(MinRow[f.min_bp], K, MinRow[RightBp(f.op)] - 1, f.op, f.lhs)
  ELSE IF f.at = "call" THEN AfterArg(EndsCall(MinRow[f.min_bp], K), f.args)
  ELSE IF f.at = "list" THEN AfterStmt(f, K)
  ELSE AfterExp(f, K)

(* A call that stands at place i can go on to what is in K.                *)
Accepting(f, K, i) ==
  IF f.at = "operand" THEN Accepts(MinRow[f.min_bp], i, K)
  ELSE IF f.at = "loop" THEN <<11, f.lhs, i>> \in Grown(MinRow[f.min_bp], K)
  ELSE IF f.at = "list" THEN ListAccepts(f, K, i)
  ELSE ParamsAccept(f.params, K, i)

(* What K says of the token that follows.                                  *)
Fits(f, K) ==
  IF f \in ExpFrames THEN Refuses(K, MinRow[f.min_bp]) ELSE f.kind # "Stmts" => NoOther(K)

(* A statement parser is called by the loop over a list, and the right     *)
(* side of an operator is parsed with its binding power.                   *)
Stacked(a, b) ==
  /\ b \notin ExpFrames => b.kind # "Stmts" /\ a.at = "list"
  /\ b \in ExpFrames /\ a.at = "infix" => b.min_bp = RightBp(a.op)

Stacks ==
  {s \in Seq(ExpFrames \union WholeFrames) :
     /\ s # <<>> /\ s[1] \in WholeFrames /\ s[1].at = "list" /\ s[1].kind = "Stmts"
     /\ \A d \in 1 .. Len(s) - 1 : Stacked(s[d], s[d + 1])}

(* c is what each call of s may be accepted with if the tree of the        *)
(* program is p.                                                           *)
Conts(s, p, c) ==
  /\ DOMAIN c = 1 .. Len(s) /\ c[1] = {<<p, Len(input)>>}
  /\ \A d \in 1 .. Len(s) - 1 : c[d + 1] = Cont(s[d], c[d])
  /\ \A d \in 1 .. Len(s) : Fits(s[d], c[d])

(* The trees of the program are those that the calls can come to.          *)
Means(s, i) ==
  \A p \in Seq(Trees) :
    \E c : Conts(s, p, c) /\ (p \in Program <=> Accepting(s[Len(s)], c[Len(s)], i))

(* The place in the input that the parser is at, if its deque has the      *)
(* tokens of the input from there on.                                      *)
Pos == Len(input) - Len(tokens) + 1

Aligned ==
  /\ tokens \in Seq(TokenType) /\ Pos \in Place
  /\ \A m \in DOMAIN tokens : tokens[m] = input[(Pos + m) - 1]

(* The inductive invariant: the calls can come to the trees of the         *)
(* program and to no others, and what was returned is its only one.        *)
TInv ==
  /\ EndsInEof /\ Aligned
  /\ status = "parsing" => stack \in Stacks /\ Means(stack, Pos)
  /\ ParsesTree /\ RefusesOnlyBad

(* A step cuts the calls at k and goes on with f there, and perhaps with   *)
(* calls above it.  What is Known of the sets of those cut goes with them. *)
Cut(s, k, f) == Append(SubSeq(s, 1, k - 1), f)

Through(s, k, K) ==
  IF k = Len(s) THEN K
  ELSE IF k = Len(s) - 1 THEN Cont(s[k], K)
  ELSE Cont(s[k + 1], Cont(s[k], K))

Known(s, k, K) ==
  /\ Fits(s[k], K)
  /\ k < Len(s) => Fits(s[k + 1], Cont(s[k], K))
  /\ k < Len(s) - 1 => Fits(s[k + 2], Cont(s[k + 1], Cont(s[k], K)))
-----------------------------------------------------------------------------
LEMMA TowersExist == \A n \in Nat : \E h : IsTower(h, n)
<1> DEFINE A == {n \in Nat : \E h : IsTower(h, n)}
<1>1. 0 \in A
  <2>1. IsTower([i \in 0 .. 0 |-> {}], 0)
    BY DEF IsTower
  <2>2. QED
    BY <2>1
<1>2. ASSUME NEW n \in Nat, n \in A PROVE n + 1 \in A
  <2>1. PICK h : IsTower(h, n)
    BY <1>2
  <2> DEFINE g == [i \in 0 .. n + 1 |-> IF i = n + 1 THEN Nodes(h[n]) ELSE h[i]]
  <2>2. DOMAIN g = 0 .. n + 1 /\ g[0] = {}
    BY <2>1 DEF IsTower
  <2>3. ASSUME NEW i \in 0 .. n + 1, i < n + 1 PROVE g[i + 1] = Nodes(g[i])
    <3>1. CASE i = n
      BY <2>3, <3>1
    <3>2. CASE i < n
      <4>1. g[i + 1] = h[i + 1] /\ g[i] = h[i]
        BY <2>3, <3>2
      <4>2. h[i + 1] = Nodes(h[i])
        BY <2>1, <2>3, <3>2 DEF IsTower
      <4>3. QED
        BY <4>1, <4>2
    <3>3. QED
      BY <2>3, <3>1, <3>2
  <2> HIDE DEF g
  <2>4. IsTower(g, n + 1)
    BY <2>2, <2>3 DEF IsTower
  <2>5. QED
    BY <2>4
<1> HIDE DEF A
<1>3. \A n \in Nat : n \in A
  BY <1>1, <1>2, NaturalInduction
<1>4. QED
  BY <1>3 DEF A

LEMMA TowersAgree ==
  ASSUME NEW n \in Nat, NEW g, IsTower(g, n), NEW m \in Nat, NEW h, IsTower(h, m)
  PROVE  \A i \in Nat : i <= n /\ i <= m => g[i] = h[i]
<1> DEFINE A == {i \in Nat : i <= n /\ i <= m => g[i] = h[i]}
<1>1. 0 \in A
  BY DEF IsTower
<1>2. ASSUME NEW i \in Nat, i \in A PROVE i + 1 \in A
  <2> SUFFICES ASSUME i + 1 <= n, i + 1 <= m PROVE g[i + 1] = h[i + 1]
    OBVIOUS
  <2>1. g[i] = h[i]
    BY <1>2
  <2>2. g[i + 1] = Nodes(g[i]) /\ h[i + 1] = Nodes(h[i])
    BY DEF IsTower
  <2>3. QED
    BY <2>1, <2>2
<1> HIDE DEF A
<1>3. \A i \in Nat : i \in A
  BY <1>1, <1>2, NaturalInduction
<1>4. QED
  BY <1>3 DEF A

LEMMA Heights ==
  Height(0) = {} /\ \A n \in Nat : Height(n + 1) = Nodes(Height(n))
<1> DEFINE tower(n) == CHOOSE h : IsTower(h, n)
<1>1. ASSUME NEW n \in Nat PROVE IsTower(tower(n), n)
  BY TowersExist
<1>2. \A n : Height(n) = tower(n)[n]
  BY DEF Height
<1> HIDE DEF tower
<1>3. Height(0) = {}
  BY <1>1, <1>2 DEF IsTower
<1>4. ASSUME NEW n \in Nat PROVE Height(n + 1) = Nodes(Height(n))
  <2>1. PICK m \in Nat : m = n + 1
    OBVIOUS
  <2>2. IsTower(tower(m), m) /\ IsTower(tower(n), n)
    BY <1>1
  <2>3. tower(m)[n] = tower(n)[n]
    BY <2>1, <2>2, TowersAgree
  <2>4. tower(m)[n + 1] = Nodes(tower(m)[n])
    BY <2>1, <2>2 DEF IsTower
  <2>5. QED
    BY <1>2, <2>1, <2>3, <2>4
<1>5. QED
  BY <1>3, <1>4

LEMMA NodesGrow ==
  ASSUME NEW X, NEW Y, X \subseteq Y
  PROVE  Nodes(X) \subseteq Nodes(Y)
<1>1. \A s \in Seq(X) : s \in Seq(Y)
  OBVIOUS
<1>2. \A s \in Seq(Seq(X)) : s \in Seq(Seq(Y))
  <2>1. Seq(X) \subseteq Seq(Y)
    BY <1>1
  <2>2. QED
    BY <2>1
<1>3. QED
  BY <1>1, <1>2 DEF Nodes

LEMMA HeightsGrow ==
  ASSUME NEW n \in Nat, NEW m \in Nat, n <= m
  PROVE  Height(n) \subseteq Height(m)
<1> DEFINE A == {i \in Nat : Height(i) \subseteq Height(i + 1)}
<1>1. 0 \in A
  BY Heights
<1>2. ASSUME NEW i \in Nat, i \in A PROVE i + 1 \in A
  <2>1. Height(i) \subseteq Height(i + 1)
    BY <1>2
  <2>2. Nodes(Height(i)) \subseteq Nodes(Height(i + 1))
    BY <2>1, NodesGrow
  <2>3. Height(i + 1) = Nodes(Height(i)) /\ Height((i + 1) + 1) = Nodes(Height(i + 1))
    BY Heights
  <2>4. QED
    BY <2>2, <2>3
<1>3. \A i \in Nat : i \in A
  <2> HIDE DEF A
  <2> QED BY <1>1, <1>2, NaturalInduction
<1> DEFINE B == {k \in Nat : Height(n) \subseteq Height(n + k)}
<1>4. 0 \in B
  OBVIOUS
<1>5. ASSUME NEW k \in Nat, k \in B PROVE k + 1 \in B
  <2>1. Height(n + k) \subseteq Height((n + k) + 1)
    BY <1>3
  <2>2. (n + k) + 1 = n + (k + 1)
    OBVIOUS
  <2>3. QED
    BY <1>5, <2>1, <2>2
<1>6. \A k \in Nat : k \in B
  <2> HIDE DEF B
  <2> QED BY <1>4, <1>5, NaturalInduction
<1>7. m - n \in Nat /\ n + (m - n) = m
  OBVIOUS
<1>8. QED
  BY <1>6, <1>7

(* A sequence over the union of an increasing family is over one member.   *)
LEMMA SeqInOne ==
  ASSUME NEW C, \A n \in Nat, m \in Nat : n <= m => C[n] \subseteq C[m],
         NEW s, NEW S, s \in Seq(S), \A i \in 1 .. Len(s) : \E n \in Nat : s[i] \in C[n]
  PROVE  \E n \in Nat : s \in Seq(C[n])
<1> DEFINE A == {k \in Nat : k <= Len(s) => \E n \in Nat : \A i \in 1 .. k : s[i] \in C[n]}
<1>1. 0 \in A
  OBVIOUS
<1>2. ASSUME NEW k \in Nat, k \in A PROVE k + 1 \in A
  <2> SUFFICES ASSUME k + 1 <= Len(s)
               PROVE  \E n \in Nat : \A i \in 1 .. k + 1 : s[i] \in C[n]
    OBVIOUS
  <2>1. PICK n \in Nat : \A i \in 1 .. k : s[i] \in C[n]
    BY <1>2
  <2>2. PICK m \in Nat : s[k + 1] \in C[m]
    OBVIOUS
  <2>3. PICK top \in Nat : n <= top /\ m <= top
    <3>1. \A a, b \in Nat : \E c \in Nat : a <= c /\ b <= c
      <4>1. \A a, b \in Nat : a <= b \/ b <= a
        OBVIOUS
      <4>2. \A a \in Nat : a <= a
        OBVIOUS
      <4>3. QED
        BY <4>1, <4>2
    <3>2. QED
      BY <3>1
  <2>4. C[n] \subseteq C[top] /\ C[m] \subseteq C[top]
    BY <2>3
  <2>5. \A i \in 1 .. k + 1 : s[i] \in C[top]
    BY <2>1, <2>2, <2>4
  <2>6. QED
    BY <2>5
<1>3. \A k \in Nat : k \in A
  <2> HIDE DEF A
  <2> QED BY <1>1, <1>2, NaturalInduction
<1>4. PICK n \in Nat : \A i \in 1 .. Len(s) : s[i] \in C[n]
  <2>1. Len(s) \in Nat
    OBVIOUS
  <2>2. Len(s) \in A
    <3> HIDE DEF A
    <3> QED BY <1>3, <2>1
  <2>3. QED
    BY <2>1, <2>2
<1>5. PICK Y : Y = C[n]
  OBVIOUS
<1>6. \A i \in 1 .. Len(s) : s[i] \in Y
  BY <1>4, <1>5
<1>7. s \in Seq(Y)
  BY <1>6
<1>8. QED
  BY <1>5, <1>7

LEMMA TreesHaveHeights ==
  ASSUME NEW args \in Seq(Trees)
  PROVE  \E n \in Nat : args \in Seq(Height(n))
<1> DEFINE C == [n \in Nat |-> Height(n)]
<1>1. \A n \in Nat, m \in Nat : n <= m => C[n] \subseteq C[m]
  BY HeightsGrow
<1>2. \A i \in 1 .. Len(args) : \E n \in Nat : args[i] \in C[n]
  BY DEF Trees
<1>3. \A n \in Nat : C[n] = Height(n)
  OBVIOUS
<1> HIDE DEF C
<1>4. \E n \in Nat : args \in Seq(C[n])
  BY <1>1, <1>2, SeqInOne
<1>5. QED
  BY <1>3, <1>4

LEMMA ListsHaveHeights ==
  ASSUME NEW lists \in Seq(Seq(Trees))
  PROVE  \E n \in Nat : lists \in Seq(Seq(Height(n)))
<1> DEFINE C == [n \in Nat |-> Seq(Height(n))]
<1>1. ASSUME NEW n \in Nat, NEW m \in Nat, n <= m PROVE C[n] \subseteq C[m]
  <2>1. Height(n) \subseteq Height(m)
    BY <1>1, HeightsGrow
  <2>2. Seq(Height(n)) \subseteq Seq(Height(m))
    BY <2>1
  <2>3. QED
    BY <2>2
<1>2. ASSUME NEW i \in 1 .. Len(lists) PROVE \E n \in Nat : lists[i] \in C[n]
  <2>1. lists[i] \in Seq(Trees)
    OBVIOUS
  <2>2. QED
    BY <2>1, TreesHaveHeights
<1>3. \A n \in Nat : C[n] = Seq(Height(n))
  OBVIOUS
<1> HIDE DEF C
<1>4. \E n \in Nat : lists \in Seq(C[n])
  BY <1>1, <1>2, SeqInOne
<1>5. QED
  BY <1>3, <1>4

LEMMA TreesClosed == Nodes(Trees) \subseteq Trees
<1>1. ASSUME NEW n \in Nat PROVE Nodes(Height(n)) \subseteq Trees
  <2>1. Nodes(Height(n)) = Height(n + 1) /\ n + 1 \in Nat
    BY Heights
  <2>2. QED
    BY <2>1 DEF Trees
<1>2. ASSUME NEW e \in Nodes(Trees) PROVE \E n \in Nat : e \in Nodes(Height(n))
  <2>1. CASE e \in [kind : {"IntExp", "StringExp", "VarExp"}]
    BY <2>1 DEF Nodes
  <2>2. CASE e \in [kind : {"CallExp"}, args : Seq(Trees)]
    <3>1. PICK n \in Nat : e.args \in Seq(Height(n))
      BY <2>2, TreesHaveHeights
    <3>2. QED
      BY <2>2, <3>1 DEF Nodes
  <2>3. CASE e \in [kind : {"UnopExp"}, op : OpName, e : Trees]
    <3>1. PICK n \in Nat : e.e \in Height(n)
      BY <2>3 DEF Trees
    <3>2. QED
      BY <2>3, <3>1 DEF Nodes
  <2>4. CASE e \in [kind : {"BinopExp"}, op : OpName, lhs : Trees, rhs : Trees]
    <3>1. PICK n \in Nat : e.lhs \in Height(n)
      BY <2>4 DEF Trees
    <3>2. PICK m \in Nat : e.rhs \in Height(m)
      BY <2>4 DEF Trees
    <3>3. PICK top \in Nat : n <= top /\ m <= top
      <4>1. n <= m \/ m <= n
        OBVIOUS
      <4>2. QED
        BY <4>1
    <3>4. e.lhs \in Height(top) /\ e.rhs \in Height(top)
      BY <3>1, <3>2, <3>3, HeightsGrow
    <3>5. QED
      BY <2>4, <3>4 DEF Nodes
  <2>5. CASE e \in [kind : DOMAIN ListCount, params : Nat, exps : Seq(Trees), lists : Seq(Seq(Trees))]
    <3>1. PICK n \in Nat : e.exps \in Seq(Height(n))
      BY <2>5, TreesHaveHeights
    <3>2. PICK m \in Nat : e.lists \in Seq(Seq(Height(m)))
      BY <2>5, ListsHaveHeights
    <3>3. PICK top \in Nat : n <= top /\ m <= top
      <4>1. n <= m \/ m <= n
        OBVIOUS
      <4>2. QED
        BY <4>1
    <3>4. Height(n) \subseteq Height(top) /\ Height(m) \subseteq Height(top)
      BY <3>3, HeightsGrow
    <3>5. Seq(Height(n)) \subseteq Seq(Height(top)) /\ Seq(Height(m)) \subseteq Seq(Height(top))
      BY <3>4
    <3>6. e.exps \in Seq(Height(top)) /\ e.lists \in Seq(Seq(Height(top)))
      BY <3>1, <3>2, <3>5
    <3>7. QED
      BY <2>5, <3>6 DEF Nodes
  <2>6. QED
    BY <2>1, <2>2, <2>3, <2>4, <2>5 DEF Nodes
<1>3. QED
  BY <1>1, <1>2

LEMMA TreesAre ==
  /\ \A t \in DOMAIN LeafKind : Leaf(LeafKind[t]) \in Trees
  /\ \A t \in TokenType, e \in Trees : Unop(t, e) \in Trees
  /\ \A t \in TokenType, l \in Trees, r \in Trees : Binop(t, l, r) \in Trees
  /\ \A args \in Seq(Trees) : CallTree(args) \in Trees /\ CallTree(args).args = args
  /\ \A kind \in DOMAIN ListCount, n \in Nat, exps \in Seq(Trees), lists \in Seq(Seq(Trees)) :
       Node(kind, n, exps, lists) \in Trees
<1>1. \A t \in TokenType : Operator(t) \in OpName
  BY DEF Operator, OpName
<1>2. \A t \in DOMAIN LeafKind : Leaf(LeafKind[t]) \in Nodes(Trees)
  BY DEF LeafKind, Leaf, Nodes
<1>3. \A t \in TokenType, e \in Trees : Unop(t, e) \in Nodes(Trees)
  BY <1>1 DEF Unop, Nodes
<1>4. \A t \in TokenType, l \in Trees, r \in Trees : Binop(t, l, r) \in Nodes(Trees)
  BY <1>1 DEF Binop, Nodes
<1>5. \A args \in Seq(Trees) : CallTree(args) \in Nodes(Trees) /\ CallTree(args).args = args
  BY DEF CallTree, Nodes
<1>6. \A kind \in DOMAIN ListCount, n \in Nat, exps \in Seq(Trees), lists \in Seq(Seq(Trees)) :
        Node(kind, n, exps, lists) \in Nodes(Trees)
  BY DEF Node, Nodes
<1>7. QED
  BY <1>2, <1>3, <1>4, <1>5, <1>6, TreesClosed
-----------------------------------------------------------------------------
(* What the productions of the expressions say, one tree at a time.        *)
BinaryIn(f, k, i, j, e) ==
    \/ e \in f[<<k + 1, i, j>>]
    \/ \E m \in i .. j - 1 : \E l \in f[<<k, i, m>>], r \in f[<<k + 1, m + 1, j>>] :
         input[m] \in Row[k] /\ e = Binop(input[m], l, r)

LEMMA BinaryIs ==
  ASSUME NEW f, NEW k, NEW i, NEW j, NEW e
  PROVE  e \in BinaryExps(f, k, i, j) <=> BinaryIn(f, k, i, j, e)
<1> DEFINE at(m) == {Binop(input[m], l, r) : l \in f[<<k, i, m>>], r \in f[<<k + 1, m + 1, j>>]}
<1>1. BinaryExps(f, k, i, j) =
        f[<<k + 1, i, j>>] \union UNION {at(m) : m \in {m \in i .. j - 1 : input[m] \in Row[k]}}
  BY DEF BinaryExps, Among
<1>2. \A m : e \in at(m) <=> \E l \in f[<<k, i, m>>], r \in f[<<k + 1, m + 1, j>>] :
                               e = Binop(input[m], l, r)
  OBVIOUS
<1> HIDE DEF at
<1>3. e \in BinaryExps(f, k, i, j) <=>
        \/ e \in f[<<k + 1, i, j>>]
        \/ \E m \in i .. j - 1 : input[m] \in Row[k] /\ e \in at(m)
  BY <1>1
<1>4. QED
  BY <1>2, <1>3 DEF BinaryIn

PrefixIn(f, i, j, e) ==
    \/ e \in f[<<PrimaryRow, i, j>>]
    \/ /\ input[i] \in PrefixOps
       /\ \E x \in f[<<PrefixRow, i + 1, j>>] : e = Unop(input[i], x)

LEMMA PrefixIs ==
  ASSUME NEW f, NEW i, NEW j, NEW e
  PROVE  e \in PrefixExps(f, i, j) <=> PrefixIn(f, i, j, e)
  BY DEF PrefixExps, PrefixIn

PrimaryIn(f, i, j, e) ==
    \/ j = i + 1 /\ input[i] \in DOMAIN LeafKind /\ e = Leaf(LeafKind[input[i]])
    \/ /\ input[j - 1] = "Lbracket"
       /\ \E x \in f[<<PrimaryRow, i, j - 1>>] : e = Unop("Lbracket", x)
    \/ /\ input[i] = "Lparen" /\ input[j - 1] = "Rparen"
       /\ e \in f[<<1, i + 1, j - 1>>]
    \/ /\ input[i] = "Identifier" /\ input[i + 1] = "Lparen" /\ input[j - 1] = "Rparen"
       /\ IF j = i + 3 THEN e = CallTree(<<>>) ELSE e \in f[<<ArgRow, i + 2, j - 1>>]

LEMMA PrimaryIs ==
  ASSUME NEW f, NEW i, NEW j, NEW e
  PROVE  e \in PrimaryExps(f, i, j) <=> PrimaryIn(f, i, j, e)
<1> DEFINE a == IF j = i + 1 /\ input[i] \in DOMAIN LeafKind THEN {Leaf(LeafKind[input[i]])} ELSE {}
           b == IF input[j - 1] = "Lbracket"
                THEN {Unop("Lbracket", x) : x \in f[<<PrimaryRow, i, j - 1>>]} ELSE {}
           c == IF input[i] = "Lparen" /\ input[j - 1] = "Rparen" THEN f[<<1, i + 1, j - 1>>] ELSE {}
           d == IF input[i] = "Identifier" /\ input[i + 1] = "Lparen" /\ input[j - 1] = "Rparen"
                THEN IF j = i + 3 THEN {CallTree(<<>>)} ELSE f[<<ArgRow, i + 2, j - 1>>]
                ELSE {}
<1>1. PrimaryExps(f, i, j) = UNION {a, b, c, d}
  BY DEF PrimaryExps
<1>2. e \in a <=> j = i + 1 /\ input[i] \in DOMAIN LeafKind /\ e = Leaf(LeafKind[input[i]])
  OBVIOUS
<1>3. e \in b <=> /\ input[j - 1] = "Lbracket"
                  /\ \E x \in f[<<PrimaryRow, i, j - 1>>] : e = Unop("Lbracket", x)
  OBVIOUS
<1>4. e \in c <=> input[i] = "Lparen" /\ input[j - 1] = "Rparen" /\ e \in f[<<1, i + 1, j - 1>>]
  OBVIOUS
<1>5. e \in d <=> /\ input[i] = "Identifier" /\ input[i + 1] = "Lparen" /\ input[j - 1] = "Rparen"
                  /\ IF j = i + 3 THEN e = CallTree(<<>>) ELSE e \in f[<<ArgRow, i + 2, j - 1>>]
  OBVIOUS
<1> HIDE DEF a, b, c, d
<1>6. e \in PrimaryExps(f, i, j) <=> e \in a \/ e \in b \/ e \in c \/ e \in d
  BY <1>1
<1>7. QED
  BY <1>2, <1>3, <1>4, <1>5, <1>6 DEF PrimaryIn

ArgIn(f, i, j, e) ==
    \/ \E x \in f[<<1, i, j>>] : e = CallTree(<<x>>)
    \/ \E m \in i .. j - 1 : \E x \in f[<<1, i, m>>], rest \in f[<<ArgRow, m + 1, j>>] :
         input[m] = "Comma" /\ e = CallTree(<<x>> \o rest.args)

LEMMA ArgIs ==
  ASSUME NEW f, NEW i, NEW j, NEW e
  PROVE  e \in ArgExps(f, i, j) <=> ArgIn(f, i, j, e)
<1> DEFINE at(m) == {CallTree(<<x>> \o rest.args) :
                       x \in f[<<1, i, m>>], rest \in f[<<ArgRow, m + 1, j>>]}
           one == {CallTree(<<x>>) : x \in f[<<1, i, j>>]}
<1>1. ArgExps(f, i, j) = one \union UNION {at(m) : m \in {m \in i .. j - 1 : input[m] \in {"Comma"}}}
  BY DEF ArgExps, Among
<1>2. \A m : e \in at(m) <=> \E x \in f[<<1, i, m>>], rest \in f[<<ArgRow, m + 1, j>>] :
                               e = CallTree(<<x>> \o rest.args)
  OBVIOUS
<1>3. e \in one <=> \E x \in f[<<1, i, j>>] : e = CallTree(<<x>>)
  OBVIOUS
<1> HIDE DEF at, one
<1>4. e \in ArgExps(f, i, j) <=>
        e \in one \/ \E m \in i .. j - 1 : input[m] = "Comma" /\ e \in at(m)
  BY <1>1
<1>5. QED
  BY <1>2, <1>3, <1>4 DEF ArgIn

-----------------------------------------------------------------------------
(* Exps is the solution of its equation, and what it gives are trees.      *)
CallTrees == {CallTree(args) : args \in Seq(Trees)}
Typed(k) == IF k = ArgRow THEN CallTrees ELSE Trees

(* What the trees of row k from i to j are made of.                        *)
Lower(q, a, b, k, i, j) == b - a < j - i \/ (b - a = j - i /\ q > k)

LEMMA CallSpan ==
  ASSUME EndsInEof, NEW i \in Place, NEW j \in Place, i < j, input[j - 1] = "Rparen"
  PROVE  /\ i + 1 \in Place /\ j - 1 \in Place
         /\ input[i] = "Identifier" /\ input[i + 1] = "Lparen" => i + 2 \in Place
<1>1. PICK n \in Nat : n = Len(input)
  BY DEF EndsInEof
<1>2. i \in 1 .. n /\ j \in 1 .. n /\ Place = 1 .. n
  BY <1>1 DEF Place
<1>3. input[i] = "Identifier" /\ input[i + 1] = "Lparen" => j - 1 # i /\ j - 1 # i + 1
  OBVIOUS
<1>4. QED
  BY <1>2, <1>3

LEMMA ExpsTyped ==
  ASSUME EndsInEof, NEW f, NEW k \in 0 .. 11, NEW i \in Place, NEW j \in Place, i < j,
         \A q \in 0 .. 11 : \A a, b \in Place :
           Lower(q, a, b, k, i, j) => f[<<q, a, b>>] \subseteq Typed(q)
  PROVE  ExpsBy(f, k, i, j) \subseteq Typed(k)
<1>1. PICK n \in Nat : n = Len(input) /\ Place = 1 .. n
  BY DEF EndsInEof, Place
<1>2. \A m \in Place : input[m] \in TokenType
  BY DEF EndsInEof, Place
<1>3. \A m \in i .. j - 1 : m \in Place /\ m + 1 \in Place
  BY <1>1
<1>4. CallTrees \subseteq Trees
  BY TreesAre DEF CallTrees
<1>5. CASE k = 0
  <2> SUFFICES ASSUME NEW e \in ArgExps(f, i, j) PROVE e \in CallTrees
    BY <1>5 DEF ExpsBy, ArgRow, Typed
  <2>1. ASSUME NEW x \in f[<<1, i, j>>], e = CallTree(<<x>>) PROVE e \in CallTrees
    <3>1. Lower(1, i, j, k, i, j)
      BY <1>1, <1>5 DEF Lower
    <3>2. x \in Trees
      BY <2>1, <3>1 DEF Typed, ArgRow
    <3>3. <<x>> \in Seq(Trees)
      BY <3>2
    <3>4. QED
      BY <2>1, <3>3 DEF CallTrees
  <2>2. ASSUME NEW m \in i .. j - 1, NEW x \in f[<<1, i, m>>], NEW rest \in f[<<ArgRow, m + 1, j>>],
               e = CallTree(<<x>> \o rest.args)
        PROVE  e \in CallTrees
    <3>1. Lower(1, i, m, k, i, j) /\ Lower(0, m + 1, j, k, i, j)
      BY <1>1 DEF Lower
    <3>2. x \in Trees /\ rest \in CallTrees
      BY <1>3, <2>2, <3>1 DEF Typed, ArgRow
    <3>3. rest.args \in Seq(Trees)
      BY <3>2, TreesAre DEF CallTrees
    <3>4. <<x>> \o rest.args \in Seq(Trees)
      BY <3>2, <3>3
    <3>5. QED
      BY <2>2, <3>4 DEF CallTrees
  <2>3. ArgIn(f, i, j, e)
    BY ArgIs
  <2>4. QED
    BY <2>1, <2>2, <2>3 DEF ArgIn
<1>6. CASE k \in 1 .. 9
  <2> SUFFICES ASSUME NEW e \in BinaryExps(f, k, i, j) PROVE e \in Trees
    BY <1>6 DEF ExpsBy, ArgRow, PrimaryRow, PrefixRow, Typed
  <2>1. Lower(k + 1, i, j, k, i, j) /\ k + 1 \in 0 .. 11 /\ k + 1 # 0 /\ k # 0
    BY <1>1, <1>6 DEF Lower
  <2>2. CASE e \in f[<<k + 1, i, j>>]
    BY <2>1, <2>2 DEF Typed, ArgRow
  <2>3. ASSUME NEW m \in i .. j - 1, NEW l \in f[<<k, i, m>>], NEW r \in f[<<k + 1, m + 1, j>>],
               e = Binop(input[m], l, r)
        PROVE  e \in Trees
    <3>1. Lower(k, i, m, k, i, j) /\ Lower(k + 1, m + 1, j, k, i, j)
      BY <1>1 DEF Lower
    <3>2. l \in Trees /\ r \in Trees
      BY <1>3, <2>1, <2>3, <3>1 DEF Typed, ArgRow
    <3>3. QED
      BY <1>2, <1>3, <2>3, <3>2, TreesAre
  <2>4. BinaryIn(f, k, i, j, e)
    BY BinaryIs
  <2>5. QED
    BY <2>2, <2>3, <2>4 DEF BinaryIn
<1>7. CASE k = 10
  <2> SUFFICES ASSUME NEW e \in PrefixExps(f, i, j) PROVE e \in Trees
    BY <1>7 DEF ExpsBy, ArgRow, PrimaryRow, PrefixRow, Typed
  <2>1. Lower(11, i, j, k, i, j)
    BY <1>1, <1>7 DEF Lower
  <2>2. CASE e \in f[<<PrimaryRow, i, j>>]
    BY <2>1, <2>2 DEF Typed, ArgRow, PrimaryRow
  <2>3. ASSUME NEW x \in f[<<PrefixRow, i + 1, j>>], e = Unop(input[i], x)
        PROVE  e \in Trees
    <3>1. Lower(10, i + 1, j, k, i, j) /\ i + 1 \in Place
      BY <1>1 DEF Lower
    <3>2. x \in Trees
      BY <2>3, <3>1 DEF Typed, ArgRow, PrefixRow
    <3>3. QED
      BY <1>2, <2>3, <3>2, TreesAre
  <2>4. PrefixIn(f, i, j, e)
    BY PrefixIs
  <2>5. QED
    BY <2>2, <2>3, <2>4 DEF PrefixIn
<1>8. CASE k = 11
  <2> SUFFICES ASSUME NEW e \in PrimaryExps(f, i, j) PROVE e \in Trees
    BY <1>8 DEF ExpsBy, ArgRow, PrimaryRow, PrefixRow, Typed
  <2>1. \A q \in 0 .. 11 : \A a, b \in Place : b - a < j - i => f[<<q, a, b>>] \subseteq Trees
    BY <1>4 DEF Lower, Typed
  <2>2. j - 1 \in Place /\ j - 1 - i < j - i
    BY <1>1
  <2>3. CASE input[i] \in DOMAIN LeafKind /\ e = Leaf(LeafKind[input[i]])
    BY <2>3, TreesAre
  <2>4. ASSUME NEW x \in f[<<PrimaryRow, i, j - 1>>], e = Unop("Lbracket", x) PROVE e \in Trees
    <3>1. x \in Trees
      BY <2>1, <2>2, <2>4 DEF PrimaryRow
    <3>2. "Lbracket" \in TokenType
      BY DEF TokenType
    <3>3. QED
      BY <2>4, <3>1, <3>2, TreesAre
  <2>5. CASE input[i] = "Lparen" /\ input[j - 1] = "Rparen" /\ e \in f[<<1, i + 1, j - 1>>]
    <3>1. i + 1 \in Place /\ j - 1 - (i + 1) < j - i
      BY <1>1
    <3>2. QED
      BY <2>1, <2>2, <2>5, <3>1
  <2>6. CASE e = CallTree(<<>>)
    <3>1. <<>> \in Seq(Trees)
      OBVIOUS
    <3>2. QED
      BY <2>6, <3>1, TreesAre
  <2>7. CASE /\ input[i] = "Identifier" /\ input[i + 1] = "Lparen" /\ input[j - 1] = "Rparen"
             /\ e \in f[<<ArgRow, i + 2, j - 1>>]
    <3>1. i + 2 \in Place
      BY <2>7, CallSpan
    <3>2. j - 1 - (i + 2) < j - i
      BY <1>1
    <3>3. QED
      BY <2>1, <2>2, <2>7, <3>1, <3>2 DEF ArgRow
  <2>8. PrimaryIn(f, i, j, e)
    BY PrimaryIs
  <2>9. QED
    BY <2>3, <2>4, <2>5, <2>6, <2>7, <2>8 DEF PrimaryIn
<1>9. QED
  BY <1>5, <1>6, <1>7, <1>8

LEMMA ExpsLocal ==
  ASSUME EndsInEof, NEW f, NEW g, NEW k \in 0 .. 11, NEW i \in Place, NEW j \in Place, i < j,
         \A q \in 0 .. 11 : \A a, b \in Place :
           Lower(q, a, b, k, i, j) => f[<<q, a, b>>] = g[<<q, a, b>>]
  PROVE  ExpsBy(f, k, i, j) = ExpsBy(g, k, i, j)
<1>1. PICK n \in Nat : n = Len(input) /\ Place = 1 .. n
  BY DEF EndsInEof, Place
<1>2. \A m \in i .. j - 1 : m \in Place /\ m + 1 \in Place
  BY <1>1
<1>3. CASE k = 0
  <2>1. f[<<1, i, j>>] = g[<<1, i, j>>]
    BY <1>1, <1>3 DEF Lower
  <2>2. ASSUME NEW m \in i .. j - 1
        PROVE  f[<<1, i, m>>] = g[<<1, i, m>>] /\ f[<<ArgRow, m + 1, j>>] = g[<<ArgRow, m + 1, j>>]
    <3>1. Lower(1, i, m, k, i, j) /\ Lower(0, m + 1, j, k, i, j)
      BY <1>1 DEF Lower
    <3>2. QED
      BY <1>2, <3>1 DEF ArgRow
  <2>3. ASSUME NEW e PROVE e \in ArgExps(f, i, j) <=> e \in ArgExps(g, i, j)
    <3>1. ArgIn(f, i, j, e) <=> ArgIn(g, i, j, e)
      <4> DEFINE made(h, m) == \E x \in h[<<1, i, m>>], rest \in h[<<ArgRow, m + 1, j>>] :
                                 input[m] = "Comma" /\ e = CallTree(<<x>> \o rest.args)
      <4>1. \A m \in i .. j - 1 : made(f, m) <=> made(g, m)
        BY <2>2
      <4>2. /\ ArgIn(f, i, j, e) <=> \/ \E x \in f[<<1, i, j>>] : e = CallTree(<<x>>)
                                     \/ \E m \in i .. j - 1 : made(f, m)
            /\ ArgIn(g, i, j, e) <=> \/ \E x \in g[<<1, i, j>>] : e = CallTree(<<x>>)
                                     \/ \E m \in i .. j - 1 : made(g, m)
        BY DEF ArgIn
      <4> HIDE DEF made
      <4>3. QED
        BY <2>1, <4>1, <4>2
    <3>2. QED
      BY <3>1, ArgIs
  <2>4. QED
    <3>1. ArgExps(f, i, j) = ArgExps(g, i, j)
      BY <2>3
    <3>2. QED
      BY <1>3, <3>1 DEF ExpsBy, ArgRow
<1>4. CASE k \in 1 .. 9
  <2>1. f[<<k + 1, i, j>>] = g[<<k + 1, i, j>>]
    BY <1>1, <1>4 DEF Lower
  <2>2. ASSUME NEW m \in i .. j - 1
        PROVE  f[<<k, i, m>>] = g[<<k, i, m>>] /\ f[<<k + 1, m + 1, j>>] = g[<<k + 1, m + 1, j>>]
    <3>1. Lower(k, i, m, k, i, j) /\ Lower(k + 1, m + 1, j, k, i, j) /\ k + 1 \in 0 .. 11
      BY <1>1, <1>4 DEF Lower
    <3>2. QED
      BY <1>2, <3>1
  <2>3. ASSUME NEW e PROVE e \in BinaryExps(f, k, i, j) <=> e \in BinaryExps(g, k, i, j)
    <3>1. BinaryIn(f, k, i, j, e) <=> BinaryIn(g, k, i, j, e)
      BY <2>1, <2>2 DEF BinaryIn
    <3>2. QED
      BY <3>1, BinaryIs
  <2>4. QED
    <3>1. BinaryExps(f, k, i, j) = BinaryExps(g, k, i, j)
      BY <2>3
    <3>2. QED
      BY <1>4, <3>1 DEF ExpsBy, ArgRow, PrimaryRow, PrefixRow
<1>5. CASE k = 10
  <2>1. f[<<PrimaryRow, i, j>>] = g[<<PrimaryRow, i, j>>]
    BY <1>1, <1>5 DEF Lower, PrimaryRow
  <2>2. f[<<PrefixRow, i + 1, j>>] = g[<<PrefixRow, i + 1, j>>]
    BY <1>1, <1>5 DEF Lower, PrefixRow
  <2>3. ASSUME NEW e PROVE e \in PrefixExps(f, i, j) <=> e \in PrefixExps(g, i, j)
    <3>1. PrefixIn(f, i, j, e) <=> PrefixIn(g, i, j, e)
      BY <2>1, <2>2 DEF PrefixIn
    <3>2. QED
      BY <3>1, PrefixIs
  <2>4. QED
    <3>1. PrefixExps(f, i, j) = PrefixExps(g, i, j)
      BY <2>3
    <3>2. QED
      BY <1>5, <3>1 DEF ExpsBy, ArgRow, PrimaryRow, PrefixRow
<1>6. CASE k = 11
  <2>1. /\ f[<<PrimaryRow, i, j - 1>>] = g[<<PrimaryRow, i, j - 1>>]
        /\ f[<<1, i + 1, j - 1>>] = g[<<1, i + 1, j - 1>>]
    BY <1>1 DEF Lower, PrimaryRow
  <2>2. input[i] = "Identifier" /\ input[i + 1] = "Lparen" /\ input[j - 1] = "Rparen"
        => f[<<ArgRow, i + 2, j - 1>>] = g[<<ArgRow, i + 2, j - 1>>]
    <3> SUFFICES ASSUME input[i] = "Identifier", input[i + 1] = "Lparen", input[j - 1] = "Rparen"
                 PROVE  f[<<0, i + 2, j - 1>>] = g[<<0, i + 2, j - 1>>]
      BY DEF ArgRow
    <3>1. i + 2 \in Place /\ j - 1 \in Place
      BY CallSpan
    <3>2. Lower(0, i + 2, j - 1, k, i, j)
      BY <1>1 DEF Lower
    <3>3. QED
      BY <3>1, <3>2
  <2>3. ASSUME NEW e PROVE e \in PrimaryExps(f, i, j) <=> e \in PrimaryExps(g, i, j)
    <3>1. PrimaryIn(f, i, j, e) <=> PrimaryIn(g, i, j, e)
      BY <2>1, <2>2 DEF PrimaryIn
    <3>2. QED
      BY <3>1, PrimaryIs
  <2>4. QED
    <3>1. PrimaryExps(f, i, j) = PrimaryExps(g, i, j)
      BY <2>3
    <3>2. QED
      BY <1>6, <3>1 DEF ExpsBy, ArgRow, PrimaryRow, PrefixRow
<1>7. QED
  BY <1>3, <1>4, <1>5, <1>6
LEMMA SpansAre ==
  /\ \A x \in ExpSpans : x[1] \in 0 .. 11 /\ x[2] \in Place /\ x[3] \in Place
                         /\ x = <<x[1], x[2], x[3]>>
  /\ \A k \in 0 .. 11, i \in Place, j \in Place : <<k, i, j>> \in ExpSpans
  BY DEF ExpSpans, ArgRow, PrimaryRow

SpanRank == [x \in ExpSpans |-> IF x[3] < x[2] THEN 0 ELSE (x[3] - x[2]) * 12 + 11 - x[1]]

LEMMA LowerRank ==
  ASSUME EndsInEof
  PROVE  /\ SpanRank \in [ExpSpans -> Nat]
         /\ \A x \in ExpSpans : \A q \in 0 .. 11, a \in Place, b \in Place :
              Lower(q, a, b, x[1], x[2], x[3]) /\ x[2] < x[3]
                => SpanRank[<<q, a, b>>] < SpanRank[x]
<1>1. PICK n \in Nat : n = Len(input) /\ Place = 1 .. n
  BY DEF EndsInEof, Place
<1>2. ASSUME NEW x \in ExpSpans
      PROVE  IF x[3] < x[2] THEN TRUE ELSE (x[3] - x[2]) * 12 + 11 - x[1] \in Nat
  BY <1>1, SpansAre
<1>3. ASSUME NEW x \in ExpSpans, NEW q \in 0 .. 11, NEW a \in Place, NEW b \in Place,
             Lower(q, a, b, x[1], x[2], x[3]), x[2] < x[3]
      PROVE  SpanRank[<<q, a, b>>] < SpanRank[x]
  <2>1. SpanRank[x] = (x[3] - x[2]) * 12 + 11 - x[1]
    BY <1>1, <1>3, SpansAre DEF SpanRank
  <2>2. <<q, a, b>> \in ExpSpans
    BY SpansAre
  <2>3. SpanRank[<<q, a, b>>] = IF b < a THEN 0 ELSE (b - a) * 12 + 11 - q
    BY <2>2 DEF SpanRank
  <2>4. x[1] \in 0 .. 11 /\ x[2] \in 1 .. n /\ x[3] \in 1 .. n /\ a \in 1 .. n /\ b \in 1 .. n
    BY <1>1, SpansAre
  <2>5. QED
    BY <1>3, <2>1, <2>3, <2>4 DEF Lower
<1>4. QED
  BY <1>2, <1>3 DEF SpanRank

LEMMA SolutionTyped ==
  ASSUME EndsInEof, NEW f,
         \A x \in ExpSpans : f[x] \subseteq ExpsBy(f, x[1], x[2], x[3])
  PROVE  \A x \in ExpSpans : f[x] \subseteq Typed(x[1])
<1> DEFINE A == {x \in ExpSpans : f[x] \subseteq Typed(x[1])}
<1>1. ASSUME NEW x \in ExpSpans, \A y \in ExpSpans : SpanRank[y] < SpanRank[x] => y \in A
      PROVE  x \in A
  <2>1. CASE x[2] >= x[3]
    BY <2>1 DEF ExpsBy
  <2>2. CASE x[2] < x[3]
    <3>1. ASSUME NEW q \in 0 .. 11, NEW a \in Place, NEW b \in Place,
                 Lower(q, a, b, x[1], x[2], x[3])
          PROVE  f[<<q, a, b>>] \subseteq Typed(q)
      <4>1. <<q, a, b>> \in A
        BY <1>1, <2>2, <3>1, SpansAre, LowerRank
      <4>2. QED
        BY <4>1
    <3>2. ExpsBy(f, x[1], x[2], x[3]) \subseteq Typed(x[1])
      BY <2>2, <3>1, ExpsTyped, SpansAre
    <3>3. QED
      BY <3>2
  <2>3. x[2] \in Int /\ x[3] \in Int
    BY SpansAre DEF EndsInEof, Place
  <2>4. QED
    BY <2>1, <2>2, <2>3
<1> HIDE DEF A
<1>2. ExpSpans \subseteq A
  BY <1>1, LowerRank, RankInduction
<1>3. QED
  BY <1>2 DEF A

LEMMA ExpsExist ==
  ASSUME EndsInEof
  PROVE  Exps = [x \in ExpSpans |-> ExpsBy(Exps, x[1], x[2], x[3])]
<1> DEFINE V == SUBSET Trees
           F == [ExpSpans -> V]
           step == [x \in ExpSpans |-> [f \in F |-> ExpsBy(f, x[1], x[2], x[3]) \intersect Trees]]
<1>1. \A x \in ExpSpans : \A f \in F : step[x][f] = ExpsBy(f, x[1], x[2], x[3]) \intersect Trees
  OBVIOUS
<1>2. step \in [ExpSpans -> [F -> V]]
  OBVIOUS
<1> HIDE DEF step
<1>3. ASSUME NEW x \in ExpSpans, NEW f \in F, NEW g \in F,
             \A y \in ExpSpans : SpanRank[y] < SpanRank[x] => f[y] = g[y]
      PROVE  step[x][f] = step[x][g]
  <2>1. CASE x[2] >= x[3]
    BY <1>1, <2>1 DEF ExpsBy
  <2>2. CASE x[2] < x[3]
    <3>1. \A q \in 0 .. 11 : \A a, b \in Place :
            Lower(q, a, b, x[1], x[2], x[3]) => f[<<q, a, b>>] = g[<<q, a, b>>]
      BY <1>3, <2>2, LowerRank, SpansAre
    <3>2. ExpsBy(f, x[1], x[2], x[3]) = ExpsBy(g, x[1], x[2], x[3])
      <4>1. x[1] \in 0 .. 11 /\ x[2] \in Place /\ x[3] \in Place
        BY SpansAre
      <4> HIDE DEF F
      <4>2. QED
        BY <2>2, <3>1, <4>1, ExpsLocal
    <3>3. QED
      BY <1>1, <3>2
  <2>3. x[2] \in Int /\ x[3] \in Int
    BY SpansAre DEF EndsInEof, Place
  <2>4. QED
    BY <2>1, <2>2, <2>3
<1>4. Looks(ExpSpans, SpanRank, V, step)
  BY <1>3 DEF Looks
<1>5. V # {}
  OBVIOUS
<1>6. SpanRank \in [ExpSpans -> Nat]
  BY LowerRank
<1>7. PICK h \in F : Defines(h, ExpSpans, step)
  <2> HIDE DEF V
  <2> QED BY <1>2, <1>4, <1>5, <1>6, RankRecursion
<1>8. \A x \in ExpSpans : h[x] = ExpsBy(h, x[1], x[2], x[3]) \intersect Trees
  BY <1>1, <1>7 DEF Defines
<1>9. ASSUME NEW x \in ExpSpans PROVE h[x] = ExpsBy(h, x[1], x[2], x[3])
  <2>1. \A y \in ExpSpans : h[y] \subseteq Typed(y[1])
    BY <1>8, SolutionTyped
  <2>2. ExpsBy(h, x[1], x[2], x[3]) \subseteq Trees
    <3>1. CASE x[2] >= x[3]
      BY <3>1 DEF ExpsBy
    <3>2. CASE x[2] < x[3]
      <4>1. \A q \in 0 .. 11 : \A a, b \in Place : h[<<q, a, b>>] \subseteq Typed(q)
        BY <2>1, SpansAre
      <4>2. ExpsBy(h, x[1], x[2], x[3]) \subseteq Typed(x[1])
        BY <3>2, <4>1, ExpsTyped, SpansAre
      <4>3. Typed(x[1]) \subseteq Trees
        BY TreesAre DEF Typed, CallTrees
      <4>4. QED
        BY <4>2, <4>3
    <3>3. x[2] \in Int /\ x[3] \in Int
      BY SpansAre DEF EndsInEof, Place
    <3>4. QED
      BY <3>1, <3>2, <3>3
  <2>3. QED
    BY <1>8, <2>2
<1>10. h = [x \in ExpSpans |-> ExpsBy(h, x[1], x[2], x[3])]
  BY <1>7, <1>9
<1>11. QED
  BY <1>10 DEF Exps

(* The recursive function of the grammar of expressions is the solution of *)
(* its equation, on every input that ends in Eof: a span has the trees its *)
(* productions say, and they are trees.                                    *)
THEOREM ExpsAre ==
  ASSUME EndsInEof, NEW k \in 0 .. 11, NEW i \in Place, NEW j \in Place
  PROVE  /\ Exps[<<k, i, j>>] = ExpsBy(Exps, k, i, j)
         /\ Exps[<<k, i, j>>] \subseteq Typed(k)
<1>1. <<k, i, j>> \in ExpSpans
  BY SpansAre
<1>2. PICK f : f = Exps
  OBVIOUS
<1>3. f = [x \in ExpSpans |-> ExpsBy(f, x[1], x[2], x[3])]
  BY <1>2, ExpsExist
<1>4. \A x \in ExpSpans : f[x] = ExpsBy(f, x[1], x[2], x[3])
  BY <1>3
<1>5. f[<<k, i, j>>] \subseteq Typed(k)
  BY <1>1, <1>4, SolutionTyped
<1>6. QED
  BY <1>1, <1>2, <1>4, <1>5

LEMMA NoExpsOfNothing ==
  ASSUME EndsInEof, NEW k \in 0 .. 11, NEW i \in Place, NEW j \in Place, i >= j
  PROVE  Exps[<<k, i, j>>] = {}
  BY ExpsAre DEF ExpsBy
-----------------------------------------------------------------------------
(* What the productions of the statements say, one tree at a time.         *)
LEMMA StandsPlace ==
  ASSUME EndsInEof, NEW i \in Place, NEW types \in Seq(TokenType \ {"Eof"}), Stands(i, types)
  PROVE  i + Len(types) \in Place
<1>1. PICK last \in Nat : last = Len(input) /\ Place = 1 .. last
  BY DEF EndsInEof, Place
<1>2. ASSUME NEW n \in 0 .. Len(types), n # 0 PROVE i + n \in Place
  <2>1. n \in DOMAIN types /\ types[n] # "Eof"
    BY <1>2
  <2>2. i + n - 1 \in Place /\ input[i + n - 1] # "Eof"
    BY <2>1 DEF Stands
  <2>3. i + n - 1 # last
    BY <1>1, <2>2 DEF EndsInEof
  <2>4. QED
    BY <1>1, <2>2, <2>3
<1>3. Len(types) \in 0 .. Len(types) /\ i + 0 = i
  BY <1>1
<1>4. QED
  BY <1>2, <1>3

CallHead == <<"Identifier", "Lparen">>
IsToken(t) == t \in TokenType \ {"Eof"}

LEMMA HeadsAre ==
  /\ VardeclHead \in Seq(TokenType \ {"Eof"}) /\ Len(VardeclHead) = 4
  /\ CallHead \in Seq(TokenType \ {"Eof"}) /\ Len(CallHead) = 2
  /\ FundecHead \in Seq(TokenType \ {"Eof"}) /\ Len(FundecHead) = 4
  /\ FundecEnd \in Seq(TokenType \ {"Eof"}) /\ Len(FundecEnd) = 2
  /\ \A t \in {"KeywordElse", "KeywordOtherwise"} :
       Between(t) \in Seq(TokenType \ {"Eof"}) /\ Len(Between(t)) = 3
<1>1. /\ \A t \in {"KeywordVar", "Identifier", "TypeName", "Assign", "Lparen", "Rparen", "Lcurl",
                   "Rcurl", "KeywordFun", "KeywordElse", "KeywordOtherwise"} : IsToken(t)
  BY DEF IsToken, TokenType
<1>2. PICK T : T = TokenType \ {"Eof"}
  OBVIOUS
<1>3. \A t : IsToken(t) <=> t \in T
  BY <1>2 DEF IsToken
<1>4. VardeclHead \in Seq(T) /\ Len(VardeclHead) = 4
  BY <1>1, <1>3 DEF VardeclHead
<1>5. CallHead \in Seq(T) /\ Len(CallHead) = 2
  BY <1>1, <1>3 DEF CallHead
<1>6. FundecHead \in Seq(T) /\ Len(FundecHead) = 4
  BY <1>1, <1>3 DEF FundecHead
<1>7. FundecEnd \in Seq(T) /\ Len(FundecEnd) = 2
  BY <1>1, <1>3 DEF FundecEnd
<1>8. \A t \in {"KeywordElse", "KeywordOtherwise"} : Between(t) \in Seq(T) /\ Len(Between(t)) = 3
  BY <1>1, <1>3 DEF Between
<1>9. QED
  BY <1>2, <1>4, <1>5, <1>6, <1>7, <1>8

LEMMA StandsAre ==
  ASSUME EndsInEof, NEW i \in Place
  PROVE  /\ Stands(i, VardeclHead) => input[i] = "KeywordVar" /\ i + 4 \in Place
         /\ Stands(i, CallHead) <=> input[i] = "Identifier" /\ input[i + 1] = "Lparen"
         /\ Stands(i, CallHead) => i + 2 \in Place
         /\ Stands(i, FundecHead) => input[i] = "KeywordFun" /\ i + 4 \in Place
         /\ Stands(i, FundecEnd) <=> input[i] = "Rparen" /\ input[i + 1] = "Lcurl"
         /\ Stands(i, FundecEnd) => i + 2 \in Place
         /\ \A t \in {"KeywordElse", "KeywordOtherwise"} :
              /\ Stands(i, Between(t)) => i + 3 \in Place
              /\ Stands(i, Between(t)) <=>
                   input[i] = "Rcurl" /\ input[i + 1] = t /\ input[i + 2] = "Lcurl"
<1>1. PICK n \in Nat : n = Len(input) /\ Place = 1 .. n
  BY DEF EndsInEof, Place
<1>2. \A m \in Place : input[m] # "Eof" => m + 1 \in Place
  BY <1>1 DEF EndsInEof
<1>3. Stands(i, VardeclHead) => i + 4 \in Place
  BY HeadsAre, StandsPlace
<1>4. Stands(i, CallHead) => i + 2 \in Place
  BY HeadsAre, StandsPlace
<1>5. Stands(i, FundecHead) => i + 4 \in Place
  BY HeadsAre, StandsPlace
<1>6. Stands(i, FundecEnd) => i + 2 \in Place
  BY HeadsAre, StandsPlace
<1>7. \A t \in {"KeywordElse", "KeywordOtherwise"} : Stands(i, Between(t)) => i + 3 \in Place
  BY HeadsAre, StandsPlace
<1>8. (Stands(i, VardeclHead) => input[i] = "KeywordVar")
      /\ (Stands(i, FundecHead) => input[i] = "KeywordFun")
  BY <1>1 DEF Stands, VardeclHead, FundecHead
<1>9. Stands(i, CallHead) <=> input[i] = "Identifier" /\ input[i + 1] = "Lparen"
  <2>1. Stands(i, CallHead) <=> /\ i + 1 - 1 \in Place /\ input[i + 1 - 1] = "Identifier"
                                /\ i + 2 - 1 \in Place /\ input[i + 2 - 1] = "Lparen"
    BY DEF Stands, CallHead
  <2>2. i + 1 - 1 = i /\ i + 2 - 1 = i + 1
    BY <1>1
  <2>3. QED
    BY <1>2, <2>1, <2>2
<1>10. Stands(i, FundecEnd) <=> input[i] = "Rparen" /\ input[i + 1] = "Lcurl"
  <2>1. Stands(i, FundecEnd) <=> /\ i + 1 - 1 \in Place /\ input[i + 1 - 1] = "Rparen"
                                 /\ i + 2 - 1 \in Place /\ input[i + 2 - 1] = "Lcurl"
    BY DEF Stands, FundecEnd
  <2>2. i + 1 - 1 = i /\ i + 2 - 1 = i + 1
    BY <1>1
  <2>3. QED
    BY <1>2, <2>1, <2>2
<1>11. ASSUME NEW t \in {"KeywordElse", "KeywordOtherwise"}
       PROVE  Stands(i, Between(t)) <=>
                input[i] = "Rcurl" /\ input[i + 1] = t /\ input[i + 2] = "Lcurl"
  <2>1. Stands(i, Between(t)) <=> /\ i + 1 - 1 \in Place /\ input[i + 1 - 1] = "Rcurl"
                                  /\ i + 2 - 1 \in Place /\ input[i + 2 - 1] = t
                                  /\ i + 3 - 1 \in Place /\ input[i + 3 - 1] = "Lcurl"
    BY DEF Stands, Between
  <2>2. i + 1 - 1 = i /\ i + 2 - 1 = i + 1 /\ i + 3 - 1 = i + 2 /\ i + 1 + 1 = i + 2
    BY <1>1
  <2>3. QED
    BY <1>2, <2>1, <2>2
<1>12. QED
  BY <1>3, <1>4, <1>5, <1>6, <1>7, <1>8, <1>9, <1>10, <1>11
SimpleIn(i, j, s) ==
  /\ input[j - 1] = "Semicolon"
  /\ \/ /\ Stands(i, VardeclHead)
        /\ \E e \in WholeExps(i + 4, j - 1) : s = Node("VardeclStmt", 0, <<e>>, <<>>)
     \/ /\ input[i] = "KeywordReturn"
        /\ IF j = i + 2 THEN s = Node("RetStmt", 0, <<>>, <<>>)
           ELSE \E e \in WholeExps(i + 1, j - 1) : s = Node("RetStmt", 0, <<e>>, <<>>)
     \/ /\ Stands(i, CallHead) /\ input[j - 2] = "Rparen"
        /\ IF j = i + 4 THEN s = Node("CallStmt", 0, <<>>, <<>>)
           ELSE \E call \in Exps[<<ArgRow, i + 2, j - 2>>] : s = Node("CallStmt", 0, call.args, <<>>)
     \/ /\ input[i] = "Identifier" /\ ~ Stands(i, CallHead)
        /\ \E m \in i .. j - 1 : \E l \in WholeExps(i, m), r \in WholeExps(m + 1, j - 1) :
             input[m] = "Assign" /\ s = Node("AssignStmt", 0, <<l, r>>, <<>>)

OneIn(f, kind, second, i, j, s) ==
  \E b \in i .. j - 1 : \E e \in WholeExps(i + 1, b), l \in f[<<b + 1, j - 1>>] :
    input[b] = "Lcurl" /\ s = Node(kind, 0, <<e>>, <<l>> \o second)

ElseIn(f, kind, keyword, i, j, s) ==
  \E b \in i .. j - 1 : \E m \in b .. j - 1 :
    /\ input[b] = "Lcurl" /\ Stands(m, Between(keyword))
    /\ \E e \in WholeExps(i + 1, b), l \in f[<<b + 1, m>>], r \in f[<<m + 3, j - 1>>] :
         s = Node(kind, 0, <<e>>, <<l, r>>)

TwoIn(f, kind, keyword, i, j, s) ==
  OneIn(f, kind, <<<<>>>>, i, j, s) \/ ElseIn(f, kind, keyword, i, j, s)

FundecIn(f, i, j, s) ==
  \E b \in i .. j - 1 : \E l \in f[<<b + 2, j - 1>>] :
    /\ Stands(b, FundecEnd) /\ (b = i + 4 \/ IsParams(i + 4, b))
    /\ s = Node("FundecStmt", ParamCount(i + 4, b), <<>>, <<l>>)

BlockIn(f, i, j, s) ==
  /\ input[j - 1] = "Rcurl"
  /\ \/ input[i] = "KeywordIf" /\ TwoIn(f, "IfStmt", "KeywordElse", i, j, s)
     \/ input[i] = "KeywordWhile" /\ TwoIn(f, "WhileStmt", "KeywordOtherwise", i, j, s)
     \/ input[i] = "KeywordRepeat" /\ OneIn(f, "RepeatStmt", <<>>, i, j, s)
     \/ Stands(i, FundecHead) /\ FundecIn(f, i, j, s)

LEMMA SimpleIs ==
  ASSUME EndsInEof, NEW i \in Place, NEW j, NEW s
  PROVE  s \in SimpleStmts(i, j) <=> SimpleIn(i, j, s)
<1> DEFINE vardecl == {Node("VardeclStmt", 0, <<e>>, <<>>) : e \in WholeExps(i + 4, j - 1)}
           ret == {Node("RetStmt", 0, <<e>>, <<>>) : e \in WholeExps(i + 1, j - 1)}
           call == {Node("CallStmt", 0, c.args, <<>>) : c \in Exps[<<ArgRow, i + 2, j - 2>>]}
           at(m) == {Node("AssignStmt", 0, <<l, r>>, <<>>) :
                       l \in WholeExps(i, m), r \in WholeExps(m + 1, j - 1)}
           assign == UNION {at(m) : m \in Among(i, j, {"Assign"})}
<1>1. SimpleStmts(i, j) =
        IF input[j - 1] # "Semicolon" THEN {}
        ELSE IF Stands(i, VardeclHead) THEN vardecl
        ELSE IF input[i] = "KeywordReturn"
        THEN IF j = i + 2 THEN {Node("RetStmt", 0, <<>>, <<>>)} ELSE ret
        ELSE IF Stands(i, CallHead)
        THEN IF input[j - 2] # "Rparen" THEN {}
             ELSE IF j = i + 4 THEN {Node("CallStmt", 0, <<>>, <<>>)} ELSE call
        ELSE IF input[i] = "Identifier" THEN assign ELSE {}
  BY DEF SimpleStmts, CallHead
<1>2. s \in vardecl <=> \E e \in WholeExps(i + 4, j - 1) : s = Node("VardeclStmt", 0, <<e>>, <<>>)
  OBVIOUS
<1>3. s \in ret <=> \E e \in WholeExps(i + 1, j - 1) : s = Node("RetStmt", 0, <<e>>, <<>>)
  OBVIOUS
<1>4. s \in call <=> \E c \in Exps[<<ArgRow, i + 2, j - 2>>] : s = Node("CallStmt", 0, c.args, <<>>)
  OBVIOUS
<1>5. s \in assign <=>
        \E m \in i .. j - 1 : \E l \in WholeExps(i, m), r \in WholeExps(m + 1, j - 1) :
          input[m] = "Assign" /\ s = Node("AssignStmt", 0, <<l, r>>, <<>>)
  <2>1. \A m : s \in at(m) <=> \E l \in WholeExps(i, m), r \in WholeExps(m + 1, j - 1) :
                                 s = Node("AssignStmt", 0, <<l, r>>, <<>>)
    OBVIOUS
  <2> HIDE DEF at
  <2>2. s \in assign <=> \E m \in i .. j - 1 : input[m] = "Assign" /\ s \in at(m)
    BY DEF Among
  <2>3. QED
    BY <2>1, <2>2
<1> HIDE DEF vardecl, ret, call, assign
<1>6. /\ Stands(i, VardeclHead) => input[i] = "KeywordVar"
      /\ Stands(i, CallHead) => input[i] = "Identifier"
  BY StandsAre
<1>7. QED
  BY <1>1, <1>2, <1>3, <1>4, <1>5, <1>6 DEF SimpleIn

LEMMA OneIs ==
  ASSUME NEW f, NEW kind, NEW second, NEW i, NEW j, NEW s
  PROVE  s \in OneList(f, kind, second, i, j) <=> OneIn(f, kind, second, i, j, s)
<1> DEFINE at(b) == {Node(kind, 0, <<e>>, <<l>> \o second) :
                       e \in WholeExps(i + 1, b), l \in f[<<b + 1, j - 1>>]}
<1>1. \A b : s \in at(b) <=> \E e \in WholeExps(i + 1, b), l \in f[<<b + 1, j - 1>>] :
                               s = Node(kind, 0, <<e>>, <<l>> \o second)
  OBVIOUS
<1>2. OneList(f, kind, second, i, j) = UNION {at(b) : b \in Among(i, j, {"Lcurl"})}
  BY DEF OneList
<1> HIDE DEF at
<1>3. s \in OneList(f, kind, second, i, j) <=> \E b \in i .. j - 1 : input[b] = "Lcurl" /\ s \in at(b)
  BY <1>2 DEF Among
<1>4. QED
  BY <1>1, <1>3 DEF OneIn

LEMMA TwoIs ==
  ASSUME NEW f, NEW kind, NEW keyword, NEW i \in Place, NEW j \in Place, NEW s
  PROVE  s \in TwoLists(f, kind, keyword, i, j) <=> TwoIn(f, kind, keyword, i, j, s)
<1> DEFINE at(b, m) == {Node(kind, 0, <<e>>, <<l, r>>) :
                          e \in WholeExps(i + 1, b), l \in f[<<b + 1, m>>], r \in f[<<m + 3, j - 1>>]}
           with(b) == UNION {at(b, m) : m \in {m \in Among(b, j, {"Rcurl"}) : Stands(m, Between(keyword))}}
           two == UNION {with(b) : b \in Among(i, j, {"Lcurl"})}
<1>1. TwoLists(f, kind, keyword, i, j) = OneList(f, kind, <<<<>>>>, i, j) \union two
  BY DEF TwoLists, Between
<1>2. \A b, m : s \in at(b, m) <=>
        \E e \in WholeExps(i + 1, b), l \in f[<<b + 1, m>>], r \in f[<<m + 3, j - 1>>] :
          s = Node(kind, 0, <<e>>, <<l, r>>)
  OBVIOUS
<1> HIDE DEF at
<1>3. \A b : s \in with(b) <=>
        \E m \in b .. j - 1 : input[m] = "Rcurl" /\ Stands(m, Between(keyword)) /\ s \in at(b, m)
  BY DEF Among
<1> HIDE DEF with
<1>4. s \in two <=> \E b \in i .. j - 1 : input[b] = "Lcurl" /\ s \in with(b)
  BY DEF Among
<1> HIDE DEF two
<1>5. \A m \in Nat : Stands(m, Between(keyword)) => input[m] = "Rcurl"
  <2> SUFFICES ASSUME NEW m \in Nat, Stands(m, Between(keyword)) PROVE input[m] = "Rcurl"
    OBVIOUS
  <2>1. input[m + 1 - 1] = "Rcurl" /\ m + 1 - 1 = m
    BY DEF Stands, Between
  <2>2. QED
    BY <2>1
<1>6. \A b \in i .. j - 1 : \A m \in b .. j - 1 : m \in Nat
  BY DEF Place
<1>7. s \in two <=> \E b \in i .. j - 1 : \E m \in b .. j - 1 :
                      input[b] = "Lcurl" /\ Stands(m, Between(keyword)) /\ s \in at(b, m)
  <2>1. ASSUME NEW b \in i .. j - 1
        PROVE  s \in with(b) <=> \E m \in b .. j - 1 : Stands(m, Between(keyword)) /\ s \in at(b, m)
    <3>1. \A m \in b .. j - 1 : Stands(m, Between(keyword)) => input[m] = "Rcurl"
      BY <1>5, <1>6
    <3>2. QED
      BY <1>3, <3>1
  <2>2. QED
    BY <1>4, <2>1
<1>8. s \in two <=> ElseIn(f, kind, keyword, i, j, s)
  <2>1. \A b \in i .. j - 1 : \A m \in b .. j - 1 :
          s \in at(b, m) <=>
            \E e \in WholeExps(i + 1, b), l \in f[<<b + 1, m>>], r \in f[<<m + 3, j - 1>>] :
              s = Node(kind, 0, <<e>>, <<l, r>>)
    BY <1>2
  <2>2. QED
    BY <1>7, <2>1, Zenon DEF ElseIn
<1>9. QED
  BY <1>1, <1>8, OneIs DEF TwoIn

LEMMA FundecIs ==
  ASSUME EndsInEof, NEW f, NEW i \in Place, NEW j \in Place, NEW s
  PROVE  s \in FundecStmts(f, i, j) <=> Stands(i, FundecHead) /\ FundecIn(f, i, j, s)
<1> DEFINE at(b) == {Node("FundecStmt", ParamCount(i + 4, b), <<>>, <<l>>) : l \in f[<<b + 2, j - 1>>]}
           ends == {b \in Among(i, j, {"Rparen"}) : /\ Stands(b, FundecEnd)
                                                    /\ b = i + 4 \/ IsParams(i + 4, b)}
<1>1. \A b : s \in at(b) <=>
        \E l \in f[<<b + 2, j - 1>>] : s = Node("FundecStmt", ParamCount(i + 4, b), <<>>, <<l>>)
  OBVIOUS
<1>2. FundecStmts(f, i, j) = IF ~ Stands(i, FundecHead) THEN {} ELSE UNION {at(b) : b \in ends}
  BY DEF FundecStmts, FundecEnd
<1> HIDE DEF at
<1>3. \A b : b \in ends <=> /\ b \in i .. j - 1 /\ input[b] = "Rparen" /\ Stands(b, FundecEnd)
                            /\ b = i + 4 \/ IsParams(i + 4, b)
  BY DEF Among
<1>4. \A b \in i .. j - 1 : Stands(b, FundecEnd) => input[b] = "Rparen"
  <2> SUFFICES ASSUME NEW b \in i .. j - 1, Stands(b, FundecEnd) PROVE input[b] = "Rparen"
    OBVIOUS
  <2>1. input[b + 1 - 1] = "Rparen" /\ b + 1 - 1 = b
    BY DEF Stands, FundecEnd, Place
  <2>2. QED
    BY <2>1
<1> HIDE DEF ends
<1>5. s \in FundecStmts(f, i, j) <=> Stands(i, FundecHead) /\ \E b \in ends : s \in at(b)
  BY <1>2
<1>6. QED
  BY <1>1, <1>3, <1>4, <1>5 DEF FundecIn

LEMMA BlockIs ==
  ASSUME EndsInEof, NEW f, NEW i \in Place, NEW j \in Place, NEW s
  PROVE  s \in BlockStmts(f, i, j) <=> BlockIn(f, i, j, s)
<1>1. Stands(i, FundecHead) => input[i] = "KeywordFun"
  BY StandsAre
<1>2. BlockStmts(f, i, j) =
        IF input[j - 1] # "Rcurl" THEN {}
        ELSE IF input[i] = "KeywordIf" THEN TwoLists(f, "IfStmt", "KeywordElse", i, j)
        ELSE IF input[i] = "KeywordWhile" THEN TwoLists(f, "WhileStmt", "KeywordOtherwise", i, j)
        ELSE IF input[i] = "KeywordRepeat" THEN OneList(f, "RepeatStmt", <<>>, i, j)
        ELSE FundecStmts(f, i, j)
  BY DEF BlockStmts
<1>3. QED
  BY <1>1, <1>2, OneIs, TwoIs, FundecIs DEF BlockIn

(* A list is empty, or it is a statement and a list.                       *)
ListIn(f, i, j, l) ==
  \/ i = j /\ l = <<>>
  \/ \E m \in i .. j - 1 : \E s \in Stmts(f, i, m + 1), rest \in f[<<m + 1, j>>] :
       i # j /\ input[m] \in {"Semicolon", "Rcurl"} /\ l = <<s>> \o rest

LEMMA ListIs ==
  ASSUME NEW f, NEW i, NEW j, NEW l
  PROVE  l \in ListsBy(f, i, j) <=> ListIn(f, i, j, l)
<1> DEFINE at(m) == {<<s>> \o rest : s \in Stmts(f, i, m + 1), rest \in f[<<m + 1, j>>]}
<1>1. \A m : l \in at(m) <=> \E s \in Stmts(f, i, m + 1), rest \in f[<<m + 1, j>>] : l = <<s>> \o rest
  OBVIOUS
<1>2. ListsBy(f, i, j) =
        IF i = j THEN {<<>>} ELSE UNION {at(m) : m \in Among(i, j, {"Semicolon", "Rcurl"})}
  BY DEF ListsBy
<1> HIDE DEF at
<1>3. i # j => (l \in ListsBy(f, i, j) <=>
                 \E m \in i .. j - 1 : input[m] \in {"Semicolon", "Rcurl"} /\ l \in at(m))
  BY <1>2 DEF Among
<1>4. i = j => (l \in ListsBy(f, i, j) <=> l = <<>>)
  BY <1>2
<1>5. QED
  BY <1>1, <1>3, <1>4 DEF ListIn
-----------------------------------------------------------------------------
(* StmtLists is the solution of its equation, and gives lists of trees.    *)
LEMMA WholeAre ==
  ASSUME EndsInEof, NEW i \in Place, NEW j \in Place
  PROVE  WholeExps(i, j) \subseteq Trees
<1>1. Exps[<<1, i, j>>] \subseteq Typed(1)
  BY ExpsAre
<1>2. QED
  BY <1>1 DEF WholeExps, Typed, ArgRow

LEMMA ArgsAre ==
  ASSUME EndsInEof, NEW i \in Place, NEW j \in Place, NEW call \in Exps[<<ArgRow, i, j>>]
  PROVE  call \in CallTrees /\ call.args \in Seq(Trees) /\ call = CallTree(call.args)
<1>1. call \in CallTrees
  BY ExpsAre DEF Typed, ArgRow
<1>2. QED
  BY <1>1, TreesAre DEF CallTrees

LEMMA SpanPlaces ==
  ASSUME EndsInEof, NEW i \in Place, NEW j \in Place
  PROVE  /\ \A m \in i .. j - 1 : m \in Place /\ m + 1 \in Place
         /\ i < j => i + 1 \in Place /\ j - 1 \in Place
         /\ Stands(i, CallHead) /\ i < j /\ input[j - 1] = "Semicolon" => j - 2 \in Place
<1>1. PICK n \in Nat : n = Len(input) /\ Place = 1 .. n
  BY DEF EndsInEof, Place
<1>2. Stands(i, CallHead) => input[i] = "Identifier"
  BY StandsAre
<1>3. input[j - 1] = "Semicolon" /\ input[i] = "Identifier" => j - 1 # i
  OBVIOUS
<1>4. QED
  BY <1>1, <1>2, <1>3

LEMMA SimpleTyped ==
  ASSUME EndsInEof, NEW i \in Place, NEW j \in Place, i < j
  PROVE  SimpleStmts(i, j) \subseteq Trees
<1> SUFFICES ASSUME NEW s, SimpleIn(i, j, s) PROVE s \in Trees
  BY SimpleIs
<1>1. j - 1 \in Place /\ i + 1 \in Place
  BY SpanPlaces
<1>2. \A kind \in {"VardeclStmt", "RetStmt", "CallStmt", "AssignStmt"} : \A exps \in Seq(Trees) :
        Node(kind, 0, exps, <<>>) \in Trees
  <2>1. {"VardeclStmt", "RetStmt", "CallStmt", "AssignStmt"} \subseteq DOMAIN ListCount
    BY DEF ListCount
  <2>2. 0 \in Nat /\ <<>> \in Seq(Seq(Trees))
    OBVIOUS
  <2>3. QED
    BY <2>1, <2>2, TreesAre
<1>3. <<>> \in Seq(Trees) /\ (\A e \in Trees : <<e>> \in Seq(Trees))
      /\ \A l, r \in Trees : <<l, r>> \in Seq(Trees)
  OBVIOUS
<1>4. ASSUME Stands(i, VardeclHead), NEW e \in WholeExps(i + 4, j - 1) PROVE e \in Trees
  BY <1>1, <1>4, StandsAre, WholeAre
<1>5. ASSUME NEW e \in WholeExps(i + 1, j - 1) PROVE e \in Trees
  BY <1>1, WholeAre
<1>6. ASSUME Stands(i, CallHead), input[j - 1] = "Semicolon", NEW call \in Exps[<<ArgRow, i + 2, j - 2>>]
      PROVE  call.args \in Seq(Trees)
  <2>1. i + 2 \in Place /\ j - 2 \in Place
    BY <1>6, StandsAre, SpanPlaces
  <2>2. QED
    BY <1>6, <2>1, ArgsAre
<1>7. ASSUME NEW m \in i .. j - 1, NEW l \in WholeExps(i, m), NEW r \in WholeExps(m + 1, j - 1)
      PROVE  l \in Trees /\ r \in Trees
  <2>1. m \in Place /\ m + 1 \in Place
    BY SpanPlaces
  <2>2. QED
    BY <1>1, <1>7, <2>1, WholeAre
<1>8. QED
  BY <1>2, <1>3, <1>4, <1>5, <1>6, <1>7 DEF SimpleIn

Shorter(f, g, i, j) == \A a, b \in Place : b - a < j - i => f[<<a, b>>] = g[<<a, b>>]
GivesLists(f, i, j) == \A a, b \in Place : b - a < j - i => f[<<a, b>>] \subseteq Seq(Trees)

LEMMA OneTyped ==
  ASSUME EndsInEof, NEW i \in Place, NEW j \in Place, i < j, NEW f, GivesLists(f, i, j),
         NEW kind \in {"IfStmt", "WhileStmt", "RepeatStmt"}, NEW second \in {<<>>, <<<<>>>>}, NEW s,
         OneIn(f, kind, second, i, j, s)
  PROVE  s \in Trees
<1> PICK b \in i .. j - 1 : \E e \in WholeExps(i + 1, b), l \in f[<<b + 1, j - 1>>] :
                               s = Node(kind, 0, <<e>>, <<l>> \o second)
  BY DEF OneIn
<1>1. PICK e \in WholeExps(i + 1, b), l \in f[<<b + 1, j - 1>>] : s = Node(kind, 0, <<e>>, <<l>> \o second)
  OBVIOUS
<1>2. b \in Place /\ b + 1 \in Place /\ i + 1 \in Place /\ j - 1 \in Place
  BY SpanPlaces
<1>3. j - 1 - (b + 1) < j - i
  BY DEF Place
<1>4. e \in Trees
  BY <1>1, <1>2, WholeAre
<1>5. l \in Seq(Trees)
  BY <1>1, <1>2, <1>3 DEF GivesLists
<1>6. PICK L : L = Seq(Trees)
  OBVIOUS
<1>7. <<>> \in L
  BY <1>6
<1>8. <<l>> \o second \in Seq(L)
  <2>1. <<l>> \in Seq(L) /\ <<>> \in Seq(L) /\ <<<<>>>> \in Seq(L)
    BY <1>5, <1>6, <1>7
  <2>2. second \in Seq(L)
    BY <2>1
  <2>3. \A c, d \in Seq(L) : c \o d \in Seq(L)
    OBVIOUS
  <2>4. QED
    BY <2>1, <2>2, <2>3
<1>9. <<e>> \in Seq(Trees) /\ kind \in DOMAIN ListCount
  BY <1>4 DEF ListCount
<1>10. QED
  BY <1>1, <1>6, <1>8, <1>9, TreesAre

LEMMA ElseTyped ==
  ASSUME EndsInEof, NEW i \in Place, NEW j \in Place, i < j, NEW f, GivesLists(f, i, j),
         NEW kind \in {"IfStmt", "WhileStmt"}, NEW keyword \in {"KeywordElse", "KeywordOtherwise"},
         NEW s, ElseIn(f, kind, keyword, i, j, s)
  PROVE  s \in Trees
<1> PICK b \in i .. j - 1 :
      \E m \in b .. j - 1 :
        /\ Stands(m, Between(keyword))
        /\ \E e \in WholeExps(i + 1, b), l \in f[<<b + 1, m>>], r \in f[<<m + 3, j - 1>>] :
             s = Node(kind, 0, <<e>>, <<l, r>>)
  BY Zenon DEF ElseIn
<1> PICK m \in b .. j - 1 :
        /\ Stands(m, Between(keyword))
        /\ \E e \in WholeExps(i + 1, b), l \in f[<<b + 1, m>>], r \in f[<<m + 3, j - 1>>] :
             s = Node(kind, 0, <<e>>, <<l, r>>)
  OBVIOUS
<1>1. PICK e \in WholeExps(i + 1, b), l \in f[<<b + 1, m>>], r \in f[<<m + 3, j - 1>>] :
        s = Node(kind, 0, <<e>>, <<l, r>>)
  OBVIOUS
<1>2. b \in Place /\ b + 1 \in Place /\ i + 1 \in Place /\ j - 1 \in Place
  BY SpanPlaces
<1>3. m \in i .. j - 1
  BY DEF Place
<1>4. m \in Place /\ m + 3 \in Place
  BY <1>1, <1>3, SpanPlaces, StandsAre
<1>5. m - (b + 1) < j - i /\ j - 1 - (m + 3) < j - i
  BY <1>3 DEF Place
<1>6. e \in Trees
  BY <1>1, <1>2, WholeAre
<1>7. l \in Seq(Trees) /\ r \in Seq(Trees)
  BY <1>1, <1>2, <1>4, <1>5 DEF GivesLists
<1>8. PICK L : L = Seq(Trees)
  OBVIOUS
<1>9. <<l, r>> \in Seq(L)
  BY <1>7, <1>8
<1>10. <<e>> \in Seq(Trees) /\ kind \in DOMAIN ListCount
  BY <1>6 DEF ListCount
<1>11. QED
  BY <1>1, <1>8, <1>9, <1>10, TreesAre

LEMMA FundecTyped ==
  ASSUME EndsInEof, NEW i \in Place, NEW j \in Place, i < j, NEW f, GivesLists(f, i, j),
         NEW s, Stands(i, FundecHead), FundecIn(f, i, j, s)
  PROVE  s \in Trees
<1> PICK b \in i .. j - 1 :
      \E l \in f[<<b + 2, j - 1>>] :
        /\ Stands(b, FundecEnd) /\ (b = i + 4 \/ IsParams(i + 4, b))
        /\ s = Node("FundecStmt", ParamCount(i + 4, b), <<>>, <<l>>)
  BY DEF FundecIn
<1>1. PICK l \in f[<<b + 2, j - 1>>] :
        /\ Stands(b, FundecEnd) /\ (b = i + 4 \/ IsParams(i + 4, b))
        /\ s = Node("FundecStmt", ParamCount(i + 4, b), <<>>, <<l>>)
  OBVIOUS
<1>2. b \in Place /\ b + 2 \in Place /\ j - 1 \in Place /\ i + 4 \in Place
  BY <1>1, SpanPlaces, StandsAre
<1>3. j - 1 - (b + 2) < j - i
  BY DEF Place
<1>4. l \in Seq(Trees)
  BY <1>1, <1>2, <1>3 DEF GivesLists
<1>5. ParamCount(i + 4, b) \in Nat
  <2>1. CASE b >= i + 4
    BY <1>2, <2>1 DEF ParamCount, Place
  <2>2. CASE IsParams(i + 4, b) /\ b < i + 4
    <3>1. b - (i + 4) \in {-1, -2, -3, -4} /\ (b - (i + 4)) % 3 = 2
      BY <2>2, <1>2 DEF IsParams, Place
    <3>2. b # i
      BY <1>1, StandsAre, <1>2
    <3>3. b - (i + 4) = -1
      BY <3>1, <3>2, <1>2 DEF Place
    <3>4. QED
      BY <3>3, <1>2 DEF ParamCount, Place
  <2>3. QED
    BY <1>1, <1>2, <2>1, <2>2 DEF Place
<1>6. PICK L : L = Seq(Trees)
  OBVIOUS
<1>7. <<l>> \in Seq(L) /\ <<>> \in L
  BY <1>4, <1>6
<1>8. "FundecStmt" \in DOMAIN ListCount
  BY DEF ListCount
<1>9. QED
  BY <1>1, <1>5, <1>6, <1>7, <1>8, TreesAre
LEMMA StmtsTyped ==
  ASSUME EndsInEof, NEW i \in Place, NEW j \in Place, i < j, NEW f, GivesLists(f, i, j)
  PROVE  Stmts(f, i, j) \subseteq Trees
<1> SUFFICES ASSUME NEW s, BlockIn(f, i, j, s) PROVE s \in Trees
  BY SimpleTyped, BlockIs DEF Stmts
<1>1. ASSUME NEW kind \in {"IfStmt", "WhileStmt"}, NEW keyword \in {"KeywordElse", "KeywordOtherwise"},
             TwoIn(f, kind, keyword, i, j, s)
      PROVE  s \in Trees
  <2>1. CASE OneIn(f, kind, <<<<>>>>, i, j, s)
    BY <2>1, OneTyped
  <2>2. CASE ElseIn(f, kind, keyword, i, j, s)
    BY <2>2, ElseTyped
  <2>3. QED
    BY <1>1, <2>1, <2>2 DEF TwoIn
<1>2. CASE OneIn(f, "RepeatStmt", <<>>, i, j, s)
  BY <1>2, OneTyped
<1>3. CASE Stands(i, FundecHead) /\ FundecIn(f, i, j, s)
  BY <1>3, FundecTyped
<1>4. QED
  BY <1>1, <1>2, <1>3 DEF BlockIn

(* A statement looks at the lists of the spans inside.                     *)
LEMMA OneLocal ==
  ASSUME EndsInEof, NEW i \in Place, NEW j \in Place, i < j, NEW f, NEW g, Shorter(f, g, i, j),
         NEW kind, NEW second, NEW s
  PROVE  OneIn(f, kind, second, i, j, s) <=> OneIn(g, kind, second, i, j, s)
<1>1. ASSUME NEW b \in i .. j - 1 PROVE f[<<b + 1, j - 1>>] = g[<<b + 1, j - 1>>]
  <2>1. b + 1 \in Place /\ j - 1 \in Place
    BY SpanPlaces
  <2>2. j - 1 - (b + 1) < j - i
    BY DEF Place
  <2>3. QED
    BY <2>1, <2>2 DEF Shorter
<1>2. QED
  BY <1>1 DEF OneIn

LEMMA ElseLocal ==
  ASSUME EndsInEof, NEW i \in Place, NEW j \in Place, i < j, NEW f, NEW g, Shorter(f, g, i, j),
         NEW kind, NEW keyword \in {"KeywordElse", "KeywordOtherwise"}, NEW s
  PROVE  ElseIn(f, kind, keyword, i, j, s) <=> ElseIn(g, kind, keyword, i, j, s)
<1> DEFINE made(h, b, m) == \E e \in WholeExps(i + 1, b), l \in h[<<b + 1, m>>], r \in h[<<m + 3, j - 1>>] :
                              s = Node(kind, 0, <<e>>, <<l, r>>)
<1>1. ASSUME NEW b \in i .. j - 1, NEW m \in b .. j - 1, Stands(m, Between(keyword))
      PROVE  made(f, b, m) <=> made(g, b, m)
  <2>1. b + 1 \in Place /\ j - 1 \in Place
    BY SpanPlaces
  <2>2. m \in i .. j - 1
    BY DEF Place
  <2>3. m \in Place /\ m + 3 \in Place
    BY <1>1, <2>2, SpanPlaces, StandsAre
  <2>4. m - (b + 1) < j - i /\ j - 1 - (m + 3) < j - i
    BY <2>2 DEF Place
  <2>5. f[<<b + 1, m>>] = g[<<b + 1, m>>] /\ f[<<m + 3, j - 1>>] = g[<<m + 3, j - 1>>]
    BY <2>1, <2>3, <2>4 DEF Shorter
  <2>6. QED
    BY <2>5
<1>2. /\ ElseIn(f, kind, keyword, i, j, s) <=>
           \E b \in i .. j - 1 : \E m \in b .. j - 1 :
             input[b] = "Lcurl" /\ Stands(m, Between(keyword)) /\ made(f, b, m)
      /\ ElseIn(g, kind, keyword, i, j, s) <=>
           \E b \in i .. j - 1 : \E m \in b .. j - 1 :
             input[b] = "Lcurl" /\ Stands(m, Between(keyword)) /\ made(g, b, m)
  BY DEF ElseIn
<1> HIDE DEF made
<1>3. QED
  BY <1>1, <1>2

LEMMA FundecLocal ==
  ASSUME EndsInEof, NEW i \in Place, NEW j \in Place, i < j, NEW f, NEW g, Shorter(f, g, i, j), NEW s
  PROVE  FundecIn(f, i, j, s) <=> FundecIn(g, i, j, s)
<1>1. ASSUME NEW b \in i .. j - 1, Stands(b, FundecEnd)
      PROVE  f[<<b + 2, j - 1>>] = g[<<b + 2, j - 1>>]
  <2>1. b + 2 \in Place /\ j - 1 \in Place
    BY <1>1, SpanPlaces, StandsAre
  <2>2. j - 1 - (b + 2) < j - i
    BY DEF Place
  <2>3. QED
    BY <2>1, <2>2 DEF Shorter
<1>2. QED
  BY <1>1 DEF FundecIn

LEMMA StmtsLocal ==
  ASSUME EndsInEof, NEW i \in Place, NEW j \in Place, i < j, NEW f, NEW g, Shorter(f, g, i, j)
  PROVE  Stmts(f, i, j) = Stmts(g, i, j)
<1>1. ASSUME NEW s PROVE BlockIn(f, i, j, s) <=> BlockIn(g, i, j, s)
  <2>1. \A kind, second : OneIn(f, kind, second, i, j, s) <=> OneIn(g, kind, second, i, j, s)
    BY OneLocal
  <2>2. \A kind : \A keyword \in {"KeywordElse", "KeywordOtherwise"} :
          ElseIn(f, kind, keyword, i, j, s) <=> ElseIn(g, kind, keyword, i, j, s)
    BY ElseLocal
  <2>3. FundecIn(f, i, j, s) <=> FundecIn(g, i, j, s)
    BY FundecLocal
  <2>4. QED
    BY <2>1, <2>2, <2>3 DEF BlockIn, TwoIn
<1>2. BlockStmts(f, i, j) = BlockStmts(g, i, j)
  <2>1. \A s : s \in BlockStmts(f, i, j) <=> s \in BlockStmts(g, i, j)
    BY <1>1, BlockIs
  <2>2. QED
    BY <2>1
<1>3. QED
  BY <1>2 DEF Stmts

LEMMA ListsTyped ==
  ASSUME EndsInEof, NEW i \in Place, NEW j \in Place, NEW f, GivesLists(f, i, j)
  PROVE  ListsBy(f, i, j) \subseteq Seq(Trees)
<1> SUFFICES ASSUME NEW l, ListIn(f, i, j, l) PROVE l \in Seq(Trees)
  BY ListIs
<1>1. CASE l = <<>>
  BY <1>1
<1>2. ASSUME NEW m \in i .. j - 1, NEW s \in Stmts(f, i, m + 1), NEW rest \in f[<<m + 1, j>>],
             l = <<s>> \o rest
      PROVE  l \in Seq(Trees)
  <2>1. m + 1 \in Place /\ i < m + 1 /\ j - (m + 1) < j - i /\ m + 1 - i <= j - i
    BY SpanPlaces DEF Place
  <2>2. GivesLists(f, i, m + 1)
    <3>1. ASSUME NEW a \in Place, NEW b \in Place, b - a < (m + 1) - i
          PROVE  f[<<a, b>>] \subseteq Seq(Trees)
      <4>1. b - a < j - i
        BY <2>1, <3>1 DEF Place
      <4>2. QED
        BY <4>1 DEF GivesLists
    <3>2. \A a, b \in Place : b - a < (m + 1) - i => f[<<a, b>>] \subseteq Seq(Trees)
      BY <3>1
    <3>3. QED
      BY <3>2 DEF GivesLists
  <2>3. s \in Trees
    BY <1>2, <2>1, <2>2, StmtsTyped
  <2>4. rest \in Seq(Trees)
    BY <1>2, <2>1 DEF GivesLists
  <2>5. <<s>> \in Seq(Trees)
    BY <2>3
  <2>6. QED
    BY <1>2, <2>4, <2>5
<1>3. QED
  BY <1>1, <1>2 DEF ListIn

LEMMA ListsLocal ==
  ASSUME EndsInEof, NEW i \in Place, NEW j \in Place, NEW f, NEW g, Shorter(f, g, i, j)
  PROVE  ListsBy(f, i, j) = ListsBy(g, i, j)
<1>1. ASSUME NEW m \in i .. j - 1
      PROVE  Stmts(f, i, m + 1) = Stmts(g, i, m + 1) /\ f[<<m + 1, j>>] = g[<<m + 1, j>>]
  <2>1. m + 1 \in Place /\ i < m + 1 /\ j - (m + 1) < j - i /\ m + 1 - i <= j - i
    BY SpanPlaces DEF Place
  <2>2. Shorter(f, g, i, m + 1)
    BY <2>1 DEF Shorter, Place
  <2>3. QED
    BY <2>1, <2>2, StmtsLocal DEF Shorter
<1>2. \A l : ListIn(f, i, j, l) <=> ListIn(g, i, j, l)
  BY <1>1 DEF ListIn
<1>3. \A l : l \in ListsBy(f, i, j) <=> l \in ListsBy(g, i, j)
  BY <1>2, ListIs
<1>4. QED
  BY <1>3

ListRank == [x \in Place \X Place |-> IF x[2] < x[1] THEN 0 ELSE x[2] - x[1] + 1]

LEMMA ListRanks ==
  ASSUME EndsInEof
  PROVE  /\ ListRank \in [Place \X Place -> Nat]
         /\ \A x \in Place \X Place : x[1] \in Place /\ x[2] \in Place /\ x = <<x[1], x[2]>>
         /\ \A x \in Place \X Place : \A a, b \in Place :
              b - a < x[2] - x[1] /\ x[1] <= x[2] => ListRank[<<a, b>>] < ListRank[x]
<1>1. PICK n \in Nat : n = Len(input) /\ Place = 1 .. n
  BY DEF EndsInEof, Place
<1>2. QED
  BY <1>1 DEF ListRank

LEMMA NoListsBackwards ==
  ASSUME EndsInEof, NEW f, NEW i \in Place, NEW j \in Place, j < i
  PROVE  ListsBy(f, i, j) = {}
<1>1. i .. j - 1 = {} /\ i # j
  BY DEF Place
<1>2. \A l : l \notin ListsBy(f, i, j)
  BY <1>1, ListIs DEF ListIn
<1>3. QED
  BY <1>2

LEMMA ListsExist ==
  ASSUME EndsInEof
  PROVE  StmtLists = [x \in Place \X Place |-> ListsBy(StmtLists, x[1], x[2])]
<1> DEFINE V == SUBSET Seq(Trees)
           F == [Place \X Place -> V]
           step == [x \in Place \X Place |-> [f \in F |-> ListsBy(f, x[1], x[2])]]
<1>1. \A x \in Place \X Place : \A f \in F : step[x][f] = ListsBy(f, x[1], x[2])
  OBVIOUS
<1>2. ASSUME NEW f \in F, NEW a \in Place, NEW b \in Place PROVE GivesLists(f, a, b)
  BY DEF GivesLists
<1>3. ASSUME NEW x \in Place \X Place, NEW f \in F PROVE ListsBy(f, x[1], x[2]) \in V
  <2>1. x[1] \in Place /\ x[2] \in Place
    OBVIOUS
  <2>2. GivesLists(f, x[1], x[2])
    BY <1>2, <2>1
  <2>3. QED
    BY <2>1, <2>2, ListsTyped
<1>4. step \in [Place \X Place -> [F -> V]]
  BY <1>3
<1> HIDE DEF step
<1>5. ASSUME NEW x \in Place \X Place, NEW f \in F, NEW g \in F,
             \A y \in Place \X Place : ListRank[y] < ListRank[x] => f[y] = g[y]
      PROVE  step[x][f] = step[x][g]
  <2>1. x[1] \in Place /\ x[2] \in Place /\ x[1] \in Int /\ x[2] \in Int
    BY DEF Place
  <2>2. CASE x[2] < x[1]
    <3>1. ListsBy(f, x[1], x[2]) = {} /\ ListsBy(g, x[1], x[2]) = {}
      BY <2>1, <2>2, NoListsBackwards
    <3>2. QED
      BY <1>1, <3>1
  <2>3. CASE x[1] <= x[2]
    <3>1. Shorter(f, g, x[1], x[2])
      BY <1>5, <2>3, ListRanks DEF Shorter
    <3>2. ListsBy(f, x[1], x[2]) = ListsBy(g, x[1], x[2])
      BY <2>1, <3>1, ListsLocal
    <3>3. QED
      BY <1>1, <3>2
  <2>4. QED
    BY <2>1, <2>2, <2>3
<1>6. Looks(Place \X Place, ListRank, V, step)
  BY <1>5 DEF Looks
<1>7. V # {}
  OBVIOUS
<1>8. PICK h \in F : Defines(h, Place \X Place, step)
  <2> HIDE DEF V
  <2> QED BY <1>4, <1>6, <1>7, ListRanks, RankRecursion
<1>9. h = [x \in Place \X Place |-> ListsBy(h, x[1], x[2])]
  BY <1>1, <1>8 DEF Defines
<1>10. QED
  BY <1>9 DEF StmtLists

(* So is that of the grammar of statements: a list is empty, or it is a    *)
(* statement and a list, and its members are trees.                        *)
THEOREM ListsAre ==
  ASSUME EndsInEof, NEW i \in Place, NEW j \in Place
  PROVE  /\ StmtLists[<<i, j>>] = ListsBy(StmtLists, i, j)
         /\ StmtLists[<<i, j>>] \subseteq Seq(Trees)
<1>1. PICK f : f = StmtLists
  OBVIOUS
<1>2. f = [x \in Place \X Place |-> ListsBy(f, x[1], x[2])]
  BY <1>1, ListsExist
<1>3. \A x \in Place \X Place : f[x] = ListsBy(f, x[1], x[2])
  BY <1>2
<1> DEFINE A == {x \in Place \X Place : f[x] \subseteq Seq(Trees)}
<1>4. ASSUME NEW x \in Place \X Place, \A y \in Place \X Place : ListRank[y] < ListRank[x] => y \in A
      PROVE  x \in A
  <2>1. x[1] \in Place /\ x[2] \in Place /\ x[1] \in Int /\ x[2] \in Int
    BY DEF Place
  <2>2. CASE x[2] < x[1]
    BY <1>3, <2>1, <2>2, NoListsBackwards
  <2>3. CASE x[1] <= x[2]
    <3>1. GivesLists(f, x[1], x[2])
      BY <1>4, <2>3, ListRanks DEF GivesLists
    <3>2. ListsBy(f, x[1], x[2]) \subseteq Seq(Trees)
      BY <2>1, <3>1, ListsTyped
    <3>3. QED
      BY <1>3, <3>2
  <2>4. QED
    BY <2>1, <2>2, <2>3
<1> HIDE DEF A
<1>5. Place \X Place \subseteq A
  <2>1. ListRank \in [Place \X Place -> Nat]
    BY ListRanks
  <2>2. PICK S : S = Place \X Place
    OBVIOUS
  <2>3. S \subseteq A
    BY <1>4, <2>1, <2>2, RankInduction
  <2>4. QED
    BY <2>2, <2>3
<1>6. <<i, j>> \in Place \X Place
  OBVIOUS
<1>7. f[<<i, j>>] = ListsBy(f, i, j)
  BY <1>3, <1>6
<1>8. f[<<i, j>>] \subseteq Seq(Trees)
  BY <1>5, <1>6 DEF A
<1>9. QED
  BY <1>1, <1>7, <1>8
-----------------------------------------------------------------------------
LEMMA GrownLeast ==
  ASSUME NEW m, NEW K, NEW X \in SUBSET Points, Closed(X, m, K)
  PROVE  Grown(m, K) \subseteq X
  BY DEF Grown

LEMMA GrowsMore ==
  ASSUME NEW m, NEW K, NEW X, NEW Y, X \subseteq Y, NEW k, NEW l, NEW i, GrowsBy(X, m, K, k, l, i)
  PROVE  GrowsBy(Y, m, K, k, l, i)
  BY DEF GrowsBy

LEMMA GrownIs ==
  ASSUME NEW m \in 1 .. 10, NEW K, NEW k \in m .. 11, NEW l \in Trees, NEW i \in Place
  PROVE  <<k, l, i>> \in Grown(m, K) <=> GrowsBy(Grown(m, K), m, K, k, l, i)
<1> DEFINE G == Grown(m, K)
<1>1. G \subseteq Points /\ <<k, l, i>> \in Points
  BY DEF Grown, Points
<1>2. ASSUME NEW q \in m .. 11, NEW t \in Trees, NEW j \in Place, GrowsBy(G, m, K, q, t, j)
      PROVE  <<q, t, j>> \in G
  <2> SUFFICES ASSUME NEW X \in SUBSET Points, Closed(X, m, K) PROVE <<q, t, j>> \in X
    BY DEF Grown, Points
  <2>1. G \subseteq X
    BY GrownLeast
  <2>2. GrowsBy(X, m, K, q, t, j)
    BY <1>2, <2>1, GrowsMore
  <2>3. QED
    BY <2>2 DEF Closed
<1>3. ASSUME <<k, l, i>> \in G, ~ GrowsBy(G, m, K, k, l, i) PROVE FALSE
  <2> DEFINE X == G \ {<<k, l, i>>}
  <2>1. ASSUME NEW q \in m .. 11, NEW t \in Trees, NEW j \in Place, GrowsBy(X, m, K, q, t, j)
        PROVE  <<q, t, j>> \in X
    <3>1. GrowsBy(G, m, K, q, t, j)
      BY <2>1, GrowsMore
    <3>2. <<q, t, j>> \in G
      BY <1>2, <3>1
    <3>3. <<q, t, j>> # <<k, l, i>>
      BY <1>3, <3>1
    <3>4. QED
      BY <3>2, <3>3
  <2>2. X \in SUBSET Points
    BY <1>1
  <2>3. Closed(X, m, K)
    BY <2>1 DEF Closed
  <2>4. G \subseteq X
    BY <2>2, <2>3, GrownLeast
  <2>5. QED
    BY <1>3, <2>4
<1>4. QED
  BY <1>2, <1>3

-----------------------------------------------------------------------------
(* What row an operator is in.                                             *)
LEMMA RowsAre ==
  /\ InfixOps \subseteq TokenType
  /\ \A k \in 1 .. 9 : Row[k] \subseteq InfixOps
  /\ \A t \in InfixOps : \E k \in 1 .. 9 : t \in Row[k]
  /\ \A k, q \in 1 .. 9 : \A t \in Row[k] : t \in Row[q] => k = q
  /\ "Lbracket" \notin InfixOps /\ "Lparen" \notin InfixOps
<1>1. InfixOps = {"OpTimes", "OpDiv", "OpRem", "OpPlus", "OpMinus", "OpLt", "OpLe", "OpGt", "OpGe",
                  "OpEq", "OpNe", "OpBand", "OpXor", "OpBor", "OpAnd", "OpOr"}
  BY DEF InfixOps, Level
<1>2. /\ Row[1] = {"OpOr"} /\ Row[2] = {"OpAnd"} /\ Row[3] = {"OpBor"} /\ Row[4] = {"OpXor"}
      /\ Row[5] = {"OpBand"} /\ Row[6] = {"OpEq", "OpNe"}
      /\ Row[7] = {"OpLt", "OpLe", "OpGt", "OpGe"} /\ Row[8] = {"OpPlus", "OpMinus"}
      /\ Row[9] = {"OpTimes", "OpDiv", "OpRem"}
  BY DEF Row
<1>3. InfixOps \subseteq TokenType
  BY <1>1 DEF TokenType
<1>4. 1 .. 9 = {1, 2, 3, 4, 5, 6, 7, 8, 9}
  OBVIOUS
<1>5. \A k \in 1 .. 9 : Row[k] \subseteq InfixOps
  BY <1>1, <1>2, <1>4
<1>6. \A t \in InfixOps : \E k \in 1 .. 9 : t \in Row[k]
  <2> SUFFICES ASSUME NEW t \in InfixOps
               PROVE  \E k \in {1, 2, 3, 4, 5, 6, 7, 8, 9} : t \in Row[k]
    BY <1>4
  <2> QED BY <1>1, <1>2
<1>7. \A k, q \in 1 .. 9 : \A t \in Row[k] : t \in Row[q] => k = q
  <2> SUFFICES ASSUME NEW k \in {1, 2, 3, 4, 5, 6, 7, 8, 9}, NEW q \in {1, 2, 3, 4, 5, 6, 7, 8, 9},
                      NEW t \in Row[k], t \in Row[q]
               PROVE  k = q
    BY <1>4
  <2> QED BY <1>2
<1>8. QED
  BY <1>1, <1>3, <1>5, <1>6, <1>7

LEMMA MinRowIs ==
  /\ \A bp \in Bps : MinRow[bp] \in 1 .. 10
  /\ 0 \in Bps /\ MinRow[0] = 1
  /\ PrefixBp \in Bps /\ MinRow[PrefixBp] = 10
  /\ \A bp \in Bps : \A k \in 1 .. 9 : \A t \in Row[k] : LeftBp(t) >= bp <=> k >= MinRow[bp]
  /\ \A k \in 1 .. 9 : \A t \in Row[k] : RightBp(t) \in Bps /\ MinRow[RightBp(t)] = k + 1
<1>1. \A bp \in Bps : MinRow[bp] \in 1 .. 10
  BY DEF MinRow, Bps
<1>2. 0 \in Bps /\ MinRow[0] = 1 /\ PrefixBp \in Bps /\ MinRow[PrefixBp] = 10
  BY DEF MinRow, Bps, PrefixBp
<1>3. /\ MinRow[0] = 1 /\ MinRow[90] = 2 /\ MinRow[100] = 3 /\ MinRow[110] = 4 /\ MinRow[120] = 5
      /\ MinRow[130] = 6 /\ MinRow[140] = 7 /\ MinRow[150] = 8 /\ MinRow[170] = 9
      /\ MinRow[180] = 10 /\ MinRow[190] = 10
  BY DEF MinRow, Bps
<1>4. /\ \A t \in Row[1] : Level[t] = 85
      /\ \A t \in Row[2] : Level[t] = 95
      /\ \A t \in Row[3] : Level[t] = 105
      /\ \A t \in Row[4] : Level[t] = 115
      /\ \A t \in Row[5] : Level[t] = 125
      /\ \A t \in Row[6] : Level[t] = 135
      /\ \A t \in Row[7] : Level[t] = 145
      /\ \A t \in Row[8] : Level[t] = 165
      /\ \A t \in Row[9] : Level[t] = 175
  BY DEF Row, Level
<1>5. 1 .. 9 = {1, 2, 3, 4, 5, 6, 7, 8, 9}
  OBVIOUS
<1>6. \A k \in 1 .. 9 : \A t \in Row[k] : LeftBp(t) = IF k < 8 THEN 75 + 10 * k ELSE 85 + 10 * k
  <2> SUFFICES ASSUME NEW k \in {1, 2, 3, 4, 5, 6, 7, 8, 9}, NEW t \in Row[k]
               PROVE  Level[t] = IF k < 8 THEN 75 + 10 * k ELSE 85 + 10 * k
    BY <1>5 DEF LeftBp
  <2> QED BY <1>4
<1>7. \A bp \in Bps : \A k \in 1 .. 9 :
        (IF k < 8 THEN 75 + 10 * k ELSE 85 + 10 * k) >= bp <=> k >= MinRow[bp]
  BY <1>3 DEF Bps
<1>8. \A k \in 1 .. 9 : \A t \in Row[k] : RightBp(t) = IF k < 8 THEN 80 + 10 * k ELSE 90 + 10 * k
  BY <1>6 DEF RightBp, LeftBp
<1>9. \A k \in 1 .. 9 : LET bp == IF k < 8 THEN 80 + 10 * k ELSE 90 + 10 * k
                        IN  bp \in Bps /\ MinRow[bp] = k + 1
  <2> SUFFICES ASSUME NEW k \in {1, 2, 3, 4, 5, 6, 7, 8, 9}
               PROVE  LET bp == IF k < 8 THEN 80 + 10 * k ELSE 90 + 10 * k
                      IN  bp \in Bps /\ MinRow[bp] = k + 1
    BY <1>5
  <2> QED BY <1>3 DEF Bps
<1>10. QED
  BY <1>1, <1>2, <1>6, <1>7, <1>8, <1>9
-----------------------------------------------------------------------------
(* Row k has a rule that goes on at place i.                               *)
Applies(k, i) ==
  \/ k \in 1 .. 9 /\ input[i] \in Row[k]
  \/ k = 11 /\ input[i] = "Lbracket"

LEMMA Down ==
  ASSUME NEW m \in 1 .. 10, NEW K, NEW q \in m .. 11, NEW k \in q .. 11, NEW l \in Trees, NEW i \in Place,
         \A p \in q + 1 .. k : ~ Applies(p, i)
  PROVE  <<k, l, i>> \in Grown(m, K) <=> <<q, l, i>> \in Grown(m, K)
<1> DEFINE A == {n \in Nat : q + n <= k =>
                   (<<q + n, l, i>> \in Grown(m, K) <=> <<q, l, i>> \in Grown(m, K))}
<1>1. 0 \in A
  BY DEF Points
<1>2. ASSUME NEW n \in Nat, n \in A PROVE n + 1 \in A
  <2> SUFFICES ASSUME q + (n + 1) <= k
               PROVE  <<q + (n + 1), l, i>> \in Grown(m, K) <=> <<q, l, i>> \in Grown(m, K)
    OBVIOUS
  <2>1. PICK p \in q + 1 .. k : p = q + (n + 1)
    OBVIOUS
  <2>2. p \in m .. 11 /\ p > m /\ p - 1 = q + n /\ q + n <= k
    BY <2>1
  <2>3. ~ Applies(p, i)
    BY <2>1
  <2>4. <<p, l, i>> \in Grown(m, K) <=> GrowsBy(Grown(m, K), m, K, p, l, i)
    BY <2>2, GrownIs
  <2>5. GrowsBy(Grown(m, K), m, K, p, l, i) <=> <<p - 1, l, i>> \in Grown(m, K)
    BY <2>2, <2>3 DEF GrowsBy, Applies
  <2>6. QED
    BY <1>2, <2>1, <2>2, <2>4, <2>5
<1> HIDE DEF A
<1>3. \A n \in Nat : n \in A
  BY <1>1, <1>2, NaturalInduction
<1>4. k - q \in Nat /\ q + (k - q) = k
  OBVIOUS
<1>5. k - q \in A
  BY <1>3, <1>4
<1>6. QED
  BY <1>4, <1>5 DEF A

LEMMA DownOut ==
  ASSUME NEW m \in 1 .. 10, NEW K, NEW k \in m .. 11, NEW l \in Trees, NEW i \in Place,
         \A p \in m .. k : ~ Applies(p, i)
  PROVE  <<k, l, i>> \in Grown(m, K) <=> <<l, i>> \in K
<1>1. m \in m .. 11 /\ m \in m .. k /\ \A p \in m + 1 .. k : p \in m .. k
  OBVIOUS
<1>2. <<k, l, i>> \in Grown(m, K) <=> <<m, l, i>> \in Grown(m, K)
  BY <1>1, Down
<1>3. <<m, l, i>> \in Grown(m, K) <=> GrowsBy(Grown(m, K), m, K, m, l, i)
  BY <1>1, GrownIs
<1>4. GrowsBy(Grown(m, K), m, K, m, l, i) <=> <<l, i>> \in K
  BY <1>1 DEF GrowsBy, Applies
<1>5. QED
  BY <1>2, <1>3, <1>4

LEMMA GrownRefuses ==
  ASSUME NEW m \in 1 .. 10, NEW K, Refuses(K, m), NEW k \in m .. 11, NEW l \in Trees, NEW i \in Place,
         <<k, l, i>> \in Grown(m, K)
  PROVE  /\ input[i] # "Lparen"
         /\ k < 11 => input[i] # "Lbracket"
         /\ \A p \in k + 1 .. 9 : input[i] \notin Row[p]
<1>1. ASSUME \A p \in m .. k : ~ Applies(p, i)
      PROVE  /\ input[i] # "Lbracket" /\ input[i] # "Lparen"
             /\ \A p \in m .. 9 : input[i] \notin Row[p]
  <2>1. <<l, i>> \in K
    BY <1>1, DownOut
  <2>2. QED
    BY <2>1 DEF Refuses
<1>2. input[i] # "Lparen"
  <2> SUFFICES ASSUME input[i] = "Lparen" PROVE FALSE
    OBVIOUS
  <2>1. \A p \in m .. k : ~ Applies(p, i)
    BY RowsAre DEF Applies
  <2>2. QED
    BY <1>1, <2>1
<1>3. ASSUME k < 11, input[i] = "Lbracket" PROVE FALSE
  <2>1. \A p \in m .. k : ~ Applies(p, i)
    BY <1>3, RowsAre DEF Applies
  <2>2. QED
    BY <1>1, <1>3, <2>1
<1>4. ASSUME NEW p \in k + 1 .. 9, input[i] \in Row[p] PROVE FALSE
  <2>1. \A q \in m .. k : ~ Applies(q, i)
    BY <1>4, RowsAre DEF Applies
  <2>2. p \in m .. 9
    OBVIOUS
  <2>3. QED
    BY <1>1, <1>4, <2>1, <2>2
<1>5. QED
  BY <1>2, <1>3, <1>4

(* The loop: a postfix operator, an infix one that binds tight enough, or  *)
(* the end.                                                                *)
LEMMA LoopPostfix ==
  ASSUME NEW m \in 1 .. 10, NEW K, Refuses(K, m), NEW l \in Trees, NEW i \in Place, input[i] = "Lbracket"
  PROVE  <<11, l, i>> \in Grown(m, K) <=> <<11, Unop("Lbracket", l), i + 1>> \in Grown(m, K)
<1>1. 11 \in m .. 11 /\ 10 \in m .. 11 /\ ~ (11 = m)
  OBVIOUS
<1>2. <<10, l, i>> \notin Grown(m, K)
  <2>1. PICK t \in m .. 11 : t = 10 /\ t < 11
    BY <1>1
  <2>2. <<t, l, i>> \notin Grown(m, K)
    BY <2>1, GrownRefuses
  <2>3. QED
    BY <2>1, <2>2
<1>3. <<11, l, i>> \in Grown(m, K) <=> GrowsBy(Grown(m, K), m, K, 11, l, i)
  BY <1>1, GrownIs
<1>4. GrowsBy(Grown(m, K), m, K, 11, l, i) <=> <<11, Unop("Lbracket", l), i + 1>> \in Grown(m, K)
  BY <1>1, <1>2 DEF GrowsBy
<1>5. QED
  BY <1>3, <1>4

LEMMA LoopInfix ==
  ASSUME EndsInEof,
         NEW m \in 1 .. 10, NEW K, Refuses(K, m), NEW l \in Trees, NEW i \in Place,
         NEW k \in m .. 9, input[i] \in Row[k]
  PROVE  /\ <<11, l, i>> \in Grown(m, K) <=> Accepts(k + 1, i + 1, AfterInfix(m, K, k, input[i], l))
         /\ Refuses(AfterInfix(m, K, k, input[i], l), k + 1)
<1> DEFINE G == Grown(m, K)
           S == AfterInfix(m, K, k, input[i], l)
<1>1. k \in m .. 11 /\ 11 \in m .. 11 /\ k \in 1 .. 9 /\ k + 1 \in 0 .. 11
  OBVIOUS
<1>2. input[i] \in TokenType /\ input[i] # "Lbracket" /\ input[i] # "Eof" /\ i + 1 \in Place
  <2>1. input[i] \in InfixOps
    BY <1>1, RowsAre
  <2>2. input[i] \in TokenType /\ input[i] # "Lbracket"
    BY <2>1, RowsAre
  <2>3. input[i] # "Eof"
    BY <2>1 DEF InfixOps, Level
  <2>4. i + 1 \in Place
    BY <2>3 DEF EndsInEof, Place
  <2>5. QED
    BY <2>2, <2>3, <2>4
<1>3. \A p \in k + 1 .. 11 : ~ Applies(p, i)
  BY <1>1, <1>2, RowsAre DEF Applies
<1>4. <<11, l, i>> \in G <=> <<k, l, i>> \in G
  <2>1. PICK t \in k .. 11 : t = 11
    BY <1>1
  <2>2. <<t, l, i>> \in G <=> <<k, l, i>> \in G
    BY <1>1, <1>3, <2>1, Down
  <2>3. QED
    BY <2>1, <2>2
<1>5. k > m => <<k - 1, l, i>> \notin G
  <2> SUFFICES ASSUME k > m, <<k - 1, l, i>> \in G PROVE FALSE
    OBVIOUS
  <2>1. k - 1 \in m .. 11 /\ k \in (k - 1) + 1 .. 9
    OBVIOUS
  <2>2. QED
    BY <2>1, GrownRefuses
<1>6. <<l, i>> \notin K
  BY DEF Refuses
<1>7. <<k, l, i>> \in G <=> GrowsBy(G, m, K, k, l, i)
  BY <1>1, GrownIs
<1>8. GrowsBy(G, m, K, k, l, i) <=>
        \E j \in Place : \E r \in Exps[<<k + 1, i + 1, j>>] : <<k, Binop(input[i], l, r), j>> \in G
  <2>1. k # 11
    BY <1>1
  <2> HIDE DEF G
  <2>2. QED
    BY <1>1, <1>5, <1>6, <2>1 DEF GrowsBy
<1>9. ASSUME NEW j \in Place, NEW r \in Exps[<<k + 1, i + 1, j>>]
      PROVE  <<r, j>> \in S <=> <<k, Binop(input[i], l, r), j>> \in G
  <2>1. Exps[<<k + 1, i + 1, j>>] \subseteq Typed(k + 1)
    BY <1>1, <1>2, ExpsAre
  <2>2. r \in Trees
    BY <1>1, <2>1 DEF Typed, ArgRow
  <2>3. QED
    BY <2>2 DEF AfterInfix
<1>10. Accepts(k + 1, i + 1, S) <=> <<11, l, i>> \in G
  BY <1>4, <1>7, <1>8, <1>9 DEF Accepts
<1>11. Refuses(S, k + 1)
  <2> SUFFICES ASSUME NEW j \in Place, NEW e \in Trees, <<e, j>> \in S
               PROVE  /\ input[j] # "Lbracket" /\ input[j] # "Lparen"
                      /\ \A p \in k + 1 .. 9 : input[j] \notin Row[p]
    BY DEF Refuses
  <2>1. <<k, Binop(input[i], l, e), j>> \in G
    BY DEF AfterInfix
  <2>2. Binop(input[i], l, e) \in Trees
    BY <1>2, TreesAre
  <2>3. k < 11
    BY <1>1
  <2>4. QED
    BY <1>1, <2>1, <2>2, <2>3, GrownRefuses
<1>12. QED
  BY <1>10, <1>11
LEMMA LoopEnd ==
  ASSUME NEW m \in 1 .. 10, NEW K, NEW l \in Trees, NEW i \in Place,
         input[i] # "Lbracket", \A k \in m .. 9 : input[i] \notin Row[k]
  PROVE  <<11, l, i>> \in Grown(m, K) <=> <<l, i>> \in K
<1>1. \A p \in m .. 11 : ~ Applies(p, i)
  BY DEF Applies
<1>2. PICK t \in m .. 11 : t = 11
  OBVIOUS
<1>3. <<t, l, i>> \in Grown(m, K) <=> <<l, i>> \in K
  BY <1>1, <1>2, DownOut
<1>4. QED
  BY <1>2, <1>3

(* The same for a tree of row k that ends where no operator of row k + 1   *)
(* or tighter does.                                                        *)
LEMMA LoopFrom ==
  ASSUME NEW m \in 1 .. 10, NEW K, NEW q \in m .. 10, NEW l \in Trees, NEW i \in Place,
         input[i] # "Lbracket", \A k \in q + 1 .. 9 : input[i] \notin Row[k]
  PROVE  <<11, l, i>> \in Grown(m, K) <=> <<q, l, i>> \in Grown(m, K)
<1>1. \A p \in q + 1 .. 11 : ~ Applies(p, i)
  BY DEF Applies
<1>2. PICK t \in q .. 11 : t = 11
  OBVIOUS
<1>3. q \in m .. 11
  OBVIOUS
<1>4. <<t, l, i>> \in Grown(m, K) <=> <<q, l, i>> \in Grown(m, K)
  BY <1>1, <1>2, <1>3, Down
<1>5. QED
  BY <1>2, <1>4

-----------------------------------------------------------------------------
(* The productions, as what Exps is closed under.                          *)
LEMMA ExpsRows ==
  ASSUME EndsInEof, NEW i \in Place, NEW j \in Place, NEW e
  PROVE  /\ \A k \in 1 .. 9 : e \in Exps[<<k, i, j>>] <=> i < j /\ BinaryIn(Exps, k, i, j, e)
         /\ e \in Exps[<<10, i, j>>] <=> i < j /\ PrefixIn(Exps, i, j, e)
         /\ e \in Exps[<<11, i, j>>] <=> i < j /\ PrimaryIn(Exps, i, j, e)
         /\ e \in Exps[<<0, i, j>>] <=> i < j /\ ArgIn(Exps, i, j, e)
<1>1. \A k \in 0 .. 11 : Exps[<<k, i, j>>] = ExpsBy(Exps, k, i, j)
  BY ExpsAre
<1>2. (i >= j) <=> ~ (i < j)
  BY DEF Place
<1>3. ASSUME NEW k \in 1 .. 9
      PROVE  e \in Exps[<<k, i, j>>] <=> i < j /\ BinaryIn(Exps, k, i, j, e)
  <2>1. Exps[<<k, i, j>>] = IF i >= j THEN {} ELSE BinaryExps(Exps, k, i, j)
    BY <1>1 DEF ExpsBy, ArgRow, PrimaryRow, PrefixRow
  <2>2. QED
    BY <1>2, <2>1, BinaryIs
<1>4. e \in Exps[<<10, i, j>>] <=> i < j /\ PrefixIn(Exps, i, j, e)
  <2>1. Exps[<<10, i, j>>] = IF i >= j THEN {} ELSE PrefixExps(Exps, i, j)
    BY <1>1 DEF ExpsBy, ArgRow, PrimaryRow, PrefixRow
  <2>2. QED
    BY <1>2, <2>1, PrefixIs
<1>5. e \in Exps[<<11, i, j>>] <=> i < j /\ PrimaryIn(Exps, i, j, e)
  <2>1. Exps[<<11, i, j>>] = IF i >= j THEN {} ELSE PrimaryExps(Exps, i, j)
    BY <1>1 DEF ExpsBy, ArgRow, PrimaryRow, PrefixRow
  <2>2. QED
    BY <1>2, <2>1, PrimaryIs
<1>6. e \in Exps[<<0, i, j>>] <=> i < j /\ ArgIn(Exps, i, j, e)
  <2>1. Exps[<<0, i, j>>] = IF i >= j THEN {} ELSE ArgExps(Exps, i, j)
    BY <1>1 DEF ExpsBy, ArgRow, PrimaryRow, PrefixRow
  <2>2. QED
    BY <1>2, <2>1, ArgIs
<1>7. QED
  BY <1>3, <1>4, <1>5, <1>6

LEMMA UnitRow ==
  ASSUME EndsInEof, NEW k \in 1 .. 10, NEW i \in Place, NEW j \in Place, NEW e \in Exps[<<k + 1, i, j>>]
  PROVE  e \in Exps[<<k, i, j>>]
<1>1. i < j
  <2>1. k + 1 \in 0 .. 11 /\ (i >= j <=> ~ (i < j))
    BY DEF Place
  <2>2. QED
    BY <2>1, NoExpsOfNothing
<1>2. CASE k \in 1 .. 9
  BY <1>1, <1>2, ExpsRows DEF BinaryIn
<1>3. CASE k = 10
  <2>1. e \in Exps[<<11, i, j>>]
    BY <1>3
  <2>2. PrefixIn(Exps, i, j, e)
    BY <2>1 DEF PrefixIn, PrimaryRow
  <2>3. QED
    BY <1>1, <1>3, <2>2, ExpsRows
<1>4. QED
  BY <1>2, <1>3

LEMMA BinaryMade ==
  ASSUME EndsInEof, NEW k \in 1 .. 9, NEW i \in Place, NEW q \in Place, NEW j \in Place,
         NEW l \in Exps[<<k, i, q>>], input[q] \in Row[k], NEW r \in Exps[<<k + 1, q + 1, j>>],
         q + 1 \in Place
  PROVE  Binop(input[q], l, r) \in Exps[<<k, i, j>>]
<1>1. i < q /\ q + 1 < j
  <2>1. /\ k \in 0 .. 11 /\ k + 1 \in 0 .. 11 /\ (i >= q <=> ~ (i < q))
        /\ q + 1 >= j <=> ~ (q + 1 < j)
    BY DEF Place
  <2>2. QED
    BY <2>1, NoExpsOfNothing
<1>2. q \in i .. j - 1 /\ i < j
  BY <1>1 DEF Place
<1>3. BinaryIn(Exps, k, i, j, Binop(input[q], l, r))
  BY <1>2 DEF BinaryIn
<1>4. QED
  BY <1>2, <1>3, ExpsRows

LEMMA PostfixMade ==
  ASSUME EndsInEof, NEW i \in Place, NEW q \in Place, NEW l \in Exps[<<11, i, q>>], input[q] = "Lbracket"
  PROVE  q + 1 \in Place /\ Unop("Lbracket", l) \in Exps[<<11, i, q + 1>>]
<1>1. i < q
  <2>1. i >= q <=> ~ (i < q)
    BY DEF Place
  <2>2. 11 \in 0 .. 11
    OBVIOUS
  <2>3. QED
    BY <2>1, <2>2, NoExpsOfNothing
<1>2. q + 1 \in Place /\ i < q + 1 /\ q + 1 - 1 = q /\ (q + 1) - 1 = q
  BY <1>1 DEF Place, EndsInEof
<1>3. PrimaryIn(Exps, i, q + 1, Unop("Lbracket", l))
  BY <1>2 DEF PrimaryIn, PrimaryRow
<1>4. QED
  BY <1>2, <1>3, ExpsRows

LEMMA Sound ==
  ASSUME EndsInEof, NEW m \in 1 .. 10, NEW K, NEW k \in m .. 11, NEW i \in Place, NEW j \in Place,
         NEW e \in Exps[<<k, i, j>>], <<k, e, j>> \in Grown(m, K)
  PROVE  Accepts(m, i, K)
<1> DEFINE G == Grown(m, K)
           X == {x \in G : x[2] \in Exps[<<x[1], i, x[3]>>] => Accepts(m, i, K)}
<1>1. ASSUME NEW q \in m .. 11, NEW l \in Trees, NEW n \in Place, GrowsBy(X, m, K, q, l, n)
      PROVE  <<q, l, n>> \in X
  <2>1. X \subseteq G
    OBVIOUS
  <2>2. GrowsBy(G, m, K, q, l, n)
    <3> HIDE DEF X
    <3> QED BY <1>1, <2>1, GrowsMore
  <2>3. <<q, l, n>> \in G
    BY <2>2, GrownIs
  <2> SUFFICES ASSUME l \in Exps[<<q, i, n>>] PROVE Accepts(m, i, K)
    BY <2>3
  <2>4. \A p \in 1 .. 11 : \A t, a : <<p, t, a>> \in X /\ t \in Exps[<<p, i, a>>] => Accepts(m, i, K)
    OBVIOUS
  <2> HIDE DEF X, G
  <2>5. CASE q = m /\ <<l, n>> \in K
    BY <2>5 DEF Accepts
  <2>6. CASE q > m /\ <<q - 1, l, n>> \in X
    <3>1. PICK p \in 1 .. 10 : p + 1 = q /\ q - 1 = p
      BY <2>6
    <3>2. l \in Exps[<<p, i, n>>]
      BY <3>1, UnitRow
    <3>3. QED
      BY <2>4, <2>6, <3>1, <3>2
  <2>7. ASSUME q \in 1 .. 9, input[n] \in Row[q], NEW a \in Place, NEW r \in Exps[<<q + 1, n + 1, a>>],
               <<q, Binop(input[n], l, r), a>> \in X
        PROVE  Accepts(m, i, K)
    <3>1. n + 1 \in Place
      <4>1. input[n] \in InfixOps
        BY <2>7, RowsAre
      <4>2. input[n] # "Eof"
        BY <4>1 DEF InfixOps, Level
      <4>3. QED
        BY <4>2 DEF EndsInEof, Place
    <3>2. Binop(input[n], l, r) \in Exps[<<q, i, a>>]
      BY <2>7, <3>1, BinaryMade
    <3>3. q \in 1 .. 11
      OBVIOUS
    <3>4. QED
      BY <2>4, <2>7, <3>2, <3>3
  <2>8. CASE q = 11 /\ input[n] = "Lbracket" /\ <<11, Unop("Lbracket", l), n + 1>> \in X
    <3>1. Unop("Lbracket", l) \in Exps[<<11, i, n + 1>>]
      BY <2>8, PostfixMade
    <3>2. 11 \in 1 .. 11
      OBVIOUS
    <3>3. QED
      BY <2>4, <2>8, <3>1, <3>2
  <2>9. QED
    BY <1>1, <2>5, <2>6, <2>7, <2>8 DEF GrowsBy
<1>2. X \in SUBSET Points
  BY DEF Grown
<1>3. <<k, e, j>> \in X
  <2>1. Closed(X, m, K)
    <3> HIDE DEF X
    <3> QED BY <1>1 DEF Closed
  <2>2. G \subseteq X
    <3> HIDE DEF X
    <3> QED BY <1>2, <2>1, GrownLeast
  <2>3. QED
    BY <2>2
<1>4. QED
  BY <1>3
LeafAt(G, i) ==
  input[i] \in DOMAIN LeafKind /\ <<11, Leaf(LeafKind[input[i]]), i + 1>> \in G

PrefixAt(G, i) ==
  /\ input[i] \in PrefixOps
  /\ \E j \in Place : \E x \in Exps[<<10, i + 1, j>>] : <<10, Unop(input[i], x), j>> \in G

ParenAt(G, i) ==
  /\ input[i] = "Lparen"
  /\ \E j \in Place : \E e \in Exps[<<1, i + 1, j>>] : input[j] = "Rparen" /\ <<11, e, j + 1>> \in G

NoArgsAt(G, i) == input[i + 2] = "Rparen" /\ <<11, CallTree(<<>>), i + 3>> \in G
ArgsAt(G, i) ==
  \E j \in Place : \E call \in Exps[<<0, i + 2, j>>] : input[j] = "Rparen" /\ <<11, call, j + 1>> \in G

CallAt(G, i) ==
  /\ input[i] = "Identifier" /\ input[i + 1] = "Lparen"
  /\ NoArgsAt(G, i) \/ ArgsAt(G, i)

OperandAt(G, i) == LeafAt(G, i) \/ PrefixAt(G, i) \/ ParenAt(G, i) \/ CallAt(G, i)

(* What an expression begins with is an operand.                           *)
LEMMA Complete ==
  ASSUME EndsInEof, NEW m \in 1 .. 10, NEW K, NEW i \in Place, Accepts(m, i, K)
  PROVE  OperandAt(Grown(m, K), i)
<1> DEFINE G == Grown(m, K)
           A == {x \in ExpSpans : x[1] \in m .. 11 /\ x[2] = i =>
                   \A e \in Exps[x] : <<x[1], e, x[3]>> \in G => OperandAt(G, i)}
<1>1. ASSUME NEW x \in ExpSpans, \A y \in ExpSpans : SpanRank[y] < SpanRank[x] => y \in A
      PROVE  x \in A
  <2> SUFFICES ASSUME x[1] \in m .. 11, x[2] = i, NEW e \in Exps[x], <<x[1], e, x[3]>> \in G
               PROVE  OperandAt(G, i)
    OBVIOUS
  <2>1. PICK k \in m .. 11, j \in Place : k = x[1] /\ j = x[3] /\ x = <<k, i, j>>
    BY SpansAre
  <2>2. k \in 0 .. 11 /\ (i >= j <=> ~ (i < j))
    BY DEF Place
  <2>3. i < j
    BY <2>1, <2>2, NoExpsOfNothing
  <2>4. ASSUME NEW q \in m .. 11, NEW b \in Place, Lower(q, i, b, k, i, j),
               NEW l \in Exps[<<q, i, b>>], <<q, l, b>> \in G
        PROVE  OperandAt(G, i)
    <3>1. q \in 0 .. 11
      OBVIOUS
    <3>2. SpanRank[<<q, i, b>>] < SpanRank[x] /\ <<q, i, b>> \in ExpSpans
      BY <2>1, <2>3, <2>4, <3>1, LowerRank, SpansAre
    <3>3. <<q, i, b>> \in A
      BY <1>1, <3>2
    <3>4. QED
      BY <2>4, <3>3
  <2> HIDE DEF A
  <2>5. e \in Trees
    BY <2>1, ExpsAre DEF Points, Grown
  <2>6. <<k, e, j>> \in G
    BY <2>1
  <2>7. CASE k \in 1 .. 9
    <3>1. BinaryIn(Exps, k, i, j, e)
      BY <2>1, <2>7, ExpsRows
    <3>2. CASE e \in Exps[<<k + 1, i, j>>]
      <4>1. k + 1 \in m .. 11 /\ k + 1 > m /\ (k + 1) - 1 = k
        BY <2>7
      <4>2. GrowsBy(G, m, K, k + 1, e, j)
        BY <2>6, <4>1 DEF GrowsBy
      <4>3. <<k + 1, e, j>> \in G
        BY <2>5, <4>1, <4>2, GrownIs
      <4>4. Lower(k + 1, i, j, k, i, j)
        BY DEF Lower, Place
      <4>5. QED
        BY <2>4, <3>2, <4>1, <4>3, <4>4
    <3>3. ASSUME NEW b \in i .. j - 1, NEW l \in Exps[<<k, i, b>>], NEW r \in Exps[<<k + 1, b + 1, j>>],
                 input[b] \in Row[k], e = Binop(input[b], l, r)
          PROVE  OperandAt(G, i)
      <4>1. b \in Place
        BY SpanPlaces
      <4>2. Exps[<<k, i, b>>] \subseteq Typed(k)
        BY <2>2, <4>1, ExpsAre
      <4>3. l \in Trees
        BY <2>7, <4>2 DEF Typed, ArgRow
      <4>4. GrowsBy(G, m, K, k, l, b)
        BY <2>6, <2>7, <3>3 DEF GrowsBy
      <4>5. <<k, l, b>> \in G
        BY <4>1, <4>3, <4>4, GrownIs
      <4>6. Lower(k, i, b, k, i, j)
        BY DEF Lower, Place
      <4>7. QED
        BY <2>4, <4>1, <4>5, <4>6
    <3>4. QED
      BY <3>1, <3>2, <3>3 DEF BinaryIn
  <2>8. CASE k = 10
    <3>1. PrefixIn(Exps, i, j, e)
      BY <2>1, <2>8, ExpsRows
    <3>2. CASE e \in Exps[<<PrimaryRow, i, j>>]
      <4>1. 11 \in m .. 11 /\ 11 > m /\ 11 - 1 = 10
        OBVIOUS
      <4>2. GrowsBy(G, m, K, 11, e, j)
        BY <2>6, <2>8, <4>1 DEF GrowsBy
      <4>3. <<11, e, j>> \in G
        BY <2>5, <4>1, <4>2, GrownIs
      <4>4. Lower(11, i, j, k, i, j)
        BY <2>8 DEF Lower, Place
      <4>5. QED
        BY <2>4, <3>2, <4>1, <4>3, <4>4 DEF PrimaryRow
    <3>3. ASSUME input[i] \in PrefixOps, NEW t \in Exps[<<PrefixRow, i + 1, j>>], e = Unop(input[i], t)
          PROVE  PrefixAt(G, i)
      BY <2>6, <2>8, <3>3 DEF PrefixAt, PrefixRow
    <3>4. QED
      BY <3>1, <3>2, <3>3 DEF PrefixIn, OperandAt
  <2>9. CASE k = 11
    <3>1. PrimaryIn(Exps, i, j, e)
      BY <2>1, <2>9, ExpsRows
    <3>2. CASE j = i + 1 /\ input[i] \in DOMAIN LeafKind /\ e = Leaf(LeafKind[input[i]])
      BY <2>6, <2>9, <3>2 DEF LeafAt, OperandAt
    <3>3. ASSUME input[j - 1] = "Lbracket", NEW t \in Exps[<<PrimaryRow, i, j - 1>>], e = Unop("Lbracket", t)
          PROVE  OperandAt(G, i)
      <4>1. j - 1 \in Place /\ (j - 1) + 1 = j
        BY <2>3, SpanPlaces DEF Place
      <4>2. Exps[<<11, i, j - 1>>] \subseteq Typed(11)
        BY <4>1, ExpsAre
      <4>3. t \in Trees
        BY <3>3, <4>2 DEF Typed, ArgRow, PrimaryRow
      <4>4. GrowsBy(G, m, K, 11, t, j - 1)
        BY <2>6, <2>9, <3>3, <4>1 DEF GrowsBy
      <4>5. 11 \in m .. 11
        OBVIOUS
      <4>6. <<11, t, j - 1>> \in G
        BY <4>1, <4>3, <4>4, <4>5, GrownIs
      <4>7. Lower(11, i, j - 1, k, i, j)
        BY DEF Lower, Place
      <4>8. QED
        BY <2>4, <3>3, <4>1, <4>5, <4>6, <4>7 DEF PrimaryRow
    <3>4. CASE input[i] = "Lparen" /\ input[j - 1] = "Rparen" /\ e \in Exps[<<1, i + 1, j - 1>>]
      <4>1. j - 1 \in Place /\ (j - 1) + 1 = j
        BY <2>3, SpanPlaces DEF Place
      <4>2. ParenAt(G, i)
        BY <2>6, <2>9, <3>4, <4>1 DEF ParenAt
      <4>3. QED
        BY <4>2 DEF OperandAt
    <3>5. CASE /\ input[i] = "Identifier" /\ input[i + 1] = "Lparen" /\ input[j - 1] = "Rparen"
               /\ IF j = i + 3 THEN e = CallTree(<<>>) ELSE e \in Exps[<<ArgRow, i + 2, j - 1>>]
      <4>1. j - 1 \in Place /\ (j - 1) + 1 = j
        BY <2>3, SpanPlaces DEF Place
      <4>2. CASE j = i + 3
        <5>1. j - 1 = i + 2
          BY <4>2 DEF Place
        <5>2. QED
          BY <2>6, <2>9, <3>5, <4>2, <5>1 DEF CallAt, NoArgsAt, OperandAt
      <4>3. CASE j # i + 3
        <5>1. ArgsAt(G, i)
          BY <2>6, <2>9, <3>5, <4>1, <4>3 DEF ArgsAt, ArgRow
        <5>2. QED
          BY <3>5, <5>1 DEF CallAt, OperandAt
      <4>4. QED
        BY <4>2, <4>3
    <3>6. QED
      BY <3>1, <3>2, <3>3, <3>4, <3>5 DEF PrimaryIn
  <2>10. QED
    BY <2>7, <2>8, <2>9
<1>2. PICK j \in Place, e \in Trees : e \in Exps[<<m, i, j>>] /\ <<e, j>> \in K
  <2>1. \A j \in Place : Exps[<<m, i, j>>] \subseteq Trees
    <3> TAKE j \in Place
    <3>1. Exps[<<m, i, j>>] \subseteq Typed(m)
      BY ExpsAre
    <3>2. QED
      BY <3>1 DEF Typed, ArgRow
  <2>2. QED
    BY <2>1 DEF Accepts
<1>3. <<m, e, j>> \in G
  <2>1. m \in m .. 11
    OBVIOUS
  <2>2. GrowsBy(G, m, K, m, e, j)
    BY <1>2 DEF GrowsBy
  <2>3. QED
    BY <2>1, <2>2, GrownIs
<1>4. <<m, i, j>> \in A
  <2>1. <<m, i, j>> \in ExpSpans
    BY SpansAre
  <2> HIDE DEF A
  <2>2. ExpSpans \subseteq A
    BY <1>1, LowerRank, RankInduction
  <2>3. QED
    BY <2>1, <2>2
<1>5. m \in m .. 11
  OBVIOUS
<1>6. QED
  BY <1>2, <1>3, <1>4, <1>5
LEMMA TokensPlace ==
  ASSUME EndsInEof, NEW i \in Place
  PROVE  /\ input[i] # "Eof" => i + 1 \in Place
         /\ input[i] \in TokenType
         /\ input[i] \in DOMAIN LeafKind \union PrefixOps \union InfixOps
                           \union {"Lparen", "Rparen", "Lbracket", "Comma"} => i + 1 \in Place
         /\ input[i] \notin (DOMAIN LeafKind \union PrefixOps \union {"Lparen"}) \intersect {"Rparen"}
<1>1. input[i] # "Eof" => i + 1 \in Place
  BY DEF EndsInEof, Place
<1>2. input[i] \in DOMAIN LeafKind \union PrefixOps \union InfixOps
                     \union {"Lparen", "Rparen", "Lbracket", "Comma"} => input[i] # "Eof"
  BY DEF LeafKind, PrefixOps, InfixOps, Level
<1>3. input[i] \in TokenType
  BY DEF EndsInEof, Place
<1>4. QED
  BY <1>1, <1>2, <1>3 DEF LeafKind, PrefixOps

LEMMA AtPrimary ==
  ASSUME EndsInEof, NEW m \in 1 .. 10, NEW K, NEW i \in Place, NEW j \in Place, i < j, NEW e,
         PrimaryIn(Exps, i, j, e), <<11, e, j>> \in Grown(m, K)
  PROVE  Accepts(m, i, K)
<1>1. e \in Exps[<<11, i, j>>]
  BY ExpsRows
<1>2. PICK t \in m .. 11 : t = 11
  OBVIOUS
<1>3. e \in Exps[<<t, i, j>>] /\ <<t, e, j>> \in Grown(m, K)
  BY <1>1, <1>2
<1>4. QED
  BY <1>3, Sound

LEMMA OperandMade ==
  ASSUME EndsInEof, NEW m \in 1 .. 10, NEW K, NEW i \in Place, OperandAt(Grown(m, K), i)
  PROVE  Accepts(m, i, K)
<1> DEFINE G == Grown(m, K)
<1>1. ASSUME NEW j \in Place, i + 1 \in Place, input[j] = "Rparen", i + 1 <= j
      PROVE  j + 1 \in Place /\ (j + 1) - 1 = j /\ i < j + 1
  BY <1>1, TokensPlace DEF Place
<1>2. CASE LeafAt(G, i)
  <2>1. i + 1 \in Place /\ i < i + 1
    BY <1>2, TokensPlace DEF LeafAt, Place
  <2>2. PrimaryIn(Exps, i, i + 1, Leaf(LeafKind[input[i]]))
    BY <1>2 DEF LeafAt, PrimaryIn
  <2>3. QED
    BY <1>2, <2>1, <2>2, AtPrimary DEF LeafAt
<1>3. CASE PrefixAt(G, i)
  <2>1. i + 1 \in Place
    BY <1>3, TokensPlace DEF PrefixAt
  <2>2. PICK j \in Place : \E x \in Exps[<<10, i + 1, j>>] : <<10, Unop(input[i], x), j>> \in G
    BY <1>3 DEF PrefixAt
  <2>3. PICK x \in Exps[<<10, i + 1, j>>] : <<10, Unop(input[i], x), j>> \in G
    BY <2>2
  <2>4. i + 1 < j
    <3>1. i + 1 >= j <=> ~ (i + 1 < j)
      BY DEF Place
    <3>2. 10 \in 0 .. 11
      OBVIOUS
    <3>3. QED
      BY <2>1, <3>1, <3>2, NoExpsOfNothing
  <2>5. i < j
    BY <2>4 DEF Place
  <2>6. PrefixIn(Exps, i, j, Unop(input[i], x))
    BY <1>3 DEF PrefixAt, PrefixIn, PrefixRow
  <2>7. Unop(input[i], x) \in Exps[<<10, i, j>>]
    BY <2>5, <2>6, ExpsRows
  <2>8. PICK t \in m .. 11 : t = 10
    OBVIOUS
  <2>9. Unop(input[i], x) \in Exps[<<t, i, j>>] /\ <<t, Unop(input[i], x), j>> \in G
    BY <2>3, <2>7, <2>8
  <2>10. QED
    BY <2>9, Sound
<1>4. CASE ParenAt(G, i)
  <2>1. i + 1 \in Place
    BY <1>4, TokensPlace DEF ParenAt
  <2>2. PICK j \in Place : \E e \in Exps[<<1, i + 1, j>>] : input[j] = "Rparen" /\ <<11, e, j + 1>> \in G
    BY <1>4 DEF ParenAt
  <2>3. PICK e \in Exps[<<1, i + 1, j>>] : input[j] = "Rparen" /\ <<11, e, j + 1>> \in G
    BY <2>2
  <2>4. i + 1 < j
    <3>1. i + 1 >= j <=> ~ (i + 1 < j)
      BY DEF Place
    <3>2. 1 \in 0 .. 11
      OBVIOUS
    <3>3. QED
      BY <2>1, <3>1, <3>2, NoExpsOfNothing
  <2>5. j + 1 \in Place /\ (j + 1) - 1 = j /\ i < j + 1
    BY <1>1, <2>1, <2>3, <2>4 DEF Place
  <2>6. PrimaryIn(Exps, i, j + 1, e)
    BY <1>4, <2>3, <2>5 DEF ParenAt, PrimaryIn
  <2>7. QED
    BY <2>3, <2>5, <2>6, AtPrimary
<1>5. CASE CallAt(G, i)
  <2>1. input[i] = "Identifier" /\ input[i + 1] = "Lparen"
    BY <1>5 DEF CallAt
  <2>2. Stands(i, CallHead) /\ i + 2 \in Place /\ i + 1 \in Place
    BY <2>1, StandsAre, TokensPlace DEF LeafKind
  <2>3. CASE NoArgsAt(G, i)
    <3>1. i + 3 \in Place /\ (i + 3) - 1 = i + 2 /\ i < i + 3
      <4>1. (i + 2) + 1 \in Place
        BY <2>2, <2>3, TokensPlace DEF NoArgsAt
      <4>2. QED
        BY <4>1 DEF Place
    <3>2. PrimaryIn(Exps, i, i + 3, CallTree(<<>>))
      BY <2>1, <2>3, <3>1 DEF NoArgsAt, PrimaryIn
    <3>3. QED
      BY <2>3, <3>1, <3>2, AtPrimary DEF NoArgsAt
  <2>4. CASE ArgsAt(G, i)
    <3>1. PICK j \in Place : \E e \in Exps[<<0, i + 2, j>>] : input[j] = "Rparen" /\ <<11, e, j + 1>> \in G
      BY <2>4 DEF ArgsAt
    <3>2. PICK e \in Exps[<<0, i + 2, j>>] : input[j] = "Rparen" /\ <<11, e, j + 1>> \in G
      BY <3>1
    <3>3. i + 2 < j
      <4>1. i + 2 >= j <=> ~ (i + 2 < j)
        BY DEF Place
      <4>2. 0 \in 0 .. 11
        OBVIOUS
      <4>3. QED
        BY <2>2, <4>1, <4>2, NoExpsOfNothing
    <3>4. j + 1 \in Place /\ (j + 1) - 1 = j /\ i < j + 1 /\ ~ (j + 1 = i + 3)
      BY <1>1, <2>2, <3>2, <3>3 DEF Place
    <3>5. PrimaryIn(Exps, i, j + 1, e)
      BY <2>1, <3>2, <3>4 DEF PrimaryIn, ArgRow
    <3>6. QED
      BY <3>2, <3>4, <3>5, AtPrimary
  <2>5. QED
    BY <1>5, <2>3, <2>4 DEF CallAt
<1>6. QED
  BY <1>2, <1>3, <1>4, <1>5 DEF OperandAt

LEMMA OperandIs ==
  ASSUME EndsInEof, NEW m \in 1 .. 10, NEW K, NEW i \in Place
  PROVE  Accepts(m, i, K) <=> OperandAt(Grown(m, K), i)
  BY Complete, OperandMade

(* No argument list begins with a parenthesis that closes.                 *)
LEMMA NoArgHere ==
  ASSUME EndsInEof, NEW i \in Place, NEW j \in Place,
         input[i] \notin DOMAIN LeafKind \union PrefixOps \union {"Lparen"}
  PROVE  Exps[<<0, i, j>>] = {} /\ Exps[<<1, i, j>>] = {}
<1> DEFINE K == Trees \X Place
<1>1. ASSUME NEW n \in Place PROVE Exps[<<1, i, n>>] = {}
  <2>1. ~ OperandAt(Grown(1, K), i)
    <3>1. "Identifier" \in DOMAIN LeafKind
      BY DEF LeafKind
    <3>2. QED
      BY <3>1 DEF OperandAt, LeafAt, PrefixAt, ParenAt, CallAt
  <2>2. ~ Accepts(1, i, K)
    <3>1. 1 \in 1 .. 10
      OBVIOUS
    <3>2. QED
      BY <2>1, <3>1, Complete
  <2>3. Exps[<<1, i, n>>] \subseteq Trees
    BY WholeAre DEF WholeExps
  <2>4. QED
    BY <2>2, <2>3 DEF Accepts
<1>2. ASSUME NEW c \in Exps[<<0, i, j>>] PROVE FALSE
  <2>1. ArgIn(Exps, i, j, c)
    BY <1>2, ExpsRows
  <2>2. \A n \in i .. j - 1 : n \in Place
    BY SpanPlaces
  <2>3. QED
    BY <1>1, <2>1, <2>2 DEF ArgIn
<1>3. QED
  BY <1>1, <1>2
-----------------------------------------------------------------------------
(* The operand, by its first token.                                        *)
LEMMA StartsAre ==
  /\ \A t \in DOMAIN LeafKind : t \notin PrefixOps /\ t # "Lparen"
  /\ \A t \in PrefixOps : t # "Lparen" /\ t # "Identifier" /\ t \in TokenType /\ t # "Eof"
  /\ "Identifier" \in DOMAIN LeafKind /\ "Lparen" \notin DOMAIN LeafKind
  /\ "Lparen" # "Identifier" /\ "Rparen" \notin DOMAIN LeafKind \union PrefixOps \union {"Lparen"}
  BY DEF LeafKind, PrefixOps, TokenType

LEMMA LeafOperand ==
  ASSUME EndsInEof, NEW m \in 1 .. 10, NEW K, Refuses(K, m), NEW i \in Place,
         input[i] \in DOMAIN LeafKind, ~ (input[i] = "Identifier" /\ input[i + 1] = "Lparen")
  PROVE  Accepts(m, i, K) <=> <<11, Leaf(LeafKind[input[i]]), i + 1>> \in Grown(m, K)
  BY OperandIs, StartsAre DEF OperandAt, LeafAt, PrefixAt, ParenAt, CallAt

LEMMA PrefixOperand ==
  ASSUME EndsInEof, NEW m \in 1 .. 10, NEW K, Refuses(K, m), NEW i \in Place, input[i] \in PrefixOps
  PROVE  /\ Accepts(m, i, K) <=> Accepts(10, i + 1, AfterPrefix(m, K, input[i]))
         /\ Refuses(AfterPrefix(m, K, input[i]), 10)
<1> DEFINE G == Grown(m, K)
           S == AfterPrefix(m, K, input[i])
<1>1. Accepts(m, i, K) <=> PrefixAt(G, i)
  BY OperandIs, StartsAre DEF OperandAt, LeafAt, ParenAt, CallAt
<1>2. i + 1 \in Place
  BY TokensPlace
<1>3. ASSUME NEW j \in Place, NEW x \in Exps[<<10, i + 1, j>>]
      PROVE  <<x, j>> \in S <=> <<10, Unop(input[i], x), j>> \in G
  <2>1. Exps[<<10, i + 1, j>>] \subseteq Typed(10)
    BY <1>2, ExpsAre
  <2>2. x \in Trees
    BY <2>1 DEF Typed, ArgRow
  <2>3. QED
    BY <2>2 DEF AfterPrefix
<1>4. Accepts(10, i + 1, S) <=> PrefixAt(G, i)
  BY <1>3 DEF Accepts, PrefixAt
<1>5. Refuses(S, 10)
  <2> SUFFICES ASSUME NEW j \in Place, NEW e \in Trees, <<e, j>> \in S
               PROVE  /\ input[j] # "Lbracket" /\ input[j] # "Lparen"
                      /\ \A p \in 10 .. 9 : input[j] \notin Row[p]
    BY DEF Refuses
  <2>1. PICK t \in m .. 11 : t = 10 /\ t < 11
    OBVIOUS
  <2>2. <<t, Unop(input[i], e), j>> \in G
    BY <2>1 DEF AfterPrefix
  <2>3. Unop(input[i], e) \in Trees
    BY StartsAre, TreesAre
  <2>4. input[j] # "Lbracket" /\ input[j] # "Lparen"
    BY <2>1, <2>2, <2>3, GrownRefuses
  <2>5. QED
    BY <2>4
<1>6. QED
  BY <1>1, <1>4, <1>5

LEMMA ParenOperand ==
  ASSUME EndsInEof, NEW m \in 1 .. 10, NEW K, NEW i \in Place, input[i] = "Lparen"
  PROVE  /\ Accepts(m, i, K) <=> Accepts(1, i + 1, AfterParen(m, K))
         /\ Refuses(AfterParen(m, K), 1)
<1> DEFINE G == Grown(m, K)
           S == AfterParen(m, K)
<1>1. Accepts(m, i, K) <=> ParenAt(G, i)
  BY OperandIs, StartsAre DEF OperandAt, LeafAt, PrefixAt, CallAt
<1>2. i + 1 \in Place
  BY TokensPlace
<1>3. ASSUME NEW j \in Place, NEW x \in Exps[<<1, i + 1, j>>]
      PROVE  <<x, j>> \in S <=> input[j] = "Rparen" /\ <<11, x, j + 1>> \in G
  <2>1. x \in Trees
    BY <1>2, WholeAre DEF WholeExps
  <2>2. QED
    BY <2>1 DEF AfterParen
<1>4. Accepts(1, i + 1, S) <=> ParenAt(G, i)
  BY <1>3 DEF Accepts, ParenAt
<1>5. Refuses(S, 1)
  <2>1. \A k \in 1 .. 9 : "Rparen" \notin Row[k]
    <3>1. "Rparen" \notin InfixOps
      BY DEF InfixOps, Level
    <3>2. QED
      BY <3>1, RowsAre
  <2>2. QED
    BY <2>1 DEF Refuses, AfterParen
<1>6. QED
  BY <1>1, <1>4, <1>5

-----------------------------------------------------------------------------
LEMMA ArgsFromFirst ==
  ASSUME EndsInEof, NEW Z, NEW args \in Seq(Trees), NEW i \in Place
  PROVE  ArgsAccepted(Z, args, i) <=> Accepts(1, i, AfterArg(Z, args))
<1>1. ASSUME NEW e \in Trees PROVE args \o <<e>> = Append(args, e)
  OBVIOUS
<1>2. ASSUME NEW e \in Trees, NEW rest \in Seq(Trees)
      PROVE  args \o (<<e>> \o rest) = Append(args, e) \o rest
  OBVIOUS
<1>3. ASSUME NEW j \in Place, NEW e \in Exps[<<1, i, j>>] PROVE e \in Trees
  BY WholeAre DEF WholeExps
<1>4. ASSUME NEW j \in Place, NEW c \in Exps[<<0, i, j>>], <<args \o c.args, j>> \in Z
      PROVE  Accepts(1, i, AfterArg(Z, args))
  <2>1. ArgIn(Exps, i, j, c)
    BY ExpsRows
  <2>2. ASSUME NEW x \in Exps[<<1, i, j>>], c = CallTree(<<x>>)
        PROVE  Accepts(1, i, AfterArg(Z, args))
    <3>1. x \in Trees
      BY <1>3
    <3>2. c.args = <<x>>
      BY <2>2 DEF CallTree
    <3>3. <<x, j>> \in AfterArg(Z, args)
      BY <1>1, <1>4, <3>1, <3>2 DEF AfterArg
    <3>4. QED
      BY <3>3 DEF Accepts
  <2>3. ASSUME NEW m \in i .. j - 1, NEW x \in Exps[<<1, i, m>>], NEW rest \in Exps[<<ArgRow, m + 1, j>>],
               input[m] = "Comma", c = CallTree(<<x>> \o rest.args)
        PROVE  Accepts(1, i, AfterArg(Z, args))
    <3>1. m \in Place /\ m + 1 \in Place
      BY SpanPlaces
    <3>2. x \in Trees /\ rest.args \in Seq(Trees)
      BY <1>3, <3>1, ArgsAre
    <3>3. c.args = <<x>> \o rest.args
      BY <2>3 DEF CallTree
    <3>4. <<Append(args, x) \o rest.args, j>> \in Z
      BY <1>2, <1>4, <3>2, <3>3
    <3>5. ArgsAccepted(Z, Append(args, x), m + 1)
      BY <3>4 DEF ArgsAccepted, ArgRow
    <3>6. <<x, m>> \in AfterArg(Z, args)
      BY <2>3, <3>1, <3>2, <3>5 DEF AfterArg
    <3>7. QED
      BY <3>1, <3>6 DEF Accepts
  <2>4. QED
    BY <2>1, <2>2, <2>3 DEF ArgIn
<1>5. ASSUME NEW p \in Place, NEW x \in Exps[<<1, i, p>>], <<x, p>> \in AfterArg(Z, args)
      PROVE  ArgsAccepted(Z, args, i)
  <2>1. x \in Trees
    BY <1>3
  <2>2. i < p
    <3>1. i >= p <=> ~ (i < p)
      BY DEF Place
    <3>2. 1 \in 0 .. 11
      OBVIOUS
    <3>3. QED
      BY <3>1, <3>2, NoExpsOfNothing
  <2>3. CASE <<Append(args, x), p>> \in Z
    <3>1. ArgIn(Exps, i, p, CallTree(<<x>>))
      BY DEF ArgIn
    <3>2. CallTree(<<x>>) \in Exps[<<0, i, p>>]
      BY <2>2, <3>1, ExpsRows
    <3>3. CallTree(<<x>>).args = <<x>>
      BY DEF CallTree
    <3>4. <<args \o <<x>>, p>> \in Z
      BY <1>1, <2>1, <2>3
    <3>5. QED
      BY <3>2, <3>3, <3>4 DEF ArgsAccepted
  <2>4. CASE input[p] = "Comma" /\ ArgsAccepted(Z, Append(args, x), p + 1)
    <3>1. p + 1 \in Place
      BY <2>4, TokensPlace
    <3>2. PICK j \in Place : \E c \in Exps[<<0, p + 1, j>>] : <<Append(args, x) \o c.args, j>> \in Z
      BY <2>4 DEF ArgsAccepted
    <3>3. PICK c \in Exps[<<0, p + 1, j>>] : <<Append(args, x) \o c.args, j>> \in Z
      BY <3>2
    <3>4. p + 1 < j
      <4>1. p + 1 >= j <=> ~ (p + 1 < j)
        BY DEF Place
      <4>2. 0 \in 0 .. 11
        OBVIOUS
      <4>3. QED
        BY <3>1, <4>1, <4>2, NoExpsOfNothing
    <3>5. p \in i .. j - 1 /\ i < j
      BY <2>2, <3>4 DEF Place
    <3>6. c.args \in Seq(Trees)
      BY <3>1, <3>3, ArgsAre DEF ArgRow
    <3> DEFINE call == CallTree(<<x>> \o c.args)
    <3>7. ArgIn(Exps, i, j, call)
      BY <2>4, <3>5 DEF ArgIn, ArgRow
    <3>8. call \in Exps[<<0, i, j>>]
      BY <3>5, <3>7, ExpsRows
    <3>9. call.args = <<x>> \o c.args
      BY DEF CallTree
    <3> HIDE DEF call
    <3>10. <<args \o call.args, j>> \in Z
      BY <1>2, <2>1, <3>3, <3>6, <3>9
    <3>11. QED
      BY <3>8, <3>10 DEF ArgsAccepted
  <2>5. QED
    BY <1>5, <2>3, <2>4 DEF AfterArg
<1>6. QED
  BY <1>4, <1>5 DEF ArgsAccepted, Accepts

(* What ends argument lists is a parenthesis, and a comma goes on.         *)
LEMMA AfterArgRefuses ==
  ASSUME NEW Z, \A s, j : <<s, j>> \in Z => input[j] = "Rparen", NEW args
  PROVE  Refuses(AfterArg(Z, args), 1)
<1>1. \A k \in 1 .. 9 : "Rparen" \notin Row[k] /\ "Comma" \notin Row[k]
  <2>1. "Rparen" \notin InfixOps /\ "Comma" \notin InfixOps
    BY DEF InfixOps, Level
  <2>2. QED
    BY <2>1, RowsAre
<1>2. ASSUME NEW i \in Place, NEW e \in Trees, <<e, i>> \in AfterArg(Z, args)
      PROVE  input[i] \in {"Rparen", "Comma"}
  BY <1>2 DEF AfterArg
<1>3. QED
  BY <1>1, <1>2 DEF Refuses

LEMMA CallOperand ==
  ASSUME EndsInEof, NEW m \in 1 .. 10, NEW K, Refuses(K, m), NEW i \in Place,
         input[i] = "Identifier", input[i + 1] = "Lparen"
  PROVE  /\ i + 2 \in Place
         /\ input[i + 2] = "Rparen" =>
              (Accepts(m, i, K) <=> <<11, CallTree(<<>>), i + 3>> \in Grown(m, K))
         /\ input[i + 2] # "Rparen" =>
              (Accepts(m, i, K) <=> Accepts(1, i + 2, AfterArg(EndsCall(m, K), <<>>)))
         /\ \A args : Refuses(AfterArg(EndsCall(m, K), args), 1)
<1> DEFINE G == Grown(m, K)
           Z == EndsCall(m, K)
<1>1. i + 2 \in Place /\ i + 1 \in Place
  BY StandsAre, TokensPlace, StartsAre
<1>2. ~ LeafAt(G, i)
  <2>1. PICK t \in m .. 11 : t = 11
    OBVIOUS
  <2>2. <<t, Leaf(LeafKind[input[i]]), i + 1>> \notin G
    BY <1>1, StartsAre, TreesAre, GrownRefuses
  <2>3. QED
    BY <2>1, <2>2 DEF LeafAt
<1>3. Accepts(m, i, K) <=> NoArgsAt(G, i) \/ ArgsAt(G, i)
  BY <1>2, OperandIs, StartsAre DEF OperandAt, PrefixAt, ParenAt, CallAt
<1>4. input[i + 2] = "Rparen" => ~ ArgsAt(G, i)
  BY <1>1, NoArgHere, StartsAre DEF ArgsAt
<1>5. ASSUME NEW j \in Place, NEW c \in Exps[<<0, i + 2, j>>]
      PROVE  <<<<>> \o c.args, j>> \in Z <=> input[j] = "Rparen" /\ <<11, c, j + 1>> \in G
  <2>1. c.args \in Seq(Trees) /\ c = CallTree(c.args)
    BY <1>1, ArgsAre DEF ArgRow
  <2>2. <<>> \o c.args = c.args
    BY <2>1
  <2>3. <<c.args, j>> \in Z <=> input[j] = "Rparen" /\ <<11, CallTree(c.args), j + 1>> \in G
    BY <2>1 DEF EndsCall
  <2>4. QED
    BY <2>1, <2>2, <2>3
<1>6. ArgsAt(G, i) <=> ArgsAccepted(Z, <<>>, i + 2)
  BY <1>5 DEF ArgsAt, ArgsAccepted
<1>7. ArgsAccepted(Z, <<>>, i + 2) <=> Accepts(1, i + 2, AfterArg(Z, <<>>))
  <2>1. <<>> \in Seq(Trees)
    OBVIOUS
  <2>2. QED
    BY <1>1, <2>1, ArgsFromFirst
<1>8. ASSUME NEW args PROVE Refuses(AfterArg(Z, args), 1)
  <2>1. \A s, j : <<s, j>> \in Z => input[j] = "Rparen"
    BY DEF EndsCall
  <2>2. QED
    BY <2>1, AfterArgRefuses
<1>9. QED
  BY <1>1, <1>3, <1>4, <1>6, <1>7, <1>8 DEF NoArgsAt

-----------------------------------------------------------------------------
(* The loop over a list of statements.                                     *)
LEMMA GainsAre ==
  ASSUME NEW f \in ListFrames
  PROVE  /\ WithList(f, <<>>) = f
         /\ \A s \in Trees : Gains(f, s) \in ListFrames
         /\ \A l \in Seq(Trees) : WithList(f, l) \in ListFrames
         /\ \A s \in Trees, l \in Seq(Trees) : WithList(Gains(f, s), l) = WithList(f, <<s>> \o l)
         /\ \A s : /\ Gains(f, s).kind = f.kind /\ Gains(f, s).at = f.at
                  /\ WithList(f, s).kind = f.kind /\ WithList(f, s).in = f.in
<1> DEFINE n == f.in
           L == f.lists
<1>1. f \in StmtFrames /\ n \in 1 .. Len(L) /\ L \in Seq(Seq(Trees)) /\ L[n] \in Seq(Trees)
  BY DEF ListFrames, StmtFrames
<1>2. /\ \A s : Gains(f, s) = [f EXCEPT !.lists = [L EXCEPT ![n] = Append(@, s)]]
      /\ \A l : WithList(f, l) = [f EXCEPT !.lists = [L EXCEPT ![n] = @ \o l]]
  BY DEF Gains, WithList
<1>3. \A M \in Seq(Seq(Trees)) : [f EXCEPT !.lists = M] \in StmtFrames
  BY <1>1 DEF StmtFrames
<1>4. \A x \in Seq(Trees) : LET M == [L EXCEPT ![n] = x]
                            IN  M \in Seq(Seq(Trees)) /\ Len(M) = Len(L) /\ M[n] = x
  <2> PICK S : S = Seq(Trees)
    OBVIOUS
  <2> SUFFICES ASSUME NEW x \in S
               PROVE  LET M == [L EXCEPT ![n] = x] IN M \in Seq(S) /\ Len(M) = Len(L) /\ M[n] = x
    OBVIOUS
  <2> QED BY <1>1, ExceptSeq
<1>5. ASSUME NEW x \in Seq(Trees) PROVE [f EXCEPT !.lists = [L EXCEPT ![n] = x]] \in ListFrames
  BY <1>1, <1>3, <1>4 DEF ListFrames, StmtFrames
<1>6. WithList(f, <<>>) = f
  <2>1. L[n] \o <<>> = L[n]
    BY <1>1
  <2>2. [L EXCEPT ![n] = L[n] \o <<>>] = L
    BY <1>1, <2>1
  <2>3. [f EXCEPT !.lists = L] = f
    BY <1>1 DEF StmtFrames
  <2>4. QED
    BY <1>2, <2>2, <2>3
<1>7. ASSUME NEW s \in Trees PROVE Gains(f, s) \in ListFrames
  <2>1. Append(L[n], s) \in Seq(Trees)
    BY <1>1
  <2>2. QED
    BY <1>2, <1>5, <2>1
<1>8. ASSUME NEW l \in Seq(Trees) PROVE WithList(f, l) \in ListFrames
  <2>1. L[n] \o l \in Seq(Trees)
    BY <1>1
  <2>2. QED
    BY <1>2, <1>5, <2>1
<1>9. ASSUME NEW s \in Trees, NEW l \in Seq(Trees)
      PROVE  WithList(Gains(f, s), l) = WithList(f, <<s>> \o l)
  <2> DEFINE g == Gains(f, s)
  <2>1. g.in = n /\ g.lists = [L EXCEPT ![n] = Append(L[n], s)]
    <3>1. \A M : [f EXCEPT !.lists = M].in = n /\ [f EXCEPT !.lists = M].lists = M
      BY <1>1 DEF StmtFrames
    <3>2. QED
      BY <1>2, <3>1
  <2>2. Append(L[n], s) \o l = L[n] \o (<<s>> \o l)
    <3>1. \A a \in Seq(Trees) : Append(a, s) \o l = a \o (<<s>> \o l)
      OBVIOUS
    <3>2. QED
      BY <1>1, <3>1
  <2>3. g.lists[n] = Append(L[n], s)
    BY <1>1, <2>1
  <2>4. [g.lists EXCEPT ![n] = g.lists[n] \o l] = [L EXCEPT ![n] = L[n] \o (<<s>> \o l)]
    BY <2>1, <2>2, <2>3
  <2>5. WithList(g, l) = [g EXCEPT !.lists = [g.lists EXCEPT ![g.in] = g.lists[g.in] \o l]]
    BY DEF WithList
  <2>6. WithList(g, l) = [g EXCEPT !.lists = [L EXCEPT ![n] = L[n] \o (<<s>> \o l)]]
    BY <2>1, <2>4, <2>5
  <2>7. g = [f EXCEPT !.lists = [L EXCEPT ![n] = Append(L[n], s)]]
    BY <1>2
  <2>8. \A M, N : [[f EXCEPT !.lists = M] EXCEPT !.lists = N] = [f EXCEPT !.lists = N]
    BY <1>1 DEF StmtFrames
  <2>9. QED
    BY <1>2, <2>6, <2>7, <2>8
<1>10. ASSUME NEW s
       PROVE  /\ Gains(f, s).kind = f.kind /\ Gains(f, s).at = f.at
              /\ WithList(f, s).kind = f.kind /\ WithList(f, s).in = f.in
  <2>1. \A M : LET g == [f EXCEPT !.lists = M] IN g.kind = f.kind /\ g.at = f.at /\ g.in = f.in
    BY <1>1 DEF StmtFrames
  <2>2. PICK M : Gains(f, s) = [f EXCEPT !.lists = M]
    BY <1>2
  <2>3. PICK N : WithList(f, s) = [f EXCEPT !.lists = N]
    BY <1>2
  <2>4. QED
    BY <2>1, <2>2, <2>3
<1>11. QED
  BY <1>6, <1>7, <1>8, <1>9, <1>10

StmtAccepts(i, K) == \E j \in Place : i < j /\ \E s \in Stmts(StmtLists, i, j) : <<s, j>> \in K

LEMMA StmtsAre ==
  ASSUME EndsInEof, NEW i \in Place, NEW j \in Place, i < j, NEW s \in Stmts(StmtLists, i, j)
  PROVE  s \in Trees /\ input[j - 1] \in {"Semicolon", "Rcurl"}
<1>1. GivesLists(StmtLists, i, j)
  BY ListsAre DEF GivesLists
<1>2. s \in Trees
  BY <1>1, StmtsTyped
<1>3. SimpleIn(i, j, s) \/ BlockIn(StmtLists, i, j, s)
  BY SimpleIs, BlockIs DEF Stmts
<1>4. QED
  BY <1>2, <1>3 DEF SimpleIn, BlockIn

LEMMA ListStep ==
  ASSUME EndsInEof, NEW f \in ListFrames, NEW K, NEW i \in Place
  PROVE  ListAccepts(f, K, i) <=> Closes(f, K, i) \/ StmtAccepts(i, AfterStmt(f, K))
<1>1. ASSUME NEW j \in Place, NEW l
      PROVE  l \in StmtLists[<<i, j>>] <=> ListIn(StmtLists, i, j, l)
  BY ListsAre, ListIs
<1>2. ASSUME NEW j \in Place, NEW l \in StmtLists[<<i, j>>], Closes(WithList(f, l), K, j)
      PROVE  Closes(f, K, i) \/ StmtAccepts(i, AfterStmt(f, K))
  <2>1. ListIn(StmtLists, i, j, l)
    BY <1>1
  <2>2. CASE i = j /\ l = <<>>
    BY <1>2, <2>2, GainsAre
  <2>3. ASSUME NEW m \in i .. j - 1, NEW s \in Stmts(StmtLists, i, m + 1),
               NEW rest \in StmtLists[<<m + 1, j>>], l = <<s>> \o rest
        PROVE  StmtAccepts(i, AfterStmt(f, K))
    <3>1. m + 1 \in Place /\ i < m + 1
      BY SpanPlaces DEF Place
    <3>2. s \in Trees /\ rest \in Seq(Trees)
      BY <3>1, StmtsAre, ListsAre
    <3>3. Closes(WithList(Gains(f, s), rest), K, j)
      BY <1>2, <2>3, <3>2, GainsAre
    <3>4. ListAccepts(Gains(f, s), K, m + 1)
      BY <3>3 DEF ListAccepts
    <3>5. <<s, m + 1>> \in AfterStmt(f, K)
      BY <3>1, <3>2, <3>4 DEF AfterStmt
    <3>6. QED
      BY <3>1, <3>5 DEF StmtAccepts
  <2>4. QED
    BY <2>1, <2>2, <2>3 DEF ListIn
<1>3. ASSUME Closes(f, K, i) PROVE ListAccepts(f, K, i)
  <2>1. <<>> \in StmtLists[<<i, i>>]
    BY <1>1 DEF ListIn
  <2>2. QED
    BY <1>3, <2>1, GainsAre DEF ListAccepts
<1>4. ASSUME NEW a \in Place, i < a, NEW s \in Stmts(StmtLists, i, a), <<s, a>> \in AfterStmt(f, K)
      PROVE  ListAccepts(f, K, i)
  <2>1. s \in Trees /\ input[a - 1] \in {"Semicolon", "Rcurl"}
    BY <1>4, StmtsAre
  <2>2. ListAccepts(Gains(f, s), K, a)
    BY <1>4 DEF AfterStmt
  <2>3. PICK j \in Place : \E l \in StmtLists[<<a, j>>] : Closes(WithList(Gains(f, s), l), K, j)
    BY <2>2 DEF ListAccepts
  <2>4. PICK l \in StmtLists[<<a, j>>] : Closes(WithList(Gains(f, s), l), K, j)
    BY <2>3
  <2>5. l \in Seq(Trees)
    BY ListsAre
  <2>6. a <= j
    <3>1. j < a => StmtLists[<<a, j>>] = {}
      BY ListsAre, NoListsBackwards
    <3>2. QED
      BY <3>1 DEF Place
  <2>7. PICK m \in i .. j - 1 : m + 1 = a /\ a - 1 = m
    <3>1. a - 1 \in i .. j - 1 /\ (a - 1) + 1 = a
      BY <1>4, <2>6 DEF Place
    <3>2. QED
      BY <3>1
  <2>8. i # j
    BY <2>7 DEF Place
  <2>9. ListIn(StmtLists, i, j, <<s>> \o l)
    BY <2>1, <2>7, <2>8 DEF ListIn
  <2>10. Closes(WithList(f, <<s>> \o l), K, j)
    BY <2>1, <2>4, <2>5, GainsAre
  <2>11. QED
    BY <1>1, <2>9, <2>10 DEF ListAccepts
<1>5. QED
  BY <1>2, <1>3, <1>4 DEF ListAccepts, StmtAccepts
-----------------------------------------------------------------------------
(* A statement, by its first token.                                        *)
SimpleStart == {"KeywordVar", "KeywordReturn", "Identifier"}

LEMMA NoEofThere ==
  ASSUME EndsInEof, NEW i \in Place, input[i] \in {"Semicolon", "Rcurl", "Assign", "Lcurl", "Comma", "Rparen"}
  PROVE  i + 1 \in Place /\ (i + 1) - 1 = i
  BY DEF EndsInEof, Place

LEMMA SimpleOrBlock ==
  ASSUME EndsInEof, NEW i \in Place, NEW K
  PROVE  /\ StmtAccepts(i, K) => input[i] \in StmtStart
         /\ input[i] \in SimpleStart =>
              (StmtAccepts(i, K) <=>
                 \E p \in Place : /\ i <= p /\ input[p] = "Semicolon"
                                  /\ \E s : SimpleIn(i, p + 1, s) /\ <<s, p + 1>> \in K)
         /\ input[i] \notin SimpleStart =>
              (StmtAccepts(i, K) <=>
                 \E p \in Place : /\ i <= p /\ input[p] = "Rcurl"
                                  /\ \E s : BlockIn(StmtLists, i, p + 1, s) /\ <<s, p + 1>> \in K)
<1>1. ASSUME NEW j \in Place, NEW s, SimpleIn(i, j, s) PROVE input[i] \in SimpleStart
  BY <1>1, StandsAre DEF SimpleIn, SimpleStart
<1>2. ASSUME NEW j \in Place, NEW s, BlockIn(StmtLists, i, j, s)
      PROVE  input[i] \in StmtStart \ SimpleStart
  BY <1>2, StandsAre DEF BlockIn, SimpleStart, StmtStart
<1>3. SimpleStart \subseteq StmtStart
  BY DEF SimpleStart, StmtStart
<1>4. \A j \in Place : \A s : s \in Stmts(StmtLists, i, j) <=> SimpleIn(i, j, s) \/ BlockIn(StmtLists, i, j, s)
  BY SimpleIs, BlockIs DEF Stmts
<1>5. \A j \in Place : i < j => j - 1 \in Place /\ i <= j - 1 /\ (j - 1) + 1 = j
  BY DEF Place
<1>6. \A p \in Place : i <= p => i < p + 1
  BY DEF Place
<1>7. \A p \in Place : input[p] = "Semicolon" \/ input[p] = "Rcurl" => p + 1 \in Place
  BY NoEofThere
<1>8. StmtAccepts(i, K) <=>
        \E j \in Place : i < j /\ \E s : /\ SimpleIn(i, j, s) \/ BlockIn(StmtLists, i, j, s)
                                         /\ <<s, j>> \in K
  BY <1>4 DEF StmtAccepts
<1>9. input[i] \in SimpleStart =>
        (StmtAccepts(i, K) <=>
           \E p \in Place : /\ i <= p /\ input[p] = "Semicolon"
                            /\ \E s : SimpleIn(i, p + 1, s) /\ <<s, p + 1>> \in K)
  <2> SUFFICES ASSUME input[i] \in SimpleStart
               PROVE  StmtAccepts(i, K) <=>
                        \E p \in Place : /\ i <= p /\ input[p] = "Semicolon"
                                         /\ \E s : SimpleIn(i, p + 1, s) /\ <<s, p + 1>> \in K
    OBVIOUS
  <2>1. ASSUME NEW j \in Place, i < j, NEW s, SimpleIn(i, j, s), <<s, j>> \in K
        PROVE  \E p \in Place : /\ i <= p /\ input[p] = "Semicolon"
                                /\ \E t : SimpleIn(i, p + 1, t) /\ <<t, p + 1>> \in K
    <3>1. input[j - 1] = "Semicolon"
      BY <2>1 DEF SimpleIn
    <3>2. QED
      BY <1>5, <2>1, <3>1
  <2>2. ASSUME NEW p \in Place, i <= p, input[p] = "Semicolon", NEW s, SimpleIn(i, p + 1, s),
               <<s, p + 1>> \in K
        PROVE  StmtAccepts(i, K)
    BY <1>6, <1>7, <1>8, <2>2
  <2>3. QED
    BY <1>2, <1>8, <2>1, <2>2
<1>10. input[i] \notin SimpleStart =>
        (StmtAccepts(i, K) <=>
           \E p \in Place : /\ i <= p /\ input[p] = "Rcurl"
                            /\ \E s : BlockIn(StmtLists, i, p + 1, s) /\ <<s, p + 1>> \in K)
  <2> SUFFICES ASSUME input[i] \notin SimpleStart
               PROVE  StmtAccepts(i, K) <=>
                        \E p \in Place : /\ i <= p /\ input[p] = "Rcurl"
                                         /\ \E s : BlockIn(StmtLists, i, p + 1, s) /\ <<s, p + 1>> \in K
    OBVIOUS
  <2>1. ASSUME NEW j \in Place, i < j, NEW s, BlockIn(StmtLists, i, j, s), <<s, j>> \in K
        PROVE  \E p \in Place : /\ i <= p /\ input[p] = "Rcurl"
                                /\ \E t : BlockIn(StmtLists, i, p + 1, t) /\ <<t, p + 1>> \in K
    <3>1. input[j - 1] = "Rcurl"
      BY <2>1 DEF BlockIn
    <3>2. QED
      BY <1>5, <2>1, <3>1
  <2>2. ASSUME NEW p \in Place, i <= p, input[p] = "Rcurl", NEW s, BlockIn(StmtLists, i, p + 1, s),
               <<s, p + 1>> \in K
        PROVE  StmtAccepts(i, K)
    BY <1>6, <1>7, <1>8, <2>2
  <2>3. QED
    BY <1>1, <1>8, <2>1, <2>2
<1>11. StmtAccepts(i, K) => input[i] \in StmtStart
  BY <1>1, <1>2, <1>3, <1>8
<1>12. QED
  BY <1>9, <1>10, <1>11

(* An expression ends after it begins.                                     *)
LEMMA WholeSpan ==
  ASSUME EndsInEof, NEW i \in Place, NEW j \in Place, NEW e \in WholeExps(i, j)
  PROVE  e \in Trees /\ i < j /\ e \in Exps[<<1, i, j>>]
<1>1. e \in Exps[<<1, i, j>>] /\ e \in Trees
  BY WholeAre DEF WholeExps
<1>2. i >= j <=> ~ (i < j)
  BY DEF Place
<1>3. 1 \in 0 .. 11
  OBVIOUS
<1>4. QED
  BY <1>1, <1>2, <1>3, NoExpsOfNothing

LEMMA ExpFrameIs ==
  ASSUME NEW kind, NEW exps
  PROVE  /\ Frame(kind, "exp") = ExpFrame(kind, <<>>)
         /\ LET f == ExpFrame(kind, exps)
            IN  /\ f.kind = kind /\ f.exps = exps /\ f.at = "exp" /\ f.in = 1 /\ f.params = 0
                /\ f.lists = NoLists(kind)
                /\ Stmt(f) = Node(kind, 0, exps, NoLists(kind))
                /\ \A e : GainsExp(f, e) = ExpFrame(kind, Append(exps, e))
<1> DEFINE f == ExpFrame(kind, exps)
<1> DEFINE rec(x) == [at |-> "exp", kind |-> kind, params |-> 0, exps |-> x, in |-> 1, lists |-> NoLists(kind)]
<1>1. f = rec(exps) /\ Frame(kind, "exp") = ExpFrame(kind, <<>>)
  <2>1. Frame(kind, "exp") = rec(<<>>)
    BY DEF Frame, NoLists
  <2>2. \A x : [rec(<<>>) EXCEPT !.exps = x] = rec(x)
    OBVIOUS
  <2>3. \A x : ExpFrame(kind, x) = rec(x)
    BY <2>1, <2>2 DEF ExpFrame
  <2>4. QED
    BY <2>1, <2>3
<1>2. ASSUME NEW e PROVE GainsExp(f, e) = ExpFrame(kind, Append(exps, e))
  <2>1. f.exps = exps
    BY <1>1
  <2>2. GainsExp(f, e) = [f EXCEPT !.exps = Append(exps, e)]
    BY <1>1, <2>1 DEF GainsExp
  <2>3. \A x : [f EXCEPT !.exps = x] = ExpFrame(kind, x)
    BY <1>1 DEF ExpFrame, Frame, NoLists
  <2>4. QED
    BY <2>2, <2>3
<1> HIDE DEF f
<1>3. QED
  BY <1>1, <1>2 DEF Stmt, Node, f

LEMMA GainsExpIs ==
  ASSUME NEW kind, NEW exps, NEW e
  PROVE  GainsExp(ExpFrame(kind, exps), e) = ExpFrame(kind, Append(exps, e))
BY ExpFrameIs

SimpleKinds == {"VardeclStmt", "RetStmt", "AssignStmt", "CallStmt"}

LEMMA SimpleFrames ==
  ASSUME NEW kind \in SimpleKinds, NEW exps
  PROVE  /\ kind \in DOMAIN ListCount
         /\ Stmt(ExpFrame(kind, exps)) = Node(kind, 0, exps, <<>>)
<1>1. kind \in DOMAIN ListCount /\ ListCount[kind] = 0
  BY DEF ListCount, SimpleKinds
<1>2. [n \in 1 .. 0 |-> <<>>] = <<>>
  OBVIOUS
<1>3. NoLists(kind) = <<>>
  BY <1>1, <1>2 DEF NoLists
<1>4. QED
  BY <1>1, <1>3, ExpFrameIs

LEMMA AfterSimpleIs ==
  ASSUME NEW kind \in SimpleKinds, NEW exps, NEW K, NEW e \in Trees, NEW j \in Place
  PROVE  <<e, j>> \in AfterSimple(ExpFrame(kind, exps), K) <=>
           input[j] = "Semicolon" /\ <<Node(kind, 0, Append(exps, e), <<>>), j + 1>> \in K
<1>1. Stmt(GainsExp(ExpFrame(kind, exps), e)) = Node(kind, 0, Append(exps, e), <<>>)
  BY ExpFrameIs, SimpleFrames
<1>2. QED
  BY <1>1 DEF AfterSimple

LEMMA VardeclAccepts ==
  ASSUME EndsInEof, NEW i \in Place, NEW K, input[i] = "KeywordVar"
  PROVE  StmtAccepts(i, K) <=>
           /\ Stands(i, VardeclHead)
           /\ Accepts(1, i + 4, AfterSimple(Frame("VardeclStmt", "exp"), K))
<1> DEFINE Z == AfterSimple(Frame("VardeclStmt", "exp"), K)
           made(e) == Node("VardeclStmt", 0, <<e>>, <<>>)
<1>1. ASSUME NEW e \in Trees, NEW j \in Place
      PROVE  <<e, j>> \in Z <=> input[j] = "Semicolon" /\ <<made(e), j + 1>> \in K
  <2>1. Append(<<>>, e) = <<e>> /\ "VardeclStmt" \in SimpleKinds
    BY DEF SimpleKinds
  <2>2. Z = AfterSimple(ExpFrame("VardeclStmt", <<>>), K)
    BY ExpFrameIs
  <2>3. <<e, j>> \in AfterSimple(ExpFrame("VardeclStmt", <<>>), K) <=>
          input[j] = "Semicolon" /\ <<Node("VardeclStmt", 0, Append(<<>>, e), <<>>), j + 1>> \in K
    BY <2>1, AfterSimpleIs
  <2>4. QED
    BY <2>1, <2>2, <2>3
<1> HIDE DEF Z, made
<1>2. ~ Stands(i, CallHead) /\ input[i] \in SimpleStart
  BY StandsAre DEF SimpleStart
<1>3. ASSUME NEW p \in Place, i <= p, input[p] = "Semicolon", NEW s, SimpleIn(i, p + 1, s), <<s, p + 1>> \in K
      PROVE  Stands(i, VardeclHead) /\ Accepts(1, i + 4, Z)
  <2>1. (p + 1) - 1 = p
    BY <1>3, NoEofThere
  <2>2. Stands(i, VardeclHead) /\ \E e \in WholeExps(i + 4, p) : s = made(e)
    BY <1>2, <1>3, <2>1 DEF SimpleIn, made
  <2>3. PICK e \in WholeExps(i + 4, p) : s = made(e)
    BY <2>2
  <2>4. i + 4 \in Place
    BY <2>2, StandsAre
  <2>5. e \in Trees /\ e \in Exps[<<1, i + 4, p>>]
    BY <2>4, WholeSpan
  <2>6. <<e, p>> \in Z
    BY <1>1, <1>3, <2>3, <2>5
  <2>7. QED
    BY <2>2, <2>5, <2>6 DEF Accepts
<1>4. ASSUME Stands(i, VardeclHead), NEW p \in Place, NEW e \in Exps[<<1, i + 4, p>>], <<e, p>> \in Z
      PROVE  StmtAccepts(i, K)
  <2>1. i + 4 \in Place
    BY <1>4, StandsAre
  <2>2. e \in Trees /\ i + 4 < p /\ e \in WholeExps(i + 4, p)
    BY <2>1, WholeSpan DEF WholeExps
  <2>3. input[p] = "Semicolon" /\ <<made(e), p + 1>> \in K
    BY <1>1, <1>4, <2>2
  <2>4. (p + 1) - 1 = p /\ i <= p
    BY <2>1, <2>2 DEF Place
  <2>5. SimpleIn(i, p + 1, made(e))
    BY <1>4, <2>2, <2>3, <2>4 DEF SimpleIn, made
  <2>6. QED
    BY <1>2, <2>3, <2>4, <2>5, SimpleOrBlock
<1>5. QED
  BY <1>2, <1>3, <1>4, SimpleOrBlock DEF Accepts, Z

LEMMA ReturnAccepts ==
  ASSUME EndsInEof, NEW i \in Place, NEW K, input[i] = "KeywordReturn"
  PROVE  /\ i + 1 \in Place
         /\ input[i + 1] = "Semicolon" =>
              (StmtAccepts(i, K) <=> <<Stmt(Frame("RetStmt", "exp")), i + 2>> \in K)
         /\ input[i + 1] # "Semicolon" =>
              (StmtAccepts(i, K) <=> Accepts(1, i + 1, AfterSimple(Frame("RetStmt", "exp"), K)))
<1> DEFINE Z == AfterSimple(Frame("RetStmt", "exp"), K)
           none == Node("RetStmt", 0, <<>>, <<>>)
           made(e) == Node("RetStmt", 0, <<e>>, <<>>)
<1>1. /\ Stmt(Frame("RetStmt", "exp")) = none
      /\ \A e \in Trees : \A j \in Place :
           <<e, j>> \in Z <=> input[j] = "Semicolon" /\ <<made(e), j + 1>> \in K
  <2>1. "RetStmt" \in SimpleKinds
    BY DEF SimpleKinds
  <2>2. Frame("RetStmt", "exp") = ExpFrame("RetStmt", <<>>)
    BY ExpFrameIs
  <2>3. ASSUME NEW e \in Trees, NEW j \in Place
        PROVE  <<e, j>> \in Z <=> input[j] = "Semicolon" /\ <<made(e), j + 1>> \in K
    <3>1. Append(<<>>, e) = <<e>>
      OBVIOUS
    <3>2. <<e, j>> \in AfterSimple(ExpFrame("RetStmt", <<>>), K) <=>
            input[j] = "Semicolon" /\ <<Node("RetStmt", 0, Append(<<>>, e), <<>>), j + 1>> \in K
      BY <2>1, AfterSimpleIs
    <3>3. QED
      BY <2>2, <3>1, <3>2
  <2>4. Stmt(Frame("RetStmt", "exp")) = none
    BY <2>1, <2>2, SimpleFrames
  <2>5. QED
    BY <2>3, <2>4
<1> HIDE DEF Z, none, made
<1>2. /\ ~ Stands(i, CallHead) /\ ~ Stands(i, VardeclHead) /\ input[i] \in SimpleStart
      /\ i + 1 \in Place
  BY StandsAre, TokensPlace DEF SimpleStart
<1>3. ASSUME NEW p \in Place, i <= p, input[p] = "Semicolon", NEW s
      PROVE  /\ (p + 1) - 1 = p /\ p + 1 \in Place /\ (p + 1 = i + 2 <=> p = i + 1)
             /\ SimpleIn(i, p + 1, s) <=>
                  IF p = i + 1 THEN s = none ELSE \E e \in WholeExps(i + 1, p) : s = made(e)
  <2>1. (p + 1) - 1 = p /\ p + 1 \in Place /\ (p + 1 = i + 2 <=> p = i + 1)
    BY <1>3, NoEofThere DEF Place
  <2>2. QED
    BY <1>2, <1>3, <2>1 DEF SimpleIn, none, made
<1>4. ASSUME input[i + 1] # "Semicolon", StmtAccepts(i, K) PROVE Accepts(1, i + 1, Z)
  <2>1. PICK p \in Place : i <= p /\ input[p] = "Semicolon" /\ \E s : SimpleIn(i, p + 1, s) /\ <<s, p + 1>> \in K
    BY <1>2, <1>4, SimpleOrBlock
  <2>2. PICK e \in WholeExps(i + 1, p) : <<made(e), p + 1>> \in K
    BY <1>3, <1>4, <2>1
  <2>3. e \in Trees /\ e \in Exps[<<1, i + 1, p>>]
    BY <1>2, WholeSpan
  <2>4. QED
    BY <1>1, <2>1, <2>2, <2>3 DEF Accepts
<1>5. ASSUME input[i + 1] # "Semicolon", Accepts(1, i + 1, Z) PROVE StmtAccepts(i, K)
  <2>1. PICK p \in Place : \E e \in Exps[<<1, i + 1, p>>] : <<e, p>> \in Z
    BY <1>5 DEF Accepts
  <2>2. PICK e \in Exps[<<1, i + 1, p>>] : <<e, p>> \in Z
    BY <2>1
  <2>3. e \in Trees /\ i + 1 < p /\ e \in WholeExps(i + 1, p)
    BY <1>2, WholeSpan DEF WholeExps
  <2>4. input[p] = "Semicolon" /\ <<made(e), p + 1>> \in K
    BY <1>1, <2>2, <2>3
  <2>5. i <= p /\ p # i + 1
    BY <2>3 DEF Place
  <2>6. SimpleIn(i, p + 1, made(e))
    BY <1>3, <2>3, <2>4, <2>5
  <2>7. QED
    BY <1>2, <2>4, <2>5, <2>6, SimpleOrBlock
<1>6. ASSUME input[i + 1] = "Semicolon" PROVE StmtAccepts(i, K) <=> <<none, i + 2>> \in K
  <2>1. i <= i + 1 /\ (i + 1) + 1 = i + 2
    BY DEF Place
  <2>2. ASSUME <<none, i + 2>> \in K PROVE StmtAccepts(i, K)
    <3>1. SimpleIn(i, (i + 1) + 1, none)
      BY <1>2, <1>3, <1>6, <2>1
    <3>2. QED
      BY <1>2, <1>6, <2>1, <2>2, <3>1, SimpleOrBlock
  <2>3. ASSUME StmtAccepts(i, K) PROVE <<none, i + 2>> \in K
    <3>1. PICK p \in Place : i <= p /\ input[p] = "Semicolon" /\ \E s : SimpleIn(i, p + 1, s) /\ <<s, p + 1>> \in K
      BY <1>2, <2>3, SimpleOrBlock
    <3>2. CASE p = i + 1
      BY <1>3, <2>1, <3>1, <3>2
    <3>3. CASE p # i + 1
      <4>1. PICK e \in WholeExps(i + 1, p) : TRUE
        BY <1>3, <3>1, <3>3
      <4>2. Exps[<<1, i + 1, p>>] = {}
        <5>1. "Semicolon" \notin DOMAIN LeafKind \union PrefixOps \union {"Lparen"}
          BY DEF LeafKind, PrefixOps
        <5>2. QED
          BY <1>2, <1>6, <5>1, NoArgHere
      <4>3. QED
        BY <4>1, <4>2 DEF WholeExps
    <3>4. QED
      BY <3>2, <3>3
  <2>4. QED
    BY <2>2, <2>3
<1>7. QED
  BY <1>1, <1>2, <1>4, <1>5, <1>6 DEF Z
LEMMA TwoSeq ==
  ASSUME NEW S, NEW l \in S, NEW r \in S
  PROVE  Append(<<l>>, r) = <<l, r>>
<1>1. PICK s : s = Append(<<l>>, r)
  OBVIOUS
<1>2. PICK t : t = <<l, r>>
  OBVIOUS
<1>3. s \in Seq(S) /\ Len(s) = 2 /\ s[1] = l /\ s[2] = r
  <2>1. <<l>> \in Seq(S) /\ Len(<<l>>) = 1 /\ <<l>>[1] = l
    OBVIOUS
  <2>2. QED
    BY <1>1, <2>1, AppendProperties
<1>4. t \in Seq(S) /\ Len(t) = 2 /\ t[1] = l /\ t[2] = r
  BY <1>2
<1>5. \A i \in 1 .. 2 : s[i] = t[i]
  BY <1>3, <1>4
<1>6. s = t
  BY <1>3, <1>4, <1>5, SeqEqual
<1>7. QED
  BY <1>1, <1>2, <1>6

LEMMA AssignAccepts ==
  ASSUME EndsInEof, NEW i \in Place, NEW K, input[i] = "Identifier", input[i + 1] # "Lparen"
  PROVE  StmtAccepts(i, K) <=> Accepts(1, i, AfterLhs(Frame("AssignStmt", "exp"), K))
<1> DEFINE f == Frame("AssignStmt", "exp")
           Z == AfterLhs(f, K)
           after(l) == AfterSimple(GainsExp(f, l), K)
           made(l, r) == Node("AssignStmt", 0, <<l, r>>, <<>>)
<1>1. ASSUME NEW l \in Trees, NEW r \in Trees, NEW j \in Place
      PROVE  <<r, j>> \in after(l) <=> input[j] = "Semicolon" /\ <<made(l, r), j + 1>> \in K
  <2>1. "AssignStmt" \in SimpleKinds
    BY DEF SimpleKinds
  <2>2. f = ExpFrame("AssignStmt", <<>>)
    BY ExpFrameIs
  <2>3. GainsExp(f, l) = ExpFrame("AssignStmt", Append(<<>>, l))
    <3>1. GainsExp(ExpFrame("AssignStmt", <<>>), l) = ExpFrame("AssignStmt", Append(<<>>, l))
      BY GainsExpIs
    <3>2. QED
      BY <2>2, <3>1
  <2>4. Append(<<>>, l) = <<l>> /\ Append(<<l>>, r) = <<l, r>>
    <3>1. Append(<<>>, l) = <<l>>
      OBVIOUS
    <3>2. QED
      BY <3>1, TwoSeq
  <2>5. <<r, j>> \in AfterSimple(ExpFrame("AssignStmt", <<l>>), K) <=>
          input[j] = "Semicolon" /\ <<Node("AssignStmt", 0, Append(<<l>>, r), <<>>), j + 1>> \in K
    BY <2>1, AfterSimpleIs
  <2> QED
    BY <2>3, <2>4, <2>5
<1>2. ASSUME NEW l \in Trees, NEW j \in Place
      PROVE  <<l, j>> \in Z <=> input[j] = "Assign" /\ Accepts(1, j + 1, after(l))
  BY DEF AfterLhs
<1> HIDE DEF Z, after, made, f
<1>3. ~ Stands(i, CallHead) /\ ~ Stands(i, VardeclHead) /\ input[i] \in SimpleStart
  BY StandsAre DEF SimpleStart
<1>4. ASSUME NEW p \in Place, input[p] = "Semicolon", NEW s
      PROVE  SimpleIn(i, p + 1, s) <=>
               \E m \in i .. p : \E l \in WholeExps(i, m), r \in WholeExps(m + 1, p) :
                 input[m] = "Assign" /\ s = made(l, r)
  <2>1. (p + 1) - 1 = p
    BY <1>4, NoEofThere
  <2>2. QED
    BY <1>3, <1>4, <2>1 DEF SimpleIn, made
<1>5. ASSUME StmtAccepts(i, K) PROVE Accepts(1, i, Z)
  <2>1. PICK p \in Place : i <= p /\ input[p] = "Semicolon" /\ \E s : SimpleIn(i, p + 1, s) /\ <<s, p + 1>> \in K
    BY <1>3, <1>5, SimpleOrBlock
  <2>2. PICK m \in i .. p : \E l \in WholeExps(i, m), r \in WholeExps(m + 1, p) :
               input[m] = "Assign" /\ <<made(l, r), p + 1>> \in K
    BY <1>4, <2>1
  <2>3. PICK l \in WholeExps(i, m) : \E r \in WholeExps(m + 1, p) :
               input[m] = "Assign" /\ <<made(l, r), p + 1>> \in K
    BY <2>2
  <2>4. PICK r \in WholeExps(m + 1, p) : input[m] = "Assign" /\ <<made(l, r), p + 1>> \in K
    BY <2>3
  <2>5. m \in Place
    BY DEF Place
  <2>6. m + 1 \in Place
    BY <2>4, <2>5, NoEofThere
  <2>7. l \in Trees /\ l \in Exps[<<1, i, m>>]
    BY <2>5, WholeSpan
  <2>8. r \in Trees /\ r \in Exps[<<1, m + 1, p>>]
    BY <2>6, WholeSpan
  <2>9. <<r, p>> \in after(l)
    BY <1>1, <2>1, <2>4, <2>7, <2>8
  <2>10. <<l, m>> \in Z
    BY <1>2, <2>4, <2>5, <2>7, <2>8, <2>9 DEF Accepts
  <2>11. QED
    BY <2>5, <2>7, <2>10 DEF Accepts
<1>6. ASSUME Accepts(1, i, Z) PROVE StmtAccepts(i, K)
  <2>1. PICK m \in Place : \E l \in Exps[<<1, i, m>>] : <<l, m>> \in Z
    BY <1>6 DEF Accepts
  <2>2. PICK l \in Exps[<<1, i, m>>] : <<l, m>> \in Z
    BY <2>1
  <2>3. l \in Trees /\ i < m /\ l \in WholeExps(i, m)
    BY WholeSpan DEF WholeExps
  <2>4. input[m] = "Assign" /\ Accepts(1, m + 1, after(l))
    BY <1>2, <2>2, <2>3
  <2>5. PICK p \in Place : \E r \in Exps[<<1, m + 1, p>>] : <<r, p>> \in after(l)
    BY <2>4 DEF Accepts
  <2>6. PICK r \in Exps[<<1, m + 1, p>>] : <<r, p>> \in after(l)
    BY <2>5
  <2>7. m + 1 \in Place
    BY <2>4, NoEofThere
  <2>8. r \in Trees /\ m + 1 < p /\ r \in WholeExps(m + 1, p)
    BY <2>7, WholeSpan DEF WholeExps
  <2>9. input[p] = "Semicolon" /\ <<made(l, r), p + 1>> \in K
    BY <1>1, <2>3, <2>6, <2>8
  <2>10. m \in i .. p /\ i <= p
    BY <2>3, <2>8 DEF Place
  <2>11. SimpleIn(i, p + 1, made(l, r))
    BY <1>4, <2>3, <2>4, <2>8, <2>9, <2>10
  <2>12. QED
    BY <1>3, <2>9, <2>10, <2>11, SimpleOrBlock
<1>7. QED
  BY <1>5, <1>6 DEF Z, f

LEMMA CallStmtAccepts ==
  ASSUME EndsInEof, NEW i \in Place, NEW K, input[i] = "Identifier", input[i + 1] = "Lparen"
  PROVE  /\ i + 2 \in Place
         /\ input[i + 2] = "Rparen" =>
              (StmtAccepts(i, K) <=> input[i + 3] = "Semicolon" /\ <<Stmt(Frame("CallStmt", "exp")), i + 4>> \in K)
         /\ input[i + 2] # "Rparen" =>
              (StmtAccepts(i, K) <=> Accepts(1, i + 2, AfterArg(EndsCallStmt(K), <<>>)))
<1> DEFINE Z == EndsCallStmt(K)
           made(args) == Node("CallStmt", 0, args, <<>>)
           none == made(<<>>)
<1>1. Stmt(Frame("CallStmt", "exp")) = none
  <2>1. "CallStmt" \in SimpleKinds /\ Frame("CallStmt", "exp") = ExpFrame("CallStmt", <<>>)
    BY ExpFrameIs DEF SimpleKinds
  <2>2. QED
    BY <2>1, SimpleFrames
<1>2. ASSUME NEW args \in Seq(Trees), NEW j \in Place
      PROVE  <<args, j>> \in Z <=>
               input[j] = "Rparen" /\ input[j + 1] = "Semicolon" /\ <<made(args), j + 2>> \in K
  BY DEF EndsCallStmt
<1> HIDE DEF Z, made
<1>3. Stands(i, CallHead) /\ ~ Stands(i, VardeclHead) /\ input[i] \in SimpleStart /\ i + 2 \in Place
  BY StandsAre DEF SimpleStart
<1>4. input[i] # "Semicolon" /\ input[i + 1] # "Semicolon" /\ input[i] # "Rparen" /\ input[i + 1] # "Rparen"
  OBVIOUS
<1>5. ASSUME NEW p \in Place, i <= p, input[p] = "Semicolon"
      PROVE  /\ p - 1 \in Place /\ (p - 1) + 1 = p /\ (p - 1) + 2 = p + 1
             /\ \A s : SimpleIn(i, p + 1, s) <=>
                  /\ input[p - 1] = "Rparen"
                  /\ IF p = i + 3 THEN s = none
                     ELSE \E call \in Exps[<<0, i + 2, p - 1>>] : s = made(call.args)
  <2>1. (p + 1) - 1 = p /\ (p + 1) - 2 = p - 1 /\ (p + 1 = i + 4 <=> p = i + 3)
        /\ p - 1 \in Place /\ (p - 1) + 1 = p /\ (p - 1) + 2 = p + 1
    <3>1. p # i
      BY <1>4, <1>5
    <3>2. QED
      BY <1>5, <3>1 DEF Place
  <2>2. QED
    BY <1>3, <1>4, <1>5, <2>1 DEF SimpleIn, made, ArgRow
<1>6. ASSUME NEW j \in Place, NEW c \in Exps[<<0, i + 2, j>>]
      PROVE  c.args \in Seq(Trees) /\ i + 2 < j /\ <<>> \o c.args = c.args
  <2>1. c.args \in Seq(Trees)
    BY <1>3, ArgsAre DEF ArgRow
  <2>2. i + 2 < j
    <3>1. i + 2 >= j <=> ~ (i + 2 < j)
      BY DEF Place
    <3>2. 0 \in 0 .. 11
      OBVIOUS
    <3>3. QED
      BY <1>3, <3>1, <3>2, NoExpsOfNothing
  <2>3. QED
    BY <2>1, <2>2
<1>7. ASSUME input[i + 2] = "Rparen"
      PROVE  StmtAccepts(i, K) <=> input[i + 3] = "Semicolon" /\ <<none, i + 4>> \in K
  <2>1. ASSUME StmtAccepts(i, K) PROVE input[i + 3] = "Semicolon" /\ <<none, i + 4>> \in K
    <3>1. PICK p \in Place : i <= p /\ input[p] = "Semicolon" /\ \E s : SimpleIn(i, p + 1, s) /\ <<s, p + 1>> \in K
      BY <1>3, <2>1, SimpleOrBlock
    <3>2. CASE p = i + 3
      <4>1. p + 1 = i + 4
        BY <3>2 DEF Place
      <4>2. QED
        BY <1>5, <3>1, <3>2, <4>1
    <3>3. CASE p # i + 3
      <4>1. \E call \in Exps[<<0, i + 2, p - 1>>] : TRUE
        BY <1>5, <3>1, <3>3
      <4>2. Exps[<<0, i + 2, p - 1>>] = {}
        BY <1>3, <1>5, <1>7, <3>1, NoArgHere, StartsAre
      <4>3. QED
        BY <4>1, <4>2
    <3>4. QED
      BY <3>2, <3>3
  <2>2. ASSUME input[i + 3] = "Semicolon", <<none, i + 4>> \in K PROVE StmtAccepts(i, K)
    <3>1. i + 3 \in Place /\ i <= i + 3 /\ (i + 3) - 1 = i + 2 /\ (i + 3) + 1 = i + 4
      BY <1>3, <1>7, NoEofThere DEF Place
    <3>2. SimpleIn(i, (i + 3) + 1, none)
      BY <1>5, <1>7, <2>2, <3>1
    <3>3. QED
      BY <1>3, <2>2, <3>1, <3>2, SimpleOrBlock
  <2>3. QED
    BY <2>1, <2>2
<1>8. ASSUME input[i + 2] # "Rparen", StmtAccepts(i, K) PROVE ArgsAccepted(Z, <<>>, i + 2)
  <2>1. PICK p \in Place : i <= p /\ input[p] = "Semicolon" /\ \E s : SimpleIn(i, p + 1, s) /\ <<s, p + 1>> \in K
    BY <1>3, <1>8, SimpleOrBlock
  <2>2. p # i + 3
    <3>1. ASSUME p = i + 3 PROVE p - 1 = i + 2
      BY <3>1 DEF Place
    <3>2. QED
      BY <1>5, <1>8, <2>1, <3>1
  <2>3. PICK call \in Exps[<<0, i + 2, p - 1>>] : input[p - 1] = "Rparen" /\ <<made(call.args), p + 1>> \in K
    BY <1>5, <2>1, <2>2
  <2>4. p - 1 \in Place /\ (p - 1) + 1 = p /\ (p - 1) + 2 = p + 1
    BY <1>5, <2>1
  <2>5. call.args \in Seq(Trees) /\ <<>> \o call.args = call.args
    BY <1>6, <2>4
  <2>6. <<call.args, p - 1>> \in Z
    BY <1>2, <2>1, <2>3, <2>4, <2>5
  <2>7. QED
    BY <2>4, <2>5, <2>6 DEF ArgsAccepted
<1>9. ASSUME input[i + 2] # "Rparen", ArgsAccepted(Z, <<>>, i + 2) PROVE StmtAccepts(i, K)
  <2>1. PICK j \in Place : \E c \in Exps[<<0, i + 2, j>>] : <<<<>> \o c.args, j>> \in Z
    BY <1>9 DEF ArgsAccepted
  <2>2. PICK c \in Exps[<<0, i + 2, j>>] : <<<<>> \o c.args, j>> \in Z
    BY <2>1
  <2>3. c.args \in Seq(Trees) /\ i + 2 < j /\ <<>> \o c.args = c.args
    BY <1>6
  <2>4. input[j] = "Rparen" /\ input[j + 1] = "Semicolon" /\ <<made(c.args), j + 2>> \in K
    BY <1>2, <2>2, <2>3
  <2>5. j + 1 \in Place /\ (j + 1) + 1 = j + 2 /\ (j + 1) - 1 = j /\ i <= j + 1 /\ j + 1 # i + 3
    BY <2>3, <2>4, NoEofThere DEF Place
  <2>6. SimpleIn(i, (j + 1) + 1, made(c.args))
    BY <1>5, <2>4, <2>5
  <2>7. QED
    BY <1>3, <2>4, <2>5, <2>6, SimpleOrBlock
<1>10. ArgsAccepted(Z, <<>>, i + 2) <=> Accepts(1, i + 2, AfterArg(Z, <<>>))
  <2>1. <<>> \in Seq(Trees)
    OBVIOUS
  <2>2. QED
    BY <1>3, <2>1, ArgsFromFirst
<1>11. QED
  BY <1>1, <1>3, <1>7, <1>8, <1>9, <1>10 DEF Z, made

(* What follows the expressions of the statements ends their loop.         *)
LEMMA StmtsRefuse ==
  ASSUME NEW K, \A i \in Place : \A e \in Trees :
                  <<e, i>> \in K => input[i] \in {"Semicolon", "Assign", "Lcurl", "Rparen", "Comma"}
  PROVE  Refuses(K, 1)
<1>1. \A t \in {"Semicolon", "Assign", "Lcurl", "Rparen", "Comma"} : \A k \in 1 .. 9 : t \notin Row[k]
  <2>1. \A t \in {"Semicolon", "Assign", "Lcurl", "Rparen", "Comma"} : t \notin InfixOps
    BY DEF InfixOps, Level
  <2>2. QED
    BY <2>1, RowsAre
<1>2. QED
  BY <1>1 DEF Refuses
-----------------------------------------------------------------------------
(* Statements with lists.                                                  *)
TwoKinds == {"IfStmt", "WhileStmt"}
BlockKinds == {"IfStmt", "WhileStmt", "RepeatStmt", "FundecStmt"}
Second(kind) == IF kind \in TwoKinds THEN <<<<>>>> ELSE <<>>

Longer(L, n, l) == [L EXCEPT ![n] = @ \o l]

LEMMA FirstList ==
  ASSUME NEW kind \in BlockKinds, NEW l \in Seq(Trees)
  PROVE  /\ NoLists(kind) \in Seq(Seq(Trees)) /\ 1 \in DOMAIN NoLists(kind)
         /\ Longer(NoLists(kind), 1, l) = <<l>> \o Second(kind)
<1>1. ListCount[kind] = IF kind \in TwoKinds THEN 2 ELSE 1
  BY DEF ListCount, BlockKinds, TwoKinds
<1>2. PICK T : T = Seq(Trees)
  OBVIOUS
<1>3. <<>> \in T /\ <<>> \o l = l
  BY <1>2
<1>4. NoLists(kind) = [n \in 1 .. ListCount[kind] |-> <<>>]
  BY DEF NoLists
<1>5. NoLists(kind) \in Seq(T) /\ Len(NoLists(kind)) = ListCount[kind] /\ 1 \in DOMAIN NoLists(kind)
  BY <1>1, <1>3, <1>4
<1>6. Longer(NoLists(kind), 1, l) = [n \in 1 .. ListCount[kind] |-> IF n = 1 THEN l ELSE <<>>]
  BY <1>1, <1>3, <1>4 DEF Longer
<1>7. PICK s : s = <<l>> \o Second(kind)
  OBVIOUS
<1>8. s \in Seq(T) /\ Len(s) = ListCount[kind] /\ s[1] = l /\ (ListCount[kind] = 2 => s[2] = <<>>)
  <2>1. CASE kind \in TwoKinds
    <3>1. <<l>> \in Seq(T) /\ <<<<>>>> \in Seq(T) /\ Len(<<l>>) = 1 /\ Len(<<<<>>>>) = 1 /\ <<l>>[1] = l
          /\ <<<<>>>>[1] = <<>>
      BY <1>2, <1>3
    <3>2. s = <<l>> \o <<<<>>>>
      BY <1>7, <2>1 DEF Second
    <3>3. QED
      BY <1>1, <2>1, <3>1, <3>2
  <2>2. CASE kind \notin TwoKinds
    <3>1. <<l>> \in Seq(T) /\ Len(<<l>>) = 1 /\ <<l>>[1] = l /\ <<l>> \o <<>> = <<l>>
      BY <1>2
    <3>2. s = <<l>>
      BY <1>7, <2>2, <3>1 DEF Second
    <3>3. QED
      BY <1>1, <2>2, <3>1, <3>2
  <2>3. QED
    BY <2>1, <2>2
<1>9. PICK t : t = [n \in 1 .. ListCount[kind] |-> IF n = 1 THEN l ELSE <<>>]
  OBVIOUS
<1>10. t \in Seq(T) /\ Len(t) = ListCount[kind] /\ \A n \in 1 .. Len(t) : t[n] = IF n = 1 THEN l ELSE <<>>
  BY <1>1, <1>2, <1>3, <1>9
<1>11. \A n \in 1 .. Len(t) : s[n] = t[n]
  BY <1>1, <1>8, <1>10
<1>12. s = t
  BY <1>8, <1>10, <1>11, SeqEqual
<1>13. QED
  BY <1>2, <1>5, <1>6, <1>7, <1>9, <1>12

LEMMA SecondOfTwo ==
  ASSUME NEW kind \in TwoKinds, NEW l \in Seq(Trees), NEW r \in Seq(Trees)
  PROVE  Longer(<<l>> \o Second(kind), 2, r) = <<l, r>>
<1>1. PICK T : T = Seq(Trees)
  OBVIOUS
<1>2. <<>> \in T /\ <<>> \o r = r
  BY <1>1
<1>3. PICK s : s = <<l>> \o Second(kind)
  OBVIOUS
<1>4. s \in Seq(T) /\ Len(s) = 2 /\ s[1] = l /\ s[2] = <<>>
  <2>1. <<l>> \in Seq(T) /\ <<<<>>>> \in Seq(T) /\ Len(<<l>>) = 1 /\ Len(<<<<>>>>) = 1 /\ <<l>>[1] = l
        /\ <<<<>>>>[1] = <<>>
    BY <1>1, <1>2
  <2>2. s = <<l>> \o <<<<>>>>
    BY <1>3 DEF Second
  <2>3. QED
    BY <2>1, <2>2
<1>5. PICK q : q = Longer(s, 2, r)
  OBVIOUS
<1>6. q \in Seq(T) /\ Len(q) = 2 /\ q[1] = l /\ q[2] = r
  <2>1. q = [s EXCEPT ![2] = r]
    BY <1>2, <1>4, <1>5 DEF Longer
  <2>2. r \in T
    BY <1>1
  <2>3. QED
    BY <1>4, <2>1, <2>2, ExceptSeq
<1>7. PICK t : t = <<l, r>>
  OBVIOUS
<1>8. t \in Seq(T) /\ Len(t) = 2 /\ t[1] = l /\ t[2] = r
  BY <1>1, <1>7
<1>9. \A n \in 1 .. 2 : q[n] = t[n]
  BY <1>6, <1>8
<1>10. q = t
  BY <1>6, <1>8, <1>9, SeqEqual
<1>11. QED
  BY <1>3, <1>5, <1>7, <1>10

LEMMA ListStartIs ==
  ASSUME NEW kind \in BlockKinds, NEW params \in Nat, NEW exps \in Seq(Trees), NEW l \in Seq(Trees)
  PROVE  LET f == ListStart(kind, params, exps)
             g == WithList(f, l)
         IN  /\ f \in ListFrames
             /\ g.kind = kind /\ g.in = 1
             /\ Stmt(g) = Node(kind, params, exps, <<l>> \o Second(kind))
             /\ kind \in TwoKinds => \A r \in Seq(Trees) :
                  Stmt(WithList(OtherList(g), r)) = Node(kind, params, exps, <<l, r>>)
<1> DEFINE f == ListStart(kind, params, exps)
           g == WithList(f, l)
           rec(n, L) == [at |-> "list", kind |-> kind, params |-> params, exps |-> exps, in |-> n, lists |-> L]
<1>1. PICK L : L = <<l>> \o Second(kind)
  OBVIOUS
<1>2. f = rec(1, NoLists(kind))
  BY DEF ListStart
<1>3. ASSUME NEW n, NEW M, NEW a PROVE WithList(rec(n, M), a) = rec(n, Longer(M, n, a))
  <2>1. rec(n, M).in = n /\ rec(n, M).lists = M
    OBVIOUS
  <2>2. WithList(rec(n, M), a) = [rec(n, M) EXCEPT !.lists = Longer(rec(n, M).lists, rec(n, M).in, a)]
    BY DEF WithList, Longer
  <2>3. \A N : [rec(n, M) EXCEPT !.lists = N] = rec(n, N)
    OBVIOUS
  <2> HIDE DEF rec
  <2>4. QED
    BY <2>1, <2>2, <2>3
<1>4. \A n, M : rec(n, M).kind = kind /\ rec(n, M).in = n /\ Stmt(rec(n, M)) = Node(kind, params, exps, M)
               /\ OtherList(rec(n, M)) = rec(2, M)
  BY DEF Stmt, Node, OtherList
<1>5. f \in ListFrames
  <2>1. kind \in DOMAIN ListCount
    BY DEF BlockKinds, ListCount
  <2>2. \A M \in Seq(Seq(Trees)) : 1 \in DOMAIN M => rec(1, M) \in ListFrames
    BY <2>1 DEF ListFrames, StmtFrames
  <2>3. QED
    BY <1>2, <2>2, FirstList
<1> HIDE DEF rec, f
<1>6. g = rec(1, L)
  <2>1. Longer(NoLists(kind), 1, l) = L
    BY <1>1, FirstList
  <2>2. QED
    BY <1>2, <1>3, <2>1
<1>7. ASSUME kind \in TwoKinds, NEW r \in Seq(Trees)
      PROVE  Stmt(WithList(OtherList(g), r)) = Node(kind, params, exps, <<l, r>>)
  <2>1. WithList(OtherList(g), r) = rec(2, Longer(L, 2, r))
    BY <1>3, <1>4, <1>6
  <2>2. Longer(L, 2, r) = <<l, r>>
    BY <1>1, <1>7, SecondOfTwo
  <2>3. QED
    BY <1>4, <2>1, <2>2
<1>8. QED
  BY <1>1, <1>4, <1>5, <1>6, <1>7 DEF f

LEMMA ListStartAccepts ==
  ASSUME EndsInEof, NEW kind \in BlockKinds, NEW params \in Nat, NEW exps \in Seq(Trees), NEW K, NEW a \in Place
  PROVE  ListAccepts(ListStart(kind, params, exps), K, a) <=>
           \E j \in Place : \E l \in StmtLists[<<a, j>>] :
             \/ input[j] = "Rcurl" /\ <<Node(kind, params, exps, <<l>> \o Second(kind)), j + 1>> \in K
             \/ /\ kind \in TwoKinds /\ Stands(j, Between(OtherWord(kind)))
                /\ \E q \in Place : \E r \in StmtLists[<<j + 3, q>>] :
                     input[q] = "Rcurl" /\ <<Node(kind, params, exps, <<l, r>>), q + 1>> \in K
<1> DEFINE f == ListStart(kind, params, exps)
<1>1. ASSUME NEW j \in Place, NEW l \in StmtLists[<<a, j>>]
      PROVE  Closes(WithList(f, l), K, j) <=>
               \/ input[j] = "Rcurl" /\ <<Node(kind, params, exps, <<l>> \o Second(kind)), j + 1>> \in K
               \/ /\ kind \in TwoKinds /\ Stands(j, Between(OtherWord(kind)))
                  /\ \E q \in Place : \E r \in StmtLists[<<j + 3, q>>] :
                       input[q] = "Rcurl" /\ <<Node(kind, params, exps, <<l, r>>), q + 1>> \in K
  <2> DEFINE g == WithList(f, l)
  <2>1. l \in Seq(Trees)
    BY ListsAre
  <2>2. g.kind = kind /\ g.in = 1 /\ Stmt(g) = Node(kind, params, exps, <<l>> \o Second(kind))
    BY <2>1, ListStartIs
  <2>3. kind # "Stmts" /\ (kind \in TwoKinds <=> kind \in {"IfStmt", "WhileStmt"})
    BY DEF BlockKinds, TwoKinds
  <2>4. ASSUME kind \in TwoKinds, Stands(j, Between(OtherWord(kind)))
        PROVE  EndsSecond(OtherList(g), K, j + 3) <=>
                 \E q \in Place : \E r \in StmtLists[<<j + 3, q>>] :
                     input[q] = "Rcurl" /\ <<Node(kind, params, exps, <<l, r>>), q + 1>> \in K
    <3>1. j + 3 \in Place
      BY <2>4, StandsAre DEF OtherWord
    <3>2. ASSUME NEW q \in Place, NEW r \in StmtLists[<<j + 3, q>>]
          PROVE  Stmt(WithList(OtherList(g), r)) = Node(kind, params, exps, <<l, r>>)
      <4>1. r \in Seq(Trees)
        BY <3>1, ListsAre
      <4>2. QED
        BY <2>1, <2>4, <4>1, ListStartIs
    <3> HIDE DEF g
    <3>3. QED
      BY <3>2 DEF EndsSecond, ListEnds
  <2> HIDE DEF g
  <2>5. Closes(g, K, j) <=> \/ ListEnds(g, K, j)
                            \/ kind \in TwoKinds /\ Stands(j, Between(OtherWord(kind))) /\ EndsSecond(OtherList(g), K, j + 3)
    BY <2>2, <2>3 DEF Closes
  <2>6. ListEnds(g, K, j) <=> input[j] = "Rcurl" /\ <<Node(kind, params, exps, <<l>> \o Second(kind)), j + 1>> \in K
    BY <2>2 DEF ListEnds
  <2>7. QED
    BY <2>4, <2>5, <2>6 DEF g
<1> HIDE DEF f
<1>2. ListAccepts(f, K, a) <=> \E j \in Place : \E l \in StmtLists[<<a, j>>] : Closes(WithList(f, l), K, j)
  BY DEF ListAccepts
<1>3. QED
  BY <1>1, <1>2 DEF f

CondWord == [kind \in {"IfStmt", "WhileStmt", "RepeatStmt"} |->
  CASE kind = "IfStmt" -> "KeywordIf" [] kind = "WhileStmt" -> "KeywordWhile" [] OTHER -> "KeywordRepeat"]

LEMMA CondStart ==
  ASSUME NEW kind, NEW e
  PROVE  [GainsExp(Frame(kind, "exp"), e) EXCEPT !.at = "list"] = ListStart(kind, 0, <<e>>)
<1>1. Append(<<>>, e) = <<e>>
  OBVIOUS
<1>2. GainsExp(ExpFrame(kind, <<>>), e) = ExpFrame(kind, Append(<<>>, e))
  BY GainsExpIs
<1>3. GainsExp(Frame(kind, "exp"), e) = ExpFrame(kind, <<e>>)
  BY <1>1, <1>2, ExpFrameIs
<1>4. [ExpFrame(kind, <<e>>) EXCEPT !.at = "list"] = ListStart(kind, 0, <<e>>)
  <2> DEFINE rec(at, x) == [at |-> at, kind |-> kind, params |-> 0, exps |-> x, in |-> 1, lists |-> NoLists(kind)]
  <2>1. Frame(kind, "exp") = rec("exp", <<>>)
    BY DEF Frame, NoLists
  <2>2. \A x : [rec("exp", <<>>) EXCEPT !.exps = x] = rec("exp", x)
    OBVIOUS
  <2>3. ExpFrame(kind, <<e>>) = rec("exp", <<e>>)
    BY <2>1, <2>2 DEF ExpFrame
  <2>4. \A x : [rec("exp", x) EXCEPT !.at = "list"] = rec("list", x)
    OBVIOUS
  <2>5. ListStart(kind, 0, <<e>>) = rec("list", <<e>>)
    BY DEF ListStart
  <2> HIDE DEF rec
  <2>6. QED
    BY <2>3, <2>4, <2>5
<1>5. QED
  BY <1>3, <1>4

LEMMA CondAccepts ==
  ASSUME EndsInEof, NEW i \in Place, NEW K, NEW kind \in DOMAIN CondWord, input[i] = CondWord[kind]
  PROVE  /\ i + 1 \in Place
         /\ StmtAccepts(i, K) <=> Accepts(1, i + 1, AfterCond(Frame(kind, "exp"), K))
<1> DEFINE Z == AfterCond(Frame(kind, "exp"), K)
           one(e, l) == Node(kind, 0, <<e>>, <<l>> \o Second(kind))
           two(e, l, r) == Node(kind, 0, <<e>>, <<l, r>>)
           word == OtherWord(kind)
<1>1. kind \in BlockKinds /\ word \in {"KeywordElse", "KeywordOtherwise"}
      /\ input[i] \notin SimpleStart /\ i + 1 \in Place /\ input[i] # "KeywordFun" /\ input[i] # "Rcurl"
  <2>1. kind \in BlockKinds /\ word \in {"KeywordElse", "KeywordOtherwise"}
    BY DEF CondWord, BlockKinds, OtherWord
  <2>2. input[i] \in {"KeywordIf", "KeywordWhile", "KeywordRepeat"}
    BY DEF CondWord
  <2>3. QED
    BY <2>1, <2>2, TokensPlace DEF SimpleStart
<1>2. ASSUME NEW e \in Trees, NEW b \in Place, input[b] = "Lcurl"
      PROVE  <<e, b>> \in Z <=>
               \E j \in Place : \E l \in StmtLists[<<b + 1, j>>] :
                 \/ input[j] = "Rcurl" /\ <<one(e, l), j + 1>> \in K
                 \/ /\ kind \in TwoKinds /\ Stands(j, Between(word))
                    /\ \E q \in Place : \E r \in StmtLists[<<j + 3, q>>] :
                         input[q] = "Rcurl" /\ <<two(e, l, r), q + 1>> \in K
  <2>1. <<e, b>> \in Z <=> ListAccepts(ListStart(kind, 0, <<e>>), K, b + 1)
    BY <1>2, CondStart DEF AfterCond
  <2>2. b + 1 \in Place
    BY <1>2, NoEofThere
  <2>3. <<e>> \in Seq(Trees) /\ 0 \in Nat
    OBVIOUS
  <2>4. QED
    BY <1>1, <2>1, <2>2, <2>3, ListStartAccepts
<1>3. ASSUME NEW e \in Trees, NEW b \in Place, <<e, b>> \in Z PROVE input[b] = "Lcurl"
  BY <1>3 DEF AfterCond
<1> HIDE DEF Z, one, two, word
<1> DEFINE rest(b, e, p, s) ==
             \/ \E l \in StmtLists[<<b + 1, p>>] : s = one(e, l)
             \/ /\ kind \in TwoKinds
                /\ \E m \in b .. p : /\ Stands(m, Between(word))
                                     /\ \E l \in StmtLists[<<b + 1, m>>], r \in StmtLists[<<m + 3, p>>] :
                                          s = two(e, l, r)
<1>4. ASSUME NEW p \in Place, input[p] = "Rcurl", NEW s
      PROVE  BlockIn(StmtLists, i, p + 1, s) <=>
               \E b \in i .. p :
                 /\ input[b] = "Lcurl"
                 /\ \E e \in WholeExps(i + 1, b) : rest(b, e, p, s)
  <2>1. (p + 1) - 1 = p
    BY <1>4, NoEofThere
  <2>2. OneIn(StmtLists, kind, Second(kind), i, p + 1, s) <=>
          \E b \in i .. p : \E e \in WholeExps(i + 1, b) : \E l \in StmtLists[<<b + 1, p>>] :
            input[b] = "Lcurl" /\ s = one(e, l)
    BY <2>1 DEF OneIn, one
  <2>3. ElseIn(StmtLists, kind, word, i, p + 1, s) <=>
          \E b \in i .. p : \E m \in b .. p :
            /\ input[b] = "Lcurl" /\ Stands(m, Between(word))
            /\ \E e \in WholeExps(i + 1, b), l \in StmtLists[<<b + 1, m>>], r \in StmtLists[<<m + 3, p>>] :
                 s = two(e, l, r)
    BY <2>1 DEF ElseIn, two
  <2>4. BlockIn(StmtLists, i, p + 1, s) <=>
          \/ OneIn(StmtLists, kind, Second(kind), i, p + 1, s)
          \/ kind \in TwoKinds /\ ElseIn(StmtLists, kind, word, i, p + 1, s)
    <3>1. input[(p + 1) - 1] = "Rcurl" /\ ~ Stands(i, FundecHead)
      BY <1>1, <1>4, <2>1, StandsAre
    <3>2. CASE kind = "IfStmt"
      <4>1. input[i] = "KeywordIf" /\ Second(kind) = <<<<>>>> /\ word = "KeywordElse" /\ kind \in TwoKinds
        BY <3>2 DEF CondWord, Second, word, OtherWord, TwoKinds
      <4>2. QED
        BY <3>1, <3>2, <4>1 DEF BlockIn, TwoIn
    <3>3. CASE kind = "WhileStmt"
      <4>1. input[i] = "KeywordWhile" /\ Second(kind) = <<<<>>>> /\ word = "KeywordOtherwise" /\ kind \in TwoKinds
        BY <3>3 DEF CondWord, Second, word, OtherWord, TwoKinds
      <4>2. QED
        BY <3>1, <3>3, <4>1 DEF BlockIn, TwoIn
    <3>4. CASE kind = "RepeatStmt"
      <4>1. input[i] = "KeywordRepeat" /\ Second(kind) = <<>> /\ kind \notin TwoKinds
        BY <3>4 DEF CondWord, Second, TwoKinds
      <4>2. QED
        BY <3>1, <3>4, <4>1 DEF BlockIn
    <3>5. QED
      BY <3>2, <3>3, <3>4 DEF CondWord
  <2>5. QED
    BY <2>2, <2>3, <2>4
<1> HIDE DEF rest
<1>5. ASSUME StmtAccepts(i, K) PROVE Accepts(1, i + 1, Z)
  <2>1. PICK p \in Place : i <= p /\ input[p] = "Rcurl" /\ \E s : BlockIn(StmtLists, i, p + 1, s) /\ <<s, p + 1>> \in K
    BY <1>1, <1>5, SimpleOrBlock
  <2>2. PICK s : BlockIn(StmtLists, i, p + 1, s) /\ <<s, p + 1>> \in K
    BY <2>1
  <2>3. PICK b \in i .. p :
                 /\ input[b] = "Lcurl"
                 /\ \E e \in WholeExps(i + 1, b) : rest(b, e, p, s)
    BY <1>4, <2>1, <2>2, Zenon
  <2>4. b \in Place
    BY DEF Place
  <2>5. PICK e \in WholeExps(i + 1, b) : rest(b, e, p, s)
    BY <2>3
  <2>6. e \in Trees /\ e \in Exps[<<1, i + 1, b>>]
    BY <1>1, <2>4, WholeSpan
  <2>7. \A m \in b .. p : m \in Place
    BY <2>4 DEF Place
  <2>8. <<e, b>> \in Z
    BY <1>2, <2>1, <2>2, <2>3, <2>4, <2>5, <2>6, <2>7 DEF rest
  <2>9. QED
    BY <2>4, <2>6, <2>8 DEF Accepts
<1>6. ASSUME Accepts(1, i + 1, Z) PROVE StmtAccepts(i, K)
  <2>1. PICK b \in Place : \E e \in Exps[<<1, i + 1, b>>] : <<e, b>> \in Z
    BY <1>6 DEF Accepts
  <2>2. PICK e \in Exps[<<1, i + 1, b>>] : <<e, b>> \in Z
    BY <2>1
  <2>3. e \in Trees /\ i + 1 < b /\ e \in WholeExps(i + 1, b)
    BY <1>1, WholeSpan DEF WholeExps
  <2>4. input[b] = "Lcurl" /\ b + 1 \in Place
    BY <1>3, <2>2, <2>3, NoEofThere
  <2>5. ASSUME NEW c \in Place, NEW j \in Place, NEW l \in StmtLists[<<c, j>>] PROVE c <= j
    <3>1. j < c => StmtLists[<<c, j>>] = {}
      BY ListsAre, NoListsBackwards
    <3>2. QED
      BY <2>5, <3>1 DEF Place
  <2>6. PICK j \in Place : \E l \in StmtLists[<<b + 1, j>>] :
                 \/ input[j] = "Rcurl" /\ <<one(e, l), j + 1>> \in K
                 \/ /\ kind \in TwoKinds /\ Stands(j, Between(word))
                    /\ \E q \in Place : \E r \in StmtLists[<<j + 3, q>>] :
                         input[q] = "Rcurl" /\ <<two(e, l, r), q + 1>> \in K
    BY <1>2, <2>2, <2>3, <2>4
  <2>7. PICK l \in StmtLists[<<b + 1, j>>] :
                 \/ input[j] = "Rcurl" /\ <<one(e, l), j + 1>> \in K
                 \/ /\ kind \in TwoKinds /\ Stands(j, Between(word))
                    /\ \E q \in Place : \E r \in StmtLists[<<j + 3, q>>] :
                         input[q] = "Rcurl" /\ <<two(e, l, r), q + 1>> \in K
    BY <2>6
  <2>8. b + 1 <= j /\ i <= j /\ b \in i .. j
    <3>1. b + 1 <= j
      BY <2>4, <2>5, <2>7
    <3>2. QED
      BY <2>3, <3>1 DEF Place
  <2>9. CASE input[j] = "Rcurl" /\ <<one(e, l), j + 1>> \in K
    <3>1. BlockIn(StmtLists, i, j + 1, one(e, l))
      BY <1>4, <2>3, <2>4, <2>8, <2>9 DEF rest
    <3>2. QED
      BY <1>1, <2>8, <2>9, <3>1, SimpleOrBlock
  <2>10. ASSUME kind \in TwoKinds, Stands(j, Between(word)), NEW q \in Place, NEW r \in StmtLists[<<j + 3, q>>],
               input[q] = "Rcurl", <<two(e, l, r), q + 1>> \in K
        PROVE  StmtAccepts(i, K)
    <3>1. j + 3 \in Place
      BY <1>1, <2>10, StandsAre
    <3>2. j + 3 <= q
      BY <2>5, <2>10, <3>1
    <3>3. j \in b .. q /\ b \in i .. q /\ i <= q
      BY <2>8, <3>2 DEF Place
    <3>4. BlockIn(StmtLists, i, q + 1, two(e, l, r))
      BY <1>4, <2>3, <2>4, <2>7, <2>10, <3>3 DEF rest
    <3>5. QED
      BY <1>1, <2>10, <3>3, <3>4, SimpleOrBlock
  <2>11. QED
    BY <2>7, <2>9, <2>10
<1>7. QED
  BY <1>1, <1>5, <1>6 DEF Z
-----------------------------------------------------------------------------
(* The parameters of a function: what they are from the first on.          *)
ParamMore == <<"Identifier", "TypeName", "Comma">>
ParamLast == <<"Identifier", "TypeName", "Rparen", "Lcurl">>

LEMMA ModIs ==
  /\ \A n \in Nat : n % 3 = 2 => n >= 2 /\ (n = 2 \/ n >= 5)
  /\ \A n \in Int : n % 3 = (n - 3) % 3
  /\ \A n \in Int : (n + 1) \div 3 = ((n - 3) + 1) \div 3 + 1
  /\ 0 % 3 = 0 /\ 1 % 3 = 1 /\ 2 % 3 = 2 /\ (2 + 1) \div 3 = 1 /\ (0 + 1) \div 3 = 0
  OBVIOUS

LEMMA ParamStands ==
  ASSUME EndsInEof, NEW i \in Place
  PROVE  /\ Stands(i, ParamMore) <=>
              input[i] = "Identifier" /\ input[i + 1] = "TypeName" /\ input[i + 2] = "Comma"
         /\ Stands(i, ParamMore) => i + 3 \in Place
         /\ Stands(i, ParamLast) <=>
              input[i] = "Identifier" /\ input[i + 1] = "TypeName" /\ Stands(i + 2, FundecEnd)
         /\ Stands(i, ParamLast) => i + 2 \in Place /\ i + 4 \in Place
<1>1. PICK n \in Nat : n = Len(input) /\ Place = 1 .. n
  BY DEF EndsInEof, Place
<1>2. \A m \in Place : input[m] # "Eof" => m + 1 \in Place
  BY <1>1 DEF EndsInEof
<1>3. i + 1 - 1 = i /\ i + 2 - 1 = i + 1 /\ i + 3 - 1 = i + 2 /\ i + 4 - 1 = i + 3
      /\ (i + 1) + 1 = i + 2 /\ (i + 2) + 1 = i + 3 /\ (i + 2) + 1 - 1 = i + 2 /\ (i + 2) + 2 - 1 = i + 3
      /\ (i + 3) + 1 = i + 4
  BY <1>1
<1>4. Stands(i, ParamMore) <=> /\ i \in Place /\ input[i] = "Identifier"
                               /\ i + 1 \in Place /\ input[i + 1] = "TypeName"
                               /\ i + 2 \in Place /\ input[i + 2] = "Comma"
  BY <1>3 DEF Stands, ParamMore
<1>5. Stands(i, ParamLast) <=> /\ i \in Place /\ input[i] = "Identifier"
                               /\ i + 1 \in Place /\ input[i + 1] = "TypeName"
                               /\ i + 2 \in Place /\ input[i + 2] = "Rparen"
                               /\ i + 3 \in Place /\ input[i + 3] = "Lcurl"
  BY <1>3 DEF Stands, ParamLast
<1>6. Stands(i + 2, FundecEnd) <=> /\ i + 2 \in Place /\ input[i + 2] = "Rparen"
                                   /\ i + 3 \in Place /\ input[i + 3] = "Lcurl"
  BY <1>3 DEF Stands, FundecEnd
<1>7. QED
  BY <1>2, <1>3, <1>4, <1>5, <1>6

LEMMA ParamsBegin ==
  ASSUME EndsInEof, NEW i \in Place, NEW b \in Place, i <= b, IsParams(i, b)
  PROVE  /\ i + 2 <= b /\ input[i] = "Identifier" /\ input[i + 1] = "TypeName"
         /\ b = i + 2 => ParamCount(i, b) = 1
         /\ b # i + 2 => /\ input[i + 2] = "Comma" /\ i + 3 <= b /\ IsParams(i + 3, b)
                         /\ ParamCount(i, b) = ParamCount(i + 3, b) + 1
<1>1. PICK n \in Nat : n = b - i /\ b = i + n /\ i \in Nat
  BY DEF Place
<1>2. n % 3 = 2
  BY <1>1 DEF IsParams
<1>3. n >= 2 /\ (n = 2 \/ n >= 5)
  BY <1>2, ModIs
<1>4. ASSUME NEW d \in 0 .. n - 1
      PROVE  input[i + d] = IF d % 3 = 0 THEN "Identifier" ELSE IF d % 3 = 1 THEN "TypeName" ELSE "Comma"
  <2>1. i + d \in i .. b - 1 /\ (i + d) - i = d
    BY <1>1
  <2>2. QED
    BY <2>1 DEF IsParams
<1>5. input[i] = "Identifier" /\ input[i + 1] = "TypeName" /\ i + 2 <= b
  <2>1. i + 0 = i /\ 0 \in 0 .. n - 1 /\ 1 \in 0 .. n - 1 /\ i + 2 <= b
    BY <1>1, <1>3
  <2>2. input[i + 0] = "Identifier"
    BY <1>4, <2>1, ModIs
  <2>3. input[i + 1] = "TypeName"
    BY <1>4, <2>1, ModIs
  <2>4. QED
    BY <2>1, <2>2, <2>3
<1>6. ParamCount(i, b) = (n + 1) \div 3 /\ ParamCount(i + 3, b) = ((n - 3) + 1) \div 3
  <2>1. b - i + 1 = n + 1 /\ b - (i + 3) + 1 = (n - 3) + 1
    BY <1>1
  <2>2. QED
    BY <2>1 DEF ParamCount
<1>7. b = i + 2 => ParamCount(i, b) = 1
  <2>1. b = i + 2 => n = 2
    BY <1>1
  <2>2. QED
    BY <1>6, <2>1, ModIs
<1>8. ASSUME b # i + 2
      PROVE  /\ input[i + 2] = "Comma" /\ i + 3 <= b /\ IsParams(i + 3, b)
             /\ ParamCount(i, b) = ParamCount(i + 3, b) + 1
  <2>1. n >= 5 /\ i + 3 <= b
    BY <1>1, <1>3, <1>8
  <2>2. input[i + 2] = "Comma"
    BY <1>4, <2>1, ModIs
  <2>3. b - (i + 3) = n - 3 /\ n - 3 \in Int
    BY <1>1
  <2>4. ASSUME NEW m \in i + 3 .. b - 1
        PROVE  input[m] = IF (m - (i + 3)) % 3 = 0 THEN "Identifier"
                          ELSE IF (m - (i + 3)) % 3 = 1 THEN "TypeName" ELSE "Comma"
    <3>1. PICK d \in 0 .. n - 1 : m = i + d /\ m - (i + 3) = d - 3
      <4>1. m - i \in 0 .. n - 1 /\ m = i + (m - i) /\ m - (i + 3) = (m - i) - 3
        BY <1>1
      <4>2. QED
        BY <4>1
    <3>2. (d - 3) % 3 = d % 3
      BY ModIs
    <3>3. QED
      BY <1>4, <3>1, <3>2
  <2>5. (n - 3) % 3 = 2
    BY <1>2, ModIs
  <2>6. IsParams(i + 3, b)
    BY <2>3, <2>4, <2>5 DEF IsParams
  <2>7. QED
    BY <1>6, <2>1, <2>2, <2>6, ModIs
<1>9. QED
  BY <1>5, <1>7, <1>8

LEMMA ParamsMade ==
  ASSUME EndsInEof, NEW i \in Place, input[i] = "Identifier", input[i + 1] = "TypeName"
  PROVE  /\ IsParams(i, i + 2)
         /\ \A b \in Place : input[i + 2] = "Comma" /\ i + 3 <= b /\ IsParams(i + 3, b) => IsParams(i, b)
<1>1. i \in Nat
  BY DEF Place
<1>2. IsParams(i, i + 2)
  <2>1. \A m \in i .. (i + 2) - 1 : (m = i /\ m - i = 0) \/ (m = i + 1 /\ m - i = 1)
    BY <1>1
  <2>2. (i + 2) - i = 2
    BY <1>1
  <2>3. QED
    BY <2>1, <2>2, ModIs DEF IsParams
<1>3. ASSUME NEW b \in Place, input[i + 2] = "Comma", i + 3 <= b, IsParams(i + 3, b)
      PROVE  IsParams(i, b)
  <2>1. (b - i) % 3 = 2
    <3>1. b - (i + 3) = (b - i) - 3 /\ b - i \in Int
      BY <1>1 DEF Place
    <3>2. (b - (i + 3)) % 3 = 2
      BY <1>3 DEF IsParams
    <3>3. QED
      BY <3>1, <3>2, ModIs
  <2>2. ASSUME NEW m \in i .. b - 1
        PROVE  input[m] = IF (m - i) % 3 = 0 THEN "Identifier"
                          ELSE IF (m - i) % 3 = 1 THEN "TypeName" ELSE "Comma"
    <3>1. b \in Nat /\ m \in Nat
      BY <1>1 DEF Place
    <3>2. CASE m \in i + 3 .. b - 1
      <4>1. (m - (i + 3)) % 3 = (m - i) % 3
        <5>1. m - (i + 3) = (m - i) - 3 /\ m - i \in Int
          BY <1>1, <3>1
        <5>2. QED
          BY <5>1, ModIs
      <4>2. input[m] = IF (m - (i + 3)) % 3 = 0 THEN "Identifier"
                       ELSE IF (m - (i + 3)) % 3 = 1 THEN "TypeName" ELSE "Comma"
        BY <1>3, <3>2 DEF IsParams
      <4>3. QED
        BY <4>1, <4>2
    <3>3. CASE m \notin i + 3 .. b - 1
      <4>1. (m = i /\ m - i = 0) \/ (m = i + 1 /\ m - i = 1) \/ (m = i + 2 /\ m - i = 2)
        BY <1>1, <3>1, <3>3
      <4>2. QED
        BY <1>3, <4>1, ModIs
    <3>4. QED
      BY <3>2, <3>3
  <2>3. QED
    BY <2>1, <2>2 DEF IsParams
<1>4. QED
  BY <1>2, <1>3

LEMMA ParamStep ==
  ASSUME EndsInEof, NEW i \in Place, NEW n \in Nat, NEW K
  PROVE  /\ Stands(i, ParamMore) => (ParamsAccept(n, K, i) <=> ParamsAccept(n + 1, K, i + 3))
         /\ ~ Stands(i, ParamMore) =>
              (ParamsAccept(n, K, i) <=> Stands(i, ParamLast) /\ Body(n + 1, K, i + 4))
<1>1. ASSUME NEW b \in Place, i <= b, IsParams(i, b), Stands(b, FundecEnd), Body(n + ParamCount(i, b), K, b + 2)
      PROVE  /\ Stands(i, ParamMore) => ParamsAccept(n + 1, K, i + 3)
             /\ ~ Stands(i, ParamMore) => Stands(i, ParamLast) /\ Body(n + 1, K, i + 4)
  <2>1. input[b] = "Rparen"
    BY <1>1, StandsAre
  <2>2. CASE b = i + 2
    <3>1. ~ Stands(i, ParamMore)
      BY <2>1, <2>2, ParamStands
    <3>2. Stands(i, ParamLast)
      BY <1>1, <2>2, ParamsBegin, ParamStands
    <3>3. b + 2 = i + 4 /\ ParamCount(i, b) = 1
      BY <1>1, <2>2, ParamsBegin DEF Place
    <3>4. QED
      BY <1>1, <3>1, <3>2, <3>3
  <2>3. CASE b # i + 2
    <3>1. /\ input[i + 2] = "Comma" /\ i + 3 <= b /\ IsParams(i + 3, b)
          /\ ParamCount(i, b) = ParamCount(i + 3, b) + 1
          /\ input[i] = "Identifier" /\ input[i + 1] = "TypeName"
      BY <1>1, <2>3, ParamsBegin
    <3>2. Stands(i, ParamMore)
      BY <3>1, ParamStands
    <3>3. n + ParamCount(i, b) = (n + 1) + ParamCount(i + 3, b)
      <4>1. \A c \in Int : n + (c + 1) = (n + 1) + c
        OBVIOUS
      <4>2. ParamCount(i + 3, b) \in Int
        BY DEF ParamCount, Place
      <4>3. QED
        BY <3>1, <4>1, <4>2
    <3>4. ParamsAccept(n + 1, K, i + 3)
      BY <1>1, <3>1, <3>3 DEF ParamsAccept
    <3>5. QED
      BY <3>2, <3>4
  <2>4. QED
    BY <2>2, <2>3
<1>2. ASSUME Stands(i, ParamMore), ParamsAccept(n + 1, K, i + 3) PROVE ParamsAccept(n, K, i)
  <2>1. PICK b \in Place : /\ i + 3 <= b /\ IsParams(i + 3, b) /\ Stands(b, FundecEnd)
                           /\ Body((n + 1) + ParamCount(i + 3, b), K, b + 2)
    BY <1>2 DEF ParamsAccept
  <2>2. i <= b /\ IsParams(i, b) /\ b # i + 2
    <3>1. IsParams(i, b)
      BY <1>2, <2>1, ParamStands, ParamsMade
    <3>2. i <= b /\ b # i + 2
      BY <2>1 DEF Place
    <3>3. QED
      BY <3>1, <3>2
  <2>3. n + ParamCount(i, b) = (n + 1) + ParamCount(i + 3, b)
    <3>1. \A c \in Int : n + (c + 1) = (n + 1) + c
      OBVIOUS
    <3>2. ParamCount(i + 3, b) \in Int
      BY DEF ParamCount, Place
    <3>3. QED
      BY <2>2, <3>1, <3>2, ParamsBegin
  <2>4. QED
    BY <2>1, <2>2, <2>3 DEF ParamsAccept
<1>3. ASSUME Stands(i, ParamLast), Body(n + 1, K, i + 4) PROVE ParamsAccept(n, K, i)
  <2>1. i + 2 \in Place /\ Stands(i + 2, FundecEnd) /\ IsParams(i, i + 2)
    BY <1>3, ParamStands, ParamsMade
  <2>2. i <= i + 2 /\ (i + 2) + 2 = i + 4
    BY DEF Place
  <2>3. ParamCount(i, i + 2) = 1
    BY <2>1, <2>2, ParamsBegin
  <2>4. QED
    BY <1>3, <2>1, <2>2, <2>3 DEF ParamsAccept
<1>4. QED
  BY <1>1, <1>2, <1>3 DEF ParamsAccept

LEMMA FundecAccepts ==
  ASSUME EndsInEof, NEW i \in Place, NEW K, input[i] = "KeywordFun"
  PROVE  /\ StmtAccepts(i, K) => Stands(i, FundecHead)
         /\ Stands(i, FundecHead) => i + 4 \in Place
         /\ Stands(i, FundecHead) /\ input[i + 4] = "Rparen" =>
              (StmtAccepts(i, K) <=> Stands(i + 4, FundecEnd) /\ Body(0, K, i + 6))
         /\ Stands(i, FundecHead) /\ input[i + 4] # "Rparen" =>
              (StmtAccepts(i, K) <=> ParamsAccept(0, K, i + 4))
<1> DEFINE made(b, l) == Node("FundecStmt", ParamCount(i + 4, b), <<>>, <<l>>)
           ok(b) == Stands(b, FundecEnd) /\ (b = i + 4 \/ IsParams(i + 4, b))
<1>1. input[i] \notin SimpleStart /\ i \in Nat
  BY DEF SimpleStart, Place
<1>2. ASSUME NEW n \in Nat, NEW a \in Place
      PROVE  Body(n, K, a) <=> \E j \in Place : \E l \in StmtLists[<<a, j>>] :
               input[j] = "Rcurl" /\ <<Node("FundecStmt", n, <<>>, <<l>>), j + 1>> \in K
  <2>1. "FundecStmt" \in BlockKinds /\ "FundecStmt" \notin TwoKinds /\ <<>> \in Seq(Trees)
        /\ Second("FundecStmt") = <<>>
    BY DEF BlockKinds, TwoKinds, Second
  <2>2. \A l : <<l>> \o <<>> = <<l>>
    <3>1. \A l : <<l>> \in Seq({l})
      OBVIOUS
    <3>2. \A S, s : s \in Seq(S) => s \o <<>> = s
      BY ConcatProperties
    <3>3. QED
      BY <3>1, <3>2
  <2>3. PICK k : k = "FundecStmt"
    OBVIOUS
  <2>4. Body(n, K, a) <=>
           \E j \in Place : \E l \in StmtLists[<<a, j>>] :
             \/ input[j] = "Rcurl" /\ <<Node(k, n, <<>>, <<l>> \o Second(k)), j + 1>> \in K
             \/ /\ k \in TwoKinds /\ Stands(j, Between(OtherWord(k)))
                /\ \E q \in Place : \E r \in StmtLists[<<j + 3, q>>] :
                     input[q] = "Rcurl" /\ <<Node(k, n, <<>>, <<l, r>>), q + 1>> \in K
    BY <2>1, <2>3, ListStartAccepts DEF Body
  <2>5. \A l : <<l>> \o Second(k) = <<l>>
    BY <2>1, <2>2, <2>3
  <2>6. QED
    BY <2>1, <2>3, <2>4, <2>5
<1>3. ASSUME NEW p \in Place, input[p] = "Rcurl", NEW s
      PROVE  BlockIn(StmtLists, i, p + 1, s) <=>
               /\ Stands(i, FundecHead)
               /\ \E b \in i .. p : ok(b) /\ \E l \in StmtLists[<<b + 2, p>>] : s = made(b, l)
  <2>1. (p + 1) - 1 = p
    BY <1>3, NoEofThere
  <2>2. QED
    BY <1>3, <2>1 DEF BlockIn, FundecIn
<1>4. ASSUME Stands(i, FundecHead)
      PROVE  i + 4 \in Place /\ \A b \in Place : ok(b) /\ i <= b => i + 4 <= b
  <2>1. i + 4 \in Place
    BY <1>4, StandsAre
  <2>2. input[i] = "KeywordFun" /\ input[i + 1] = "Identifier" /\ input[i + 2] = "TypeName" /\ input[i + 3] = "Lparen"
    <3>1. i + 1 - 1 = i /\ i + 2 - 1 = i + 1 /\ i + 3 - 1 = i + 2 /\ i + 4 - 1 = i + 3
      BY <1>1
    <3>2. QED
      BY <1>4, <3>1 DEF Stands, FundecHead
  <2>3. ASSUME NEW b \in Place, ok(b), i <= b PROVE i + 4 <= b
    <3>1. input[b] = "Rparen"
      BY <2>3, StandsAre
    <3>2. b # i /\ b # i + 1 /\ b # i + 2 /\ b # i + 3
      BY <2>2, <3>1
    <3>3. QED
      BY <1>1, <2>3, <3>2 DEF Place
  <2>4. QED
    BY <2>1, <2>3
<1>5. ASSUME NEW b \in Place PROVE Stands(b, FundecEnd) => b + 2 \in Place /\ input[b] = "Rparen"
  BY StandsAre
<1> DEFINE from(b) == /\ ok(b) /\ i <= b
                      /\ Body(ParamCount(i + 4, b), K, b + 2)
<1>6. ASSUME Stands(i, FundecHead), NEW b \in Place, i <= b, ok(b)
      PROVE  ParamCount(i + 4, b) \in Nat
  <2>1. i + 4 <= b
    BY <1>4, <1>6
  <2>2. PICK d \in Nat : d = b - (i + 4) + 1
    BY <1>1, <2>1 DEF Place
  <2>3. \A c \in Nat : c \div 3 \in Nat
    OBVIOUS
  <2>4. QED
    BY <2>2, <2>3 DEF ParamCount
<1> HIDE DEF made, ok
<1>7. ASSUME StmtAccepts(i, K) PROVE Stands(i, FundecHead) /\ \E b \in Place : from(b)
  <2>1. PICK p \in Place : i <= p /\ input[p] = "Rcurl" /\ \E s : BlockIn(StmtLists, i, p + 1, s) /\ <<s, p + 1>> \in K
    BY <1>1, <1>7, SimpleOrBlock
  <2>2. Stands(i, FundecHead)
    BY <1>3, <2>1
  <2>8. PICK s : BlockIn(StmtLists, i, p + 1, s) /\ <<s, p + 1>> \in K
    BY <2>1
  <2>9. \E b \in i .. p : ok(b) /\ \E l \in StmtLists[<<b + 2, p>>] : s = made(b, l)
    BY <1>3, <2>1, <2>8
  <2>3. PICK b \in i .. p : ok(b) /\ \E l \in StmtLists[<<b + 2, p>>] : <<made(b, l), p + 1>> \in K
    BY <2>8, <2>9
  <2>4. b \in Place /\ i <= b
    BY DEF Place
  <2>5. b + 2 \in Place
    BY <1>5, <2>3, <2>4 DEF ok
  <2>6. Body(ParamCount(i + 4, b), K, b + 2)
    BY <1>2, <1>6, <2>1, <2>2, <2>3, <2>4, <2>5 DEF made
  <2>7. QED
    BY <2>2, <2>3, <2>4, <2>6
<1>8. ASSUME Stands(i, FundecHead), NEW b \in Place, from(b) PROVE StmtAccepts(i, K)
  <2>1. b + 2 \in Place
    BY <1>5, <1>8 DEF ok
  <2>2. PICK p \in Place : \E l \in StmtLists[<<b + 2, p>>] : input[p] = "Rcurl" /\ <<made(b, l), p + 1>> \in K
    BY <1>2, <1>6, <1>8, <2>1 DEF made
  <2>3. PICK l \in StmtLists[<<b + 2, p>>] : input[p] = "Rcurl" /\ <<made(b, l), p + 1>> \in K
    BY <2>2
  <2>4. b + 2 <= p
    <3>1. p < b + 2 => StmtLists[<<b + 2, p>>] = {}
      BY <2>1, ListsAre, NoListsBackwards
    <3>2. QED
      BY <2>1, <2>3, <3>1 DEF Place
  <2>5. b \in i .. p /\ i <= p
    BY <1>8, <2>4 DEF Place
  <2>6. BlockIn(StmtLists, i, p + 1, made(b, l))
    BY <1>3, <1>8, <2>3, <2>5
  <2>7. QED
    BY <1>1, <2>3, <2>5, <2>6, SimpleOrBlock
<1>9. ASSUME Stands(i, FundecHead), input[i + 4] = "Rparen"
      PROVE  StmtAccepts(i, K) <=> Stands(i + 4, FundecEnd) /\ Body(0, K, i + 6)
  <2>1. i + 4 \in Place /\ i <= i + 4 /\ (i + 4) + 2 = i + 6
    BY <1>1, <1>4, <1>9
  <2>2. ParamCount(i + 4, i + 4) = 0
    <3>1. (i + 4) - (i + 4) + 1 = 0 + 1
      BY <1>1
    <3>2. QED
      BY <3>1, ModIs DEF ParamCount
  <2>3. from(i + 4) <=> Stands(i + 4, FundecEnd) /\ Body(0, K, i + 6)
    BY <2>1, <2>2 DEF ok
  <2>4. ASSUME NEW b \in Place, from(b) PROVE b = i + 4
    <3>1. i + 4 <= b
      BY <1>4, <1>9, <2>4
    <3>2. IsParams(i + 4, b) => input[i + 4] = "Identifier"
      BY <2>1, <3>1, ParamsBegin
    <3>3. QED
      BY <1>9, <2>4, <3>2 DEF ok
  <2> HIDE DEF from
  <2>5. QED
    BY <1>7, <1>8, <1>9, <2>1, <2>3, <2>4
<1>10. ASSUME Stands(i, FundecHead), input[i + 4] # "Rparen"
       PROVE  StmtAccepts(i, K) <=> ParamsAccept(0, K, i + 4)
  <2>1. i + 4 \in Place
    BY <1>4, <1>10
  <2>2. ASSUME NEW b \in Place
        PROVE  from(b) <=> /\ i + 4 <= b /\ IsParams(i + 4, b) /\ Stands(b, FundecEnd)
                           /\ Body(0 + ParamCount(i + 4, b), K, b + 2)
    <3>1. ok(b) => b # i + 4 /\ Stands(b, FundecEnd) /\ IsParams(i + 4, b)
      BY <1>5, <1>10 DEF ok
    <3>2. Stands(b, FundecEnd) /\ IsParams(i + 4, b) => ok(b)
      BY DEF ok
    <3>3. i + 4 <= b => i <= b
      BY <1>1 DEF Place
    <3>4. ok(b) /\ i <= b => 0 + ParamCount(i + 4, b) = ParamCount(i + 4, b) /\ i + 4 <= b
      BY <1>4, <1>6, <1>10
    <3>5. QED
      BY <3>1, <3>2, <3>3, <3>4
  <2> HIDE DEF from
  <2>3. QED
    BY <1>7, <1>8, <1>10, <2>2 DEF ParamsAccept
<1>11. QED
  BY <1>4, <1>7, <1>9, <1>10
-----------------------------------------------------------------------------
(* The loop over a list, by the token it is at.                            *)
LEMMA EofIsLast ==
  ASSUME EndsInEof, NEW i \in Place
  PROVE  input[i] = "Eof" <=> i = Len(input)
  BY DEF EndsInEof, Place

LEMMA ClosesAt ==
  ASSUME EndsInEof, NEW f, NEW K, NEW i \in Place, Closes(f, K, i)
  PROVE  input[i] = IF f.kind = "Stmts" THEN "Eof" ELSE "Rcurl"
<1>1. Stands(i, Between(OtherWord(f.kind))) => input[i] = "Rcurl"
  BY StandsAre DEF OtherWord
<1>2. QED
  BY <1>1, EofIsLast DEF Closes, ListEnds

LEMMA ListAt ==
  ASSUME EndsInEof, NEW f \in ListFrames, NEW K, NEW i \in Place
  PROVE  /\ input[i] \in StmtStart => (ListAccepts(f, K, i) <=> StmtAccepts(i, AfterStmt(f, K)))
         /\ input[i] \notin StmtStart => (ListAccepts(f, K, i) <=> Closes(f, K, i))
<1>1. Closes(f, K, i) => input[i] \notin StmtStart
  <2>1. "Eof" \notin StmtStart /\ "Rcurl" \notin StmtStart
    BY DEF StmtStart
  <2>2. QED
    BY <2>1, ClosesAt
<1>2. StmtAccepts(i, AfterStmt(f, K)) => input[i] \in StmtStart
  BY SimpleOrBlock
<1>3. QED
  BY <1>1, <1>2, ListStep

LEMMA StmtsNoOther ==
  ASSUME EndsInEof, NEW f \in ListFrames, NEW K
  PROVE  NoOther(AfterStmt(f, K))
<1> SUFFICES ASSUME NEW s, NEW j, <<s, j>> \in AfterStmt(f, K), input[j] \in {"KeywordElse", "KeywordOtherwise"}
             PROVE  FALSE
  BY DEF NoOther, AfterStmt
<1>1. s \in Trees /\ j \in Place /\ ListAccepts(Gains(f, s), K, j)
  BY DEF AfterStmt
<1>2. Gains(f, s) \in ListFrames
  BY <1>1, GainsAre
<1>3. input[j] \notin StmtStart
  BY DEF StmtStart
<1>4. Closes(Gains(f, s), K, j)
  BY <1>1, <1>2, <1>3, ListAt
<1>5. QED
  BY <1>1, <1>4, ClosesAt

(* A list in the place of a second one.                                    *)
LEMMA SecondAccepts ==
  ASSUME EndsInEof, NEW f \in ListFrames, f.kind # "Stmts", f.in = 2, NEW K, NEW i \in Place
  PROVE  ListAccepts(f, K, i) <=> EndsSecond(f, K, i)
<1>1. ASSUME NEW l, NEW j PROVE Closes(WithList(f, l), K, j) <=> ListEnds(WithList(f, l), K, j)
  <2>1. WithList(f, l).kind = f.kind /\ WithList(f, l).in = 2
    BY GainsAre
  <2>2. QED
    BY <2>1 DEF Closes
<1>2. QED
  BY <1>1 DEF ListAccepts, EndsSecond

LEMMA CloseAt ==
  ASSUME EndsInEof, NEW f \in ListFrames, NEW K, NEW i \in Place
  PROVE  /\ f.kind = "Stmts" /\ input[i] = "Eof" =>
              (ListAccepts(f, K, i) <=> <<f.lists[1], i>> \in K)
         /\ input[i] \notin StmtStart \union {Closing(f.kind)} => ~ ListAccepts(f, K, i)
         /\ f.kind # "Stmts" /\ input[i] = "Rcurl" =>
              /\ i + 1 \in Place
              /\ ~ (f.kind \in TwoKinds /\ f.in = 1 /\ input[i + 1] = OtherWord(f.kind)) =>
                   (ListAccepts(f, K, i) <=> <<Stmt(f), i + 1>> \in K)
              /\ f.kind \in TwoKinds /\ f.in = 1 /\ input[i + 1] = OtherWord(f.kind) /\ NoOther(K)
                   /\ OtherList(f) \in ListFrames =>
                   /\ Stands(i, Between(OtherWord(f.kind))) => i + 3 \in Place
                   /\ ListAccepts(f, K, i) <=>
                        Stands(i, Between(OtherWord(f.kind))) /\ ListAccepts(OtherList(f), K, i + 3)
<1>1. "Eof" \notin StmtStart /\ "Rcurl" \notin StmtStart
  BY DEF StmtStart
<1>2. Closing(f.kind) = IF f.kind = "Stmts" THEN "Eof" ELSE "Rcurl"
  BY DEF Closing
<1>3. f.kind = "Stmts" /\ input[i] = "Eof" => (ListAccepts(f, K, i) <=> <<f.lists[1], i>> \in K)
  BY <1>1, ListAt, EofIsLast DEF Closes, ListEnds
<1>4. input[i] \notin StmtStart \union {Closing(f.kind)} => ~ ListAccepts(f, K, i)
  BY <1>2, ListAt, ClosesAt
<1>5. ASSUME f.kind # "Stmts", input[i] = "Rcurl"
      PROVE  /\ i + 1 \in Place
             /\ ~ (f.kind \in TwoKinds /\ f.in = 1 /\ input[i + 1] = OtherWord(f.kind)) =>
                   (ListAccepts(f, K, i) <=> <<Stmt(f), i + 1>> \in K)
             /\ f.kind \in TwoKinds /\ f.in = 1 /\ input[i + 1] = OtherWord(f.kind) /\ NoOther(K)
                   /\ OtherList(f) \in ListFrames =>
                   /\ Stands(i, Between(OtherWord(f.kind))) => i + 3 \in Place
                   /\ ListAccepts(f, K, i) <=>
                        Stands(i, Between(OtherWord(f.kind))) /\ ListAccepts(OtherList(f), K, i + 3)
  <2> DEFINE word == OtherWord(f.kind)
  <2>1. i + 1 \in Place
    BY <1>5, NoEofThere
  <2>2. ListAccepts(f, K, i) <=>
          \/ <<Stmt(f), i + 1>> \in K
          \/ f.kind \in TwoKinds /\ f.in = 1 /\ Stands(i, Between(word)) /\ EndsSecond(OtherList(f), K, i + 3)
    BY <1>1, <1>5, ListAt DEF Closes, ListEnds, TwoKinds
  <2>3. word \in {"KeywordElse", "KeywordOtherwise"}
    BY DEF OtherWord
  <2> HIDE DEF word
  <2>4. Stands(i, Between(word)) => input[i + 1] = word /\ i + 3 \in Place
    BY <2>3, StandsAre
  <2>5. ASSUME f.kind \in TwoKinds, f.in = 1, input[i + 1] = word, NoOther(K), OtherList(f) \in ListFrames,
               Stands(i, Between(word))
        PROVE  EndsSecond(OtherList(f), K, i + 3) <=> ListAccepts(OtherList(f), K, i + 3)
    <3>1. OtherList(f).kind = f.kind /\ OtherList(f).in = 2
      BY DEF ListFrames, StmtFrames, OtherList
    <3>2. QED
      BY <1>5, <2>4, <2>5, <3>1, SecondAccepts
  <2>6. NoOther(K) /\ input[i + 1] = word => <<Stmt(f), i + 1>> \notin K
    BY <2>3 DEF NoOther
  <2>7. QED
    BY <2>1, <2>2, <2>4, <2>5, <2>6 DEF word
<1>6. QED
  BY <1>3, <1>4, <1>5
-----------------------------------------------------------------------------
LEMMA FramesApart ==
  /\ \A f \in ExpFrames : f.at \in {"operand", "loop", "paren", "prefix", "infix", "call"}
  /\ \A f \in WholeFrames : f.at \in {"list", "params", "exp"} /\ f \notin ExpFrames
<1>1. \A f \in ExpFrames : f.at \in {"operand", "loop", "paren", "prefix", "infix", "call"}
  BY DEF ExpFrames
<1>2. \A f \in WholeFrames : f.at \in {"list", "params", "exp"}
  BY DEF WholeFrames, StmtFrames
<1>3. QED
  BY <1>1, <1>2

LEMMA CutIs ==
  ASSUME NEW S, NEW s \in Seq(S), NEW k \in 1 .. Len(s), NEW f
  PROVE  /\ f \in S => Cut(s, k, f) \in Seq(S)
         /\ Len(Cut(s, k, f)) = k /\ Cut(s, k, f)[k] = f
         /\ \A d \in 1 .. k - 1 : Cut(s, k, f)[d] = s[d]
<1>1. SubSeq(s, 1, k - 1) \in Seq(S) /\ Len(SubSeq(s, 1, k - 1)) = k - 1
      /\ \A d \in 1 .. k - 1 : SubSeq(s, 1, k - 1)[d] = s[d]
  OBVIOUS
<1>2. SubSeq(s, 1, k - 1) \in Seq(S \union {f})
  BY <1>1
<1>3. Len(Cut(s, k, f)) = k /\ Cut(s, k, f)[k] = f
      /\ \A d \in 1 .. k - 1 : Cut(s, k, f)[d] = s[d]
  BY <1>1, <1>2 DEF Cut
<1>4. f \in S => Cut(s, k, f) \in Seq(S)
  BY <1>1 DEF Cut
<1>5. QED
  BY <1>3, <1>4

LEMMA StackCut ==
  ASSUME NEW s \in Stacks, NEW k \in 1 .. Len(s), NEW f \in ExpFrames \union WholeFrames,
         k = 1 => f \in WholeFrames /\ f.at = "list" /\ f.kind = "Stmts",
         k > 1 => Stacked(s[k - 1], f)
  PROVE  Cut(s, k, f) \in Stacks
<1> DEFINE S == ExpFrames \union WholeFrames
           t == Cut(s, k, f)
<1>1. s \in Seq(S) /\ Len(s) \in Nat
  BY DEF Stacks
<1> HIDE DEF S
<1>2. t \in Seq(S) /\ Len(t) = k /\ t[k] = f /\ \A d \in 1 .. k - 1 : t[d] = s[d]
  BY <1>1, CutIs DEF S
<1> HIDE DEF t
<1>3. t # <<>> /\ t[1] \in WholeFrames /\ t[1].at = "list" /\ t[1].kind = "Stmts"
  <2>1. t # <<>>
    BY <1>2
  <2>2. CASE k = 1
    BY <1>2, <2>1, <2>2
  <2>3. CASE k # 1
    <3>1. t[1] = s[1]
      BY <1>1, <1>2, <2>3
    <3>2. QED
      BY <2>1, <3>1 DEF Stacks
  <2>4. QED
    BY <2>2, <2>3
<1>4. ASSUME NEW d \in 1 .. k - 1 PROVE Stacked(t[d], t[d + 1])
  <2>1. CASE d = k - 1
    <3>1. k > 1 /\ d + 1 = k /\ t[d] = s[k - 1]
      BY <1>1, <1>2, <2>1
    <3>2. QED
      BY <1>2, <3>1
  <2>2. CASE d # k - 1
    <3>1. t[d] = s[d] /\ t[d + 1] = s[d + 1] /\ d \in 1 .. Len(s) - 1
      BY <1>1, <1>2, <2>2
    <3>2. QED
      BY <3>1 DEF Stacks
  <2>3. QED
    BY <2>1, <2>2
<1>5. QED
  BY <1>2, <1>3, <1>4 DEF Stacks, S, t

LEMMA StackPush ==
  ASSUME NEW s \in Stacks, NEW f \in ExpFrames \union WholeFrames, Stacked(s[Len(s)], f)
  PROVE  /\ Append(s, f) \in Stacks /\ Len(Append(s, f)) = Len(s) + 1
         /\ Append(s, f)[Len(s) + 1] = f /\ \A d \in 1 .. Len(s) : Append(s, f)[d] = s[d]
<1> DEFINE S == ExpFrames \union WholeFrames
           t == Append(s, f)
<1>1. s \in Seq(S) /\ Len(s) \in Nat /\ Len(s) > 0
  BY DEF Stacks
<1> HIDE DEF S
<1>2. f \in S
  BY DEF S
<1>3. t \in Seq(S) /\ Len(t) = Len(s) + 1 /\ t[Len(s) + 1] = f /\ \A d \in 1 .. Len(s) : t[d] = s[d]
  BY <1>1, <1>2
<1> HIDE DEF t
<1>4. t # <<>> /\ t[1] = s[1]
  BY <1>1, <1>3
<1>5. ASSUME NEW d \in 1 .. Len(t) - 1 PROVE Stacked(t[d], t[d + 1])
  <2>1. CASE d = Len(s)
    BY <1>1, <1>3, <2>1
  <2>2. CASE d # Len(s)
    <3>1. t[d] = s[d] /\ t[d + 1] = s[d + 1] /\ d \in 1 .. Len(s) - 1
      BY <1>1, <1>3, <2>2
    <3>2. QED
      BY <3>1 DEF Stacks
  <2>3. QED
    BY <2>1, <2>2
<1>6. t \in Stacks
  BY <1>3, <1>4, <1>5 DEF Stacks, S
<1>7. QED
  BY <1>3, <1>6 DEF t

LEMMA ContsCut ==
  ASSUME NEW s \in Stacks, NEW p, NEW c, Conts(s, p, c), NEW k \in 1 .. Len(s), NEW f, Fits(f, c[k])
  PROVE  Conts(Cut(s, k, f), p, [d \in 1 .. k |-> c[d]])
<1> DEFINE t == Cut(s, k, f)
           b == [d \in 1 .. k |-> c[d]]
<1>1. Len(t) = k /\ t[k] = f /\ (\A d \in 1 .. k - 1 : t[d] = s[d]) /\ Len(s) \in Nat
  BY CutIs DEF Stacks
<1> HIDE DEF t
<1>2. DOMAIN b = 1 .. Len(t) /\ b[1] = {<<p, Len(input)>>}
  BY <1>1 DEF Conts
<1>3. ASSUME NEW d \in 1 .. Len(t) - 1 PROVE b[d + 1] = Cont(t[d], b[d])
  <2>1. d \in 1 .. Len(s) - 1 /\ t[d] = s[d] /\ b[d] = c[d] /\ b[d + 1] = c[d + 1]
    BY <1>1
  <2>2. QED
    BY <2>1 DEF Conts
<1>4. ASSUME NEW d \in 1 .. Len(t) PROVE Fits(t[d], b[d])
  <2>1. b[d] = c[d] /\ d \in 1 .. Len(s) /\ (d = k \/ t[d] = s[d])
    BY <1>1
  <2>2. QED
    BY <1>1, <2>1 DEF Conts
<1> HIDE DEF b
<1>5. QED
  BY <1>2, <1>3, <1>4 DEF Conts, t, b

LEMMA ContsPush ==
  ASSUME NEW s \in Stacks, NEW p, NEW c, Conts(s, p, c), NEW f \in ExpFrames \union WholeFrames,
         Stacked(s[Len(s)], f), NEW K, K = Cont(s[Len(s)], c[Len(s)]), Fits(f, K)
  PROVE  Conts(Append(s, f), p, [d \in 1 .. Len(s) + 1 |-> IF d = Len(s) + 1 THEN K ELSE c[d]])
<1> DEFINE t == Append(s, f)
           b == [d \in 1 .. Len(s) + 1 |-> IF d = Len(s) + 1 THEN K ELSE c[d]]
<1>1. Len(t) = Len(s) + 1 /\ t[Len(s) + 1] = f /\ (\A d \in 1 .. Len(s) : t[d] = s[d])
  BY StackPush
<1>2. Len(s) \in Nat /\ Len(s) > 0
  BY DEF Stacks
<1> HIDE DEF t
<1>3. DOMAIN b = 1 .. Len(t) /\ b[1] = {<<p, Len(input)>>}
  BY <1>1, <1>2 DEF Conts
<1>4. ASSUME NEW d \in 1 .. Len(t) - 1 PROVE b[d + 1] = Cont(t[d], b[d])
  <2>1. CASE d = Len(s)
    BY <1>1, <1>2, <2>1
  <2>2. CASE d # Len(s)
    <3>1. d \in 1 .. Len(s) - 1 /\ t[d] = s[d] /\ b[d] = c[d] /\ b[d + 1] = c[d + 1]
      BY <1>1, <1>2, <2>2
    <3>2. QED
      BY <3>1 DEF Conts
  <2>3. QED
    BY <2>1, <2>2
<1>5. ASSUME NEW d \in 1 .. Len(t) PROVE Fits(t[d], b[d])
  <2>1. CASE d = Len(s) + 1
    BY <1>1, <1>2, <2>1
  <2>2. CASE d # Len(s) + 1
    <3>1. d \in 1 .. Len(s) /\ t[d] = s[d] /\ b[d] = c[d]
      BY <1>1, <1>2, <2>2
    <3>2. QED
      BY <3>1 DEF Conts
  <2>3. QED
    BY <2>1, <2>2
<1> HIDE DEF b
<1>6. QED
  BY <1>3, <1>4, <1>5 DEF Conts, t, b
-----------------------------------------------------------------------------
(* A step that cuts the calls at k and goes on with f there, and perhaps   *)
(* with calls above it, keeps their meaning if what the top was accepted   *)
(* with is what the new top is.                                            *)
LEMMA ContsKnown ==
  ASSUME NEW s \in Stacks, NEW p, NEW c, Conts(s, p, c), NEW k \in 1 .. Len(s), k >= Len(s) - 2
  PROVE  Known(s, k, c[k]) /\ c[Len(s)] = Through(s, k, c[k])
<1>1. PICK n \in Nat : n = Len(s)
  BY DEF Stacks
<1>2. \A d \in 1 .. n : Fits(s[d], c[d])
  BY <1>1 DEF Conts
<1>3. \A d \in 1 .. n - 1 : c[d + 1] = Cont(s[d], c[d])
  BY <1>1 DEF Conts
<1>4. CASE k = n
  BY <1>1, <1>2, <1>4 DEF Known, Through
<1>5. CASE k = n - 1
  <2>1. c[k + 1] = Cont(s[k], c[k]) /\ k + 1 = n /\ k < n /\ ~ (k < n - 1) /\ k # n
    BY <1>1, <1>3, <1>5
  <2>2. QED
    BY <1>1, <1>2, <1>5, <2>1 DEF Known, Through
<1>6. CASE k = n - 2
  <2>1. c[k + 1] = Cont(s[k], c[k])
    BY <1>1, <1>3, <1>6
  <2>2. c[k + 2] = Cont(s[k + 1], c[k + 1])
    <3>1. k + 1 \in 1 .. n - 1 /\ (k + 1) + 1 = k + 2
      BY <1>1, <1>6
    <3>2. QED
      BY <1>3, <3>1
  <2>3. k + 2 = n /\ k + 1 \in 1 .. n /\ k # n /\ k # n - 1
    BY <1>1, <1>6
  <2>4. QED
    BY <1>1, <1>2, <1>6, <2>1, <2>2, <2>3 DEF Known, Through
<1>7. QED
  BY <1>1, <1>4, <1>5, <1>6

LEMMA MeansCut ==
  ASSUME NEW s \in Stacks, NEW i, NEW j, Means(s, i), NEW k \in 1 .. Len(s), k >= Len(s) - 2, NEW f,
         \A K : Known(s, k, K) =>
           Fits(f, K) /\ (Accepting(s[Len(s)], Through(s, k, K), i) <=> Accepting(f, K, j))
  PROVE  Means(Cut(s, k, f), j)
<1> SUFFICES ASSUME NEW p \in Seq(Trees)
             PROVE  \E c : /\ Conts(Cut(s, k, f), p, c)
                           /\ p \in Program <=> Accepting(Cut(s, k, f)[Len(Cut(s, k, f))], c[Len(Cut(s, k, f))], j)
  BY DEF Means
<1>1. PICK c : Conts(s, p, c) /\ (p \in Program <=> Accepting(s[Len(s)], c[Len(s)], i))
  BY DEF Means
<1>2. Fits(f, c[k]) /\ (p \in Program <=> Accepting(f, c[k], j))
  BY <1>1, ContsKnown
<1> DEFINE b == [d \in 1 .. k |-> c[d]]
<1>3. Conts(Cut(s, k, f), p, b)
  BY <1>1, <1>2, ContsCut
<1>4. Len(Cut(s, k, f)) = k /\ Cut(s, k, f)[k] = f
  BY CutIs DEF Stacks
<1>5. b[k] = c[k]
  OBVIOUS
<1> HIDE DEF b
<1>6. QED
  BY <1>2, <1>3, <1>4, <1>5

LEMMA MeansPush ==
  ASSUME NEW s \in Stacks, NEW i, NEW j, Means(s, i), NEW f \in ExpFrames \union WholeFrames,
         Stacked(s[Len(s)], f),
         \A K : Fits(s[Len(s)], K) =>
           /\ Fits(f, Cont(s[Len(s)], K))
           /\ Accepting(s[Len(s)], K, i) <=> Accepting(f, Cont(s[Len(s)], K), j)
  PROVE  Means(Append(s, f), j)
<1> DEFINE n == Len(s)
           t == Append(s, f)
<1> SUFFICES ASSUME NEW p \in Seq(Trees)
             PROVE  \E c : Conts(t, p, c) /\ (p \in Program <=> Accepting(t[Len(t)], c[Len(t)], j))
  BY DEF Means
<1>1. PICK c : Conts(s, p, c) /\ (p \in Program <=> Accepting(s[n], c[n], i))
  BY DEF Means
<1>2. n \in Nat /\ n > 0
  BY DEF Stacks
<1>3. PICK K : K = Cont(s[n], c[n])
  OBVIOUS
<1>4. Fits(s[n], c[n])
  BY <1>1, <1>2 DEF Conts
<1>5. Fits(f, K) /\ (p \in Program <=> Accepting(f, K, j))
  BY <1>1, <1>3, <1>4
<1> DEFINE b == [d \in 1 .. n + 1 |-> IF d = n + 1 THEN K ELSE c[d]]
<1>6. Conts(t, p, b)
  BY <1>1, <1>3, <1>5, ContsPush
<1>7. Len(t) = n + 1 /\ t[n + 1] = f /\ b[n + 1] = K
  BY <1>2, StackPush
<1> HIDE DEF t, b
<1>8. QED
  BY <1>5, <1>6, <1>7

(* Cutting, and calling g.                                                 *)
LEMMA MeansTurn ==
  ASSUME NEW s \in Stacks, NEW i, NEW j, Means(s, i), NEW k \in 1 .. Len(s), k >= Len(s) - 2, NEW f, NEW g,
         Cut(s, k, f) \in Stacks, g \in ExpFrames \union WholeFrames, Stacked(f, g),
         \A K : Known(s, k, K) =>
           /\ Fits(f, K) /\ Fits(g, Cont(f, K))
           /\ Accepting(s[Len(s)], Through(s, k, K), i) <=> Accepting(g, Cont(f, K), j)
  PROVE  Means(Append(Cut(s, k, f), g), j)
<1> DEFINE t == Append(Cut(s, k, f), g)
<1> SUFFICES ASSUME NEW p \in Seq(Trees)
             PROVE  \E c : Conts(t, p, c) /\ (p \in Program <=> Accepting(t[Len(t)], c[Len(t)], j))
  BY DEF Means
<1>1. PICK c : Conts(s, p, c) /\ (p \in Program <=> Accepting(s[Len(s)], c[Len(s)], i))
  BY DEF Means
<1>2. /\ Fits(f, c[k]) /\ Fits(g, Cont(f, c[k]))
      /\ p \in Program <=> Accepting(g, Cont(f, c[k]), j)
  BY <1>1, ContsKnown
<1> DEFINE a == [d \in 1 .. k |-> c[d]]
           u == Cut(s, k, f)
<1>3. Conts(u, p, a)
  BY <1>1, <1>2, ContsCut
<1>4. Len(u) = k /\ u[k] = f /\ a[k] = c[k]
  <2>1. a[k] = c[k]
    OBVIOUS
  <2>2. Len(Cut(s, k, f)) = k /\ Cut(s, k, f)[k] = f
    BY CutIs DEF Stacks
  <2>3. QED
    BY <2>1, <2>2
<1> HIDE DEF a, u
<1> DEFINE b == [d \in 1 .. Len(u) + 1 |-> IF d = Len(u) + 1 THEN Cont(f, c[k]) ELSE a[d]]
<1>5. u \in Stacks
  BY DEF u
<1>6. Conts(Append(u, g), p, b)
  BY <1>2, <1>3, <1>4, <1>5, ContsPush
<1>7. Len(Append(u, g)) = k + 1 /\ Append(u, g)[k + 1] = g
  BY <1>4, <1>5, StackPush
<1>8. b[k + 1] = Cont(f, c[k])
  <2>1. k + 1 \in 1 .. Len(u) + 1 /\ k + 1 = Len(u) + 1
    BY <1>4, <1>5 DEF Stacks
  <2>2. QED
    BY <2>1
<1>9. t = Append(u, g)
  BY DEF u
<1> HIDE DEF t, b
<1>10. QED
  BY <1>2, <1>6, <1>7, <1>8, <1>9

LEMMA MeansPushTwo ==
  ASSUME NEW s \in Stacks, NEW i, NEW j, Means(s, i), NEW f \in ExpFrames \union WholeFrames,
         NEW g \in ExpFrames \union WholeFrames, Stacked(s[Len(s)], f), Stacked(f, g),
         \A K : Fits(s[Len(s)], K) =>
           /\ Fits(f, Cont(s[Len(s)], K)) /\ Fits(g, Cont(f, Cont(s[Len(s)], K)))
           /\ Accepting(s[Len(s)], K, i) <=> Accepting(g, Cont(f, Cont(s[Len(s)], K)), j)
  PROVE  Means(Append(Append(s, f), g), j)
<1> DEFINE n == Len(s)
           u == Append(s, f)
           t == Append(u, g)
<1> SUFFICES ASSUME NEW p \in Seq(Trees)
             PROVE  \E c : Conts(t, p, c) /\ (p \in Program <=> Accepting(t[Len(t)], c[Len(t)], j))
  BY DEF Means
<1>1. PICK c : Conts(s, p, c) /\ (p \in Program <=> Accepting(s[n], c[n], i))
  BY DEF Means
<1>2. n \in Nat /\ n > 0
  BY DEF Stacks
<1>3. PICK K : K = Cont(s[n], c[n])
  OBVIOUS
<1>4. Fits(s[n], c[n])
  BY <1>1, <1>2 DEF Conts
<1>5. Fits(f, K) /\ Fits(g, Cont(f, K)) /\ (p \in Program <=> Accepting(g, Cont(f, K), j))
  BY <1>1, <1>3, <1>4
<1> DEFINE a == [d \in 1 .. n + 1 |-> IF d = n + 1 THEN K ELSE c[d]]
<1>6. Conts(u, p, a)
  BY <1>1, <1>3, <1>5, ContsPush
<1>7. u \in Stacks /\ Len(u) = n + 1 /\ u[n + 1] = f /\ a[n + 1] = K
  BY <1>2, StackPush
<1> HIDE DEF u, a
<1> DEFINE b == [d \in 1 .. Len(u) + 1 |-> IF d = Len(u) + 1 THEN Cont(f, K) ELSE a[d]]
<1>8. Conts(t, p, b)
  BY <1>5, <1>6, <1>7, ContsPush
<1>9. Len(t) = Len(u) + 1 /\ t[Len(u) + 1] = g
  BY <1>7, StackPush
<1>10. b[Len(u) + 1] = Cont(f, K)
  <2>1. Len(u) + 1 \in 1 .. Len(u) + 1
    BY <1>2, <1>7
  <2>2. QED
    BY <2>1
<1> HIDE DEF t, b
<1>11. QED
  BY <1>5, <1>8, <1>9, <1>10

(* Where the calls cannot go on the program has no tree.                   *)
LEMMA MeansNone ==
  ASSUME EndsInEof, NEW s \in Stacks, NEW i, Means(s, i), NEW k \in 1 .. Len(s), k >= Len(s) - 2,
         \A K : Known(s, k, K) => ~ Accepting(s[Len(s)], Through(s, k, K), i)
  PROVE  Program = {}
<1>1. Program \subseteq Seq(Trees)
  <2>1. 1 \in Place /\ Len(input) \in Place
    BY DEF EndsInEof, Place
  <2>2. QED
    BY <2>1, ListsAre DEF Program
<1>2. ASSUME NEW p \in Seq(Trees) PROVE p \notin Program
  <2>1. PICK c : Conts(s, p, c) /\ (p \in Program <=> Accepting(s[Len(s)], c[Len(s)], i))
    BY DEF Means
  <2>2. QED
    BY <2>1, ContsKnown
<1>3. QED
  BY <1>1, <1>2
-----------------------------------------------------------------------------
(* The input does not change, nor does what the grammar makes of it.       *)
LEMMA SameGrammar ==
  ASSUME input' = input
  PROVE  Exps' = Exps /\ StmtLists' = StmtLists
<1>1. Exps' = Exps
  BY DEF Exps, ExpsBy, ArgExps, PrimaryExps, PrefixExps, BinaryExps, Among, ExpSpans, Place
<1>2. StmtLists' = StmtLists
  BY <1>1 DEF StmtLists, ListsBy, Stmts, SimpleStmts, BlockStmts, TwoLists, OneList, FundecStmts,
     WholeExps, Among, Place, Stands, IsParams
<1>3. QED
  BY <1>1, <1>2

LEMMA SameMeans ==
  ASSUME input' = input, NEW s, NEW i, Means(s, i), s = stack', i = Pos'
  PROVE  Means(stack, Pos)'
<1>1. Program' = Program
  BY SameGrammar DEF Program
<1>2. \A t, p, c : Conts(t, p, c)' <=> Conts(t, p, c)
  BY SameGrammar DEF Conts, Cont, AfterExp, Fits, Refuses, NoOther,
    AfterParen, AfterPrefix, AfterInfix, AfterArg, ArgsAccepted, EndsCall, Grown, Closed, GrowsBy, Points,
    Accepts, AfterStmt, ListAccepts, Closes, ListEnds, EndsSecond, Stands, AfterLhs, AfterSimple, EndsCallStmt,
    AfterCond, ParamsAccept, Body, IsParams, Place
<1>3. \A f, K, m : Accepting(f, K, m)' <=> Accepting(f, K, m)
  BY SameGrammar DEF Accepting, Grown, Closed, GrowsBy, Points,
    Accepts, ListAccepts, Closes, ListEnds, EndsSecond, Stands, ParamsAccept, Body, IsParams, Place
<1>4. QED
  BY <1>1, <1>2, <1>3 DEF Means

LEMMA AlignedIs ==
  ASSUME TInv
  PROVE  /\ Len(tokens) \in Nat /\ Len(tokens) = Len(input) - Pos + 1 /\ Pos \in Place
         /\ \A m \in Nat : (Pos + m) - 1 \in Place /\ m # 0 => m \in DOMAIN tokens /\ tokens[m] = input[(Pos + m) - 1]
         /\ \A m \in DOMAIN tokens : (Pos + m) - 1 \in Place /\ tokens[m] = input[(Pos + m) - 1]
<1>1. Len(tokens) \in Nat /\ DOMAIN tokens = 1 .. Len(tokens) /\ Len(input) \in Nat
  BY DEF TInv, Aligned, EndsInEof
<1>2. Len(tokens) = Len(input) - Pos + 1 /\ Pos \in Nat
  BY <1>1 DEF Pos, TInv, Aligned, Place
<1>3. ASSUME NEW m \in Nat, (Pos + m) - 1 \in Place, m # 0 PROVE m \in DOMAIN tokens
  BY <1>1, <1>2, <1>3 DEF Place
<1>4. ASSUME NEW m \in DOMAIN tokens PROVE (Pos + m) - 1 \in Place
  BY <1>1, <1>2 DEF Place, TInv, Aligned
<1>5. QED
  BY <1>1, <1>2, <1>3, <1>4 DEF TInv, Aligned

(* The tokens in front, and those behind them.                             *)
LEMMA FrontIs ==
  ASSUME TInv
  PROVE  /\ Front = input[Pos] /\ Pos \in Place
         /\ Pos + 1 \in Place => tokens[2] = input[Pos + 1]
         /\ Pos + 2 \in Place => tokens[3] = input[Pos + 2]
         /\ \A types \in Seq(TokenType \ {"Eof"}) : Ahead(types) <=> Stands(Pos, types)
<1>1. (Pos + 1) - 1 = Pos /\ (Pos + 2) - 1 = Pos + 1 /\ (Pos + 3) - 1 = Pos + 2
  BY AlignedIs DEF Place
<1>2. Front = input[Pos] /\ Pos \in Place
  <2>1. tokens[1] = input[(Pos + 1) - 1]
    BY <1>1, AlignedIs
  <2>2. QED
    BY <1>1, <2>1, AlignedIs DEF Front
<1>3. Pos + 1 \in Place => tokens[2] = input[Pos + 1]
  BY <1>1, AlignedIs
<1>4. Pos + 2 \in Place => tokens[3] = input[Pos + 2]
  BY <1>1, AlignedIs
<1>5. ASSUME NEW types \in Seq(TokenType \ {"Eof"}) PROVE Ahead(types) <=> Stands(Pos, types)
  <2>1. PICK n \in Nat : n = Len(types) /\ DOMAIN types = 1 .. n
    OBVIOUS
  <2>2. PICK w \in Nat : w = Len(tokens) /\ DOMAIN tokens = 1 .. w
    BY DEF TInv, Aligned
  <2>3. tokens \in Seq(TokenType)
    BY DEF TInv, Aligned
  <2>4. ASSUME n <= w
        PROVE  SubSeq(tokens, 1, n) = types <=> \A m \in 1 .. n : tokens[m] = types[m]
    <3>1. PICK t : t = SubSeq(tokens, 1, n)
      OBVIOUS
    <3>2. t \in Seq(TokenType) /\ Len(t) = n /\ \A m \in 1 .. n : t[m] = tokens[m]
      BY <2>2, <2>3, <2>4, <3>1
    <3>3. types \in Seq(TokenType)
      OBVIOUS
    <3>4. t = types <=> \A m \in 1 .. n : t[m] = types[m]
      BY <2>1, <3>2, <3>3, SeqEqual
    <3>5. QED
      BY <3>1, <3>2, <3>4
  <2>5. \A m \in 1 .. n : Pos + m - 1 = (Pos + m) - 1
    BY AlignedIs DEF Place
  <2>6. Stands(Pos, types) <=> \A m \in 1 .. n : (Pos + m) - 1 \in Place /\ input[(Pos + m) - 1] = types[m]
    BY <2>1, <2>5 DEF Stands
  <2>7. ASSUME n <= w
        PROVE  Stands(Pos, types) <=> \A m \in 1 .. n : tokens[m] = types[m]
    <3>1. \A m \in 1 .. n : (Pos + m) - 1 \in Place /\ tokens[m] = input[(Pos + m) - 1]
      <4>1. \A m \in 1 .. n : m \in DOMAIN tokens
        BY <2>2, <2>7
      <4>2. QED
        BY <4>1, AlignedIs
    <3>2. QED
      BY <2>6, <3>1
  <2>8. ASSUME ~ (n <= w) PROVE ~ Stands(Pos, types)
    <3>1. n \in 1 .. n /\ w < n
      BY <2>8
    <3>2. (Pos + n) - 1 \notin Place
      BY <2>2, <3>1, AlignedIs
    <3>3. QED
      BY <2>6, <3>1, <3>2
  <2>9. QED
    BY <2>1, <2>2, <2>4, <2>7, <2>8 DEF Ahead
<1>6. QED
  BY <1>2, <1>3, <1>4, <1>5

LEMMA GoMeans ==
  ASSUME TInv, status = "parsing", NEW n \in Nat, Pos + n \in Place, NEW calls \in Stacks,
         Go(n, calls), Means(calls, Pos + n)
  PROVE  TInv'
<1>1. /\ tokens' = SubSeq(tokens, n + 1, Len(tokens)) /\ stack' = calls
      /\ status' = "parsing" /\ tree' = tree /\ input' = input
  BY DEF Go
<1>2. PICK w \in Nat : w = Len(tokens) /\ DOMAIN tokens = 1 .. w
  BY DEF TInv, Aligned
<1>3. n < w /\ w = Len(input) - Pos + 1 /\ Pos \in Nat /\ Len(input) \in Nat
  BY <1>2, AlignedIs DEF Place, TInv, EndsInEof
<1>4. /\ tokens' \in Seq(TokenType) /\ Len(tokens') = w - n
      /\ \A m \in 1 .. w - n : tokens'[m] = tokens[n + m]
  BY <1>1, <1>2, <1>3 DEF TInv, Aligned
<1>5. Pos' = Pos + n
  <2>1. Pos' = (Len(input) - (w - n)) + 1
    BY <1>1, <1>4 DEF Pos
  <2>2. QED
    BY <1>2, <1>3, <2>1
<1>6. EndsInEof'
  BY <1>1 DEF TInv, EndsInEof, Place
<1>7. Aligned'
  <2>1. DOMAIN tokens' = 1 .. w - n
    BY <1>4, LenProperties
  <2>2. ASSUME NEW m \in 1 .. w - n PROVE tokens'[m] = input[((Pos + n) + m) - 1]
    <3>1. n + m \in DOMAIN tokens /\ (Pos + (n + m)) - 1 = ((Pos + n) + m) - 1
      BY <1>2, <1>3
    <3>2. tokens[n + m] = input[(Pos + (n + m)) - 1]
      BY <3>1, AlignedIs
    <3>3. QED
      BY <1>4, <3>1, <3>2
  <2>3. Pos' \in Place'
    BY <1>1, <1>5 DEF Place
  <2>4. QED
    BY <1>1, <1>4, <1>5, <2>1, <2>2, <2>3 DEF Aligned
<1>8. (stack \in Stacks)'
  BY <1>1 DEF Stacks, Stacked
<1>9. Means(stack, Pos)'
  <2>1. PICK p : p = Pos + n
    OBVIOUS
  <2>2. QED
    BY <1>1, <1>5, <2>1, SameMeans
<1>10. ParsesTree' /\ RefusesOnlyBad'
  BY <1>1 DEF ParsesTree, RefusesOnlyBad
<1>11. QED
  BY <1>6, <1>7, <1>8, <1>9, <1>10 DEF TInv

LEMMA StillAligned ==
  ASSUME TInv, tokens' = tokens, input' = input
  PROVE  EndsInEof' /\ Aligned' /\ Program' = Program
<1>1. Pos' = Pos /\ Place' = Place
  BY DEF Pos, Place
<1>2. EndsInEof'
  BY <1>1 DEF TInv, EndsInEof
<1>3. Aligned'
  BY <1>1 DEF TInv, Aligned
<1>4. Program' = Program
  BY SameGrammar DEF Program
<1>5. QED
  BY <1>2, <1>3, <1>4

LEMMA ThrowMeans ==
  ASSUME TInv, Throw, Program = {}
  PROVE  TInv'
<1>1. status' = "error" /\ tokens' = tokens /\ input' = input
  BY DEF Throw
<1>2. QED
  BY <1>1, StillAligned DEF TInv, ParsesTree, RefusesOnlyBad
-----------------------------------------------------------------------------
LEMMA NewExp ==
  \A bp \in Bps : ExpBp(bp) \in ExpFrames /\ ExpBp(bp).at = "operand" /\ ExpBp(bp).min_bp = bp
                  /\ ExpBp(bp).args = <<>>
<1> SUFFICES ASSUME NEW bp \in Bps
             PROVE  ExpBp(bp) \in ExpFrames /\ ExpBp(bp).at = "operand" /\ ExpBp(bp).min_bp = bp
                    /\ ExpBp(bp).args = <<>>
  OBVIOUS
<1> DEFINE f == ExpBp(bp)
<1>1. /\ f.at = "operand" /\ f.min_bp = bp /\ f.lhs = None /\ f.op = "none" /\ f.args = <<>>
      /\ f = [at |-> f.at, min_bp |-> f.min_bp, lhs |-> f.lhs, op |-> f.op, args |-> f.args]
  BY DEF ExpBp
<1> HIDE DEF f
<1>2. <<>> \in Seq(Trees)
  OBVIOUS
<1>3. f \in [at : {"operand", "loop", "paren", "prefix", "infix", "call"}, min_bp : Bps,
             lhs : Trees \union {None}, op : TokenType \union {"none"}, args : Seq(Trees)]
  BY <1>1, <1>2
<1>4. f \in ExpFrames
  BY <1>1, <1>3 DEF ExpFrames
<1>5. QED
  BY <1>1, <1>4 DEF f

LEMMA LoopFrame ==
  ASSUME NEW f \in ExpFrames, NEW e \in Trees
  PROVE  /\ LoopOf(f, e) \in ExpFrames /\ LoopOf(f, e).at = "loop"
         /\ LoopOf(f, e).min_bp = f.min_bp /\ LoopOf(f, e).lhs = e
<1> DEFINE g == LoopOf(f, e)
<1>1. /\ g.at = "loop" /\ g.min_bp = f.min_bp /\ g.lhs = e /\ g.op = "none" /\ g.args = <<>>
      /\ g = [at |-> g.at, min_bp |-> g.min_bp, lhs |-> g.lhs, op |-> g.op, args |-> g.args]
  <2> DEFINE rec(at, bp, x) == [at |-> at, min_bp |-> bp, lhs |-> x, op |-> "none", args |-> <<>>]
             one(r) == [r EXCEPT !.at = "loop"]
             two(r) == [r EXCEPT !.lhs = e]
             both(r) == [r EXCEPT !.at = "loop", !.lhs = e]
  <2>1. \A bp : ExpBp(bp) = rec("operand", bp, None)
    BY DEF ExpBp
  <2>2. \A a, bp, x : one(rec(a, bp, x)) = rec("loop", bp, x)
    OBVIOUS
  <2>3. \A a, bp, x : two(rec(a, bp, x)) = rec(a, bp, e)
    OBVIOUS
  <2>4. \A r : both(r) = two(one(r))
    OBVIOUS
  <2>5. g = both(ExpBp(f.min_bp))
    BY DEF LoopOf
  <2> HIDE DEF rec, one, two, both
  <2>6. g = rec("loop", f.min_bp, e)
    BY <2>1, <2>2, <2>3, <2>4, <2>5
  <2> USE DEF rec
  <2>7. QED
    BY <2>6
<1> HIDE DEF g
<1>2. <<>> \in Seq(Trees) /\ f.min_bp \in Bps
  BY DEF ExpFrames
<1>3. g \in [at : {"operand", "loop", "paren", "prefix", "infix", "call"}, min_bp : Bps,
             lhs : Trees \union {None}, op : TokenType \union {"none"}, args : Seq(Trees)]
  BY <1>1, <1>2
<1>4. g \in ExpFrames
  BY <1>1, <1>3 DEF ExpFrames
<1>5. QED
  BY <1>1, <1>4 DEF g

(* A call that waits, and one that waits with other arguments.             *)
WaitOf(f, where, op) == [f EXCEPT !.at = where, !.op = op]
WithArgs(f, args) == [f EXCEPT !.args = args]

LEMMA WaitFrame ==
  ASSUME NEW f \in ExpFrames, NEW where, NEW op,
         \/ where \in {"paren", "call"} /\ op = "none"
         \/ where = "prefix" /\ op \in PrefixOps
         \/ /\ where = "infix" /\ f.lhs \in Trees
            /\ \E k \in 1 .. 9 : k >= MinRow[f.min_bp] /\ op \in Row[k]
  PROVE  LET g == WaitOf(f, where, op)
         IN  /\ g \in ExpFrames /\ g.at = where /\ g.op = op
             /\ g.min_bp = f.min_bp /\ g.lhs = f.lhs /\ g.args = f.args
<1> DEFINE g == WaitOf(f, where, op)
<1>0. f = [at |-> f.at, min_bp |-> f.min_bp, lhs |-> f.lhs, op |-> f.op, args |-> f.args]
      /\ f.min_bp \in Bps /\ f.lhs \in Trees \union {None} /\ f.args \in Seq(Trees)
  BY DEF ExpFrames
<1>1. /\ g.at = where /\ g.min_bp = f.min_bp /\ g.lhs = f.lhs /\ g.op = op /\ g.args = f.args
      /\ g = [at |-> g.at, min_bp |-> g.min_bp, lhs |-> g.lhs, op |-> g.op, args |-> g.args]
  <2> DEFINE rec(at, o) == [at |-> at, min_bp |-> f.min_bp, lhs |-> f.lhs, op |-> o, args |-> f.args]
             one(r) == [r EXCEPT !.at = where]
             two(r) == [r EXCEPT !.op = op]
             both(r) == [r EXCEPT !.at = where, !.op = op]
  <2>1. f = rec(f.at, f.op)
    BY <1>0
  <2>2. \A a, o : one(rec(a, o)) = rec(where, o)
    OBVIOUS
  <2>3. \A a, o : two(rec(a, o)) = rec(a, op)
    OBVIOUS
  <2>4. \A r : both(r) = two(one(r))
    OBVIOUS
  <2>5. g = both(f)
    BY DEF WaitOf
  <2> HIDE DEF rec, one, two, both
  <2>6. g = rec(where, op)
    BY <2>1, <2>2, <2>3, <2>4, <2>5
  <2> USE DEF rec
  <2>7. QED
    BY <2>6
<1> HIDE DEF g
<1>2. op \in TokenType \union {"none"}
  BY RowsAre, StartsAre
<1>3. g \in [at : {"operand", "loop", "paren", "prefix", "infix", "call"}, min_bp : Bps,
             lhs : Trees \union {None}, op : TokenType \union {"none"}, args : Seq(Trees)]
  BY <1>0, <1>1, <1>2
<1>4. where = "infix" => \E k \in MinRow[f.min_bp] .. 9 : op \in Row[k]
  BY <1>0, MinRowIs
<1>5. g \in ExpFrames
  BY <1>1, <1>3, <1>4 DEF ExpFrames
<1>6. QED
  BY <1>1, <1>5 DEF g

LEMMA ArgsFrame ==
  ASSUME NEW f \in ExpFrames, f.at = "call", NEW args \in Seq(Trees)
  PROVE  LET g == WithArgs(f, args)
         IN  g \in ExpFrames /\ g.at = "call" /\ g.min_bp = f.min_bp /\ g.args = args
<1> DEFINE g == WithArgs(f, args)
<1>0. f = [at |-> f.at, min_bp |-> f.min_bp, lhs |-> f.lhs, op |-> f.op, args |-> f.args]
      /\ f.min_bp \in Bps /\ f.lhs \in Trees \union {None} /\ f.op \in TokenType \union {"none"}
  BY DEF ExpFrames
<1>1. /\ g.at = f.at /\ g.min_bp = f.min_bp /\ g.lhs = f.lhs /\ g.op = f.op /\ g.args = args
      /\ g = [at |-> g.at, min_bp |-> g.min_bp, lhs |-> g.lhs, op |-> g.op, args |-> g.args]
  BY <1>0 DEF WithArgs
<1> HIDE DEF g
<1>2. g \in [at : {"operand", "loop", "paren", "prefix", "infix", "call"}, min_bp : Bps,
             lhs : Trees \union {None}, op : TokenType \union {"none"}, args : Seq(Trees)]
  BY <1>0, <1>1
<1>3. g \in ExpFrames
  BY <1>1, <1>2 DEF ExpFrames
<1>4. QED
  BY <1>1, <1>3 DEF g

LEMMA ExpFrameWhole ==
  ASSUME NEW kind \in ExpKinds, NEW exps \in Seq(Trees), kind \notin {"AssignStmt", "CallStmt"} => exps = <<>>
  PROVE  LET f == ExpFrame(kind, exps)
         IN  f \in WholeFrames /\ f.at = "exp" /\ f.kind = kind /\ f.exps = exps
<1> DEFINE f == ExpFrame(kind, exps)
<1>1. /\ f.kind = kind /\ f.exps = exps /\ f.at = "exp" /\ f.in = 1 /\ f.params = 0
      /\ f.lists = NoLists(kind)
  BY ExpFrameIs
<1>2. f = [at |-> f.at, kind |-> f.kind, params |-> f.params, exps |-> f.exps, in |-> f.in, lists |-> f.lists]
  <2> DEFINE rec(x) == [at |-> "exp", kind |-> kind, params |-> 0, exps |-> x, in |-> 1, lists |-> NoLists(kind)]
  <2>1. Frame(kind, "exp") = rec(<<>>)
    BY DEF Frame, NoLists
  <2>2. \A x : [rec(<<>>) EXCEPT !.exps = x] = rec(x)
    OBVIOUS
  <2> HIDE DEF rec
  <2>3. f = rec(exps)
    BY <2>1, <2>2 DEF ExpFrame
  <2> USE DEF rec
  <2>4. QED
    BY <2>3
<1>3. ListCount[kind] \in Nat /\ kind \in DOMAIN ListCount
  BY DEF ExpKinds, ListCount
<1>4. NoLists(kind) \in Seq(Seq(Trees)) /\ Len(NoLists(kind)) = ListCount[kind]
  <2>1. \A n \in Nat : [m \in 1 .. n |-> <<>>] \in Seq(Seq(Trees)) /\ Len([m \in 1 .. n |-> <<>>]) = n
    OBVIOUS
  <2>2. QED
    BY <1>3, <2>1 DEF NoLists
<1> HIDE DEF f
<1>5. f \in StmtFrames
  BY <1>1, <1>2, <1>3, <1>4 DEF StmtFrames
<1>6. f = ExpFrame(f.kind, f.exps)
  BY <1>1 DEF f
<1>7. f \in WholeFrames
  BY <1>1, <1>4, <1>5, <1>6 DEF WholeFrames
<1>8. QED
  BY <1>1, <1>7 DEF f

(* Statements are trees.                                                   *)
LEMMA StmtTree ==
  ASSUME NEW f \in StmtFrames
  PROVE  Stmt(f) \in Trees
<1>1. Stmt(f) = Node(f.kind, f.params, f.exps, f.lists)
  BY DEF Stmt, Node
<1>2. f.kind \in DOMAIN ListCount /\ f.params \in Nat /\ f.exps \in Seq(Trees) /\ f.lists \in Seq(Seq(Trees))
  BY DEF StmtFrames
<1>3. QED
  BY <1>1, <1>2, TreesAre

LEMMA GainsExpFrame ==
  ASSUME NEW f \in StmtFrames, NEW e \in Trees
  PROVE  GainsExp(f, e) \in StmtFrames
<1> DEFINE g == GainsExp(f, e)
<1>0. f = [at |-> f.at, kind |-> f.kind, params |-> f.params, exps |-> f.exps, in |-> f.in, lists |-> f.lists]
      /\ f.at \in {"list", "params", "exp"} /\ f.kind \in DOMAIN ListCount /\ f.params \in Nat
      /\ f.exps \in Seq(Trees) /\ f.in \in 1 .. 2 /\ f.lists \in Seq(Seq(Trees))
  BY DEF StmtFrames
<1>1. /\ g.at = f.at /\ g.kind = f.kind /\ g.params = f.params /\ g.exps = Append(f.exps, e)
      /\ g.in = f.in /\ g.lists = f.lists
      /\ g = [at |-> g.at, kind |-> g.kind, params |-> g.params, exps |-> g.exps, in |-> g.in, lists |-> g.lists]
  <2> DEFINE rec(x) ==
        [at |-> f.at, kind |-> f.kind, params |-> f.params, exps |-> x, in |-> f.in, lists |-> f.lists]
  <2>1. f = rec(f.exps)
    BY <1>0
  <2>2. \A x, y : [rec(x) EXCEPT !.exps = y] = rec(y)
    OBVIOUS
  <2> HIDE DEF rec
  <2>3. GainsExp(f, e) = [f EXCEPT !.exps = Append(f.exps, e)]
    BY DEF GainsExp
  <2>4. g = rec(Append(f.exps, e))
    BY <2>1, <2>2, <2>3
  <2> USE DEF rec
  <2>5. QED
    BY <2>4
<1> HIDE DEF g
<1>2. Append(f.exps, e) \in Seq(Trees)
  BY <1>0
<1>3. g \in StmtFrames
  BY <1>0, <1>1, <1>2 DEF StmtFrames
<1>4. QED
  BY <1>3 DEF g

LEMMA GainsWhole ==
  ASSUME NEW f \in WholeFrames, f.at = "list", NEW s \in Trees
  PROVE  /\ f \in ListFrames
         /\ Gains(f, s) \in WholeFrames /\ Gains(f, s).at = "list" /\ Gains(f, s).kind = f.kind
<1>1. f \in ListFrames /\ Len(f.lists) = ListCount[f.kind]
  BY DEF WholeFrames
<1>2. Gains(f, s) \in ListFrames /\ Gains(f, s).kind = f.kind /\ Gains(f, s).at = f.at
  BY <1>1, GainsAre
<1>3. Len(Gains(f, s).lists) = Len(f.lists)
  <2>1. f.lists \in Seq(Seq(Trees)) /\ Gains(f, s).lists \in Seq(Seq(Trees))
    BY <1>1, <1>2 DEF ListFrames, StmtFrames
  <2>2. DOMAIN Gains(f, s).lists = DOMAIN f.lists
    BY <1>1 DEF Gains, ListFrames, StmtFrames
  <2>3. QED
    BY <2>1, <2>2, LenProperties
<1>4. QED
  BY <1>1, <1>2, <1>3 DEF WholeFrames, ListFrames

LEMMA OtherWhole ==
  ASSUME NEW f \in WholeFrames, f.at = "list", f.kind \in TwoKinds
  PROVE  LET g == OtherList(f)
         IN  g \in ListFrames /\ g \in WholeFrames /\ g.at = "list" /\ g.kind = f.kind /\ g.in = 2
<1> DEFINE g == OtherList(f)
<1>0. f = [at |-> f.at, kind |-> f.kind, params |-> f.params, exps |-> f.exps, in |-> f.in, lists |-> f.lists]
      /\ f.kind \in DOMAIN ListCount /\ f.params \in Nat
      /\ f.exps \in Seq(Trees) /\ f.lists \in Seq(Seq(Trees)) /\ Len(f.lists) = ListCount[f.kind]
  BY DEF WholeFrames, StmtFrames
<1>1. /\ g.at = "list" /\ g.kind = f.kind /\ g.params = f.params /\ g.exps = f.exps
      /\ g.in = 2 /\ g.lists = f.lists
      /\ g = [at |-> g.at, kind |-> g.kind, params |-> g.params, exps |-> g.exps, in |-> g.in, lists |-> g.lists]
  BY <1>0 DEF OtherList
<1> HIDE DEF g
<1>2. g \in StmtFrames
  BY <1>0, <1>1 DEF StmtFrames
<1>3. 2 \in DOMAIN g.lists
  BY <1>0, <1>1 DEF TwoKinds, ListCount
<1>4. g \in ListFrames /\ g \in WholeFrames
  BY <1>0, <1>1, <1>2, <1>3 DEF ListFrames, WholeFrames
<1>5. QED
  BY <1>1, <1>4 DEF g

LEMMA ListStartWhole ==
  ASSUME NEW kind \in BlockKinds, NEW params \in Nat, NEW exps \in Seq(Trees)
  PROVE  LET f == ListStart(kind, params, exps)
         IN  f \in WholeFrames /\ f.at = "list" /\ f.kind = kind
<1> DEFINE f == ListStart(kind, params, exps)
<1>1. f.at = "list" /\ f.kind = kind /\ f.lists = NoLists(kind)
  BY DEF ListStart
<1>2. f \in ListFrames
  <2>1. <<>> \in Seq(Trees)
    OBVIOUS
  <2>2. QED
    BY <2>1, ListStartIs
<1>3. Len(NoLists(kind)) = ListCount[kind]
  <2>1. ListCount[kind] \in Nat
    BY DEF BlockKinds, ListCount
  <2>2. QED
    BY <2>1 DEF NoLists
<1> HIDE DEF f
<1>4. QED
  BY <1>1, <1>2, <1>3 DEF WholeFrames, ListFrames, f

LEMMA ParamWhole ==
  ASSUME NEW n \in Nat
  PROVE  LET f == ParamFrame(n)
         IN  f \in WholeFrames /\ f.at = "params" /\ f.kind = "FundecStmt" /\ f.params = n
<1> DEFINE f == ParamFrame(n)
           g == ListStart("FundecStmt", n, <<>>)
<1>1. g \in WholeFrames /\ g.kind = "FundecStmt"
  <2>1. <<>> \in Seq(Trees) /\ "FundecStmt" \in BlockKinds
    BY DEF BlockKinds
  <2>2. QED
    BY <2>1, ListStartWhole
<1>2. /\ f.at = "params" /\ f.kind = "FundecStmt" /\ f.params = n /\ f.exps = g.exps /\ f.in = g.in /\ f.lists = g.lists
      /\ f = [at |-> f.at, kind |-> f.kind, params |-> f.params, exps |-> f.exps, in |-> f.in, lists |-> f.lists]
  BY DEF ParamFrame, ListStart
<1>3. f = ParamFrame(f.params)
  BY <1>2
<1> HIDE DEF f, g
<1>4. f \in StmtFrames
  BY <1>1, <1>2 DEF WholeFrames, StmtFrames
<1>5. Len(f.lists) = ListCount[f.kind]
  BY <1>1, <1>2 DEF WholeFrames
<1>6. f \in WholeFrames
  BY <1>2, <1>3, <1>4, <1>5 DEF WholeFrames
<1>7. QED
  BY <1>2, <1>6 DEF f
-----------------------------------------------------------------------------
(* The calls of a parser under way, and what the steps make of them.       *)
LEMMA CutByExcept ==
  ASSUME NEW S, NEW s \in Seq(S), NEW k \in 1 .. Len(s), NEW f
  PROVE  /\ [s EXCEPT ![Len(s)] = f] = Cut(s, Len(s), f)
         /\ [SubSeq(s, 1, k) EXCEPT ![k] = f] = Cut(s, k, f)
<1> DEFINE T == S \union {f}
<1>1. ASSUME NEW t, NEW n \in Nat, n # 0, t \in Seq(T), Len(t) = n
      PROVE  [t EXCEPT ![n] = f] = Append(SubSeq(t, 1, n - 1), f)
  <2>1. PICK u : u = SubSeq(t, 1, n - 1)
    OBVIOUS
  <2>2. u \in Seq(T) /\ Len(u) = n - 1 /\ \A m \in 1 .. n - 1 : u[m] = t[m]
    BY <1>1, <2>1
  <2>3. f \in T
    OBVIOUS
  <2> HIDE DEF T
  <2>4. PICK a : a = Append(u, f)
    OBVIOUS
  <2>5. a \in Seq(T) /\ Len(a) = n /\ a[n] = f /\ \A m \in 1 .. n - 1 : a[m] = t[m]
    BY <1>1, <2>2, <2>3, <2>4
  <2>6. PICK b : b = [t EXCEPT ![n] = f]
    OBVIOUS
  <2>7. DOMAIN t = 1 .. n
    BY <1>1
  <2>8. b \in Seq(T) /\ Len(b) = n /\ b[n] = f /\ \A m \in 1 .. n - 1 : b[m] = t[m]
    BY <1>1, <2>3, <2>6, <2>7
  <2>9. a = b
    <3>1. \A m \in 1 .. n : a[m] = b[m]
      BY <1>1, <2>5, <2>8
    <3>2. QED
      BY <2>5, <2>8, <3>1, SeqEqual
  <2>10. QED
    BY <2>1, <2>4, <2>6, <2>9
<1>2. s \in Seq(T) /\ Len(s) \in Nat /\ Len(s) # 0
  OBVIOUS
<1>3. PICK t : t = SubSeq(s, 1, k)
  OBVIOUS
<1>4. t \in Seq(T) /\ Len(t) = k /\ \A m \in 1 .. k : t[m] = s[m]
  BY <1>2, <1>3
<1> HIDE DEF T
<1>5. SubSeq(t, 1, k - 1) = SubSeq(s, 1, k - 1)
  <2>1. PICK u : u = SubSeq(t, 1, k - 1)
    OBVIOUS
  <2>2. PICK v : v = SubSeq(s, 1, k - 1)
    OBVIOUS
  <2>3. u \in Seq(T) /\ Len(u) = k - 1 /\ \A m \in 1 .. k - 1 : u[m] = t[m]
    BY <1>4, <2>1
  <2>4. v \in Seq(T) /\ Len(v) = k - 1 /\ \A m \in 1 .. k - 1 : v[m] = s[m]
    BY <1>2, <2>2
  <2>5. \A m \in 1 .. k - 1 : u[m] = v[m]
    BY <1>4, <2>3, <2>4
  <2>6. u = v
    BY <2>3, <2>4, <2>5, SeqEqual
  <2>7. QED
    BY <2>1, <2>2, <2>6
<1>6. [s EXCEPT ![Len(s)] = f] = Cut(s, Len(s), f)
  BY <1>1, <1>2 DEF Cut
<1>7. [t EXCEPT ![k] = f] = Append(SubSeq(t, 1, k - 1), f)
  <2>1. k \in Nat /\ k # 0
    OBVIOUS
  <2>2. QED
    BY <1>1, <1>4, <2>1
<1>8. QED
  BY <1>3, <1>5, <1>6, <1>7 DEF Cut

LEMMA StackIs ==
  ASSUME TInv, status = "parsing"
  PROVE  /\ stack \in Stacks /\ Means(stack, Pos) /\ Len(stack) \in Nat /\ Len(stack) > 0
         /\ stack \in Seq(Frames) /\ \A k \in 1 .. Len(stack) : stack[k] \in Frames
         /\ Top \in Frames /\ Top = stack[Len(stack)]
         /\ \A f : SetTop(f) = Cut(stack, Len(stack), f)
         /\ Top \in ExpFrames => Len(stack) > 1
         /\ Len(stack) = 1 => Top.kind = "Stmts" /\ Top.at = "list"
         /\ Top.at \in {"operand", "loop"} => Top \in ExpFrames
         /\ Top.at \in {"list", "params"} => Top \in WholeFrames
<1>1. stack \in Stacks /\ Means(stack, Pos)
  BY DEF TInv
<1>2. stack \in Seq(Frames) /\ Len(stack) \in Nat /\ Len(stack) > 0
  BY <1>1 DEF Stacks, Frames
<1>3. \A k \in 1 .. Len(stack) : stack[k] \in Frames
  BY <1>2
<1>4. Top \in Frames /\ Top = stack[Len(stack)]
  BY <1>2, <1>3 DEF Top
<1>5. ASSUME NEW f PROVE SetTop(f) = Cut(stack, Len(stack), f)
  <2>1. Len(stack) \in 1 .. Len(stack)
    BY <1>2
  <2>2. QED
    BY <1>2, <2>1, CutByExcept DEF SetTop
<1>6. stack[1] \in WholeFrames /\ stack[1].at = "list" /\ stack[1].kind = "Stmts"
  BY <1>1 DEF Stacks
<1>7. QED
  BY <1>1, <1>2, <1>3, <1>4, <1>5, <1>6, FramesApart DEF Frames

LEMMA BelowIs ==
  ASSUME TInv, status = "parsing", Top \in ExpFrames
  PROVE  /\ Below \in 1 .. Len(stack) /\ Below = Len(stack) - 1 /\ Below < Len(stack)
         /\ stack[Below] \in Frames /\ Stacked(stack[Below], Top)
         /\ \A f : SetBelow(f) = Cut(stack, Below, f)
         /\ stack[Below].at \in {"paren", "prefix", "infix", "call"} => stack[Below] \in ExpFrames
         /\ stack[Below].at = "exp" =>
              /\ stack[Below] \in WholeFrames
              /\ Below - 1 \in 1 .. Len(stack) /\ Below - 1 = Len(stack) - 2
              /\ stack[Below - 1] \in WholeFrames /\ stack[Below - 1].at = "list"
              /\ stack[Below].kind # "Stmts"
<1>1. Below = Len(stack) - 1 /\ Len(stack) > 1 /\ Len(stack) \in Nat /\ Top = stack[Below + 1]
  BY StackIs DEF Below
<1>2. Below \in 1 .. Len(stack) /\ Below \in 1 .. Len(stack) - 1 /\ Below < Len(stack)
  BY <1>1
<1>3. stack[Below] \in Frames
  BY <1>2, StackIs
<1>4. \A d \in 1 .. Len(stack) - 1 : Stacked(stack[d], stack[d + 1])
  BY StackIs DEF Stacks
<1>5. Stacked(stack[Below], Top)
  BY <1>1, <1>2, <1>4
<1>6. \A f : SetBelow(f) = Cut(stack, Below, f)
  BY DEF SetBelow, Cut
<1>7. ASSUME stack[Below].at = "exp"
      PROVE  /\ stack[Below] \in WholeFrames
             /\ Below - 1 \in 1 .. Len(stack) /\ Below - 1 = Len(stack) - 2
             /\ stack[Below - 1] \in WholeFrames /\ stack[Below - 1].at = "list"
             /\ stack[Below].kind # "Stmts"
  <2>1. stack[Below] \in WholeFrames /\ stack[Below] \notin ExpFrames
    BY <1>3, <1>7, FramesApart DEF Frames
  <2>2. stack[1].at = "list"
    BY StackIs DEF Stacks
  <2>3. Below # 1
    BY <1>7, <2>2
  <2>4. Below - 1 \in 1 .. Len(stack) - 1 /\ (Below - 1) + 1 = Below /\ Below - 1 = Len(stack) - 2
    BY <1>1, <1>2, <2>3
  <2>5. Stacked(stack[Below - 1], stack[Below])
    BY <1>4, <2>4
  <2>6. stack[Below].kind # "Stmts" /\ stack[Below - 1].at = "list"
    BY <2>1, <2>5 DEF Stacked
  <2>7. Below - 1 \in 1 .. Len(stack)
    BY <1>1, <2>4
  <2>8. stack[Below - 1] \in WholeFrames
    BY <2>6, <2>7, StackIs, FramesApart DEF Frames
  <2>9. QED
    BY <2>1, <2>4, <2>6, <2>7, <2>8
<1>8. QED
  BY <1>1, <1>2, <1>3, <1>5, <1>6, <1>7, FramesApart DEF Frames

(* A frame in the place of one of its kind.                                *)
Alike(f, g) ==
  \/ f \in ExpFrames /\ g \in ExpFrames /\ f.min_bp = g.min_bp
  \/ f \in WholeFrames /\ g \in WholeFrames /\ f.kind = g.kind

LEMMA Recut ==
  ASSUME NEW s \in Stacks, NEW k \in 1 .. Len(s), NEW f, Alike(f, s[k]), k = 1 => f.at = "list"
  PROVE  Cut(s, k, f) \in Stacks
<1>1. Len(s) \in Nat
  BY DEF Stacks
<1>2. f \in ExpFrames \union WholeFrames
  BY DEF Alike
<1>3. k = 1 => f \in WholeFrames /\ f.at = "list" /\ f.kind = "Stmts"
  BY FramesApart DEF Alike, Stacks
<1>4. k > 1 => Stacked(s[k - 1], f)
  <2>1. ASSUME k > 1 PROVE Stacked(s[k - 1], s[k])
    <3>1. k - 1 \in 1 .. Len(s) - 1 /\ (k - 1) + 1 = k
      BY <1>1, <2>1
    <3>2. QED
      BY <3>1 DEF Stacks
  <2>2. QED
    BY <2>1, FramesApart DEF Alike, Stacked
<1>5. QED
  BY <1>2, <1>3, <1>4, StackCut

LEMMA WithinIs ==
  ASSUME TInv, status = "parsing", NEW k \in 1 .. Len(stack), NEW s \in Trees, stack[k].at = "list",
         stack[k] \in WholeFrames
  PROVE  Within(k, s) = Cut(stack, k, Gains(stack[k], s)) /\ Within(k, s) \in Stacks
<1>1. stack \in Seq(Frames) /\ stack \in Stacks /\ Len(stack) \in Nat
  BY StackIs
<1>2. PICK t : t = SubSeq(stack, 1, k)
  OBVIOUS
<1>3. t[k] = stack[k] /\ k \in DOMAIN t
  BY <1>1, <1>2
<1>4. [t EXCEPT ![k].lists[stack[k].in] = Append(@, s)] = [t EXCEPT ![k] = Gains(stack[k], s)]
  <2> DEFINE f == stack[k]
  <2>1. t[k] = f
    BY <1>3
  <2> HIDE DEF f
  <2>2. [t EXCEPT ![k].lists[f.in] = Append(@, s)] = [t EXCEPT ![k] = Gains(f, s)]
    BY <2>1, <1>3 DEF Gains
  <2>3. QED
    BY <2>2 DEF f
<1>5. Within(k, s) = Cut(stack, k, Gains(stack[k], s))
  <2>1. Within(k, s) = [t EXCEPT ![k].lists[stack[k].in] = Append(@, s)]
    BY <1>2 DEF Within
  <2>2. [t EXCEPT ![k] = Gains(stack[k], s)] = Cut(stack, k, Gains(stack[k], s))
    BY <1>1, <1>2, CutByExcept
  <2>3. QED
    BY <1>4, <2>1, <2>2
<1>6. Cut(stack, k, Gains(stack[k], s)) \in Stacks
  BY <1>1, GainsWhole, Recut DEF Alike
<1>7. QED
  BY <1>5, <1>6
-----------------------------------------------------------------------------
(* The steps by what they do to the calls.                                 *)
Going(m) == TInv /\ status = "parsing" /\ m \in Nat /\ Pos + m \in Place

(* The call at the top goes on.                                            *)
LEMMA TopGoesOn ==
  ASSUME NEW m, Going(m), NEW f, Alike(f, Top), Len(stack) = 1 => f.at = "list", Go(m, SetTop(f)),
         \A K : Fits(Top, K) => Fits(f, K) /\ (Accepting(Top, K, Pos) <=> Accepting(f, K, Pos + m))
  PROVE  TInv'
<1> DEFINE n == Len(stack)
<1>1. stack \in Stacks /\ Means(stack, Pos) /\ n \in 1 .. n /\ n >= n - 2 /\ Top = stack[n]
      /\ SetTop(f) = Cut(stack, n, f)
  BY StackIs DEF Going
<1>2. \A K : Known(stack, n, K) =>
        Fits(f, K) /\ (Accepting(stack[n], Through(stack, n, K), Pos) <=> Accepting(f, K, Pos + m))
  BY <1>1 DEF Known, Through
<1>3. Cut(stack, n, f) \in Stacks
  BY <1>1, Recut
<1>4. Means(Cut(stack, n, f), Pos + m)
  <2>1. PICK j : j = Pos + m
    OBVIOUS
  <2>2. PICK i : i = Pos
    OBVIOUS
  <2> HIDE DEF n
  <2>3. Means(Cut(stack, n, f), j)
    BY <1>1, <1>2, <2>1, <2>2, MeansCut DEF n
  <2>4. QED
    BY <2>1, <2>3
<1>5. QED
  BY <1>1, <1>3, <1>4, GoMeans DEF Going

(* The call at the top makes another.                                      *)
LEMMA TopCalls ==
  ASSUME NEW m, Going(m), NEW f, Alike(f, Top), Len(stack) = 1 => f.at = "list",
         NEW g \in Frames, Stacked(f, g), Go(m, Append(SetTop(f), g)),
         \A K : Fits(Top, K) =>
           /\ Fits(f, K) /\ Fits(g, Cont(f, K))
           /\ Accepting(Top, K, Pos) <=> Accepting(g, Cont(f, K), Pos + m)
  PROVE  TInv'
<1> DEFINE n == Len(stack)
<1>1. stack \in Stacks /\ Means(stack, Pos) /\ n \in 1 .. n /\ n >= n - 2 /\ Top = stack[n]
      /\ SetTop(f) = Cut(stack, n, f)
  BY StackIs DEF Going
<1>2. \A K : Known(stack, n, K) =>
        /\ Fits(f, K) /\ Fits(g, Cont(f, K))
        /\ Accepting(stack[n], Through(stack, n, K), Pos) <=> Accepting(g, Cont(f, K), Pos + m)
  BY <1>1 DEF Known, Through
<1>3. Cut(stack, n, f) \in Stacks
  BY <1>1, Recut
<1>4. Len(Cut(stack, n, f)) = n /\ Cut(stack, n, f)[n] = f
  <2>1. n \in 1 .. Len(stack) /\ stack \in Stacks
    BY <1>1
  <2> HIDE DEF n
  <2>2. QED
    BY <2>1, CutIs DEF Stacks
<1>5. Append(Cut(stack, n, f), g) \in Stacks
  BY <1>3, <1>4, StackPush DEF Frames
<1>6. Means(Append(Cut(stack, n, f), g), Pos + m)
  <2>1. PICK j : j = Pos + m
    OBVIOUS
  <2>2. PICK i : i = Pos
    OBVIOUS
  <2> HIDE DEF n
  <2>3. Means(Append(Cut(stack, n, f), g), j)
    BY <1>1, <1>2, <1>3, <2>1, <2>2, MeansTurn DEF n, Frames
  <2>4. QED
    BY <2>1, <2>3
<1>7. QED
  BY <1>1, <1>5, <1>6, GoMeans DEF Going

(* The call at the top returns to the one below it, which goes on.         *)
LEMMA BelowGoesOn ==
  ASSUME NEW m, Going(m), Top \in ExpFrames, NEW f, Alike(f, stack[Below]), stack[Below].at # "list",
         Go(m, SetBelow(f)),
         \A K : Fits(stack[Below], K) /\ Fits(Top, Cont(stack[Below], K)) =>
           Fits(f, K) /\ (Accepting(Top, Cont(stack[Below], K), Pos) <=> Accepting(f, K, Pos + m))
  PROVE  TInv'
<1> DEFINE n == Len(stack)
           k == Below
<1>1. stack \in Stacks /\ Means(stack, Pos) /\ Top = stack[n] /\ n \in Nat
  BY StackIs DEF Going
<1>2. k \in 1 .. n /\ k = n - 1 /\ k >= n - 2 /\ k + 1 = n /\ SetBelow(f) = Cut(stack, k, f) /\ k # n
      /\ ~ (k < n - 1) /\ k < n
  BY <1>1, BelowIs DEF Going
<1>3. \A K : Known(stack, k, K) =>
        Fits(f, K) /\ (Accepting(stack[n], Through(stack, k, K), Pos) <=> Accepting(f, K, Pos + m))
  BY <1>1, <1>2 DEF Known, Through
<1>4. k # 1
  <2>1. stack[1].at = "list"
    BY <1>1 DEF Stacks
  <2>2. QED
    BY <2>1
<1>5. Cut(stack, k, f) \in Stacks
  BY <1>1, <1>2, <1>4, Recut
<1>6. Means(Cut(stack, k, f), Pos + m)
  <2>1. PICK j : j = Pos + m
    OBVIOUS
  <2>2. PICK i : i = Pos
    OBVIOUS
  <2> HIDE DEF k
  <2>3. Means(Cut(stack, k, f), j)
    BY <1>1, <1>2, <1>3, <2>1, <2>2, MeansCut
  <2>4. QED
    BY <2>1, <2>3
<1>7. QED
  BY <1>1, <1>2, <1>5, <1>6, GoMeans DEF Going

(* ... and makes another call.                                             *)
LEMMA BelowCalls ==
  ASSUME NEW m, Going(m), Top \in ExpFrames, NEW f, Alike(f, stack[Below]), stack[Below].at # "list",
         NEW g \in Frames, Stacked(f, g), Go(m, Append(SetBelow(f), g)),
         \A K : Fits(stack[Below], K) /\ Fits(Top, Cont(stack[Below], K)) =>
           /\ Fits(f, K) /\ Fits(g, Cont(f, K))
           /\ Accepting(Top, Cont(stack[Below], K), Pos) <=> Accepting(g, Cont(f, K), Pos + m)
  PROVE  TInv'
<1> DEFINE n == Len(stack)
           k == Below
<1>1. stack \in Stacks /\ Means(stack, Pos) /\ Top = stack[n] /\ n \in Nat
  BY StackIs DEF Going
<1>2. k \in 1 .. n /\ k = n - 1 /\ k >= n - 2 /\ k + 1 = n /\ SetBelow(f) = Cut(stack, k, f) /\ k # n
      /\ ~ (k < n - 1) /\ k < n
  BY <1>1, BelowIs DEF Going
<1>3. \A K : Known(stack, k, K) =>
        /\ Fits(f, K) /\ Fits(g, Cont(f, K))
        /\ Accepting(stack[n], Through(stack, k, K), Pos) <=> Accepting(g, Cont(f, K), Pos + m)
  BY <1>1, <1>2 DEF Known, Through
<1>4. k # 1
  <2>1. stack[1].at = "list"
    BY <1>1 DEF Stacks
  <2>2. QED
    BY <2>1
<1>5. Cut(stack, k, f) \in Stacks
  BY <1>1, <1>2, <1>4, Recut
<1>6. Len(Cut(stack, k, f)) = k /\ Cut(stack, k, f)[k] = f
  <2> HIDE DEF k
  <2>1. k \in 1 .. Len(stack) /\ stack \in Stacks
    BY <1>1, <1>2
  <2>2. QED
    BY <2>1, CutIs DEF Stacks
<1>7. Append(Cut(stack, k, f), g) \in Stacks
  <2> HIDE DEF k
  <2>1. QED
    BY <1>5, <1>6, StackPush DEF Frames
<1>8. Means(Append(Cut(stack, k, f), g), Pos + m)
  <2>1. PICK j : j = Pos + m
    OBVIOUS
  <2>2. PICK i : i = Pos
    OBVIOUS
  <2> HIDE DEF k
  <2>3. Means(Append(Cut(stack, k, f), g), j)
    BY <1>1, <1>2, <1>3, <1>5, <2>1, <2>2, MeansTurn DEF Frames
  <2>4. QED
    BY <2>1, <2>3
<1>9. QED
  BY <1>1, <1>2, <1>7, <1>8, GoMeans DEF Going

(* The call at the top, a list, calls g, or f, which calls g.              *)
LEMMA ListCalls ==
  ASSUME NEW m, Going(m), Top.at = "list", NEW g \in WholeFrames, g.kind # "Stmts", Go(m, Append(stack, g)),
         \A K : Fits(Top, K) =>
           /\ Fits(g, Cont(Top, K))
           /\ Accepting(Top, K, Pos) <=> Accepting(g, Cont(Top, K), Pos + m)
  PROVE  TInv'
<1> DEFINE n == Len(stack)
<1>1. stack \in Stacks /\ Means(stack, Pos) /\ Top = stack[n]
  BY StackIs DEF Going
<1>2. Stacked(stack[n], g)
  BY <1>1, FramesApart DEF Stacked
<1>3. Append(stack, g) \in Stacks
  BY <1>1, <1>2, StackPush
<1>4. Means(Append(stack, g), Pos + m)
  <2>1. PICK j : j = Pos + m
    OBVIOUS
  <2>2. PICK i : i = Pos
    OBVIOUS
  <2>3. Means(Append(stack, g), j)
    BY <1>1, <1>2, <2>1, <2>2, MeansPush
  <2>4. QED
    BY <2>1, <2>3
<1>5. QED
  BY <1>1, <1>3, <1>4, GoMeans DEF Going

LEMMA StmtCallsExp ==
  ASSUME NEW m, Going(m), Top.at = "list", NEW f \in WholeFrames, f.kind # "Stmts", f.at = "exp",
         Go(m, CallExp(f)),
         \A K : Fits(Top, K) =>
           /\ Fits(f, Cont(Top, K)) /\ Refuses(Cont(f, Cont(Top, K)), 1)
           /\ Accepting(Top, K, Pos) <=> Accepts(1, Pos + m, Cont(f, Cont(Top, K)))
  PROVE  TInv'
<1> DEFINE n == Len(stack)
           g == ExpBp(0)
<1>1. stack \in Stacks /\ Means(stack, Pos) /\ Top = stack[n]
  BY StackIs DEF Going
<1>2. g \in ExpFrames /\ g.at = "operand" /\ MinRow[g.min_bp] = 1
  BY NewExp, MinRowIs
<1>3. Stacked(stack[n], f) /\ Stacked(f, g)
  BY <1>1, <1>2, FramesApart DEF Stacked
<1>4. Append(stack, f) \in Stacks /\ Append(stack, f)[Len(Append(stack, f))] = f
  BY <1>1, <1>3, StackPush
<1> HIDE DEF g
<1>5. Append(Append(stack, f), g) \in Stacks
  BY <1>2, <1>3, <1>4, StackPush
<1>6. \A K : Fits(stack[n], K) =>
           /\ Fits(f, Cont(stack[n], K)) /\ Fits(g, Cont(f, Cont(stack[n], K)))
           /\ Accepting(stack[n], K, Pos) <=> Accepting(g, Cont(f, Cont(stack[n], K)), Pos + m)
  <2> SUFFICES ASSUME NEW K, Fits(stack[n], K)
               PROVE  /\ Fits(f, Cont(stack[n], K)) /\ Fits(g, Cont(f, Cont(stack[n], K)))
                      /\ Accepting(stack[n], K, Pos) <=> Accepting(g, Cont(f, Cont(stack[n], K)), Pos + m)
    OBVIOUS
  <2>1. \A L : Fits(g, L) <=> Refuses(L, 1)
    BY <1>2 DEF Fits
  <2>2. \A L : Accepting(g, L, Pos + m) <=> Accepts(1, Pos + m, L)
    BY <1>2 DEF Accepting
  <2>3. QED
    BY <1>1, <2>1, <2>2
<1>7. Means(Append(Append(stack, f), g), Pos + m)
  <2>1. PICK j : j = Pos + m
    OBVIOUS
  <2>2. PICK i : i = Pos
    OBVIOUS
  <2>3. g \in ExpFrames \union WholeFrames /\ f \in ExpFrames \union WholeFrames
    BY <1>2
  <2>4. Means(Append(Append(stack, f), g), j)
    BY <1>1, <1>3, <1>6, <2>1, <2>2, <2>3, MeansPushTwo
  <2>5. QED
    BY <2>1, <2>4
<1>8. QED
  BY <1>1, <1>5, <1>7, GoMeans DEF Going, CallExp, g

(* A list gains a statement.                                               *)
LEMMA ListGains ==
  ASSUME NEW m, Going(m), NEW k \in 1 .. Len(stack), k >= Len(stack) - 2, NEW s \in Trees,
         stack[k] \in WholeFrames, stack[k].at = "list", Go(m, Within(k, s)),
         \A K : Known(stack, k, K) =>
           (Accepting(Top, Through(stack, k, K), Pos) <=> <<s, Pos + m>> \in AfterStmt(stack[k], K))
  PROVE  TInv'
<1> DEFINE f == Gains(stack[k], s)
<1>1. stack \in Stacks /\ Means(stack, Pos) /\ Top = stack[Len(stack)]
  BY StackIs DEF Going
<1>2. Within(k, s) = Cut(stack, k, f) /\ Cut(stack, k, f) \in Stacks
  BY WithinIs DEF Going
<1>3. f \in WholeFrames /\ f.at = "list" /\ f.kind = stack[k].kind
  BY GainsWhole
<1>4. ASSUME NEW K, Known(stack, k, K)
      PROVE  Fits(f, K) /\ (Accepting(Top, Through(stack, k, K), Pos) <=> Accepting(f, K, Pos + m))
  <2>1. Fits(f, K)
    BY <1>3, <1>4, FramesApart DEF Known, Fits
  <2>2. Accepting(f, K, Pos + m) <=> ListAccepts(f, K, Pos + m)
    BY <1>3 DEF Accepting
  <2>3. <<s, Pos + m>> \in AfterStmt(stack[k], K) <=> ListAccepts(f, K, Pos + m)
    BY DEF AfterStmt, Going
  <2>4. QED
    BY <1>4, <2>1, <2>2, <2>3
<1> HIDE DEF f
<1>5. Means(Cut(stack, k, f), Pos + m)
  <2>1. PICK j : j = Pos + m
    OBVIOUS
  <2>2. PICK i : i = Pos
    OBVIOUS
  <2>3. Means(Cut(stack, k, f), j)
    BY <1>1, <1>4, <2>1, <2>2, MeansCut
  <2>4. QED
    BY <2>1, <2>3
<1>6. QED
  BY <1>1, <1>2, <1>5, GoMeans DEF Going

(* Nothing can come of the calls.                                          *)
LEMMA NothingComes ==
  ASSUME TInv, status = "parsing", Throw, NEW k \in 1 .. Len(stack), k >= Len(stack) - 2,
         \A K : Known(stack, k, K) => ~ Accepting(Top, Through(stack, k, K), Pos)
  PROVE  TInv'
<1>1. stack \in Stacks /\ Means(stack, Pos) /\ Top = stack[Len(stack)] /\ EndsInEof
  BY StackIs DEF TInv
<1>2. PICK i : i = Pos
  OBVIOUS
<1>3. Program = {}
  BY <1>1, <1>2, MeansNone
<1>4. QED
  BY <1>3, ThrowMeans

LEMMA TopFails ==
  ASSUME TInv, status = "parsing", Throw, \A K : Fits(Top, K) => ~ Accepting(Top, K, Pos)
  PROVE  TInv'
<1> DEFINE n == Len(stack)
<1>1. n \in 1 .. n /\ n >= n - 2 /\ Top = stack[n]
  BY StackIs
<1>2. \A K : Known(stack, n, K) => ~ Accepting(Top, Through(stack, n, K), Pos)
  BY <1>1 DEF Known, Through
<1>3. QED
  BY <1>1, <1>2, NothingComes

LEMMA BelowFails ==
  ASSUME TInv, status = "parsing", Throw, Top \in ExpFrames,
         \A K : Fits(stack[Below], K) /\ Fits(Top, Cont(stack[Below], K)) =>
                  ~ Accepting(Top, Cont(stack[Below], K), Pos)
  PROVE  TInv'
<1> DEFINE n == Len(stack)
           k == Below
<1>1. Top = stack[n] /\ n \in Nat
  BY StackIs
<1>2. k \in 1 .. n /\ k = n - 1 /\ k >= n - 2 /\ k + 1 = n /\ k # n /\ k < n
  BY <1>1, BelowIs
<1>3. \A K : Known(stack, k, K) => ~ Accepting(Top, Through(stack, k, K), Pos)
  BY <1>1, <1>2 DEF Known, Through
<1>4. QED
  BY <1>2, <1>3, NothingComes
-----------------------------------------------------------------------------
(* The steps of exp_bp at its first token.                                 *)
LEMMA OperandHere ==
  ASSUME TInv, At("operand")
  PROVE  /\ status = "parsing" /\ EndsInEof /\ Top \in ExpFrames /\ Top.args = <<>> /\ Len(stack) # 1
         /\ MinRow[Top.min_bp] \in 1 .. 10 /\ Pos \in Place /\ Front = input[Pos]
         /\ \A K : Fits(Top, K) <=> Refuses(K, MinRow[Top.min_bp])
         /\ \A K, i : Accepting(Top, K, i) <=> Accepts(MinRow[Top.min_bp], i, K)
<1>1. status = "parsing" /\ Top.at = "operand"
  BY DEF At
<1>2. Top \in ExpFrames /\ Len(stack) # 1 /\ Len(stack) \in Nat
  BY <1>1, StackIs
<1>3. Top.args = <<>> /\ MinRow[Top.min_bp] \in 1 .. 10
  BY <1>1, <1>2, MinRowIs DEF ExpFrames
<1>4. Pos \in Place /\ Front = input[Pos] /\ EndsInEof
  BY FrontIs DEF TInv
<1>5. \A K : Fits(Top, K) <=> Refuses(K, MinRow[Top.min_bp])
  BY <1>2 DEF Fits
<1>6. \A K, i : Accepting(Top, K, i) <=> Accepts(MinRow[Top.min_bp], i, K)
  BY <1>1 DEF Accepting
<1>7. QED
  BY <1>1, <1>2, <1>3, <1>4, <1>5, <1>6

LEMMA LoopFits ==
  ASSUME NEW f \in ExpFrames, NEW e \in Trees
  PROVE  /\ LoopOf(f, e) \in ExpFrames /\ Alike(LoopOf(f, e), f) /\ LoopOf(f, e).at = "loop"
         /\ \A K : Fits(LoopOf(f, e), K) <=> Fits(f, K)
         /\ \A K, i : Accepting(LoopOf(f, e), K, i) <=> <<11, e, i>> \in Grown(MinRow[f.min_bp], K)
<1> DEFINE g == LoopOf(f, e)
<1>1. g \in ExpFrames /\ g.at = "loop" /\ g.min_bp = f.min_bp /\ g.lhs = e
  BY LoopFrame
<1> HIDE DEF g
<1>2. Alike(g, f)
  BY <1>1 DEF Alike
<1>3. \A K : Fits(g, K) <=> Fits(f, K)
  BY <1>1 DEF Fits
<1>4. \A K, i : Accepting(g, K, i) <=> <<11, e, i>> \in Grown(MinRow[f.min_bp], K)
  BY <1>1 DEF Accepting
<1>5. QED
  BY <1>1, <1>2, <1>3, <1>4 DEF g

LEMMA CalledExp ==
  ASSUME NEW bp \in Bps
  PROVE  /\ ExpBp(bp) \in Frames /\ ExpBp(bp) \in ExpFrames
         /\ \A K : Fits(ExpBp(bp), K) <=> Refuses(K, MinRow[bp])
         /\ \A K, i : Accepting(ExpBp(bp), K, i) <=> Accepts(MinRow[bp], i, K)
<1> DEFINE g == ExpBp(bp)
<1>1. g \in ExpFrames /\ g.at = "operand" /\ g.min_bp = bp
  BY NewExp
<1> HIDE DEF g
<1>2. \A K : Fits(g, K) <=> Refuses(K, MinRow[bp])
  BY <1>1 DEF Fits
<1>3. \A K, i : Accepting(g, K, i) <=> Accepts(MinRow[bp], i, K)
  BY <1>1 DEF Accepting
<1>4. QED
  BY <1>1, <1>2, <1>3 DEF g, Frames

LEMMA CallAheadIs ==
  ASSUME TInv
  PROVE  /\ CallAhead <=> input[Pos] = "Identifier" /\ input[Pos + 1] = "Lparen"
         /\ CallAhead => /\ Pos + 1 \in Place /\ Pos + 2 \in Place /\ tokens[3] = input[Pos + 2]
                         /\ input[Pos] = "Identifier" /\ input[Pos + 1] = "Lparen"
<1>1. EndsInEof /\ Pos \in Place /\ Front = input[Pos]
  BY FrontIs DEF TInv
<1>2. input[Pos] = "Identifier" => Pos + 1 \in Place /\ tokens[2] = input[Pos + 1]
  BY <1>1, TokensPlace, FrontIs
<1>3. CallAhead <=> input[Pos] = "Identifier" /\ input[Pos + 1] = "Lparen"
  BY <1>1, <1>2 DEF CallAhead
<1>4. ASSUME CallAhead PROVE Pos + 1 \in Place /\ Pos + 2 \in Place /\ tokens[3] = input[Pos + 2]
  <2>1. input[Pos] = "Identifier" /\ input[Pos + 1] = "Lparen" /\ Pos + 1 \in Place
    BY <1>2, <1>3, <1>4
  <2>2. (Pos + 1) + 1 \in Place
    <3>1. PICK i : i = Pos + 1
      OBVIOUS
    <3>2. i + 1 \in Place
      BY <1>1, <2>1, <3>1, TokensPlace
    <3>3. QED
      BY <3>1, <3>2
  <2>3. (Pos + 1) + 1 = Pos + 2
    BY <1>1 DEF Place
  <2>4. QED
    BY <2>1, <2>2, <2>3, FrontIs
<1>5. QED
  BY <1>3, <1>4

LEMMA ParseLeafStep ==
  ASSUME TInv, ParseLeaf
  PROVE  TInv'
<1> DEFINE e == Leaf(LeafKind[Front])
           f == LoopOf(Top, e)
           m == MinRow[Top.min_bp]
<1>1. At("operand") /\ Front \in DOMAIN LeafKind /\ ~ CallAhead /\ Go(1, SetTop(f))
  BY DEF ParseLeaf, Looping
<1>2. /\ status = "parsing" /\ EndsInEof /\ Top \in ExpFrames /\ Len(stack) # 1 /\ m \in 1 .. 10
      /\ Pos \in Place /\ Front = input[Pos]
  BY <1>1, OperandHere
<1>3. e \in Trees
  BY <1>1, TreesAre
<1>4. Going(1)
  BY <1>1, <1>2, TokensPlace DEF Going
<1> HIDE DEF f, m
<1>5. ASSUME NEW K, Fits(Top, K)
      PROVE  Fits(f, K) /\ (Accepting(Top, K, Pos) <=> Accepting(f, K, Pos + 1))
  <2>1. Refuses(K, m) /\ (Accepting(Top, K, Pos) <=> Accepts(m, Pos, K))
    BY <1>1, <1>5, OperandHere DEF m
  <2>2. Accepts(m, Pos, K) <=> <<11, e, Pos + 1>> \in Grown(m, K)
    BY <1>1, <1>2, <2>1, CallAheadIs, LeafOperand
  <2>3. Fits(f, K) /\ (Accepting(f, K, Pos + 1) <=> <<11, e, Pos + 1>> \in Grown(m, K))
    BY <1>2, <1>3, <1>5, LoopFits DEF f, m
  <2>4. QED
    BY <2>1, <2>2, <2>3
<1>6. Alike(f, Top)
  BY <1>2, <1>3, LoopFits DEF f
<1>7. QED
  BY <1>1, <1>2, <1>4, <1>5, <1>6, TopGoesOn

(* A call that waits for what it called.                                   *)
LEMMA WaitFits ==
  ASSUME NEW f \in ExpFrames, NEW where, NEW op,
         \/ where \in {"paren", "call"} /\ op = "none"
         \/ where = "prefix" /\ op \in PrefixOps
         \/ /\ where = "infix" /\ f.lhs \in Trees
            /\ \E k \in 1 .. 9 : k >= MinRow[f.min_bp] /\ op \in Row[k]
  PROVE  LET g == WaitOf(f, where, op)
         IN  /\ g \in ExpFrames /\ Alike(g, f) /\ g.at = where /\ g.op = op
             /\ g.min_bp = f.min_bp /\ g.lhs = f.lhs /\ g.args = f.args
             /\ \A K : Fits(g, K) <=> Fits(f, K)
<1> DEFINE g == WaitOf(f, where, op)
<1>1. /\ g \in ExpFrames /\ g.at = where /\ g.op = op
      /\ g.min_bp = f.min_bp /\ g.lhs = f.lhs /\ g.args = f.args
  BY WaitFrame
<1> HIDE DEF g
<1>2. Alike(g, f) /\ \A K : Fits(g, K) <=> Fits(f, K)
  BY <1>1 DEF Alike, Fits
<1>3. QED
  BY <1>1, <1>2 DEF g

LEMMA ParseCallStep ==
  ASSUME TInv, ParseCall
  PROVE  TInv'
<1> DEFINE m == MinRow[Top.min_bp]
<1>1. At("operand") /\ CallAhead
  BY DEF ParseCall
<1>2. /\ status = "parsing" /\ EndsInEof /\ Top \in ExpFrames /\ Len(stack) # 1 /\ m \in 1 .. 10
      /\ Pos \in Place /\ Top.args = <<>>
  BY <1>1, OperandHere
<1>3. /\ input[Pos] = "Identifier" /\ input[Pos + 1] = "Lparen" /\ Pos + 2 \in Place
      /\ tokens[3] = input[Pos + 2]
  BY <1>1, CallAheadIs
<1> HIDE DEF m
<1>4. CASE tokens[3] = "Rparen"
  <2> DEFINE e == CallTree(<<>>)
             f == LoopOf(Top, e)
  <2>1. Go(3, SetTop(f))
    BY <1>4 DEF ParseCall, Looping
  <2>2. e \in Trees
    <3>1. <<>> \in Seq(Trees)
      OBVIOUS
    <3>2. QED
      BY <3>1, TreesAre
  <2>3. Going(3)
    <3>1. PICK i : i = Pos + 2
      OBVIOUS
    <3>2. i + 1 \in Place
      BY <1>2, <1>3, <1>4, <3>1, TokensPlace
    <3>3. i + 1 = Pos + 3
      BY <1>2, <3>1 DEF Place
    <3>4. QED
      BY <1>2, <3>2, <3>3 DEF Going
  <2> HIDE DEF f
  <2>4. ASSUME NEW K, Fits(Top, K)
        PROVE  Fits(f, K) /\ (Accepting(Top, K, Pos) <=> Accepting(f, K, Pos + 3))
    <3>1. Refuses(K, m) /\ (Accepting(Top, K, Pos) <=> Accepts(m, Pos, K))
      BY <1>1, <2>4, OperandHere DEF m
    <3>2. Accepts(m, Pos, K) <=> <<11, e, Pos + 3>> \in Grown(m, K)
      BY <1>2, <1>3, <1>4, <3>1, CallOperand
    <3>3. Fits(f, K) /\ (Accepting(f, K, Pos + 3) <=> <<11, e, Pos + 3>> \in Grown(m, K))
      BY <1>2, <2>2, <2>4, LoopFits DEF f, m
    <3>4. QED
      BY <3>1, <3>2, <3>3
  <2>5. Alike(f, Top)
    BY <1>2, <2>2, LoopFits DEF f
  <2>6. QED
    BY <1>2, <2>1, <2>3, <2>4, <2>5, TopGoesOn
<1>5. CASE tokens[3] # "Rparen"
  <2> DEFINE f == WaitOf(Top, "call", "none")
             g == ExpBp(0)
  <2>1. Go(2, Append(SetTop(f), g))
    BY <1>5 DEF ParseCall, Waiting, WaitOf
  <2>2. /\ f \in ExpFrames /\ Alike(f, Top) /\ f.at = "call" /\ f.min_bp = Top.min_bp /\ f.args = <<>>
        /\ \A K : Fits(f, K) <=> Fits(Top, K)
    BY <1>2, WaitFits
  <2>3. Going(2)
    BY <1>2, <1>3 DEF Going
  <2>4. /\ g \in Frames /\ g \in ExpFrames
        /\ \A K : Fits(g, K) <=> Refuses(K, 1)
        /\ \A K, i : Accepting(g, K, i) <=> Accepts(1, i, K)
    BY CalledExp, MinRowIs
  <2> HIDE DEF f, g
  <2>5. Stacked(f, g)
    BY <2>2, <2>4 DEF Stacked
  <2>6. ASSUME NEW K, Fits(Top, K)
        PROVE  /\ Fits(f, K) /\ Fits(g, Cont(f, K))
               /\ Accepting(Top, K, Pos) <=> Accepting(g, Cont(f, K), Pos + 2)
    <3>1. Refuses(K, m) /\ (Accepting(Top, K, Pos) <=> Accepts(m, Pos, K))
      BY <1>1, <2>6, OperandHere DEF m
    <3>2. Cont(f, K) = AfterArg(EndsCall(m, K), <<>>)
      BY <2>2 DEF Cont, m
    <3>3. /\ Accepts(m, Pos, K) <=> Accepts(1, Pos + 2, AfterArg(EndsCall(m, K), <<>>))
          /\ Refuses(AfterArg(EndsCall(m, K), <<>>), 1)
      BY <1>2, <1>3, <1>5, <3>1, CallOperand
    <3>4. QED
      BY <2>2, <2>4, <2>6, <3>1, <3>2, <3>3
  <2>7. QED
    BY <1>2, <2>1, <2>2, <2>3, <2>4, <2>5, <2>6, TopCalls
<1>6. QED
  BY <1>4, <1>5

LEMMA ParseParenStep ==
  ASSUME TInv, ParseParen
  PROVE  TInv'
<1> DEFINE m == MinRow[Top.min_bp]
           f == WaitOf(Top, "paren", "none")
           g == ExpBp(0)
<1>1. At("operand") /\ Front = "Lparen" /\ Go(1, Append(SetTop(f), g))
  BY DEF ParseParen, Waiting, WaitOf
<1>2. /\ status = "parsing" /\ EndsInEof /\ Top \in ExpFrames /\ Len(stack) # 1 /\ m \in 1 .. 10
      /\ Pos \in Place /\ Front = input[Pos]
  BY <1>1, OperandHere
<1>3. Going(1)
  BY <1>1, <1>2, TokensPlace DEF Going
<1>4. /\ f \in ExpFrames /\ Alike(f, Top) /\ f.at = "paren" /\ f.min_bp = Top.min_bp
      /\ \A K : Fits(f, K) <=> Fits(Top, K)
  BY <1>2, WaitFits
<1>5. /\ g \in Frames /\ g \in ExpFrames
      /\ \A K : Fits(g, K) <=> Refuses(K, 1)
      /\ \A K, i : Accepting(g, K, i) <=> Accepts(1, i, K)
  BY CalledExp, MinRowIs
<1> HIDE DEF f, g, m
<1>6. Stacked(f, g)
  BY <1>4, <1>5 DEF Stacked
<1>7. ASSUME NEW K, Fits(Top, K)
      PROVE  /\ Fits(f, K) /\ Fits(g, Cont(f, K))
             /\ Accepting(Top, K, Pos) <=> Accepting(g, Cont(f, K), Pos + 1)
  <2>1. Refuses(K, m) /\ (Accepting(Top, K, Pos) <=> Accepts(m, Pos, K))
    BY <1>1, <1>7, OperandHere DEF m
  <2>2. Cont(f, K) = AfterParen(m, K)
    BY <1>4 DEF Cont, m
  <2>3. (Accepts(m, Pos, K) <=> Accepts(1, Pos + 1, AfterParen(m, K))) /\ Refuses(AfterParen(m, K), 1)
    BY <1>1, <1>2, ParenOperand
  <2>4. QED
    BY <1>4, <1>5, <1>7, <2>1, <2>2, <2>3
<1>8. QED
  BY <1>1, <1>2, <1>3, <1>4, <1>5, <1>6, <1>7, TopCalls

LEMMA ParsePrefixStep ==
  ASSUME TInv, ParsePrefix
  PROVE  TInv'
<1> DEFINE m == MinRow[Top.min_bp]
           f == WaitOf(Top, "prefix", Front)
           g == ExpBp(PrefixBp)
<1>1. At("operand") /\ Front \in PrefixOps /\ Go(1, Append(SetTop(f), g))
  BY DEF ParsePrefix, Waiting, WaitOf
<1>2. /\ status = "parsing" /\ EndsInEof /\ Top \in ExpFrames /\ Len(stack) # 1 /\ m \in 1 .. 10
      /\ Pos \in Place /\ Front = input[Pos]
  BY <1>1, OperandHere
<1>3. Going(1)
  BY <1>1, <1>2, TokensPlace DEF Going
<1>4. /\ f \in ExpFrames /\ Alike(f, Top) /\ f.at = "prefix" /\ f.op = Front /\ f.min_bp = Top.min_bp
      /\ \A K : Fits(f, K) <=> Fits(Top, K)
  BY <1>1, <1>2, WaitFits
<1>5. /\ g \in Frames /\ g \in ExpFrames
      /\ \A K : Fits(g, K) <=> Refuses(K, 10)
      /\ \A K, i : Accepting(g, K, i) <=> Accepts(10, i, K)
  BY CalledExp, MinRowIs
<1> HIDE DEF f, g, m
<1>6. Stacked(f, g)
  BY <1>4, <1>5 DEF Stacked
<1>7. ASSUME NEW K, Fits(Top, K)
      PROVE  /\ Fits(f, K) /\ Fits(g, Cont(f, K))
             /\ Accepting(Top, K, Pos) <=> Accepting(g, Cont(f, K), Pos + 1)
  <2>1. Refuses(K, m) /\ (Accepting(Top, K, Pos) <=> Accepts(m, Pos, K))
    BY <1>1, <1>7, OperandHere DEF m
  <2>2. Cont(f, K) = AfterPrefix(m, K, input[Pos])
    BY <1>2, <1>4 DEF Cont, m
  <2>3. /\ Accepts(m, Pos, K) <=> Accepts(10, Pos + 1, AfterPrefix(m, K, input[Pos]))
        /\ Refuses(AfterPrefix(m, K, input[Pos]), 10)
    BY <1>1, <1>2, <2>1, PrefixOperand
  <2>4. QED
    BY <1>4, <1>5, <1>7, <2>1, <2>2, <2>3
<1>8. QED
  BY <1>1, <1>2, <1>3, <1>4, <1>5, <1>6, <1>7, TopCalls

LEMMA NoOperandStep ==
  ASSUME TInv, NoOperand
  PROVE  TInv'
<1> DEFINE m == MinRow[Top.min_bp]
<1>1. At("operand") /\ Front \notin DOMAIN LeafKind \union {"Lparen"} \union PrefixOps /\ Throw
  BY DEF NoOperand
<1>2. status = "parsing" /\ EndsInEof /\ m \in 1 .. 10 /\ Pos \in Place /\ Front = input[Pos]
  BY <1>1, OperandHere
<1> HIDE DEF m
<1>3. ASSUME NEW K, Fits(Top, K) PROVE ~ Accepting(Top, K, Pos)
  <2>1. Accepting(Top, K, Pos) <=> Accepts(m, Pos, K)
    BY <1>1, OperandHere DEF m
  <2>2. ~ OperandAt(Grown(m, K), Pos)
    BY <1>1, <1>2, StartsAre DEF OperandAt, LeafAt, PrefixAt, ParenAt, CallAt
  <2>3. QED
    BY <1>2, <2>1, <2>2, OperandIs
<1>4. QED
  BY <1>1, <1>2, <1>3, TopFails
-----------------------------------------------------------------------------
(* The steps of its loop over operators, and its return.                   *)
LEMMA LoopHere ==
  ASSUME TInv, At("loop")
  PROVE  /\ status = "parsing" /\ EndsInEof /\ Top \in ExpFrames /\ Top.lhs \in Trees /\ Len(stack) # 1
         /\ MinRow[Top.min_bp] \in 1 .. 10 /\ Top.min_bp \in Bps /\ Pos \in Place /\ Front = input[Pos]
         /\ \A K : Fits(Top, K) <=> Refuses(K, MinRow[Top.min_bp])
         /\ \A K : Accepting(Top, K, Pos) <=> <<11, Top.lhs, Pos>> \in Grown(MinRow[Top.min_bp], K)
<1>1. status = "parsing" /\ Top.at = "loop"
  BY DEF At
<1>2. Top \in ExpFrames /\ Len(stack) # 1 /\ Len(stack) \in Nat
  BY <1>1, StackIs
<1>3. Top.lhs \in Trees /\ MinRow[Top.min_bp] \in 1 .. 10 /\ Top.min_bp \in Bps
  BY <1>1, <1>2, MinRowIs DEF ExpFrames
<1>4. Pos \in Place /\ Front = input[Pos] /\ EndsInEof
  BY FrontIs DEF TInv
<1>5. \A K : Fits(Top, K) <=> Refuses(K, MinRow[Top.min_bp])
  BY <1>2 DEF Fits
<1>6. \A K : Accepting(Top, K, Pos) <=> <<11, Top.lhs, Pos>> \in Grown(MinRow[Top.min_bp], K)
  BY <1>1 DEF Accepting
<1>7. QED
  BY <1>1, <1>2, <1>3, <1>4, <1>5, <1>6

LEMMA ParsePostfixStep ==
  ASSUME TInv, ParsePostfix
  PROVE  TInv'
<1> DEFINE e == Unop("Lbracket", Top.lhs)
           f == LoopOf(Top, e)
           m == MinRow[Top.min_bp]
<1>1. At("loop") /\ Front = "Lbracket" /\ Go(1, SetTop(f))
  BY DEF ParsePostfix, Looping, PostfixOps
<1>2. /\ status = "parsing" /\ EndsInEof /\ Top \in ExpFrames /\ Top.lhs \in Trees /\ Len(stack) # 1
      /\ m \in 1 .. 10 /\ Pos \in Place /\ Front = input[Pos]
  BY <1>1, LoopHere
<1>3. e \in Trees
  BY <1>1, <1>2, TokensPlace, TreesAre
<1>4. Going(1)
  BY <1>1, <1>2, TokensPlace DEF Going
<1> HIDE DEF e, f, m
<1>5. ASSUME NEW K, Fits(Top, K)
      PROVE  Fits(f, K) /\ (Accepting(Top, K, Pos) <=> Accepting(f, K, Pos + 1))
  <2>1. Refuses(K, m) /\ (Accepting(Top, K, Pos) <=> <<11, Top.lhs, Pos>> \in Grown(m, K))
    BY <1>1, <1>5, LoopHere DEF m
  <2>2. <<11, Top.lhs, Pos>> \in Grown(m, K) <=> <<11, e, Pos + 1>> \in Grown(m, K)
    BY <1>1, <1>2, <2>1, LoopPostfix DEF e
  <2>3. Fits(f, K) /\ (Accepting(f, K, Pos + 1) <=> <<11, e, Pos + 1>> \in Grown(m, K))
    BY <1>2, <1>3, <1>5, LoopFits DEF f, m
  <2>4. QED
    BY <2>1, <2>2, <2>3
<1>6. Alike(f, Top)
  BY <1>2, <1>3, LoopFits DEF f
<1>7. QED
  BY <1>1, <1>2, <1>4, <1>5, <1>6, TopGoesOn

LEMMA ParseInfixStep ==
  ASSUME TInv, ParseInfix
  PROVE  TInv'
<1> DEFINE m == MinRow[Top.min_bp]
           f == WaitOf(Top, "infix", Front)
           g == ExpBp(RightBp(Front))
<1>1. /\ At("loop") /\ Front \in InfixOps /\ LeftBp(Front) >= Top.min_bp
      /\ Go(1, Append(SetTop(f), g))
  BY DEF ParseInfix, Waiting, WaitOf
<1>2. /\ status = "parsing" /\ EndsInEof /\ Top \in ExpFrames /\ Top.lhs \in Trees /\ Len(stack) # 1
      /\ m \in 1 .. 10 /\ Top.min_bp \in Bps /\ Pos \in Place /\ Front = input[Pos]
  BY <1>1, LoopHere
<1>3. PICK k \in 1 .. 9 : Front \in Row[k]
  BY <1>1, RowsAre
<1>4. k >= m /\ RightBp(Front) \in Bps /\ MinRow[RightBp(Front)] = k + 1
  BY <1>1, <1>2, <1>3, MinRowIs
<1>5. Going(1)
  BY <1>1, <1>2, TokensPlace DEF Going
<1>6. /\ f \in ExpFrames /\ Alike(f, Top) /\ f.at = "infix" /\ f.op = Front /\ f.min_bp = Top.min_bp
      /\ f.lhs = Top.lhs
      /\ \A K : Fits(f, K) <=> Fits(Top, K)
  BY <1>2, <1>3, <1>4, WaitFits
<1>7. /\ g \in Frames /\ g \in ExpFrames /\ g.min_bp = RightBp(Front)
      /\ \A K : Fits(g, K) <=> Refuses(K, k + 1)
      /\ \A K, i : Accepting(g, K, i) <=> Accepts(k + 1, i, K)
  BY <1>4, CalledExp, NewExp
<1> HIDE DEF f, g, m
<1>8. Stacked(f, g)
  BY <1>6, <1>7 DEF Stacked
<1>9. ASSUME NEW K, Fits(Top, K)
      PROVE  /\ Fits(f, K) /\ Fits(g, Cont(f, K))
             /\ Accepting(Top, K, Pos) <=> Accepting(g, Cont(f, K), Pos + 1)
  <2>1. Refuses(K, m) /\ (Accepting(Top, K, Pos) <=> <<11, Top.lhs, Pos>> \in Grown(m, K))
    BY <1>1, <1>9, LoopHere DEF m
  <2>2. Cont(f, K) = AfterInfix(m, K, k, input[Pos], Top.lhs)
    <3>1. Cont(f, K) = AfterInfix(m, K, MinRow[RightBp(Front)] - 1, Front, Top.lhs)
      BY <1>6 DEF Cont, m
    <3>2. MinRow[RightBp(Front)] - 1 = k
      BY <1>4
    <3>3. QED
      BY <1>2, <3>1, <3>2
  <2>3. /\ <<11, Top.lhs, Pos>> \in Grown(m, K)
             <=> Accepts(k + 1, Pos + 1, AfterInfix(m, K, k, input[Pos], Top.lhs))
        /\ Refuses(AfterInfix(m, K, k, input[Pos], Top.lhs), k + 1)
    <3>1. k \in m .. 9 /\ input[Pos] \in Row[k]
      BY <1>2, <1>3, <1>4
    <3>2. QED
      BY <1>2, <2>1, <3>1, LoopInfix
  <2>4. QED
    BY <1>6, <1>7, <1>9, <2>1, <2>2, <2>3
<1>10. QED
  BY <1>1, <1>2, <1>5, <1>6, <1>7, <1>8, <1>9, TopCalls

(* What a call that is at the end of its loop returns.                     *)
LEMMA ReturnsHere ==
  ASSUME TInv, AtEndOfLoop
  PROVE  /\ status = "parsing" /\ EndsInEof /\ Top \in ExpFrames /\ Top.lhs \in Trees
         /\ Pos \in Place /\ Front = input[Pos] /\ input[Pos] # "Lbracket"
         /\ \A k \in MinRow[Top.min_bp] .. 9 : input[Pos] \notin Row[k]
         /\ \A K : Accepting(Top, K, Pos) <=> <<Top.lhs, Pos>> \in K
<1> DEFINE m == MinRow[Top.min_bp]
<1>1. At("loop") /\ Front # "Lbracket" /\ (Front \in InfixOps => LeftBp(Front) < Top.min_bp)
  BY DEF AtEndOfLoop, PostfixOps
<1>2. /\ status = "parsing" /\ EndsInEof /\ Top \in ExpFrames /\ Top.lhs \in Trees
      /\ m \in 1 .. 10 /\ Top.min_bp \in Bps /\ Pos \in Place /\ Front = input[Pos]
  BY <1>1, LoopHere
<1>3. ASSUME NEW k \in m .. 9 PROVE input[Pos] \notin Row[k]
  <2>1. SUFFICES ASSUME Front \in Row[k] PROVE FALSE
    BY <1>2
  <2>2. k \in 1 .. 9 /\ k >= m
    BY <1>2
  <2>3. Front \in InfixOps /\ LeftBp(Front) >= Top.min_bp
    BY <1>2, <2>1, <2>2, RowsAre, MinRowIs
  <2>4. LeftBp(Front) \in Int /\ Top.min_bp \in Int
    BY <1>2, <2>3 DEF LeftBp, Level, InfixOps, Bps
  <2>5. QED
    BY <1>1, <2>3, <2>4
<1>4. ASSUME NEW K PROVE Accepting(Top, K, Pos) <=> <<Top.lhs, Pos>> \in K
  <2>1. Accepting(Top, K, Pos) <=> <<11, Top.lhs, Pos>> \in Grown(m, K)
    BY <1>1, LoopHere
  <2> HIDE DEF m
  <2>2. QED
    BY <1>1, <1>2, <1>3, <2>1, LoopEnd
<1>5. QED
  BY <1>1, <1>2, <1>3, <1>4

LEMMA ReturnOperandStep ==
  ASSUME TInv, ReturnOperand
  PROVE  TInv'
<1> DEFINE b == stack[Below]
           m == MinRow[b.min_bp]
<1>1. AtEndOfLoop /\ b.at \in {"prefix", "infix"}
  BY DEF ReturnOperand, ReturningTo
<1>2. /\ status = "parsing" /\ EndsInEof /\ Top \in ExpFrames /\ Top.lhs \in Trees
      /\ Pos \in Place /\ Front = input[Pos] /\ input[Pos] # "Lbracket"
      /\ \A k \in MinRow[Top.min_bp] .. 9 : input[Pos] \notin Row[k]
  BY <1>1, ReturnsHere
<1>3. b \in ExpFrames /\ Stacked(b, Top) /\ b.at # "list"
  BY <1>1, <1>2, BelowIs
<1>4. m \in 1 .. 10 /\ b.min_bp \in Bps
  BY <1>3, MinRowIs DEF ExpFrames
<1>5. Going(0)
  <2>1. Pos + 0 = Pos
    BY <1>2 DEF Place
  <2>2. QED
    BY <1>2, <2>1 DEF Going
<1>6. \A K : Accepting(Top, K, Pos) <=> <<Top.lhs, Pos>> \in K
  BY <1>1, ReturnsHere
<1>7. Pos + 0 = Pos
  BY <1>2 DEF Place
<1> HIDE DEF b, m
<1>8. CASE b.at = "prefix"
  <2> DEFINE e == Unop(b.op, Top.lhs)
             f == LoopOf(b, e)
  <2>1. Go(0, SetBelow(f))
    BY <1>8 DEF ReturnOperand, ReturningTo, Resume, b
  <2>2. b.op \in PrefixOps
    BY <1>3, <1>8 DEF ExpFrames
  <2>3. e \in Trees
    BY <1>2, <2>2, StartsAre, TreesAre
  <2> HIDE DEF e, f
  <2>4. ASSUME NEW K, Fits(b, K), Fits(Top, Cont(b, K))
        PROVE  Fits(f, K) /\ (Accepting(Top, Cont(b, K), Pos) <=> Accepting(f, K, Pos + 0))
    <3>1. Cont(b, K) = AfterPrefix(m, K, b.op)
      BY <1>8 DEF Cont, m
    <3>2. <<Top.lhs, Pos>> \in AfterPrefix(m, K, b.op) <=> <<10, e, Pos>> \in Grown(m, K)
      BY <1>2 DEF AfterPrefix, e
    <3>3. <<11, e, Pos>> \in Grown(m, K) <=> <<10, e, Pos>> \in Grown(m, K)
      <4>1. 10 \in m .. 10 /\ \A k \in 10 + 1 .. 9 : input[Pos] \notin Row[k]
        BY <1>4
      <4>2. QED
        BY <1>2, <1>4, <2>3, <4>1, LoopFrom
    <3>4. Fits(f, K) /\ (Accepting(f, K, Pos) <=> <<11, e, Pos>> \in Grown(m, K))
      BY <1>3, <2>3, <2>4, LoopFits DEF f, m
    <3>5. QED
      BY <1>6, <1>7, <3>1, <3>2, <3>3, <3>4
  <2>5. Alike(f, b)
    BY <1>3, <2>3, LoopFits DEF f
  <2>6. QED
    BY <1>2, <1>3, <1>5, <2>1, <2>4, <2>5, BelowGoesOn DEF b
<1>9. CASE b.at = "infix"
  <2> DEFINE e == Binop(b.op, b.lhs, Top.lhs)
             f == LoopOf(b, e)
  <2>1. Go(0, SetBelow(f))
    BY <1>9 DEF ReturnOperand, ReturningTo, Resume, b
  <2>2. b.lhs \in Trees /\ \E k \in m .. 9 : b.op \in Row[k]
    BY <1>3, <1>9 DEF ExpFrames, m
  <2>3. PICK k \in m .. 9 : b.op \in Row[k]
    BY <2>2
  <2>4. k \in 1 .. 9 /\ k \in m .. 10 /\ MinRow[RightBp(b.op)] = k + 1 /\ b.op \in TokenType
    BY <1>4, <2>3, MinRowIs, RowsAre
  <2>5. e \in Trees
    BY <1>2, <2>2, <2>4, TreesAre
  <2>6. \A q \in k + 1 .. 9 : input[Pos] \notin Row[q]
    <3>1. Top.min_bp = RightBp(b.op)
      BY <1>2, <1>3, <1>9 DEF Stacked
    <3>2. QED
      BY <1>2, <2>4, <3>1
  <2> HIDE DEF e, f
  <2>7. ASSUME NEW K, Fits(b, K), Fits(Top, Cont(b, K))
        PROVE  Fits(f, K) /\ (Accepting(Top, Cont(b, K), Pos) <=> Accepting(f, K, Pos + 0))
    <3>1. Cont(b, K) = AfterInfix(m, K, k, b.op, b.lhs)
      <4>1. MinRow[RightBp(b.op)] - 1 = k
        BY <2>4
      <4>2. QED
        BY <1>9, <4>1 DEF Cont, m
    <3>2. <<Top.lhs, Pos>> \in AfterInfix(m, K, k, b.op, b.lhs) <=> <<k, e, Pos>> \in Grown(m, K)
      BY <1>2 DEF AfterInfix, e
    <3>3. <<11, e, Pos>> \in Grown(m, K) <=> <<k, e, Pos>> \in Grown(m, K)
      BY <1>2, <1>4, <2>4, <2>5, <2>6, LoopFrom
    <3>4. Fits(f, K) /\ (Accepting(f, K, Pos) <=> <<11, e, Pos>> \in Grown(m, K))
      BY <1>3, <2>5, <2>7, LoopFits DEF f, m
    <3>5. QED
      BY <1>6, <1>7, <3>1, <3>2, <3>3, <3>4
  <2>8. Alike(f, b)
    BY <1>3, <2>5, LoopFits DEF f
  <2>9. QED
    BY <1>2, <1>3, <1>5, <2>1, <2>7, <2>8, BelowGoesOn DEF b
<1>10. QED
  BY <1>1, <1>8, <1>9

LEMMA ReturnToParenStep ==
  ASSUME TInv, ReturnToParen
  PROVE  TInv'
<1> DEFINE b == stack[Below]
           m == MinRow[b.min_bp]
           e == Top.lhs
           f == LoopOf(b, e)
<1>1. AtEndOfLoop /\ b.at = "paren"
  BY DEF ReturnToParen, ReturningTo
<1>2. /\ status = "parsing" /\ EndsInEof /\ Top \in ExpFrames /\ e \in Trees
      /\ Pos \in Place /\ Front = input[Pos]
  BY <1>1, ReturnsHere
<1>3. b \in ExpFrames /\ b.at # "list"
  BY <1>1, <1>2, BelowIs
<1>4. \A K : Accepting(Top, K, Pos) <=> <<e, Pos>> \in K
  BY <1>1, ReturnsHere
<1>5. Front = "Rparen" => Go(1, SetBelow(f))
  BY DEF ReturnToParen, Resume
<1>6. Front # "Rparen" => Throw
  BY DEF ReturnToParen
<1> HIDE DEF b, m, f, e
<1>7. \A K : Cont(b, K) = AfterParen(m, K)
  BY <1>1 DEF Cont, m
<1>8. \A K : <<e, Pos>> \in Cont(b, K) <=> input[Pos] = "Rparen" /\ <<11, e, Pos + 1>> \in Grown(m, K)
  BY <1>2, <1>7 DEF AfterParen
<1>9. CASE Front = "Rparen"
  <2>1. Going(1)
    BY <1>2, <1>9, TokensPlace DEF Going
  <2>2. ASSUME NEW K, Fits(b, K), Fits(Top, Cont(b, K))
        PROVE  Fits(f, K) /\ (Accepting(Top, Cont(b, K), Pos) <=> Accepting(f, K, Pos + 1))
    <3>1. Fits(f, K) /\ (Accepting(f, K, Pos + 1) <=> <<11, e, Pos + 1>> \in Grown(m, K))
      BY <1>2, <1>3, <2>2, LoopFits DEF f, m
    <3>2. QED
      BY <1>2, <1>4, <1>8, <1>9, <3>1
  <2>3. Alike(f, b)
    BY <1>2, <1>3, LoopFits DEF f
  <2>4. QED
    BY <1>2, <1>3, <1>5, <1>9, <2>1, <2>2, <2>3, BelowGoesOn DEF b
<1>10. CASE Front # "Rparen"
  <2>1. \A K : ~ Accepting(Top, Cont(b, K), Pos)
    BY <1>2, <1>4, <1>8, <1>10
  <2>2. QED
    BY <1>2, <1>6, <1>10, <2>1, BelowFails DEF b
<1>11. QED
  BY <1>9, <1>10

LEMMA ReturnArgumentStep ==
  ASSUME TInv, ReturnArgument
  PROVE  TInv'
<1> DEFINE b == stack[Below]
           m == MinRow[b.min_bp]
           e == Top.lhs
           args == Append(b.args, e)
           Z(K) == EndsCall(m, K)
<1>1. AtEndOfLoop /\ b.at = "call"
  BY DEF ReturnArgument, ReturningTo
<1>2. /\ status = "parsing" /\ EndsInEof /\ Top \in ExpFrames /\ e \in Trees
      /\ Pos \in Place /\ Front = input[Pos]
  BY <1>1, ReturnsHere
<1>3. b \in ExpFrames /\ b.at # "list"
  BY <1>1, <1>2, BelowIs
<1>4. \A K : Accepting(Top, K, Pos) <=> <<e, Pos>> \in K
  BY <1>1, ReturnsHere
<1>5. b.args \in Seq(Trees)
  BY <1>3 DEF ExpFrames
<1>6. args \in Seq(Trees) /\ CallTree(args) \in Trees
  <2>1. args \in Seq(Trees)
    BY <1>2, <1>5
  <2>2. QED
    BY <2>1, TreesAre
<1>7. \/ Front = "Comma" /\ Go(1, Append(SetBelow(WithArgs(b, args)), ExpBp(0)))
      \/ Front = "Rparen" /\ Go(1, SetBelow(LoopOf(b, CallTree(args))))
      \/ Front \notin {"Comma", "Rparen"} /\ Throw
  BY DEF ReturnArgument, Args, Resume, WithArgs
<1> HIDE DEF b, m, e, args
<1>8. \A K : Cont(b, K) = AfterArg(Z(K), b.args)
  BY <1>1 DEF Cont, m
<1>9. \A K : <<e, Pos>> \in Cont(b, K) <=>
               \/ <<args, Pos>> \in Z(K)
               \/ input[Pos] = "Comma" /\ ArgsAccepted(Z(K), args, Pos + 1)
  <2>1. ASSUME NEW Y
        PROVE  <<e, Pos>> \in AfterArg(Y, b.args) <=>
                 \/ <<args, Pos>> \in Y
                 \/ input[Pos] = "Comma" /\ ArgsAccepted(Y, args, Pos + 1)
    <3>1. <<e, Pos>> \in Trees \X Place
      BY <1>2
    <3>2. QED
      BY <3>1 DEF AfterArg, args
  <2> HIDE DEF Z
  <2>2. QED
    BY <1>8, <2>1
<1>10. \A K : <<args, Pos>> \in Z(K) <=> input[Pos] = "Rparen" /\ <<11, CallTree(args), Pos + 1>> \in Grown(m, K)
  BY <1>2, <1>6 DEF EndsCall
<1>11. CASE Front = "Comma" /\ Go(1, Append(SetBelow(WithArgs(b, args)), ExpBp(0)))
  <2> DEFINE f == WithArgs(b, args)
             g == ExpBp(0)
  <2>1. Going(1)
    BY <1>2, <1>11, TokensPlace DEF Going
  <2>2. f \in ExpFrames /\ f.at = "call" /\ f.min_bp = b.min_bp /\ f.args = args
    BY <1>1, <1>3, <1>6, ArgsFrame
  <2>3. /\ g \in Frames /\ g \in ExpFrames
        /\ \A K : Fits(g, K) <=> Refuses(K, 1)
        /\ \A K, i : Accepting(g, K, i) <=> Accepts(1, i, K)
    BY CalledExp, MinRowIs
  <2>4. Go(1, Append(SetBelow(f), g))
    BY <1>11
  <2> HIDE DEF f, g
  <2>5. Alike(f, b) /\ Stacked(f, g) /\ \A K : Fits(f, K) <=> Fits(b, K)
    BY <1>3, <2>2, <2>3 DEF Alike, Stacked, Fits
  <2>6. ASSUME NEW K, Fits(b, K), Fits(Top, Cont(b, K))
        PROVE  /\ Fits(f, K) /\ Fits(g, Cont(f, K))
               /\ Accepting(Top, Cont(b, K), Pos) <=> Accepting(g, Cont(f, K), Pos + 1)
    <3>1. Cont(f, K) = AfterArg(Z(K), args)
      BY <2>2 DEF Cont, m
    <3>2. Refuses(AfterArg(Z(K), args), 1)
      <4>1. \A s, j : <<s, j>> \in Z(K) => input[j] = "Rparen"
        BY DEF EndsCall
      <4> HIDE DEF Z
      <4>2. QED
        BY <4>1, AfterArgRefuses
    <3>3. ArgsAccepted(Z(K), args, Pos + 1) <=> Accepts(1, Pos + 1, AfterArg(Z(K), args))
      <4> HIDE DEF Z
      <4>1. QED
        BY <1>2, <1>6, <2>1, ArgsFromFirst DEF Going
    <3>4. <<args, Pos>> \notin Z(K)
      BY <1>2, <1>10, <1>11
    <3>5. QED
      BY <1>2, <1>4, <1>9, <1>11, <2>3, <2>5, <2>6, <3>1, <3>2, <3>3, <3>4
  <2>7. QED
    BY <1>2, <1>3, <2>1, <2>3, <2>4, <2>5, <2>6, BelowCalls DEF b
<1>12. CASE Front = "Rparen" /\ Go(1, SetBelow(LoopOf(b, CallTree(args))))
  <2> DEFINE f == LoopOf(b, CallTree(args))
  <2>1. Going(1)
    BY <1>2, <1>12, TokensPlace DEF Going
  <2>2. Go(1, SetBelow(f))
    BY <1>12
  <2> HIDE DEF f
  <2>3. ASSUME NEW K, Fits(b, K), Fits(Top, Cont(b, K))
        PROVE  Fits(f, K) /\ (Accepting(Top, Cont(b, K), Pos) <=> Accepting(f, K, Pos + 1))
    <3>1. Fits(f, K) /\ (Accepting(f, K, Pos + 1) <=> <<11, CallTree(args), Pos + 1>> \in Grown(m, K))
      BY <1>3, <1>6, <2>3, LoopFits DEF f, m
    <3>2. input[Pos] = "Rparen" /\ input[Pos] # "Comma"
      BY <1>2, <1>12
    <3>3. QED
      BY <1>4, <1>9, <1>10, <3>1, <3>2
  <2>4. Alike(f, b)
    BY <1>3, <1>6, LoopFits DEF f
  <2>5. QED
    BY <1>2, <1>3, <2>1, <2>2, <2>3, <2>4, BelowGoesOn DEF b
<1>13. CASE Front \notin {"Comma", "Rparen"} /\ Throw
  <2>1. \A K : ~ Accepting(Top, Cont(b, K), Pos)
    BY <1>2, <1>4, <1>9, <1>10, <1>13
  <2>2. QED
    BY <1>2, <1>13, <2>1, BelowFails DEF b
<1>14. QED
  BY <1>7, <1>11, <1>12, <1>13
-----------------------------------------------------------------------------
(* The steps of parse_stmt at its first token.                             *)
LEMMA ListHere ==
  ASSUME TInv, At("list")
  PROVE  /\ status = "parsing" /\ EndsInEof /\ Top \in WholeFrames /\ Top \in ListFrames /\ Top.at = "list"
         /\ Pos \in Place /\ Front = input[Pos]
         /\ \A K : Fits(Top, K) <=> (Top.kind # "Stmts" => NoOther(K))
         /\ \A K, i : Accepting(Top, K, i) <=> ListAccepts(Top, K, i)
         /\ \A K : Cont(Top, K) = AfterStmt(Top, K) /\ NoOther(Cont(Top, K))
<1>1. status = "parsing" /\ Top.at = "list"
  BY DEF At
<1>2. Top \in WholeFrames /\ Top \in ListFrames /\ Top \notin ExpFrames
  BY <1>1, StackIs, FramesApart DEF WholeFrames
<1>3. Pos \in Place /\ Front = input[Pos] /\ EndsInEof
  BY FrontIs DEF TInv
<1>4. \A K : Fits(Top, K) <=> (Top.kind # "Stmts" => NoOther(K))
  BY <1>2 DEF Fits
<1>5. \A K, i : Accepting(Top, K, i) <=> ListAccepts(Top, K, i)
  BY <1>1 DEF Accepting
<1>6. \A K : Cont(Top, K) = AfterStmt(Top, K)
  BY <1>1 DEF Cont
<1>7. \A K : NoOther(AfterStmt(Top, K))
  BY <1>2, <1>3, StmtsNoOther
<1>8. QED
  BY <1>1, <1>2, <1>3, <1>4, <1>5, <1>6, <1>7

LEMMA StmtHere ==
  ASSUME TInv, NEW type, type \in StmtStart, StmtAhead(type)
  PROVE  /\ status = "parsing" /\ EndsInEof /\ Top.at = "list" /\ input[Pos] = type
         /\ Pos \in Place /\ Pos + 1 \in Place /\ Front = type
         /\ \A K : NoOther(Cont(Top, K)) /\ (Accepting(Top, K, Pos) <=> StmtAccepts(Pos, Cont(Top, K)))
<1>1. At("list") /\ Front = type
  BY DEF StmtAhead
<1>2. /\ status = "parsing" /\ EndsInEof /\ Top \in ListFrames /\ Top.at = "list"
      /\ Pos \in Place /\ Front = input[Pos]
  BY <1>1, ListHere
<1>3. Pos + 1 \in Place
  <2>1. input[Pos] # "Eof"
    BY <1>1, <1>2 DEF StmtStart
  <2>2. QED
    BY <1>2, <2>1, TokensPlace
<1>4. ASSUME NEW K PROVE NoOther(Cont(Top, K)) /\ (Accepting(Top, K, Pos) <=> StmtAccepts(Pos, Cont(Top, K)))
  <2>1. (Accepting(Top, K, Pos) <=> ListAccepts(Top, K, Pos)) /\ Cont(Top, K) = AfterStmt(Top, K)
        /\ NoOther(Cont(Top, K))
    BY <1>1, ListHere
  <2>2. ListAccepts(Top, K, Pos) <=> StmtAccepts(Pos, AfterStmt(Top, K))
    BY <1>1, <1>2, ListAt
  <2>3. QED
    BY <2>1, <2>2
<1>5. QED
  BY <1>1, <1>2, <1>3, <1>4

(* No operator goes on an expression of a statement.                       *)
LEMMA ExpsRefuse ==
  ASSUME NEW f, f.at = "exp", NEW K
  PROVE  Cont(f, K) = AfterExp(f, K) /\ Refuses(Cont(f, K), 1)
<1>1. Cont(f, K) = AfterExp(f, K)
  BY DEF Cont
<1>2. Refuses(AfterLhs(f, K), 1)
  <2> DEFINE Z == AfterLhs(f, K)
  <2>1. \A i \in Place : \A e \in Trees : <<e, i>> \in Z => input[i] \in {"Semicolon", "Assign", "Lcurl", "Rparen", "Comma"}
    BY DEF AfterLhs
  <2> HIDE DEF Z
  <2>2. Refuses(Z, 1)
    BY <2>1, StmtsRefuse
  <2>3. QED
    BY <2>2 DEF Z
<1>3. Refuses(AfterSimple(f, K), 1)
  <2> DEFINE Z == AfterSimple(f, K)
  <2>1. \A i \in Place : \A e \in Trees : <<e, i>> \in Z => input[i] \in {"Semicolon", "Assign", "Lcurl", "Rparen", "Comma"}
    BY DEF AfterSimple
  <2> HIDE DEF Z
  <2>2. Refuses(Z, 1)
    BY <2>1, StmtsRefuse
  <2>3. QED
    BY <2>2 DEF Z
<1>4. Refuses(AfterCond(f, K), 1)
  <2> DEFINE Z == AfterCond(f, K)
  <2>1. \A i \in Place : \A e \in Trees : <<e, i>> \in Z => input[i] \in {"Semicolon", "Assign", "Lcurl", "Rparen", "Comma"}
    BY DEF AfterCond
  <2> HIDE DEF Z
  <2>2. Refuses(Z, 1)
    BY <2>1, StmtsRefuse
  <2>3. QED
    BY <2>2 DEF Z
<1>5. Refuses(AfterArg(EndsCallStmt(K), f.exps), 1)
  <2> DEFINE Y == EndsCallStmt(K)
  <2>1. \A s, j : <<s, j>> \in Y => input[j] = "Rparen"
    BY DEF EndsCallStmt
  <2> HIDE DEF Y
  <2>2. Refuses(AfterArg(Y, f.exps), 1)
    BY <2>1, AfterArgRefuses
  <2>3. QED
    BY <2>2 DEF Y
<1>6. QED
  BY <1>1, <1>2, <1>3, <1>4, <1>5 DEF AfterExp

(* A statement that begins with an expression, or comes to one.            *)
LEMMA NewStmt ==
  ASSUME NEW kind \in ExpKinds
  PROVE  LET f == Frame(kind, "exp")
         IN  /\ f \in WholeFrames /\ f.at = "exp" /\ f.kind = kind /\ f.exps = <<>> /\ f.kind # "Stmts"
             /\ \A K : Fits(f, K) <=> NoOther(K)
             /\ \A K : Cont(f, K) = AfterExp(f, K) /\ Refuses(Cont(f, K), 1)
<1> DEFINE f == Frame(kind, "exp")
<1>1. f = ExpFrame(kind, <<>>)
  BY ExpFrameIs
<1>2. f \in WholeFrames /\ f.at = "exp" /\ f.kind = kind /\ f.exps = <<>>
  <2>1. PICK x \in Seq(Trees) : x = <<>>
    <3>1. <<>> \in Seq(Trees)
      OBVIOUS
    <3>2. QED
      BY <3>1
  <2>2. LET g == ExpFrame(kind, x) IN g \in WholeFrames /\ g.at = "exp" /\ g.kind = kind /\ g.exps = x
    BY <2>1, ExpFrameWhole
  <2> HIDE DEF f
  <2>3. QED
    BY <1>1, <2>1, <2>2
<1> HIDE DEF f
<1>3. f.kind # "Stmts"
  BY <1>2 DEF ExpKinds
<1>4. \A K : Fits(f, K) <=> NoOther(K)
  BY <1>2, <1>3, FramesApart DEF Fits
<1>5. QED
  BY <1>2, <1>3, <1>4, ExpsRefuse DEF f

LEMMA StmtBegins ==
  ASSUME NEW m, Going(m), NEW type, type \in StmtStart, StmtAhead(type), NEW kind \in ExpKinds,
         Go(m, CallExp(Frame(kind, "exp"))),
         \A L : StmtAccepts(Pos, L) <=> Accepts(1, Pos + m, AfterExp(Frame(kind, "exp"), L))
  PROVE  TInv'
<1> DEFINE f == Frame(kind, "exp")
<1>1. /\ f \in WholeFrames /\ f.at = "exp" /\ f.kind # "Stmts"
      /\ \A K : Fits(f, K) <=> NoOther(K)
      /\ \A K : Cont(f, K) = AfterExp(f, K) /\ Refuses(Cont(f, K), 1)
  BY NewStmt
<1>2. TInv /\ Top.at = "list"
  BY StmtHere DEF Going
<1>3. Go(m, CallExp(f))
  OBVIOUS
<1>4. \A L : StmtAccepts(Pos, L) <=> Accepts(1, Pos + m, AfterExp(f, L))
  OBVIOUS
<1> HIDE DEF f
<1>5. ASSUME NEW K, Fits(Top, K)
      PROVE  /\ Fits(f, Cont(Top, K)) /\ Refuses(Cont(f, Cont(Top, K)), 1)
             /\ Accepting(Top, K, Pos) <=> Accepts(1, Pos + m, Cont(f, Cont(Top, K)))
  <2>1. NoOther(Cont(Top, K)) /\ (Accepting(Top, K, Pos) <=> StmtAccepts(Pos, Cont(Top, K)))
    BY <1>2, StmtHere
  <2>2. QED
    BY <1>1, <1>4, <2>1
<1>6. QED
  BY <1>1, <1>2, <1>3, <1>5, StmtCallsExp

(* A statement of a few tokens.                                            *)
LEMMA StmtAtOnce ==
  ASSUME NEW m, Going(m), NEW type, type \in StmtStart, StmtAhead(type), NEW s \in Trees,
         Go(m, Within(Len(stack), s)),
         \A L : StmtAccepts(Pos, L) <=> <<s, Pos + m>> \in L
  PROVE  TInv'
<1> DEFINE n == Len(stack)
<1>1. TInv /\ At("list")
  BY DEF Going, StmtAhead
<1>2. Top \in WholeFrames /\ Top.at = "list" /\ Top = stack[n] /\ n \in 1 .. n /\ n >= n - 2
  BY <1>1, ListHere, StackIs DEF At
<1>3. \A K : Cont(Top, K) = AfterStmt(Top, K)
  BY <1>1, ListHere
<1>4. ASSUME NEW K, Known(stack, n, K)
      PROVE  Accepting(Top, Through(stack, n, K), Pos) <=> <<s, Pos + m>> \in AfterStmt(stack[n], K)
  <2>1. Through(stack, n, K) = K
    BY DEF Through
  <2>2. Accepting(Top, K, Pos) <=> StmtAccepts(Pos, Cont(Top, K))
    BY <1>1, StmtHere
  <2>3. QED
    BY <1>2, <1>3, <2>1, <2>2
<1>5. QED
  BY <1>2, <1>4, ListGains

LEMMA StmtFails ==
  ASSUME TInv, NEW type, type \in StmtStart, StmtAhead(type), Throw, \A L : ~ StmtAccepts(Pos, L)
  PROVE  TInv'
<1>1. status = "parsing"
  BY StmtHere
<1>2. \A K : ~ Accepting(Top, K, Pos)
  BY StmtHere
<1>3. QED
  BY <1>1, <1>2, TopFails

LEMMA ExpectIs ==
  ASSUME TInv, NEW types \in Seq(TokenType \ {"Eof"}), NEW calls, Expect(types, calls)
  PROVE  /\ Stands(Pos, types) => Go(Len(types), calls) /\ Pos + Len(types) \in Place /\ Len(types) \in Nat
         /\ ~ Stands(Pos, types) => Throw
<1>1. Ahead(types) <=> Stands(Pos, types)
  BY FrontIs
<1>2. EndsInEof /\ Pos \in Place
  BY FrontIs DEF TInv
<1>3. Stands(Pos, types) => Pos + Len(types) \in Place
  BY <1>2, StandsPlace
<1>4. QED
  BY <1>1, <1>3 DEF Expect

LEMMA ParseVardeclStep ==
  ASSUME TInv, ParseVardecl
  PROVE  TInv'
<1> DEFINE f == Frame("VardeclStmt", "exp")
<1>1. StmtAhead("KeywordVar") /\ Expect(VardeclHead, CallExp(f))
  BY DEF ParseVardecl, VardeclHead
<1>2. "KeywordVar" \in StmtStart /\ "VardeclStmt" \in ExpKinds
  BY DEF StmtStart, ExpKinds
<1>3. status = "parsing" /\ EndsInEof /\ Pos \in Place /\ input[Pos] = "KeywordVar"
  BY <1>1, <1>2, StmtHere
<1>4. VardeclHead \in Seq(TokenType \ {"Eof"}) /\ Len(VardeclHead) = 4
  BY HeadsAre
<1>5. \A L : StmtAccepts(Pos, L) <=>
               Stands(Pos, VardeclHead) /\ Accepts(1, Pos + 4, AfterExp(f, L))
  <2>1. f.kind = "VardeclStmt"
    BY DEF Frame
  <2>2. \A L : AfterExp(f, L) = AfterSimple(f, L)
    BY <2>1 DEF AfterExp
  <2>3. QED
    BY <1>3, <2>2, VardeclAccepts
<1> HIDE DEF f
<1>6. CASE Stands(Pos, VardeclHead)
  <2>1. Going(4) /\ Go(4, CallExp(f))
    BY <1>1, <1>3, <1>4, <1>6, ExpectIs DEF Going
  <2>2. QED
    BY <1>1, <1>2, <1>5, <1>6, <2>1, StmtBegins DEF f
<1>7. CASE ~ Stands(Pos, VardeclHead)
  BY <1>1, <1>2, <1>4, <1>5, <1>7, ExpectIs, StmtFails
<1>8. QED
  BY <1>6, <1>7

LEMMA ParseAssignStep ==
  ASSUME TInv, ParseAssign
  PROVE  TInv'
<1> DEFINE f == Frame("AssignStmt", "exp")
<1>1. StmtAhead("Identifier") /\ ~ CallAhead /\ Go(0, CallExp(f))
  BY DEF ParseAssign
<1>2. "Identifier" \in StmtStart /\ "AssignStmt" \in ExpKinds
  BY DEF StmtStart, ExpKinds
<1>3. status = "parsing" /\ EndsInEof /\ Pos \in Place /\ input[Pos] = "Identifier" /\ Pos + 0 = Pos
  BY <1>1, <1>2, StmtHere DEF Place
<1>4. input[Pos + 1] # "Lparen"
  BY <1>1, <1>3, CallAheadIs
<1>5. \A L : StmtAccepts(Pos, L) <=> Accepts(1, Pos + 0, AfterExp(f, L))
  <2>1. f.kind = "AssignStmt" /\ f.exps = <<>>
    BY DEF Frame
  <2>2. \A L : AfterExp(f, L) = AfterLhs(f, L)
    BY <2>1 DEF AfterExp
  <2>3. QED
    BY <1>3, <1>4, <2>2, AssignAccepts
<1>6. Going(0)
  BY <1>3 DEF Going
<1>7. QED
  BY <1>1, <1>2, <1>5, <1>6, StmtBegins

(* A call without arguments.                                               *)
CallOfNothing == <<"Identifier", "Lparen", "Rparen", "Semicolon">>

LEMMA CallStands ==
  ASSUME EndsInEof, NEW i \in Place, input[i] = "Identifier", input[i + 1] = "Lparen", input[i + 2] = "Rparen",
         i + 2 \in Place
  PROVE  /\ CallOfNothing \in Seq(TokenType \ {"Eof"}) /\ Len(CallOfNothing) = 4
         /\ Stands(i, CallOfNothing) <=> input[i + 3] = "Semicolon"
<1>1. CallOfNothing \in Seq(TokenType \ {"Eof"}) /\ Len(CallOfNothing) = 4
  <2>1. \A t \in {"Identifier", "Lparen", "Rparen", "Semicolon"} : t \in TokenType \ {"Eof"}
    BY DEF TokenType
  <2>2. QED
    BY <2>1 DEF CallOfNothing
<1>2. DOMAIN CallOfNothing = 1 .. 4 /\ CallOfNothing[1] = "Identifier" /\ CallOfNothing[2] = "Lparen"
      /\ CallOfNothing[3] = "Rparen" /\ CallOfNothing[4] = "Semicolon"
  BY DEF CallOfNothing
<1>3. i + 3 \in Place /\ i + 1 \in Place
  <2>1. PICK a : a = i + 2
    OBVIOUS
  <2>2. a + 1 \in Place
    BY <2>1, TokensPlace
  <2>3. a + 1 = i + 3
    BY <2>1 DEF Place
  <2>4. i + 1 \in Place
    BY TokensPlace
  <2>5. QED
    BY <2>2, <2>3, <2>4
<1>4. i + 1 - 1 = i /\ i + 2 - 1 = i + 1 /\ i + 3 - 1 = i + 2 /\ i + 4 - 1 = i + 3
  BY DEF Place
<1>5. Stands(i, CallOfNothing) => input[i + 3] = "Semicolon"
  BY <1>2, <1>4 DEF Stands
<1>6. ASSUME input[i + 3] = "Semicolon" PROVE Stands(i, CallOfNothing)
  <2>1. ASSUME NEW n \in 1 .. 4 PROVE i + n - 1 \in Place /\ input[i + n - 1] = CallOfNothing[n]
    <3>1. n = 1 \/ n = 2 \/ n = 3 \/ n = 4
      OBVIOUS
    <3>2. QED
      BY <1>2, <1>3, <1>4, <1>6, <3>1
  <2>2. QED
    BY <1>2, <2>1 DEF Stands
<1>7. QED
  BY <1>1, <1>5, <1>6

LEMMA ParseCallStmtStep ==
  ASSUME TInv, ParseCallStmt
  PROVE  TInv'
<1> DEFINE f == Frame("CallStmt", "exp")
<1>1. StmtAhead("Identifier") /\ CallAhead
  BY DEF ParseCallStmt
<1>2. "Identifier" \in StmtStart /\ "CallStmt" \in ExpKinds
  BY DEF StmtStart, ExpKinds
<1>3. status = "parsing" /\ EndsInEof /\ Pos \in Place
  BY <1>1, <1>2, StmtHere
<1>4. /\ input[Pos] = "Identifier" /\ input[Pos + 1] = "Lparen" /\ Pos + 2 \in Place
      /\ tokens[3] = input[Pos + 2]
  BY <1>1, CallAheadIs
<1>5. f \in StmtFrames /\ f.kind = "CallStmt" /\ f.exps = <<>>
  BY <1>2, NewStmt DEF WholeFrames
<1>6. tokens[3] = "Rparen" => Expect(CallOfNothing, Within(Len(stack), Stmt(f)))
  BY DEF ParseCallStmt, CallOfNothing
<1>7. tokens[3] # "Rparen" => Go(2, CallExp(f))
  BY DEF ParseCallStmt
<1>8. \A L : /\ tokens[3] = "Rparen" =>
                  (StmtAccepts(Pos, L) <=> input[Pos + 3] = "Semicolon" /\ <<Stmt(f), Pos + 4>> \in L)
             /\ tokens[3] # "Rparen" =>
                  (StmtAccepts(Pos, L) <=> Accepts(1, Pos + 2, AfterArg(EndsCallStmt(L), <<>>)))
  BY <1>3, <1>4, CallStmtAccepts
<1> HIDE DEF f
<1>9. CASE tokens[3] = "Rparen"
  <2>1. /\ CallOfNothing \in Seq(TokenType \ {"Eof"}) /\ Len(CallOfNothing) = 4
        /\ Stands(Pos, CallOfNothing) <=> input[Pos + 3] = "Semicolon"
    BY <1>3, <1>4, <1>9, CallStands
  <2>2. Stmt(f) \in Trees
    BY <1>5, StmtTree
  <2>3. CASE Stands(Pos, CallOfNothing)
    <3>1. Going(4) /\ Go(4, Within(Len(stack), Stmt(f)))
      BY <1>3, <1>6, <1>9, <2>1, <2>3, ExpectIs DEF Going
    <3>2. \A L : StmtAccepts(Pos, L) <=> <<Stmt(f), Pos + 4>> \in L
      BY <1>8, <1>9, <2>1, <2>3
    <3>3. QED
      BY <1>1, <1>2, <2>2, <3>1, <3>2, StmtAtOnce
  <2>4. CASE ~ Stands(Pos, CallOfNothing)
    BY <1>1, <1>2, <1>6, <1>8, <1>9, <2>1, <2>4, ExpectIs, StmtFails
  <2>5. QED
    BY <2>3, <2>4
<1>10. CASE tokens[3] # "Rparen"
  <2>1. Going(2)
    BY <1>3, <1>4 DEF Going
  <2>2. \A L : AfterExp(f, L) = AfterArg(EndsCallStmt(L), <<>>)
    BY <1>5 DEF AfterExp
  <2>3. \A L : StmtAccepts(Pos, L) <=> Accepts(1, Pos + 2, AfterExp(f, L))
    BY <1>8, <1>10, <2>2
  <2>4. QED
    BY <1>1, <1>2, <1>7, <1>10, <2>1, <2>3, StmtBegins DEF f
<1>11. QED
  BY <1>9, <1>10

LEMMA ParseReturnStep ==
  ASSUME TInv, ParseReturn
  PROVE  TInv'
<1> DEFINE f == Frame("RetStmt", "exp")
<1>1. StmtAhead("KeywordReturn")
  BY DEF ParseReturn
<1>2. "KeywordReturn" \in StmtStart /\ "RetStmt" \in ExpKinds
  BY DEF StmtStart, ExpKinds
<1>3. /\ status = "parsing" /\ EndsInEof /\ Pos \in Place /\ input[Pos] = "KeywordReturn"
      /\ Pos + 1 \in Place
  BY <1>1, <1>2, StmtHere
<1>4. tokens[2] = input[Pos + 1]
  BY <1>3, FrontIs
<1>5. f \in StmtFrames /\ f.kind = "RetStmt"
  BY <1>2, NewStmt DEF WholeFrames
<1>6. /\ tokens[2] = "Semicolon" => Go(2, Within(Len(stack), Stmt(f)))
      /\ tokens[2] # "Semicolon" => Go(1, CallExp(f))
  BY DEF ParseReturn
<1>7. \A L : /\ input[Pos + 1] = "Semicolon" => (StmtAccepts(Pos, L) <=> <<Stmt(f), Pos + 2>> \in L)
             /\ input[Pos + 1] # "Semicolon" => (StmtAccepts(Pos, L) <=> Accepts(1, Pos + 1, AfterSimple(f, L)))
  BY <1>3, ReturnAccepts
<1> HIDE DEF f
<1>8. CASE tokens[2] = "Semicolon"
  <2>1. Stmt(f) \in Trees
    BY <1>5, StmtTree
  <2>2. Going(2)
    <3>1. PICK i : i = Pos + 1
      OBVIOUS
    <3>2. i + 1 \in Place
      BY <1>3, <1>4, <1>8, <3>1, NoEofThere
    <3>3. i + 1 = Pos + 2
      BY <1>3, <3>1 DEF Place
    <3>4. QED
      BY <1>3, <3>2, <3>3 DEF Going
  <2>3. QED
    BY <1>1, <1>2, <1>4, <1>6, <1>7, <1>8, <2>1, <2>2, StmtAtOnce
<1>9. CASE tokens[2] # "Semicolon"
  <2>1. Going(1)
    BY <1>3 DEF Going
  <2>2. \A L : AfterExp(f, L) = AfterSimple(f, L)
    BY <1>5 DEF AfterExp
  <2>3. \A L : StmtAccepts(Pos, L) <=> Accepts(1, Pos + 1, AfterExp(f, L))
    BY <1>4, <1>7, <1>9, <2>2
  <2>4. QED
    BY <1>1, <1>2, <1>6, <1>9, <2>1, <2>3, StmtBegins DEF f
<1>10. QED
  BY <1>8, <1>9

LEMMA CondStep ==
  ASSUME TInv, NEW kind \in DOMAIN CondWord, StmtAhead(CondWord[kind]), Go(1, CallExp(Frame(kind, "exp")))
  PROVE  TInv'
<1> DEFINE f == Frame(kind, "exp")
           word == CondWord[kind]
<1>1. word \in StmtStart /\ kind \in ExpKinds /\ kind \notin {"VardeclStmt", "RetStmt", "AssignStmt", "CallStmt"}
  BY DEF StmtStart, ExpKinds, CondWord
<1>2. StmtAhead(word) /\ Go(1, CallExp(f))
  OBVIOUS
<1>3. status = "parsing" /\ EndsInEof /\ Pos \in Place /\ input[Pos] = word /\ Pos + 1 \in Place
  <2> HIDE DEF word
  <2>1. QED
    BY <1>1, <1>2, StmtHere
<1>4. \A L : StmtAccepts(Pos, L) <=> Accepts(1, Pos + 1, AfterCond(f, L))
  BY <1>3, CondAccepts
<1>5. f.kind = kind
  BY DEF Frame
<1>6. \A L : AfterExp(f, L) = AfterCond(f, L)
  BY <1>1, <1>5 DEF AfterExp
<1>7. \A L : StmtAccepts(Pos, L) <=> Accepts(1, Pos + 1, AfterExp(f, L))
  BY <1>4, <1>6
<1>8. Going(1)
  BY <1>3 DEF Going
<1> HIDE DEF word
<1>9. QED
  BY <1>1, <1>2, <1>7, <1>8, StmtBegins

LEMMA ParseCondSteps ==
  ASSUME TInv, ParseIf \/ ParseWhile \/ ParseRepeat
  PROVE  TInv'
<1>1. /\ CondWord["IfStmt"] = "KeywordIf" /\ CondWord["WhileStmt"] = "KeywordWhile"
      /\ CondWord["RepeatStmt"] = "KeywordRepeat" /\ {"IfStmt", "WhileStmt", "RepeatStmt"} = DOMAIN CondWord
  BY DEF CondWord
<1>2. CASE ParseIf
  BY <1>1, <1>2, CondStep DEF ParseIf
<1>3. CASE ParseWhile
  BY <1>1, <1>3, CondStep DEF ParseWhile
<1>4. CASE ParseRepeat
  BY <1>1, <1>4, CondStep DEF ParseRepeat
<1>5. QED
  BY <1>2, <1>3, <1>4
-----------------------------------------------------------------------------
(* Functions, and what is no statement.                                    *)
LEMMA StandsJoin ==
  ASSUME EndsInEof, NEW i \in Place, NEW S, NEW s \in Seq(S), NEW t \in Seq(S)
  PROVE  Stands(i, s \o t) <=> Stands(i, s) /\ Stands(i + Len(s), t)
<1>1. PICK a \in Nat : a = Len(s) /\ DOMAIN s = 1 .. a
  OBVIOUS
<1>2. PICK b \in Nat : b = Len(t) /\ DOMAIN t = 1 .. b
  OBVIOUS
<1>3. PICK u : u = s \o t
  OBVIOUS
<1>4. /\ DOMAIN u = 1 .. a + b
      /\ \A n \in 1 .. a : u[n] = s[n]
      /\ \A n \in 1 .. b : u[a + n] = t[n]
  BY <1>1, <1>2, <1>3
<1>5. i \in Nat
  BY DEF Place
<1>6. ASSUME Stands(i, u) PROVE Stands(i, s) /\ Stands(i + a, t)
  <2>1. \A n \in 1 .. a + b : i + n - 1 \in Place /\ input[i + n - 1] = u[n]
    BY <1>4, <1>6 DEF Stands
  <2>2. \A n \in 1 .. a : i + n - 1 \in Place /\ input[i + n - 1] = s[n]
    BY <1>4, <2>1
  <2>3. ASSUME NEW n \in 1 .. b PROVE (i + a) + n - 1 \in Place /\ input[(i + a) + n - 1] = t[n]
    <3>1. a + n \in 1 .. a + b /\ i + (a + n) - 1 = (i + a) + n - 1
      BY <1>5
    <3>2. QED
      BY <1>4, <2>1, <3>1
  <2>4. QED
    BY <1>1, <1>2, <2>2, <2>3 DEF Stands
<1>7. ASSUME Stands(i, s), Stands(i + a, t) PROVE Stands(i, u)
  <2>1. \A n \in 1 .. a : i + n - 1 \in Place /\ input[i + n - 1] = s[n]
    BY <1>1, <1>7 DEF Stands
  <2>2. \A n \in 1 .. b : (i + a) + n - 1 \in Place /\ input[(i + a) + n - 1] = t[n]
    BY <1>2, <1>7 DEF Stands
  <2>3. ASSUME NEW n \in 1 .. a + b PROVE i + n - 1 \in Place /\ input[i + n - 1] = u[n]
    <3>1. CASE n \in 1 .. a
      BY <1>4, <2>1, <3>1
    <3>2. CASE n \notin 1 .. a
      <4>1. n - a \in 1 .. b /\ a + (n - a) = n /\ (i + a) + (n - a) - 1 = i + n - 1
        BY <1>5, <3>2
      <4>2. u[a + (n - a)] = t[n - a]
        BY <1>4, <4>1
      <4>3. QED
        BY <2>2, <4>1, <4>2
    <3>3. QED
      BY <3>1, <3>2
  <2>4. QED
    BY <1>4, <2>3 DEF Stands
<1>8. QED
  BY <1>1, <1>3, <1>6, <1>7

LEMMA HeadStands ==
  ASSUME EndsInEof, NEW i \in Place
  PROVE  /\ FundecHead \o <<"Rparen">> \in Seq(TokenType \ {"Eof"}) /\ Len(FundecHead \o <<"Rparen">>) = 5
         /\ FundecHead \o FundecEnd \in Seq(TokenType \ {"Eof"}) /\ Len(FundecHead \o FundecEnd) = 6
         /\ Stands(i, FundecHead \o <<"Rparen">>) <=> Stands(i, FundecHead) /\ input[i + 4] = "Rparen"
         /\ Stands(i, FundecHead \o FundecEnd) <=> Stands(i, FundecHead) /\ Stands(i + 4, FundecEnd)
<1> DEFINE T == TokenType \ {"Eof"}
<1>1. FundecHead \in Seq(T) /\ Len(FundecHead) = 4 /\ FundecEnd \in Seq(T) /\ Len(FundecEnd) = 2
  BY HeadsAre
<1>2. <<"Rparen">> \in Seq(T) /\ Len(<<"Rparen">>) = 1
  <2>1. "Rparen" \in T
    BY DEF TokenType
  <2> HIDE DEF T
  <2>2. QED
    BY <2>1
<1> HIDE DEF T
<1>3. PICK one \in Seq(T) : one = <<"Rparen">>
  BY <1>2
<1>a. Len(one) = 1 /\ one[1] = "Rparen" /\ DOMAIN one = 1 .. 1
  <2>1. <<"Rparen">>[1] = "Rparen" /\ DOMAIN <<"Rparen">> = 1 .. 1
    OBVIOUS
  <2>2. QED
    BY <1>2, <1>3, <2>1
<1>b. \A s, t \in Seq(T) : s \o t \in Seq(T) /\ Len(s \o t) = Len(s) + Len(t)
  OBVIOUS
<1>4. FundecHead \o one \in Seq(T) /\ Len(FundecHead \o one) = 5
  <2>1. PICK s \in Seq(T) : s = FundecHead
    BY <1>1
  <2>2. s \o one \in Seq(T) /\ Len(s \o one) = Len(s) + Len(one)
    BY <1>b
  <2>3. QED
    BY <1>1, <1>a, <2>1, <2>2
<1>5. FundecHead \o FundecEnd \in Seq(T) /\ Len(FundecHead \o FundecEnd) = 6
  <2>1. PICK s \in Seq(T) : s = FundecHead
    BY <1>1
  <2>2. PICK t \in Seq(T) : t = FundecEnd
    BY <1>1
  <2>3. s \o t \in Seq(T) /\ Len(s \o t) = Len(s) + Len(t)
    BY <1>b
  <2>4. QED
    BY <1>1, <2>1, <2>2, <2>3
<1>6. Stands(i, FundecHead \o one) <=> Stands(i, FundecHead) /\ Stands(i + 4, one)
  BY <1>1, <1>3, StandsJoin
<1>7. Stands(i, FundecHead \o FundecEnd) <=> Stands(i, FundecHead) /\ Stands(i + 4, FundecEnd)
  BY <1>1, StandsJoin
<1>8. Stands(i, FundecHead) => i + 4 \in Place
  BY StandsAre
<1>9. i + 4 \in Place => (Stands(i + 4, one) <=> input[i + 4] = "Rparen")
  <2>1. PICK a : a = i + 4
    OBVIOUS
  <2>2. ASSUME a \in Place PROVE Stands(a, one) <=> input[a] = "Rparen"
    <3>1. a + 1 - 1 = a
      BY <2>2 DEF Place
    <3>2. Stands(a, one) <=> a + 1 - 1 \in Place /\ input[a + 1 - 1] = "Rparen"
      BY <1>a DEF Stands
    <3>3. QED
      BY <2>2, <3>1, <3>2
  <2>3. QED
    BY <2>1, <2>2
<1>10. QED
  BY <1>3, <1>4, <1>5, <1>6, <1>7, <1>8, <1>9 DEF T

LEMMA FundecFrames ==
  /\ Frame("FundecStmt", "list") = ListStart("FundecStmt", 0, <<>>)
  /\ Frame("FundecStmt", "params") = ParamFrame(0)
<1> DEFINE rec(at) ==
      [at |-> at, kind |-> "FundecStmt", params |-> 0, exps |-> <<>>, in |-> 1, lists |-> NoLists("FundecStmt")]
<1>1. \A at : Frame("FundecStmt", at) = rec(at)
  BY DEF Frame, NoLists
<1>2. ListStart("FundecStmt", 0, <<>>) = rec("list")
  BY DEF ListStart
<1>3. [rec("list") EXCEPT !.at = "params"] = rec("params")
  OBVIOUS
<1> HIDE DEF rec
<1>4. QED
  BY <1>1, <1>2, <1>3 DEF ParamFrame

(* The function is called for, with the frame f for it.                    *)
LEMMA FundecBegins ==
  ASSUME NEW m, Going(m), StmtAhead("KeywordFun"), NEW f \in WholeFrames, f.kind = "FundecStmt",
         f.at \in {"list", "params"}, Go(m, Append(stack, f)),
         \A L : StmtAccepts(Pos, L) <=> Accepting(f, L, Pos + m)
  PROVE  TInv'
<1>1. "KeywordFun" \in StmtStart
  BY DEF StmtStart
<1>2. TInv /\ Top.at = "list"
  BY <1>1, StmtHere DEF Going
<1>3. \A K : Fits(f, K) <=> NoOther(K)
  BY FramesApart DEF Fits
<1>4. ASSUME NEW K, Fits(Top, K)
      PROVE  /\ Fits(f, Cont(Top, K))
             /\ Accepting(Top, K, Pos) <=> Accepting(f, Cont(Top, K), Pos + m)
  BY <1>1, <1>2, <1>3, StmtHere
<1>5. QED
  BY <1>2, <1>4, ListCalls

LEMMA ParseFundecStep ==
  ASSUME TInv, ParseFundec
  PROVE  TInv'
<1> DEFINE one == FundecHead \o <<"Rparen">>
           two == FundecHead \o FundecEnd
           body == ListStart("FundecStmt", 0, <<>>)
           head == ParamFrame(0)
<1>1. StmtAhead("KeywordFun") /\ "KeywordFun" \in StmtStart
  BY DEF ParseFundec, StmtStart
<1>2. /\ Ahead(one) => Expect(two, Append(stack, body))
      /\ ~ Ahead(one) => Expect(FundecHead, Append(stack, head))
  BY FundecFrames DEF ParseFundec, FundecEnd
<1>3. status = "parsing" /\ EndsInEof /\ Pos \in Place /\ input[Pos] = "KeywordFun"
  BY <1>1, StmtHere
<1>4. /\ one \in Seq(TokenType \ {"Eof"})
      /\ two \in Seq(TokenType \ {"Eof"}) /\ Len(two) = 6
      /\ Stands(Pos, one) <=> Stands(Pos, FundecHead) /\ input[Pos + 4] = "Rparen"
      /\ Stands(Pos, two) <=> Stands(Pos, FundecHead) /\ Stands(Pos + 4, FundecEnd)
  BY <1>3, HeadStands
<1>5. FundecHead \in Seq(TokenType \ {"Eof"}) /\ Len(FundecHead) = 4
  BY HeadsAre
<1>6. /\ \A L : StmtAccepts(Pos, L) => Stands(Pos, FundecHead)
      /\ Stands(Pos, FundecHead) /\ input[Pos + 4] = "Rparen" =>
           \A L : StmtAccepts(Pos, L) <=> Stands(Pos + 4, FundecEnd) /\ Body(0, L, Pos + 6)
      /\ Stands(Pos, FundecHead) /\ input[Pos + 4] # "Rparen" =>
           \A L : StmtAccepts(Pos, L) <=> ParamsAccept(0, L, Pos + 4)
  BY <1>3, FundecAccepts
<1>7. Ahead(one) <=> Stands(Pos, one)
  <2> HIDE DEF one
  <2>1. QED
    BY <1>4, FrontIs
<1>8. body \in WholeFrames /\ body.at = "list" /\ body.kind = "FundecStmt"
  <2>1. "FundecStmt" \in BlockKinds /\ 0 \in Nat
    BY DEF BlockKinds
  <2>2. <<>> \in Seq(Trees)
    OBVIOUS
  <2>3. QED
    BY <2>1, <2>2, ListStartWhole
<1>9. head \in WholeFrames /\ head.at = "params" /\ head.kind = "FundecStmt" /\ head.params = 0
  BY ParamWhole
<1>10. \A L : Accepting(body, L, Pos + 6) <=> Body(0, L, Pos + 6)
  BY <1>8 DEF Accepting, Body
<1>11. \A L : Accepting(head, L, Pos + 4) <=> ParamsAccept(0, L, Pos + 4)
  <2> HIDE DEF head
  <2>1. QED
    BY <1>9 DEF Accepting
<1> HIDE DEF one, two, body, head
<1>12. CASE Stands(Pos, FundecHead) /\ input[Pos + 4] = "Rparen"
  <2>1. Expect(two, Append(stack, body))
    BY <1>2, <1>4, <1>7, <1>12
  <2>2. CASE Stands(Pos, two)
    <3>1. Going(6) /\ Go(6, Append(stack, body))
      BY <1>3, <1>4, <2>1, <2>2, ExpectIs DEF Going
    <3>2. \A L : StmtAccepts(Pos, L) <=> Accepting(body, L, Pos + 6)
      BY <1>4, <1>6, <1>10, <1>12, <2>2
    <3>3. QED
      BY <1>1, <1>8, <3>1, <3>2, FundecBegins
  <2>3. CASE ~ Stands(Pos, two)
    <3>1. Throw
      BY <1>4, <2>1, <2>3, ExpectIs
    <3>2. \A L : ~ StmtAccepts(Pos, L)
      BY <1>4, <1>6, <1>12, <2>3
    <3>3. QED
      BY <1>1, <3>1, <3>2, StmtFails
  <2>4. QED
    BY <2>2, <2>3
<1>13. CASE Stands(Pos, FundecHead) /\ input[Pos + 4] # "Rparen"
  <2>1. Expect(FundecHead, Append(stack, head))
    BY <1>2, <1>4, <1>7, <1>13
  <2>2. Going(4) /\ Go(4, Append(stack, head))
    BY <1>3, <1>5, <1>13, <2>1, ExpectIs DEF Going
  <2>3. \A L : StmtAccepts(Pos, L) <=> Accepting(head, L, Pos + 4)
    BY <1>6, <1>11, <1>13
  <2>4. QED
    BY <1>1, <1>9, <2>2, <2>3, FundecBegins
<1>14. CASE ~ Stands(Pos, FundecHead)
  <2>1. Expect(FundecHead, Append(stack, head))
    BY <1>2, <1>4, <1>7, <1>14
  <2>2. Throw
    BY <1>5, <1>14, <2>1, ExpectIs
  <2>3. \A L : ~ StmtAccepts(Pos, L)
    BY <1>6, <1>14
  <2>4. QED
    BY <1>1, <2>2, <2>3, StmtFails
<1>15. QED
  BY <1>12, <1>13, <1>14

LEMMA NoStatementStep ==
  ASSUME TInv, NoStatement
  PROVE  TInv'
<1>1. At("list") /\ Front \notin StmtStart \union {Closing(Top.kind)} /\ Throw
  BY DEF NoStatement
<1>2. status = "parsing" /\ EndsInEof /\ Top \in ListFrames /\ Pos \in Place /\ Front = input[Pos]
  BY <1>1, ListHere
<1>3. \A K : ~ ListAccepts(Top, K, Pos)
  BY <1>1, <1>2, CloseAt
<1>4. \A K : ~ Accepting(Top, K, Pos)
  BY <1>1, <1>3, ListHere
<1>5. QED
  BY <1>1, <1>2, <1>4, TopFails

LEMMA ParseParamStep ==
  ASSUME TInv, ParseParam
  PROVE  TInv'
<1> DEFINE n == Top.params
           more == ParamFrame(n + 1)
           body == ListStart("FundecStmt", n + 1, <<>>)
<1>1. At("params")
  BY DEF ParseParam
<1>2. status = "parsing" /\ Top.at = "params"
  BY <1>1 DEF At
<1>3. Top \in WholeFrames /\ Top = ParamFrame(n) /\ n \in Nat /\ Len(stack) # 1
  <2>1. Top \in WholeFrames /\ Len(stack) # 1
    BY <1>2, StackIs
  <2>2. QED
    BY <1>2, <2>1 DEF WholeFrames, StmtFrames
<1>4. EndsInEof /\ Pos \in Place
  BY FrontIs DEF TInv
<1>5. Top.kind = "FundecStmt"
  <2>1. ParamFrame(n).kind = "FundecStmt"
    BY <1>3, ParamWhole
  <2>2. QED
    BY <1>3, <2>1
<1>6. [Top EXCEPT !.params = @ + 1] = more /\ [more EXCEPT !.at = "list"] = body
  <2> DEFINE rec(at, x) ==
        [at |-> at, kind |-> "FundecStmt", params |-> x, exps |-> <<>>, in |-> 1, lists |-> NoLists("FundecStmt")]
  <2>1. \A x : ListStart("FundecStmt", x, <<>>) = rec("list", x)
    BY DEF ListStart
  <2>2. \A at, x : [rec("list", x) EXCEPT !.at = at] = rec(at, x)
    OBVIOUS
  <2>3. \A x : [rec("params", x) EXCEPT !.at = "list"] = rec("list", x)
    OBVIOUS
  <2>4. \A x, y : [rec("params", x) EXCEPT !.params = y] = rec("params", y)
    OBVIOUS
  <2> HIDE DEF rec
  <2>5. \A x : ParamFrame(x) = rec("params", x)
    BY <2>1, <2>2 DEF ParamFrame
  <2>6. [Top EXCEPT !.params = @ + 1] = [Top EXCEPT !.params = n + 1]
    OBVIOUS
  <2>7. Top = rec("params", n)
    BY <1>3, <2>5
  <2> HIDE DEF n
  <2>8. QED
    BY <2>1, <2>3, <2>4, <2>5, <2>6, <2>7
<1>7. /\ Ahead(ParamMore) => Go(3, SetTop(more))
      /\ ~ Ahead(ParamMore) => Expect(ParamLast, SetTop(body))
  <2> HIDE DEF more, body
  <2>1. QED
    BY <1>6 DEF ParseParam, ParamMore, ParamLast
<1>8. /\ ParamMore \in Seq(TokenType \ {"Eof"}) /\ Len(ParamMore) = 3
      /\ ParamLast \in Seq(TokenType \ {"Eof"}) /\ Len(ParamLast) = 4
  <2>1. \A t \in {"Identifier", "TypeName", "Comma", "Rparen", "Lcurl"} : t \in TokenType \ {"Eof"}
    BY DEF TokenType
  <2>2. QED
    BY <2>1 DEF ParamMore, ParamLast
<1>9. Ahead(ParamMore) <=> Stands(Pos, ParamMore)
  BY <1>8, FrontIs
<1>10. more \in WholeFrames /\ more.at = "params" /\ more.kind = "FundecStmt" /\ more.params = n + 1
  <2>1. n + 1 \in Nat
    BY <1>3
  <2> HIDE DEF n
  <2>2. QED
    BY <2>1, ParamWhole
<1>11. body \in WholeFrames /\ body.at = "list" /\ body.kind = "FundecStmt"
  <2>1. "FundecStmt" \in BlockKinds /\ n + 1 \in Nat
    BY <1>3 DEF BlockKinds
  <2>2. <<>> \in Seq(Trees)
    OBVIOUS
  <2>3. QED
    BY <2>1, <2>2, ListStartWhole
<1>12. /\ \A K : Fits(Top, K) <=> NoOther(K)
       /\ \A K : Accepting(Top, K, Pos) <=> ParamsAccept(n, K, Pos)
  <2>1. Top \notin ExpFrames
    BY <1>3, FramesApart
  <2>2. QED
    BY <1>2, <1>5, <2>1 DEF Fits, Accepting
<1>13. \A K : Accepting(body, K, Pos + 4) <=> Body(n + 1, K, Pos + 4)
  BY <1>11 DEF Accepting, Body
<1> HIDE DEF n, more, body
<1>14. /\ \A K : Fits(more, K) <=> NoOther(K)
       /\ \A K : Accepting(more, K, Pos + 3) <=> ParamsAccept(n + 1, K, Pos + 3)
       /\ \A K : Fits(body, K) <=> NoOther(K)
  <2>1. more \notin ExpFrames /\ body \notin ExpFrames
    BY <1>10, <1>11, FramesApart
  <2>2. QED
    BY <1>10, <1>11, <2>1 DEF Fits, Accepting
<1>15. Alike(more, Top) /\ Alike(body, Top)
  BY <1>3, <1>5, <1>10, <1>11 DEF Alike
<1>16. CASE Stands(Pos, ParamMore)
  <2>1. Going(3) /\ Go(3, SetTop(more))
    BY <1>2, <1>4, <1>7, <1>9, <1>16, ParamStands DEF Going
  <2>2. \A K : ParamsAccept(n, K, Pos) <=> ParamsAccept(n + 1, K, Pos + 3)
    BY <1>3, <1>4, <1>16, ParamStep
  <2>3. ASSUME NEW K, Fits(Top, K)
        PROVE  Fits(more, K) /\ (Accepting(Top, K, Pos) <=> Accepting(more, K, Pos + 3))
    BY <1>12, <1>14, <2>2, <2>3
  <2>4. QED
    BY <1>3, <1>15, <2>1, <2>3, TopGoesOn
<1>17. CASE ~ Stands(Pos, ParamMore)
  <2>1. Expect(ParamLast, SetTop(body))
    BY <1>7, <1>9, <1>17
  <2>2. \A K : ParamsAccept(n, K, Pos) <=> Stands(Pos, ParamLast) /\ Body(n + 1, K, Pos + 4)
    BY <1>3, <1>4, <1>17, ParamStep
  <2>3. CASE Stands(Pos, ParamLast)
    <3>1. Going(4) /\ Go(4, SetTop(body))
      BY <1>2, <1>8, <2>1, <2>3, ExpectIs DEF Going
    <3>2. ASSUME NEW K, Fits(Top, K)
          PROVE  Fits(body, K) /\ (Accepting(Top, K, Pos) <=> Accepting(body, K, Pos + 4))
      BY <1>12, <1>13, <1>14, <2>2, <2>3, <3>2
    <3>3. QED
      BY <1>3, <1>11, <1>15, <3>1, <3>2, TopGoesOn
  <2>4. CASE ~ Stands(Pos, ParamLast)
    <3>1. Throw
      BY <1>8, <2>1, <2>4, ExpectIs
    <3>2. QED
      BY <1>2, <1>12, <2>2, <2>4, <3>1, TopFails
  <2>5. QED
    BY <2>3, <2>4
<1>18. QED
  BY <1>16, <1>17
-----------------------------------------------------------------------------
(* parse_exp() returns to a statement parser.                              *)
LEMMA ReturningHere ==
  ASSUME TInv, NEW kinds, ReturningToStmt(kinds)
  PROVE  /\ status = "parsing" /\ EndsInEof /\ Top \in ExpFrames /\ Top.lhs \in Trees
         /\ Pos \in Place /\ Front = input[Pos]
         /\ stack[Below] \in WholeFrames /\ stack[Below].at = "exp" /\ stack[Below].kind \in kinds
         /\ stack[Below] = ExpFrame(stack[Below].kind, stack[Below].exps)
         /\ stack[Below].exps \in Seq(Trees) /\ stack[Below].kind \in ExpKinds
         /\ stack[Below].kind \notin {"AssignStmt", "CallStmt"} => stack[Below].exps = <<>>
         /\ \A K : Accepting(Top, Cont(stack[Below], K), Pos) <=> <<Top.lhs, Pos>> \in AfterExp(stack[Below], K)
         /\ WithExp = GainsExp(stack[Below], Top.lhs) /\ Stmt(WithExp) \in Trees
<1>1. AtEndOfLoop /\ stack[Below].at = "exp" /\ stack[Below].kind \in kinds
  BY DEF ReturningToStmt, ReturningTo
<1>2. /\ status = "parsing" /\ EndsInEof /\ Top \in ExpFrames /\ Top.lhs \in Trees
      /\ Pos \in Place /\ Front = input[Pos]
      /\ \A K : Accepting(Top, K, Pos) <=> <<Top.lhs, Pos>> \in K
  BY <1>1, ReturnsHere
<1>3. stack[Below] \in WholeFrames
  BY <1>1, <1>2, BelowIs
<1>4. /\ stack[Below] = ExpFrame(stack[Below].kind, stack[Below].exps)
      /\ stack[Below] \in StmtFrames /\ stack[Below].exps \in Seq(Trees) /\ stack[Below].kind \in ExpKinds
      /\ stack[Below].kind \notin {"AssignStmt", "CallStmt"} => stack[Below].exps = <<>>
  BY <1>1, <1>3 DEF WholeFrames, StmtFrames
<1>5. \A K : Cont(stack[Below], K) = AfterExp(stack[Below], K)
  BY <1>1, ExpsRefuse
<1>6. WithExp = GainsExp(stack[Below], Top.lhs)
  BY DEF WithExp, GainsExp
<1>7. Stmt(WithExp) \in Trees
  BY <1>2, <1>4, <1>6, GainsExpFrame, StmtTree
<1>8. QED
  BY <1>1, <1>2, <1>3, <1>4, <1>5, <1>6, <1>7

(* The statement is at its end: the list two calls down gains it.          *)
LEMMA StmtEnds ==
  ASSUME NEW m, Going(m), NEW kinds, ReturningToStmt(kinds), Go(m, Within(Below - 1, Stmt(WithExp))),
         \A L : <<Top.lhs, Pos>> \in AfterExp(stack[Below], L) <=> <<Stmt(WithExp), Pos + m>> \in L
  PROVE  TInv'
<1> DEFINE k == Below - 1
           s == Stmt(WithExp)
<1>1. TInv
  BY DEF Going
<1>2. /\ status = "parsing" /\ Top \in ExpFrames /\ stack[Below].at = "exp" /\ s \in Trees
      /\ \A K : Accepting(Top, Cont(stack[Below], K), Pos) <=> <<Top.lhs, Pos>> \in AfterExp(stack[Below], K)
  BY <1>1, ReturningHere
<1>3. /\ k \in 1 .. Len(stack) /\ k = Len(stack) - 2 /\ stack[k] \in WholeFrames /\ stack[k].at = "list"
      /\ Len(stack) \in Nat /\ Below = Len(stack) - 1
  BY <1>1, <1>2, BelowIs, StackIs
<1>4. k >= Len(stack) - 2 /\ k + 1 = Below /\ k # Len(stack) /\ k # Len(stack) - 1
  <2>1. PICK n \in Nat : n = Len(stack)
    BY <1>3
  <2>2. k = n - 2 /\ Below = n - 1
    BY <1>3, <2>1
  <2> HIDE DEF k
  <2>3. k >= n - 2 /\ k + 1 = Below /\ k # n /\ k # n - 1
    BY <2>2
  <2>4. QED
    BY <2>1, <2>3
<1>5. \A K : Through(stack, k, K) = Cont(stack[Below], Cont(stack[k], K))
  BY <1>4 DEF Through
<1>6. \A K : Cont(stack[k], K) = AfterStmt(stack[k], K)
  BY <1>3 DEF Cont
<1>7. Go(m, Within(k, s))
  OBVIOUS
<1>8. \A L : <<Top.lhs, Pos>> \in AfterExp(stack[Below], L) <=> <<s, Pos + m>> \in L
  OBVIOUS
<1> HIDE DEF k, s
<1>9. ASSUME NEW K, Known(stack, k, K)
      PROVE  Accepting(Top, Through(stack, k, K), Pos) <=> <<s, Pos + m>> \in AfterStmt(stack[k], K)
  BY <1>2, <1>5, <1>6, <1>8
<1>10. QED
  BY <1>2, <1>3, <1>4, <1>7, <1>9, ListGains

LEMMA StmtEndsNot ==
  ASSUME TInv, NEW kinds, ReturningToStmt(kinds), Throw,
         \A L : <<Top.lhs, Pos>> \notin AfterExp(stack[Below], L)
  PROVE  TInv'
<1>1. /\ status = "parsing" /\ Top \in ExpFrames
      /\ \A K : Accepting(Top, Cont(stack[Below], K), Pos) <=> <<Top.lhs, Pos>> \in AfterExp(stack[Below], K)
  BY ReturningHere
<1>2. QED
  BY <1>1, BelowFails

(* One token is expected.                                                  *)
LEMMA OneToken ==
  ASSUME TInv, NEW t, t \in TokenType \ {"Eof"}, NEW calls, Expect(<<t>>, calls)
  PROVE  /\ input[Pos] = t => Go(1, calls) /\ Pos + 1 \in Place
         /\ input[Pos] # t => Throw
<1>1. EndsInEof /\ Pos \in Place
  BY FrontIs DEF TInv
<1>2. PICK types \in Seq(TokenType \ {"Eof"}) : types = <<t>>
  <2>1. <<t>> \in Seq(TokenType \ {"Eof"})
    OBVIOUS
  <2>2. QED
    BY <2>1
<1>3. Len(types) = 1 /\ DOMAIN types = 1 .. 1 /\ types[1] = t
  <2>1. Len(<<t>>) = 1 /\ <<t>>[1] = t /\ DOMAIN <<t>> = 1 .. 1
    OBVIOUS
  <2>2. QED
    BY <1>2, <2>1
<1>4. Stands(Pos, types) <=> input[Pos] = t
  <2>1. Pos + 1 - 1 = Pos
    BY <1>1 DEF Place
  <2>2. QED
    BY <1>1, <1>3, <2>1 DEF Stands
<1>5. QED
  BY <1>1, <1>2, <1>3, <1>4, ExpectIs

LEMMA EndSimpleStmtStep ==
  ASSUME TInv, EndSimpleStmt
  PROVE  TInv'
<1> DEFINE b == stack[Below]
           s == Stmt(WithExp)
           kinds == {"VardeclStmt", "RetStmt", "AssignStmt"}
<1>1. /\ ReturningToStmt(kinds) /\ (b.kind = "AssignStmt" => b.exps # <<>>)
      /\ Expect(<<"Semicolon">>, Within(Below - 1, s))
  BY DEF EndSimpleStmt, ReturningToStmt
<1>2. /\ status = "parsing" /\ EndsInEof /\ Top.lhs \in Trees /\ Pos \in Place
      /\ b.kind \in kinds /\ WithExp = GainsExp(b, Top.lhs)
  BY <1>1, ReturningHere
<1>3. \A L : AfterExp(b, L) = AfterSimple(b, L)
  BY <1>1, <1>2 DEF AfterExp
<1>4. \A L : <<Top.lhs, Pos>> \in AfterExp(b, L) <=> input[Pos] = "Semicolon" /\ <<s, Pos + 1>> \in L
  BY <1>2, <1>3 DEF AfterSimple
<1>5. "Semicolon" \in TokenType \ {"Eof"}
  BY DEF TokenType
<1> HIDE DEF b, s, kinds
<1>6. CASE input[Pos] = "Semicolon"
  <2>1. Going(1) /\ Go(1, Within(Below - 1, s))
    BY <1>1, <1>2, <1>5, <1>6, OneToken DEF Going
  <2>2. QED
    BY <1>1, <1>4, <1>6, <2>1, StmtEnds DEF b, s
<1>7. CASE input[Pos] # "Semicolon"
  <2>1. Throw
    BY <1>1, <1>5, <1>7, OneToken
  <2>2. QED
    BY <1>1, <1>4, <1>7, <2>1, StmtEndsNot DEF b
<1>8. QED
  BY <1>6, <1>7

(* The frame below goes on: what it fits does not change.                  *)
LEMMA StmtFits ==
  ASSUME NEW f \in WholeFrames, NEW g \in WholeFrames, f.kind = g.kind
  PROVE  Alike(f, g) /\ \A K : Fits(f, K) <=> Fits(g, K)
BY FramesApart DEF Alike, Fits

LEMMA ReturnLhsStep ==
  ASSUME TInv, ReturnLhs
  PROVE  TInv'
<1> DEFINE b == stack[Below]
           e == Top.lhs
           f == GainsExp(b, e)
           g == ExpBp(0)
<1>1. ReturningToStmt({"AssignStmt"}) /\ b.exps = <<>> /\ Expect(<<"Assign">>, Append(SetBelow(WithExp), g))
  BY DEF ReturnLhs
<1>2. /\ status = "parsing" /\ EndsInEof /\ Top \in ExpFrames /\ e \in Trees /\ Pos \in Place
      /\ b \in WholeFrames /\ b.at = "exp" /\ b.kind = "AssignStmt" /\ b = ExpFrame(b.kind, b.exps)
      /\ WithExp = f
      /\ \A K : Accepting(Top, Cont(b, K), Pos) <=> <<e, Pos>> \in AfterExp(b, K)
  BY <1>1, ReturningHere
<1>3. f = ExpFrame("AssignStmt", Append(<<>>, e))
  <2>1. b = ExpFrame("AssignStmt", <<>>)
    BY <1>1, <1>2
  <2>2. QED
    BY <2>1, GainsExpIs
<1>4. f \in WholeFrames /\ f.at = "exp" /\ f.kind = "AssignStmt" /\ f.exps # <<>>
  <2>1. PICK x \in Seq(Trees) : x = Append(<<>>, e) /\ x # <<>>
    <3>1. Append(<<>>, e) \in Seq(Trees) /\ Append(<<>>, e) # <<>>
      BY <1>2
    <3>2. QED
      BY <3>1
  <2>2. "AssignStmt" \in ExpKinds
    BY DEF ExpKinds
  <2>3. LET h == ExpFrame("AssignStmt", x) IN h \in WholeFrames /\ h.at = "exp" /\ h.kind = "AssignStmt" /\ h.exps = x
    BY <2>2, ExpFrameWhole
  <2>4. f = ExpFrame("AssignStmt", x)
    BY <1>3, <2>1
  <2> HIDE DEF f
  <2>5. QED
    BY <2>1, <2>3, <2>4
<1>5. /\ g \in Frames /\ g \in ExpFrames
      /\ \A K : Fits(g, K) <=> Refuses(K, 1)
      /\ \A K, i : Accepting(g, K, i) <=> Accepts(1, i, K)
  BY CalledExp, MinRowIs
<1>6. \A K : AfterExp(b, K) = AfterLhs(b, K)
  BY <1>1, <1>2 DEF AfterExp
<1>7. \A K : <<e, Pos>> \in AfterExp(b, K) <=>
               input[Pos] = "Assign" /\ Accepts(1, Pos + 1, AfterSimple(f, K))
  BY <1>2, <1>6 DEF AfterLhs
<1> HIDE DEF b, e, f, g
<1>8. \A K : Cont(f, K) = AfterSimple(f, K) /\ Refuses(Cont(f, K), 1)
  <2>1. \A K : AfterExp(f, K) = AfterSimple(f, K)
    BY <1>4 DEF AfterExp
  <2>2. QED
    BY <1>4, <2>1, ExpsRefuse
<1>9. Stacked(f, g) /\ b.at # "list"
  BY <1>2, <1>4, <1>5 DEF Stacked
<1>10. "Assign" \in TokenType \ {"Eof"}
  BY DEF TokenType
<1>11. CASE input[Pos] = "Assign"
  <2>1. Going(1) /\ Go(1, Append(SetBelow(f), g))
    BY <1>1, <1>2, <1>10, <1>11, OneToken DEF Going
  <2>2. Alike(f, b) /\ \A K : Fits(f, K) <=> Fits(b, K)
    BY <1>2, <1>4, StmtFits
  <2>3. ASSUME NEW K, Fits(b, K), Fits(Top, Cont(b, K))
        PROVE  /\ Fits(f, K) /\ Fits(g, Cont(f, K))
               /\ Accepting(Top, Cont(b, K), Pos) <=> Accepting(g, Cont(f, K), Pos + 1)
    BY <1>2, <1>5, <1>7, <1>8, <1>11, <2>2, <2>3
  <2>4. QED
    BY <1>2, <1>5, <1>9, <2>1, <2>2, <2>3, BelowCalls DEF b
<1>12. CASE input[Pos] # "Assign"
  <2>1. Throw
    BY <1>1, <1>10, <1>12, OneToken
  <2>2. QED
    BY <1>1, <1>7, <1>12, <2>1, StmtEndsNot DEF b, e
<1>13. QED
  BY <1>11, <1>12

LEMMA ReturnCondStep ==
  ASSUME TInv, ReturnCond
  PROVE  TInv'
<1> DEFINE b == stack[Below]
           e == Top.lhs
           kinds == {"IfStmt", "WhileStmt", "RepeatStmt"}
           f == [GainsExp(b, e) EXCEPT !.at = "list"]
<1>1. ReturningToStmt(kinds) /\ Expect(<<"Lcurl">>, SetBelow([WithExp EXCEPT !.at = "list"]))
  BY DEF ReturnCond
<1>2. /\ status = "parsing" /\ EndsInEof /\ Top \in ExpFrames /\ e \in Trees /\ Pos \in Place
      /\ b \in WholeFrames /\ b.at = "exp" /\ b.kind \in kinds /\ b = ExpFrame(b.kind, b.exps)
      /\ b.kind \notin {"AssignStmt", "CallStmt"} => b.exps = <<>>
      /\ WithExp = GainsExp(b, e)
      /\ \A K : Accepting(Top, Cont(b, K), Pos) <=> <<e, Pos>> \in AfterExp(b, K)
  BY <1>1, ReturningHere
<1>3. Expect(<<"Lcurl">>, SetBelow(f))
  BY <1>1, <1>2
<1>4. f = ListStart(b.kind, 0, <<e>>)
  <2>1. b = ExpFrame(b.kind, <<>>)
    BY <1>2
  <2>2. b = Frame(b.kind, "exp")
    BY <2>1, ExpFrameIs
  <2>3. [GainsExp(Frame(b.kind, "exp"), e) EXCEPT !.at = "list"] = ListStart(b.kind, 0, <<e>>)
    BY CondStart
  <2> HIDE DEF b
  <2>4. QED
    BY <2>2, <2>3
<1>5. f \in WholeFrames /\ f.at = "list" /\ f.kind = b.kind
  <2>1. <<e>> \in Seq(Trees)
    BY <1>2
  <2>2. PICK x \in Seq(Trees) : x = <<e>>
    BY <2>1
  <2>3. b.kind \in BlockKinds /\ 0 \in Nat
    BY <1>2 DEF BlockKinds
  <2>4. LET h == ListStart(b.kind, 0, x) IN h \in WholeFrames /\ h.at = "list" /\ h.kind = b.kind
    BY <2>3, ListStartWhole
  <2> HIDE DEF f
  <2>5. QED
    BY <1>4, <2>2, <2>4
<1>6. \A K : AfterExp(b, K) = AfterCond(b, K)
  BY <1>2 DEF AfterExp
<1>7. \A K : <<e, Pos>> \in AfterExp(b, K) <=> input[Pos] = "Lcurl" /\ ListAccepts(f, K, Pos + 1)
  BY <1>2, <1>6 DEF AfterCond
<1> HIDE DEF b, e, f
<1>8. \A K : Accepting(f, K, Pos + 1) <=> ListAccepts(f, K, Pos + 1)
  BY <1>5 DEF Accepting
<1>9. "Lcurl" \in TokenType \ {"Eof"}
  BY DEF TokenType
<1>10. CASE input[Pos] = "Lcurl"
  <2>1. Going(1) /\ Go(1, SetBelow(f))
    BY <1>2, <1>3, <1>9, <1>10, OneToken DEF Going
  <2>2. Alike(f, b) /\ \A K : Fits(f, K) <=> Fits(b, K)
    BY <1>2, <1>5, StmtFits
  <2>3. ASSUME NEW K, Fits(b, K), Fits(Top, Cont(b, K))
        PROVE  Fits(f, K) /\ (Accepting(Top, Cont(b, K), Pos) <=> Accepting(f, K, Pos + 1))
    BY <1>2, <1>7, <1>8, <1>10, <2>2, <2>3
  <2>4. b.at # "list"
    BY <1>2
  <2>5. QED
    BY <1>2, <2>1, <2>2, <2>3, <2>4, BelowGoesOn DEF b
<1>11. CASE input[Pos] # "Lcurl"
  <2>1. Throw
    BY <1>3, <1>9, <1>11, OneToken
  <2>2. QED
    BY <1>1, <1>7, <1>11, <2>1, StmtEndsNot DEF b, e
<1>12. QED
  BY <1>10, <1>11
-----------------------------------------------------------------------------
(* The end of a call that is a statement.                                  *)
CallEnd == <<"Rparen", "Semicolon">>

LEMMA CallEndStands ==
  ASSUME EndsInEof, NEW i \in Place
  PROVE  /\ CallEnd \in Seq(TokenType \ {"Eof"}) /\ Len(CallEnd) = 2
         /\ Stands(i, CallEnd) <=> input[i] = "Rparen" /\ input[i + 1] = "Semicolon"
<1>1. CallEnd \in Seq(TokenType \ {"Eof"}) /\ Len(CallEnd) = 2
  <2>1. \A t \in {"Rparen", "Semicolon"} : t \in TokenType \ {"Eof"}
    BY DEF TokenType
  <2>2. QED
    BY <2>1 DEF CallEnd
<1>2. DOMAIN CallEnd = 1 .. 2 /\ CallEnd[1] = "Rparen" /\ CallEnd[2] = "Semicolon"
  BY DEF CallEnd
<1>3. i + 1 - 1 = i /\ i + 2 - 1 = i + 1
  BY DEF Place
<1>4. Stands(i, CallEnd) => input[i] = "Rparen" /\ input[i + 1] = "Semicolon"
  BY <1>2, <1>3 DEF Stands
<1>5. ASSUME input[i] = "Rparen", input[i + 1] = "Semicolon" PROVE Stands(i, CallEnd)
  <2>1. i + 1 \in Place
    BY <1>5, TokensPlace
  <2>2. ASSUME NEW n \in 1 .. 2 PROVE i + n - 1 \in Place /\ input[i + n - 1] = CallEnd[n]
    <3>1. n = 1 \/ n = 2
      OBVIOUS
    <3>2. QED
      BY <1>2, <1>3, <1>5, <2>1, <3>1
  <2>3. QED
    BY <1>2, <2>2 DEF Stands
<1>6. QED
  BY <1>1, <1>4, <1>5

LEMMA ReturnStmtArgumentStep ==
  ASSUME TInv, ReturnStmtArgument
  PROVE  TInv'
<1> DEFINE b == stack[Below]
           e == Top.lhs
           args == Append(b.exps, e)
           f == ExpFrame("CallStmt", args)
           g == ExpBp(0)
           Z(K) == EndsCallStmt(K)
<1>1. /\ ReturningToStmt({"CallStmt"})
      /\ Front = "Comma" => Go(1, Append(SetBelow(WithExp), g))
      /\ Front # "Comma" => Expect(CallEnd, Within(Below - 1, Stmt(WithExp)))
  BY DEF ReturnStmtArgument, CallEnd
<1>2. /\ status = "parsing" /\ EndsInEof /\ Top \in ExpFrames /\ e \in Trees /\ Pos \in Place
      /\ Front = input[Pos]
      /\ b \in WholeFrames /\ b.at = "exp" /\ b.kind = "CallStmt" /\ b = ExpFrame(b.kind, b.exps)
      /\ b.exps \in Seq(Trees) /\ WithExp = GainsExp(b, e)
      /\ \A K : Accepting(Top, Cont(b, K), Pos) <=> <<e, Pos>> \in AfterExp(b, K)
  BY <1>1, ReturningHere
<1>3. WithExp = f
  <2>1. b = ExpFrame("CallStmt", b.exps)
    BY <1>2
  <2>2. GainsExp(ExpFrame("CallStmt", b.exps), e) = f
    BY GainsExpIs
  <2> HIDE DEF b, f
  <2>3. QED
    BY <1>2, <2>1, <2>2
<1>4. args \in Seq(Trees)
  BY <1>2
<1>5. Stmt(f) = Node("CallStmt", 0, args, <<>>)
  BY SimpleFrames DEF SimpleKinds
<1>6. f \in WholeFrames /\ f.at = "exp" /\ f.kind = "CallStmt" /\ f.exps = args
  <2>1. "CallStmt" \in ExpKinds
    BY DEF ExpKinds
  <2> HIDE DEF args
  <2>2. QED
    BY <1>4, <2>1, ExpFrameWhole
<1>7. \A K : AfterExp(b, K) = AfterArg(Z(K), b.exps)
  BY <1>2 DEF AfterExp
<1>8. \A K : <<e, Pos>> \in AfterExp(b, K) <=>
               \/ <<args, Pos>> \in Z(K)
               \/ input[Pos] = "Comma" /\ ArgsAccepted(Z(K), args, Pos + 1)
  <2>1. ASSUME NEW Y
        PROVE  <<e, Pos>> \in AfterArg(Y, b.exps) <=>
                 \/ <<args, Pos>> \in Y
                 \/ input[Pos] = "Comma" /\ ArgsAccepted(Y, args, Pos + 1)
    <3>1. <<e, Pos>> \in Trees \X Place
      BY <1>2
    <3>2. QED
      BY <3>1 DEF AfterArg
  <2> HIDE DEF Z
  <2>2. QED
    BY <1>7, <2>1
<1> HIDE DEF b, e, f, g, args
<1>9. \A K : <<args, Pos>> \in Z(K) <=>
               input[Pos] = "Rparen" /\ input[Pos + 1] = "Semicolon" /\ <<Stmt(f), Pos + 2>> \in K
  BY <1>2, <1>4, <1>5 DEF EndsCallStmt
<1>10. CASE Front = "Comma"
  <2>1. Going(1)
    BY <1>2, <1>10, TokensPlace DEF Going
  <2>2. /\ g \in Frames /\ g \in ExpFrames
        /\ \A K : Fits(g, K) <=> Refuses(K, 1)
        /\ \A K, i : Accepting(g, K, i) <=> Accepts(1, i, K)
    BY CalledExp, MinRowIs DEF g
  <2>3. Go(1, Append(SetBelow(f), g))
    BY <1>1, <1>3, <1>10
  <2>4. Alike(f, b) /\ Stacked(f, g) /\ (\A K : Fits(f, K) <=> Fits(b, K)) /\ b.at # "list"
    BY <1>2, <1>6, <2>2, StmtFits DEF Stacked
  <2>5. ASSUME NEW K, Fits(b, K), Fits(Top, Cont(b, K))
        PROVE  /\ Fits(f, K) /\ Fits(g, Cont(f, K))
               /\ Accepting(Top, Cont(b, K), Pos) <=> Accepting(g, Cont(f, K), Pos + 1)
    <3>1. Cont(f, K) = AfterArg(Z(K), args) /\ Refuses(Cont(f, K), 1)
      <4>1. AfterExp(f, K) = AfterArg(Z(K), args)
        BY <1>6 DEF AfterExp
      <4>2. QED
        BY <1>6, <4>1, ExpsRefuse
    <3>2. ArgsAccepted(Z(K), args, Pos + 1) <=> Accepts(1, Pos + 1, AfterArg(Z(K), args))
      <4> HIDE DEF Z
      <4>1. QED
        BY <1>2, <1>4, <2>1, ArgsFromFirst DEF Going
    <3>3. <<args, Pos>> \notin Z(K)
      BY <1>2, <1>9, <1>10
    <3>4. QED
      BY <1>2, <1>8, <1>10, <2>2, <2>4, <2>5, <3>1, <3>2, <3>3
  <2>6. QED
    BY <1>2, <2>1, <2>2, <2>3, <2>4, <2>5, BelowCalls DEF b
<1>11. CASE Front # "Comma"
  <2>1. Expect(CallEnd, Within(Below - 1, Stmt(WithExp)))
    BY <1>1, <1>11
  <2>2. /\ CallEnd \in Seq(TokenType \ {"Eof"}) /\ Len(CallEnd) = 2
        /\ Stands(Pos, CallEnd) <=> input[Pos] = "Rparen" /\ input[Pos + 1] = "Semicolon"
    BY <1>2, CallEndStands
  <2>3. \A K : <<e, Pos>> \in AfterExp(b, K) <=> Stands(Pos, CallEnd) /\ <<Stmt(WithExp), Pos + 2>> \in K
    BY <1>2, <1>3, <1>8, <1>9, <1>11, <2>2
  <2>4. CASE Stands(Pos, CallEnd)
    <3>1. Going(2) /\ Go(2, Within(Below - 1, Stmt(WithExp)))
      BY <1>2, <2>1, <2>2, <2>4, ExpectIs DEF Going
    <3>2. QED
      BY <1>1, <2>3, <2>4, <3>1, StmtEnds DEF b, e
  <2>5. CASE ~ Stands(Pos, CallEnd)
    <3>1. Throw
      BY <2>1, <2>2, <2>5, ExpectIs
    <3>2. QED
      BY <1>1, <2>3, <2>5, <3>1, StmtEndsNot DEF b, e
  <2>6. QED
    BY <2>4, <2>5
<1>12. QED
  BY <1>10, <1>11

-----------------------------------------------------------------------------
(* The end of a list.                                                      *)
LEMMA RcurlHere ==
  ASSUME TInv, NEW kinds, AtRcurl(kinds), "Stmts" \notin kinds
  PROVE  /\ status = "parsing" /\ EndsInEof /\ Top \in WholeFrames /\ Top \in ListFrames /\ Top.at = "list"
         /\ Top.kind \in kinds /\ Top.kind # "Stmts" /\ Len(stack) # 1
         /\ Pos \in Place /\ Pos + 1 \in Place /\ input[Pos] = "Rcurl" /\ tokens[2] = input[Pos + 1]
         /\ Going(1)
         /\ \A K : Fits(Top, K) <=> NoOther(K)
         /\ \A K, i : Accepting(Top, K, i) <=> ListAccepts(Top, K, i)
<1>1. At("list") /\ Front = "Rcurl" /\ Top.kind \in kinds
  BY DEF AtRcurl, StmtAhead
<1>2. /\ status = "parsing" /\ EndsInEof /\ Top \in WholeFrames /\ Top \in ListFrames /\ Top.at = "list"
      /\ Pos \in Place /\ Front = input[Pos]
      /\ \A K : Fits(Top, K) <=> (Top.kind # "Stmts" => NoOther(K))
      /\ \A K, i : Accepting(Top, K, i) <=> ListAccepts(Top, K, i)
  BY <1>1, ListHere
<1>3. Top.kind # "Stmts" /\ Len(stack) # 1
  BY <1>1, <1>2, StackIs
<1>4. Pos + 1 \in Place
  BY <1>1, <1>2, NoEofThere
<1>5. tokens[2] = input[Pos + 1]
  BY <1>4, FrontIs
<1>6. QED
  BY <1>1, <1>2, <1>3, <1>4, <1>5 DEF Going

(* The statement ends with its list: the list one call down gains it.      *)
LEMMA ListEndsStmt ==
  ASSUME TInv, NEW kinds, AtRcurl(kinds), "Stmts" \notin kinds, Go(1, Within(Below, Stmt(Top))),
         ~ (Top.kind \in TwoKinds /\ Top.in = 1 /\ tokens[2] = OtherWord(Top.kind))
  PROVE  TInv'
<1> DEFINE k == Below
           s == Stmt(Top)
<1>1. /\ status = "parsing" /\ EndsInEof /\ Top \in WholeFrames /\ Top \in ListFrames /\ Top.at = "list"
      /\ Top.kind # "Stmts" /\ Len(stack) # 1 /\ Pos \in Place
      /\ input[Pos] = "Rcurl" /\ tokens[2] = input[Pos + 1] /\ Going(1)
      /\ \A K : Accepting(Top, K, Pos) <=> ListAccepts(Top, K, Pos)
  BY RcurlHere
<1>2. PICK n \in Nat : n = Len(stack) /\ n > 1 /\ Top = stack[n] /\ stack \in Stacks
  <2>1. PICK n \in Nat : n = Len(stack) /\ n > 0 /\ Top = stack[n] /\ stack \in Stacks
    BY <1>1, StackIs
  <2>2. n # 1
    BY <1>1, <2>1
  <2>3. n > 1
    BY <2>1, <2>2
  <2>4. QED
    BY <2>1, <2>3
<1>3. /\ k = n - 1 /\ k \in 1 .. Len(stack) /\ k >= Len(stack) - 2 /\ k + 1 = Len(stack)
      /\ k # Len(stack) /\ k = Len(stack) - 1
  BY <1>2 DEF Below
<1>4. Go(1, Within(k, s)) /\ s \in Trees
  <2>1. Top \in StmtFrames
    BY <1>1 DEF WholeFrames
  <2>2. QED
    BY <2>1, StmtTree
<1>5. \A K : Accepting(Top, K, Pos) <=> <<s, Pos + 1>> \in K
  BY <1>1, CloseAt
<1> HIDE DEF k, s
<1>6. stack[k] \in WholeFrames /\ stack[k].at = "list"
  <2>1. Stacked(stack[k], Top)
    <3>1. k \in 1 .. Len(stack) - 1 /\ k + 1 = n
      BY <1>2, <1>3
    <3>2. QED
      BY <1>2, <3>1 DEF Stacks
  <2>2. stack[k].at = "list"
    BY <1>1, <2>1, FramesApart DEF Stacked
  <2>3. stack[k] \in Frames
    BY <1>1, <1>3, StackIs
  <2>4. QED
    BY <2>2, <2>3, FramesApart DEF Frames
<1>7. ASSUME NEW K, Known(stack, k, K)
      PROVE  Accepting(Top, Through(stack, k, K), Pos) <=> <<s, Pos + 1>> \in AfterStmt(stack[k], K)
  <2>1. Through(stack, k, K) = AfterStmt(stack[k], K)
    BY <1>3, <1>6 DEF Through, Cont
  <2>2. QED
    BY <1>5, <2>1
<1>8. QED
  BY <1>1, <1>3, <1>4, <1>6, <1>7, ListGains

LEMMA SecondListStep ==
  ASSUME TInv, NEW kind \in TwoKinds, SecondList(kind, OtherWord(kind))
  PROVE  TInv'
<1> DEFINE word == OtherWord(kind)
           f == OtherList(Top)
<1>1. AtRcurl({kind}) /\ Top.in = 1 /\ tokens[2] = word /\ Expect(Between(word), SetTop(f))
  BY DEF SecondList, Between, OtherList
<1>2. "Stmts" \notin {kind}
  BY DEF TwoKinds
<1>3. /\ status = "parsing" /\ EndsInEof /\ Top \in WholeFrames /\ Top \in ListFrames /\ Top.at = "list"
      /\ Top.kind = kind /\ Top.kind # "Stmts" /\ Len(stack) # 1
      /\ Pos \in Place /\ input[Pos] = "Rcurl" /\ tokens[2] = input[Pos + 1]
      /\ \A K : Fits(Top, K) <=> NoOther(K)
      /\ \A K : Accepting(Top, K, Pos) <=> ListAccepts(Top, K, Pos)
  BY <1>1, <1>2, RcurlHere
<1>4. f \in ListFrames /\ f \in WholeFrames /\ f.at = "list" /\ f.kind = kind
  BY <1>3, OtherWhole
<1>5. \A K : NoOther(K) =>
        /\ Stands(Pos, Between(word)) => Pos + 3 \in Place
        /\ ListAccepts(Top, K, Pos) <=> Stands(Pos, Between(word)) /\ ListAccepts(f, K, Pos + 3)
  <2>1. /\ Top.kind \in TwoKinds /\ Top.in = 1 /\ input[Pos + 1] = OtherWord(Top.kind)
        /\ OtherList(Top) \in ListFrames
    BY <1>1, <1>3, <1>4
  <2>2. word = OtherWord(Top.kind)
    BY <1>3
  <2> HIDE DEF word
  <2> TAKE K
  <2> HAVE NoOther(K)
  <2>3. Top \in ListFrames /\ Pos \in Place /\ EndsInEof /\ Top.kind # "Stmts" /\ input[Pos] = "Rcurl"
    BY <1>3
  <2>4. /\ Stands(Pos, Between(OtherWord(Top.kind))) => Pos + 3 \in Place
        /\ ListAccepts(Top, K, Pos) <=>
             Stands(Pos, Between(OtherWord(Top.kind))) /\ ListAccepts(OtherList(Top), K, Pos + 3)
    BY <2>1, <2>3, CloseAt
  <2>5. QED
    BY <2>2, <2>4
<1>6. Between(word) \in Seq(TokenType \ {"Eof"}) /\ Len(Between(word)) = 3
  <2>1. word \in {"KeywordElse", "KeywordOtherwise"}
    BY DEF OtherWord
  <2> HIDE DEF word
  <2>2. QED
    BY <2>1, HeadsAre
<1> HIDE DEF word, f
<1>7. /\ \A K : Fits(f, K) <=> NoOther(K)
      /\ \A K, i : Accepting(f, K, i) <=> ListAccepts(f, K, i)
  BY <1>3, <1>4, FramesApart DEF Fits, Accepting
<1>8. CASE Stands(Pos, Between(word))
  <2>1. Going(3) /\ Go(3, SetTop(f))
    BY <1>1, <1>3, <1>6, <1>8, ExpectIs DEF Going
  <2>2. Alike(f, Top)
    BY <1>3, <1>4 DEF Alike
  <2>3. ASSUME NEW K, Fits(Top, K)
        PROVE  Fits(f, K) /\ (Accepting(Top, K, Pos) <=> Accepting(f, K, Pos + 3))
    BY <1>3, <1>5, <1>7, <1>8, <2>3
  <2>4. QED
    BY <1>3, <2>1, <2>2, <2>3, TopGoesOn
<1>9. CASE ~ Stands(Pos, Between(word))
  <2>1. Throw
    BY <1>1, <1>6, <1>9, ExpectIs
  <2>2. \A K : Fits(Top, K) => ~ Accepting(Top, K, Pos)
    BY <1>3, <1>5, <1>9
  <2>3. QED
    BY <1>3, <2>1, <2>2, TopFails
<1>10. QED
  BY <1>8, <1>9

LEMMA NoSecondListStep ==
  ASSUME TInv, NEW kind \in TwoKinds, NoSecondList(kind, OtherWord(kind))
  PROVE  TInv'
<1>1. AtRcurl({kind}) /\ (Top.in = 2 \/ tokens[2] # OtherWord(kind)) /\ Go(1, Within(Below, Stmt(Top)))
  BY DEF NoSecondList
<1>2. "Stmts" \notin {kind} /\ Top.kind = kind
  BY <1>1 DEF TwoKinds, AtRcurl
<1>3. QED
  BY <1>1, <1>2, ListEndsStmt

LEMMA CloseSteps ==
  ASSUME TInv, CloseIf \/ CloseWhile \/ CloseRepeat \/ CloseFundec
  PROVE  TInv'
<1>1. /\ "IfStmt" \in TwoKinds /\ OtherWord("IfStmt") = "KeywordElse"
      /\ "WhileStmt" \in TwoKinds /\ OtherWord("WhileStmt") = "KeywordOtherwise"
  BY DEF TwoKinds, OtherWord
<1>2. CASE CloseIf
  BY <1>1, <1>2, SecondListStep, NoSecondListStep DEF CloseIf
<1>3. CASE CloseWhile
  BY <1>1, <1>3, SecondListStep, NoSecondListStep DEF CloseWhile
<1>4. ASSUME NEW kind \in {"RepeatStmt", "FundecStmt"}, AtRcurl({kind}), Go(1, Within(Below, Stmt(Top)))
      PROVE  TInv'
  <2>1. Top.kind = kind /\ Top.kind \notin TwoKinds /\ "Stmts" \notin {kind}
    BY <1>4 DEF AtRcurl, TwoKinds
  <2>2. QED
    BY <1>4, <2>1, ListEndsStmt
<1>5. QED
  BY <1>2, <1>3, <1>4 DEF CloseRepeat, CloseFundec

LEMMA CloseProgramStep ==
  ASSUME TInv, CloseProgram
  PROVE  TInv'
<1>1. /\ At("list") /\ Front = "Eof" /\ Top.kind = "Stmts"
      /\ status' = "parsed" /\ tree' = Top.lists[1] /\ tokens' = tokens /\ input' = input
  BY DEF CloseProgram, StmtAhead
<1>2. /\ status = "parsing" /\ EndsInEof /\ Top \in WholeFrames /\ Top \in ListFrames /\ Pos \in Place
      /\ Front = input[Pos]
      /\ \A K : Accepting(Top, K, Pos) <=> ListAccepts(Top, K, Pos)
  BY <1>1, ListHere
<1>3. PICK n \in Nat : n = Len(stack) /\ n > 0 /\ Top = stack[n] /\ stack \in Stacks /\ Means(stack, Pos)
  BY <1>2, StackIs
<1>4. n = 1
  <2>1. ASSUME n # 1 PROVE FALSE
    <3>1. n - 1 \in 1 .. Len(stack) - 1 /\ (n - 1) + 1 = n
      BY <1>3, <2>1
    <3>2. Stacked(stack[n - 1], Top)
      BY <1>3, <3>1 DEF Stacks
    <3>3. QED
      BY <1>1, <1>2, <3>2, FramesApart DEF Stacked
  <2>2. QED
    BY <2>1
<1>5. Pos = Len(input)
  BY <1>1, <1>2, EofIsLast
<1>6. \A K : ListAccepts(Top, K, Pos) <=> <<Top.lists[1], Pos>> \in K
  BY <1>1, <1>2, CloseAt
<1>7. ASSUME NEW p \in Seq(Trees) PROVE p \in Program <=> p = Top.lists[1]
  <2>1. PICK c : Conts(stack, p, c) /\ (p \in Program <=> Accepting(stack[n], c[n], Pos))
    <3>1. PICK i : i = Pos
      OBVIOUS
    <3>2. QED
      BY <1>3, <3>1 DEF Means
  <2>2. c[1] = {<<p, Len(input)>>}
    BY <2>1 DEF Conts
  <2>3. QED
    BY <1>2, <1>3, <1>4, <1>5, <1>6, <2>1, <2>2
<1>8. Program \subseteq Seq(Trees)
  <2>1. 1 \in Place /\ Len(input) \in Place
    BY <1>2 DEF EndsInEof, Place
  <2>2. QED
    BY <1>2, <2>1, ListsAre DEF Program
<1>9. Top.lists[1] \in Seq(Trees)
  <2>1. Top.lists \in Seq(Seq(Trees)) /\ Len(Top.lists) = 1
    BY <1>1, <1>2 DEF WholeFrames, StmtFrames, ListCount
  <2>2. PICK S : S = Seq(Trees)
    OBVIOUS
  <2>3. QED
    BY <2>1, <2>2
<1>10. Program = {Top.lists[1]}
  BY <1>7, <1>8, <1>9
<1>11. QED
  BY <1>1, <1>10, StillAligned DEF TInv, ParsesTree, RefusesOnlyBad

LEMMA TStutters ==
  ASSUME TInv, UNCHANGED prattv
  PROVE  TInv'
<1>1. tokens' = tokens /\ stack' = stack /\ status' = status /\ tree' = tree /\ input' = input
  BY DEF prattv
<1>2. EndsInEof' /\ Aligned' /\ Program' = Program
  BY <1>1, StillAligned
<1>3. Pos' = Pos
  BY <1>1 DEF Pos
<1>4. ASSUME status = "parsing" PROVE (stack \in Stacks)' /\ Means(stack, Pos)'
  <2>1. stack \in Stacks /\ Means(stack, Pos)
    BY <1>4 DEF TInv
  <2>2. (stack \in Stacks)'
    BY <1>1, <2>1 DEF Stacks, Stacked
  <2>3. PICK i : i = Pos
    OBVIOUS
  <2>4. PICK s : s = stack
    OBVIOUS
  <2>5. QED
    BY <1>1, <1>3, <2>1, <2>2, <2>3, <2>4, SameMeans
<1>5. ParsesTree' /\ RefusesOnlyBad'
  BY <1>1, <1>2 DEF TInv, ParsesTree, RefusesOnlyBad
<1>6. QED
  BY <1>1, <1>2, <1>4, <1>5 DEF TInv
-----------------------------------------------------------------------------
LEMMA ProgramFrame ==
  LET f == Frame("Stmts", "list")
  IN  /\ f \in WholeFrames /\ f \in ListFrames /\ f.at = "list" /\ f.kind = "Stmts"
      /\ \A l \in Seq(Trees) : WithList(f, l).kind = "Stmts" /\ WithList(f, l).lists[1] = l
<1> DEFINE f == Frame("Stmts", "list")
<1>1. ListCount["Stmts"] = 1 /\ "Stmts" \in DOMAIN ListCount
  BY DEF ListCount
<1>2. PICK L : L = [i \in 1 .. ListCount["Stmts"] |-> <<>>]
  OBVIOUS
<1>3. L \in Seq(Seq(Trees)) /\ Len(L) = 1 /\ DOMAIN L = 1 .. 1 /\ L[1] = <<>>
  <2>1. <<>> \in Seq(Trees)
    OBVIOUS
  <2>2. PICK S : S = Seq(Trees)
    OBVIOUS
  <2>3. L = [i \in 1 .. 1 |-> <<>>]
    BY <1>1, <1>2
  <2>4. QED
    BY <2>1, <2>2, <2>3
<1>4. /\ f.at = "list" /\ f.kind = "Stmts" /\ f.params = 0 /\ f.exps = <<>> /\ f.in = 1 /\ f.lists = L
      /\ f = [at |-> "list", kind |-> "Stmts", params |-> 0, exps |-> <<>>, in |-> 1, lists |-> L]
  BY <1>2 DEF Frame
<1>5. f \in StmtFrames
  BY <1>1, <1>3, <1>4 DEF StmtFrames
<1> HIDE DEF f
<1>6. f \in ListFrames /\ f \in WholeFrames
  <2>1. f.in \in DOMAIN f.lists
    BY <1>3, <1>4
  <2>2. f \in ListFrames
    BY <1>5, <2>1 DEF ListFrames
  <2>3. Len(f.lists) = ListCount[f.kind]
    BY <1>1, <1>3, <1>4
  <2>4. QED
    BY <1>4, <1>5, <2>2, <2>3 DEF WholeFrames
<1>7. ASSUME NEW l \in Seq(Trees) PROVE WithList(f, l).kind = "Stmts" /\ WithList(f, l).lists[1] = l
  <2>1. WithList(f, l) = [f EXCEPT !.lists = [L EXCEPT ![1] = L[1] \o l]]
    BY <1>4 DEF WithList
  <2>2. L[1] \o l = l
    BY <1>3
  <2>3. WithList(f, l).lists = [L EXCEPT ![1] = l]
    BY <1>4, <2>1, <2>2
  <2>4. WithList(f, l).kind = "Stmts"
    BY <1>4, <1>6, GainsAre
  <2>5. QED
    BY <1>3, <2>3, <2>4
<1>8. QED
  BY <1>4, <1>6, <1>7 DEF f

LEMMA InitTInv == Init => TInv
<1> SUFFICES ASSUME Init PROVE TInv
  OBVIOUS
<1> DEFINE f == Frame("Stmts", "list")
<1>1. PICK s \in Inputs : tokens = Append(s, "Eof") /\ input = tokens
  BY DEF Init
<1>2. s \in Seq(TokenType) /\ \A i \in 1 .. Len(s) : s[i] # "Eof"
  BY InputsAssumption
<1>3. /\ input \in Seq(TokenType) /\ Len(input) = Len(s) + 1 /\ Len(s) \in Nat
      /\ \A i \in 1 .. Len(s) : input[i] = s[i]
      /\ input[Len(s) + 1] = "Eof"
  BY <1>1, <1>2 DEF TokenType
<1>4. EndsInEof
  BY <1>2, <1>3 DEF EndsInEof, Place
<1>5. Pos = 1
  BY <1>1, <1>3 DEF Pos
<1>6. Aligned
  <2>1. \A m \in DOMAIN tokens : (1 + m) - 1 = m
    BY <1>1, <1>3
  <2>2. 1 \in Place
    BY <1>4 DEF EndsInEof, Place
  <2>3. QED
    BY <1>1, <1>3, <1>5, <2>1, <2>2 DEF Aligned
<1>7. /\ f \in WholeFrames /\ f \in ListFrames /\ f.at = "list" /\ f.kind = "Stmts"
      /\ \A l \in Seq(Trees) : WithList(f, l).kind = "Stmts" /\ WithList(f, l).lists[1] = l
  BY ProgramFrame
<1>8. stack = <<f>> /\ status = "parsing"
  BY DEF Init
<1> HIDE DEF f
<1>9. stack \in Seq(ExpFrames \union WholeFrames) /\ stack # <<>> /\ Len(stack) = 1 /\ stack[1] = f
  <2>1. PICK S : S = ExpFrames \union WholeFrames
    OBVIOUS
  <2>2. QED
    BY <1>7, <1>8, <2>1
<1>10. stack \in Stacks
  BY <1>7, <1>9 DEF Stacks
<1>11. ASSUME NEW p \in Seq(Trees)
       PROVE  p \in Program <=> ListAccepts(f, {<<p, Len(input)>>}, 1)
  <2> DEFINE K == {<<p, Len(input)>>}
             n == Len(input)
  <2>1. n \in Place /\ 1 \in Place
    BY <1>4 DEF EndsInEof, Place
  <2>2. ASSUME NEW j \in Place, NEW l \in StmtLists[<<1, j>>]
        PROVE  Closes(WithList(f, l), K, j) <=> j = n /\ l = p
    <3>1. l \in Seq(Trees)
      BY <1>4, <2>1, ListsAre
    <3>2. WithList(f, l).kind = "Stmts" /\ WithList(f, l).lists[1] = l
      BY <1>7, <3>1
    <3>3. QED
      BY <3>2 DEF Closes
  <2> HIDE DEF K
  <2>3. ListAccepts(f, K, 1) <=> \E j \in Place : \E l \in StmtLists[<<1, j>>] : j = n /\ l = p
    BY <2>2 DEF ListAccepts
  <2>4. QED
    BY <2>1, <2>3 DEF Program, K
<1>12. Means(stack, 1)
  <2> SUFFICES ASSUME NEW p \in Seq(Trees)
               PROVE  \E c : Conts(stack, p, c) /\ (p \in Program <=> Accepting(stack[Len(stack)], c[Len(stack)], 1))
    BY DEF Means
  <2> DEFINE c == [d \in 1 .. 1 |-> {<<p, Len(input)>>}]
  <2>1. DOMAIN c = 1 .. 1 /\ c[1] = {<<p, Len(input)>>}
    OBVIOUS
  <2> HIDE DEF c
  <2>2. Fits(f, c[1])
    BY <1>7, FramesApart DEF Fits
  <2>3. Conts(stack, p, c)
    <3>1. \A d \in 1 .. Len(stack) : d = 1
      BY <1>9
    <3>2. \A d \in 1 .. Len(stack) - 1 : FALSE
      BY <1>9
    <3>3. QED
      BY <1>9, <2>1, <2>2, <3>1, <3>2 DEF Conts
  <2>4. Accepting(f, c[1], 1) <=> ListAccepts(f, {<<p, Len(input)>>}, 1)
    BY <1>7, <2>1 DEF Accepting
  <2>5. QED
    BY <1>9, <1>11, <2>3, <2>4
<1>13. ParsesTree /\ RefusesOnlyBad
  BY <1>8 DEF ParsesTree, RefusesOnlyBad
<1>14. QED
  BY <1>4, <1>5, <1>6, <1>10, <1>12, <1>13 DEF TInv

LEMMA TStep ==
  ASSUME TInv, [Next]_prattv
  PROVE  TInv'
<1>1. CASE Operand
  BY <1>1, ParseLeafStep, ParseCallStep, ParseParenStep, ParsePrefixStep, NoOperandStep DEF Operand
<1>2. CASE OperatorLoop \/ Return
  BY <1>2, ParsePostfixStep, ParseInfixStep, ReturnOperandStep, ReturnToParenStep, ReturnArgumentStep
     DEF OperatorLoop, Return
<1>3. CASE ParseStmt \/ ParseParam
  BY <1>3, ParseVardeclStep, ParseAssignStep, ParseCallStmtStep, ParseReturnStep, ParseCondSteps,
     ParseFundecStep, NoStatementStep, ParseParamStep DEF ParseStmt
<1>4. CASE ReturnToStmt
  BY <1>4, EndSimpleStmtStep, ReturnLhsStep, ReturnCondStep, ReturnStmtArgumentStep DEF ReturnToStmt
<1>5. CASE CloseList
  BY <1>5, CloseSteps, CloseProgramStep DEF CloseList
<1>6. CASE Stopped \/ UNCHANGED prattv
  BY <1>6, TStutters DEF Stopped
<1>7. QED
  BY <1>1, <1>2, <1>3, <1>4, <1>5, <1>6 DEF Next, ParseExp

(* The calls can come to the trees of the program and to no others,        *)
(* whatever the parser does.                                               *)
THEOREM TreeInvariance == Spec => []TInv
<1>1. TInv /\ [Next]_prattv => TInv'
  BY TStep
<1>2. QED
  BY InitTInv, <1>1, PTL DEF Spec

(* A program that parse_stmts() returns a tree for has that tree in the    *)
(* grammar and no other: operators group by the table of precedence, an    *)
(* else belongs to its if, and no token is dropped or taken twice.         *)
THEOREM ParsesTheTree == Spec => []ParsesTree
<1>1. TInv => ParsesTree
  BY DEF TInv
<1>2. QED
  BY <1>1, TreeInvariance, PTL

(* A program that the parser throws for has no tree in the grammar.        *)
THEOREM RefusesNoTree == Spec => []RefusesOnlyBad
<1>1. TInv => RefusesOnlyBad
  BY DEF TInv
<1>2. QED
  BY <1>1, TreeInvariance, PTL
=============================================================================
