-------------------------------- MODULE Pratt --------------------------------
(***************************************************************************)
(* The expression parser (exp_bp and parse_call_exp in parser.cpp): Pratt  *)
(* parsing of a deque of tokens whose last token is Eof.                   *)
(*                                                                         *)
(* stack is the C++ call stack of the parser.  A frame of exp_bp says      *)
(* where its call stands: at the "operand" switch, in the operator "loop", *)
(* or waiting for the call above it to return ("paren", "prefix", "infix", *)
(* and "call", the argument loop of parse_call_exp).  The frames of the    *)
(* statement parsers, on which those of exp_bp stand, are in Parser.       *)
(* Tokens are their types, trees are the records of ast.h without names,   *)
(* values and positions.                                                   *)
(***************************************************************************)
EXTENDS Token, Integers, Sequences

CONSTANT
  Inputs                \* what tokenize() may leave before Eof

ASSUME InputsAssumption == Inputs \subseteq Seq(TokenType \ {"Eof"})

VARIABLES
  tokens,               \* the deque
  stack,                \* calls of the parser, outermost first
  status,               \* "parsing", "parsed" or "error" (AlbatrossError)
  tree,                 \* what parse_stmts returned
  input                 \* history: the deque as tokenize() left it

prattv == <<tokens, stack, status, tree, input>>

(* Every operator token has its Operator but a prefix minus and a '[',     *)
(* which are Operator::Sub like an infix minus.                            *)
Operator(t) == IF t \in {"OpMinus", "Lbracket"} THEN "Sub" ELSE t

None == [kind |-> "none"]
Leaf(kind) == [kind |-> kind]
Unop(t, e) == [kind |-> "UnopExp", op |-> Operator(t), e |-> e]
Binop(t, l, r) == [kind |-> "BinopExp", op |-> Operator(t), lhs |-> l, rhs |-> r]
CallTree(args) == [kind |-> "CallExp", args |-> args]

-----------------------------------------------------------------------------
(* op_binding_power.  A prefix minus is told from an infix one by a flag.  *)

PrefixOps == {"OpNot", "OpMinus"}
PostfixOps == {"Lbracket"}

Level == [t \in {"OpTimes", "OpDiv", "OpRem", "OpPlus", "OpMinus", "OpLt", "OpLe", "OpGt", "OpGe",
                 "OpEq", "OpNe", "OpBand", "OpXor", "OpBor", "OpAnd", "OpOr"} |->
  CASE t \in {"OpTimes", "OpDiv", "OpRem"}       -> 175
    [] t \in {"OpPlus", "OpMinus"}               -> 165
    [] t \in {"OpLt", "OpLe", "OpGt", "OpGe"}    -> 145
    [] t \in {"OpEq", "OpNe"}                    -> 135
    [] t = "OpBand"                              -> 125
    [] t = "OpXor"                               -> 115
    [] t = "OpBor"                               -> 105
    [] t = "OpAnd"                               -> 95
    [] t = "OpOr"                                -> 85]

InfixOpsNoOr == DOMAIN Level \ {"OpOr"}   \* mutant: a case of the switch is missing
InfixOps == DOMAIN Level
LeftBp(t) == Level[t]

RightBpAsLeft(t) == Level[t]           \* mutant: both sides bind alike
RightBp(t) == Level[t] + 5
PrefixBp == 190

-----------------------------------------------------------------------------
ExpBp(min_bp) == [at |-> "operand", min_bp |-> min_bp, lhs |-> None, op |-> "none", args |-> <<>>]

Top   == stack[Len(stack)]
Front == tokens[1]
At(where) == status = "parsing" /\ Top.at = where

SetTop(frame) == [stack EXCEPT ![Len(stack)] = frame]
LoopOf(frame, e) == [ExpBp(frame.min_bp) EXCEPT !.at = "loop", !.lhs = e]
Looping(e) == LoopOf(Top, e)
Waiting(where, op) == [Top EXCEPT !.at = where, !.op = op]

(* Consume n tokens and go on with the calls in calls.                     *)
Go(n, calls) ==
  /\ tokens' = SubSeq(tokens, n + 1, Len(tokens))
  /\ stack' = calls
  /\ UNCHANGED <<status, tree, input>>

Throw ==
  /\ status' = "error"
  /\ UNCHANGED <<tokens, stack, tree, input>>

-----------------------------------------------------------------------------
(* The switch over the first token.                                        *)

LeafKind == [t \in {"IntLiteral", "StrLiteral", "Identifier"} |->
  CASE t = "IntLiteral" -> "IntExp" [] t = "StrLiteral" -> "StringExp" [] t = "Identifier" -> "VarExp"]

(* Is an identifier a call?  tokens.at(1) decides.                         *)
CallAhead == Front = "Identifier" /\ tokens[2] = "Lparen"

ParseLeaf ==
  /\ At("operand") /\ Front \in DOMAIN LeafKind /\ ~ CallAhead
  /\ Go(1, SetTop(Looping(Leaf(LeafKind[Front]))))

(* parse_call_exp, up to its first argument if it has one.                 *)
ParseCall ==
  /\ At("operand") /\ CallAhead
  /\ IF tokens[3] = "Rparen"
     THEN Go(3, SetTop(Looping(CallTree(<<>>))))
     ELSE Go(2, Append(SetTop(Waiting("call", "none")), ExpBp(0)))

ParseParen ==
  /\ At("operand") /\ Front = "Lparen"
  /\ Go(1, Append(SetTop(Waiting("paren", "none")), ExpBp(0)))

ParsePrefixPeek ==                     \* mutant: the operator is not consumed
  /\ At("operand") /\ Front \in PrefixOps
  /\ Go(0, Append(SetTop(Waiting("prefix", Front)), ExpBp(PrefixBp)))

ParsePrefix ==
  /\ At("operand") /\ Front \in PrefixOps
  /\ Go(1, Append(SetTop(Waiting("prefix", Front)), ExpBp(PrefixBp)))

NoOperand ==
  /\ At("operand")
  /\ Front \notin DOMAIN LeafKind \union {"Lparen"} \union PrefixOps
  /\ Throw

-----------------------------------------------------------------------------
(* The loop over the operators after the operand.  A '[' has left binding  *)
(* power 200, above every min_bp, and consumes no operand.                 *)

ParsePostfixPeek ==                    \* mutant: the operator is not consumed
  /\ At("loop") /\ Front \in PostfixOps
  /\ Go(0, SetTop(Looping(Unop(Front, Top.lhs))))

ParsePostfix ==
  /\ At("loop") /\ Front \in PostfixOps
  /\ Go(1, SetTop(Looping(Unop(Front, Top.lhs))))

ParseInfix ==
  /\ At("loop") /\ Front \in InfixOps /\ LeftBp(Front) >= Top.min_bp
  /\ Go(1, Append(SetTop(Waiting("infix", Front)), ExpBp(RightBp(Front))))

AtEndOfLoop ==
  /\ At("loop") /\ Front \notin PostfixOps
  /\ Front \in InfixOps => LeftBp(Front) < Top.min_bp

-----------------------------------------------------------------------------
(* The running call returns its lhs to the call below it.                  *)

Below == Len(stack) - 1
ReturningTo(where) == AtEndOfLoop /\ stack[Below].at = where

(* The calls without the one at the top, and frame for the one below it.   *)
SetBelow(frame) == Append(SubSeq(stack, 1, Below - 1), frame)

(* The call below goes on with e for its lhs.                              *)
Resume(e) == SetBelow(LoopOf(stack[Below], e))

ReturnOperand ==
  \/ /\ ReturningTo("prefix")
     /\ Go(0, Resume(Unop(stack[Below].op, Top.lhs)))
  \/ /\ ReturningTo("infix")
     /\ Go(0, Resume(Binop(stack[Below].op, stack[Below].lhs, Top.lhs)))

ReturnToParen ==
  /\ ReturningTo("paren")
  /\ IF Front = "Rparen" THEN Go(1, Resume(Top.lhs)) ELSE Throw

(* parse_call_exp: after a comma another argument, else a parenthesis.     *)
Args == Append(stack[Below].args, Top.lhs)

ReturnArgument ==
  /\ ReturningTo("call")
  /\ \/ /\ Front = "Comma"
        /\ Go(1, Append(SetBelow([stack[Below] EXCEPT !.args = Args]), ExpBp(0)))
     \/ Front = "Rparen" /\ Go(1, Resume(CallTree(Args)))
     \/ Front \notin {"Comma", "Rparen"} /\ Throw

-----------------------------------------------------------------------------
Operand == ParseLeaf \/ ParseCall \/ ParseParen \/ ParsePrefix \/ NoOperand
OperatorLoop == ParsePostfix \/ ParseInfix
Return == ReturnOperand \/ ReturnToParen \/ ReturnArgument

ParseExp == Operand \/ OperatorLoop \/ Return

-----------------------------------------------------------------------------
(* The deque always ends in Eof, which no path consumes: front() exists,   *)
(* and so does at(1) behind an identifier, however the tokens run out.     *)
EofKept ==
  /\ tokens # <<>>
  /\ \A i \in DOMAIN tokens : tokens[i] = "Eof" <=> i = Len(tokens)
=============================================================================
