-------------------------------- MODULE Fold --------------------------------
(***************************************************************************)
(* Constant folding of expressions (fold_exp in transform_ast.cpp), and    *)
(* the part of main()'s loop that repeats it until nothing folds.          *)
(*                                                                         *)
(* Expressions are the trees of ast.h as records with the code's field     *)
(* names.  Signed overflow wraps to the width of int, as the build         *)
(* computes it, and a division the processor cannot represent traps.       *)
(***************************************************************************)
EXTENDS Integers, Sequences

CONSTANTS
  MinInt,               \* the least int: -(2 ^ (w - 1)) where int has w bits
  BitOp(_, _, _),       \* what the processor makes of "Bor", "Xor" and "Band"
  Names, Strings,
  Exp,                  \* the expressions there are
  Programs,             \* those to fold
  Env                   \* environments: what variables and calls are worth

Int_ == MinInt .. -(MinInt + 1)
BinOps == {"Or", "And", "Bor", "Xor", "Band", "Ne", "Eq", "Gt", "Ge", "Lt", "Le",
           "Add", "Sub", "Mul", "Div", "Rem"}
UnOps == {"Not", "Neg", "Sub"}

(* The nodes of expressions whose children are in E.                       *)
Nodes(E) ==
  [kind : {"IntExp"}, ival : Int_] \union [kind : {"StringExp"}, sval : Strings]
    \union [kind : {"VarExp"}, name : Names] \union [kind : {"CallExp"}, name : Names, args : Seq(E)]
    \union [kind : {"BinopExp"}, op : BinOps, lhs : E, rhs : E]
    \union [kind : {"UnopExp"}, op : UnOps, e : E]

ASSUME MinIntAssumption == MinInt \in Int /\ MinInt < -1

ASSUME BitOpAssumption ==
  \A op \in {"Bor", "Xor", "Band"} : \A x, y \in Int_ : BitOp(op, x, y) \in Int_

VARIABLES
  exp,                  \* the expression, folded in place
  folded,               \* what the last call of fold_exp returned
  status,               \* "ok", "SIGFPE" (trap in a division) or "exit" (perror, exit)
  original              \* history: the expression as parsed

foldv == <<exp, folded, status, original>>

WrapNothing(x) == x                    \* mutant: arithmetic of unbounded width
Wrap(x) == ((x - MinInt) % (-2 * MinInt)) + MinInt
Bool(b) == IF b THEN 1 ELSE 0

(* Division truncates towards zero and the remainder has the dividend's    *)
(* sign.                                                                   *)
Abs(x) == IF x < 0 THEN -x ELSE x
TruncDiv(x, y) ==
  LET q == Abs(x) \div Abs(y)
  IN  IF (x < 0) = (y < 0) THEN q ELSE -q
TruncRem(x, y) ==
  LET r == Abs(x) % Abs(y)
  IN  IF x < 0 THEN -r ELSE r

Traps(op, x, y) == op \in {"Div", "Rem"} /\ (y = 0 \/ (x = MinInt /\ y = -1))

(* The switch of BinopExp, where it does not trap.                         *)
ApplyBinop(op, x, y) ==
  CASE op = "Or"   -> Bool(x # 0 \/ y # 0)
    [] op = "And"  -> Bool(x # 0 /\ y # 0)
    [] op \in {"Bor", "Xor", "Band"} -> BitOp(op, x, y)
    [] op = "Ne"   -> Bool(x # y)
    [] op = "Eq"   -> Bool(x = y)
    [] op = "Gt"   -> Bool(x > y)
    [] op = "Ge"   -> Bool(x >= y)
    [] op = "Lt"   -> Bool(x < y)
    [] op = "Le"   -> Bool(x <= y)
    [] op = "Add"  -> Wrap(x + y)
    [] op = "Sub"  -> Wrap(x - y)
    [] op = "Mul"  -> Wrap(x * y)
    [] op = "Div"  -> TruncDiv(x, y)
    [] op = "Rem"  -> TruncRem(x, y)

(* The switch of UnopExp.                                                  *)
ApplyUnop(op, x) == IF op = "Not" THEN Bool(x = 0) ELSE Wrap(-x)

IntNode(v) == [kind |-> "IntExp", ival |-> v]
Result(e, f, s) == [exp |-> e, folded |-> f, status |-> s]

-----------------------------------------------------------------------------
(* fold_exp: children first, left before right, then the node itself if    *)
(* they have become constants; l, r and x are what it made of them.  The   *)
(* arguments of a call are left alone.  A prefix minus reaches it as       *)
(* Operator::Sub (op_binding_power), which the switch of UnopExp does not  *)
(* have.                                                                   *)
Over(e, l, r) == [e EXCEPT !.lhs = l, !.rhs = r]

FoldOperands(e, l, r) ==
  LET node == Over(e, l.exp, r.exp)
  IN  IF l.status # "ok" THEN Result(e, FALSE, l.status)
      ELSE IF r.status # "ok" THEN Result(e, FALSE, r.status)
      ELSE IF l.exp.kind # "IntExp" \/ r.exp.kind # "IntExp" THEN Result(node, l.folded \/ r.folded, "ok")
      ELSE IF Traps(e.op, l.exp.ival, r.exp.ival) THEN Result(node, TRUE, "SIGFPE")
      ELSE Result(IntNode(ApplyBinop(e.op, l.exp.ival, r.exp.ival)), TRUE, "ok")

(* Mutants: no break after case Or; rhs not visited once lhs has folded;   *)
(* the flag of lhs lost; the flag always set.                              *)
FoldBinopNoBreak(e, l, r) ==
  LET f == FoldOperands(e, l, r)
  IN  IF e.op = "Or" /\ f.exp.kind = "IntExp" THEN FoldOperands([e EXCEPT !.op = "And"], l, r) ELSE f
FoldBinopOneSide(e, l, r) ==
  FoldOperands(e, l, IF l.folded THEN Result(e.rhs, FALSE, "ok") ELSE r)
FoldBinopLostFlag(e, l, r) == FoldOperands(e, [l EXCEPT !.folded = FALSE], r)
FoldBinopAlways(e, l, r) == [FoldOperands(e, l, r) EXCEPT !.folded = TRUE]

FoldBinop(e, l, r) == FoldOperands(e, l, r)

FoldUnop(e, x) ==
  LET node == [e EXCEPT !.e = x.exp]
  IN  IF x.status # "ok" THEN Result(e, FALSE, x.status)
      ELSE IF x.exp.kind # "IntExp" THEN Result(node, x.folded, "ok")
      ELSE IF e.op \notin {"Not", "Neg"} THEN Result(node, TRUE, "exit")
      ELSE Result(IntNode(ApplyUnop(e.op, x.exp.ival)), TRUE, "ok")

FoldExp[e \in Exp] ==
  CASE e.kind = "BinopExp" -> FoldBinop(e, FoldExp[e.lhs], FoldExp[e.rhs])
    [] e.kind = "UnopExp"  -> FoldUnop(e, FoldExp[e.e])
    [] OTHER               -> Result(e, FALSE, "ok")

-----------------------------------------------------------------------------
Init ==
  /\ original \in Programs
  /\ exp = original
  /\ folded = TRUE
  /\ status = "ok"

(* One turn of while (should_optimize).                                    *)
FoldPass ==
  /\ status = "ok" /\ folded
  /\ LET r == FoldExp[exp]
     IN  /\ exp' = r.exp
         /\ folded' = r.folded
         /\ status' = r.status
  /\ UNCHANGED original

Stopped == (status # "ok" \/ ~ folded) /\ UNCHANGED foldv

Next == FoldPass \/ Stopped

Spec == Init /\ [][Next]_foldv /\ WF_foldv(FoldPass)

-----------------------------------------------------------------------------
(* What an expression is worth when it is run, <<>> if it traps: && and || *)
(* leave their right operand alone once the left decides                   *)
(* (tests/runtime-tests/13-shortcircuit), all else evaluates both.  An     *)
(* operator on what is not an int has no value.                            *)
Trap == <<>>

IntValues == {<<x>> : x \in Int_}
ValueOfUnop(op, v) == IF v \in IntValues THEN <<ApplyUnop(op, v[1])>> ELSE Trap
ValueOfBinop(op, v, w) ==
  IF v \notin IntValues THEN Trap
  ELSE IF op = "And" /\ v[1] = 0 THEN <<0>>
  ELSE IF op = "Or" /\ v[1] # 0 THEN <<1>>
  ELSE IF w \notin IntValues \/ Traps(op, v[1], w[1]) THEN Trap
  ELSE <<ApplyBinop(op, v[1], w[1])>>

(* The meaning of an expression: its value in each environment.            *)
Always(x) == [env \in Env |-> <<x>>]
Worth(n) == [env \in Env |-> <<env[n]>>]
UnopMeaning(op, v) == [env \in Env |-> ValueOfUnop(op, v[env])]
BinopMeaning(op, v, w) == [env \in Env |-> ValueOfBinop(op, v[env], w[env])]

LeafMeaning(e) ==
  CASE e.kind = "IntExp"    -> Always(e.ival)
    [] e.kind = "StringExp" -> Always(e.sval)
    [] e.kind \in {"VarExp", "CallExp"} -> Worth(e.name)

Value[e \in Exp] ==
  CASE e.kind = "BinopExp" -> BinopMeaning(e.op, Value[e.lhs], Value[e.rhs])
    [] e.kind = "UnopExp"  -> UnopMeaning(e.op, Value[e.e])
    [] OTHER               -> LeafMeaning(e)

(* Does folding have anything left to do outside of call arguments?        *)
IsInt(e) == e.kind = "IntExp"
Foldable[e \in Exp] ==
  CASE e.kind = "BinopExp" -> Foldable[e.lhs] \/ Foldable[e.rhs] \/ (IsInt(e.lhs) /\ IsInt(e.rhs))
    [] e.kind = "UnopExp"  -> Foldable[e.e] \/ IsInt(e.e)
    [] OTHER               -> FALSE

(* However often main() folds, the tree stays one of the language: no      *)
(* constant leaves the width of int.                                       *)
TypeOK ==
  /\ exp \in Exp /\ original \in Exp
  /\ folded \in BOOLEAN
  /\ status \in {"ok", "SIGFPE", "exit"}

(* Folding changes no value: whatever variables and calls are worth, the   *)
(* folded expression gives what the parsed one gives, wrapped to the same  *)
(* width and trapping in the same cases.                                   *)
ValuePreserved ==
  status = "ok" => Value[exp] = Value[original]

(* One pass folds all there is to fold, however operators are nested: the  *)
(* loop in main() runs a second pass over expressions only to find that    *)
(* out.                                                                    *)
OnePassFolds ==
  [][status' = "ok" => ~ Foldable[exp']]_foldv

(* fold_exp returns true just when it changed the tree.  A true too many   *)
(* keeps main() looping, a true too few stops dce from seeing new          *)
(* constants.                                                              *)
ReportsChange ==
  [][status' = "ok" => (folded' <=> exp' # exp)]_foldv

(* The loop ends.                                                          *)
FoldingEnds == <>(status # "ok" \/ ~ folded)

(* transform_ast.cpp:5: "Returns true if folding was performed, false if   *)
(* not."  It returns: no program kills the compiler or ends it with        *)
(* "Invalid operator".  tests/semantic-tests/04-complex-stmts-exprs/       *)
(* pass12.albatross expects that much of 0 % 0 (:3) and 0 / 0 (:12), in    *)
(* branches that do not run.                                               *)
FoldReturns == status \notin {"SIGFPE", "exit"}
=============================================================================
