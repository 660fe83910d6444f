----------------------------- MODULE FoldProofs -----------------------------
(***************************************************************************)
(* What fold_exp does to expressions of any size, for any width of int.    *)
(***************************************************************************)
EXTENDS Fold, Induction

(* E is a set of finite expression trees with every node over it: what is  *)
(* said of all such sets is said of all expressions.                       *)
Children(e) ==
  CASE e.kind = "BinopExp" -> {e.lhs, e.rhs}
    [] e.kind = "UnopExp"  -> {e.e}
    [] e.kind = "CallExp"  -> {e.args[i] : i \in 1 .. Len(e.args)}
    [] OTHER               -> {}

Falls(E, rank) == rank \in [E -> Nat] /\ \A e \in E : \A c \in Children(e) : rank[c] < rank[e]

IsAst(E) == E = Nodes(E) /\ \E rank : Falls(E, rank)

Binops == [kind : {"BinopExp"}, op : BinOps, lhs : Exp, rhs : Exp]
Unops  == [kind : {"UnopExp"}, op : UnOps, e : Exp]
Leaf(e) == e.kind \notin {"BinopExp", "UnopExp"}

LEMMA Shapes ==
  ASSUME IsAst(Exp)
  PROVE  /\ Binops \subseteq Exp /\ Unops \subseteq Exp
         /\ \A v \in Int_ : IntNode(v) \in Exp
         /\ \A e \in Exp : /\ e.kind = "BinopExp" => e \in Binops
                           /\ e.kind = "UnopExp" => e \in Unops
                           /\ e.kind = "IntExp" => e.ival \in Int_ /\ e = IntNode(e.ival)
<1>1. Exp = Nodes(Exp)
  BY DEF IsAst
<1>2. Binops \subseteq Exp /\ Unops \subseteq Exp
  BY <1>1 DEF Nodes, Binops, Unops
<1>3. \A v \in Int_ : IntNode(v) \in Exp
  BY <1>1 DEF Nodes, IntNode
<1>4. ASSUME NEW e \in Exp
      PROVE  /\ e.kind = "BinopExp" => e \in Binops
             /\ e.kind = "UnopExp" => e \in Unops
             /\ e.kind = "IntExp" => e.ival \in Int_ /\ e = IntNode(e.ival)
  <2>1. e \in Nodes(Exp)
    BY <1>1
  <2>2. QED
    BY <2>1 DEF Nodes, Binops, Unops, IntNode
<1>5. QED
  BY <1>2, <1>3, <1>4

(* What holds of an expression whenever it holds of its operands holds of  *)
(* every expression.                                                       *)
LEMMA ExpInduction ==
  ASSUME IsAst(Exp), NEW A,
         \A e \in Exp : Leaf(e) => e \in A,
         \A e \in Unops : e.e \in A => e \in A,
         \A e \in Binops : e.lhs \in A /\ e.rhs \in A => e \in A
  PROVE  \A e \in Exp : e \in A
<1>1. PICK rank \in [Exp -> Nat] : \A e \in Exp : \A c \in Children(e) : rank[c] < rank[e]
  BY DEF IsAst, Falls
<1>2. ASSUME NEW e \in Exp, \A y \in Exp : rank[y] < rank[e] => y \in A PROVE e \in A
  <2>1. CASE Leaf(e)
    BY <2>1
  <2>2. CASE e.kind = "UnopExp"
    <3>1. e \in Unops /\ e.e \in Exp
      BY <2>2, Shapes DEF Unops
    <3>2. e.e \in Children(e)
      BY <2>2 DEF Children
    <3>3. QED
      BY <1>1, <1>2, <3>1, <3>2
  <2>3. CASE e.kind = "BinopExp"
    <3>1. e \in Binops /\ e.lhs \in Exp /\ e.rhs \in Exp
      BY <2>3, Shapes DEF Binops
    <3>2. e.lhs \in Children(e) /\ e.rhs \in Children(e)
      BY <2>3 DEF Children
    <3>3. QED
      BY <1>1, <1>2, <3>1, <3>2
  <2>4. QED
    BY <2>1, <2>2, <2>3 DEF Leaf
<1>3. Exp \subseteq A
  BY <1>1, <1>2, RankInduction
<1>4. QED
  BY <1>3

(* A definition by operands is looked at only below: the condition of      *)
(* RankRecursion.                                                          *)
LEMMA LooksBelow ==
  ASSUME IsAst(Exp), NEW rank \in [Exp -> Nat], Falls(Exp, rank), NEW V, NEW step,
         \A e \in Exp : \A f, g \in [Exp -> V] :
           /\ e \in Unops => f[e.e] = g[e.e]
           /\ e \in Binops => f[e.lhs] = g[e.lhs] /\ f[e.rhs] = g[e.rhs]
           => step[e][f] = step[e][g]
  PROVE  Looks(Exp, rank, V, step)
<1> SUFFICES ASSUME NEW e \in Exp, NEW f \in [Exp -> V], NEW g \in [Exp -> V],
                    \A y \in Exp : rank[y] < rank[e] => f[y] = g[y]
             PROVE  step[e][f] = step[e][g]
  BY DEF Looks
<1>1. ASSUME e \in Unops PROVE f[e.e] = g[e.e]
  <2>1. e.e \in Exp /\ e.e \in Children(e)
    BY <1>1 DEF Unops, Children
  <2>2. QED
    BY <2>1 DEF Falls
<1>2. ASSUME e \in Binops PROVE f[e.lhs] = g[e.lhs] /\ f[e.rhs] = g[e.rhs]
  <2>1. e.lhs \in Exp /\ e.rhs \in Exp /\ e.lhs \in Children(e) /\ e.rhs \in Children(e)
    BY <1>2 DEF Binops, Children
  <2>2. QED
    BY <2>1 DEF Falls
<1>3. QED
  BY <1>1, <1>2

-----------------------------------------------------------------------------
(* Folding stays within the width of int.                                  *)

LEMMA BoolInt ==
  ASSUME NEW b
  PROVE  Bool(b) \in Int_
  BY MinIntAssumption DEF Bool, Int_

LEMMA WrapInt ==
  ASSUME NEW x \in Int
  PROVE  Wrap(x) \in Int_
<1> DEFINE span == -2 * MinInt
           r    == (x - MinInt) % span
<1>1. span \in Nat /\ span > 0 /\ x - MinInt \in Int
  BY MinIntAssumption
<1> HIDE DEF span
<1>2. r \in 0 .. span - 1
  BY <1>1
<1> HIDE DEF r
<1>3. r + MinInt \in Int_
  BY <1>2, MinIntAssumption DEF Int_, span
<1>4. QED
  BY <1>3 DEF Wrap, r, span

(* A quotient is no further from zero than the dividend, and a remainder   *)
(* nearer than the divisor.                                                *)
LEMMA QuotientBound ==
  ASSUME NEW a \in Nat, NEW b \in Nat, b > 0
  PROVE  /\ a \div b \in 0 .. a /\ a % b \in 0 .. b - 1
         /\ b > 1 /\ a > 0 => a \div b < a
<1> DEFINE q == a \div b
           r == a % b
<1>1. q \in Int /\ r \in 0 .. b - 1 /\ a = b * q + r
  OBVIOUS
<1> HIDE DEF q, r
<1>2. q >= 0
  <2>1. ASSUME q <= -1 PROVE FALSE
    <3>1. b * q <= b * (-1)
      BY <1>1, <2>1
    <3>2. QED
      BY <1>1, <3>1
  <2>2. QED
    BY <1>1, <2>1
<1>3. b * q >= q
  BY <1>1, <1>2
<1>4. b > 1 => b * q >= 2 * q
  BY <1>1, <1>2
<1>5. q <= a /\ (b > 1 /\ a > 0 => q < a)
  BY <1>1, <1>2, <1>3, <1>4
<1>6. QED
  BY <1>1, <1>2, <1>5 DEF q, r

LEMMA DivisionInt ==
  ASSUME NEW op \in {"Div", "Rem"}, NEW x \in Int_, NEW y \in Int_, ~ Traps(op, x, y)
  PROVE  TruncDiv(x, y) \in Int_ /\ TruncRem(x, y) \in Int_
<1>1. /\ x \in Int /\ MinInt <= x /\ x <= -(MinInt + 1)
      /\ y \in Int /\ MinInt <= y /\ y <= -(MinInt + 1) /\ y # 0
      /\ ~ (x = MinInt /\ y = -1) /\ MinInt \in Int /\ MinInt < -1
  BY MinIntAssumption DEF Int_, Traps
<1>2. Abs(x) \in Nat /\ Abs(y) \in Nat /\ Abs(y) > 0
  BY <1>1 DEF Abs
<1> DEFINE q == Abs(x) \div Abs(y)
           r == Abs(x) % Abs(y)
<1>3. /\ q \in 0 .. Abs(x) /\ r \in 0 .. Abs(y) - 1
      /\ Abs(y) > 1 /\ Abs(x) > 0 => q < Abs(x)
  BY <1>2, QuotientBound
<1> HIDE DEF q, r
<1>4. (IF (x < 0) = (y < 0) THEN q ELSE -q) \in Int_
  <2>1. CASE x = MinInt /\ y = 1
    BY <1>1, <1>3, <2>1 DEF Abs, Int_
  <2>2. CASE x = MinInt /\ y # 1
    BY <1>1, <1>3, <2>2 DEF Abs, Int_
  <2>3. CASE x # MinInt
    BY <1>1, <1>3, <2>3 DEF Abs, Int_
  <2>4. QED
    BY <2>1, <2>2, <2>3
<1>5. (IF x < 0 THEN -r ELSE r) \in Int_
  BY <1>1, <1>3 DEF Abs, Int_
<1>6. QED
  BY <1>4, <1>5 DEF TruncDiv, TruncRem, q, r

LEMMA BinopInt ==
  ASSUME NEW op \in BinOps, NEW x \in Int_, NEW y \in Int_, ~ Traps(op, x, y)
  PROVE  ApplyBinop(op, x, y) \in Int_
<1>1. x \in Int /\ y \in Int
  BY MinIntAssumption DEF Int_
<1>2. CASE op \in {"Bor", "Xor", "Band"}
  BY <1>2, BitOpAssumption DEF ApplyBinop
<1>3. CASE op \in {"Add", "Sub", "Mul"}
  <2>1. Wrap(x + y) \in Int_ /\ Wrap(x - y) \in Int_ /\ Wrap(x * y) \in Int_
    BY <1>1, WrapInt
  <2>2. QED
    BY <1>3, <2>1 DEF ApplyBinop
<1>4. CASE op \in {"Div", "Rem"}
  BY <1>4, DivisionInt DEF ApplyBinop
<1>5. CASE op \in {"Or", "And", "Ne", "Eq", "Gt", "Ge", "Lt", "Le"}
  BY <1>5, BoolInt DEF ApplyBinop
<1>6. QED
  BY <1>2, <1>3, <1>4, <1>5 DEF BinOps

LEMMA UnopInt ==
  ASSUME NEW op, NEW x \in Int_
  PROVE  ApplyUnop(op, x) \in Int_
<1>1. x \in Int /\ -x \in Int
  BY MinIntAssumption DEF Int_
<1>2. QED
  BY <1>1, WrapInt, BoolInt DEF ApplyUnop

-----------------------------------------------------------------------------
(* fold_exp is defined for every expression and stays among expressions.   *)

Results == [exp : Exp, folded : BOOLEAN, status : {"ok", "SIGFPE", "exit"}]

FoldAt(e, fold) ==
  CASE e.kind = "BinopExp" -> FoldBinop(e, fold[e.lhs], fold[e.rhs])
    [] e.kind = "UnopExp"  -> FoldUnop(e, fold[e.e])
    [] OTHER               -> Result(e, FALSE, "ok")

LEMMA FoldAtCases ==
  ASSUME NEW fold
  PROVE  /\ \A e \in Binops : FoldAt(e, fold) = FoldBinop(e, fold[e.lhs], fold[e.rhs])
         /\ \A e \in Unops : FoldAt(e, fold) = FoldUnop(e, fold[e.e])
         /\ \A e : Leaf(e) => FoldAt(e, fold) = Result(e, FALSE, "ok")
<1>1. ASSUME NEW e \in Binops PROVE FoldAt(e, fold) = FoldBinop(e, fold[e.lhs], fold[e.rhs])
  <2>1. e.kind = "BinopExp"
    BY DEF Binops
  <2>2. QED
    BY <2>1, Zenon DEF FoldAt
<1>2. ASSUME NEW e \in Unops PROVE FoldAt(e, fold) = FoldUnop(e, fold[e.e])
  <2>1. e.kind = "UnopExp" /\ e.kind # "BinopExp"
    BY DEF Unops
  <2>2. QED
    BY <2>1, Zenon DEF FoldAt
<1>3. ASSUME NEW e, Leaf(e) PROVE FoldAt(e, fold) = Result(e, FALSE, "ok")
  <2>1. e.kind # "BinopExp" /\ e.kind # "UnopExp"
    BY <1>3 DEF Leaf
  <2>2. QED
    BY <2>1, Zenon DEF FoldAt
<1>4. QED
  BY <1>1, <1>2, <1>3

LEMMA FoldBinopType ==
  ASSUME IsAst(Exp), NEW e \in Binops, NEW l \in Results, NEW r \in Results
  PROVE  FoldBinop(e, l, r) \in Results
<1> DEFINE node == Over(e, l.exp, r.exp)
<1>1. /\ e \in Exp /\ e.op \in BinOps /\ l.exp \in Exp /\ r.exp \in Exp
      /\ l.status \in {"ok", "SIGFPE", "exit"} /\ r.status \in {"ok", "SIGFPE", "exit"}
      /\ l.folded \in BOOLEAN /\ r.folded \in BOOLEAN
  BY Shapes DEF Binops, Results
<1>2. node \in Exp
  <2>1. node \in Binops
    BY <1>1 DEF Binops, Over
  <2>2. QED
    BY <2>1, Shapes
<1>3. ASSUME l.exp.kind = "IntExp", r.exp.kind = "IntExp", ~ Traps(e.op, l.exp.ival, r.exp.ival)
      PROVE  IntNode(ApplyBinop(e.op, l.exp.ival, r.exp.ival)) \in Exp
  <2>1. l.exp.ival \in Int_ /\ r.exp.ival \in Int_
    BY <1>1, <1>3, Shapes
  <2>2. ApplyBinop(e.op, l.exp.ival, r.exp.ival) \in Int_
    BY <1>1, <1>3, <2>1, BinopInt
  <2>3. QED
    BY <2>2, Shapes
<1> HIDE DEF node
<1>4. QED
  BY <1>1, <1>2, <1>3 DEF FoldBinop, FoldOperands, Result, Results, node

LEMMA FoldUnopType ==
  ASSUME IsAst(Exp), NEW e \in Unops, NEW x \in Results
  PROVE  FoldUnop(e, x) \in Results
<1> DEFINE node == [e EXCEPT !.e = x.exp]
<1>1. /\ e \in Exp /\ e.op \in UnOps /\ x.exp \in Exp /\ x.folded \in BOOLEAN
      /\ x.status \in {"ok", "SIGFPE", "exit"}
  BY Shapes DEF Unops, Results
<1>2. node \in Exp
  <2>1. node \in Unops
    BY <1>1 DEF Unops
  <2>2. QED
    BY <2>1, Shapes
<1>3. ASSUME x.exp.kind = "IntExp" PROVE IntNode(ApplyUnop(e.op, x.exp.ival)) \in Exp
  <2>1. x.exp.ival \in Int_
    BY <1>1, <1>3, Shapes
  <2>2. ApplyUnop(e.op, x.exp.ival) \in Int_
    BY <2>1, UnopInt
  <2>3. QED
    BY <2>2, Shapes
<1> HIDE DEF node
<1>4. QED
  BY <1>1, <1>2, <1>3 DEF FoldUnop, Result, Results, node

LEMMA FoldAtType ==
  ASSUME IsAst(Exp), NEW e \in Exp, NEW fold,
         e \in Unops => fold[e.e] \in Results,
         e \in Binops => fold[e.lhs] \in Results /\ fold[e.rhs] \in Results
  PROVE  FoldAt(e, fold) \in Results
<1>1. CASE Leaf(e)
  <2>1. Result(e, FALSE, "ok") \in Results
    BY DEF Result, Results
  <2>2. QED
    BY <1>1, <2>1, FoldAtCases
<1>2. CASE e \in Unops
  BY <1>2, FoldUnopType, FoldAtCases
<1>3. CASE e \in Binops
  BY <1>3, FoldBinopType, FoldAtCases
<1>4. QED
  BY <1>1, <1>2, <1>3, Shapes DEF Leaf

LEMMA FoldExpDef ==
  ASSUME IsAst(Exp)
  PROVE  FoldExp = [e \in Exp |-> FoldAt(e, FoldExp)]
<1> DEFINE step == [e \in Exp |-> [f \in [Exp -> Results] |-> FoldAt(e, f)]]
<1>1. PICK rank \in [Exp -> Nat] : Falls(Exp, rank)
  BY DEF IsAst, Falls
<1>2. ASSUME NEW e \in Exp, NEW f \in [Exp -> Results] PROVE FoldAt(e, f) \in Results
  <2>1. e \in Unops => e.e \in Exp
    BY DEF Unops
  <2>2. e \in Binops => e.lhs \in Exp /\ e.rhs \in Exp
    BY DEF Binops
  <2>3. QED
    BY <2>1, <2>2, FoldAtType
<1>3. step \in [Exp -> [[Exp -> Results] -> Results]]
  BY <1>2
<1>4. ASSUME NEW e \in Exp, NEW f \in [Exp -> Results], NEW g \in [Exp -> Results],
             e \in Unops => f[e.e] = g[e.e],
             e \in Binops => f[e.lhs] = g[e.lhs] /\ f[e.rhs] = g[e.rhs]
      PROVE  step[e][f] = step[e][g]
  <2>1. FoldAt(e, f) = FoldAt(e, g)
    <3>1. CASE Leaf(e)
      BY <3>1, FoldAtCases
    <3>2. CASE e \in Unops
      BY <1>4, <3>2, FoldAtCases
    <3>3. CASE e \in Binops
      BY <1>4, <3>3, FoldAtCases
    <3>4. QED
      BY <3>1, <3>2, <3>3, Shapes DEF Leaf
  <2>2. QED
    BY <2>1
<1>5. \A e \in Exp : \A f \in [Exp -> Results] : step[e][f] = FoldAt(e, f)
  OBVIOUS
<1>6. Results # {}
  <2>1. PICK e : e \in Exp
    BY Shapes, MinIntAssumption DEF Int_
  <2>2. Result(e, FALSE, "ok") \in Results
    BY <2>1 DEF Result, Results
  <2>3. QED
    BY <2>2
<1> HIDE DEF step
<1>7. Looks(Exp, rank, Results, step)
  BY <1>1, <1>4, LooksBelow
<1>8. PICK h \in [Exp -> Results] : Defines(h, Exp, step)
  BY <1>1, <1>3, <1>6, <1>7, RankRecursion
<1>9. h = [e \in Exp |-> FoldAt(e, h)]
  BY <1>5, <1>8 DEF Defines
<1>10. QED
  BY <1>9, Zenon DEF FoldExp, FoldAt

LEMMA FoldExpType ==
  ASSUME IsAst(Exp)
  PROVE  FoldExp \in [Exp -> Results]
<1> DEFINE A == {e \in Exp : FoldExp[e] \in Results}
<1>1. FoldExp = [e \in Exp |-> FoldAt(e, FoldExp)]
  BY FoldExpDef
<1>2. ASSUME NEW e \in Exp, e \in Unops => e.e \in A, e \in Binops => e.lhs \in A /\ e.rhs \in A
      PROVE  e \in A
  <2>1. FoldAt(e, FoldExp) \in Results
    BY <1>2, FoldAtType
  <2>2. QED
    BY <1>1, <2>1
<1>3. \A e \in Exp : Leaf(e) => e \notin Unops /\ e \notin Binops
  BY DEF Leaf, Unops, Binops
<1>4. \A e \in Unops : e \in Exp /\ e \notin Binops
  BY Shapes DEF Unops, Binops
<1>5. \A e \in Binops : e \in Exp /\ e \notin Unops
  BY Shapes DEF Unops, Binops
<1> HIDE DEF A
<1>6. \A e \in Exp : e \in A
  BY <1>2, <1>3, <1>4, <1>5, ExpInduction
<1>7. QED
  BY <1>1, <1>6 DEF A

-----------------------------------------------------------------------------
(* fold_exp at each kind of expression.                                    *)
LEMMA FoldExpCases ==
  ASSUME IsAst(Exp)
  PROVE  /\ \A e \in Binops : FoldExp[e] = FoldBinop(e, FoldExp[e.lhs], FoldExp[e.rhs])
         /\ \A e \in Unops : FoldExp[e] = FoldUnop(e, FoldExp[e.e])
         /\ \A e \in Exp : Leaf(e) => FoldExp[e] = Result(e, FALSE, "ok")
         /\ \A e \in Exp : FoldExp[e] \in Results
<1>1. \A e \in Exp : FoldExp[e] = FoldAt(e, FoldExp)
  BY FoldExpDef
<1>2. Binops \subseteq Exp /\ Unops \subseteq Exp
  BY Shapes
<1>3. QED
  BY <1>1, <1>2, FoldAtCases, FoldExpType

(* A node whose operands are expressions that folded, with what they       *)
(* folded to.                                                              *)
LEMMA Operands ==
  ASSUME IsAst(Exp)
  PROVE  /\ \A e \in Binops : /\ e \in Exp /\ e.kind = "BinopExp" /\ e.lhs \in Exp /\ e.rhs \in Exp
                              /\ e.op \in BinOps
                              /\ FoldExp[e.lhs] \in Results /\ FoldExp[e.rhs] \in Results
         /\ \A e \in Unops : /\ e \in Exp /\ e.kind = "UnopExp" /\ e.e \in Exp /\ e.op \in UnOps
                             /\ FoldExp[e.e] \in Results
<1>1. Binops \subseteq Exp /\ Unops \subseteq Exp
  BY Shapes
<1>2. QED
  BY <1>1, FoldExpType DEF Binops, Unops

LEMMA NewUnop ==
  ASSUME NEW e \in Unops, NEW x \in Exp
  PROVE  LET node == [e EXCEPT !.e = x]
         IN  node \in Unops /\ node.op = e.op /\ node.e = x /\ (node = e <=> x = e.e)
  BY DEF Unops

LEMMA NewBinop ==
  ASSUME NEW e \in Binops, NEW l \in Exp, NEW r \in Exp
  PROVE  LET node == Over(e, l, r)
         IN  node \in Binops /\ node.op = e.op /\ node.lhs = l /\ node.rhs = r
               /\ (node = e <=> l = e.lhs /\ r = e.rhs)
  BY DEF Binops, Over

(* What the results of folding can be where nothing trapped: the node over *)
(* its folded operands, not all of them constants, or the constant.        *)
LEMMA BinopFolds ==
  ASSUME IsAst(Exp), NEW e \in Binops, FoldExp[e].status = "ok"
  PROVE  LET l == FoldExp[e.lhs]
             r == FoldExp[e.rhs]
         IN  /\ l.status = "ok" /\ r.status = "ok" /\ l.exp \in Exp /\ r.exp \in Exp
             /\ \/ /\ ~ (IsInt(l.exp) /\ IsInt(r.exp))
                   /\ FoldExp[e] = Result(Over(e, l.exp, r.exp), l.folded \/ r.folded, "ok")
                \/ /\ l.exp \in {IntNode(v) : v \in Int_} /\ r.exp \in {IntNode(v) : v \in Int_}
                   /\ ~ Traps(e.op, l.exp.ival, r.exp.ival)
                   /\ FoldExp[e] = Result(IntNode(ApplyBinop(e.op, l.exp.ival, r.exp.ival)), TRUE, "ok")
<1> DEFINE l == FoldExp[e.lhs]
           r == FoldExp[e.rhs]
<1>1. FoldExp[e] = FoldBinop(e, l, r)
  BY FoldExpCases
<1>2. l \in Results /\ r \in Results
  BY Operands
<1> HIDE DEF l, r
<1>3. l.exp \in Exp /\ r.exp \in Exp
  BY <1>2 DEF Results
<1>4. l.status = "ok" /\ r.status = "ok"
  BY <1>1, <1>2 DEF FoldBinop, FoldOperands, Result
<1>5. CASE ~ (IsInt(l.exp) /\ IsInt(r.exp))
  BY <1>1, <1>3, <1>4, <1>5 DEF FoldBinop, FoldOperands, IsInt, l, r
<1>6. CASE IsInt(l.exp) /\ IsInt(r.exp)
  <2>1. l.exp \in {IntNode(v) : v \in Int_} /\ r.exp \in {IntNode(v) : v \in Int_}
    BY <1>3, <1>6, Shapes DEF IsInt
  <2>2. ~ Traps(e.op, l.exp.ival, r.exp.ival)
    BY <1>1, <1>4, <1>6 DEF FoldBinop, FoldOperands, Result, IsInt
  <2>3. FoldExp[e] = Result(IntNode(ApplyBinop(e.op, l.exp.ival, r.exp.ival)), TRUE, "ok")
    BY <1>1, <1>4, <1>6, <2>2 DEF FoldBinop, FoldOperands, IsInt
  <2>4. QED
    BY <1>3, <1>4, <2>1, <2>2, <2>3 DEF l, r
<1>7. QED
  BY <1>5, <1>6

LEMMA UnopFolds ==
  ASSUME IsAst(Exp), NEW e \in Unops, FoldExp[e].status = "ok"
  PROVE  LET x == FoldExp[e.e]
         IN  /\ x.status = "ok" /\ x.exp \in Exp
             /\ \/ ~ IsInt(x.exp) /\ FoldExp[e] = Result([e EXCEPT !.e = x.exp], x.folded, "ok")
                \/ /\ x.exp \in {IntNode(v) : v \in Int_}
                   /\ FoldExp[e] = Result(IntNode(ApplyUnop(e.op, x.exp.ival)), TRUE, "ok")
<1> DEFINE x == FoldExp[e.e]
<1>1. FoldExp[e] = FoldUnop(e, x)
  BY FoldExpCases
<1>2. x \in Results
  BY Operands
<1> HIDE DEF x
<1>3. x.exp \in Exp
  BY <1>2 DEF Results
<1>4. x.status = "ok"
  BY <1>1, <1>2 DEF FoldUnop, Result
<1>5. CASE ~ IsInt(x.exp)
  BY <1>1, <1>3, <1>4, <1>5 DEF FoldUnop, IsInt, x
<1>6. CASE IsInt(x.exp)
  <2>1. x.exp \in {IntNode(v) : v \in Int_}
    BY <1>3, <1>6, Shapes DEF IsInt
  <2>2. FoldExp[e] = Result(IntNode(ApplyUnop(e.op, x.exp.ival)), TRUE, "ok")
    BY <1>1, <1>4, <1>6 DEF FoldUnop, Result, IsInt
  <2>3. QED
    BY <1>3, <1>4, <2>1, <2>2 DEF x
<1>7. QED
  BY <1>5, <1>6

-----------------------------------------------------------------------------
(* The same for Foldable and Value.                                        *)

FoldableAt(e, foldable) ==
  CASE e.kind = "BinopExp" -> foldable[e.lhs] \/ foldable[e.rhs] \/ (IsInt(e.lhs) /\ IsInt(e.rhs))
    [] e.kind = "UnopExp"  -> foldable[e.e] \/ IsInt(e.e)
    [] OTHER               -> FALSE

LEMMA FoldableAtCases ==
  ASSUME NEW f
  PROVE  /\ \A e \in Binops : FoldableAt(e, f) = (f[e.lhs] \/ f[e.rhs] \/ (IsInt(e.lhs) /\ IsInt(e.rhs)))
         /\ \A e \in Unops : FoldableAt(e, f) = (f[e.e] \/ IsInt(e.e))
         /\ \A e : Leaf(e) => FoldableAt(e, f) = FALSE
<1>1. ASSUME NEW e \in Binops
      PROVE  FoldableAt(e, f) = (f[e.lhs] \/ f[e.rhs] \/ (IsInt(e.lhs) /\ IsInt(e.rhs)))
  <2>1. e.kind = "BinopExp"
    BY DEF Binops
  <2>2. QED
    BY <2>1, Zenon DEF FoldableAt
<1>2. ASSUME NEW e \in Unops PROVE FoldableAt(e, f) = (f[e.e] \/ IsInt(e.e))
  <2>1. e.kind = "UnopExp" /\ e.kind # "BinopExp"
    BY DEF Unops
  <2>2. QED
    BY <2>1, Zenon DEF FoldableAt
<1>3. ASSUME NEW e, Leaf(e) PROVE FoldableAt(e, f) = FALSE
  <2>1. e.kind # "BinopExp" /\ e.kind # "UnopExp"
    BY <1>3 DEF Leaf
  <2>2. QED
    BY <2>1, Zenon DEF FoldableAt
<1>4. QED
  BY <1>1, <1>2, <1>3

LEMMA FoldableDef ==
  ASSUME IsAst(Exp)
  PROVE  Foldable = [e \in Exp |-> FoldableAt(e, Foldable)]
<1> DEFINE step == [e \in Exp |-> [f \in [Exp -> BOOLEAN] |-> FoldableAt(e, f)]]
<1>1. PICK rank \in [Exp -> Nat] : Falls(Exp, rank)
  BY DEF IsAst, Falls
<1>2. ASSUME NEW e \in Exp, NEW f PROVE FoldableAt(e, f) \in BOOLEAN
  <2>1. CASE Leaf(e)
    BY <2>1, FoldableAtCases
  <2>2. CASE e \in Unops
    BY <2>2, FoldableAtCases
  <2>3. CASE e \in Binops
    BY <2>3, FoldableAtCases
  <2>4. QED
    BY <2>1, <2>2, <2>3, Shapes DEF Leaf
<1>3. step \in [Exp -> [[Exp -> BOOLEAN] -> BOOLEAN]]
  BY <1>2
<1>4. ASSUME NEW e \in Exp, NEW f \in [Exp -> BOOLEAN], NEW g \in [Exp -> BOOLEAN],
             e \in Unops => f[e.e] = g[e.e],
             e \in Binops => f[e.lhs] = g[e.lhs] /\ f[e.rhs] = g[e.rhs]
      PROVE  step[e][f] = step[e][g]
  <2>1. FoldableAt(e, f) = FoldableAt(e, g)
    <3>1. CASE Leaf(e)
      BY <3>1, FoldableAtCases
    <3>2. CASE e \in Unops
      BY <1>4, <3>2, FoldableAtCases
    <3>3. CASE e \in Binops
      BY <1>4, <3>3, FoldableAtCases
    <3>4. QED
      BY <3>1, <3>2, <3>3, Shapes DEF Leaf
  <2>2. QED
    BY <2>1
<1>5. \A e \in Exp : \A f \in [Exp -> BOOLEAN] : step[e][f] = FoldableAt(e, f)
  OBVIOUS
<1> HIDE DEF step
<1>6. Looks(Exp, rank, BOOLEAN, step)
  BY <1>1, <1>4, LooksBelow
<1>7. PICK h \in [Exp -> BOOLEAN] : Defines(h, Exp, step)
  BY <1>1, <1>3, <1>6, RankRecursion
<1>8. h = [e \in Exp |-> FoldableAt(e, h)]
  BY <1>5, <1>7 DEF Defines
<1>9. QED
  BY <1>8, Zenon DEF Foldable, FoldableAt

LEMMA FoldableCases ==
  ASSUME IsAst(Exp)
  PROVE  /\ \A e \in Binops : Foldable[e] = (Foldable[e.lhs] \/ Foldable[e.rhs] \/ (IsInt(e.lhs) /\ IsInt(e.rhs)))
         /\ \A e \in Unops : Foldable[e] = (Foldable[e.e] \/ IsInt(e.e))
         /\ \A e \in Exp : Leaf(e) => Foldable[e] = FALSE
<1>1. \A e \in Exp : Foldable[e] = FoldableAt(e, Foldable)
  BY FoldableDef
<1>2. Binops \subseteq Exp /\ Unops \subseteq Exp
  BY Shapes
<1>3. QED
  BY <1>1, <1>2, FoldableAtCases

Values == IntValues \union {Trap} \union {<<x>> : x \in Strings} \union {<<env[n]>> : env \in Env, n \in Names}
Meanings == [Env -> Values]

ValueAt(e, value) ==
  CASE e.kind = "BinopExp" -> BinopMeaning(e.op, value[e.lhs], value[e.rhs])
    [] e.kind = "UnopExp"  -> UnopMeaning(e.op, value[e.e])
    [] OTHER               -> LeafMeaning(e)

LEMMA ValueAtCases ==
  ASSUME NEW f
  PROVE  /\ \A e \in Binops : ValueAt(e, f) = BinopMeaning(e.op, f[e.lhs], f[e.rhs])
         /\ \A e \in Unops : ValueAt(e, f) = UnopMeaning(e.op, f[e.e])
         /\ \A e : Leaf(e) => ValueAt(e, f) = LeafMeaning(e)
<1>1. ASSUME NEW e \in Binops
      PROVE  ValueAt(e, f) = BinopMeaning(e.op, f[e.lhs], f[e.rhs])
  <2>1. e.kind = "BinopExp"
    BY DEF Binops
  <2>2. QED
    BY <2>1, Zenon DEF ValueAt
<1>2. ASSUME NEW e \in Unops
      PROVE  ValueAt(e, f) = UnopMeaning(e.op, f[e.e])
  <2>1. e.kind = "UnopExp" /\ e.kind # "BinopExp"
    BY DEF Unops
  <2>2. QED
    BY <2>1, Zenon DEF ValueAt
<1>3. ASSUME NEW e, Leaf(e) PROVE ValueAt(e, f) = LeafMeaning(e)
  <2>1. e.kind # "BinopExp" /\ e.kind # "UnopExp"
    BY <1>3 DEF Leaf
  <2>2. QED
    BY <2>1, Zenon DEF ValueAt
<1>4. QED
  BY <1>1, <1>2, <1>3

LEMMA ValueOfType ==
  ASSUME NEW v \in Values, NEW w \in Values
  PROVE  /\ \A op : ValueOfUnop(op, v) \in Values
         /\ \A op \in BinOps : ValueOfBinop(op, v, w) \in Values
<1>1. \A x \in Int_ : <<x>> \in Values
  BY DEF Values, IntValues
<1>2. Trap \in Values
  BY DEF Values
<1>3. \A op : ValueOfUnop(op, v) \in Values
  <2>1. ASSUME NEW op, v \in IntValues PROVE ApplyUnop(op, v[1]) \in Int_
    BY <2>1, UnopInt DEF IntValues
  <2>2. QED
    BY <1>1, <1>2, <2>1 DEF ValueOfUnop
<1>4. ASSUME NEW op \in BinOps PROVE ValueOfBinop(op, v, w) \in Values
  <2>1. <<0>> \in Values /\ <<1>> \in Values
    BY <1>1, MinIntAssumption DEF Int_
  <2>2. ASSUME v \in IntValues, w \in IntValues, ~ Traps(op, v[1], w[1])
        PROVE  ApplyBinop(op, v[1], w[1]) \in Int_
    BY <2>2, BinopInt DEF IntValues
  <2>3. QED
    BY <1>1, <1>2, <2>1, <2>2 DEF ValueOfBinop
<1>5. QED
  BY <1>3, <1>4

LEMMA MeaningTypes ==
  /\ \A v, w \in Meanings : \A op \in BinOps : BinopMeaning(op, v, w) \in Meanings
  /\ \A v \in Meanings : \A op : UnopMeaning(op, v) \in Meanings
  /\ \A x \in Int_ : Always(x) \in Meanings
  /\ \A x \in Strings : Always(x) \in Meanings
  /\ \A n \in Names : Worth(n) \in Meanings
<1>1. ASSUME NEW v \in Meanings, NEW w \in Meanings, NEW op \in BinOps
      PROVE  BinopMeaning(op, v, w) \in Meanings
  <2>1. \A env \in Env : v[env] \in Values /\ w[env] \in Values
    BY DEF Meanings
  <2>2. \A env \in Env : ValueOfBinop(op, v[env], w[env]) \in Values
    BY <2>1, ValueOfType
  <2>3. QED
    BY <2>2 DEF Meanings, BinopMeaning
<1>2. ASSUME NEW v \in Meanings, NEW op PROVE UnopMeaning(op, v) \in Meanings
  <2>1. \A env \in Env : v[env] \in Values
    BY DEF Meanings
  <2>2. \A env \in Env : ValueOfUnop(op, v[env]) \in Values
    BY <2>1, ValueOfType
  <2>3. QED
    BY <2>2 DEF Meanings, UnopMeaning
<1>3. \A x \in Int_ : Always(x) \in Meanings
  BY DEF Meanings, Values, IntValues, Always
<1>4. \A x \in Strings : Always(x) \in Meanings
  BY DEF Meanings, Values, Always
<1>5. \A n \in Names : Worth(n) \in Meanings
  BY DEF Meanings, Values, Worth
<1>6. QED
  BY <1>1, <1>2, <1>3, <1>4, <1>5

LEMMA LeafMeaningType ==
  ASSUME IsAst(Exp), NEW e \in Exp, Leaf(e)
  PROVE  LeafMeaning(e) \in Meanings
<1>1. e \in Nodes(Exp)
  BY DEF IsAst
<1>2. \/ e.kind = "IntExp" /\ e.ival \in Int_
      \/ e.kind = "StringExp" /\ e.sval \in Strings
      \/ e.kind \in {"VarExp", "CallExp"} /\ e.name \in Names
  BY <1>1 DEF Nodes, Leaf
<1>3. CASE e.kind = "IntExp" /\ e.ival \in Int_
  BY <1>3, MeaningTypes DEF LeafMeaning
<1>4. CASE e.kind = "StringExp" /\ e.sval \in Strings
  BY <1>4, MeaningTypes DEF LeafMeaning
<1>5. CASE e.kind \in {"VarExp", "CallExp"} /\ e.name \in Names
  BY <1>5, MeaningTypes DEF LeafMeaning
<1>6. QED
  BY <1>2, <1>3, <1>4, <1>5

LEMMA ValueAtType ==
  ASSUME IsAst(Exp), NEW e \in Exp, NEW f \in [Exp -> Meanings]
  PROVE  ValueAt(e, f) \in Meanings
<1>1. CASE e \in Binops
  <2>1. e.op \in BinOps /\ f[e.lhs] \in Meanings /\ f[e.rhs] \in Meanings
    BY <1>1 DEF Binops
  <2>2. QED
    BY <1>1, <2>1, ValueAtCases, MeaningTypes
<1>2. CASE e \in Unops
  <2>1. f[e.e] \in Meanings
    BY <1>2 DEF Unops
  <2>2. QED
    BY <1>2, <2>1, ValueAtCases, MeaningTypes
<1>3. CASE Leaf(e)
  BY <1>3, LeafMeaningType, ValueAtCases
<1>4. QED
  BY <1>1, <1>2, <1>3, Shapes DEF Leaf

LEMMA ValueAtBelow ==
  ASSUME IsAst(Exp), NEW e \in Exp, NEW f, NEW g,
         e \in Unops => f[e.e] = g[e.e],
         e \in Binops => f[e.lhs] = g[e.lhs] /\ f[e.rhs] = g[e.rhs]
  PROVE  ValueAt(e, f) = ValueAt(e, g)
<1>1. CASE e \in Binops
  BY <1>1, ValueAtCases
<1>2. CASE e \in Unops
  BY <1>2, ValueAtCases
<1>3. CASE Leaf(e)
  BY <1>3, ValueAtCases
<1>4. QED
  BY <1>1, <1>2, <1>3, Shapes DEF Leaf

LEMMA ValueDef ==
  ASSUME IsAst(Exp)
  PROVE  Value = [e \in Exp |-> ValueAt(e, Value)]
<1> DEFINE step == [e \in Exp |-> [f \in [Exp -> Meanings] |-> ValueAt(e, f)]]
<1>1. PICK rank \in [Exp -> Nat] : Falls(Exp, rank)
  BY DEF IsAst, Falls
<1>2. step \in [Exp -> [[Exp -> Meanings] -> Meanings]]
  BY ValueAtType
<1>3. ASSUME NEW e \in Exp, NEW f \in [Exp -> Meanings], NEW g \in [Exp -> Meanings],
             e \in Unops => f[e.e] = g[e.e],
             e \in Binops => f[e.lhs] = g[e.lhs] /\ f[e.rhs] = g[e.rhs]
      PROVE  step[e][f] = step[e][g]
  <2>1. ValueAt(e, f) = ValueAt(e, g)
    BY <1>3, ValueAtBelow
  <2>2. QED
    BY <2>1
<1>4. \A e \in Exp : \A f \in [Exp -> Meanings] : step[e][f] = ValueAt(e, f)
  OBVIOUS
<1>5. Meanings # {}
  <2>1. [env \in Env |-> Trap] \in Meanings
    BY DEF Meanings, Values
  <2>2. QED
    BY <2>1
<1> HIDE DEF step
<1>6. Looks(Exp, rank, Meanings, step)
  BY <1>1, <1>3, LooksBelow
<1>7. PICK h \in [Exp -> Meanings] : Defines(h, Exp, step)
  BY <1>1, <1>2, <1>5, <1>6, RankRecursion
<1>8. h = [e \in Exp |-> ValueAt(e, h)]
  BY <1>4, <1>7 DEF Defines
<1>9. QED
  BY <1>8, Zenon DEF Value, ValueAt

LEMMA ValueCases ==
  ASSUME IsAst(Exp)
  PROVE  /\ \A e \in Binops : Value[e] = BinopMeaning(e.op, Value[e.lhs], Value[e.rhs])
         /\ \A e \in Unops : Value[e] = UnopMeaning(e.op, Value[e.e])
         /\ \A x \in Int_ : Value[IntNode(x)] = Always(x)
<1>1. \A e \in Exp : Value[e] = ValueAt(e, Value)
  BY ValueDef
<1>2. Binops \subseteq Exp /\ Unops \subseteq Exp
  BY Shapes
<1>3. ASSUME NEW x \in Int_ PROVE Value[IntNode(x)] = Always(x)
  <2>1. IntNode(x) \in Exp /\ IntNode(x).kind = "IntExp" /\ IntNode(x).ival = x
    BY Shapes DEF IntNode
  <2>2. Leaf(IntNode(x))
    BY <2>1 DEF Leaf
  <2>3. Value[IntNode(x)] = LeafMeaning(IntNode(x))
    BY <1>1, <2>1, <2>2, ValueAtCases
  <2>4. LeafMeaning(IntNode(x)) = Always(x)
    BY <2>1 DEF LeafMeaning
  <2>5. QED
    BY <2>3, <2>4
<1>4. QED
  BY <1>1, <1>2, <1>3, ValueAtCases

-----------------------------------------------------------------------------
(* One call folds everything below its argument: what it leaves has no     *)
(* operator over constants outside the arguments of calls.                 *)
LEMMA LeavesNothing ==
  ASSUME IsAst(Exp)
  PROVE  \A e \in Exp : FoldExp[e].status = "ok" => ~ Foldable[FoldExp[e].exp]
<1> DEFINE A == {e \in Exp : FoldExp[e].status = "ok" => ~ Foldable[FoldExp[e].exp]}
<1>1. ASSUME NEW e \in Exp, Leaf(e) PROVE e \in A
  <2>1. FoldExp[e] = Result(e, FALSE, "ok")
    BY <1>1, FoldExpCases
  <2>2. Foldable[e] = FALSE
    BY <1>1, FoldableCases
  <2>3. QED
    BY <2>1, <2>2 DEF Result
<1>2. \A v \in Int_ : Foldable[IntNode(v)] = FALSE
  <2>1. ASSUME NEW v \in Int_ PROVE IntNode(v) \in Exp /\ Leaf(IntNode(v))
    BY Shapes DEF IntNode, Leaf
  <2>2. QED
    BY <2>1, FoldableCases
<1>3. ASSUME NEW e \in Unops, e.e \in A PROVE e \in A
  <2> SUFFICES ASSUME FoldExp[e].status = "ok" PROVE ~ Foldable[FoldExp[e].exp]
    BY Operands
  <2> DEFINE x == FoldExp[e.e]
  <2>1. x.status = "ok" /\ x.exp \in Exp /\ ~ Foldable[x.exp]
    BY <1>3, UnopFolds
  <2>2. CASE ~ IsInt(x.exp) /\ FoldExp[e] = Result([e EXCEPT !.e = x.exp], x.folded, "ok")
    <3> DEFINE node == [e EXCEPT !.e = x.exp]
    <3>1. node \in Unops /\ node.e = x.exp
      BY <2>1, NewUnop
    <3>2. FoldExp[e].exp = node
      BY <2>2 DEF Result
    <3> HIDE DEF node, x
    <3>3. QED
      BY <2>1, <2>2, <3>1, <3>2, FoldableCases
  <2>3. CASE /\ x.exp \in {IntNode(v) : v \in Int_}
             /\ FoldExp[e] = Result(IntNode(ApplyUnop(e.op, x.exp.ival)), TRUE, "ok")
    <3>1. x.exp.ival \in Int_
      <4> HIDE DEF x
      <4> QED BY <2>3 DEF IntNode
    <3>2. ApplyUnop(e.op, x.exp.ival) \in Int_
      BY <3>1, UnopInt
    <3>3. QED
      BY <1>2, <2>3, <3>2 DEF Result
  <2>4. QED
    BY <2>2, <2>3, UnopFolds
<1>4. ASSUME NEW e \in Binops, e.lhs \in A, e.rhs \in A PROVE e \in A
  <2> SUFFICES ASSUME FoldExp[e].status = "ok" PROVE ~ Foldable[FoldExp[e].exp]
    BY Operands
  <2> DEFINE l == FoldExp[e.lhs]
             r == FoldExp[e.rhs]
  <2>1. /\ l.status = "ok" /\ l.exp \in Exp /\ ~ Foldable[l.exp]
        /\ r.status = "ok" /\ r.exp \in Exp /\ ~ Foldable[r.exp]
    BY <1>4, BinopFolds
  <2>2. CASE /\ ~ (IsInt(l.exp) /\ IsInt(r.exp))
             /\ FoldExp[e] = Result(Over(e, l.exp, r.exp), l.folded \/ r.folded, "ok")
    <3> DEFINE node == Over(e, l.exp, r.exp)
    <3>1. node \in Binops /\ node.lhs = l.exp /\ node.rhs = r.exp
      BY <2>1, NewBinop
    <3>2. FoldExp[e].exp = node
      BY <2>2 DEF Result
    <3> HIDE DEF node, l, r
    <3>3. QED
      BY <2>1, <2>2, <3>1, <3>2, FoldableCases
  <2>3. CASE /\ l.exp \in {IntNode(v) : v \in Int_} /\ r.exp \in {IntNode(v) : v \in Int_}
             /\ ~ Traps(e.op, l.exp.ival, r.exp.ival)
             /\ FoldExp[e] = Result(IntNode(ApplyBinop(e.op, l.exp.ival, r.exp.ival)), TRUE, "ok")
    <3>1. l.exp.ival \in Int_ /\ r.exp.ival \in Int_
      <4> HIDE DEF l, r
      <4> QED BY <2>3 DEF IntNode
    <3>2. ApplyBinop(e.op, l.exp.ival, r.exp.ival) \in Int_
      BY <2>3, <3>1, Operands, BinopInt
    <3>3. QED
      BY <1>2, <2>3, <3>2 DEF Result
  <2>4. QED
    BY <2>2, <2>3, BinopFolds
<1> HIDE DEF A
<1>5. \A e \in Exp : e \in A
  BY <1>1, <1>3, <1>4, ExpInduction
<1>6. QED
  BY <1>5 DEF A

(* The flag fold_exp returns says whether the tree has changed.            *)
LEMMA FlagTrue ==
  ASSUME IsAst(Exp)
  PROVE  \A e \in Exp : FoldExp[e].status = "ok" => (FoldExp[e].folded <=> FoldExp[e].exp # e)
<1> DEFINE A == {e \in Exp : FoldExp[e].status = "ok" => (FoldExp[e].folded <=> FoldExp[e].exp # e)}
<1>1. ASSUME NEW e \in Exp, Leaf(e) PROVE e \in A
  <2>1. FoldExp[e] = Result(e, FALSE, "ok")
    BY <1>1, FoldExpCases
  <2>2. QED
    BY <2>1 DEF Result
<1>2. ASSUME NEW e \in Unops, e.e \in A PROVE e \in A
  <2> SUFFICES ASSUME FoldExp[e].status = "ok" PROVE FoldExp[e].folded <=> FoldExp[e].exp # e
    BY Operands
  <2> DEFINE x == FoldExp[e.e]
  <2>1. x.status = "ok" /\ x.exp \in Exp /\ (x.folded <=> x.exp # e.e) /\ x.folded \in BOOLEAN
    BY <1>2, UnopFolds, Operands DEF Results
  <2>2. CASE FoldExp[e] = Result([e EXCEPT !.e = x.exp], x.folded, "ok")
    <3> DEFINE node == [e EXCEPT !.e = x.exp]
    <3>1. node = e <=> x.exp = e.e
      BY <2>1, NewUnop
    <3>2. FoldExp[e].exp = node /\ FoldExp[e].folded = x.folded
      BY <2>2 DEF Result
    <3> HIDE DEF node, x
    <3>3. QED
      BY <2>1, <3>1, <3>2
  <2>3. CASE FoldExp[e] = Result(IntNode(ApplyUnop(e.op, x.exp.ival)), TRUE, "ok")
    <3>1. FoldExp[e].exp.kind = "IntExp" /\ FoldExp[e].folded = TRUE /\ e.kind = "UnopExp"
      BY <2>3, Operands DEF Result, IntNode
    <3>2. QED
      BY <3>1
  <2>4. QED
    BY <2>2, <2>3, UnopFolds
<1>3. ASSUME NEW e \in Binops, e.lhs \in A, e.rhs \in A PROVE e \in A
  <2> SUFFICES ASSUME FoldExp[e].status = "ok" PROVE FoldExp[e].folded <=> FoldExp[e].exp # e
    BY Operands
  <2> DEFINE l == FoldExp[e.lhs]
             r == FoldExp[e.rhs]
  <2>1. /\ l.status = "ok" /\ l.exp \in Exp /\ (l.folded <=> l.exp # e.lhs) /\ l.folded \in BOOLEAN
        /\ r.status = "ok" /\ r.exp \in Exp /\ (r.folded <=> r.exp # e.rhs) /\ r.folded \in BOOLEAN
    BY <1>3, BinopFolds, Operands DEF Results
  <2>2. CASE FoldExp[e] = Result(Over(e, l.exp, r.exp), l.folded \/ r.folded, "ok")
    <3> DEFINE node == Over(e, l.exp, r.exp)
    <3>1. node = e <=> l.exp = e.lhs /\ r.exp = e.rhs
      BY <2>1, NewBinop
    <3>2. FoldExp[e].exp = node /\ FoldExp[e].folded = (l.folded \/ r.folded)
      BY <2>2 DEF Result
    <3> HIDE DEF node, l, r
    <3>3. QED
      BY <2>1, <3>1, <3>2
  <2>3. CASE FoldExp[e] = Result(IntNode(ApplyBinop(e.op, l.exp.ival, r.exp.ival)), TRUE, "ok")
    <3>1. FoldExp[e].exp.kind = "IntExp" /\ FoldExp[e].folded = TRUE /\ e.kind = "BinopExp"
      BY <2>3, Operands DEF Result, IntNode
    <3>2. QED
      BY <3>1
  <2>4. QED
    BY <2>2, <2>3, BinopFolds
<1> HIDE DEF A
<1>4. \A e \in Exp : e \in A
  BY <1>1, <1>2, <1>3, ExpInduction
<1>5. QED
  BY <1>4 DEF A

(* What a constant operator is worth at run time is what folding makes of  *)
(* it.                                                                     *)
LEMMA ConstantMeanings ==
  /\ \A op \in BinOps : \A x, y \in Int_ :
       ~ Traps(op, x, y) => BinopMeaning(op, Always(x), Always(y)) = Always(ApplyBinop(op, x, y))
  /\ \A op : \A x \in Int_ : UnopMeaning(op, Always(x)) = Always(ApplyUnop(op, x))
<1>1. ASSUME NEW op \in BinOps, NEW x \in Int_, NEW y \in Int_, ~ Traps(op, x, y)
      PROVE  ValueOfBinop(op, <<x>>, <<y>>) = <<ApplyBinop(op, x, y)>>
  <2>1. <<x>> \in IntValues /\ <<y>> \in IntValues
    BY DEF IntValues
  <2>2. op = "And" /\ x = 0 => ApplyBinop(op, x, y) = 0
    BY DEF ApplyBinop, Bool
  <2>3. op = "Or" /\ x # 0 => ApplyBinop(op, x, y) = 1
    BY DEF ApplyBinop, Bool
  <2>4. QED
    BY <1>1, <2>1, <2>2, <2>3 DEF ValueOfBinop
<1>2. ASSUME NEW op, NEW x \in Int_ PROVE ValueOfUnop(op, <<x>>) = <<ApplyUnop(op, x)>>
  BY DEF ValueOfUnop, IntValues
<1>3. ASSUME NEW op \in BinOps, NEW x \in Int_, NEW y \in Int_, ~ Traps(op, x, y)
      PROVE  BinopMeaning(op, Always(x), Always(y)) = Always(ApplyBinop(op, x, y))
  BY <1>1, <1>3 DEF BinopMeaning, Always
<1>4. ASSUME NEW op, NEW x \in Int_ PROVE UnopMeaning(op, Always(x)) = Always(ApplyUnop(op, x))
  BY <1>2 DEF UnopMeaning, Always
<1>5. QED
  BY <1>3, <1>4

(* Folding changes no value.                                               *)
LEMMA KeepsValue ==
  ASSUME IsAst(Exp)
  PROVE  \A e \in Exp : FoldExp[e].status = "ok" => Value[FoldExp[e].exp] = Value[e]
<1> DEFINE A == {e \in Exp : FoldExp[e].status = "ok" => Value[FoldExp[e].exp] = Value[e]}
<1>1. ASSUME NEW e \in Exp, Leaf(e) PROVE e \in A
  <2>1. FoldExp[e] = Result(e, FALSE, "ok")
    BY <1>1, FoldExpCases
  <2>2. QED
    BY <2>1 DEF Result
<1>2. ASSUME NEW e \in Unops, e.e \in A PROVE e \in A
  <2> SUFFICES ASSUME FoldExp[e].status = "ok" PROVE Value[FoldExp[e].exp] = Value[e]
    BY Operands
  <2> DEFINE x == FoldExp[e.e]
  <2>1. x.status = "ok" /\ x.exp \in Exp /\ Value[x.exp] = Value[e.e]
    BY <1>2, UnopFolds
  <2>2. Value[e] = UnopMeaning(e.op, Value[x.exp])
    BY <2>1, ValueCases
  <2>3. CASE FoldExp[e] = Result([e EXCEPT !.e = x.exp], x.folded, "ok")
    <3> DEFINE node == [e EXCEPT !.e = x.exp]
    <3>1. node \in Unops /\ node.op = e.op /\ node.e = x.exp
      BY <2>1, NewUnop
    <3>2. FoldExp[e].exp = node
      BY <2>3 DEF Result
    <3> HIDE DEF node, x
    <3>3. QED
      BY <2>2, <3>1, <3>2, ValueCases
  <2>4. CASE /\ x.exp \in {IntNode(v) : v \in Int_}
             /\ FoldExp[e] = Result(IntNode(ApplyUnop(e.op, x.exp.ival)), TRUE, "ok")
    <3>1. PICK v \in Int_ : x.exp = IntNode(v)
      BY <2>4
    <3>2. x.exp.ival = v /\ ApplyUnop(e.op, v) \in Int_
      BY <3>1, UnopInt DEF IntNode
    <3>3. FoldExp[e].exp = IntNode(ApplyUnop(e.op, v))
      BY <2>4, <3>2 DEF Result
    <3> HIDE DEF x
    <3>4. Value[e] = Always(ApplyUnop(e.op, v))
      BY <2>2, <3>1, ValueCases, ConstantMeanings
    <3>5. QED
      BY <3>2, <3>3, <3>4, ValueCases
  <2>5. QED
    BY <2>3, <2>4, UnopFolds
<1>3. ASSUME NEW e \in Binops, e.lhs \in A, e.rhs \in A PROVE e \in A
  <2> SUFFICES ASSUME FoldExp[e].status = "ok" PROVE Value[FoldExp[e].exp] = Value[e]
    BY Operands
  <2> DEFINE l == FoldExp[e.lhs]
             r == FoldExp[e.rhs]
  <2>1. /\ l.status = "ok" /\ l.exp \in Exp /\ Value[l.exp] = Value[e.lhs]
        /\ r.status = "ok" /\ r.exp \in Exp /\ Value[r.exp] = Value[e.rhs]
    BY <1>3, BinopFolds
  <2>2. Value[e] = BinopMeaning(e.op, Value[l.exp], Value[r.exp])
    BY <2>1, ValueCases
  <2>3. CASE FoldExp[e] = Result(Over(e, l.exp, r.exp), l.folded \/ r.folded, "ok")
    <3> DEFINE node == Over(e, l.exp, r.exp)
    <3>1. node \in Binops /\ node.op = e.op /\ node.lhs = l.exp /\ node.rhs = r.exp
      <4>1. l.exp \in Exp /\ r.exp \in Exp
        BY <2>1
      <4> HIDE DEF l, r
      <4>2. QED
        BY <4>1, NewBinop
    <3>2. FoldExp[e].exp = node
      BY <2>3 DEF Result
    <3> HIDE DEF node, l, r
    <3>3. QED
      BY <2>2, <3>1, <3>2, ValueCases
  <2>4. CASE /\ l.exp \in {IntNode(v) : v \in Int_} /\ r.exp \in {IntNode(v) : v \in Int_}
             /\ ~ Traps(e.op, l.exp.ival, r.exp.ival)
             /\ FoldExp[e] = Result(IntNode(ApplyBinop(e.op, l.exp.ival, r.exp.ival)), TRUE, "ok")
    <3>1. PICK v \in Int_, w \in Int_ : l.exp = IntNode(v) /\ r.exp = IntNode(w)
      BY <2>4
    <3>2. l.exp.ival = v /\ r.exp.ival = w
      BY <3>1 DEF IntNode
    <3>3. ~ Traps(e.op, v, w) /\ e.op \in BinOps
      BY <2>4, <3>2, Operands
    <3>4. ApplyBinop(e.op, v, w) \in Int_
      BY <3>3, BinopInt
    <3>5. FoldExp[e].exp = IntNode(ApplyBinop(e.op, v, w))
      BY <2>4, <3>2 DEF Result
    <3> HIDE DEF l, r
    <3>6. Value[e] = BinopMeaning(e.op, Always(v), Always(w))
      BY <2>2, <3>1, ValueCases
    <3>7. Value[e] = Always(ApplyBinop(e.op, v, w))
      BY <3>3, <3>6, ConstantMeanings
    <3>8. QED
      BY <3>4, <3>5, <3>7, ValueCases
  <2>5. QED
    BY <2>3, <2>4, BinopFolds
<1> HIDE DEF A
<1>4. \A e \in Exp : e \in A
  BY <1>1, <1>2, <1>3, ExpInduction
<1>5. QED
  BY <1>4 DEF A

(* Where there is nothing to fold, fold_exp leaves the tree alone.         *)
LEMMA LeavesAlone ==
  ASSUME IsAst(Exp)
  PROVE  \A e \in Exp : ~ Foldable[e] => FoldExp[e] = Result(e, FALSE, "ok")
<1> DEFINE A == {e \in Exp : ~ Foldable[e] => FoldExp[e] = Result(e, FALSE, "ok")}
<1>1. ASSUME NEW e \in Exp, Leaf(e) PROVE e \in A
  <2>1. FoldExp[e] = Result(e, FALSE, "ok")
    BY <1>1, FoldExpCases
  <2>2. QED
    BY <2>1
<1>2. ASSUME NEW e \in Unops, e.e \in A PROVE e \in A
  <2> SUFFICES ASSUME ~ Foldable[e] PROVE FoldExp[e] = Result(e, FALSE, "ok")
    BY Operands
  <2>1. ~ Foldable[e.e] /\ ~ IsInt(e.e)
    BY FoldableCases
  <2>2. FoldExp[e.e] = Result(e.e, FALSE, "ok")
    BY <1>2, <2>1
  <2>3. [e EXCEPT !.e = e.e] = e
    BY DEF Unops
  <2>4. FoldUnop(e, Result(e.e, FALSE, "ok")) = Result(e, FALSE, "ok")
    BY <2>1, <2>3 DEF FoldUnop, Result, IsInt
  <2>5. QED
    BY <2>2, <2>4, FoldExpCases
<1>3. ASSUME NEW e \in Binops, e.lhs \in A, e.rhs \in A PROVE e \in A
  <2> SUFFICES ASSUME ~ Foldable[e] PROVE FoldExp[e] = Result(e, FALSE, "ok")
    BY Operands
  <2>1. ~ Foldable[e.lhs] /\ ~ Foldable[e.rhs] /\ ~ (IsInt(e.lhs) /\ IsInt(e.rhs))
    BY FoldableCases
  <2>2. FoldExp[e.lhs] = Result(e.lhs, FALSE, "ok") /\ FoldExp[e.rhs] = Result(e.rhs, FALSE, "ok")
    BY <1>3, <2>1
  <2>3. Over(e, e.lhs, e.rhs) = e
    <3>1. e.lhs \in Exp /\ e.rhs \in Exp
      BY Operands
    <3>2. QED
      BY <3>1, NewBinop
  <2>4. FoldBinop(e, Result(e.lhs, FALSE, "ok"), Result(e.rhs, FALSE, "ok")) = Result(e, FALSE, "ok")
    BY <2>1, <2>3 DEF FoldBinop, FoldOperands, Result, IsInt
  <2>5. QED
    BY <2>2, <2>4, FoldExpCases
<1> HIDE DEF A
<1>4. \A e \in Exp : e \in A
  BY <1>1, <1>2, <1>3, ExpInduction
<1>5. QED
  BY <1>4 DEF A

-----------------------------------------------------------------------------
(* fold_exp is idempotent: folding what it has folded changes nothing and  *)
(* reports nothing, so that no turn of main()'s loop after the first has   *)
(* anything to fold unless dce found new constants.                        *)
THEOREM FoldsOnce ==
  ASSUME IsAst(Exp), NEW e \in Exp, FoldExp[e].status = "ok"
  PROVE  FoldExp[FoldExp[e].exp] = Result(FoldExp[e].exp, FALSE, "ok")
<1>1. FoldExp[e].exp \in Exp
  BY FoldExpType DEF Results
<1>2. QED
  BY <1>1, LeavesNothing, LeavesAlone

-----------------------------------------------------------------------------
(* What holds in every state of the loop over expressions.                 *)
IInv == TypeOK /\ ValuePreserved

LEMMA Start ==
  ASSUME IsAst(Exp), Programs \subseteq Exp
  PROVE  Init => IInv
BY DEF Init, IInv, TypeOK, ValuePreserved

LEMMA PassFolds ==
  ASSUME IsAst(Exp), IInv, FoldPass
  PROVE  /\ exp' = FoldExp[exp].exp /\ folded' = FoldExp[exp].folded /\ status' = FoldExp[exp].status
         /\ exp \in Exp /\ FoldExp[exp] \in Results /\ status = "ok" /\ original' = original
<1>1. exp \in Exp
  BY DEF IInv, TypeOK
<1>2. FoldExp[exp] \in Results
  BY <1>1, FoldExpType
<1>3. QED
  BY <1>1, <1>2 DEF FoldPass

LEMMA Step ==
  ASSUME IsAst(Exp), IInv, [Next]_foldv
  PROVE  IInv'
<1>1. CASE FoldPass
  <2>1. TypeOK'
    BY <1>1, PassFolds DEF IInv, TypeOK, Results
  <2>2. ValuePreserved'
    <3>1. FoldExp[exp].status = "ok" => Value[FoldExp[exp].exp] = Value[exp]
      BY <1>1, PassFolds, KeepsValue
    <3>2. QED
      BY <1>1, <3>1, PassFolds DEF IInv, ValuePreserved
  <2>3. QED
    BY <2>1, <2>2 DEF IInv
<1>2. CASE UNCHANGED foldv
  BY <1>2 DEF foldv, IInv, TypeOK, ValuePreserved
<1>3. QED
  BY <1>1, <1>2 DEF Next, Stopped

(* No constant leaves the width of int, whatever the width.                *)
THEOREM FoldTypes ==
  ASSUME IsAst(Exp), Programs \subseteq Exp
  PROVE  Spec => []TypeOK
<1>1. Init => IInv
  BY Start
<1>2. IInv /\ [Next]_foldv => IInv'
  BY Step
<1>3. IInv => TypeOK
  BY DEF IInv
<1>4. QED
  BY <1>1, <1>2, <1>3, PTL DEF Spec

(* Folding changes the value of no expression in any environment, however  *)
(* deep it is nested and however often main() folds it.                    *)
THEOREM FoldKeepsValue ==
  ASSUME IsAst(Exp), Programs \subseteq Exp
  PROVE  Spec => []ValuePreserved
<1>1. Init => IInv
  BY Start
<1>2. IInv /\ [Next]_foldv => IInv'
  BY Step
<1>3. IInv => ValuePreserved
  BY DEF IInv
<1>4. QED
  BY <1>1, <1>2, <1>3, PTL DEF Spec

(* A pass that returns leaves nothing to fold.                             *)
THEOREM FoldsAll ==
  ASSUME IsAst(Exp), Programs \subseteq Exp
  PROVE  Spec => OnePassFolds
<1>1. Init => IInv
  BY Start
<1>2. IInv /\ [Next]_foldv => IInv'
  BY Step
<1>3. IInv /\ [Next]_foldv => [status' = "ok" => ~ Foldable[exp']]_foldv
  <2> SUFFICES ASSUME IInv, FoldPass, status' = "ok" PROVE ~ Foldable[exp']
    BY DEF Next, Stopped
  <2>1. QED
    BY PassFolds, LeavesNothing
<1>4. QED
  BY <1>1, <1>2, <1>3, PTL DEF Spec, OnePassFolds

(* What a pass returns is true just when the tree has changed.             *)
THEOREM FoldReports ==
  ASSUME IsAst(Exp), Programs \subseteq Exp
  PROVE  Spec => ReportsChange
<1>1. Init => IInv
  BY Start
<1>2. IInv /\ [Next]_foldv => IInv'
  BY Step
<1>3. IInv /\ [Next]_foldv => [status' = "ok" => (folded' <=> exp' # exp)]_foldv
  <2> SUFFICES ASSUME IInv, FoldPass, status' = "ok" PROVE folded' <=> exp' # exp
    BY DEF Next, Stopped
  <2>1. QED
    BY PassFolds, FlagTrue
<1>4. QED
  BY <1>1, <1>2, <1>3, PTL DEF Spec, ReportsChange

-----------------------------------------------------------------------------
(* There is a set of all expressions: the theorems above have a subject.   *)
(* Level(n) are the trees of height n at most.                             *)
IsTower(h, n) ==
  DOMAIN h = 0 .. n /\ h[0] = {} /\ \A i \in 0 .. n : i < n => h[i + 1] = Nodes(h[i])

Level(n) == (CHOOSE h : IsTower(h, n))[n]
Trees == UNION {Level(n) : n \in Nat}

LEMMA TowersExist == \A n \in Nat : \E h : IsTower(h, n)
<1> DEFINE A == {n \in Nat : \E h : IsTower(h, n)}
<1>1. 0 \in A
  <2>1. IsTower([i \in 0 .. 0 |-> {}], 0)
    BY DEF IsTower
  <2>2. QED
    BY <2>1
<1>2. ASSUME NEW n \in Nat, n \in A PROVE n + 1 \in A
  <2>1. PICK h : IsTower(h, n)
    BY <1>2
  <2> DEFINE g == [i \in 0 .. n + 1 |-> IF i = n + 1 THEN Nodes(h[n]) ELSE h[i]]
  <2>2. DOMAIN g = 0 .. n + 1 /\ g[0] = {}
    BY <2>1 DEF IsTower
  <2>3. ASSUME NEW i \in 0 .. n + 1, i < n + 1 PROVE g[i + 1] = Nodes(g[i])
    <3>1. CASE i = n
      BY <2>3, <3>1
    <3>2. CASE i < n
      <4>1. g[i + 1] = h[i + 1] /\ g[i] = h[i]
        BY <2>3, <3>2
      <4>2. h[i + 1] = Nodes(h[i])
        BY <2>1, <2>3, <3>2 DEF IsTower
      <4>3. QED
        BY <4>1, <4>2
    <3>3. QED
      BY <2>3, <3>1, <3>2
  <2> HIDE DEF g
  <2>4. IsTower(g, n + 1)
    BY <2>2, <2>3 DEF IsTower
  <2>5. QED
    BY <2>4
<1> HIDE DEF A
<1>3. \A n \in Nat : n \in A
  BY <1>1, <1>2, NaturalInduction
<1>4. QED
  BY <1>3 DEF A

LEMMA TowersAgree ==
  ASSUME NEW n \in Nat, NEW g, IsTower(g, n), NEW m \in Nat, NEW h, IsTower(h, m)
  PROVE  \A i \in Nat : i <= n /\ i <= m => g[i] = h[i]
<1> DEFINE A == {i \in Nat : i <= n /\ i <= m => g[i] = h[i]}
<1>1. 0 \in A
  BY DEF IsTower
<1>2. ASSUME NEW i \in Nat, i \in A PROVE i + 1 \in A
  <2> SUFFICES ASSUME i + 1 <= n, i + 1 <= m PROVE g[i + 1] = h[i + 1]
    OBVIOUS
  <2>1. g[i] = h[i]
    BY <1>2
  <2>2. g[i + 1] = Nodes(g[i]) /\ h[i + 1] = Nodes(h[i])
    BY DEF IsTower
  <2>3. QED
    BY <2>1, <2>2
<1> HIDE DEF A
<1>3. \A i \in Nat : i \in A
  BY <1>1, <1>2, NaturalInduction
<1>4. QED
  BY <1>3 DEF A

LEMMA Levels ==
  Level(0) = {} /\ \A n \in Nat : Level(n + 1) = Nodes(Level(n))
<1> DEFINE tower(n) == CHOOSE h : IsTower(h, n)
<1>1. ASSUME NEW n \in Nat PROVE IsTower(tower(n), n)
  BY TowersExist
<1>2. \A n : Level(n) = tower(n)[n]
  BY DEF Level
<1> HIDE DEF tower
<1>3. Level(0) = {}
  BY <1>1, <1>2 DEF IsTower
<1>4. ASSUME NEW n \in Nat PROVE Level(n + 1) = Nodes(Level(n))
  <2>1. PICK m \in Nat : m = n + 1
    OBVIOUS
  <2>2. IsTower(tower(m), m) /\ IsTower(tower(n), n)
    BY <1>1
  <2>3. tower(m)[n] = tower(n)[n]
    BY <2>1, <2>2, TowersAgree
  <2>4. tower(m)[n + 1] = Nodes(tower(m)[n])
    BY <2>1, <2>2 DEF IsTower
  <2>5. QED
    BY <1>2, <2>1, <2>3, <2>4
<1>5. QED
  BY <1>3, <1>4

LEMMA NodesGrow ==
  ASSUME NEW S, NEW T, S \subseteq T
  PROVE  Nodes(S) \subseteq Nodes(T)
BY DEF Nodes

LEMMA LevelsGrow ==
  ASSUME NEW n \in Nat, NEW m \in Nat, n <= m
  PROVE  Level(n) \subseteq Level(m)
<1> DEFINE A == {i \in Nat : Level(i) \subseteq Level(i + 1)}
<1>1. 0 \in A
  BY Levels
<1>2. ASSUME NEW i \in Nat, i \in A PROVE i + 1 \in A
  <2>1. Level(i) \subseteq Level(i + 1)
    BY <1>2
  <2>2. Nodes(Level(i)) \subseteq Nodes(Level(i + 1))
    BY <2>1, NodesGrow
  <2>3. Level(i + 1) = Nodes(Level(i)) /\ Level((i + 1) + 1) = Nodes(Level(i + 1))
    BY Levels
  <2>4. QED
    BY <2>2, <2>3
<1>3. \A i \in Nat : i \in A
  <2> HIDE DEF A
  <2> QED BY <1>1, <1>2, NaturalInduction
<1> DEFINE B == {k \in Nat : Level(n) \subseteq Level(n + k)}
<1>4. 0 \in B
  OBVIOUS
<1>5. ASSUME NEW k \in Nat, k \in B PROVE k + 1 \in B
  <2>1. Level(n + k) \subseteq Level((n + k) + 1)
    BY <1>3
  <2>2. (n + k) + 1 = n + (k + 1)
    OBVIOUS
  <2>3. QED
    BY <1>5, <2>1, <2>2
<1>6. \A k \in Nat : k \in B
  <2> HIDE DEF B
  <2> QED BY <1>4, <1>5, NaturalInduction
<1>7. m - n \in Nat /\ n + (m - n) = m
  OBVIOUS
<1>8. QED
  BY <1>6, <1>7

LEMMA TreesHaveLevels ==
  ASSUME NEW args \in Seq(Trees)
  PROVE  \E n \in Nat : args \in Seq(Level(n))
<1> DEFINE A == {k \in Nat : k <= Len(args) => \E n \in Nat : \A i \in 1 .. k : args[i] \in Level(n)}
<1>1. 0 \in A
  OBVIOUS
<1>2. ASSUME NEW k \in Nat, k \in A PROVE k + 1 \in A
  <2> SUFFICES ASSUME k + 1 <= Len(args)
               PROVE  \E n \in Nat : \A i \in 1 .. k + 1 : args[i] \in Level(n)
    OBVIOUS
  <2>1. PICK n \in Nat : \A i \in 1 .. k : args[i] \in Level(n)
    BY <1>2
  <2>2. args[k + 1] \in Trees
    OBVIOUS
  <2>3. PICK m \in Nat : args[k + 1] \in Level(m)
    BY <2>2 DEF Trees
  <2>4. PICK top \in Nat : n <= top /\ m <= top
    <3>1. n <= m \/ m <= n
      OBVIOUS
    <3>2. QED
      BY <3>1
  <2>5. Level(n) \subseteq Level(top) /\ Level(m) \subseteq Level(top)
    BY <2>4, LevelsGrow
  <2>6. \A i \in 1 .. k + 1 : args[i] \in Level(top)
    BY <2>1, <2>3, <2>5
  <2>7. QED
    BY <2>6
<1>3. \A k \in Nat : k \in A
  <2> HIDE DEF A
  <2> QED BY <1>1, <1>2, NaturalInduction
<1>4. PICK n \in Nat : \A i \in 1 .. Len(args) : args[i] \in Level(n)
  <2>1. Len(args) \in Nat
    OBVIOUS
  <2>2. Len(args) \in A
    <3> HIDE DEF A
    <3> QED BY <1>3, <2>1
  <2>3. QED
    BY <2>1, <2>2
<1>5. QED
  BY <1>4

(* The expressions of all heights are closed under the constructors, and   *)
(* everything but the empty set of expressions is built by them.           *)
LEMMA TreesClosed == Trees = Nodes(Trees)
<1>1. ASSUME NEW n \in Nat PROVE Level(n) \subseteq Trees /\ Nodes(Level(n)) \subseteq Trees
  <2>1. Nodes(Level(n)) = Level(n + 1) /\ n + 1 \in Nat
    BY Levels
  <2>2. QED
    BY <2>1 DEF Trees
<1>2. ASSUME NEW e \in Trees PROVE e \in Nodes(Trees)
  <2>1. PICK n \in Nat : e \in Level(n)
    BY DEF Trees
  <2>2. n # 0
    BY <2>1, Levels
  <2>3. PICK m \in Nat : n = m + 1
    BY <2>2
  <2>4. e \in Nodes(Level(m))
    BY <2>1, <2>3, Levels
  <2>5. QED
    BY <1>1, <2>4, NodesGrow
<1>3. ASSUME NEW e \in Nodes(Trees) PROVE \E n \in Nat : e \in Nodes(Level(n))
  <2>1. CASE e \in Nodes({})
    BY <2>1, Levels
  <2>2. CASE e \in [kind : {"CallExp"}, name : Names, args : Seq(Trees)]
    <3>1. PICK n \in Nat : e.args \in Seq(Level(n))
      BY <2>2, TreesHaveLevels
    <3>2. QED
      BY <2>2, <3>1 DEF Nodes
  <2>3. CASE e \in [kind : {"UnopExp"}, op : UnOps, e : Trees]
    <3>1. PICK n \in Nat : e.e \in Level(n)
      BY <2>3 DEF Trees
    <3>2. QED
      BY <2>3, <3>1 DEF Nodes
  <2>4. CASE e \in [kind : {"BinopExp"}, op : BinOps, lhs : Trees, rhs : Trees]
    <3>1. PICK n \in Nat : e.lhs \in Level(n)
      BY <2>4 DEF Trees
    <3>2. PICK m \in Nat : e.rhs \in Level(m)
      BY <2>4 DEF Trees
    <3>3. PICK top \in Nat : n <= top /\ m <= top
      <4>1. n <= m \/ m <= n
        OBVIOUS
      <4>2. QED
        BY <4>1
    <3>4. e.lhs \in Level(top) /\ e.rhs \in Level(top)
      BY <3>1, <3>2, <3>3, LevelsGrow
    <3>5. QED
      BY <2>4, <3>4 DEF Nodes
  <2>5. QED
    BY <2>1, <2>2, <2>3, <2>4 DEF Nodes
<1>4. QED
  BY <1>1, <1>2, <1>3

(* The trees of all heights are an Ast: the hypothesis on Exp, of which    *)
(* ast.h sets no bound, holds of a set.                                    *)
THEOREM AstExists == IsAst(Trees)
<1> DEFINE heights(e) == {n \in Nat : e \in Level(n)}
           rank == [e \in Trees |-> CHOOSE n \in heights(e) : \A m \in heights(e) : n <= m]
<1>1. ASSUME NEW e \in Trees PROVE rank[e] \in heights(e) /\ \A m \in heights(e) : rank[e] <= m
  <2>1. heights(e) \subseteq Nat /\ heights(e) # {}
    BY DEF Trees
  <2> HIDE DEF heights
  <2>2. \E n \in heights(e) : \A m \in heights(e) : n <= m
    BY <2>1, LeastNatural
  <2>3. QED
    BY <2>2
<1>2. DOMAIN rank = Trees /\ \A e \in Trees : rank[e] \in Nat
  BY <1>1
<1>3. rank \in [Trees -> Nat]
  BY <1>1
<1> HIDE DEF rank
<1>4. ASSUME NEW e \in Trees, NEW c \in Children(e) PROVE rank[c] < rank[e]
  <2>1. rank[e] \in Nat /\ e \in Level(rank[e])
    BY <1>1
  <2>2. PICK m \in Nat : rank[e] = m + 1
    <3>1. rank[e] # 0
      BY <2>1, Levels
    <3>2. rank[e] - 1 \in Nat /\ rank[e] = (rank[e] - 1) + 1
      BY <2>1, <3>1
    <3>3. QED
      BY <3>2
  <2>3. e \in Nodes(Level(m))
    BY <2>1, <2>2, Levels
  <2>4. c \in Level(m)
    BY <1>4, <2>3 DEF Nodes, Children
  <2>5. c \in Trees
    BY <2>4 DEF Trees
  <2>6. rank[c] <= m /\ rank[c] \in Nat
    BY <1>1, <2>4, <2>5
  <2>7. QED
    BY <2>2, <2>6
<1>5. Falls(Trees, rank)
  BY <1>3, <1>4 DEF Falls
<1>6. QED
  BY <1>5, TreesClosed DEF IsAst
=============================================================================
