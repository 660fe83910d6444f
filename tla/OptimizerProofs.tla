-------------------------- MODULE OptimizerProofs --------------------------
(***************************************************************************)
(* The optimisation loop on programs of any length and nesting: what is    *)
(* left when it ends, what stays declared, what the program still means    *)
(* after every step, and that its steps run out.                           *)
(***************************************************************************)
EXTENDS Optimizer, SequenceTheorems, Induction

(* S is a set of finite statement trees with every node over it.           *)
Falls(S, rank) == rank \in [S -> Nat] /\ \A s \in S : \A t \in Children(s) : rank[t] < rank[s]

IsAst(S) == S = Nodes(S) /\ \E rank : Falls(S, rank)

Simples  == [kind : {"AssignStmt", "CallStmt", "RetStmt"}, exp : Exp]
              \union [kind : {"VardeclStmt"}, name : Names, exp : Exp]
Ifs      == [kind : {"IfStmt"}, cond : Exp, then_stmts : Seq(Stmt), else_stmts : Seq(Stmt)]
Whiles   == [kind : {"WhileStmt"}, cond : Exp, body_stmts : Seq(Stmt), otherwise_stmts : Seq(Stmt)]
Repeats_ == [kind : {"RepeatStmt"}, cond : Exp, body_stmts : Seq(Stmt)]
Fundecs  == [kind : {"FundecStmt"}, name : Names, params : SUBSET Names, body : Seq(Stmt)]

LEMMA Kinds ==
  ASSUME IsAst(Stmt)
  PROVE  Stmt = Simples \union Ifs \union Whiles \union Repeats_ \union Fundecs
BY DEF IsAst, Nodes, Simples, Ifs, Whiles, Repeats_, Fundecs

LEMMA ElementsOf ==
  ASSUME NEW S, NEW stmts \in Seq(S)
  PROVE  /\ Len(stmts) \in Nat /\ DOMAIN stmts = 1 .. Len(stmts) /\ Elements(stmts) \subseteq S
         /\ \A i \in DOMAIN stmts : stmts[i] \in S /\ stmts[i] \in Elements(stmts)
BY DEF Elements

LEMMA SimpleShape ==
  ASSUME IsAst(Stmt), NEW s \in Simples
  PROVE  /\ s \in Stmt /\ s.exp \in Exp /\ Children(s) = {}
         /\ s.kind \notin {"IfStmt", "WhileStmt", "RepeatStmt", "FundecStmt"}
<1>1. s \in Stmt
  BY Kinds
<1>2. s.exp \in Exp /\ s.kind \notin {"IfStmt", "WhileStmt", "RepeatStmt", "FundecStmt"}
  BY DEF Simples
<1>3. s.kind # "IfStmt" /\ s.kind # "WhileStmt" /\ s.kind # "RepeatStmt" /\ s.kind # "FundecStmt"
  BY <1>2
<1>4. Children(s) = {}
  BY <1>3, Zenon DEF Children
<1>5. QED
  BY <1>1, <1>2, <1>4

LEMMA IfShape ==
  ASSUME IsAst(Stmt), NEW s \in Ifs
  PROVE  /\ s \in Stmt /\ s.kind = "IfStmt" /\ s.cond \in Exp
         /\ s.then_stmts \in Seq(Stmt) /\ s.else_stmts \in Seq(Stmt)
         /\ Children(s) = Elements(s.then_stmts) \union Elements(s.else_stmts)
<1>1. s \in Stmt
  BY Kinds
<1>2. QED
  BY <1>1 DEF Ifs, Children

LEMMA WhileShape ==
  ASSUME IsAst(Stmt), NEW s \in Whiles
  PROVE  /\ s \in Stmt /\ s.kind = "WhileStmt" /\ s.cond \in Exp
         /\ s.body_stmts \in Seq(Stmt) /\ s.otherwise_stmts \in Seq(Stmt)
         /\ Children(s) = Elements(s.body_stmts) \union Elements(s.otherwise_stmts)
<1>1. s \in Stmt
  BY Kinds
<1>2. QED
  BY <1>1 DEF Whiles, Children

LEMMA RepeatShape ==
  ASSUME IsAst(Stmt), NEW s \in Repeats_
  PROVE  /\ s \in Stmt /\ s.kind = "RepeatStmt" /\ s.cond \in Exp
         /\ s.body_stmts \in Seq(Stmt) /\ Children(s) = Elements(s.body_stmts)
<1>1. s \in Stmt
  BY Kinds
<1>2. QED
  BY <1>1 DEF Repeats_, Children

LEMMA FundecShape ==
  ASSUME IsAst(Stmt), NEW s \in Fundecs
  PROVE  /\ s \in Stmt /\ s.kind = "FundecStmt" /\ s.name \in Names /\ s.params \in SUBSET Names
         /\ s.body \in Seq(Stmt) /\ Children(s) = Elements(s.body)
<1>1. s \in Stmt
  BY Kinds
<1>2. QED
  BY <1>1 DEF Fundecs, Children

LEMMA ChildrenInside ==
  ASSUME IsAst(Stmt), NEW s \in Stmt
  PROVE  Children(s) \subseteq Stmt
<1>1. CASE s \in Simples
  BY <1>1, SimpleShape
<1>2. CASE s \in Ifs
  BY <1>2, IfShape, ElementsOf
<1>3. CASE s \in Whiles
  BY <1>3, WhileShape, ElementsOf
<1>4. CASE s \in Repeats_
  BY <1>4, RepeatShape, ElementsOf
<1>5. CASE s \in Fundecs
  BY <1>5, FundecShape, ElementsOf
<1>6. QED
  BY <1>1, <1>2, <1>3, <1>4, <1>5, Kinds

(* What holds of a statement whenever it holds of its children holds of    *)
(* every statement.                                                        *)
LEMMA StmtInduction ==
  ASSUME IsAst(Stmt), NEW A, \A s \in Stmt : Children(s) \subseteq A => s \in A
  PROVE  Stmt \subseteq A
<1>1. PICK rank \in [Stmt -> Nat] : Falls(Stmt, rank)
  BY DEF IsAst, Falls
<1>2. ASSUME NEW s \in Stmt, \A t \in Stmt : rank[t] < rank[s] => t \in A PROVE s \in A
  <2>1. \A t \in Children(s) : t \in Stmt /\ rank[t] < rank[s]
    BY <1>1, ChildrenInside DEF Falls
  <2>2. QED
    BY <1>2, <2>1
<1>3. QED
  BY <1>2, RankInduction

(* What over makes of a statement and of values for its children defines a *)
(* function on statements.                                                 *)
Below(s, h) == [t \in Children(s) |-> h[t]]

Into(over, V) == \A s \in Stmt : \A g \in [Children(s) -> V] : over[s][g] \in V

Meets(h, over) == \A s \in Stmt : h[s] = over[s][Below(s, h)]

LEMMA StmtRecursion ==
  ASSUME IsAst(Stmt), NEW V, V # {}, NEW over, Into(over, V)
  PROVE  \E h \in [Stmt -> V] : Meets(h, over)
<1> DEFINE step == [s \in Stmt |-> [f \in [Stmt -> V] |-> over[s][Below(s, f)]]]
<1>1. PICK rank \in [Stmt -> Nat] : Falls(Stmt, rank)
  BY DEF IsAst, Falls
<1>2. ASSUME NEW s \in Stmt, NEW f \in [Stmt -> V] PROVE over[s][Below(s, f)] \in V
  <2>1. \A t \in Children(s) : f[t] \in V
    BY ChildrenInside
  <2>2. Below(s, f) \in [Children(s) -> V]
    BY <2>1 DEF Below
  <2>3. QED
    BY <2>2 DEF Into
<1>3. step \in [Stmt -> [[Stmt -> V] -> V]]
  BY <1>2
<1>4. \A s \in Stmt : \A f \in [Stmt -> V] : step[s][f] = over[s][Below(s, f)]
  OBVIOUS
<1> HIDE DEF step
<1>5. ASSUME NEW s \in Stmt, NEW f \in [Stmt -> V], NEW g \in [Stmt -> V],
             \A t \in Stmt : rank[t] < rank[s] => f[t] = g[t]
      PROVE  step[s][f] = step[s][g]
  <2>1. \A t \in Children(s) : t \in Stmt /\ rank[t] < rank[s]
    BY <1>1, ChildrenInside DEF Falls
  <2>2. \A t \in Children(s) : f[t] = g[t]
    BY <1>5, <2>1
  <2>3. Below(s, f) = Below(s, g)
    BY <2>2 DEF Below
  <2>4. QED
    BY <1>4, <2>3
<1>6. Looks(Stmt, rank, V, step)
  BY <1>5 DEF Looks
<1>7. PICK h \in [Stmt -> V] : Defines(h, Stmt, step)
  BY <1>3, <1>6, RankRecursion
<1>8. \A s \in Stmt : h[s] = over[s][Below(s, h)]
  BY <1>4, <1>7 DEF Defines
<1>9. QED
  BY <1>8 DEF Meets

-----------------------------------------------------------------------------
(* fold_stmt on each kind of statement.                                    *)
LEMMA FoldEachType ==
  ASSUME NEW stmts \in Seq(Stmt), NEW fold, \A t \in Elements(stmts) : fold[t] \in Stmt
  PROVE  FoldEach(stmts, fold) \in Seq(Stmt)
<1>1. Len(stmts) \in Nat /\ FoldEach(stmts, fold) = [i \in 1 .. Len(stmts) |-> fold[stmts[i]]]
  BY DEF FoldEach
<1>2. \A i \in 1 .. Len(stmts) : fold[stmts[i]] \in Stmt
  BY ElementsOf
<1>3. QED
  BY <1>1, <1>2

LEMMA FoldOverCases ==
  ASSUME IsAst(Stmt), NEW fold
  PROVE  /\ \A s \in Simples : FoldOver(s, fold) = [s EXCEPT !.exp = Folded[s.exp]]
         /\ \A s \in Ifs : FoldOver(s, fold) =
              [kind |-> "IfStmt", cond |-> Folded[s.cond],
               then_stmts |-> FoldEach(s.then_stmts, fold), else_stmts |-> FoldEach(s.else_stmts, fold)]
         /\ \A s \in Whiles : FoldOver(s, fold) =
              [kind |-> "WhileStmt", cond |-> Folded[s.cond],
               body_stmts |-> FoldEach(s.body_stmts, fold), otherwise_stmts |-> FoldEach(s.otherwise_stmts, fold)]
         /\ \A s \in Repeats_ : FoldOver(s, fold) =
              [kind |-> "RepeatStmt", cond |-> Folded[s.cond], body_stmts |-> FoldEach(s.body_stmts, fold)]
         /\ \A s \in Fundecs : FoldOver(s, fold) =
              [kind |-> "FundecStmt", name |-> s.name, params |-> s.params, body |-> FoldEach(s.body, fold)]
<1>1. ASSUME NEW s \in Simples PROVE FoldOver(s, fold) = [s EXCEPT !.exp = Folded[s.exp]]
  <2>1. s.kind # "IfStmt" /\ s.kind # "WhileStmt" /\ s.kind # "RepeatStmt" /\ s.kind # "FundecStmt"
    BY SimpleShape
  <2>2. FoldOver(s, fold) = [s EXCEPT !.exp = Folded[@]]
    BY <2>1, Zenon DEF FoldOver
  <2>3. QED
    BY <2>2
<1>2. ASSUME NEW s \in Ifs
      PROVE  FoldOver(s, fold) =
              [kind |-> "IfStmt", cond |-> Folded[s.cond],
               then_stmts |-> FoldEach(s.then_stmts, fold), else_stmts |-> FoldEach(s.else_stmts, fold)]
  <2>1. FoldOver(s, fold) =
          [s EXCEPT !.cond = Folded[@], !.then_stmts = FoldEach(@, fold), !.else_stmts = FoldEach(@, fold)]
    BY IfShape, Zenon DEF FoldOver
  <2>2. QED
    BY <2>1 DEF Ifs
<1>3. ASSUME NEW s \in Whiles
      PROVE  FoldOver(s, fold) =
              [kind |-> "WhileStmt", cond |-> Folded[s.cond],
               body_stmts |-> FoldEach(s.body_stmts, fold), otherwise_stmts |-> FoldEach(s.otherwise_stmts, fold)]
  <2>1. s.kind = "WhileStmt" /\ s.kind # "IfStmt"
    BY WhileShape
  <2>2. FoldOver(s, fold) =
          [s EXCEPT !.cond = Folded[@], !.body_stmts = FoldEach(@, fold), !.otherwise_stmts = FoldEach(@, fold)]
    BY <2>1, Zenon DEF FoldOver
  <2>3. QED
    BY <2>2 DEF Whiles
<1>4. ASSUME NEW s \in Repeats_
      PROVE  FoldOver(s, fold) =
              [kind |-> "RepeatStmt", cond |-> Folded[s.cond], body_stmts |-> FoldEach(s.body_stmts, fold)]
  <2>1. s.kind = "RepeatStmt" /\ s.kind # "IfStmt" /\ s.kind # "WhileStmt"
    BY RepeatShape
  <2>2. FoldOver(s, fold) = [s EXCEPT !.cond = Folded[@], !.body_stmts = FoldEach(@, fold)]
    BY <2>1, Zenon DEF FoldOver
  <2>3. QED
    BY <2>2 DEF Repeats_
<1>5. ASSUME NEW s \in Fundecs
      PROVE  FoldOver(s, fold) =
              [kind |-> "FundecStmt", name |-> s.name, params |-> s.params, body |-> FoldEach(s.body, fold)]
  <2>1. s.kind = "FundecStmt" /\ s.kind # "IfStmt" /\ s.kind # "WhileStmt" /\ s.kind # "RepeatStmt"
    BY FundecShape
  <2>2. FoldOver(s, fold) = [s EXCEPT !.body = FoldEach(@, fold)]
    BY <2>1, Zenon DEF FoldOver
  <2>3. QED
    BY <2>2 DEF Fundecs
<1>6. QED
  BY <1>1, <1>2, <1>3, <1>4, <1>5

LEMMA FoldOverType ==
  ASSUME IsAst(Stmt), NEW s \in Stmt, NEW fold, \A t \in Children(s) : fold[t] \in Stmt
  PROVE  FoldOver(s, fold) \in Stmt
<1>0. \A e \in Exp : Folded[e] \in Exp
  BY FoldedAssumption
<1>1. CASE s \in Simples
  <2>1. [s EXCEPT !.exp = Folded[s.exp]] \in Simples
    BY <1>0, <1>1 DEF Simples
  <2>2. FoldOver(s, fold) \in Simples
    BY <1>1, <2>1, FoldOverCases
  <2>3. QED
    BY <2>2, Kinds
<1>2. CASE s \in Ifs
  <2>1. FoldEach(s.then_stmts, fold) \in Seq(Stmt) /\ FoldEach(s.else_stmts, fold) \in Seq(Stmt)
    BY <1>2, IfShape, FoldEachType
  <2>2. Folded[s.cond] \in Exp
    BY <1>0, <1>2, IfShape
  <2>3. FoldOver(s, fold) \in Ifs
    BY <1>2, <2>1, <2>2, FoldOverCases DEF Ifs
  <2>4. QED
    BY <2>3, Kinds
<1>3. CASE s \in Whiles
  <2>1. FoldEach(s.body_stmts, fold) \in Seq(Stmt) /\ FoldEach(s.otherwise_stmts, fold) \in Seq(Stmt)
    BY <1>3, WhileShape, FoldEachType
  <2>2. Folded[s.cond] \in Exp
    BY <1>0, <1>3, WhileShape
  <2>3. FoldOver(s, fold) \in Whiles
    BY <1>3, <2>1, <2>2, FoldOverCases DEF Whiles
  <2>4. QED
    BY <2>3, Kinds
<1>4. CASE s \in Repeats_
  <2>1. FoldEach(s.body_stmts, fold) \in Seq(Stmt)
    BY <1>4, RepeatShape, FoldEachType
  <2>2. Folded[s.cond] \in Exp
    BY <1>0, <1>4, RepeatShape
  <2>3. FoldOver(s, fold) \in Repeats_
    BY <1>4, <2>1, <2>2, FoldOverCases DEF Repeats_
  <2>4. QED
    BY <2>3, Kinds
<1>5. CASE s \in Fundecs
  <2>1. FoldEach(s.body, fold) \in Seq(Stmt)
    BY <1>5, FundecShape, FoldEachType
  <2>2. s.name \in Names /\ s.params \in SUBSET Names
    BY <1>5, FundecShape
  <2>3. FoldOver(s, fold) \in Fundecs
    BY <1>5, <2>1, <2>2, FoldOverCases DEF Fundecs
  <2>4. QED
    BY <2>3, Kinds
<1>6. QED
  BY <1>1, <1>2, <1>3, <1>4, <1>5, Kinds

LEMMA FoldStmtDef ==
  ASSUME IsAst(Stmt)
  PROVE  \A s \in Stmt : FoldStmt[s] = FoldOver(s, Below(s, FoldStmt)) /\ FoldStmt[s] \in Stmt
<1> DEFINE over == [s \in Stmt |-> [g \in [Children(s) -> Stmt] |-> FoldOver(s, g)]]
<1>1. \A s \in Stmt : \A g \in [Children(s) -> Stmt] : over[s][g] = FoldOver(s, g)
  OBVIOUS
<1>2. Into(over, Stmt)
  <2>1. ASSUME NEW s \in Stmt, NEW g \in [Children(s) -> Stmt] PROVE FoldOver(s, g) \in Stmt
    BY FoldOverType
  <2>2. QED
    BY <1>1, <2>1 DEF Into
<1>3. CASE Stmt # {}
  <2> HIDE DEF over
  <2>1. PICK h \in [Stmt -> Stmt] : Meets(h, over)
    BY <1>2, <1>3, StmtRecursion
  <2>2. ASSUME NEW f \in [Stmt -> Stmt], NEW s \in Stmt PROVE Below(s, f) \in [Children(s) -> Stmt]
    BY ChildrenInside DEF Below
  <2>3. \A s \in Stmt : h[s] = FoldOver(s, [t \in Children(s) |-> h[t]])
    BY <1>1, <2>1, <2>2 DEF Below, Meets
  <2>4. h = [s \in Stmt |-> FoldOver(s, [t \in Children(s) |-> h[t]])]
    BY <2>3
  <2>5. FoldStmt = [s \in Stmt |-> FoldOver(s, [t \in Children(s) |-> FoldStmt[t]])]
    BY <2>4, Zenon DEF FoldStmt
  <2>6. \A s \in Stmt : FoldStmt[s] = FoldOver(s, Below(s, FoldStmt))
    BY <2>5 DEF Below
  <2> DEFINE A == {s \in Stmt : FoldStmt[s] \in Stmt}
  <2>7. ASSUME NEW s \in Stmt, Children(s) \subseteq A PROVE s \in A
    <3>1. \A t \in Children(s) : Below(s, FoldStmt)[t] \in Stmt
      BY <2>7 DEF Below
    <3>2. QED
      BY <2>6, <3>1, FoldOverType
  <2> HIDE DEF A
  <2>8. Stmt \subseteq A
    BY <2>7, StmtInduction
  <2>9. QED
    BY <2>6, <2>8 DEF A
<1>4. QED
  BY <1>3

LEMMA FoldEachBelow ==
  ASSUME NEW stmts \in Seq(Stmt), NEW s, Elements(stmts) \subseteq Children(s)
  PROVE  FoldEach(stmts, Below(s, FoldStmt)) = FoldStmts(stmts)
<1>1. \A i \in DOMAIN stmts : stmts[i] \in Children(s)
  BY ElementsOf
<1>2. QED
  BY <1>1 DEF FoldEach, FoldStmts, Below

LEMMA FoldStmtCases ==
  ASSUME IsAst(Stmt)
  PROVE  /\ \A s \in Simples : FoldStmt[s] = [s EXCEPT !.exp = Folded[s.exp]]
         /\ \A s \in Ifs : FoldStmt[s] =
              [kind |-> "IfStmt", cond |-> Folded[s.cond],
               then_stmts |-> FoldStmts(s.then_stmts), else_stmts |-> FoldStmts(s.else_stmts)]
         /\ \A s \in Whiles : FoldStmt[s] =
              [kind |-> "WhileStmt", cond |-> Folded[s.cond],
               body_stmts |-> FoldStmts(s.body_stmts), otherwise_stmts |-> FoldStmts(s.otherwise_stmts)]
         /\ \A s \in Repeats_ : FoldStmt[s] =
              [kind |-> "RepeatStmt", cond |-> Folded[s.cond], body_stmts |-> FoldStmts(s.body_stmts)]
         /\ \A s \in Fundecs : FoldStmt[s] =
              [kind |-> "FundecStmt", name |-> s.name, params |-> s.params, body |-> FoldStmts(s.body)]
<1>1. \A s \in Stmt : FoldStmt[s] = FoldOver(s, Below(s, FoldStmt))
  BY FoldStmtDef
<1>2. \A s \in Simples : FoldStmt[s] = [s EXCEPT !.exp = Folded[s.exp]]
  BY <1>1, FoldOverCases, SimpleShape
<1>3. ASSUME NEW s \in Ifs
      PROVE  FoldStmt[s] = [kind |-> "IfStmt", cond |-> Folded[s.cond],
                            then_stmts |-> FoldStmts(s.then_stmts), else_stmts |-> FoldStmts(s.else_stmts)]
  <2>1. /\ FoldEach(s.then_stmts, Below(s, FoldStmt)) = FoldStmts(s.then_stmts)
        /\ FoldEach(s.else_stmts, Below(s, FoldStmt)) = FoldStmts(s.else_stmts)
    BY IfShape, FoldEachBelow
  <2>2. QED
    BY <1>1, <2>1, FoldOverCases, IfShape
<1>4. ASSUME NEW s \in Whiles
      PROVE  FoldStmt[s] = [kind |-> "WhileStmt", cond |-> Folded[s.cond],
                            body_stmts |-> FoldStmts(s.body_stmts), otherwise_stmts |-> FoldStmts(s.otherwise_stmts)]
  <2>1. /\ FoldEach(s.body_stmts, Below(s, FoldStmt)) = FoldStmts(s.body_stmts)
        /\ FoldEach(s.otherwise_stmts, Below(s, FoldStmt)) = FoldStmts(s.otherwise_stmts)
    BY WhileShape, FoldEachBelow
  <2>2. QED
    BY <1>1, <2>1, FoldOverCases, WhileShape
<1>5. ASSUME NEW s \in Repeats_
      PROVE  FoldStmt[s] = [kind |-> "RepeatStmt", cond |-> Folded[s.cond], body_stmts |-> FoldStmts(s.body_stmts)]
  <2>1. FoldEach(s.body_stmts, Below(s, FoldStmt)) = FoldStmts(s.body_stmts)
    BY RepeatShape, FoldEachBelow
  <2>2. QED
    BY <1>1, <2>1, FoldOverCases, RepeatShape
<1>6. ASSUME NEW s \in Fundecs
      PROVE  FoldStmt[s] = [kind |-> "FundecStmt", name |-> s.name, params |-> s.params, body |-> FoldStmts(s.body)]
  <2>1. FoldEach(s.body, Below(s, FoldStmt)) = FoldStmts(s.body)
    BY FundecShape, FoldEachBelow
  <2>2. QED
    BY <1>1, <2>1, FoldOverCases, FundecShape
<1>7. QED
  BY <1>2, <1>3, <1>4, <1>5, <1>6

LEMMA FoldStmtsType ==
  ASSUME IsAst(Stmt), NEW stmts \in Seq(Stmt)
  PROVE  /\ FoldStmts(stmts) \in Seq(Stmt) /\ Len(FoldStmts(stmts)) = Len(stmts)
         /\ \A i \in 1 .. Len(stmts) : FoldStmts(stmts)[i] = FoldStmt[stmts[i]]
<1>1. FoldStmts(stmts) = [i \in 1 .. Len(stmts) |-> FoldStmt[stmts[i]]] /\ Len(stmts) \in Nat
  BY DEF FoldStmts, FoldEach
<1>2. \A i \in 1 .. Len(stmts) : FoldStmt[stmts[i]] \in Stmt
  BY FoldStmtDef
<1>3. QED
  BY <1>1, <1>2

(* What dce_stmts would still do, on each kind of statement.               *)
LEMMA CleanOverCases ==
  ASSUME IsAst(Stmt), NEW clean
  PROVE  /\ \A s \in Simples : CleanOver(s, clean) = TRUE
         /\ \A s \in Ifs : CleanOver(s, clean) = (s.cond \notin Zero \union NonZero)
         /\ \A s \in Whiles \union Repeats_ : CleanOver(s, clean) = (s.cond \notin Zero)
         /\ \A s \in Fundecs : CleanOver(s, clean) = EachClean(s.body, clean)
<1>1. ASSUME NEW s \in Simples PROVE CleanOver(s, clean) = TRUE
  <2>1. s.kind # "IfStmt" /\ s.kind \notin {"WhileStmt", "RepeatStmt"} /\ s.kind # "FundecStmt"
    BY SimpleShape
  <2>2. QED
    BY <2>1, Zenon DEF CleanOver
<1>2. ASSUME NEW s \in Ifs PROVE CleanOver(s, clean) = (s.cond \notin Zero \union NonZero)
  BY IfShape, Zenon DEF CleanOver
<1>3. ASSUME NEW s \in Whiles \union Repeats_ PROVE CleanOver(s, clean) = (s.cond \notin Zero)
  <2>1. s.kind # "IfStmt" /\ s.kind \in {"WhileStmt", "RepeatStmt"}
    BY WhileShape, RepeatShape
  <2>2. QED
    BY <2>1, Zenon DEF CleanOver
<1>4. ASSUME NEW s \in Fundecs PROVE CleanOver(s, clean) = EachClean(s.body, clean)
  <2>1. s.kind = "FundecStmt" /\ s.kind # "IfStmt" /\ s.kind \notin {"WhileStmt", "RepeatStmt"}
    BY FundecShape
  <2>2. QED
    BY <2>1, Zenon DEF CleanOver
<1>5. QED
  BY <1>1, <1>2, <1>3, <1>4

LEMMA CleanOverType ==
  ASSUME IsAst(Stmt), NEW s \in Stmt, NEW clean
  PROVE  CleanOver(s, clean) \in BOOLEAN
<1>1. EachClean(s.body, clean) \in BOOLEAN /\ (s.cond \notin Zero) \in BOOLEAN
      /\ (s.cond \notin Zero \union NonZero) \in BOOLEAN /\ TRUE \in BOOLEAN
  BY Zenon DEF EachClean
<1>2. QED
  BY <1>1, CleanOverCases, Kinds

LEMMA CleanStmtDef ==
  ASSUME IsAst(Stmt)
  PROVE  \A s \in Stmt : CleanStmt[s] = CleanOver(s, Below(s, CleanStmt)) /\ CleanStmt[s] \in BOOLEAN
<1> DEFINE over == [s \in Stmt |-> [g \in [Children(s) -> BOOLEAN] |-> CleanOver(s, g)]]
<1>1. \A s \in Stmt : \A g \in [Children(s) -> BOOLEAN] : over[s][g] = CleanOver(s, g)
  OBVIOUS
<1>2. Into(over, BOOLEAN)
  <2>1. ASSUME NEW s \in Stmt, NEW g \in [Children(s) -> BOOLEAN] PROVE CleanOver(s, g) \in BOOLEAN
    BY CleanOverType
  <2>2. QED
    BY <1>1, <2>1 DEF Into
<1> HIDE DEF over
<1>3. PICK h \in [Stmt -> BOOLEAN] : Meets(h, over)
  BY <1>2, StmtRecursion
<1>4. ASSUME NEW f \in [Stmt -> BOOLEAN], NEW s \in Stmt PROVE Below(s, f) \in [Children(s) -> BOOLEAN]
  BY ChildrenInside DEF Below
<1>5. \A s \in Stmt : h[s] = CleanOver(s, [t \in Children(s) |-> h[t]])
  BY <1>1, <1>3, <1>4 DEF Below, Meets
<1>6. h = [s \in Stmt |-> CleanOver(s, [t \in Children(s) |-> h[t]])]
  BY <1>5
<1>7. CleanStmt = [s \in Stmt |-> CleanOver(s, [t \in Children(s) |-> CleanStmt[t]])]
  BY <1>6, Zenon DEF CleanStmt
<1>8. \A s \in Stmt : CleanStmt[s] = CleanOver(s, Below(s, CleanStmt))
  BY <1>7 DEF Below
<1>9. QED
  BY <1>8, CleanOverType

LEMMA CleanStmtCases ==
  ASSUME IsAst(Stmt)
  PROVE  /\ \A s \in Simples : CleanStmt[s]
         /\ \A s \in Ifs : CleanStmt[s] <=> s.cond \notin Zero \union NonZero
         /\ \A s \in Whiles \union Repeats_ : CleanStmt[s] <=> s.cond \notin Zero
         /\ \A s \in Fundecs : CleanStmt[s] <=> Clean(s.body)
<1>1. \A s \in Stmt : CleanStmt[s] = CleanOver(s, Below(s, CleanStmt))
  BY CleanStmtDef
<1>2. ASSUME NEW s \in Fundecs PROVE CleanStmt[s] <=> Clean(s.body)
  <2>1. CleanStmt[s] <=> EachClean(s.body, Below(s, CleanStmt))
    BY <1>1, FundecShape, CleanOverCases
  <2>2. \A i \in DOMAIN s.body : Below(s, CleanStmt)[s.body[i]] = CleanStmt[s.body[i]]
    BY FundecShape, ElementsOf DEF Below
  <2>3. QED
    BY <2>1, <2>2 DEF EachClean, Clean
<1>3. \A s \in Simples : CleanStmt[s]
  BY <1>1, SimpleShape, CleanOverCases
<1>4. \A s \in Ifs : CleanStmt[s] <=> s.cond \notin Zero \union NonZero
  BY <1>1, IfShape, CleanOverCases
<1>5. \A s \in Whiles \union Repeats_ : CleanStmt[s] <=> s.cond \notin Zero
  BY <1>1, WhileShape, RepeatShape, CleanOverCases
<1>6. QED
  BY <1>2, <1>3, <1>4, <1>5

(* What each kind of statement needs of the lists around it.               *)
LEMMA NeedsOverCases ==
  ASSUME IsAst(Stmt), NEW needs
  PROVE  /\ \A s \in Simples : NeedsOver(s, needs) = Uses[s.exp]
         /\ \A s \in Ifs : NeedsOver(s, needs) = Uses[s.cond] \union NeedsInTurn(s.then_stmts, needs)
                                                   \union NeedsInTurn(s.else_stmts, needs)
         /\ \A s \in Whiles : NeedsOver(s, needs) = Uses[s.cond] \union NeedsInTurn(s.body_stmts, needs)
                                                      \union NeedsInTurn(s.otherwise_stmts, needs)
         /\ \A s \in Repeats_ : NeedsOver(s, needs) = Uses[s.cond] \union NeedsInTurn(s.body_stmts, needs)
         /\ \A s \in Fundecs : NeedsOver(s, needs) = NeedsInTurn(s.body, needs) \ ({s.name} \union s.params)
<1>1. ASSUME NEW s \in Simples PROVE NeedsOver(s, needs) = Uses[s.exp]
  <2>1. s.kind # "IfStmt" /\ s.kind # "WhileStmt" /\ s.kind # "RepeatStmt" /\ s.kind # "FundecStmt"
    BY SimpleShape
  <2>2. QED
    BY <2>1, Zenon DEF NeedsOver
<1>2. ASSUME NEW s \in Ifs
      PROVE  NeedsOver(s, needs) = Uses[s.cond] \union NeedsInTurn(s.then_stmts, needs)
                                     \union NeedsInTurn(s.else_stmts, needs)
  BY IfShape, Zenon DEF NeedsOver
<1>3. ASSUME NEW s \in Whiles
      PROVE  NeedsOver(s, needs) = Uses[s.cond] \union NeedsInTurn(s.body_stmts, needs)
                                     \union NeedsInTurn(s.otherwise_stmts, needs)
  <2>1. s.kind = "WhileStmt" /\ s.kind # "IfStmt"
    BY WhileShape
  <2>2. QED
    BY <2>1, Zenon DEF NeedsOver
<1>4. ASSUME NEW s \in Repeats_
      PROVE  NeedsOver(s, needs) = Uses[s.cond] \union NeedsInTurn(s.body_stmts, needs)
  <2>1. s.kind = "RepeatStmt" /\ s.kind # "IfStmt" /\ s.kind # "WhileStmt"
    BY RepeatShape
  <2>2. QED
    BY <2>1, Zenon DEF NeedsOver
<1>5. ASSUME NEW s \in Fundecs
      PROVE  NeedsOver(s, needs) = NeedsInTurn(s.body, needs) \ ({s.name} \union s.params)
  <2>1. s.kind = "FundecStmt" /\ s.kind # "IfStmt" /\ s.kind # "WhileStmt" /\ s.kind # "RepeatStmt"
    BY FundecShape
  <2>2. QED
    BY <2>1, Zenon DEF NeedsOver
<1>6. QED
  BY <1>1, <1>2, <1>3, <1>4, <1>5

LEMMA NeedsOverType ==
  ASSUME IsAst(Stmt), NEW s \in Stmt, NEW needs
  PROVE  NeedsOver(s, needs) \in SUBSET Names
<1>1. \A e \in Exp : Uses[e] \in SUBSET Names
  BY UsesAssumption
<1>2. \A stmts : NeedsInTurn(stmts, needs) \in SUBSET Names
  BY DEF NeedsInTurn
<1>3. CASE s \in Simples
  BY <1>1, <1>3, SimpleShape, NeedsOverCases
<1>4. CASE s \in Ifs
  BY <1>1, <1>2, <1>4, IfShape, NeedsOverCases
<1>5. CASE s \in Whiles
  BY <1>1, <1>2, <1>5, WhileShape, NeedsOverCases
<1>6. CASE s \in Repeats_
  BY <1>1, <1>2, <1>6, RepeatShape, NeedsOverCases
<1>7. CASE s \in Fundecs
  BY <1>2, <1>7, NeedsOverCases
<1>8. QED
  BY <1>3, <1>4, <1>5, <1>6, <1>7, Kinds

LEMMA NeedsOfDef ==
  ASSUME IsAst(Stmt)
  PROVE  \A s \in Stmt : NeedsOf[s] = NeedsOver(s, Below(s, NeedsOf)) /\ NeedsOf[s] \in SUBSET Names
<1> DEFINE V == SUBSET Names
           over == [s \in Stmt |-> [g \in [Children(s) -> V] |-> NeedsOver(s, g)]]
<1>1. \A s \in Stmt : \A g \in [Children(s) -> V] : over[s][g] = NeedsOver(s, g)
  OBVIOUS
<1>2. Into(over, V)
  <2>1. ASSUME NEW s \in Stmt, NEW g \in [Children(s) -> V] PROVE NeedsOver(s, g) \in V
    BY NeedsOverType
  <2>2. QED
    BY <1>1, <2>1 DEF Into
<1>3. V # {}
  OBVIOUS
<1> HIDE DEF over, V
<1>4. PICK h \in [Stmt -> V] : Meets(h, over)
  BY <1>2, <1>3, StmtRecursion
<1>5. ASSUME NEW f \in [Stmt -> V], NEW s \in Stmt PROVE Below(s, f) \in [Children(s) -> V]
  BY ChildrenInside DEF Below
<1>6. \A s \in Stmt : h[s] = NeedsOver(s, [t \in Children(s) |-> h[t]])
  BY <1>1, <1>4, <1>5 DEF Below, Meets
<1>7. h = [s \in Stmt |-> NeedsOver(s, [t \in Children(s) |-> h[t]])]
  BY <1>6
<1>8. NeedsOf = [s \in Stmt |-> NeedsOver(s, [t \in Children(s) |-> NeedsOf[t]])]
  BY <1>7, Zenon DEF NeedsOf
<1>9. \A s \in Stmt : NeedsOf[s] = NeedsOver(s, Below(s, NeedsOf))
  BY <1>8 DEF Below
<1>10. QED
  BY <1>9, NeedsOverType DEF V

LEMMA NeedsBelow ==
  ASSUME NEW stmts \in Seq(Stmt), NEW s, Elements(stmts) \subseteq Children(s)
  PROVE  NeedsInTurn(stmts, Below(s, NeedsOf)) = Needs(stmts)
<1>1. \A i \in DOMAIN stmts : Below(s, NeedsOf)[stmts[i]] = NeedsOf[stmts[i]]
  BY ElementsOf DEF Below
<1>2. QED
  BY <1>1 DEF NeedsInTurn, Needs

LEMMA NeedsOfCases ==
  ASSUME IsAst(Stmt)
  PROVE  /\ \A s \in Simples : NeedsOf[s] = Uses[s.exp]
         /\ \A s \in Ifs : NeedsOf[s] = Uses[s.cond] \union Needs(s.then_stmts) \union Needs(s.else_stmts)
         /\ \A s \in Whiles : NeedsOf[s] = Uses[s.cond] \union Needs(s.body_stmts) \union Needs(s.otherwise_stmts)
         /\ \A s \in Repeats_ : NeedsOf[s] = Uses[s.cond] \union Needs(s.body_stmts)
         /\ \A s \in Fundecs : NeedsOf[s] = Needs(s.body) \ ({s.name} \union s.params)
<1>1. \A s \in Stmt : NeedsOf[s] = NeedsOver(s, Below(s, NeedsOf))
  BY NeedsOfDef
<1>2. \A s \in Simples : NeedsOf[s] = Uses[s.exp]
  BY <1>1, NeedsOverCases, SimpleShape
<1>3. ASSUME NEW s \in Ifs
      PROVE  NeedsOf[s] = Uses[s.cond] \union Needs(s.then_stmts) \union Needs(s.else_stmts)
  <2>1. /\ NeedsInTurn(s.then_stmts, Below(s, NeedsOf)) = Needs(s.then_stmts)
        /\ NeedsInTurn(s.else_stmts, Below(s, NeedsOf)) = Needs(s.else_stmts)
    BY IfShape, NeedsBelow
  <2>2. QED
    BY <1>1, <2>1, NeedsOverCases, IfShape
<1>4. ASSUME NEW s \in Whiles
      PROVE  NeedsOf[s] = Uses[s.cond] \union Needs(s.body_stmts) \union Needs(s.otherwise_stmts)
  <2>1. /\ NeedsInTurn(s.body_stmts, Below(s, NeedsOf)) = Needs(s.body_stmts)
        /\ NeedsInTurn(s.otherwise_stmts, Below(s, NeedsOf)) = Needs(s.otherwise_stmts)
    BY WhileShape, NeedsBelow
  <2>2. QED
    BY <1>1, <2>1, NeedsOverCases, WhileShape
<1>5. ASSUME NEW s \in Repeats_
      PROVE  NeedsOf[s] = Uses[s.cond] \union Needs(s.body_stmts)
  <2>1. NeedsInTurn(s.body_stmts, Below(s, NeedsOf)) = Needs(s.body_stmts)
    BY RepeatShape, NeedsBelow
  <2>2. QED
    BY <1>1, <2>1, NeedsOverCases, RepeatShape
<1>6. ASSUME NEW s \in Fundecs
      PROVE  NeedsOf[s] = Needs(s.body) \ ({s.name} \union s.params)
  <2>1. NeedsInTurn(s.body, Below(s, NeedsOf)) = Needs(s.body)
    BY FundecShape, NeedsBelow
  <2>2. QED
    BY <1>1, <2>1, NeedsOverCases, FundecShape
<1>7. QED
  BY <1>2, <1>3, <1>4, <1>5, <1>6

-----------------------------------------------------------------------------
(* The calls of dce_stmts, over any set S of statements that is closed     *)
(* under what the walk does: lifting the lists of an if and replacing the  *)
(* body of a function.                                                     *)
FundecsIn(S) == {s \in S : s.kind = "FundecStmt"}

Closed(S) ==
  /\ \A s \in S : s.kind = "IfStmt" => s.then_stmts \in Seq(S) /\ s.else_stmts \in Seq(S)
  /\ \A s \in FundecsIn(S) :
       s.body \in Seq(S) /\ \A body \in Seq(S) : [s EXCEPT !.body = body] \in FundecsIn(S)

FrameOf(S) == [stmts : Seq(S), it : Nat, performed_dce : BOOLEAN]

InList(f)  == f.it \in 1 .. End(f.stmts)
OnFundec(f) == f.it # End(f.stmts) /\ f.stmts[f.it].kind = "FundecStmt"

(* Where the model's ring keeps the iterators, and that a call that waits  *)
(* is at the declaration whose body the call above it walks.               *)
IteratorsStand ==
  \A k \in DOMAIN frames :
    InList(frames[k]) /\ (k < Len(frames) => OnFundec(frames[k]))

WalkOK(S) ==
  /\ frames \in Seq(FrameOf(S)) /\ frames # <<>>
  /\ IteratorsStand

LEMMA WalkParts ==
  ASSUME NEW S, WalkOK(S)
  PROVE  /\ frames \in Seq(FrameOf(S)) /\ Len(frames) \in Nat /\ Len(frames) > 0
         /\ \A k \in 1 .. Len(frames) : frames[k] \in FrameOf(S) /\ InList(frames[k])
         /\ \A k \in 1 .. Len(frames) - 1 : OnFundec(frames[k])
         /\ Top \in FrameOf(S) /\ InList(Top)
<1>1. frames \in Seq(FrameOf(S)) /\ Len(frames) \in Nat /\ Len(frames) > 0
  BY DEF WalkOK
<1>2. \A k \in 1 .. Len(frames) : frames[k] \in FrameOf(S) /\ InList(frames[k])
  BY <1>1 DEF WalkOK, IteratorsStand, InList
<1>3. \A k \in 1 .. Len(frames) - 1 : OnFundec(frames[k])
  BY <1>1 DEF WalkOK, IteratorsStand, OnFundec
<1>4. QED
  BY <1>1, <1>2, <1>3 DEF Top

(* The call that runs goes on with another list and iterator.              *)
LEMMA ContinueKeeps ==
  ASSUME NEW S, WalkOK(S), NEW stmts \in Seq(S), NEW it \in 1 .. End(stmts),
         NEW performed \in BOOLEAN, Continue(stmts, it, performed)
  PROVE  WalkOK(S)'
<1> DEFINE len == Len(frames)
           f   == [stmts |-> stmts, it |-> it, performed_dce |-> frames[len].performed_dce \/ performed]
<1>1. /\ frames \in Seq(FrameOf(S)) /\ len \in Nat /\ len > 0
      /\ \A k \in 1 .. len : frames[k] \in FrameOf(S) /\ InList(frames[k])
      /\ \A k \in 1 .. len - 1 : OnFundec(frames[k])
  BY WalkParts
<1>2. frames[len] \in FrameOf(S)
  BY <1>1
<1>3. f \in FrameOf(S) /\ InList(f)
  BY <1>2 DEF FrameOf, InList, End
<1>4. frames' = [frames EXCEPT ![len] = f]
  BY DEF Continue
<1> HIDE DEF f, len
<1>5. /\ frames' \in Seq(FrameOf(S)) /\ Len(frames') = len
      /\ \A k \in 1 .. len : frames'[k] = IF k = len THEN f ELSE frames[k]
  BY <1>1, <1>3, <1>4 DEF len
<1>6. QED
  BY <1>1, <1>3, <1>5 DEF WalkOK, IteratorsStand, InList, OnFundec, len

LEMMA ContinueFrames ==
  ASSUME NEW S, WalkOK(S), NEW stmts, NEW it, NEW performed, Continue(stmts, it, performed)
  PROVE  /\ Len(frames') = Len(frames)
         /\ \A k \in 1 .. Len(frames) - 1 : frames'[k] = frames[k]
         /\ frames'[Len(frames)].stmts = stmts /\ frames'[Len(frames)].it = it
         /\ frames'[Len(frames)].performed_dce = (Top.performed_dce \/ performed)
<1> DEFINE f == [stmts |-> stmts, it |-> it, performed_dce |-> frames[Len(frames)].performed_dce \/ performed]
<1>1. frames \in Seq(FrameOf(S)) /\ Len(frames) \in Nat /\ Len(frames) > 0
  BY WalkParts
<1>2. frames' = [frames EXCEPT ![Len(frames)] = f]
  BY DEF Continue
<1>3. f.stmts = stmts /\ f.it = it /\ f.performed_dce = (Top.performed_dce \/ performed)
  BY DEF Top
<1> HIDE DEF f
<1>4. /\ Len(frames') = Len(frames) /\ frames'[Len(frames)] = f
      /\ \A k \in 1 .. Len(frames) - 1 : frames'[k] = frames[k]
  BY <1>1, <1>2
<1>5. QED
  BY <1>3, <1>4

(* The lists around the iterator, and the steps it can take.               *)
LEMMA AtParts ==
  ASSUME NEW S, WalkOK(S), NEW kinds, At(kinds)
  PROVE  /\ Top \in FrameOf(S) /\ Top.stmts \in Seq(S)
         /\ Top.it \in 1 .. Len(Top.stmts) /\ Cur \in S /\ Cur.kind \in kinds
         /\ Before \in Seq(S) /\ Len(Before) = Top.it - 1
         /\ After \in Seq(S)
<1>1. Top \in FrameOf(S) /\ InList(Top)
  BY WalkParts
<1>2. Top.stmts \in Seq(S) /\ Top.it \in 1 .. Len(Top.stmts) /\ Cur.kind \in kinds
  BY <1>1 DEF At, FrameOf, InList, End
<1>3. Cur \in S
  BY <1>2 DEF Cur
<1>4. /\ Before \in Seq(S)
      /\ Len(Before) = IF 1 <= Top.it - 1 THEN Top.it - 1 - 1 + 1 ELSE 0
  <2>1. \A i \in 1 .. Top.it - 1 : Top.stmts[i] \in S
    BY <1>2
  <2>2. 1 \in Nat /\ Top.it - 1 \in Nat
    BY <1>2
  <2>3. QED
    BY <1>2, <2>1, <2>2, SubSeqProperties DEF Before
<1>5. After \in Seq(S)
  <2>1. \A i \in Top.it + 1 .. Len(Top.stmts) : Top.stmts[i] \in S
    BY <1>2
  <2>2. Top.it + 1 \in Nat /\ Len(Top.stmts) \in Nat
    BY <1>2
  <2>3. QED
    BY <1>2, <2>1, <2>2, SubSeqProperties DEF After
<1>6. QED
  BY <1>1, <1>2, <1>3, <1>4, <1>5

LEMMA SuccIn ==
  ASSUME NEW S, NEW stmts \in Seq(S), NEW it \in 1 .. End(stmts)
  PROVE  Succ(it, stmts) \in 1 .. End(stmts) /\ Pred(it, stmts) \in 1 .. End(stmts)
  BY DEF Succ, Pred, End

-----------------------------------------------------------------------------
(* One lemma for each kind of step.                                        *)

LEMMA StepOverKeeps ==
  ASSUME NEW S, Closed(S), WalkOK(S), StepOver
  PROVE  WalkOK(S)'
<1>1. PICK kinds \in {{"VardeclStmt", "AssignStmt", "CallStmt"}, {"IfStmt"},
                      {"WhileStmt", "RepeatStmt"}, {"RetStmt"}} : At(kinds)
  BY DEF StepOver
<1>2. Top.stmts \in Seq(S) /\ Top.it \in 1 .. End(Top.stmts)
  BY <1>1, AtParts DEF End
<1>3. Succ(Top.it, Top.stmts) \in 1 .. End(Top.stmts)
  BY <1>2, SuccIn
<1>4. Continue(Top.stmts, Succ(Top.it, Top.stmts), FALSE)
  BY DEF StepOver
<1>5. QED
  BY <1>2, <1>3, <1>4, ContinueKeeps

LEMMA LiftBranchKeeps ==
  ASSUME NEW S, Closed(S), WalkOK(S), LiftBranch
  PROVE  WalkOK(S)'
<1> DEFINE stmts == Before \o Taken \o After
           it    == Top.it + Len(Taken)
<1>1. /\ Top.it \in Nat \ {0} /\ Cur \in S /\ Cur.kind = "IfStmt"
      /\ Before \in Seq(S) /\ Len(Before) = Top.it - 1
      /\ After \in Seq(S)
  BY AtParts DEF LiftBranch
<1>2. Taken \in Seq(S)
  BY <1>1 DEF Taken, Closed
<1>3. stmts \in Seq(S) /\ Len(stmts) = Len(Before) + Len(Taken) + Len(After)
  <2> DEFINE front == Before \o Taken
  <2>1. front \in Seq(S) /\ Len(front) = Len(Before) + Len(Taken)
    BY <1>1, <1>2
  <2> HIDE DEF front
  <2>2. front \o After \in Seq(S) /\ Len(front \o After) = Len(front) + Len(After)
    BY <1>1, <2>1
  <2>3. QED
    BY <2>1, <2>2 DEF front
<1>4. it \in 1 .. End(stmts)
  <2>1. Len(Taken) \in Nat /\ Len(After) \in Nat
    BY <1>1, <1>2
  <2> HIDE DEF stmts
  <2>2. QED
    BY <1>1, <1>3, <2>1 DEF End
<1>5. Pred(it, stmts) \in 1 .. End(stmts)
  BY <1>3, <1>4, SuccIn
<1>6. Continue(stmts, Pred(it, stmts), TRUE)
  BY DEF LiftBranch
<1> HIDE DEF stmts, it
<1>7. QED
  BY <1>3, <1>5, <1>6, ContinueKeeps

LEMMA EraseLoopKeeps ==
  ASSUME NEW S, Closed(S), WalkOK(S), EraseLoop
  PROVE  WalkOK(S)'
<1> DEFINE stmts == Before \o After
<1>1. /\ Top.it \in Nat \ {0}
      /\ Before \in Seq(S) /\ Len(Before) = Top.it - 1
      /\ After \in Seq(S)
  BY AtParts DEF EraseLoop
<1>2. stmts \in Seq(S) /\ Len(stmts) = Len(Before) + Len(After) /\ Len(After) \in Nat
  BY <1>1
<1>3. Continue(stmts, Top.it, TRUE)
  BY DEF EraseLoop
<1> HIDE DEF stmts
<1>4. Top.it \in 1 .. End(stmts)
  BY <1>1, <1>2 DEF End
<1>5. QED
  BY <1>2, <1>3, <1>4, ContinueKeeps

(* After the rest of a list is gone its walk starts over.                  *)
LEMMA TruncateKeeps ==
  ASSUME NEW S, Closed(S), WalkOK(S), Truncate
  PROVE  WalkOK(S)'
<1> DEFINE stmts == Append(Before, Cur)
<1>1. Cur \in S /\ Before \in Seq(S)
  BY AtParts DEF Truncate
<1>2. stmts \in Seq(S)
  BY <1>1
<1>3. Continue(stmts, Succ(End(stmts), stmts), TRUE)
  BY DEF Truncate
<1> HIDE DEF stmts
<1>4. End(stmts) \in 1 .. End(stmts)
  BY <1>2 DEF End
<1>5. Succ(End(stmts), stmts) \in 1 .. End(stmts)
  BY <1>2, <1>4, SuccIn
<1>6. QED
  BY <1>2, <1>3, <1>5, ContinueKeeps

LEMMA CallType ==
  ASSUME NEW S, NEW stmts \in Seq(S)
  PROVE  Call(stmts) \in FrameOf(S) /\ InList(Call(stmts))
  BY DEF Call, FrameOf, InList, End

LEMMA EnterFrames ==
  ASSUME NEW S, WalkOK(S), EnterBody
  PROVE  /\ Len(frames') = Len(frames) + 1
         /\ \A k \in 1 .. Len(frames) : frames'[k] = frames[k]
         /\ frames'[Len(frames) + 1] = Call(Cur.body)
<1>1. frames \in Seq(FrameOf(S)) /\ Len(frames) \in Nat
  BY WalkParts
<1>2. frames' = Append(frames, Call(Cur.body))
  BY DEF EnterBody
<1>3. QED
  BY <1>1, <1>2

(* What LeaveBody makes of the call it returns to.                         *)
Resumed ==
  LET f == frames[Len(frames) - 1]
      stmts == [f.stmts EXCEPT ![f.it].body = Top.stmts]
  IN  [stmts |-> stmts, it |-> Succ(f.it, stmts), performed_dce |-> f.performed_dce \/ Top.performed_dce]

LEMMA LeaveFrames ==
  ASSUME NEW S, WalkOK(S), LeaveBody
  PROVE  /\ Len(frames) - 1 \in Nat /\ Len(frames) - 1 > 0 /\ Len(frames') = Len(frames) - 1
         /\ \A k \in 1 .. Len(frames) - 2 : frames'[k] = frames[k]
         /\ frames'[Len(frames) - 1] = Resumed
<1> DEFINE below == Len(frames) - 1
           rest  == SubSeq(frames, 1, below - 1)
<1>1. /\ frames \in Seq(FrameOf(S)) /\ Len(frames) \in Nat /\ Len(frames) > 1
      /\ \A k \in 1 .. Len(frames) : frames[k] \in FrameOf(S)
  BY WalkParts DEF LeaveBody
<1>2. below \in Nat /\ below > 0
  BY <1>1
<1>3. frames' = Append(rest, Resumed)
  BY DEF LeaveBody, Resumed
<1>4. /\ rest \in Seq(FrameOf(S))
      /\ Len(rest) = IF 1 <= below - 1 THEN below - 1 - 1 + 1 ELSE 0
      /\ \A k \in 1 .. below - 1 - 1 + 1 : rest[k] = frames[1 + k - 1]
  <2>1. \A k \in 1 .. below - 1 : frames[k] \in FrameOf(S)
    BY <1>1
  <2>2. below - 1 \in Int
    BY <1>2
  <2> HIDE DEF below
  <2>3. QED
    BY <2>1, <2>2, SubSeqProperties
<1> HIDE DEF below, rest
<1>5. Len(rest) = below - 1 /\ \A k \in 1 .. below - 1 : rest[k] = frames[k]
  BY <1>2, <1>4
<1>6. /\ Len(frames') = below /\ frames'[below] = Resumed
      /\ \A k \in 1 .. below - 1 : frames'[k] = frames[k]
  BY <1>2, <1>3, <1>4, <1>5
<1>7. QED
  BY <1>1, <1>2, <1>6 DEF below

(* The declaration stays under the iterator of the call that waits.        *)
LEMMA EnterBodyKeeps ==
  ASSUME NEW S, Closed(S), WalkOK(S), EnterBody
  PROVE  WalkOK(S)'
<1> DEFINE len == Len(frames)
           new == Call(Cur.body)
<1>1. /\ frames \in Seq(FrameOf(S)) /\ len \in Nat /\ len > 0
      /\ \A k \in 1 .. len : frames[k] \in FrameOf(S) /\ InList(frames[k])
      /\ \A k \in 1 .. len - 1 : OnFundec(frames[k])
  BY WalkParts
<1>2. Cur \in S /\ Cur.kind = "FundecStmt"
  BY AtParts DEF EnterBody
<1>3. OnFundec(frames[len])
  BY <1>2 DEF EnterBody, At, OnFundec, Cur, Top
<1>4. new \in FrameOf(S) /\ InList(new)
  BY <1>2, CallType DEF Closed, FundecsIn
<1>5. frames' = Append(frames, new)
  BY DEF EnterBody
<1> HIDE DEF len, new
<1>6. /\ frames' \in Seq(FrameOf(S)) /\ Len(frames') = len + 1
      /\ \A k \in 1 .. len + 1 : frames'[k] = IF k = len + 1 THEN new ELSE frames[k]
  BY <1>1, <1>4, <1>5 DEF len
<1>7. \A k \in 1 .. len : OnFundec(frames[k])
  BY <1>1, <1>3
<1>8. QED
  BY <1>1, <1>4, <1>6, <1>7 DEF WalkOK, IteratorsStand, InList, OnFundec

LEMMA LeaveBodyKeeps ==
  ASSUME NEW S, Closed(S), WalkOK(S), LeaveBody
  PROVE  WalkOK(S)'
<1> DEFINE below == Len(frames) - 1
           f     == frames[below]
           stmts == [f.stmts EXCEPT ![f.it].body = Top.stmts]
           new   == [stmts |-> stmts, it |-> Succ(f.it, stmts),
                     performed_dce |-> f.performed_dce \/ Top.performed_dce]
           rest  == SubSeq(frames, 1, below - 1)
<1>1. /\ frames \in Seq(FrameOf(S)) /\ Len(frames) \in Nat
      /\ \A k \in 1 .. Len(frames) : frames[k] \in FrameOf(S) /\ InList(frames[k])
      /\ \A k \in 1 .. Len(frames) - 1 : OnFundec(frames[k])
      /\ Top \in FrameOf(S) /\ Len(frames) > 1
  BY WalkParts DEF LeaveBody
<1>2. below \in Nat /\ below > 0
  BY <1>1
<1>3. f \in FrameOf(S) /\ InList(f) /\ OnFundec(f)
  BY <1>1, <1>2
<1>4. frames' = Append(rest, new)
  BY DEF LeaveBody
<1>5. /\ f.stmts \in Seq(S) /\ f.it \in 1 .. Len(f.stmts)
      /\ f.stmts[f.it] \in FundecsIn(S) /\ Top.stmts \in Seq(S)
  BY <1>1, <1>3 DEF FrameOf, InList, OnFundec, End, FundecsIn
<1>6. [f.stmts[f.it] EXCEPT !.body = Top.stmts] \in S
  BY <1>5 DEF Closed, FundecsIn
<1>7. stmts \in Seq(S) /\ Len(stmts) = Len(f.stmts)
  BY <1>5, <1>6
<1>8. new \in FrameOf(S) /\ InList(new)
  <2>1. f.it \in 1 .. End(stmts)
    BY <1>5, <1>7 DEF End
  <2>2. Succ(f.it, stmts) \in 1 .. End(stmts)
    BY <1>7, <2>1, SuccIn
  <2>3. f.performed_dce \/ Top.performed_dce \in BOOLEAN
    BY <1>1, <1>3 DEF FrameOf
  <2> HIDE DEF stmts, f
  <2>4. QED
    BY <1>7, <2>2, <2>3 DEF FrameOf, InList, End
<1>9. /\ rest \in Seq(FrameOf(S))
      /\ Len(rest) = IF 1 <= below - 1 THEN below - 1 - 1 + 1 ELSE 0
      /\ \A k \in 1 .. below - 1 - 1 + 1 : rest[k] = frames[1 + k - 1]
  <2>1. \A k \in 1 .. below - 1 : frames[k] \in FrameOf(S)
    BY <1>1
  <2>2. below - 1 \in Int
    BY <1>2
  <2> HIDE DEF below
  <2>3. QED
    BY <2>1, <2>2, SubSeqProperties
<1>10. \A k \in 1 .. below - 1 : frames[k] \in FrameOf(S) /\ InList(frames[k]) /\ OnFundec(frames[k])
  BY <1>1
<1> HIDE DEF below, new, rest
<1>11. Len(rest) = below - 1 /\ \A k \in 1 .. below - 1 : rest[k] = frames[k]
  BY <1>2, <1>9
<1>12. /\ frames' \in Seq(FrameOf(S)) /\ Len(frames') = below
       /\ \A k \in 1 .. below : frames'[k] = IF k = below THEN new ELSE frames[k]
  BY <1>2, <1>4, <1>8, <1>9, <1>11
<1>13. QED
  BY <1>2, <1>8, <1>10, <1>12 DEF WalkOK, IteratorsStand, InList, OnFundec

LEMMA StartKeeps ==
  ASSUME NEW S, NEW stmts \in Seq(S), frames = <<Call(stmts)>>
  PROVE  WalkOK(S)
<1>1. Call(stmts) \in FrameOf(S) /\ InList(Call(stmts))
  BY CallType
<1>2. QED
  BY <1>1 DEF WalkOK, IteratorsStand, InList

LEMMA AgainKeeps ==
  ASSUME NEW S, NEW stmts \in Seq(S), frames' = <<Call(stmts)>>
  PROVE  WalkOK(S)'
<1>1. Call(stmts) \in FrameOf(S) /\ InList(Call(stmts))
  BY CallType
<1>2. QED
  BY <1>1 DEF WalkOK, IteratorsStand, InList

LEMMA StepKeeps ==
  ASSUME NEW S, Closed(S), WalkOK(S), Step
  PROVE  WalkOK(S)'
BY StepOverKeeps, LiftBranchKeeps, EraseLoopKeeps, TruncateKeeps, EnterBodyKeeps, LeaveBodyKeeps DEF Step

LEMMA StmtClosed ==
  ASSUME IsAst(Stmt)
  PROVE  Closed(Stmt)
<1>1. ASSUME NEW s \in Stmt, s.kind = "IfStmt" PROVE s.then_stmts \in Seq(Stmt) /\ s.else_stmts \in Seq(Stmt)
  <2>1. s \in Ifs
    BY <1>1, Kinds DEF Simples, Whiles, Repeats_, Fundecs
  <2>2. QED
    BY <2>1, IfShape
<1>2. ASSUME NEW s \in FundecsIn(Stmt)
      PROVE  s.body \in Seq(Stmt) /\ \A body \in Seq(Stmt) : [s EXCEPT !.body = body] \in FundecsIn(Stmt)
  <2>1. s \in Fundecs
    BY <1>2, Kinds DEF Simples, Whiles, Repeats_, Ifs, FundecsIn
  <2>2. ASSUME NEW body \in Seq(Stmt) PROVE [s EXCEPT !.body = body] \in FundecsIn(Stmt)
    <3>1. [s EXCEPT !.body = body] \in Fundecs
      BY <2>1 DEF Fundecs
    <3>2. QED
      BY <3>1, FundecShape DEF FundecsIn
  <2>3. QED
    BY <2>1, <2>2, FundecShape
<1>3. QED
  BY <1>1, <1>2 DEF Closed

-----------------------------------------------------------------------------
(* The statements in which nothing folds.                                  *)
Fixed == {s \in Stmt : FoldStmt[s] = s}

LEMMA FixedLists ==
  ASSUME IsAst(Stmt), NEW stmts \in Seq(Stmt)
  PROVE  FoldStmts(stmts) = stmts <=> stmts \in Seq(Fixed)
<1>1. /\ FoldStmts(stmts) \in Seq(Stmt) /\ Len(FoldStmts(stmts)) = Len(stmts)
      /\ \A i \in 1 .. Len(stmts) : FoldStmts(stmts)[i] = FoldStmt[stmts[i]]
  BY FoldStmtsType
<1>2. \A i \in 1 .. Len(stmts) : stmts[i] \in Stmt
  OBVIOUS
<1>3. ASSUME FoldStmts(stmts) = stmts PROVE stmts \in Seq(Fixed)
  <2>1. \A i \in 1 .. Len(stmts) : stmts[i] \in Fixed
    BY <1>1, <1>2, <1>3 DEF Fixed
  <2>2. QED
    BY <2>1
<1>4. ASSUME stmts \in Seq(Fixed) PROVE FoldStmts(stmts) = stmts
  <2>1. \A i \in 1 .. Len(stmts) : stmts[i] \in Fixed
    BY <1>4
  <2>2. \A i \in 1 .. Len(stmts) : FoldStmts(stmts)[i] = stmts[i]
    BY <1>1, <2>1 DEF Fixed
  <2>3. QED
    BY <1>1, <2>2
<1>5. QED
  BY <1>3, <1>4

(* Folding a statement twice is folding it once.                           *)
LEMMA FoldEachTwice ==
  ASSUME IsAst(Stmt), NEW stmts \in Seq(Stmt), \A t \in Elements(stmts) : FoldStmt[t] \in Fixed
  PROVE  FoldStmts(stmts) \in Seq(Fixed) /\ FoldStmts(FoldStmts(stmts)) = FoldStmts(stmts)
<1>1. /\ FoldStmts(stmts) \in Seq(Stmt) /\ Len(FoldStmts(stmts)) = Len(stmts)
      /\ \A i \in 1 .. Len(stmts) : FoldStmts(stmts)[i] = FoldStmt[stmts[i]]
  BY FoldStmtsType
<1>2. \A i \in 1 .. Len(stmts) : FoldStmts(stmts)[i] \in Fixed
  BY <1>1, ElementsOf
<1>3. FoldStmts(stmts) \in Seq(Fixed)
  BY <1>1, <1>2
<1>4. QED
  BY <1>1, <1>3, FixedLists

LEMMA FoldStmtTwice ==
  ASSUME IsAst(Stmt)
  PROVE  \A s \in Stmt : FoldStmt[s] \in Fixed
<1> DEFINE A == {s \in Stmt : FoldStmt[s] \in Fixed}
<1>1. \A e \in Exp : Folded[e] \in Exp /\ Folded[Folded[e]] = Folded[e]
  BY FoldedAssumption
<1>2. ASSUME NEW s \in Simples PROVE FoldStmt[s] \in Fixed
  <2> DEFINE d == [s EXCEPT !.exp = Folded[s.exp]]
  <2>1. s.exp \in Exp
    BY SimpleShape
  <2>2. d \in Simples /\ d.exp = Folded[s.exp] /\ [d EXCEPT !.exp = d.exp] = d
    BY <1>1, <2>1 DEF Simples
  <2> HIDE DEF d
  <2>3. FoldStmt[d] = d
    BY <1>1, <2>1, <2>2, FoldStmtCases
  <2>4. FoldStmt[s] = d
    BY FoldStmtCases DEF d
  <2>5. QED
    BY <2>2, <2>3, <2>4, SimpleShape DEF Fixed
<1>3. ASSUME NEW s \in Stmt, Children(s) \subseteq A, NEW stmts \in Seq(Stmt), Elements(stmts) \subseteq Children(s)
      PROVE  FoldStmts(stmts) \in Seq(Stmt) /\ FoldStmts(FoldStmts(stmts)) = FoldStmts(stmts)
  <2>1. \A t \in Elements(stmts) : FoldStmt[t] \in Fixed
    BY <1>3
  <2>2. QED
    BY <2>1, FoldEachTwice, FoldStmtsType
<1>4. ASSUME NEW s \in Ifs, Children(s) \subseteq A PROVE FoldStmt[s] \in Fixed
  <2>1. /\ s \in Stmt /\ s.cond \in Exp /\ s.then_stmts \in Seq(Stmt) /\ s.else_stmts \in Seq(Stmt)
        /\ Elements(s.then_stmts) \subseteq Children(s) /\ Elements(s.else_stmts) \subseteq Children(s)
    BY IfShape
  <2> DEFINE c == Folded[s.cond]
             a == FoldStmts(s.then_stmts)
             b == FoldStmts(s.else_stmts)
             d == [kind |-> "IfStmt", cond |-> c, then_stmts |-> a, else_stmts |-> b]
  <2>2. /\ c \in Exp /\ Folded[c] = c /\ a \in Seq(Stmt) /\ FoldStmts(a) = a
        /\ b \in Seq(Stmt) /\ FoldStmts(b) = b
    BY <1>1, <1>3, <1>4, <2>1
  <2>3. FoldStmt[s] = d
    BY FoldStmtCases
  <2> HIDE DEF a, b, c
  <2>4. d \in Ifs /\ d.cond = c /\ d.then_stmts = a /\ d.else_stmts = b
    BY <2>2 DEF Ifs
  <2>5. FoldStmt[d] = d
    BY <2>2, <2>4, FoldStmtCases
  <2> HIDE DEF d
  <2>6. QED
    BY <2>3, <2>4, <2>5, IfShape DEF Fixed
<1>5. ASSUME NEW s \in Whiles, Children(s) \subseteq A PROVE FoldStmt[s] \in Fixed
  <2>1. /\ s \in Stmt /\ s.cond \in Exp /\ s.body_stmts \in Seq(Stmt) /\ s.otherwise_stmts \in Seq(Stmt)
        /\ Elements(s.body_stmts) \subseteq Children(s) /\ Elements(s.otherwise_stmts) \subseteq Children(s)
    BY WhileShape
  <2> DEFINE c == Folded[s.cond]
             a == FoldStmts(s.body_stmts)
             b == FoldStmts(s.otherwise_stmts)
             d == [kind |-> "WhileStmt", cond |-> c, body_stmts |-> a, otherwise_stmts |-> b]
  <2>2. /\ c \in Exp /\ Folded[c] = c /\ a \in Seq(Stmt) /\ FoldStmts(a) = a
        /\ b \in Seq(Stmt) /\ FoldStmts(b) = b
    BY <1>1, <1>3, <1>5, <2>1
  <2>3. FoldStmt[s] = d
    BY FoldStmtCases
  <2> HIDE DEF a, b, c
  <2>4. d \in Whiles /\ d.cond = c /\ d.body_stmts = a /\ d.otherwise_stmts = b
    BY <2>2 DEF Whiles
  <2>5. FoldStmt[d] = d
    BY <2>2, <2>4, FoldStmtCases
  <2> HIDE DEF d
  <2>6. QED
    BY <2>3, <2>4, <2>5, WhileShape DEF Fixed
<1>6. ASSUME NEW s \in Repeats_, Children(s) \subseteq A PROVE FoldStmt[s] \in Fixed
  <2>1. /\ s \in Stmt /\ s.cond \in Exp /\ s.body_stmts \in Seq(Stmt)
        /\ Elements(s.body_stmts) \subseteq Children(s)
    BY RepeatShape
  <2> DEFINE c == Folded[s.cond]
             a == FoldStmts(s.body_stmts)
             d == [kind |-> "RepeatStmt", cond |-> c, body_stmts |-> a]
  <2>2. c \in Exp /\ Folded[c] = c /\ a \in Seq(Stmt) /\ FoldStmts(a) = a
    BY <1>1, <1>3, <1>6, <2>1
  <2>3. FoldStmt[s] = d
    BY FoldStmtCases
  <2> HIDE DEF a, c
  <2>4. d \in Repeats_ /\ d.cond = c /\ d.body_stmts = a
    BY <2>2 DEF Repeats_
  <2>5. FoldStmt[d] = d
    BY <2>2, <2>4, FoldStmtCases
  <2> HIDE DEF d
  <2>6. QED
    BY <2>3, <2>4, <2>5, RepeatShape DEF Fixed
<1>7. ASSUME NEW s \in Fundecs, Children(s) \subseteq A PROVE FoldStmt[s] \in Fixed
  <2>1. /\ s \in Stmt /\ s.name \in Names /\ s.params \in SUBSET Names /\ s.body \in Seq(Stmt)
        /\ Elements(s.body) \subseteq Children(s)
    BY FundecShape
  <2> DEFINE a == FoldStmts(s.body)
             d == [kind |-> "FundecStmt", name |-> s.name, params |-> s.params, body |-> a]
  <2>2. a \in Seq(Stmt) /\ FoldStmts(a) = a
    BY <1>3, <1>7, <2>1
  <2>3. FoldStmt[s] = d
    BY FoldStmtCases
  <2> HIDE DEF a
  <2>4. d \in Fundecs /\ d.name = s.name /\ d.params = s.params /\ d.body = a
    BY <2>1, <2>2 DEF Fundecs
  <2>5. FoldStmt[d] = d
    BY <2>2, <2>4, FoldStmtCases
  <2> HIDE DEF d
  <2>6. QED
    BY <2>3, <2>4, <2>5, FundecShape DEF Fixed
<1>8. ASSUME NEW s \in Stmt, Children(s) \subseteq A PROVE s \in A
  BY <1>2, <1>4, <1>5, <1>6, <1>7, <1>8, Kinds
<1> HIDE DEF A
<1>9. Stmt \subseteq A
  BY <1>8, StmtInduction
<1>10. QED
  BY <1>9 DEF A

LEMMA FoldTwice ==
  ASSUME IsAst(Stmt), NEW stmts \in Seq(Stmt)
  PROVE  FoldStmts(stmts) \in Seq(Fixed)
<1>1. \A t \in Elements(stmts) : FoldStmt[t] \in Fixed
  BY ElementsOf, FoldStmtTwice
<1>2. QED
  BY <1>1, FoldEachTwice

LEMMA ProjectIf ==
  ASSUME NEW s, NEW c, NEW a, NEW b, s = [kind |-> "IfStmt", cond |-> c, then_stmts |-> a, else_stmts |-> b]
  PROVE  s.then_stmts = a /\ s.else_stmts = b
OBVIOUS

LEMMA ProjectFundec ==
  ASSUME NEW s, NEW n, NEW p, NEW b, s = [kind |-> "FundecStmt", name |-> n, params |-> p, body |-> b]
  PROVE  s.body = b
OBVIOUS

LEMMA FixedClosed ==
  ASSUME IsAst(Stmt)
  PROVE  Closed(Fixed)
<1>1. ASSUME NEW s \in Fixed, s.kind = "IfStmt" PROVE s.then_stmts \in Seq(Fixed) /\ s.else_stmts \in Seq(Fixed)
  <2>1. s \in Ifs /\ FoldStmt[s] = s
    BY <1>1, Kinds DEF Simples, Whiles, Repeats_, Fundecs, Fixed
  <2>2. s = [kind |-> "IfStmt", cond |-> Folded[s.cond],
              then_stmts |-> FoldStmts(s.then_stmts), else_stmts |-> FoldStmts(s.else_stmts)]
    BY <2>1, FoldStmtCases
  <2>3. FoldStmts(s.then_stmts) = s.then_stmts /\ FoldStmts(s.else_stmts) = s.else_stmts
    BY <2>2, ProjectIf
  <2>4. QED
    BY <2>1, <2>3, IfShape, FixedLists
<1>2. ASSUME NEW s \in FundecsIn(Fixed)
      PROVE  s.body \in Seq(Fixed) /\ \A body \in Seq(Fixed) : [s EXCEPT !.body = body] \in FundecsIn(Fixed)
  <2>1. s \in Fundecs /\ FoldStmt[s] = s
    BY <1>2, Kinds DEF Simples, Whiles, Repeats_, Ifs, FundecsIn, Fixed
  <2>2. FoldStmts(s.body) = s.body
    <3>1. s = [kind |-> "FundecStmt", name |-> s.name, params |-> s.params, body |-> FoldStmts(s.body)]
      BY <2>1, FoldStmtCases
    <3>2. QED
      BY <3>1, ProjectFundec
  <2>3. s.body \in Seq(Fixed)
    BY <2>1, <2>2, FundecShape, FixedLists
  <2>4. ASSUME NEW body \in Seq(Fixed) PROVE [s EXCEPT !.body = body] \in FundecsIn(Fixed)
    <3>1. body \in Seq(Stmt)
      BY DEF Fixed
    <3>2. FoldStmts(body) = body
      BY <3>1, FixedLists
    <3> DEFINE d == [s EXCEPT !.body = body]
    <3>3. d \in Fundecs /\ d = [kind |-> "FundecStmt", name |-> s.name, params |-> s.params, body |-> body]
          /\ d.name = s.name /\ d.params = s.params /\ d.body = body
      BY <2>1, <3>1 DEF Fundecs
    <3> HIDE DEF d
    <3>4. FoldStmt[d] = d
      BY <3>2, <3>3, FoldStmtCases
    <3>5. d \in FundecsIn(Fixed)
      BY <3>3, <3>4, FundecShape DEF FundecsIn, Fixed
    <3>6. QED
      BY <3>5 DEF d
  <2>5. QED
    BY <2>3, <2>4
<1>3. QED
  BY <1>1, <1>2 DEF Closed

-----------------------------------------------------------------------------
(* A call that has removed nothing has walked over what needs nothing.     *)
CleanAt(stmts, i) == CleanStmt[stmts[i]] /\ (stmts[i].kind = "RetStmt" => i = Len(stmts))

CleanSoFar(f) == ~ f.performed_dce => \A i \in 1 .. f.it - 1 : CleanAt(f.stmts, i)

AllCleanSoFar == \A k \in 1 .. Len(frames) : CleanSoFar(frames[k])

LEMMA Removes ==
  ASSUME WalkOK(Stmt), AllCleanSoFar, NEW stmts, NEW it, Continue(stmts, it, TRUE)
  PROVE  AllCleanSoFar'
<1> DEFINE len == Len(frames)
<1>1. len \in Nat /\ len > 0
  BY WalkParts
<1>2. /\ Len(frames') = len /\ \A k \in 1 .. len - 1 : frames'[k] = frames[k]
      /\ frames'[len].performed_dce = (Top.performed_dce \/ TRUE)
  BY ContinueFrames
<1> HIDE DEF len
<1>3. CleanSoFar(frames'[len])
  BY <1>2 DEF CleanSoFar
<1>4. \A k \in 1 .. len - 1 : CleanSoFar(frames'[k])
  BY <1>1, <1>2 DEF AllCleanSoFar, len
<1>5. QED
  BY <1>1, <1>2, <1>3, <1>4 DEF AllCleanSoFar

LEMMA StepOverClean ==
  ASSUME IsAst(Stmt), WalkOK(Stmt), AllCleanSoFar, StepOver
  PROVE  AllCleanSoFar'
<1> DEFINE len == Len(frames)
           stmts == Top.stmts
           it == Top.it
<1>1. len \in Nat /\ len > 0 /\ Top = frames[len]
  BY WalkParts DEF Top
<1>2. stmts \in Seq(Stmt) /\ it \in 1 .. Len(stmts) /\ Cur \in Stmt
  BY AtParts DEF StepOver
<1>3. Continue(stmts, it + 1, FALSE)
  <2>1. Succ(it, stmts) = it + 1
    <3> HIDE DEF it, stmts
    <3>1. QED
      BY <1>2 DEF Succ, End
  <2>2. Continue(stmts, Succ(it, stmts), FALSE)
    BY DEF StepOver
  <2> HIDE DEF it, stmts
  <2>3. QED
    BY <2>1, <2>2
<1>4. /\ Len(frames') = len /\ \A k \in 1 .. len - 1 : frames'[k] = frames[k]
      /\ frames'[len].stmts = stmts /\ frames'[len].it = it + 1
      /\ frames'[len].performed_dce = (Top.performed_dce \/ FALSE)
  BY <1>3, ContinueFrames
<1>5. CleanAt(stmts, it)
  <2>1. CASE At({"VardeclStmt", "AssignStmt", "CallStmt"})
    <3>1. Cur \in Simples /\ Cur.kind # "RetStmt"
      BY <1>2, <2>1, Kinds DEF At, Ifs, Whiles, Repeats_, Fundecs
    <3>2. QED
      BY <3>1, CleanStmtCases DEF CleanAt, Cur
  <2>2. CASE At({"IfStmt"}) /\ Cur.cond \notin Zero \union NonZero
    <3>1. Cur \in Ifs /\ Cur.kind # "RetStmt"
      BY <1>2, <2>2, Kinds DEF At, Simples, Whiles, Repeats_, Fundecs
    <3>2. QED
      BY <2>2, <3>1, CleanStmtCases DEF CleanAt, Cur
  <2>3. CASE At({"WhileStmt", "RepeatStmt"}) /\ Cur.cond \notin Zero
    <3>1. Cur \in Whiles \union Repeats_ /\ Cur.kind # "RetStmt"
      BY <1>2, <2>3, Kinds DEF At, Simples, Ifs, Fundecs
    <3>2. QED
      BY <2>3, <3>1, CleanStmtCases DEF CleanAt, Cur
  <2>4. CASE At({"RetStmt"}) /\ After = <<>>
    <3>1. Cur \in Simples
      BY <1>2, <2>4, Kinds DEF At, Ifs, Whiles, Repeats_, Fundecs
    <3>2. it = Len(stmts)
      <4>1. Len(SubSeq(stmts, it + 1, Len(stmts))) = IF it + 1 <= Len(stmts) THEN Len(stmts) - (it + 1) + 1 ELSE 0
        <5>1. \A i \in it + 1 .. Len(stmts) : stmts[i] \in Stmt
          BY <1>2
        <5>2. it + 1 \in Nat /\ Len(stmts) \in Nat
          BY <1>2
        <5> HIDE DEF stmts, it
        <5>3. QED
          BY <1>2, <5>1, <5>2, SubSeqProperties
      <4>2. Len(After) = 0
        BY <2>4
      <4>3. QED
        BY <1>2, <4>1, <4>2 DEF After
    <3>3. QED
      BY <3>1, <3>2, CleanStmtCases DEF CleanAt, Cur
  <2>5. QED
    BY <2>1, <2>2, <2>3, <2>4 DEF StepOver
<1>6. ~ Top.performed_dce => \A i \in 1 .. it - 1 : CleanAt(stmts, i)
  BY <1>1 DEF AllCleanSoFar, CleanSoFar
<1>7. CleanSoFar(frames'[len])
  <2> HIDE DEF stmts, it
  <2>1. \A i \in 1 .. (it + 1) - 1 : i = it \/ i \in 1 .. it - 1
    BY <1>2
  <2>2. QED
    BY <1>4, <1>5, <1>6, <2>1 DEF CleanSoFar
<1>8. \A k \in 1 .. len - 1 : CleanSoFar(frames'[k])
  BY <1>1, <1>4 DEF AllCleanSoFar
<1> HIDE DEF len
<1>9. QED
  BY <1>1, <1>4, <1>7, <1>8 DEF AllCleanSoFar

LEMMA EnterClean ==
  ASSUME WalkOK(Stmt), AllCleanSoFar, EnterBody
  PROVE  AllCleanSoFar'
<1> DEFINE len == Len(frames)
<1>1. len \in Nat /\ len > 0
  BY WalkParts
<1>2. /\ Len(frames') = len + 1 /\ \A k \in 1 .. len : frames'[k] = frames[k]
      /\ frames'[len + 1] = Call(Cur.body)
  BY EnterFrames
<1>3. CleanSoFar(Call(Cur.body))
  BY DEF CleanSoFar, Call
<1>4. \A k \in 1 .. len : CleanSoFar(frames'[k])
  BY <1>2 DEF AllCleanSoFar
<1> HIDE DEF len
<1>5. QED
  BY <1>1, <1>2, <1>3, <1>4 DEF AllCleanSoFar

LEMMA LeaveClean ==
  ASSUME IsAst(Stmt), WalkOK(Stmt), AllCleanSoFar, LeaveBody
  PROVE  AllCleanSoFar'
<1> DEFINE n == Len(frames) - 1
           f == frames[n]
           stmts == [f.stmts EXCEPT ![f.it].body = Top.stmts]
           d == [f.stmts[f.it] EXCEPT !.body = Top.stmts]
<1>1. /\ n \in Nat /\ n > 0 /\ Len(frames') = n
      /\ \A k \in 1 .. n - 1 : frames'[k] = frames[k]
      /\ frames'[n] = Resumed
  BY LeaveFrames
<1>2. Resumed.stmts = stmts /\ Resumed.it = Succ(f.it, stmts)
      /\ Resumed.performed_dce = (f.performed_dce \/ Top.performed_dce)
  BY DEF Resumed
<1>3. f \in FrameOf(Stmt) /\ InList(f) /\ OnFundec(f) /\ Top \in FrameOf(Stmt)
  BY <1>1, WalkParts
<1>4. /\ f.stmts \in Seq(Stmt) /\ f.it \in 1 .. Len(f.stmts)
      /\ f.stmts[f.it] \in FundecsIn(Stmt) /\ Top.stmts \in Seq(Stmt)
  BY <1>3 DEF FrameOf, InList, OnFundec, End, FundecsIn
<1>5. d \in FundecsIn(Stmt) /\ d.body = Top.stmts
  <2>1. d \in FundecsIn(Stmt)
    BY <1>4, StmtClosed DEF Closed
  <2>2. f.stmts[f.it] \in Fundecs
    BY <1>4, Kinds DEF Simples, Whiles, Repeats_, Ifs, FundecsIn
  <2>3. QED
    BY <2>1, <2>2 DEF Fundecs
<1>6. /\ Len(stmts) = Len(f.stmts) /\ stmts[f.it] = d
      /\ \A i \in 1 .. Len(f.stmts) : i # f.it => stmts[i] = f.stmts[i]
  BY <1>4
<1>7. Succ(f.it, stmts) = f.it + 1
  BY <1>4, <1>6 DEF Succ, End
<1>8. ASSUME ~ (f.performed_dce \/ Top.performed_dce) PROVE \A i \in 1 .. f.it : CleanAt(stmts, i)
  <2>1. \A i \in 1 .. Top.it - 1 : CleanAt(Top.stmts, i)
    BY <1>1, <1>8 DEF AllCleanSoFar, CleanSoFar, Top
  <2>2. Top.it = End(Top.stmts)
    BY DEF LeaveBody
  <2>3. Clean(Top.stmts)
    BY <1>4, <2>1, <2>2 DEF Clean, EachClean, CleanAt, End
  <2>4. CleanStmt[d] /\ d.kind # "RetStmt"
    <3>1. d \in Fundecs
      BY <1>5, Kinds DEF Simples, Whiles, Repeats_, Ifs, FundecsIn
    <3> HIDE DEF d
    <3>2. QED
      BY <1>5, <2>3, <3>1, CleanStmtCases DEF FundecsIn
  <2>5. \A i \in 1 .. f.it - 1 : CleanAt(f.stmts, i)
    BY <1>1, <1>8 DEF AllCleanSoFar, CleanSoFar
  <2> HIDE DEF stmts, d, f
  <2>6. \A i \in 1 .. f.it - 1 : CleanAt(stmts, i)
    BY <1>4, <1>6, <2>5 DEF CleanAt
  <2>7. CleanAt(stmts, f.it)
    BY <1>6, <2>4 DEF CleanAt
  <2>8. \A i \in 1 .. f.it : i = f.it \/ i \in 1 .. f.it - 1
    BY <1>4
  <2>9. QED
    BY <2>6, <2>7, <2>8
<1> HIDE DEF stmts, d
<1>9. CleanSoFar(Resumed)
  <2> HIDE DEF f
  <2>1. SUFFICES ASSUME ~ Resumed.performed_dce PROVE \A i \in 1 .. Resumed.it - 1 : CleanAt(Resumed.stmts, i)
    BY DEF CleanSoFar
  <2>2. ~ (f.performed_dce \/ Top.performed_dce)
    BY <1>2, <2>1
  <2>3. \A i \in 1 .. f.it : CleanAt(stmts, i)
    BY <1>8, <2>2
  <2>4. Resumed.stmts = stmts /\ Resumed.it - 1 = f.it
    BY <1>2, <1>4, <1>7
  <2>5. QED
    BY <2>3, <2>4
<1>10. \A k \in 1 .. n - 1 : CleanSoFar(frames'[k])
  BY <1>1 DEF AllCleanSoFar
<1> HIDE DEF n
<1>11. QED
  BY <1>1, <1>9, <1>10 DEF AllCleanSoFar

LEMMA StepClean ==
  ASSUME IsAst(Stmt), WalkOK(Stmt), AllCleanSoFar, Step
  PROVE  AllCleanSoFar'
<1>1. CASE LiftBranch
  BY <1>1, Removes DEF LiftBranch
<1>2. CASE EraseLoop
  BY <1>2, Removes DEF EraseLoop
<1>3. CASE Truncate
  BY <1>3, Removes DEF Truncate
<1>4. QED
  BY <1>1, <1>2, <1>3, StepOverClean, EnterClean, LeaveClean DEF Step

-----------------------------------------------------------------------------
(* The loop.  dce_stmts walks statements in which nothing folds any more,  *)
(* and what a call has passed without removing anything is clean.          *)
LoopInv ==
  /\ WalkOK(Stmt)
  /\ phase \in {"fold", "dce", "done"} /\ should_optimize \in BOOLEAN
  /\ phase # "dce" => Len(frames) = 1
  /\ phase = "dce" => AllCleanSoFar /\ WalkOK(Fixed)
  /\ phase = "done" => Clean(Top.stmts) /\ Top.stmts \in Seq(Fixed)

LEMMA LoopInit ==
  ASSUME Programs \subseteq Seq(Stmt), Init
  PROVE  LoopInv
<1>1. PICK p \in Programs : frames = <<Call(p)>>
  BY DEF Init
<1>2. WalkOK(Stmt) /\ Len(frames) = 1
  BY <1>1, StartKeeps
<1>3. QED
  BY <1>2 DEF Init, LoopInv

LEMMA FoldAllKeeps ==
  ASSUME IsAst(Stmt), LoopInv, FoldAll
  PROVE  LoopInv'
<1> DEFINE new == FoldStmts(Top.stmts)
<1>1. Top.stmts \in Seq(Stmt)
  BY WalkParts DEF LoopInv, FrameOf
<1>2. new \in Seq(Stmt)
  BY <1>1, FoldStmtsType
<1>3. frames' = <<Call(new)>>
  BY DEF FoldAll
<1>4. phase' = "dce" /\ should_optimize' \in BOOLEAN
  BY DEF FoldAll
<1>5. WalkOK(Stmt)'
  BY <1>2, <1>3, AgainKeeps
<1>6. WalkOK(Fixed)'
  <2>1. new \in Seq(Fixed)
    BY <1>1, FoldTwice
  <2>2. QED
    BY <1>3, <2>1, AgainKeeps
<1> HIDE DEF new
<1>7. AllCleanSoFar'
  <2>1. CleanSoFar(Call(new))
    BY DEF CleanSoFar, Call
  <2>2. QED
    BY <1>3, <2>1 DEF AllCleanSoFar
<1>8. QED
  BY <1>4, <1>5, <1>6, <1>7 DEF LoopInv

LEMMA DceStepKeeps ==
  ASSUME IsAst(Stmt), LoopInv, DceStep
  PROVE  LoopInv'
<1>1. phase' = "dce" /\ should_optimize' = should_optimize /\ should_optimize \in BOOLEAN /\ Step
  BY DEF DceStep, LoopInv
<1>2. WalkOK(Stmt) /\ AllCleanSoFar /\ WalkOK(Fixed)
  BY DEF DceStep, LoopInv
<1>3. WalkOK(Stmt)'
  BY <1>1, <1>2, StmtClosed, StepKeeps
<1>4. AllCleanSoFar'
  BY <1>1, <1>2, StepClean
<1>5. WalkOK(Fixed)'
  BY <1>1, <1>2, FixedClosed, StepKeeps
<1>6. QED
  BY <1>1, <1>3, <1>4, <1>5 DEF LoopInv

LEMMA NextTurnKeeps ==
  ASSUME IsAst(Stmt), LoopInv, NextTurn
  PROVE  LoopInv'
<1>1. /\ frames' = frames /\ Len(frames) = 1 /\ Top.it = End(Top.stmts)
      /\ WalkOK(Stmt) /\ AllCleanSoFar /\ WalkOK(Fixed)
      /\ should_optimize' = (should_optimize \/ Top.performed_dce)
      /\ phase' = IF should_optimize' THEN "fold" ELSE "done"
  BY DEF NextTurn, Returned, LoopInv
<1>2. WalkOK(Stmt)'
  BY <1>1 DEF WalkOK, IteratorsStand
<1>3. should_optimize' \in BOOLEAN
  BY <1>1, WalkParts DEF LoopInv, FrameOf
<1>4. ASSUME phase' = "done" PROVE Clean(Top.stmts) /\ Top.stmts \in Seq(Fixed)
  <2>1. ~ should_optimize /\ ~ Top.performed_dce
    BY <1>1, <1>4
  <2>2. Top.stmts \in Seq(Fixed)
    BY <1>1, WalkParts DEF FrameOf
  <2>3. \A i \in 1 .. Top.it - 1 : CleanAt(Top.stmts, i)
    BY <1>1, <2>1 DEF AllCleanSoFar, CleanSoFar, Top
  <2>4. Clean(Top.stmts)
    BY <1>1, <2>2, <2>3 DEF Clean, EachClean, CleanAt, End
  <2>5. QED
    BY <2>2, <2>4
<1>5. Top' = Top
  BY <1>1 DEF Top
<1>6. QED
  BY <1>1, <1>2, <1>3, <1>4, <1>5 DEF LoopInv

LEMMA LoopNext ==
  ASSUME IsAst(Stmt), LoopInv, [Next]_optv
  PROVE  LoopInv'
<1>1. CASE UNCHANGED optv
  BY <1>1 DEF LoopInv, optv, WalkOK, IteratorsStand, Top, AllCleanSoFar
<1>2. CASE Done
  BY <1>2 DEF Done, LoopInv, optv, WalkOK, IteratorsStand, Top, AllCleanSoFar
<1>3. QED
  BY <1>1, <1>2, FoldAllKeeps, DceStepKeeps, NextTurnKeeps DEF Next

(* The program a stack of calls stands for, from the top down.             *)
Stack(calls) ==
  /\ calls \in Seq(FrameOf(Stmt)) /\ calls # <<>>
  /\ \A k \in 1 .. Len(calls) : InList(calls[k])
  /\ \A k \in 1 .. Len(calls) - 1 : OnFundec(calls[k])

LEMMA WalkStack ==
  ASSUME WalkOK(Stmt)
  PROVE  Stack(frames)
BY WalkParts DEF Stack, WalkOK

LEMMA StackParts ==
  ASSUME NEW calls, Stack(calls)
  PROVE  /\ Len(calls) \in Nat \ {0}
         /\ \A k \in 1 .. Len(calls) : calls[k] \in FrameOf(Stmt) /\ calls[k].stmts \in Seq(Stmt)
         /\ \A k \in 1 .. Len(calls) - 1 :
              calls[k].it \in 1 .. Len(calls[k].stmts) /\ calls[k].stmts[calls[k].it] \in FundecsIn(Stmt)
<1>1. /\ Len(calls) \in Nat \ {0}
      /\ \A k \in 1 .. Len(calls) : calls[k] \in FrameOf(Stmt) /\ InList(calls[k])
  BY DEF Stack
<1>2. ASSUME NEW k \in 1 .. Len(calls) - 1
      PROVE  calls[k].it \in 1 .. Len(calls[k].stmts) /\ calls[k].stmts[calls[k].it] \in FundecsIn(Stmt)
  <2>1. calls[k] \in FrameOf(Stmt) /\ InList(calls[k]) /\ OnFundec(calls[k])
    BY <1>1 DEF Stack
  <2>2. QED
    BY <2>1 DEF FrameOf, InList, OnFundec, End, FundecsIn
<1>3. QED
  BY <1>1, <1>2 DEF FrameOf

LEMMA PutBodyIn ==
  ASSUME IsAst(Stmt), NEW f, f.stmts \in Seq(Stmt), f.it \in 1 .. Len(f.stmts),
         f.stmts[f.it] \in FundecsIn(Stmt), NEW body \in Seq(Stmt)
  PROVE  /\ PutBody(f, body) \in Seq(Stmt) /\ Len(PutBody(f, body)) = Len(f.stmts)
         /\ PutBody(f, body)[f.it] = [f.stmts[f.it] EXCEPT !.body = body]
         /\ \A i \in 1 .. Len(f.stmts) : i # f.it => PutBody(f, body)[i] = f.stmts[i]
<1> DEFINE d == [f.stmts[f.it] EXCEPT !.body = body]
<1>1. d \in Stmt
  BY StmtClosed DEF Closed, FundecsIn
<1>2. PutBody(f, body) = [f.stmts EXCEPT ![f.it] = d]
  BY DEF PutBody
<1> HIDE DEF d
<1>3. /\ PutBody(f, body) \in Seq(Stmt) /\ Len(PutBody(f, body)) = Len(f.stmts)
      /\ PutBody(f, body)[f.it] = d
      /\ \A i \in 1 .. Len(f.stmts) : i # f.it => PutBody(f, body)[i] = f.stmts[i]
  BY <1>1, <1>2
<1>4. QED
  BY <1>3 DEF d

LEMMA WholeDef ==
  ASSUME IsAst(Stmt), NEW calls, Stack(calls)
  PROVE  /\ Whole(calls)[0] = calls[Len(calls)].stmts
         /\ \A k \in 1 .. Len(calls) - 1 :
              Whole(calls)[k] = PutBody(calls[Len(calls) - k], Whole(calls)[k - 1])
         /\ \A k \in 0 .. Len(calls) - 1 : Whole(calls)[k] \in Seq(Stmt)
<1> DEFINE n == Len(calls)
           V == Seq(Stmt)
           step == [k \in 1 .. n - 1 |-> [b \in V |-> PutBody(calls[n - k], b)]]
           Fits(h) == h = [k \in 0 .. n - 1 |-> IF k = 0 THEN calls[n].stmts
                                                ELSE PutBody(calls[n - k], h[k - 1])]
<1>1. n \in Nat \ {0} /\ n - 1 \in Nat
  BY StackParts
<1>2. ASSUME NEW k \in 1 .. n - 1, NEW b \in V PROVE PutBody(calls[n - k], b) \in V
  <2> HIDE DEF n
  <2>1. PICK j \in 1 .. n - 1 : j = n - k
    BY <1>1
  <2>2. /\ calls[j].stmts \in Seq(Stmt) /\ calls[j].it \in 1 .. Len(calls[j].stmts)
        /\ calls[j].stmts[calls[j].it] \in FundecsIn(Stmt)
    BY <1>1, StackParts DEF n
  <2>3. PutBody(calls[j], b) \in V
    BY <2>2, PutBodyIn
  <2>4. QED
    BY <2>1, <2>3
<1>3. step \in [1 .. n - 1 -> [V -> V]]
  BY <1>2
<1>4. \A k \in 1 .. n - 1 : \A b \in V : step[k][b] = PutBody(calls[n - k], b)
  OBVIOUS
<1>5. calls[n].stmts \in V
  BY <1>1, StackParts
<1> HIDE DEF step, V, n
<1>6. PICK h \in [0 .. n - 1 -> V] : Repeats(h, n - 1, calls[n].stmts, step)
  BY <1>1, <1>3, <1>5, PrefixRecursion
<1>7. h[0] = calls[n].stmts /\ \A k \in 1 .. n - 1 : h[k] = PutBody(calls[n - k], h[k - 1])
  <2>1. \A k \in 1 .. n - 1 : h[k - 1] \in V
    BY <1>1, <1>6
  <2>2. QED
    BY <1>4, <1>6, <2>1 DEF Repeats
<1>8. Fits(h)
  BY <1>1, <1>6, <1>7
<1>9. Fits(Whole(calls))
  BY <1>8, Zenon DEF Whole, n
<1> DEFINE t == Whole(calls)
<1>10. t[0] = calls[n].stmts /\ \A k \in 1 .. n - 1 : t[k] = PutBody(calls[n - k], t[k - 1])
  BY <1>1, <1>9
<1> HIDE DEF t, Fits
<1>11. \A k \in 0 .. n - 1 : t[k] \in V
  <2> DEFINE A == {k \in Nat : k <= n - 1 => t[k] \in V}
  <2>1. 0 \in A
    BY <1>5, <1>10
  <2>2. ASSUME NEW k \in Nat, k \in A PROVE k + 1 \in A
    <3> SUFFICES ASSUME k + 1 <= n - 1 PROVE t[k + 1] \in V
      OBVIOUS
    <3>1. t[k] \in V /\ (k + 1) - 1 = k /\ k + 1 \in 1 .. n - 1
      BY <1>1, <2>2
    <3>2. t[k + 1] = PutBody(calls[n - (k + 1)], t[k])
      BY <1>10, <3>1
    <3>3. QED
      BY <1>2, <3>1, <3>2
  <2> HIDE DEF A
  <2>3. \A k \in Nat : k \in A
    BY <2>1, <2>2, NaturalInduction
  <2>4. QED
    BY <1>1, <2>3 DEF A
<1>12. QED
  BY <1>10, <1>11 DEF t, V, n

LEMMA ProgramAlone ==
  ASSUME IsAst(Stmt), WalkOK(Stmt), Len(frames) = 1
  PROVE  Program = Top.stmts
<1>1. Whole(frames)[0] = frames[Len(frames)].stmts
  BY WalkStack, WholeDef
<1>2. Len(frames) - 1 = 0
  OBVIOUS
<1>3. Whole(frames)[Len(frames) - 1] = frames[Len(frames)].stmts
  BY <1>1, <1>2
<1>4. QED
  BY <1>3 DEF Program, ProgramOf, Top

(* When the loop of main() ends, no list that dce_stmts walks has anything *)
(* left for it, and no expression anything left to fold.                   *)
THEOREM EndsClean ==
  ASSUME IsAst(Stmt), Programs \subseteq Seq(Stmt)
  PROVE  Spec => []CleanAtEnd
<1>1. Init => LoopInv
  BY LoopInit
<1>2. LoopInv /\ [Next]_optv => LoopInv'
  BY LoopNext
<1>3. LoopInv => CleanAtEnd
  <2>1. ASSUME LoopInv, phase = "done" PROVE Clean(Program) /\ FoldStmts(Program) = Program
    <3>1. Program = Top.stmts /\ Clean(Top.stmts) /\ Top.stmts \in Seq(Fixed) /\ Top.stmts \in Seq(Stmt)
      BY <2>1, ProgramAlone, WalkParts DEF LoopInv, FrameOf
    <3>2. QED
      BY <3>1, FixedLists
  <2>2. QED
    BY <2>1 DEF CleanAtEnd
<1>4. QED
  BY <1>1, <1>2, <1>3, PTL DEF Spec

-----------------------------------------------------------------------------
(* What a list needs when parts of it are replaced.                        *)
LEMMA NeedsIn ==
  ASSUME NEW stmts, NEW n
  PROVE  n \in Needs(stmts) <=>
           /\ n \in Names
           /\ \E i \in DOMAIN stmts : n \in NeedsOf[stmts[i]] /\ \A j \in 1 .. i - 1 : n \notin Declares(stmts[j])
BY DEF Needs, NeedsInTurn

LEMMA NeedsPointwise ==
  ASSUME NEW stmts \in Seq(Stmt), NEW new \in Seq(Stmt), Len(new) = Len(stmts),
         \A i \in 1 .. Len(stmts) : /\ NeedsOf[new[i]] \subseteq NeedsOf[stmts[i]]
                                    /\ Declares(new[i]) = Declares(stmts[i])
  PROVE  Needs(new) \subseteq Needs(stmts)
<1> SUFFICES ASSUME NEW n \in Needs(new) PROVE n \in Needs(stmts)
  OBVIOUS
<1>1. PICK i \in 1 .. Len(stmts) : n \in NeedsOf[new[i]] /\ \A j \in 1 .. i - 1 : n \notin Declares(new[j])
  BY NeedsIn
<1>2. n \in NeedsOf[stmts[i]]
  BY <1>1
<1>3. \A j \in 1 .. i - 1 : n \notin Declares(stmts[j])
  BY <1>1
<1>4. i \in DOMAIN stmts /\ n \in Names
  BY NeedsIn
<1>5. QED
  BY <1>2, <1>3, <1>4, NeedsIn

LEMMA NeedsPrefix ==
  ASSUME NEW stmts \in Seq(Stmt), NEW new \in Seq(Stmt), Len(new) <= Len(stmts),
         \A i \in 1 .. Len(new) : new[i] = stmts[i]
  PROVE  Needs(new) \subseteq Needs(stmts)
<1> SUFFICES ASSUME NEW n \in Needs(new) PROVE n \in Needs(stmts)
  OBVIOUS
<1>1. PICK i \in 1 .. Len(new) : n \in NeedsOf[new[i]] /\ \A j \in 1 .. i - 1 : n \notin Declares(new[j])
  BY NeedsIn
<1>2. n \in NeedsOf[stmts[i]] /\ i \in DOMAIN stmts /\ n \in Names
  BY <1>1, NeedsIn
<1>3. \A j \in 1 .. i - 1 : n \notin Declares(stmts[j])
  BY <1>1
<1>4. QED
  BY <1>2, <1>3, NeedsIn

(* new is stmts with mid in the place of its statement it.                 *)
Replaces(new, stmts, it, mid) ==
  /\ Len(new) = Len(stmts) - 1 + Len(mid)
  /\ \A i \in 1 .. it - 1 : new[i] = stmts[i]
  /\ \A i \in 1 .. Len(mid) : new[it - 1 + i] = mid[i]
  /\ \A i \in it + 1 .. Len(stmts) : new[i - 1 + Len(mid)] = stmts[i]

LEMMA NeedsReplaced ==
  ASSUME NEW stmts \in Seq(Stmt), NEW it \in 1 .. Len(stmts), NEW mid \in Seq(Stmt), NEW new \in Seq(Stmt),
         Replaces(new, stmts, it, mid), Declares(stmts[it]) = {},
         Needs(mid) \subseteq NeedsOf[stmts[it]]
  PROVE  Needs(new) \subseteq Needs(stmts)
<1> SUFFICES ASSUME NEW n \in Needs(new) PROVE n \in Needs(stmts)
  OBVIOUS
<1>1. /\ n \in Names /\ Len(stmts) \in Nat /\ Len(mid) \in Nat
      /\ DOMAIN stmts = 1 .. Len(stmts) /\ DOMAIN mid = 1 .. Len(mid)
  BY NeedsIn
<1>2. PICK i \in 1 .. Len(new) : n \in NeedsOf[new[i]] /\ \A j \in 1 .. i - 1 : n \notin Declares(new[j])
  BY NeedsIn
<1>3. CASE i <= it - 1
  <2>1. n \in NeedsOf[stmts[i]] /\ \A j \in 1 .. i - 1 : n \notin Declares(stmts[j])
    BY <1>2, <1>3 DEF Replaces
  <2>2. QED
    BY <1>1, <1>3, <2>1, NeedsIn
<1>4. CASE i >= it /\ i <= it - 1 + Len(mid)
  <2>1. PICK k \in 1 .. Len(mid) : i = it - 1 + k
    <3>1. i - (it - 1) \in 1 .. Len(mid) /\ i = it - 1 + (i - (it - 1))
      BY <1>1, <1>4
    <3>2. QED
      BY <3>1
  <2>2. n \in NeedsOf[mid[k]]
    BY <1>2, <2>1 DEF Replaces
  <2>3. ASSUME NEW j \in 1 .. k - 1 PROVE n \notin Declares(mid[j])
    <3>1. it - 1 + j \in 1 .. i - 1 /\ j \in 1 .. Len(mid)
      BY <1>1, <2>1
    <3>2. QED
      BY <1>2, <3>1 DEF Replaces
  <2>4. n \in Needs(mid)
    BY <1>1, <2>2, <2>3, NeedsIn
  <2>5. \A j \in 1 .. it - 1 : n \notin Declares(stmts[j])
    <3>1. \A j \in 1 .. it - 1 : j \in 1 .. i - 1 /\ new[j] = stmts[j]
      BY <1>1, <1>4 DEF Replaces
    <3>2. QED
      BY <1>2, <3>1
  <2>6. QED
    BY <1>1, <2>4, <2>5, NeedsIn
<1>5. CASE i > it - 1 + Len(mid)
  <2>1. PICK k \in it + 1 .. Len(stmts) : i = k - 1 + Len(mid)
    <3>1. i + 1 - Len(mid) \in it + 1 .. Len(stmts) /\ i = (i + 1 - Len(mid)) - 1 + Len(mid)
      BY <1>1, <1>5 DEF Replaces
    <3>2. QED
      BY <3>1
  <2>2. n \in NeedsOf[stmts[k]]
    BY <1>2, <2>1 DEF Replaces
  <2>3. ASSUME NEW j \in 1 .. k - 1 PROVE n \notin Declares(stmts[j])
    <3>1. CASE j <= it - 1
      <4>1. j \in 1 .. i - 1 /\ new[j] = stmts[j]
        BY <1>1, <1>5, <3>1 DEF Replaces
      <4>2. QED
        BY <1>2, <4>1
    <3>2. CASE j = it
      BY <3>2
    <3>3. CASE j >= it + 1
      <4>1. j - 1 + Len(mid) \in 1 .. i - 1 /\ new[j - 1 + Len(mid)] = stmts[j]
        BY <1>1, <2>1, <3>3 DEF Replaces
      <4>2. QED
        BY <1>2, <4>1
    <3>4. QED
      BY <3>1, <3>2, <3>3
  <2>4. k \in DOMAIN stmts
    BY <1>1
  <2>5. QED
    BY <1>1, <2>2, <2>3, <2>4, NeedsIn
<1>6. QED
  BY <1>1, <1>3, <1>4, <1>5

(* What fold_stmt makes of a statement needs nothing more and declares the *)
(* same.                                                                   *)
LEMMA FoldNeeds ==
  ASSUME IsAst(Stmt)
  PROVE  \A s \in Stmt : NeedsOf[FoldStmt[s]] \subseteq NeedsOf[s] /\ Declares(FoldStmt[s]) = Declares(s)
<1> DEFINE A == {s \in Stmt : NeedsOf[FoldStmt[s]] \subseteq NeedsOf[s] /\ Declares(FoldStmt[s]) = Declares(s)}
<1>0. \A e \in Exp : Uses[Folded[e]] \subseteq Uses[e] /\ Folded[e] \in Exp
  BY FoldedAssumption, UsesAssumption
<1>1. ASSUME NEW stmts \in Seq(Stmt), Elements(stmts) \subseteq A
      PROVE  Needs(FoldStmts(stmts)) \subseteq Needs(stmts) /\ FoldStmts(stmts) \in Seq(Stmt)
  <2>1. /\ FoldStmts(stmts) \in Seq(Stmt) /\ Len(FoldStmts(stmts)) = Len(stmts)
        /\ \A i \in 1 .. Len(stmts) : FoldStmts(stmts)[i] = FoldStmt[stmts[i]]
    BY FoldStmtsType
  <2>2. \A i \in 1 .. Len(stmts) : stmts[i] \in A
    BY <1>1, ElementsOf
  <2>3. \A i \in 1 .. Len(stmts) : /\ NeedsOf[FoldStmts(stmts)[i]] \subseteq NeedsOf[stmts[i]]
                                   /\ Declares(FoldStmts(stmts)[i]) = Declares(stmts[i])
    BY <2>1, <2>2
  <2>4. QED
    BY <2>1, <2>3, NeedsPointwise
<1>2. ASSUME NEW s \in Simples PROVE s \in A
  <2> DEFINE t == [s EXCEPT !.exp = Folded[s.exp]]
  <2>1. s \in Stmt /\ s.exp \in Exp
    BY SimpleShape
  <2>2. t \in Simples /\ t.exp = Folded[s.exp] /\ t.kind = s.kind /\ t.name = s.name
    BY <1>0, <2>1 DEF Simples
  <2>3. FoldStmt[s] = t
    BY FoldStmtCases
  <2> HIDE DEF t
  <2>4. NeedsOf[t] = Uses[t.exp] /\ NeedsOf[s] = Uses[s.exp]
    BY <2>2, NeedsOfCases
  <2>5. Declares(t) = Declares(s)
    BY <2>2 DEF Declares
  <2>6. QED
    BY <1>0, <2>1, <2>2, <2>3, <2>4, <2>5
<1>3. ASSUME NEW s \in Ifs, Children(s) \subseteq A PROVE s \in A
  <2> DEFINE a == FoldStmts(s.then_stmts)
             b == FoldStmts(s.else_stmts)
             t == [kind |-> "IfStmt", cond |-> Folded[s.cond], then_stmts |-> a, else_stmts |-> b]
  <2>1. /\ a \in Seq(Stmt) /\ Needs(a) \subseteq Needs(s.then_stmts)
        /\ b \in Seq(Stmt) /\ Needs(b) \subseteq Needs(s.else_stmts)
    BY <1>1, <1>3, IfShape
  <2>2. FoldStmt[s] = t
    BY FoldStmtCases
  <2> HIDE DEF a, b
  <2>3. t \in Ifs /\ t.cond = Folded[s.cond] /\ t.then_stmts = a /\ t.else_stmts = b /\ t.kind = "IfStmt"
    BY <1>0, <2>1, IfShape DEF Ifs
  <2> HIDE DEF t
  <2>4. /\ NeedsOf[t] = Uses[t.cond] \union Needs(t.then_stmts) \union Needs(t.else_stmts)
        /\ NeedsOf[s] = Uses[s.cond] \union Needs(s.then_stmts) \union Needs(s.else_stmts)
    BY <2>3, NeedsOfCases
  <2>5. NeedsOf[t] \subseteq NeedsOf[s]
    BY <1>0, <2>1, <2>3, <2>4, IfShape
  <2>6. Declares(t) = Declares(s)
    BY <2>3, IfShape DEF Declares
  <2>7. QED
    BY <2>2, <2>5, <2>6, IfShape
<1>4. ASSUME NEW s \in Whiles, Children(s) \subseteq A PROVE s \in A
  <2> DEFINE a == FoldStmts(s.body_stmts)
             b == FoldStmts(s.otherwise_stmts)
             t == [kind |-> "WhileStmt", cond |-> Folded[s.cond], body_stmts |-> a, otherwise_stmts |-> b]
  <2>1. /\ a \in Seq(Stmt) /\ Needs(a) \subseteq Needs(s.body_stmts)
        /\ b \in Seq(Stmt) /\ Needs(b) \subseteq Needs(s.otherwise_stmts)
    BY <1>1, <1>4, WhileShape
  <2>2. FoldStmt[s] = t
    BY FoldStmtCases
  <2> HIDE DEF a, b
  <2>3. t \in Whiles /\ t.cond = Folded[s.cond] /\ t.body_stmts = a /\ t.otherwise_stmts = b /\ t.kind = "WhileStmt"
    BY <1>0, <2>1, WhileShape DEF Whiles
  <2> HIDE DEF t
  <2>4. /\ NeedsOf[t] = Uses[t.cond] \union Needs(t.body_stmts) \union Needs(t.otherwise_stmts)
        /\ NeedsOf[s] = Uses[s.cond] \union Needs(s.body_stmts) \union Needs(s.otherwise_stmts)
    BY <2>3, NeedsOfCases
  <2>5. NeedsOf[t] \subseteq NeedsOf[s]
    BY <1>0, <2>1, <2>3, <2>4, WhileShape
  <2>6. Declares(t) = Declares(s)
    BY <2>3, WhileShape DEF Declares
  <2>7. QED
    BY <2>2, <2>5, <2>6, WhileShape
<1>5. ASSUME NEW s \in Repeats_, Children(s) \subseteq A PROVE s \in A
  <2> DEFINE a == FoldStmts(s.body_stmts)
             t == [kind |-> "RepeatStmt", cond |-> Folded[s.cond], body_stmts |-> a]
  <2>1. a \in Seq(Stmt) /\ Needs(a) \subseteq Needs(s.body_stmts)
    BY <1>1, <1>5, RepeatShape
  <2>2. FoldStmt[s] = t
    BY FoldStmtCases
  <2> HIDE DEF a
  <2>3. t \in Repeats_ /\ t.cond = Folded[s.cond] /\ t.body_stmts = a /\ t.kind = "RepeatStmt"
    BY <1>0, <2>1, RepeatShape DEF Repeats_
  <2> HIDE DEF t
  <2>4. /\ NeedsOf[t] = Uses[t.cond] \union Needs(t.body_stmts)
        /\ NeedsOf[s] = Uses[s.cond] \union Needs(s.body_stmts)
    BY <2>3, NeedsOfCases
  <2>5. NeedsOf[t] \subseteq NeedsOf[s]
    BY <1>0, <2>1, <2>3, <2>4, RepeatShape
  <2>6. Declares(t) = Declares(s)
    BY <2>3, RepeatShape DEF Declares
  <2>7. QED
    BY <2>2, <2>5, <2>6, RepeatShape
<1>6. ASSUME NEW s \in Fundecs, Children(s) \subseteq A PROVE s \in A
  <2> DEFINE a == FoldStmts(s.body)
             t == [kind |-> "FundecStmt", name |-> s.name, params |-> s.params, body |-> a]
  <2>1. a \in Seq(Stmt) /\ Needs(a) \subseteq Needs(s.body)
    BY <1>1, <1>6, FundecShape
  <2>2. FoldStmt[s] = t
    BY FoldStmtCases
  <2> HIDE DEF a
  <2>3. t \in Fundecs /\ t.name = s.name /\ t.params = s.params /\ t.body = a /\ t.kind = "FundecStmt"
    BY <2>1, FundecShape DEF Fundecs
  <2> HIDE DEF t
  <2>4. /\ NeedsOf[t] = Needs(t.body) \ ({t.name} \union t.params)
        /\ NeedsOf[s] = Needs(s.body) \ ({s.name} \union s.params)
    BY <2>3, NeedsOfCases
  <2>5. NeedsOf[t] \subseteq NeedsOf[s]
    BY <2>1, <2>3, <2>4
  <2>6. Declares(t) = Declares(s)
    BY <2>3, FundecShape DEF Declares
  <2>7. QED
    BY <2>2, <2>5, <2>6, FundecShape
<1>7. ASSUME NEW s \in Stmt, Children(s) \subseteq A PROVE s \in A
  <2> HIDE DEF A
  <2>1. QED
    BY <1>2, <1>3, <1>4, <1>5, <1>6, <1>7, Kinds
<1> HIDE DEF A
<1>8. Stmt \subseteq A
  BY <1>7, StmtInduction
<1>9. QED
  BY <1>8 DEF A

LEMMA FoldListNeeds ==
  ASSUME IsAst(Stmt), NEW stmts \in Seq(Stmt)
  PROVE  Needs(FoldStmts(stmts)) \subseteq Needs(stmts)
<1>1. /\ FoldStmts(stmts) \in Seq(Stmt) /\ Len(FoldStmts(stmts)) = Len(stmts)
      /\ \A i \in 1 .. Len(stmts) : FoldStmts(stmts)[i] = FoldStmt[stmts[i]] /\ stmts[i] \in Stmt
  BY FoldStmtsType
<1>2. QED
  BY <1>1, FoldNeeds, NeedsPointwise

(* Replacing the body of the declaration a call stands on.                 *)
LEMMA PutBodyNeeds ==
  ASSUME IsAst(Stmt), NEW f, f.stmts \in Seq(Stmt), f.it \in 1 .. Len(f.stmts),
         f.stmts[f.it] \in FundecsIn(Stmt),
         NEW body \in Seq(Stmt), NEW new \in Seq(Stmt), Needs(new) \subseteq Needs(body)
  PROVE  Needs(PutBody(f, new)) \subseteq Needs(PutBody(f, body))
<1> DEFINE s == f.stmts[f.it]
           a == PutBody(f, body)
           b == PutBody(f, new)
           d == [s EXCEPT !.body = body]
           e == [s EXCEPT !.body = new]
<1>1. s \in Fundecs
  BY Kinds DEF Simples, Whiles, Repeats_, Ifs, FundecsIn
<1>2. /\ d \in Fundecs /\ d.body = body /\ d.name = s.name /\ d.params = s.params /\ d.kind = s.kind
      /\ e \in Fundecs /\ e.body = new /\ e.name = s.name /\ e.params = s.params /\ e.kind = s.kind
  BY <1>1 DEF Fundecs
<1>3. /\ a \in Seq(Stmt) /\ Len(a) = Len(f.stmts) /\ a[f.it] = d
      /\ b \in Seq(Stmt) /\ Len(b) = Len(f.stmts) /\ b[f.it] = e
      /\ \A i \in 1 .. Len(f.stmts) : i # f.it => a[i] = f.stmts[i] /\ b[i] = f.stmts[i]
  BY PutBodyIn
<1> HIDE DEF a, b, d, e, s
<1>4. NeedsOf[d] = Needs(d.body) \ ({d.name} \union d.params) /\ NeedsOf[e] = Needs(e.body) \ ({e.name} \union e.params)
  BY <1>2, NeedsOfCases
<1>5. NeedsOf[e] \subseteq NeedsOf[d]
  BY <1>2, <1>4
<1>6. Declares(e) = Declares(d)
  BY <1>2 DEF Declares
<1>7. \A i \in 1 .. Len(a) : NeedsOf[b[i]] \subseteq NeedsOf[a[i]] /\ Declares(b[i]) = Declares(a[i])
  BY <1>3, <1>5, <1>6
<1>8. Needs(b) \subseteq Needs(a)
  BY <1>3, <1>7, NeedsPointwise
<1>9. QED
  BY <1>8 DEF a, b

(* A change of the list the running call works on.                         *)
LEMMA TopNeeds ==
  ASSUME IsAst(Stmt), NEW calls, Stack(calls), NEW new, Stack(new), Len(new) = Len(calls),
         \A k \in 1 .. Len(calls) - 1 : new[k] = calls[k],
         Needs(new[Len(calls)].stmts) \subseteq Needs(calls[Len(calls)].stmts)
  PROVE  Needs(ProgramOf(new)) \subseteq Needs(ProgramOf(calls))
<1> DEFINE n == Len(calls)
           w == Whole(calls)
           v == Whole(new)
           A == {k \in Nat : k <= n - 1 => Needs(v[k]) \subseteq Needs(w[k])}
<1>1. n \in Nat \ {0}
  BY StackParts
<1>2. /\ w[0] = calls[n].stmts /\ v[0] = new[n].stmts
      /\ \A k \in 1 .. n - 1 : w[k] = PutBody(calls[n - k], w[k - 1]) /\ v[k] = PutBody(new[n - k], v[k - 1])
      /\ \A k \in 0 .. n - 1 : w[k] \in Seq(Stmt) /\ v[k] \in Seq(Stmt)
  BY WholeDef
<1> HIDE DEF w, v
<1>3. 0 \in A
  BY <1>2
<1>4. ASSUME NEW k \in Nat, k \in A PROVE k + 1 \in A
  <2> SUFFICES ASSUME k + 1 <= n - 1 PROVE Needs(v[k + 1]) \subseteq Needs(w[k + 1])
    OBVIOUS
  <2>1. PICK j \in 1 .. n - 1 : j = n - (k + 1)
    <3> HIDE DEF n
    <3> QED BY <1>1
  <2>2. Needs(v[k]) \subseteq Needs(w[k]) /\ w[k] \in Seq(Stmt) /\ v[k] \in Seq(Stmt)
    BY <1>1, <1>2, <1>4
  <2>3. k + 1 \in 1 .. n - 1 /\ (k + 1) - 1 = k
    BY <1>1
  <2>4. w[k + 1] = PutBody(calls[j], w[k]) /\ v[k + 1] = PutBody(calls[j], v[k])
    BY <1>2, <2>1, <2>3
  <2>5. /\ calls[j].stmts \in Seq(Stmt) /\ calls[j].it \in 1 .. Len(calls[j].stmts)
        /\ calls[j].stmts[calls[j].it] \in FundecsIn(Stmt)
    BY <1>1, StackParts
  <2>6. QED
    BY <2>2, <2>4, <2>5, PutBodyNeeds
<1> HIDE DEF A
<1>5. \A k \in Nat : k \in A
  BY <1>3, <1>4, NaturalInduction
<1>6. Needs(v[n - 1]) \subseteq Needs(w[n - 1])
  <2> HIDE DEF n
  <2> QED BY <1>1, <1>5 DEF A
<1>7. QED
  BY <1>6 DEF ProgramOf, v, w

(* A call for a body, and its return, leave the program as it is.          *)
LEMMA Collapses ==
  ASSUME IsAst(Stmt), NEW long, Stack(long), NEW calls, Stack(calls), Len(long) = Len(calls) + 1,
         \A k \in 1 .. Len(calls) - 1 : long[k] = calls[k],
         calls[Len(calls)].stmts = PutBody(long[Len(calls)], long[Len(calls) + 1].stmts)
  PROVE  ProgramOf(long) = ProgramOf(calls)
<1> DEFINE n == Len(calls)
           w == Whole(calls)
           v == Whole(long)
           A == {k \in Nat : k <= n - 1 => v[k + 1] = w[k]}
<1>1. n \in Nat \ {0}
  BY StackParts
<1>2. /\ w[0] = calls[n].stmts
      /\ \A k \in 1 .. n - 1 : w[k] = PutBody(calls[n - k], w[k - 1])
  BY WholeDef
<1>3. /\ v[0] = long[n + 1].stmts
      /\ \A k \in 1 .. (n + 1) - 1 : v[k] = PutBody(long[(n + 1) - k], v[k - 1])
  BY WholeDef
<1> HIDE DEF w, v
<1>4. 0 \in A
  <2>1. 1 \in 1 .. (n + 1) - 1 /\ (n + 1) - 1 = n /\ 1 - 1 = 0
    BY <1>1
  <2>2. v[1] = PutBody(long[n], v[0])
    BY <1>3, <2>1
  <2>3. QED
    BY <1>2, <1>3, <2>2
<1>5. ASSUME NEW k \in Nat, k \in A PROVE k + 1 \in A
  <2> SUFFICES ASSUME k + 1 <= n - 1 PROVE v[(k + 1) + 1] = w[k + 1]
    OBVIOUS
  <2>1. PICK j \in 1 .. n - 1 : j = n - (k + 1)
    <3> HIDE DEF n
    <3> QED BY <1>1
  <2>2. v[k + 1] = w[k]
    BY <1>1, <1>5
  <2>3. k + 1 \in 1 .. n - 1 /\ (k + 1) - 1 = k
    BY <1>1
  <2>4. w[k + 1] = PutBody(calls[j], w[k])
    BY <1>2, <2>1, <2>3
  <2>5. (k + 1) + 1 \in 1 .. (n + 1) - 1 /\ (n + 1) - ((k + 1) + 1) = j /\ ((k + 1) + 1) - 1 = k + 1
    BY <1>1, <2>1
  <2>6. v[(k + 1) + 1] = PutBody(long[j], v[k + 1])
    BY <1>3, <2>5
  <2>7. long[j] = calls[j]
    OBVIOUS
  <2>8. QED
    BY <2>2, <2>4, <2>6, <2>7
<1> HIDE DEF A
<1>6. \A k \in Nat : k \in A
  BY <1>4, <1>5, NaturalInduction
<1>7. v[(n - 1) + 1] = w[n - 1]
  BY <1>1, <1>6 DEF A
<1>8. (n - 1) + 1 = Len(long) - 1
  BY <1>1
<1>9. v[Len(long) - 1] = w[n - 1]
  BY <1>7, <1>8
<1>10. QED
  BY <1>9 DEF ProgramOf, v, w

-----------------------------------------------------------------------------
(* No step of dce_stmts makes the program need more.                       *)
LEMMA ContinueNeeds ==
  ASSUME IsAst(Stmt), WalkOK(Stmt), WalkOK(Stmt)', NEW stmts \in Seq(Stmt), NEW it, NEW performed,
         Continue(stmts, it, performed), Needs(stmts) \subseteq Needs(Top.stmts)
  PROVE  Needs(Program') \subseteq Needs(Program)
<1>1. /\ Len(frames') = Len(frames)
      /\ \A k \in 1 .. Len(frames) - 1 : frames'[k] = frames[k]
      /\ frames'[Len(frames)].stmts = stmts
  BY ContinueFrames
<1>2. Stack(frames) /\ Stack(frames')
  BY WalkStack, WalkParts DEF Stack, WalkOK, IteratorsStand, InList, OnFundec
<1>3. Needs(frames'[Len(frames)].stmts) \subseteq Needs(frames[Len(frames)].stmts)
  BY <1>1 DEF Top
<1>4. Needs(ProgramOf(frames')) \subseteq Needs(ProgramOf(frames))
  BY <1>1, <1>2, <1>3, TopNeeds
<1>5. QED
  BY <1>4 DEF Program

(* The lists around the iterator, by index.                                *)
LEMMA AroundParts ==
  ASSUME WalkOK(Stmt), NEW kinds, At(kinds)
  PROVE  /\ Len(Before) = Top.it - 1 /\ \A i \in 1 .. Top.it - 1 : Before[i] = Top.stmts[i]
         /\ Len(After) = Len(Top.stmts) - Top.it
         /\ \A i \in 1 .. Len(Top.stmts) - Top.it : After[i] = Top.stmts[Top.it + i]
<1> DEFINE s == Top.stmts
           it == Top.it
<1>1. s \in Seq(Stmt) /\ it \in 1 .. Len(s) /\ Len(s) \in Nat
  BY AtParts
<1>2. /\ Before = SubSeq(s, 1, it - 1)
      /\ After = SubSeq(s, it + 1, Len(s))
  BY DEF Before, After
<1> HIDE DEF s, it
<1>3. /\ Len(Before) = it - 1 /\ \A i \in 1 .. it - 1 : Before[i] = s[i]
      /\ Len(After) = Len(s) - it /\ \A i \in 1 .. Len(s) - it : After[i] = s[it + i]
  BY <1>1, <1>2
<1>4. QED
  BY <1>3 DEF s, it

LEMMA Joined ==
  ASSUME NEW a \in Seq(Stmt), NEW b \in Seq(Stmt)
  PROVE  /\ a \o b \in Seq(Stmt) /\ Len(a \o b) = Len(a) + Len(b)
         /\ \A i \in 1 .. Len(a) : (a \o b)[i] = a[i]
         /\ \A i \in 1 .. Len(b) : (a \o b)[Len(a) + i] = b[i]
<1> DEFINE c == a \o b
<1>1. c \in Seq(Stmt) /\ Len(c) = Len(a) + Len(b) /\ Len(a) \in Nat /\ Len(b) \in Nat
  OBVIOUS
<1>2. \A i \in 1 .. Len(a) + Len(b) : c[i] = IF i <= Len(a) THEN a[i] ELSE b[i - Len(a)]
  OBVIOUS
<1>3. ASSUME NEW i \in 1 .. Len(a) PROVE c[i] = a[i]
  BY <1>1, <1>2
<1>4. ASSUME NEW i \in 1 .. Len(b) PROVE c[Len(a) + i] = b[i]
  <2>1. Len(a) + i \in 1 .. Len(a) + Len(b) /\ ~ (Len(a) + i <= Len(a)) /\ Len(a) + i - Len(a) = i
    BY <1>1
  <2> HIDE DEF c
  <2>2. QED
    BY <1>2, <2>1
<1>5. QED
  BY <1>1, <1>3, <1>4

LEMMA SplicedAt ==
  ASSUME NEW a \in Seq(Stmt), NEW m \in Seq(Stmt), NEW b \in Seq(Stmt), NEW stmts \in Seq(Stmt),
         NEW it \in 1 .. Len(stmts),
         Len(a) = it - 1, \A i \in 1 .. it - 1 : a[i] = stmts[i],
         Len(b) = Len(stmts) - it, \A i \in 1 .. Len(stmts) - it : b[i] = stmts[it + i]
  PROVE  a \o m \o b \in Seq(Stmt) /\ Replaces(a \o m \o b, stmts, it, m)
<1> DEFINE c == a \o m
           d == c \o b
<1>1. /\ c \in Seq(Stmt) /\ Len(c) = Len(a) + Len(m)
      /\ \A i \in 1 .. Len(a) : c[i] = a[i]
      /\ \A i \in 1 .. Len(m) : c[Len(a) + i] = m[i]
  BY Joined
<1> HIDE DEF c
<1>2. /\ d \in Seq(Stmt) /\ Len(d) = Len(c) + Len(b)
      /\ \A i \in 1 .. Len(c) : d[i] = c[i]
      /\ \A i \in 1 .. Len(b) : d[Len(c) + i] = b[i]
  BY <1>1, Joined
<1> HIDE DEF d
<1>3. Len(m) \in Nat /\ Len(stmts) \in Nat /\ Len(d) = Len(stmts) - 1 + Len(m)
  BY <1>1, <1>2
<1>4. \A i \in 1 .. it - 1 : d[i] = stmts[i]
  BY <1>1, <1>2, <1>3
<1>5. ASSUME NEW i \in 1 .. Len(m) PROVE d[it - 1 + i] = m[i]
  BY <1>1, <1>2, <1>3
<1>6. ASSUME NEW i \in it + 1 .. Len(stmts) PROVE d[i - 1 + Len(m)] = stmts[i]
  <2>1. PICK k \in 1 .. Len(stmts) - it : i = it + k
    <3>1. i - it \in 1 .. Len(stmts) - it /\ i = it + (i - it)
      BY <1>3
    <3>2. QED
      BY <3>1
  <2>2. d[Len(c) + k] = b[k] /\ b[k] = stmts[i]
    BY <1>2, <2>1
  <2>3. Len(c) + k = i - 1 + Len(m)
    BY <1>1, <1>3, <2>1
  <2>4. QED
    BY <2>2, <2>3
<1>7. QED
  BY <1>2, <1>3, <1>4, <1>5, <1>6 DEF Replaces, d, c

LEMMA LiftNeeds ==
  ASSUME IsAst(Stmt), WalkOK(Stmt), WalkOK(Stmt)', LiftBranch
  PROVE  Needs(Program') \subseteq Needs(Program)
<1> DEFINE stmts == Before \o Taken \o After
<1>1. /\ Top.stmts \in Seq(Stmt) /\ Top.it \in 1 .. Len(Top.stmts) /\ Cur \in Ifs
      /\ Before \in Seq(Stmt) /\ After \in Seq(Stmt)
  <2>1. Top.stmts \in Seq(Stmt) /\ Top.it \in 1 .. Len(Top.stmts)
        /\ Before \in Seq(Stmt) /\ After \in Seq(Stmt)
    BY AtParts DEF LiftBranch
  <2>2. Cur \in Stmt /\ Cur.kind = "IfStmt"
    BY AtParts DEF LiftBranch
  <2>3. Cur \in Ifs
    BY <2>2, Kinds DEF Simples, Whiles, Repeats_, Fundecs
  <2>4. QED
    BY <2>1, <2>3
<1>2. Taken \in Seq(Stmt)
  BY <1>1, IfShape DEF Taken
<1>3. stmts \in Seq(Stmt) /\ Replaces(stmts, Top.stmts, Top.it, Taken)
  BY <1>1, <1>2, AroundParts, SplicedAt DEF LiftBranch
<1>4. NeedsOf[Cur] = Uses[Cur.cond] \union Needs(Cur.then_stmts) \union Needs(Cur.else_stmts)
  BY <1>1, NeedsOfCases
<1>5. Needs(Taken) \subseteq NeedsOf[Cur]
  BY <1>4 DEF Taken
<1>6. Declares(Cur) = {}
  BY <1>1, IfShape DEF Declares
<1>7. Continue(stmts, Pred(Top.it + Len(Taken), stmts), TRUE)
  BY DEF LiftBranch
<1> HIDE DEF stmts
<1>8. Needs(stmts) \subseteq Needs(Top.stmts)
  BY <1>1, <1>2, <1>3, <1>5, <1>6, NeedsReplaced DEF Cur
<1>9. QED
  BY <1>3, <1>7, <1>8, ContinueNeeds

LEMMA EraseNeeds ==
  ASSUME IsAst(Stmt), WalkOK(Stmt), WalkOK(Stmt)', EraseLoop
  PROVE  Needs(Program') \subseteq Needs(Program)
<1> DEFINE stmts == Before \o After
           none == <<>>
<1>1. /\ Top.stmts \in Seq(Stmt) /\ Top.it \in 1 .. Len(Top.stmts)
      /\ Cur \in Stmt /\ Cur.kind \in {"WhileStmt", "RepeatStmt"}
      /\ Before \in Seq(Stmt) /\ After \in Seq(Stmt)
  BY AtParts DEF EraseLoop
<1>2. none \in Seq(Stmt) /\ stmts = Before \o none \o After /\ Len(none) = 0
  <2>1. Before \o <<>> = Before
    BY <1>1
  <2>2. QED
    BY <2>1
<1>3. stmts \in Seq(Stmt) /\ Replaces(stmts, Top.stmts, Top.it, none)
  <2>1. Before \o none \o After \in Seq(Stmt) /\ Replaces(Before \o none \o After, Top.stmts, Top.it, none)
    BY <1>1, <1>2, AroundParts, SplicedAt DEF EraseLoop
  <2>2. QED
    BY <1>2, <2>1
<1>4. Needs(none) = {}
  BY DEF Needs, NeedsInTurn
<1>5. Declares(Cur) = {}
  BY <1>1 DEF Declares
<1>6. Continue(stmts, Top.it, TRUE)
  BY DEF EraseLoop
<1> HIDE DEF stmts, none
<1>7. Needs(stmts) \subseteq Needs(Top.stmts)
  BY <1>1, <1>2, <1>3, <1>4, <1>5, NeedsReplaced DEF Cur
<1>8. QED
  BY <1>3, <1>6, <1>7, ContinueNeeds

LEMMA TruncateNeeds ==
  ASSUME IsAst(Stmt), WalkOK(Stmt), WalkOK(Stmt)', Truncate
  PROVE  Needs(Program') \subseteq Needs(Program)
<1> DEFINE stmts == Append(Before, Cur)
<1>1. /\ Top.stmts \in Seq(Stmt) /\ Top.it \in 1 .. Len(Top.stmts) /\ Cur \in Stmt /\ Before \in Seq(Stmt)
      /\ Len(Before) = Top.it - 1 /\ \A i \in 1 .. Top.it - 1 : Before[i] = Top.stmts[i]
  BY AtParts, AroundParts DEF Truncate
<1>2. /\ stmts \in Seq(Stmt) /\ Len(stmts) = Top.it
      /\ \A i \in 1 .. Top.it : stmts[i] = IF i = Top.it THEN Cur ELSE Before[i]
  BY <1>1
<1>3. Continue(stmts, Succ(End(stmts), stmts), TRUE)
  BY DEF Truncate
<1> HIDE DEF stmts
<1>4. \A i \in 1 .. Len(stmts) : stmts[i] = Top.stmts[i]
  BY <1>1, <1>2 DEF Cur
<1>5. Needs(stmts) \subseteq Needs(Top.stmts)
  BY <1>1, <1>2, <1>4, NeedsPrefix
<1>6. QED
  BY <1>2, <1>3, <1>5, ContinueNeeds

LEMMA StepOverNeeds ==
  ASSUME IsAst(Stmt), WalkOK(Stmt), WalkOK(Stmt)', StepOver
  PROVE  Needs(Program') \subseteq Needs(Program)
<1>1. Top.stmts \in Seq(Stmt)
  BY WalkParts DEF FrameOf
<1>2. Continue(Top.stmts, Succ(Top.it, Top.stmts), FALSE)
  BY DEF StepOver
<1>3. QED
  BY <1>1, <1>2, ContinueNeeds

LEMMA EnterSame ==
  ASSUME IsAst(Stmt), WalkOK(Stmt), WalkOK(Stmt)', EnterBody
  PROVE  Program' = Program
<1> DEFINE n == Len(frames)
<1>1. Stack(frames) /\ Stack(frames')
  BY WalkStack, WalkParts DEF Stack, WalkOK, IteratorsStand, InList, OnFundec
<1>2. /\ Len(frames') = n + 1 /\ \A k \in 1 .. n : frames'[k] = frames[k]
      /\ frames'[n + 1] = Call(Cur.body)
  BY EnterFrames
<1>3. n \in Nat \ {0} /\ Top = frames[n]
  BY WalkParts DEF Top
<1>4. /\ Top.stmts \in Seq(Stmt) /\ Top.it \in 1 .. Len(Top.stmts)
      /\ Top.stmts[Top.it] = Cur /\ Cur \in FundecsIn(Stmt)
  BY AtParts DEF EnterBody, Cur, FundecsIn
<1>5. [Cur EXCEPT !.body = Cur.body] = Cur
  <2>1. Cur \in Fundecs
    BY <1>4, Kinds DEF Simples, Whiles, Repeats_, Ifs, FundecsIn
  <2>2. QED
    BY <2>1 DEF Fundecs
<1>6. PutBody(Top, Cur.body) = Top.stmts
  <2>1. PutBody(Top, Cur.body) = [Top.stmts EXCEPT ![Top.it] = [Cur EXCEPT !.body = Cur.body]]
    BY <1>4 DEF PutBody
  <2>2. QED
    BY <1>4, <1>5, <2>1
<1>7. frames[n].stmts = PutBody(frames'[n], frames'[n + 1].stmts)
  <2>1. frames'[n] = Top /\ frames'[n + 1].stmts = Cur.body
    BY <1>2, <1>3 DEF Call
  <2>2. QED
    BY <1>3, <1>6, <2>1
<1>8. \A k \in 1 .. n - 1 : frames'[k] = frames[k]
  BY <1>2, <1>3
<1>9. ProgramOf(frames') = ProgramOf(frames)
  BY <1>1, <1>2, <1>7, <1>8, Collapses
<1>10. QED
  BY <1>9 DEF Program

LEMMA LeaveSame ==
  ASSUME IsAst(Stmt), WalkOK(Stmt), WalkOK(Stmt)', LeaveBody
  PROVE  Program' = Program
<1> DEFINE n == Len(frames')
<1>1. Stack(frames) /\ Stack(frames')
  BY WalkStack, WalkParts DEF Stack, WalkOK, IteratorsStand, InList, OnFundec
<1>2. /\ Len(frames) = n + 1 /\ n \in Nat \ {0} /\ frames'[n] = Resumed
      /\ \A k \in 1 .. n - 1 : frames'[k] = frames[k]
  BY LeaveFrames, WalkParts
<1>3. frames'[n].stmts = PutBody(frames[n], frames[n + 1].stmts)
  <2>1. Resumed.stmts = PutBody(frames[Len(frames) - 1], Top.stmts)
    BY DEF Resumed, PutBody
  <2>2. Top = frames[n + 1] /\ Len(frames) - 1 = n
    BY <1>2 DEF Top
  <2>3. QED
    BY <1>2, <2>1, <2>2
<1>4. ProgramOf(frames) = ProgramOf(frames')
  BY <1>1, <1>2, <1>3, Collapses
<1>5. QED
  BY <1>4 DEF Program

LEMMA FoldAllProgram ==
  ASSUME IsAst(Stmt), LoopInv, LoopInv', FoldAll
  PROVE  Top.stmts \in Seq(Stmt) /\ Program = Top.stmts /\ Program' = FoldStmts(Top.stmts)
<1>1. Top.stmts \in Seq(Stmt) /\ Len(frames) = 1 /\ frames' = <<Call(FoldStmts(Top.stmts))>>
  BY WalkParts DEF FoldAll, LoopInv, FrameOf
<1>2. Program = Top.stmts
  BY <1>1, ProgramAlone DEF LoopInv
<1>3. Program' = FoldStmts(Top.stmts)
  <2>1. Stack(frames')
    BY DEF LoopInv, Stack, WalkOK, IteratorsStand, InList, OnFundec
  <2>2. Whole(frames')[0] = frames'[Len(frames')].stmts
    BY <2>1, WholeDef
  <2>3. Len(frames') = 1 /\ frames'[1].stmts = FoldStmts(Top.stmts)
    BY <1>1 DEF Call
  <2>4. Whole(frames')[Len(frames') - 1] = FoldStmts(Top.stmts)
    BY <2>2, <2>3
  <2>5. QED
    BY <2>4 DEF Program, ProgramOf
<1>4. QED
  BY <1>1, <1>2, <1>3

LEMMA LoopNeeds ==
  ASSUME IsAst(Stmt), LoopInv, [Next]_optv
  PROVE  Needs(Program') \subseteq Needs(Program)
<1>1. LoopInv' /\ WalkOK(Stmt) /\ WalkOK(Stmt)'
  BY LoopNext DEF LoopInv
<1>2. CASE FoldAll
  <2>1. Top.stmts \in Seq(Stmt) /\ Program = Top.stmts /\ Program' = FoldStmts(Top.stmts)
    BY <1>1, <1>2, FoldAllProgram
  <2>2. QED
    BY <2>1, FoldListNeeds
<1>3. CASE DceStep
  BY <1>1, <1>3, StepOverNeeds, LiftNeeds, EraseNeeds, TruncateNeeds, EnterSame, LeaveSame DEF DceStep, Step
<1>4. CASE NextTurn \/ Done \/ UNCHANGED optv
  BY <1>4 DEF NextTurn, Done, optv, Program
<1>5. QED
  BY <1>2, <1>3, <1>4 DEF Next

(* No step of the optimiser makes the program use a name that nothing      *)
(* before it, in its list or one around it, declares, if it did not        *)
(* already: what is lifted, erased, cut off or folded takes no declaration *)
(* from a use that stays.                                                  *)
THEOREM NeedsNoMore ==
  ASSUME IsAst(Stmt), Programs \subseteq Seq(Stmt)
  PROVE  Spec => [][Needs(Program') \subseteq Needs(Program)]_optv
<1>1. Init => LoopInv
  BY LoopInit
<1>2. LoopInv /\ [Next]_optv => LoopInv'
  BY LoopNext
<1>3. LoopInv /\ [Next]_optv => [Needs(Program') \subseteq Needs(Program)]_optv
  BY LoopNeeds
<1>4. QED
  BY <1>1, <1>2, <1>3, PTL DEF Spec

(* In a program in which every use has its declaration, as the resolver    *)
(* leaves it, every use keeps one through all the turns of the loop.       *)
THEOREM StaysBound ==
  ASSUME IsAst(Stmt), Programs \subseteq Seq(Stmt), \A p \in Programs : Needs(p) = {}
  PROVE  Spec => []StillBound
<1>1. Init => LoopInv /\ StillBound
  <2>1. ASSUME Init PROVE StillBound
    <3>1. PICK p \in Programs : frames = <<Call(p)>>
      BY <2>1 DEF Init
    <3>2. WalkOK(Stmt) /\ Len(frames) = 1 /\ Top.stmts = p
      BY <3>1, StartKeeps DEF Top, Call
    <3>3. Program = p
      BY <3>2, ProgramAlone
    <3>4. QED
      BY <3>3 DEF StillBound
  <2>2. QED
    BY <2>1, LoopInit
<1>2. LoopInv /\ StillBound /\ [Next]_optv => LoopInv' /\ StillBound'
  BY LoopNext, LoopNeeds DEF StillBound
<1>3. QED
  BY <1>1, <1>2, PTL DEF Spec

-----------------------------------------------------------------------------
(* What a program may do: runs, one after the other.                       *)
IsRuns(A) == \A r \in A : \E V : r \in [events : Seq(V), ret : BOOLEAN]

LEMMA InThen ==
  ASSUME NEW A, NEW B, NEW x
  PROVE  x \in Then(A, B) <=>
           \/ x \in A /\ x.ret
           \/ \E r \in A : \E q \in B : ~ r.ret /\ x = Run(r.events \o q.events, q.ret)
BY DEF Then

LEMMA RunIn ==
  ASSUME NEW V, NEW events \in Seq(V), NEW ret \in BOOLEAN
  PROVE  /\ Run(events, ret) \in [events : Seq(V), ret : BOOLEAN]
         /\ Run(events, ret).events = events /\ (Run(events, ret).ret <=> ret)
BY DEF Run

LEMMA IsRun ==
  ASSUME NEW V, NEW r \in [events : Seq(V), ret : BOOLEAN]
  PROVE  r.events \in Seq(V) /\ r.ret \in BOOLEAN /\ r = Run(r.events, r.ret)
BY DEF Run

LEMMA SameSeq ==
  ASSUME NEW V, NEW W, NEW a \in Seq(V)
  PROVE  a \in Seq(V \union W) /\ a \in Seq(W \union V)
OBVIOUS

LEMMA ThenIsRuns ==
  ASSUME NEW A, NEW B, IsRuns(A), IsRuns(B)
  PROVE  IsRuns(Then(A, B))
<1> SUFFICES ASSUME NEW x \in Then(A, B) PROVE \E V : x \in [events : Seq(V), ret : BOOLEAN]
  BY DEF IsRuns
<1>1. CASE x \in A
  BY <1>1 DEF IsRuns
<1>2. ASSUME NEW r \in A, NEW q \in B, x = Run(r.events \o q.events, q.ret)
      PROVE  \E V : x \in [events : Seq(V), ret : BOOLEAN]
  <2>1. PICK V : r \in [events : Seq(V), ret : BOOLEAN]
    BY DEF IsRuns
  <2>2. PICK W : q \in [events : Seq(W), ret : BOOLEAN]
    BY DEF IsRuns
  <2>3. r.events \in Seq(V \union W) /\ q.events \in Seq(V \union W) /\ q.ret \in BOOLEAN
    BY <2>1, <2>2, IsRun, SameSeq
  <2>4. r.events \o q.events \in Seq(V \union W)
    BY <2>3, ConcatProperties
  <2>5. QED
    BY <1>2, <2>3, <2>4, RunIn
<1>3. QED
  BY <1>1, <1>2, InThen

LEMMA NothingIsRuns ==
  IsRuns(Nothing)
<1>1. <<>> \in Seq({}) /\ FALSE \in BOOLEAN
  OBVIOUS
<1>2. Run(<<>>, FALSE) \in [events : Seq({}), ret : BOOLEAN]
  BY <1>1, RunIn
<1>3. QED
  BY <1>2 DEF IsRuns, Nothing

LEMMA HappensIsRuns ==
  ASSUME NEW e, NEW ret \in BOOLEAN
  PROVE  IsRuns({Run(<<e>>, ret)})
<1>1. <<e>> \in Seq({e})
  OBVIOUS
<1>2. Run(<<e>>, ret) \in [events : Seq({e}), ret : BOOLEAN]
  BY <1>1, RunIn
<1>3. QED
  BY <1>2 DEF IsRuns

LEMMA NothingFirst ==
  ASSUME NEW B, IsRuns(B)
  PROVE  Then(Nothing, B) = B
<1>1. ~ Run(<<>>, FALSE).ret /\ Run(<<>>, FALSE).events = <<>>
  BY DEF Run
<1>2. ASSUME NEW q \in B PROVE Run(Run(<<>>, FALSE).events \o q.events, q.ret) = q
  <2>1. PICK V : q \in [events : Seq(V), ret : BOOLEAN]
    BY DEF IsRuns
  <2>2. <<>> \o q.events = q.events
    BY <2>1, IsRun, ConcatEmptySeq
  <2>3. QED
    BY <1>1, <2>1, <2>2, IsRun
<1> DEFINE none == Run(<<>>, FALSE)
<1> HIDE DEF none
<1>3. ASSUME NEW x PROVE x \in Then(Nothing, B) <=> x \in B
  <2>1. Nothing = {none} /\ ~ none.ret
    BY <1>1 DEF Nothing, none
  <2>2. x \in Then(Nothing, B) <=> \E q \in B : x = Run(none.events \o q.events, q.ret)
    BY <2>1, InThen
  <2>3. \A q \in B : Run(none.events \o q.events, q.ret) = q
    BY <1>2 DEF none
  <2>4. QED
    BY <2>2, <2>3
<1>4. QED
  BY <1>3

LEMMA NothingLast ==
  ASSUME NEW A, IsRuns(A)
  PROVE  Then(A, Nothing) = A
<1>1. Run(<<>>, FALSE).ret = FALSE /\ Run(<<>>, FALSE).events = <<>>
  BY DEF Run
<1>2. ASSUME NEW r \in A
      PROVE  r.ret \in BOOLEAN /\ (~ r.ret => Run(r.events \o Run(<<>>, FALSE).events, Run(<<>>, FALSE).ret) = r)
  <2>1. PICK V : r \in [events : Seq(V), ret : BOOLEAN]
    BY DEF IsRuns
  <2>2. r.events \o <<>> = r.events
    BY <2>1, IsRun, ConcatEmptySeq
  <2>3. QED
    BY <1>1, <2>1, <2>2, IsRun
<1> DEFINE none == Run(<<>>, FALSE)
<1> HIDE DEF none
<1>3. ASSUME NEW x PROVE x \in Then(A, Nothing) <=> x \in A
  <2>1. Nothing = {none}
    BY DEF Nothing, none
  <2>2. x \in Then(A, Nothing) <=>
          (x \in A /\ x.ret) \/ \E r \in A : ~ r.ret /\ x = Run(r.events \o none.events, none.ret)
    BY <2>1, InThen
  <2>3. \A r \in A : r.ret \in BOOLEAN /\ (~ r.ret => Run(r.events \o none.events, none.ret) = r)
    BY <1>2 DEF none
  <2>4. QED
    BY <2>2, <2>3
<1>4. QED
  BY <1>3

LEMMA JoinedRun ==
  ASSUME NEW r, NEW q
  PROVE  Run(r.events \o q.events, q.ret).events = r.events \o q.events
         /\ Run(r.events \o q.events, q.ret).ret = q.ret
BY DEF Run

LEMMA Associates ==
  ASSUME NEW U, NEW a \in Seq(U), NEW b \in Seq(U), NEW c \in Seq(U)
  PROVE  (a \o b) \o c = a \o (b \o c)
<1> DEFINE l == (a \o b) \o c
           r == a \o (b \o c)
<1>1. /\ a \o b \in Seq(U) /\ Len(a \o b) = Len(a) + Len(b)
      /\ \A i \in 1 .. Len(a) + Len(b) : (a \o b)[i] = IF i <= Len(a) THEN a[i] ELSE b[i - Len(a)]
  BY ConcatProperties
<1>2. /\ b \o c \in Seq(U) /\ Len(b \o c) = Len(b) + Len(c)
      /\ \A i \in 1 .. Len(b) + Len(c) : (b \o c)[i] = IF i <= Len(b) THEN b[i] ELSE c[i - Len(b)]
  BY ConcatProperties
<1>3. /\ l \in Seq(U) /\ Len(l) = Len(a \o b) + Len(c)
      /\ \A i \in 1 .. Len(a \o b) + Len(c) : l[i] = IF i <= Len(a \o b) THEN (a \o b)[i] ELSE c[i - Len(a \o b)]
  BY <1>1, ConcatProperties
<1>4. /\ r \in Seq(U) /\ Len(r) = Len(a) + Len(b \o c)
      /\ \A i \in 1 .. Len(a) + Len(b \o c) : r[i] = IF i <= Len(a) THEN a[i] ELSE (b \o c)[i - Len(a)]
  BY <1>2, ConcatProperties
<1> HIDE DEF l, r
<1>5. Len(a) \in Nat /\ Len(b) \in Nat /\ Len(c) \in Nat
  OBVIOUS
<1>6. Len(l) = Len(r)
  BY <1>1, <1>2, <1>3, <1>4, <1>5
<1> DEFINE ab == a \o b
           bc == b \o c
<1> HIDE DEF ab, bc
<1>7. ASSUME NEW i \in 1 .. Len(l) PROVE l[i] = r[i]
  <2>1. Len(ab) = Len(a) + Len(b) /\ Len(bc) = Len(b) + Len(c) /\ Len(l) = Len(ab) + Len(c)
    BY <1>1, <1>2, <1>3 DEF ab, bc
  <2>2. /\ i <= Len(ab) => l[i] = ab[i]
        /\ ~ (i <= Len(ab)) => l[i] = c[i - Len(ab)]
    BY <1>3, <1>5, <2>1 DEF ab
  <2>3. /\ i <= Len(a) => r[i] = a[i]
        /\ ~ (i <= Len(a)) => r[i] = bc[i - Len(a)]
    BY <1>4, <1>5, <2>1 DEF bc
  <2>4. CASE i <= Len(a)
    <3>1. ab[i] = a[i]
      BY <1>1, <1>5, <2>4 DEF ab
    <3>2. QED
      BY <1>5, <2>1, <2>2, <2>3, <2>4, <3>1
  <2>5. CASE i > Len(a) /\ i <= Len(ab)
    <3>1. ab[i] = b[i - Len(a)] /\ bc[i - Len(a)] = b[i - Len(a)]
      BY <1>1, <1>2, <1>5, <2>1, <2>5 DEF ab, bc
    <3>2. QED
      BY <1>5, <2>1, <2>2, <2>3, <2>5, <3>1
  <2>6. CASE i > Len(ab)
    <3>1. bc[i - Len(a)] = c[i - Len(a) - Len(b)] /\ i - Len(a) - Len(b) = i - Len(ab)
      BY <1>2, <1>5, <2>1, <2>6 DEF bc
    <3>2. QED
      BY <1>5, <2>1, <2>2, <2>3, <2>6, <3>1
  <2>7. QED
    BY <1>5, <2>1, <2>4, <2>5, <2>6
<1>8. l = r
  BY <1>3, <1>4, <1>6, <1>7, SeqEqual
<1>9. QED
  BY <1>8 DEF l, r

Chained(A, B, C) ==
  \A r \in A : \A q \in B : \A p \in C :
     (r.events \o q.events) \o p.events = r.events \o (q.events \o p.events)

LEMMA JoinAssociates ==
  ASSUME NEW A, NEW B, NEW C, IsRuns(A), IsRuns(B), IsRuns(C)
  PROVE  Chained(A, B, C)
<1> USE DEF Chained
<1> TAKE r \in A
<1> TAKE q \in B
<1> TAKE p \in C
<1>1. PICK V : r \in [events : Seq(V), ret : BOOLEAN]
  BY DEF IsRuns
<1>2. PICK W : q \in [events : Seq(W), ret : BOOLEAN]
  BY DEF IsRuns
<1>3. PICK X : p \in [events : Seq(X), ret : BOOLEAN]
  BY DEF IsRuns
<1> DEFINE U == (V \union W) \union X
           a == r.events
           b == q.events
           c == p.events
<1>4. a \in Seq(U) /\ b \in Seq(U) /\ c \in Seq(U)
  BY <1>1, <1>2, <1>3, IsRun, SameSeq
<1> HIDE DEF U, a, b, c
<1>5. (a \o b) \o c = a \o (b \o c)
  BY <1>4, Associates
<1>6. QED
  BY <1>5 DEF a, b, c

LEMMA ThenAssociates ==
  ASSUME NEW A, NEW B, NEW C, IsRuns(A), IsRuns(B), IsRuns(C)
  PROVE  Then(Then(A, B), C) = Then(A, Then(B, C))
<1>1. ASSUME NEW x \in Then(Then(A, B), C) PROVE x \in Then(A, Then(B, C))
  <2>1. CASE x \in Then(A, B) /\ x.ret
    <3>1. CASE x \in A /\ x.ret
      BY <3>1, InThen
    <3>2. ASSUME NEW r \in A, NEW q \in B, ~ r.ret, x = Run(r.events \o q.events, q.ret) PROVE x \in Then(A, Then(B, C))
      <4>1. q.ret
        <5>1. PICK V : r \in [events : Seq(V), ret : BOOLEAN]
          BY DEF IsRuns
        <5>2. PICK W : q \in [events : Seq(W), ret : BOOLEAN]
          BY DEF IsRuns
        <5>3. QED
          BY <2>1, <3>2, <5>1, <5>2 DEF Run
      <4>2. q \in Then(B, C)
        BY <4>1, InThen
      <4>3. QED
        BY <3>2, <4>2, InThen
    <3>3. QED
      BY <2>1, <3>1, <3>2, InThen
  <2>2. ASSUME NEW y \in Then(A, B), NEW p \in C, ~ y.ret, x = Run(y.events \o p.events, p.ret)
        PROVE  x \in Then(A, Then(B, C))
    <3>1. PICK r \in A, q \in B : ~ r.ret /\ y = Run(r.events \o q.events, q.ret)
      BY <2>2, InThen
    <3>2. /\ y.events = r.events \o q.events /\ y.ret = q.ret
          /\ (r.events \o q.events) \o p.events = r.events \o (q.events \o p.events)
      <4>1. y.events = r.events \o q.events /\ y.ret = q.ret
        BY <3>1, JoinedRun
      <4>2. (r.events \o q.events) \o p.events = r.events \o (q.events \o p.events)
        <5>1. Chained(A, B, C)
          BY JoinAssociates
        <5>2. QED
          BY <5>1 DEF Chained
      <4>3. QED
        BY <4>1, <4>2
    <3>3. Run(q.events \o p.events, p.ret) \in Then(B, C)
      BY <2>2, <3>2, InThen
    <3>4. /\ Run(q.events \o p.events, p.ret).events = q.events \o p.events
          /\ Run(q.events \o p.events, p.ret).ret = p.ret
      BY DEF Run
    <3>5. x = Run(r.events \o Run(q.events \o p.events, p.ret).events, Run(q.events \o p.events, p.ret).ret)
      BY <2>2, <3>2, <3>4
    <3>6. QED
      BY <3>1, <3>3, <3>5, InThen
  <2>3. QED
    BY <1>1, <2>1, <2>2, InThen
<1>2. ASSUME NEW x \in Then(A, Then(B, C)) PROVE x \in Then(Then(A, B), C)
  <2>1. CASE x \in A /\ x.ret
    <3>1. x \in Then(A, B)
      BY <2>1, InThen
    <3>2. QED
      BY <2>1, <3>1, InThen
  <2>2. ASSUME NEW r \in A, NEW y \in Then(B, C), ~ r.ret, x = Run(r.events \o y.events, y.ret)
        PROVE  x \in Then(Then(A, B), C)
    <3>1. CASE y \in B /\ y.ret
      <4>1. x \in Then(A, B)
        BY <2>2, <3>1, InThen
      <4>2. x.ret
        <5>1. x.ret = y.ret
          BY <2>2 DEF Run
        <5>2. QED
          BY <3>1, <5>1
      <4>3. QED
        BY <4>1, <4>2, InThen
    <3>2. ASSUME NEW q \in B, NEW p \in C, ~ q.ret, y = Run(q.events \o p.events, p.ret)
          PROVE  x \in Then(Then(A, B), C)
      <4> DEFINE z == Run(r.events \o q.events, q.ret)
      <4>1. z \in Then(A, B)
        BY <2>2, InThen
      <4>2. /\ z.events = r.events \o q.events /\ z.ret = q.ret
            /\ (r.events \o q.events) \o p.events = r.events \o (q.events \o p.events)
        <5>1. z.events = r.events \o q.events /\ z.ret = q.ret
          BY JoinedRun
        <5>2. (r.events \o q.events) \o p.events = r.events \o (q.events \o p.events)
          <6>1. Chained(A, B, C)
            BY JoinAssociates
          <6>2. QED
            BY <6>1 DEF Chained
        <5>3. QED
          BY <5>1, <5>2
      <4>3. y.events = q.events \o p.events /\ y.ret = p.ret
        BY <3>2 DEF Run
      <4> HIDE DEF z
      <4>4. x = Run(z.events \o p.events, p.ret)
        BY <2>2, <4>2, <4>3
      <4>5. QED
        BY <3>2, <4>1, <4>2, <4>4, InThen
    <3>3. QED
      BY <2>2, <3>1, <3>2, InThen
  <2>3. QED
    BY <1>2, <2>1, <2>2, InThen
<1>3. QED
  BY <1>1, <1>2

(* What follows a return is not reached.                                   *)
LEMMA ReturnsLast ==
  ASSUME NEW A, NEW B, \A r \in A : r.ret
  PROVE  Then(A, B) = A
<1>1. ASSUME NEW x PROVE x \in Then(A, B) <=> x \in A
  BY InThen
<1>2. QED
  BY <1>1

LEMMA ThenReturns ==
  ASSUME NEW A, NEW B, IsRuns(A), IsRuns(B), \A r \in B : r.ret
  PROVE  \A r \in Then(A, B) : r.ret
<1> SUFFICES ASSUME NEW x \in Then(A, B) PROVE x.ret
  OBVIOUS
<1>1. ASSUME NEW r \in A, NEW q \in B, x = Run(r.events \o q.events, q.ret) PROVE x.ret
  <2>1. x.ret = q.ret
    BY <1>1 DEF Run
  <2>2. QED
    BY <2>1
<1>2. QED
  BY <1>1, InThen

(* What a list may do, statement by statement.                             *)
Solved(h, m, stmts, runs) ==
  h[0] = Nothing /\ \A k \in 1 .. m : h[k] = Then(h[k - 1], runs[stmts[k]])

LEMMA RunsUpToDef ==
  ASSUME NEW stmts \in Seq(Stmt), NEW runs
  PROVE  Solved(RunsUpTo(stmts, runs), Len(stmts), stmts, runs)
<1> DEFINE n == Len(stmts)
           A == {m \in Nat : m <= n => \E h : h = [k \in 0 .. n |-> h[k]] /\ Solved(h, m, stmts, runs)}
           Fits(h) == h = [k \in 0 .. n |-> IF k = 0 THEN Nothing ELSE Then(h[k - 1], runs[stmts[k]])]
<1>1. n \in Nat
  OBVIOUS
<1>2. 0 \in A
  <2> DEFINE h == [k \in 0 .. n |-> Nothing]
  <2>1. h = [k \in 0 .. n |-> h[k]] /\ h[0] = Nothing
    BY <1>1
  <2> HIDE DEF h
  <2>2. Solved(h, 0, stmts, runs)
    BY <2>1 DEF Solved
  <2>3. QED
    BY <2>1, <2>2
<1>3. ASSUME NEW m \in Nat, m \in A PROVE m + 1 \in A
  <2> HIDE DEF n
  <2> SUFFICES ASSUME m + 1 <= n PROVE \E h : h = [k \in 0 .. n |-> h[k]] /\ Solved(h, m + 1, stmts, runs)
    OBVIOUS
  <2>1. PICK h : h = [k \in 0 .. n |-> h[k]] /\ Solved(h, m, stmts, runs)
    BY <1>1, <1>3
  <2> DEFINE g == [k \in 0 .. n |-> IF k = m + 1 THEN Then(h[m], runs[stmts[m + 1]]) ELSE h[k]]
  <2>2. \A k \in 0 .. n : g[k] = IF k = m + 1 THEN Then(h[m], runs[stmts[m + 1]]) ELSE h[k]
    OBVIOUS
  <2>3. g = [k \in 0 .. n |-> g[k]]
    OBVIOUS
  <2> HIDE DEF g
  <2>4. g[0] = Nothing
    <3>1. 0 \in 0 .. n /\ 0 # m + 1
      BY <1>1
    <3>2. QED
      BY <2>1, <2>2, <3>1 DEF Solved
  <2>5. ASSUME NEW k \in 1 .. m + 1 PROVE g[k] = Then(g[k - 1], runs[stmts[k]])
    <3>1. k \in 0 .. n /\ k - 1 \in 0 .. n /\ k - 1 # m + 1
      BY <1>1
    <3>2. g[k - 1] = h[k - 1]
      BY <2>2, <3>1
    <3>3. CASE k = m + 1
      <4>1. k - 1 = m /\ g[k] = Then(h[m], runs[stmts[k]])
        BY <2>2, <3>1, <3>3
      <4>2. QED
        BY <3>2, <4>1
    <3>4. CASE k # m + 1
      <4>1. k \in 1 .. m /\ g[k] = h[k]
        BY <2>2, <3>1, <3>4
      <4>2. h[k] = Then(h[k - 1], runs[stmts[k]])
        BY <2>1, <4>1 DEF Solved
      <4>3. QED
        BY <3>2, <4>1, <4>2
    <3>5. QED
      BY <3>3, <3>4
  <2>6. Solved(g, m + 1, stmts, runs)
    BY <2>4, <2>5 DEF Solved
  <2>7. QED
    BY <2>3, <2>6
<1> HIDE DEF A
<1>4. \A m \in Nat : m \in A
  BY <1>2, <1>3, NaturalInduction
<1>5. PICK h : h = [k \in 0 .. n |-> h[k]] /\ Solved(h, n, stmts, runs)
  BY <1>1, <1>4 DEF A
<1>6. Fits(h)
  <2>1. \A k \in 0 .. n : h[k] = IF k = 0 THEN Nothing ELSE Then(h[k - 1], runs[stmts[k]])
    BY <1>1, <1>5 DEF Solved
  <2> HIDE DEF n
  <2>2. [k \in 0 .. n |-> h[k]] = [k \in 0 .. n |-> IF k = 0 THEN Nothing ELSE Then(h[k - 1], runs[stmts[k]])]
    BY <2>1, Zenon
  <2>3. QED
    BY <1>5, <2>2, Zenon
<1>7. Fits(RunsUpTo(stmts, runs))
  BY <1>6, Zenon DEF RunsUpTo
<1> DEFINE t == RunsUpTo(stmts, runs)
<1>8. \A k \in 0 .. n : t[k] = IF k = 0 THEN Nothing ELSE Then(t[k - 1], runs[stmts[k]])
  BY <1>7
<1> HIDE DEF t, Fits
<1>9. t[0] = Nothing /\ \A k \in 1 .. n : t[k] = Then(t[k - 1], runs[stmts[k]])
  BY <1>1, <1>8
<1>10. QED
  BY <1>9 DEF Solved, t

LEMMA UpToIsRuns ==
  ASSUME NEW stmts \in Seq(Stmt), NEW runs, \A i \in 1 .. Len(stmts) : IsRuns(runs[stmts[i]])
  PROVE  \A k \in 0 .. Len(stmts) : IsRuns(RunsUpTo(stmts, runs)[k])
<1> DEFINE n == Len(stmts)
           t == RunsUpTo(stmts, runs)
           A == {k \in Nat : k <= n => IsRuns(t[k])}
<1>1. n \in Nat
  OBVIOUS
<1>2. t[0] = Nothing /\ \A k \in 1 .. n : t[k] = Then(t[k - 1], runs[stmts[k]])
  BY RunsUpToDef DEF Solved
<1> HIDE DEF t
<1>3. 0 \in A
  BY <1>2, NothingIsRuns
<1>4. ASSUME NEW k \in Nat, k \in A PROVE k + 1 \in A
  <2> SUFFICES ASSUME k + 1 <= n PROVE IsRuns(t[k + 1])
    OBVIOUS
  <2>1. k + 1 \in 1 .. n /\ (k + 1) - 1 = k /\ k <= n
    BY <1>1
  <2>2. IsRuns(t[k]) /\ IsRuns(runs[stmts[k + 1]]) /\ t[k + 1] = Then(t[k], runs[stmts[k + 1]])
    BY <1>2, <1>4, <2>1
  <2>3. QED
    BY <2>2, ThenIsRuns
<1> HIDE DEF A
<1>5. \A k \in Nat : k \in A
  BY <1>3, <1>4, NaturalInduction
<1>6. QED
  BY <1>1, <1>5 DEF A, t

(* What a list may do depends on what its statements may do.               *)
Alike(a, runs, b, runs2, m) == \A i \in 1 .. m : runs[a[i]] = runs2[b[i]]

LEMMA RunsAgree ==
  ASSUME NEW a \in Seq(Stmt), NEW b \in Seq(Stmt), NEW runs, NEW runs2,
         NEW m \in Nat, m <= Len(a), m <= Len(b), Alike(a, runs, b, runs2, m)
  PROVE  RunsUpTo(a, runs)[m] = RunsUpTo(b, runs2)[m]
<1> DEFINE s == RunsUpTo(a, runs)
           t == RunsUpTo(b, runs2)
           A == {k \in Nat : k <= m => s[k] = t[k]}
<1>1. Len(a) \in Nat /\ Len(b) \in Nat
  OBVIOUS
<1>2. /\ s[0] = Nothing /\ \A k \in 1 .. Len(a) : s[k] = Then(s[k - 1], runs[a[k]])
      /\ t[0] = Nothing /\ \A k \in 1 .. Len(b) : t[k] = Then(t[k - 1], runs2[b[k]])
  BY RunsUpToDef DEF Solved
<1> HIDE DEF s, t
<1>3. 0 \in A
  BY <1>2
<1>4. ASSUME NEW k \in Nat, k \in A PROVE k + 1 \in A
  <2> SUFFICES ASSUME k + 1 <= m PROVE s[k + 1] = t[k + 1]
    OBVIOUS
  <2>1. k + 1 \in 1 .. m /\ k + 1 \in 1 .. Len(a) /\ k + 1 \in 1 .. Len(b) /\ (k + 1) - 1 = k /\ k <= m
    BY <1>1
  <2>2. s[k] = t[k] /\ runs[a[k + 1]] = runs2[b[k + 1]]
    BY <1>4, <2>1 DEF Alike
  <2>3. s[k + 1] = Then(s[k], runs[a[k + 1]]) /\ t[k + 1] = Then(t[k], runs2[b[k + 1]])
    BY <1>2, <2>1
  <2>4. QED
    BY <2>2, <2>3
<1> HIDE DEF A
<1>5. \A k \in Nat : k \in A
  BY <1>3, <1>4, NaturalInduction
<1>6. QED
  BY <1>5 DEF A, s, t

LEMMA RunsJoin ==
  ASSUME NEW a \in Seq(Stmt), NEW b \in Seq(Stmt), NEW runs,
         \A t \in Stmt : IsRuns(runs[t])
  PROVE  RunsInTurn(a \o b, runs) = Then(RunsInTurn(a, runs), RunsInTurn(b, runs))
<1> DEFINE c == a \o b
           m == Len(a)
           n == Len(b)
           s == RunsUpTo(a, runs)
           t == RunsUpTo(b, runs)
           u == RunsUpTo(c, runs)
           A == {k \in Nat : k <= n => u[m + k] = Then(s[m], t[k])}
<1>1. /\ c \in Seq(Stmt) /\ Len(c) = m + n /\ m \in Nat /\ n \in Nat
      /\ \A i \in 1 .. m : c[i] = a[i]
      /\ \A i \in 1 .. n : c[m + i] = b[i]
  BY Joined
<1>2. /\ t[0] = Nothing /\ \A k \in 1 .. n : t[k] = Then(t[k - 1], runs[b[k]])
  BY RunsUpToDef DEF Solved
<1> HIDE DEF c
<1>3. \A k \in 1 .. m + n : u[k] = Then(u[k - 1], runs[c[k]])
  BY <1>1, RunsUpToDef DEF Solved
<1>4. /\ \A k \in 0 .. m : IsRuns(s[k])
      /\ \A k \in 0 .. n : IsRuns(t[k])
  BY UpToIsRuns
<1>5. u[m] = s[m]
  <2>1. m <= Len(c) /\ m <= Len(a) /\ Alike(c, runs, a, runs, m)
    BY <1>1 DEF Alike
  <2> HIDE DEF m
  <2>2. RunsUpTo(c, runs)[m] = RunsUpTo(a, runs)[m]
    BY <1>1, <2>1, RunsAgree
  <2>3. QED
    BY <2>2
<1> HIDE DEF s, t, u, m, n
<1>6. 0 \in A
  <2>1. IsRuns(s[m]) /\ m + 0 = m
    BY <1>1, <1>4
  <2>2. QED
    BY <1>2, <1>5, <2>1, NothingLast
<1>7. ASSUME NEW k \in Nat, k \in A PROVE k + 1 \in A
  <2> SUFFICES ASSUME k + 1 <= n PROVE u[m + (k + 1)] = Then(s[m], t[k + 1])
    OBVIOUS
  <2>1. /\ k + 1 \in 1 .. n /\ (k + 1) - 1 = k /\ k <= n /\ k \in 0 .. n /\ m \in 0 .. m
        /\ m + (k + 1) \in 1 .. m + n /\ (m + (k + 1)) - 1 = m + k
    BY <1>1
  <2>2. u[m + k] = Then(s[m], t[k])
    BY <1>7, <2>1
  <2>3. u[m + (k + 1)] = Then(u[m + k], runs[b[k + 1]])
    BY <1>1, <1>3, <2>1
  <2>4. t[k + 1] = Then(t[k], runs[b[k + 1]])
    BY <1>2, <2>1
  <2>5. IsRuns(s[m]) /\ IsRuns(t[k]) /\ IsRuns(runs[b[k + 1]])
    <3>1. b[k + 1] \in Stmt
      BY <2>1 DEF n
    <3>2. QED
      BY <1>4, <2>1, <3>1
  <2>6. Then(Then(s[m], t[k]), runs[b[k + 1]]) = Then(s[m], Then(t[k], runs[b[k + 1]]))
    BY <2>5, ThenAssociates
  <2>7. QED
    BY <2>2, <2>3, <2>4, <2>6
<1> HIDE DEF A
<1>8. \A k \in Nat : k \in A
  BY <1>6, <1>7, NaturalInduction
<1>9. u[m + n] = Then(s[m], t[n])
  BY <1>1, <1>8 DEF A
<1>10. u[Len(c)] = Then(s[m], t[n])
  BY <1>1, <1>9
<1>11. QED
  BY <1>10 DEF RunsInTurn, c, m, n, s, t, u

LEMMA RunsAlone ==
  ASSUME NEW s \in Stmt, NEW runs, IsRuns(runs[s])
  PROVE  RunsInTurn(<<s>>, runs) = runs[s]
<1> DEFINE t == RunsUpTo(<<s>>, runs)
<1>1. t[0] = Nothing /\ t[1] = Then(t[0], runs[s])
  <2>1. <<s>> \in Seq(Stmt) /\ Len(<<s>>) = 1 /\ <<s>>[1] = s /\ 1 \in 1 .. 1 /\ 1 - 1 = 0
    OBVIOUS
  <2>2. Solved(t, 1, <<s>>, runs)
    BY <2>1, RunsUpToDef
  <2> HIDE DEF t
  <2>3. QED
    BY <2>1, <2>2 DEF Solved
<1> HIDE DEF t
<1>2. t[1] = runs[s]
  BY <1>1, NothingFirst
<1>3. Len(<<s>>) = 1
  OBVIOUS
<1>4. QED
  BY <1>2, <1>3 DEF RunsInTurn, t

(* What each kind of statement may do.                                     *)
LEMMA RunsOverCases ==
  ASSUME IsAst(Stmt), NEW runs
  PROVE  /\ \A s \in Simples : RunsOver(s, runs) =
              IF s.kind = "RetStmt" THEN {Run(<<<<"RetStmt", Folded[s.exp]>>>>, TRUE)}
              ELSE Happens(<<s.kind, Folded[s.exp]>>)
         /\ \A s \in Ifs : RunsOver(s, runs) =
              Branch(s.cond, RunsInTurn(s.then_stmts, runs), RunsInTurn(s.else_stmts, runs))
         /\ \A s \in Whiles : RunsOver(s, runs) =
              Branch(s.cond, Loop(s.cond, RunsInTurn(s.body_stmts, runs)), RunsInTurn(s.otherwise_stmts, runs))
         /\ \A s \in Repeats_ : RunsOver(s, runs) =
              Branch(s.cond, Loop(s.cond, RunsInTurn(s.body_stmts, runs)), Nothing)
         /\ \A s \in Fundecs : RunsOver(s, runs) = Happens(<<"fun", RunsInTurn(s.body, runs)>>)
<1>1. ASSUME NEW s \in Simples
      PROVE  RunsOver(s, runs) = IF s.kind = "RetStmt" THEN {Run(<<<<"RetStmt", Folded[s.exp]>>>>, TRUE)}
                                 ELSE Happens(<<s.kind, Folded[s.exp]>>)
  <2>1. s.kind # "IfStmt" /\ s.kind # "WhileStmt" /\ s.kind # "RepeatStmt" /\ s.kind # "FundecStmt"
    BY SimpleShape
  <2>2. CASE s.kind = "RetStmt"
    <3>1. RunsOver(s, runs) = {Run(<<<<"RetStmt", Folded[s.exp]>>>>, TRUE)}
      BY <2>1, <2>2, Zenon DEF RunsOver
    <3>2. QED
      BY <2>2, <3>1
  <2>3. CASE s.kind # "RetStmt"
    <3>1. RunsOver(s, runs) = Happens(<<s.kind, Folded[s.exp]>>)
      BY <2>1, <2>3, Zenon DEF RunsOver
    <3>2. QED
      BY <2>3, <3>1
  <2>4. QED
    BY <2>2, <2>3
<1>2. ASSUME NEW s \in Ifs
      PROVE  RunsOver(s, runs) = Branch(s.cond, RunsInTurn(s.then_stmts, runs), RunsInTurn(s.else_stmts, runs))
  BY IfShape, Zenon DEF RunsOver
<1>3. ASSUME NEW s \in Whiles
      PROVE  RunsOver(s, runs) =
               Branch(s.cond, Loop(s.cond, RunsInTurn(s.body_stmts, runs)), RunsInTurn(s.otherwise_stmts, runs))
  <2>1. s.kind = "WhileStmt" /\ s.kind # "IfStmt"
    BY WhileShape
  <2>2. QED
    BY <2>1, Zenon DEF RunsOver
<1>4. ASSUME NEW s \in Repeats_
      PROVE  RunsOver(s, runs) = Branch(s.cond, Loop(s.cond, RunsInTurn(s.body_stmts, runs)), Nothing)
  <2>1. s.kind = "RepeatStmt" /\ s.kind # "IfStmt" /\ s.kind # "WhileStmt"
    BY RepeatShape
  <2>2. QED
    BY <2>1, Zenon DEF RunsOver
<1>5. ASSUME NEW s \in Fundecs
      PROVE  RunsOver(s, runs) = Happens(<<"fun", RunsInTurn(s.body, runs)>>)
  <2>1. s.kind = "FundecStmt" /\ s.kind # "IfStmt" /\ s.kind # "WhileStmt" /\ s.kind # "RepeatStmt"
    BY FundecShape
  <2>2. QED
    BY <2>1, Zenon DEF RunsOver
<1>6. QED
  BY <1>1, <1>2, <1>3, <1>4, <1>5

(* Runs of statements are not drawn from a set given beforehand: a         *)
(* function's are events of the list it is declared in.                    *)
Function(h) == h = [s \in Stmt |-> h[s]]

Solves_(h, n, rank) ==
  \A s \in Stmt : rank[s] < n => h[s] = RunsOver(s, Below(s, h))

LEMMA RunsSolutionsExist ==
  ASSUME IsAst(Stmt), NEW rank, Falls(Stmt, rank)
  PROVE  \A n \in Nat : \E h : Function(h) /\ Solves_(h, n, rank)
<1> DEFINE A == {n \in Nat : \E h : Function(h) /\ Solves_(h, n, rank)}
<1>0. rank \in [Stmt -> Nat] /\ \A s \in Stmt : \A t \in Children(s) : t \in Stmt /\ rank[t] < rank[s]
  BY ChildrenInside DEF Falls
<1>1. 0 \in A
  <2> DEFINE h == [s \in Stmt |-> Nothing]
  <2>1. Function(h)
    BY DEF Function
  <2>2. Solves_(h, 0, rank)
    BY <1>0 DEF Solves_
  <2> HIDE DEF h
  <2>3. QED
    BY <2>1, <2>2
<1>2. ASSUME NEW n \in Nat, n \in A PROVE n + 1 \in A
  <2>1. PICK h : Function(h) /\ Solves_(h, n, rank)
    BY <1>2
  <2> DEFINE next == [s \in Stmt |-> RunsOver(s, Below(s, h))]
  <2>2. \A s \in Stmt : next[s] = RunsOver(s, Below(s, h))
    OBVIOUS
  <2>3. Function(next)
    BY DEF Function
  <2> HIDE DEF next
  <2>4. \A s \in Stmt : rank[s] < n => next[s] = h[s]
    BY <2>1, <2>2 DEF Solves_
  <2>5. ASSUME NEW s \in Stmt, rank[s] < n + 1 PROVE next[s] = RunsOver(s, Below(s, next))
    <3>1. \A t \in Children(s) : next[t] = h[t]
      BY <1>0, <2>4, <2>5
    <3>2. Below(s, next) = Below(s, h)
      BY <3>1 DEF Below
    <3>3. QED
      BY <2>2, <3>2
  <2>6. Solves_(next, n + 1, rank)
    BY <2>5 DEF Solves_
  <2>7. QED
    BY <2>3, <2>6
<1> HIDE DEF A
<1>3. \A n \in Nat : n \in A
  BY <1>1, <1>2, NaturalInduction
<1>4. QED
  BY <1>3 DEF A

LEMMA RunsSolutionsAgree ==
  ASSUME IsAst(Stmt), NEW rank, Falls(Stmt, rank), NEW n \in Nat, NEW f, NEW g,
         Solves_(f, n, rank), Solves_(g, n, rank)
  PROVE  \A s \in Stmt : rank[s] < n => f[s] = g[s]
<1> DEFINE A == {s \in Stmt : rank[s] < n => f[s] = g[s]}
<1>0. rank \in [Stmt -> Nat] /\ \A s \in Stmt : \A t \in Children(s) : t \in Stmt /\ rank[t] < rank[s]
  BY ChildrenInside DEF Falls
<1>1. ASSUME NEW s \in Stmt, Children(s) \subseteq A PROVE s \in A
  <2> SUFFICES ASSUME rank[s] < n PROVE f[s] = g[s]
    OBVIOUS
  <2>1. \A t \in Children(s) : f[t] = g[t]
    <3>1. \A t \in Children(s) : rank[t] < n
      BY <1>0
    <3>2. QED
      BY <1>1, <3>1
  <2>2. Below(s, f) = Below(s, g)
    BY <2>1 DEF Below
  <2>3. f[s] = RunsOver(s, Below(s, f)) /\ g[s] = RunsOver(s, Below(s, g))
    BY DEF Solves_
  <2>4. QED
    BY <2>2, <2>3
<1> HIDE DEF A
<1>2. Stmt \subseteq A
  BY <1>1, StmtInduction
<1>3. QED
  BY <1>2 DEF A

LEMMA RunsOfDef ==
  ASSUME IsAst(Stmt)
  PROVE  \A s \in Stmt : RunsOf[s] = RunsOver(s, Below(s, RunsOf))
<1>1. PICK rank : Falls(Stmt, rank)
  BY DEF IsAst
<1>0. rank \in [Stmt -> Nat] /\ \A s \in Stmt : \A t \in Children(s) : t \in Stmt /\ rank[t] < rank[s]
  BY <1>1, ChildrenInside DEF Falls
<1> DEFINE upto(n) == CHOOSE h : Function(h) /\ Solves_(h, n, rank)
           h == [s \in Stmt |-> upto(rank[s] + 1)[s]]
<1>2. \A n \in Nat : Solves_(upto(n), n, rank)
  BY <1>1, RunsSolutionsExist
<1> HIDE DEF upto
<1>3. \A s \in Stmt : h[s] = upto(rank[s] + 1)[s]
  OBVIOUS
<1>4. h = [s \in Stmt |-> h[s]]
  OBVIOUS
<1> HIDE DEF h
<1>5. ASSUME NEW s \in Stmt PROVE h[s] = RunsOver(s, Below(s, h))
  <2>1. PICK n \in Nat : n = rank[s] + 1
    BY <1>0
  <2>2. Solves_(upto(n), n, rank) /\ h[s] = upto(n)[s]
    BY <1>2, <1>3, <2>1
  <2>3. upto(n)[s] = RunsOver(s, Below(s, upto(n)))
    BY <1>0, <2>1, <2>2 DEF Solves_
  <2>4. ASSUME NEW t \in Children(s) PROVE h[t] = upto(n)[t]
    <3>1. PICK m \in Nat : m = rank[t] + 1
      BY <1>0
    <3>2. t \in Stmt /\ rank[t] < m /\ m <= n
      BY <1>0, <2>1, <3>1
    <3>3. Solves_(upto(m), m, rank) /\ h[t] = upto(m)[t]
      BY <1>2, <1>3, <3>1, <3>2
    <3>4. Solves_(upto(n), m, rank)
      BY <1>0, <2>2, <3>2 DEF Solves_
    <3>5. QED
      BY <1>1, <3>2, <3>3, <3>4, RunsSolutionsAgree
  <2>5. Below(s, h) = Below(s, upto(n))
    BY <2>4 DEF Below
  <2>6. QED
    BY <2>2, <2>3, <2>5
<1>6. h = [s \in Stmt |-> RunsOver(s, [t \in Children(s) |-> h[t]])]
  <2>1. \A s \in Stmt : h[s] = RunsOver(s, [t \in Children(s) |-> h[t]])
    BY <1>5 DEF Below
  <2>2. [s \in Stmt |-> h[s]] = [s \in Stmt |-> RunsOver(s, [t \in Children(s) |-> h[t]])]
    BY <2>1, Zenon
  <2>3. QED
    BY <1>4, <2>2, Zenon
<1>7. RunsOf = [s \in Stmt |-> RunsOver(s, [t \in Children(s) |-> RunsOf[t]])]
  BY <1>6, Zenon DEF RunsOf
<1>8. QED
  BY <1>7 DEF Below

LEMMA RunsBelow ==
  ASSUME NEW stmts \in Seq(Stmt), NEW s, Elements(stmts) \subseteq Children(s)
  PROVE  RunsInTurn(stmts, Below(s, RunsOf)) = Runs(stmts)
<1>1. \A i \in 1 .. Len(stmts) : Below(s, RunsOf)[stmts[i]] = RunsOf[stmts[i]]
  BY ElementsOf DEF Below
<1>2. Len(stmts) \in Nat /\ Len(stmts) <= Len(stmts)
  OBVIOUS
<1>3. Alike(stmts, Below(s, RunsOf), stmts, RunsOf, Len(stmts))
  BY <1>1 DEF Alike
<1>4. RunsUpTo(stmts, Below(s, RunsOf))[Len(stmts)] = RunsUpTo(stmts, RunsOf)[Len(stmts)]
  BY <1>2, <1>3, RunsAgree
<1>5. QED
  BY <1>4 DEF Runs, RunsInTurn

LEMMA RunsOfCases ==
  ASSUME IsAst(Stmt)
  PROVE  /\ \A s \in Simples : RunsOf[s] =
              IF s.kind = "RetStmt" THEN {Run(<<<<"RetStmt", Folded[s.exp]>>>>, TRUE)}
              ELSE Happens(<<s.kind, Folded[s.exp]>>)
         /\ \A s \in Ifs : RunsOf[s] = Branch(s.cond, Runs(s.then_stmts), Runs(s.else_stmts))
         /\ \A s \in Whiles : RunsOf[s] =
              Branch(s.cond, Loop(s.cond, Runs(s.body_stmts)), Runs(s.otherwise_stmts))
         /\ \A s \in Repeats_ : RunsOf[s] = Branch(s.cond, Loop(s.cond, Runs(s.body_stmts)), Nothing)
         /\ \A s \in Fundecs : RunsOf[s] = Happens(<<"fun", Runs(s.body)>>)
<1>1. \A s \in Stmt : RunsOf[s] = RunsOver(s, Below(s, RunsOf))
  BY RunsOfDef
<1>2. \A s \in Simples : RunsOf[s] =
        IF s.kind = "RetStmt" THEN {Run(<<<<"RetStmt", Folded[s.exp]>>>>, TRUE)}
        ELSE Happens(<<s.kind, Folded[s.exp]>>)
  BY <1>1, RunsOverCases, SimpleShape
<1>3. ASSUME NEW s \in Ifs PROVE RunsOf[s] = Branch(s.cond, Runs(s.then_stmts), Runs(s.else_stmts))
  <2>1. /\ RunsInTurn(s.then_stmts, Below(s, RunsOf)) = Runs(s.then_stmts)
        /\ RunsInTurn(s.else_stmts, Below(s, RunsOf)) = Runs(s.else_stmts)
    BY IfShape, RunsBelow
  <2>2. RunsOf[s] = Branch(s.cond, RunsInTurn(s.then_stmts, Below(s, RunsOf)),
                                   RunsInTurn(s.else_stmts, Below(s, RunsOf)))
    BY <1>1, RunsOverCases, IfShape
  <2>3. QED
    BY <2>1, <2>2
<1>4. ASSUME NEW s \in Whiles
      PROVE  RunsOf[s] = Branch(s.cond, Loop(s.cond, Runs(s.body_stmts)), Runs(s.otherwise_stmts))
  <2>1. /\ RunsInTurn(s.body_stmts, Below(s, RunsOf)) = Runs(s.body_stmts)
        /\ RunsInTurn(s.otherwise_stmts, Below(s, RunsOf)) = Runs(s.otherwise_stmts)
    BY WhileShape, RunsBelow
  <2>2. RunsOf[s] = Branch(s.cond, Loop(s.cond, RunsInTurn(s.body_stmts, Below(s, RunsOf))),
                                   RunsInTurn(s.otherwise_stmts, Below(s, RunsOf)))
    BY <1>1, RunsOverCases, WhileShape
  <2>3. QED
    BY <2>1, <2>2
<1>5. ASSUME NEW s \in Repeats_
      PROVE  RunsOf[s] = Branch(s.cond, Loop(s.cond, Runs(s.body_stmts)), Nothing)
  <2>1. RunsInTurn(s.body_stmts, Below(s, RunsOf)) = Runs(s.body_stmts)
    BY RepeatShape, RunsBelow
  <2>2. RunsOf[s] = Branch(s.cond, Loop(s.cond, RunsInTurn(s.body_stmts, Below(s, RunsOf))), Nothing)
    BY <1>1, RunsOverCases, RepeatShape
  <2>3. QED
    BY <2>1, <2>2
<1>6. ASSUME NEW s \in Fundecs PROVE RunsOf[s] = Happens(<<"fun", Runs(s.body)>>)
  <2>1. RunsInTurn(s.body, Below(s, RunsOf)) = Runs(s.body)
    BY FundecShape, RunsBelow
  <2>2. RunsOf[s] = Happens(<<"fun", RunsInTurn(s.body, Below(s, RunsOf))>>)
    BY <1>1, RunsOverCases, FundecShape
  <2>3. QED
    BY <2>1, <2>2
<1>7. QED
  BY <1>2, <1>3, <1>4, <1>5, <1>6

LEMMA BranchCases ==
  ASSUME NEW c \in Exp, NEW yes, NEW no
  PROVE  /\ Folded[c] \in NonZero => Branch(c, yes, no) = yes
         /\ Folded[c] \in Zero => Branch(c, yes, no) = no
         /\ Folded[c] \notin Zero \union NonZero =>
              Branch(c, yes, no) = Then(Happens(<<"true", Folded[c]>>), yes)
                                     \union Then(Happens(<<"false", Folded[c]>>), no)
<1>1. ASSUME Folded[c] \in NonZero PROVE Branch(c, yes, no) = yes
  <2>1. Folded[c] \notin Zero
    BY <1>1, ConditionAssumption
  <2>2. QED
    BY <1>1, <2>1, Zenon DEF Branch
<1>2. ASSUME Folded[c] \in Zero PROVE Branch(c, yes, no) = no
  <2>1. Folded[c] \notin NonZero
    BY <1>2, ConditionAssumption
  <2>2. QED
    BY <1>2, <2>1, Zenon DEF Branch
<1>3. ASSUME Folded[c] \notin Zero \union NonZero
      PROVE  Branch(c, yes, no) = Then(Happens(<<"true", Folded[c]>>), yes)
                                    \union Then(Happens(<<"false", Folded[c]>>), no)
  <2>1. Folded[c] \notin NonZero /\ Folded[c] \notin Zero
    BY <1>3
  <2>2. QED
    BY <2>1, Zenon DEF Branch
<1>4. QED
  BY <1>1, <1>2, <1>3

LEMMA FoldedBranch ==
  ASSUME NEW c \in Exp, NEW yes, NEW no, NEW body
  PROVE  Branch(Folded[c], yes, no) = Branch(c, yes, no) /\ Loop(Folded[c], body) = Loop(c, body)
<1>1. PICK d \in Exp : d = Folded[c] /\ Folded[d] = Folded[c]
  BY FoldedAssumption
<1>2. Loop(d, body) = Loop(c, body)
  BY <1>1 DEF Loop
<1>3. /\ Folded[c] \in NonZero => Branch(d, yes, no) = yes /\ Branch(c, yes, no) = yes
      /\ Folded[c] \in Zero => Branch(d, yes, no) = no /\ Branch(c, yes, no) = no
  <2>1. /\ Folded[d] \in NonZero => Branch(d, yes, no) = yes
        /\ Folded[d] \in Zero => Branch(d, yes, no) = no
    BY BranchCases
  <2>2. /\ Folded[c] \in NonZero => Branch(c, yes, no) = yes
        /\ Folded[c] \in Zero => Branch(c, yes, no) = no
    BY BranchCases
  <2>3. QED
    BY <1>1, <2>1, <2>2
<1>4. ASSUME Folded[c] \notin Zero \union NonZero PROVE Branch(d, yes, no) = Branch(c, yes, no)
  <2>1. Folded[d] \notin Zero \union NonZero
    BY <1>1, <1>4
  <2>2. Branch(d, yes, no) = Then(Happens(<<"true", Folded[d]>>), yes)
                               \union Then(Happens(<<"false", Folded[d]>>), no)
    BY <2>1, BranchCases
  <2>3. Branch(c, yes, no) = Then(Happens(<<"true", Folded[c]>>), yes)
                               \union Then(Happens(<<"false", Folded[c]>>), no)
    BY <1>4, BranchCases
  <2>4. QED
    BY <1>1, <2>2, <2>3
<1>5. Branch(d, yes, no) = Branch(c, yes, no)
  BY <1>3, <1>4
<1>6. QED
  BY <1>1, <1>2, <1>5

LEMMA UnionIsRuns ==
  ASSUME NEW A, NEW B, IsRuns(A), IsRuns(B)
  PROVE  IsRuns(A \union B)
BY DEF IsRuns

LEMMA BranchIsRuns ==
  ASSUME NEW c \in Exp, NEW yes, NEW no, IsRuns(yes), IsRuns(no)
  PROVE  IsRuns(Branch(c, yes, no))
<1>1. IsRuns(Happens(<<"true", Folded[c]>>)) /\ IsRuns(Happens(<<"false", Folded[c]>>))
  BY HappensIsRuns DEF Happens
<1>2. /\ IsRuns(Then(Happens(<<"true", Folded[c]>>), yes))
      /\ IsRuns(Then(Happens(<<"false", Folded[c]>>), no))
  BY <1>1, ThenIsRuns
<1>3. IsRuns(Then(Happens(<<"true", Folded[c]>>), yes) \union Then(Happens(<<"false", Folded[c]>>), no))
  BY <1>2, UnionIsRuns
<1>4. CASE Folded[c] \in NonZero
  BY <1>4, BranchCases
<1>5. CASE Folded[c] \in Zero
  BY <1>5, BranchCases
<1>6. CASE Folded[c] \notin Zero \union NonZero
  BY <1>3, <1>6, BranchCases
<1>7. QED
  BY <1>4, <1>5, <1>6

LEMMA LoopIsRuns ==
  ASSUME NEW c, NEW body, IsRuns(body)
  PROVE  IsRuns(Loop(c, body))
<1>1. IsRuns(Happens(<<"again", Folded[c]>>))
  BY HappensIsRuns DEF Happens
<1>2. IsRuns(Then(body, Happens(<<"again", Folded[c]>>)))
  BY <1>1, ThenIsRuns
<1>3. QED
  BY <1>2 DEF Loop

LEMMA StmtIsRuns ==
  ASSUME IsAst(Stmt)
  PROVE  \A s \in Stmt : IsRuns(RunsOf[s])
<1> DEFINE A == {s \in Stmt : IsRuns(RunsOf[s])}
<1>1. ASSUME NEW stmts \in Seq(Stmt), Elements(stmts) \subseteq A PROVE IsRuns(Runs(stmts))
  <2>1. \A i \in 1 .. Len(stmts) : IsRuns(RunsOf[stmts[i]])
    BY <1>1, ElementsOf
  <2>2. Len(stmts) \in 0 .. Len(stmts)
    OBVIOUS
  <2>3. QED
    BY <2>1, <2>2, UpToIsRuns DEF Runs, RunsInTurn
<1>2. ASSUME NEW s \in Simples PROVE IsRuns(RunsOf[s])
  <2>1. CASE s.kind = "RetStmt"
    <3>1. RunsOf[s] = {Run(<<<<"RetStmt", Folded[s.exp]>>>>, TRUE)}
      BY <2>1, RunsOfCases
    <3>2. QED
      BY <3>1, HappensIsRuns
  <2>2. CASE s.kind # "RetStmt"
    <3>1. RunsOf[s] = Happens(<<s.kind, Folded[s.exp]>>)
      BY <2>2, RunsOfCases
    <3>2. QED
      BY <3>1, HappensIsRuns DEF Happens
  <2>3. QED
    BY <2>1, <2>2
<1>3. ASSUME NEW s \in Ifs, Children(s) \subseteq A PROVE IsRuns(RunsOf[s])
  <2>1. IsRuns(Runs(s.then_stmts)) /\ IsRuns(Runs(s.else_stmts)) /\ s.cond \in Exp
    BY <1>1, <1>3, IfShape
  <2>2. IsRuns(Branch(s.cond, Runs(s.then_stmts), Runs(s.else_stmts)))
    BY <2>1, BranchIsRuns
  <2>3. QED
    BY <2>2, RunsOfCases
<1>4. ASSUME NEW s \in Whiles, Children(s) \subseteq A PROVE IsRuns(RunsOf[s])
  <2>1. IsRuns(Runs(s.body_stmts)) /\ IsRuns(Runs(s.otherwise_stmts)) /\ s.cond \in Exp
    BY <1>1, <1>4, WhileShape
  <2>2. IsRuns(Branch(s.cond, Loop(s.cond, Runs(s.body_stmts)), Runs(s.otherwise_stmts)))
    BY <2>1, LoopIsRuns, BranchIsRuns
  <2>3. QED
    BY <2>2, RunsOfCases
<1>5. ASSUME NEW s \in Repeats_, Children(s) \subseteq A PROVE IsRuns(RunsOf[s])
  <2>1. IsRuns(Runs(s.body_stmts)) /\ s.cond \in Exp
    BY <1>1, <1>5, RepeatShape
  <2>2. IsRuns(Branch(s.cond, Loop(s.cond, Runs(s.body_stmts)), Nothing))
    BY <2>1, LoopIsRuns, BranchIsRuns, NothingIsRuns
  <2>3. QED
    BY <2>2, RunsOfCases
<1>6. ASSUME NEW s \in Fundecs PROVE IsRuns(RunsOf[s])
  <2>1. RunsOf[s] = Happens(<<"fun", Runs(s.body)>>)
    BY RunsOfCases
  <2>2. QED
    BY <2>1, HappensIsRuns DEF Happens
<1>7. ASSUME NEW s \in Stmt, Children(s) \subseteq A PROVE s \in A
  <2>1. IsRuns(RunsOf[s])
    BY <1>2, <1>3, <1>4, <1>5, <1>6, <1>7, Kinds
  <2>2. QED
    BY <2>1
<1> HIDE DEF A
<1>8. Stmt \subseteq A
  BY <1>7, StmtInduction
<1>9. QED
  BY <1>8 DEF A

LEMMA ListIsRuns ==
  ASSUME IsAst(Stmt), NEW stmts \in Seq(Stmt)
  PROVE  IsRuns(Runs(stmts))
<1>1. \A i \in 1 .. Len(stmts) : stmts[i] \in Stmt /\ IsRuns(RunsOf[stmts[i]])
  BY StmtIsRuns
<1>2. Len(stmts) \in 0 .. Len(stmts)
  OBVIOUS
<1>3. QED
  BY <1>1, <1>2, UpToIsRuns DEF Runs, RunsInTurn

LEMMA RunsOfJoin ==
  ASSUME IsAst(Stmt), NEW a \in Seq(Stmt), NEW b \in Seq(Stmt)
  PROVE  Runs(a \o b) = Then(Runs(a), Runs(b))
BY StmtIsRuns, RunsJoin DEF Runs

LEMMA RunsOfOne ==
  ASSUME IsAst(Stmt), NEW s \in Stmt
  PROVE  Runs(<<s>>) = RunsOf[s]
BY StmtIsRuns, RunsAlone DEF Runs

LEMMA RunsPointwise ==
  ASSUME NEW a \in Seq(Stmt), NEW b \in Seq(Stmt), Len(a) = Len(b),
         \A i \in 1 .. Len(a) : RunsOf[a[i]] = RunsOf[b[i]]
  PROVE  Runs(a) = Runs(b)
<1>1. Alike(a, RunsOf, b, RunsOf, Len(a)) /\ Len(a) \in Nat /\ Len(a) <= Len(a) /\ Len(a) <= Len(b)
  BY DEF Alike
<1>2. RunsUpTo(a, RunsOf)[Len(a)] = RunsUpTo(b, RunsOf)[Len(a)]
  BY <1>1, RunsAgree
<1>3. QED
  BY <1>2 DEF Runs, RunsInTurn

(* fold_stmt leaves what a statement may do as it is.                      *)
LEMMA FoldRuns ==
  ASSUME IsAst(Stmt)
  PROVE  \A s \in Stmt : RunsOf[FoldStmt[s]] = RunsOf[s]
<1> DEFINE A == {s \in Stmt : RunsOf[FoldStmt[s]] = RunsOf[s]}
<1>0. \A e \in Exp : Folded[e] \in Exp /\ Folded[Folded[e]] = Folded[e]
  BY FoldedAssumption
<1>1. ASSUME NEW stmts \in Seq(Stmt), Elements(stmts) \subseteq A
      PROVE  Runs(FoldStmts(stmts)) = Runs(stmts) /\ FoldStmts(stmts) \in Seq(Stmt)
  <2>1. /\ FoldStmts(stmts) \in Seq(Stmt) /\ Len(FoldStmts(stmts)) = Len(stmts)
        /\ \A i \in 1 .. Len(stmts) : FoldStmts(stmts)[i] = FoldStmt[stmts[i]]
    BY FoldStmtsType
  <2>2. \A i \in 1 .. Len(stmts) : stmts[i] \in A
    BY <1>1, ElementsOf
  <2>3. \A i \in 1 .. Len(FoldStmts(stmts)) : RunsOf[FoldStmts(stmts)[i]] = RunsOf[stmts[i]]
    BY <2>1, <2>2
  <2>4. QED
    BY <2>1, <2>3, RunsPointwise
<1>2. ASSUME NEW s \in Simples PROVE RunsOf[FoldStmt[s]] = RunsOf[s]
  <2> DEFINE t == [s EXCEPT !.exp = Folded[s.exp]]
  <2>1. s.exp \in Exp
    BY SimpleShape
  <2>2. t \in Simples /\ t.exp = Folded[s.exp] /\ t.kind = s.kind
    BY <1>0, <2>1 DEF Simples
  <2>3. FoldStmt[s] = t
    BY FoldStmtCases
  <2> HIDE DEF t
  <2>4. Folded[t.exp] = Folded[s.exp]
    BY <1>0, <2>1, <2>2
  <2>5. CASE s.kind = "RetStmt"
    <3>1. /\ RunsOf[t] = {Run(<<<<"RetStmt", Folded[t.exp]>>>>, TRUE)}
          /\ RunsOf[s] = {Run(<<<<"RetStmt", Folded[s.exp]>>>>, TRUE)}
      BY <2>2, <2>5, RunsOfCases
    <3>2. QED
      BY <2>3, <2>4, <3>1
  <2>6. CASE s.kind # "RetStmt"
    <3>1. /\ RunsOf[t] = Happens(<<t.kind, Folded[t.exp]>>)
          /\ RunsOf[s] = Happens(<<s.kind, Folded[s.exp]>>)
      BY <2>2, <2>6, RunsOfCases
    <3>2. QED
      BY <2>2, <2>3, <2>4, <3>1
  <2>7. QED
    BY <2>5, <2>6
<1>3. ASSUME NEW s \in Ifs, Children(s) \subseteq A PROVE RunsOf[FoldStmt[s]] = RunsOf[s]
  <2> DEFINE a == FoldStmts(s.then_stmts)
             b == FoldStmts(s.else_stmts)
             t == [kind |-> "IfStmt", cond |-> Folded[s.cond], then_stmts |-> a, else_stmts |-> b]
  <2>1. /\ a \in Seq(Stmt) /\ Runs(a) = Runs(s.then_stmts)
        /\ b \in Seq(Stmt) /\ Runs(b) = Runs(s.else_stmts)
    BY <1>1, <1>3, IfShape
  <2>2. FoldStmt[s] = t
    BY FoldStmtCases
  <2> HIDE DEF a, b
  <2>3. t \in Ifs /\ t.cond = Folded[s.cond] /\ t.then_stmts = a /\ t.else_stmts = b
    BY <1>0, <2>1, IfShape DEF Ifs
  <2> HIDE DEF t
  <2>4. /\ RunsOf[t] = Branch(t.cond, Runs(t.then_stmts), Runs(t.else_stmts))
        /\ RunsOf[s] = Branch(s.cond, Runs(s.then_stmts), Runs(s.else_stmts))
    BY <2>3, RunsOfCases
  <2>5. RunsOf[t] = Branch(Folded[s.cond], Runs(s.then_stmts), Runs(s.else_stmts))
    BY <2>1, <2>3, <2>4
  <2>6. QED
    BY <2>2, <2>4, <2>5, IfShape, FoldedBranch
<1>4. ASSUME NEW s \in Whiles, Children(s) \subseteq A PROVE RunsOf[FoldStmt[s]] = RunsOf[s]
  <2> DEFINE a == FoldStmts(s.body_stmts)
             b == FoldStmts(s.otherwise_stmts)
             t == [kind |-> "WhileStmt", cond |-> Folded[s.cond], body_stmts |-> a, otherwise_stmts |-> b]
  <2>1. /\ a \in Seq(Stmt) /\ Runs(a) = Runs(s.body_stmts)
        /\ b \in Seq(Stmt) /\ Runs(b) = Runs(s.otherwise_stmts)
    BY <1>1, <1>4, WhileShape
  <2>2. FoldStmt[s] = t
    BY FoldStmtCases
  <2> HIDE DEF a, b
  <2>3. t \in Whiles /\ t.cond = Folded[s.cond] /\ t.body_stmts = a /\ t.otherwise_stmts = b
    BY <1>0, <2>1, WhileShape DEF Whiles
  <2> HIDE DEF t
  <2>4. /\ RunsOf[t] = Branch(t.cond, Loop(t.cond, Runs(t.body_stmts)), Runs(t.otherwise_stmts))
        /\ RunsOf[s] = Branch(s.cond, Loop(s.cond, Runs(s.body_stmts)), Runs(s.otherwise_stmts))
    BY <2>3, RunsOfCases
  <2>5. RunsOf[t] = Branch(Folded[s.cond], Loop(Folded[s.cond], Runs(s.body_stmts)), Runs(s.otherwise_stmts))
    BY <2>1, <2>3, <2>4
  <2>6. Loop(Folded[s.cond], Runs(s.body_stmts)) = Loop(s.cond, Runs(s.body_stmts))
    BY WhileShape, FoldedBranch
  <2>7. QED
    BY <2>2, <2>4, <2>5, <2>6, WhileShape, FoldedBranch
<1>5. ASSUME NEW s \in Repeats_, Children(s) \subseteq A PROVE RunsOf[FoldStmt[s]] = RunsOf[s]
  <2> DEFINE a == FoldStmts(s.body_stmts)
             t == [kind |-> "RepeatStmt", cond |-> Folded[s.cond], body_stmts |-> a]
  <2>1. a \in Seq(Stmt) /\ Runs(a) = Runs(s.body_stmts)
    BY <1>1, <1>5, RepeatShape
  <2>2. FoldStmt[s] = t
    BY FoldStmtCases
  <2> HIDE DEF a
  <2>3. t \in Repeats_ /\ t.cond = Folded[s.cond] /\ t.body_stmts = a
    BY <1>0, <2>1, RepeatShape DEF Repeats_
  <2> HIDE DEF t
  <2>4. /\ RunsOf[t] = Branch(t.cond, Loop(t.cond, Runs(t.body_stmts)), Nothing)
        /\ RunsOf[s] = Branch(s.cond, Loop(s.cond, Runs(s.body_stmts)), Nothing)
    BY <2>3, RunsOfCases
  <2>5. RunsOf[t] = Branch(Folded[s.cond], Loop(Folded[s.cond], Runs(s.body_stmts)), Nothing)
    BY <2>1, <2>3, <2>4
  <2>6. Loop(Folded[s.cond], Runs(s.body_stmts)) = Loop(s.cond, Runs(s.body_stmts))
    BY RepeatShape, FoldedBranch
  <2>7. QED
    BY <2>2, <2>4, <2>5, <2>6, RepeatShape, FoldedBranch
<1>6. ASSUME NEW s \in Fundecs, Children(s) \subseteq A PROVE RunsOf[FoldStmt[s]] = RunsOf[s]
  <2> DEFINE a == FoldStmts(s.body)
             t == [kind |-> "FundecStmt", name |-> s.name, params |-> s.params, body |-> a]
  <2>1. a \in Seq(Stmt) /\ Runs(a) = Runs(s.body)
    BY <1>1, <1>6, FundecShape
  <2>2. FoldStmt[s] = t
    BY FoldStmtCases
  <2> HIDE DEF a
  <2>3. t \in Fundecs /\ t.body = a
    BY <2>1, FundecShape DEF Fundecs
  <2> HIDE DEF t
  <2>4. RunsOf[t] = Happens(<<"fun", Runs(t.body)>>) /\ RunsOf[s] = Happens(<<"fun", Runs(s.body)>>)
    BY <2>3, RunsOfCases
  <2>5. QED
    BY <2>1, <2>2, <2>3, <2>4
<1>7. ASSUME NEW s \in Stmt, Children(s) \subseteq A PROVE s \in A
  <2>1. RunsOf[FoldStmt[s]] = RunsOf[s]
    BY <1>2, <1>3, <1>4, <1>5, <1>6, <1>7, Kinds
  <2>2. QED
    BY <2>1
<1> HIDE DEF A
<1>8. Stmt \subseteq A
  BY <1>7, StmtInduction
<1>9. QED
  BY <1>8 DEF A

LEMMA FoldListRuns ==
  ASSUME IsAst(Stmt), NEW stmts \in Seq(Stmt)
  PROVE  Runs(FoldStmts(stmts)) = Runs(stmts)
<1>1. /\ FoldStmts(stmts) \in Seq(Stmt) /\ Len(FoldStmts(stmts)) = Len(stmts)
      /\ \A i \in 1 .. Len(stmts) : FoldStmts(stmts)[i] = FoldStmt[stmts[i]] /\ stmts[i] \in Stmt
  BY FoldStmtsType
<1>2. QED
  BY <1>1, FoldRuns, RunsPointwise

-----------------------------------------------------------------------------
(* The list around the iterator, in three parts.                           *)
LEMMA InThree ==
  ASSUME WalkOK(Stmt), NEW kinds, At(kinds)
  PROVE  Top.stmts = (Before \o <<Cur>>) \o After
<1> DEFINE s == Top.stmts
           it == Top.it
           a == Before
           b == After
           x == Cur
           l == (a \o <<x>>) \o b
<1>1. /\ s \in Seq(Stmt) /\ it \in 1 .. Len(s) /\ x \in Stmt /\ x = s[it]
      /\ a \in Seq(Stmt) /\ b \in Seq(Stmt)
  BY AtParts DEF Cur
<1>2. /\ Len(a) = it - 1 /\ \A i \in 1 .. it - 1 : a[i] = s[i]
      /\ Len(b) = Len(s) - it /\ \A i \in 1 .. Len(s) - it : b[i] = s[it + i]
  BY AroundParts
<1>3. <<x>> \in Seq(Stmt) /\ Len(<<x>>) = 1 /\ <<x>>[1] = x
  BY <1>1
<1> DEFINE one == <<x>>
<1> HIDE DEF s, it, a, b, x, one
<1> DEFINE c == a \o one
<1>4. /\ c \in Seq(Stmt) /\ Len(c) = it
      /\ \A i \in 1 .. it - 1 : c[i] = s[i]
      /\ c[it] = s[it]
  <2>1. one \in Seq(Stmt) /\ Len(one) = 1 /\ one[1] = x
    BY <1>3 DEF one
  <2>2. /\ c \in Seq(Stmt) /\ Len(c) = Len(a) + Len(one)
        /\ \A i \in 1 .. Len(a) : c[i] = a[i]
        /\ \A i \in 1 .. Len(one) : c[Len(a) + i] = one[i]
    BY <1>1, <2>1, Joined
  <2>3. Len(a) + 1 = it /\ 1 \in 1 .. Len(one)
    BY <1>1, <1>2, <2>1
  <2>4. QED
    BY <1>1, <1>2, <2>1, <2>2, <2>3
<1> HIDE DEF c
<1> DEFINE d == c \o b
<1>5. /\ d \in Seq(Stmt) /\ Len(d) = Len(c) + Len(b)
      /\ \A i \in 1 .. Len(c) : d[i] = c[i]
      /\ \A i \in 1 .. Len(b) : d[Len(c) + i] = b[i]
  BY <1>1, <1>4, Joined
<1> HIDE DEF d
<1>6. Len(s) \in Nat /\ Len(d) = Len(s)
  BY <1>1, <1>2, <1>4, <1>5
<1>7. ASSUME NEW i \in 1 .. Len(s) PROVE d[i] = s[i]
  <2>1. CASE i <= it
    <3>1. i \in 1 .. Len(c) /\ d[i] = c[i]
      BY <1>1, <1>4, <1>5, <1>6, <2>1
    <3>2. c[i] = s[i]
      BY <1>1, <1>4, <1>6, <2>1
    <3>3. QED
      BY <3>1, <3>2
  <2>2. CASE i > it
    <3>1. PICK k \in 1 .. Len(b) : i = it + k
      <4>1. i - it \in 1 .. Len(b) /\ i = it + (i - it)
        BY <1>1, <1>2, <1>6, <2>2
      <4>2. QED
        BY <4>1
    <3>2. d[i] = b[k] /\ b[k] = s[i]
      BY <1>2, <1>4, <1>5, <3>1
    <3>3. QED
      BY <3>2
  <2>3. QED
    BY <1>1, <1>6, <2>1, <2>2
<1>8. d = s
  BY <1>1, <1>5, <1>6, <1>7, SeqEqual
<1>9. QED
  BY <1>8 DEF d, c, s, a, b, x, one

LEMMA RunsInThree ==
  ASSUME IsAst(Stmt), WalkOK(Stmt), NEW kinds, At(kinds)
  PROVE  Runs(Top.stmts) = Then(Then(Runs(Before), RunsOf[Cur]), Runs(After))
<1>1. Before \in Seq(Stmt) /\ After \in Seq(Stmt) /\ Cur \in Stmt /\ <<Cur>> \in Seq(Stmt)
  BY AtParts
<1> DEFINE a == Before
           b == After
           x == Cur
           c == a \o <<x>>
<1>2. Top.stmts = c \o b
  BY InThree
<1> HIDE DEF a, b, x
<1>3. c \in Seq(Stmt) /\ Runs(c) = Then(Runs(a), Runs(<<x>>)) /\ Runs(<<x>>) = RunsOf[x]
  BY <1>1, RunsOfJoin, RunsOfOne, Joined DEF a, x
<1> HIDE DEF c
<1>4. Runs(c \o b) = Then(Runs(c), Runs(b))
  BY <1>1, <1>3, RunsOfJoin DEF b
<1>5. QED
  BY <1>2, <1>3, <1>4 DEF a, b, x

(* Programs whose stacks differ in what cannot be told apart.              *)
LEMMA PutBodyRuns ==
  ASSUME IsAst(Stmt), NEW f, f.stmts \in Seq(Stmt), f.it \in 1 .. Len(f.stmts),
         f.stmts[f.it] \in FundecsIn(Stmt),
         NEW body \in Seq(Stmt), NEW new \in Seq(Stmt), Runs(new) = Runs(body)
  PROVE  Runs(PutBody(f, new)) = Runs(PutBody(f, body))
<1> DEFINE s == f.stmts[f.it]
           a == PutBody(f, body)
           b == PutBody(f, new)
           d == [s EXCEPT !.body = body]
           e == [s EXCEPT !.body = new]
<1>1. s \in Fundecs
  BY Kinds DEF Simples, Whiles, Repeats_, Ifs, FundecsIn
<1>2. d \in Fundecs /\ d.body = body /\ e \in Fundecs /\ e.body = new
  BY <1>1 DEF Fundecs
<1>3. /\ a \in Seq(Stmt) /\ Len(a) = Len(f.stmts) /\ a[f.it] = d
      /\ b \in Seq(Stmt) /\ Len(b) = Len(f.stmts) /\ b[f.it] = e
      /\ \A i \in 1 .. Len(f.stmts) : i # f.it => a[i] = f.stmts[i] /\ b[i] = f.stmts[i]
  BY PutBodyIn
<1> HIDE DEF a, b, d, e, s
<1>4. RunsOf[d] = Happens(<<"fun", Runs(d.body)>>) /\ RunsOf[e] = Happens(<<"fun", Runs(e.body)>>)
  BY <1>2, RunsOfCases
<1>5. RunsOf[d] = RunsOf[e]
  BY <1>2, <1>4
<1>6. \A i \in 1 .. Len(b) : RunsOf[b[i]] = RunsOf[a[i]]
  BY <1>3, <1>5
<1>7. Runs(b) = Runs(a)
  BY <1>3, <1>6, RunsPointwise
<1>8. QED
  BY <1>7 DEF a, b

LEMMA TopRuns ==
  ASSUME IsAst(Stmt), NEW calls, Stack(calls), NEW new, Stack(new), Len(new) = Len(calls),
         \A k \in 1 .. Len(calls) - 1 : new[k] = calls[k],
         Runs(new[Len(calls)].stmts) = Runs(calls[Len(calls)].stmts)
  PROVE  Runs(ProgramOf(new)) = Runs(ProgramOf(calls))
<1> DEFINE n == Len(calls)
           w == Whole(calls)
           v == Whole(new)
           A == {k \in Nat : k <= n - 1 => Runs(v[k]) = Runs(w[k])}
<1>1. n \in Nat \ {0}
  BY StackParts
<1>2. /\ w[0] = calls[n].stmts /\ v[0] = new[n].stmts
      /\ \A k \in 1 .. n - 1 : w[k] = PutBody(calls[n - k], w[k - 1]) /\ v[k] = PutBody(new[n - k], v[k - 1])
      /\ \A k \in 0 .. n - 1 : w[k] \in Seq(Stmt) /\ v[k] \in Seq(Stmt)
  BY WholeDef
<1> HIDE DEF w, v
<1>3. 0 \in A
  BY <1>2
<1>4. ASSUME NEW k \in Nat, k \in A PROVE k + 1 \in A
  <2> SUFFICES ASSUME k + 1 <= n - 1 PROVE Runs(v[k + 1]) = Runs(w[k + 1])
    OBVIOUS
  <2>1. PICK j \in 1 .. n - 1 : j = n - (k + 1)
    <3> HIDE DEF n
    <3> QED BY <1>1
  <2>2. Runs(v[k]) = Runs(w[k]) /\ w[k] \in Seq(Stmt) /\ v[k] \in Seq(Stmt)
    BY <1>1, <1>2, <1>4
  <2>3. k + 1 \in 1 .. n - 1 /\ (k + 1) - 1 = k
    BY <1>1
  <2>4. w[k + 1] = PutBody(calls[j], w[k]) /\ v[k + 1] = PutBody(calls[j], v[k])
    BY <1>2, <2>1, <2>3
  <2>5. /\ calls[j].stmts \in Seq(Stmt) /\ calls[j].it \in 1 .. Len(calls[j].stmts)
        /\ calls[j].stmts[calls[j].it] \in FundecsIn(Stmt)
    BY <1>1, StackParts
  <2>6. QED
    BY <2>2, <2>4, <2>5, PutBodyRuns
<1> HIDE DEF A
<1>5. \A k \in Nat : k \in A
  BY <1>3, <1>4, NaturalInduction
<1>6. Runs(v[n - 1]) = Runs(w[n - 1])
  <2> HIDE DEF n
  <2> QED BY <1>1, <1>5 DEF A
<1>7. QED
  BY <1>6 DEF ProgramOf, v, w

-----------------------------------------------------------------------------
(* What the steps do to what the program may do.                           *)
LEMMA ContinueRuns ==
  ASSUME IsAst(Stmt), WalkOK(Stmt), WalkOK(Stmt)', NEW stmts \in Seq(Stmt), NEW it, NEW performed,
         Continue(stmts, it, performed), Runs(stmts) = Runs(Top.stmts)
  PROVE  Runs(Program') = Runs(Program)
<1>1. /\ Len(frames') = Len(frames)
      /\ \A k \in 1 .. Len(frames) - 1 : frames'[k] = frames[k]
      /\ frames'[Len(frames)].stmts = stmts
  BY ContinueFrames
<1>2. Stack(frames) /\ Stack(frames')
  BY WalkStack, WalkParts DEF Stack, WalkOK, IteratorsStand, InList, OnFundec
<1>3. Runs(frames'[Len(frames)].stmts) = Runs(frames[Len(frames)].stmts)
  BY <1>1 DEF Top
<1>4. Runs(ProgramOf(frames')) = Runs(ProgramOf(frames))
  BY <1>1, <1>2, <1>3, TopRuns
<1>5. QED
  BY <1>4 DEF Program

LEMMA LiftRuns ==
  ASSUME IsAst(Stmt), WalkOK(Stmt), WalkOK(Stmt)', LiftBranch
  PROVE  Runs(Program') = Runs(Program)
<1>1. Before \in Seq(Stmt) /\ After \in Seq(Stmt)
  BY AtParts DEF LiftBranch
<1>2. Cur \in Ifs /\ Cur.cond \in Zero \union NonZero
  <2>1. Cur \in Stmt /\ Cur.kind = "IfStmt"
    BY AtParts DEF LiftBranch
  <2>2. Cur \in Ifs
    BY <2>1, Kinds DEF Simples, Whiles, Repeats_, Fundecs
  <2>3. QED
    BY <2>2 DEF LiftBranch
<1>3. Taken \in Seq(Stmt)
  BY <1>2, IfShape DEF Taken
<1>4. RunsOf[Cur] = Runs(Taken)
  <2>1. RunsOf[Cur] = Branch(Cur.cond, Runs(Cur.then_stmts), Runs(Cur.else_stmts))
    BY <1>2, RunsOfCases
  <2>2. Folded[Cur.cond] = Cur.cond /\ Cur.cond \in Exp
    BY <1>2, FoldedAssumption
  <2>3. CASE Cur.cond \in NonZero
    <3>1. Branch(Cur.cond, Runs(Cur.then_stmts), Runs(Cur.else_stmts)) = Runs(Cur.then_stmts)
      BY <2>2, <2>3, BranchCases
    <3>2. Taken = Cur.then_stmts
      BY <2>3 DEF Taken
    <3>3. QED
      BY <2>1, <3>1, <3>2
  <2>4. CASE Cur.cond \in Zero
    <3>1. Branch(Cur.cond, Runs(Cur.then_stmts), Runs(Cur.else_stmts)) = Runs(Cur.else_stmts)
      BY <2>2, <2>4, BranchCases
    <3>2. Taken = Cur.else_stmts
      BY <2>4, ConditionAssumption DEF Taken
    <3>3. QED
      BY <2>1, <3>1, <3>2
  <2>5. QED
    BY <1>2, <2>3, <2>4
<1>5. Runs(Top.stmts) = Then(Then(Runs(Before), RunsOf[Cur]), Runs(After))
  BY RunsInThree DEF LiftBranch
<1> DEFINE a == Before
           m == Taken
           b == After
           stmts == a \o m \o b
<1>6. Continue(stmts, Pred(Top.it + Len(Taken), stmts), TRUE)
  BY DEF LiftBranch
<1> HIDE DEF a, m, b
<1>7. stmts \in Seq(Stmt) /\ Runs(stmts) = Then(Then(Runs(a), Runs(m)), Runs(b))
  <2> DEFINE c == a \o m
  <2>1. a \in Seq(Stmt) /\ m \in Seq(Stmt) /\ b \in Seq(Stmt)
    BY <1>1, <1>3 DEF a, m, b
  <2>2. c \in Seq(Stmt) /\ Runs(c) = Then(Runs(a), Runs(m))
    BY <2>1, Joined, RunsOfJoin
  <2> HIDE DEF c
  <2>3. c \o b \in Seq(Stmt) /\ Runs(c \o b) = Then(Runs(c), Runs(b))
    BY <2>1, <2>2, Joined, RunsOfJoin
  <2>4. QED
    BY <2>2, <2>3 DEF c
<1>8. Runs(stmts) = Runs(Top.stmts)
  BY <1>4, <1>5, <1>7 DEF a, m, b
<1> HIDE DEF stmts
<1>9. QED
  BY <1>6, <1>7, <1>8, ContinueRuns

LEMMA TruncateRuns ==
  ASSUME IsAst(Stmt), WalkOK(Stmt), WalkOK(Stmt)', Truncate
  PROVE  Runs(Program') = Runs(Program)
<1>1. Before \in Seq(Stmt) /\ After \in Seq(Stmt) /\ Cur \in Stmt /\ Cur.kind = "RetStmt"
  BY AtParts DEF Truncate
<1>2. Cur \in Simples
  BY <1>1, Kinds DEF Ifs, Whiles, Repeats_, Fundecs
<1>3. RunsOf[Cur] = {Run(<<<<"RetStmt", Folded[Cur.exp]>>>>, TRUE)}
  BY <1>1, <1>2, RunsOfCases
<1>4. \A r \in RunsOf[Cur] : r.ret
  <2>1. Run(<<<<"RetStmt", Folded[Cur.exp]>>>>, TRUE).ret
    BY DEF Run
  <2>2. QED
    BY <1>3, <2>1
<1>5. IsRuns(Runs(Before)) /\ IsRuns(RunsOf[Cur])
  BY <1>1, ListIsRuns, StmtIsRuns
<1>6. \A r \in Then(Runs(Before), RunsOf[Cur]) : r.ret
  BY <1>4, <1>5, ThenReturns
<1>7. Runs(Top.stmts) = Then(Runs(Before), RunsOf[Cur])
  <2>1. Runs(Top.stmts) = Then(Then(Runs(Before), RunsOf[Cur]), Runs(After))
    BY RunsInThree DEF Truncate
  <2>2. QED
    BY <1>6, <2>1, ReturnsLast
<1> DEFINE a == Before
           x == Cur
           stmts == Append(a, x)
<1>8. Continue(stmts, Succ(End(stmts), stmts), TRUE)
  BY DEF Truncate
<1> HIDE DEF a, x
<1>9. stmts \in Seq(Stmt) /\ stmts = a \o <<x>>
  BY <1>1, AppendIsConcat DEF a, x
<1>10. Runs(a \o <<x>>) = Then(Runs(a), Runs(<<x>>)) /\ Runs(<<x>>) = RunsOf[x]
  <2>1. <<x>> \in Seq(Stmt) /\ a \in Seq(Stmt) /\ x \in Stmt
    BY <1>1 DEF a, x
  <2>2. QED
    BY <2>1, RunsOfJoin, RunsOfOne
<1>11. Runs(stmts) = Runs(Top.stmts)
  BY <1>7, <1>9, <1>10 DEF a, x
<1> HIDE DEF stmts
<1>12. QED
  BY <1>8, <1>9, <1>11, ContinueRuns

(* The one step that loses something: a while that would do its otherwise  *)
(* list is erased with it.                                                 *)
LosesOtherwise == EraseLoop /\ Cur.kind = "WhileStmt" /\ Cur.otherwise_stmts # <<>>

(* A branch over 0 takes its second way, and takes no heed of its first.   *)
LEMMA ZeroBranch ==
  ASSUME NEW c \in Exp, NEW yes, NEW no, Folded[c] \in Zero
  PROVE  Branch(c, yes, no) = no
BY BranchCases

LEMMA EraseRuns ==
  ASSUME IsAst(Stmt), WalkOK(Stmt), WalkOK(Stmt)', EraseLoop, ~ LosesOtherwise
  PROVE  Runs(Program') = Runs(Program)
<1>1. /\ Before \in Seq(Stmt) /\ After \in Seq(Stmt) /\ Cur \in Stmt
      /\ Cur.kind \in {"WhileStmt", "RepeatStmt"} /\ Cur.cond \in Zero
  BY AtParts DEF EraseLoop
<1>2. Folded[Cur.cond] = Cur.cond /\ Cur.cond \in Exp
  BY <1>1, FoldedAssumption
<1>3. RunsOf[Cur] = Nothing
  <2>1. CASE Cur.kind = "WhileStmt"
    <3>1. Cur \in Whiles
      BY <1>1, <2>1, Kinds DEF Simples, Ifs, Repeats_, Fundecs
    <3>2. RunsOf[Cur] = Branch(Cur.cond, Loop(Cur.cond, Runs(Cur.body_stmts)), Runs(Cur.otherwise_stmts))
      BY <3>1, RunsOfCases
    <3>3. RunsOf[Cur] = Runs(Cur.otherwise_stmts)
      <4>0. Folded[Cur.cond] \in Zero
        BY <1>1, <1>2
      <4> DEFINE c == Cur.cond
                 yes == Loop(Cur.cond, Runs(Cur.body_stmts))
                 no == Runs(Cur.otherwise_stmts)
      <4>1. Branch(c, yes, no) = no
        <5>1. c \in Exp /\ Folded[c] \in Zero
          BY <1>2, <4>0
        <5> HIDE DEF c, yes, no
        <5>2. QED
          BY <5>1, ZeroBranch
      <4>2. QED
        BY <3>2, <4>1
    <3>4. Cur.otherwise_stmts = <<>>
      BY <2>1 DEF LosesOtherwise
    <3>5. Runs(<<>>) = Nothing
      <4>1. <<>> \in Seq(Stmt) /\ Len(<<>>) = 0
        OBVIOUS
      <4>2. RunsUpTo(<<>>, RunsOf)[0] = Nothing
        BY <4>1, RunsUpToDef DEF Solved
      <4>3. RunsUpTo(<<>>, RunsOf)[Len(<<>>)] = Nothing
        BY <4>1, <4>2
      <4>4. QED
        BY <4>3 DEF Runs, RunsInTurn
    <3>6. QED
      BY <3>3, <3>4, <3>5
  <2>2. CASE Cur.kind = "RepeatStmt"
    <3>1. Cur \in Repeats_
      BY <1>1, <2>2, Kinds DEF Simples, Ifs, Whiles, Fundecs
    <3>2. RunsOf[Cur] = Branch(Cur.cond, Loop(Cur.cond, Runs(Cur.body_stmts)), Nothing)
      BY <3>1, RunsOfCases
    <3> DEFINE c == Cur.cond
               yes == Loop(Cur.cond, Runs(Cur.body_stmts))
               no == Nothing
    <3>3. Branch(c, yes, no) = no
      <4>1. c \in Exp /\ Folded[c] \in Zero
        BY <1>1, <1>2
      <4> HIDE DEF c, yes, no
      <4>2. QED
        BY <4>1, ZeroBranch
    <3>4. QED
      BY <3>2, <3>3
  <2>3. QED
    BY <1>1, <2>1, <2>2
<1>4. Runs(Top.stmts) = Then(Then(Runs(Before), RunsOf[Cur]), Runs(After))
  BY RunsInThree DEF EraseLoop
<1>5. Then(Runs(Before), Nothing) = Runs(Before)
  BY <1>1, ListIsRuns, NothingLast
<1> DEFINE a == Before
           b == After
           stmts == a \o b
<1>6. Continue(stmts, Top.it, TRUE)
  BY DEF EraseLoop
<1> HIDE DEF a, b
<1>7. stmts \in Seq(Stmt) /\ Runs(stmts) = Then(Runs(a), Runs(b))
  <2>1. a \in Seq(Stmt) /\ b \in Seq(Stmt)
    BY <1>1 DEF a, b
  <2>2. QED
    BY <2>1, Joined, RunsOfJoin
<1>8. Runs(stmts) = Runs(Top.stmts)
  BY <1>3, <1>4, <1>5, <1>7 DEF a, b
<1> HIDE DEF stmts
<1>9. QED
  BY <1>6, <1>7, <1>8, ContinueRuns

LEMMA StepOverRuns ==
  ASSUME IsAst(Stmt), WalkOK(Stmt), WalkOK(Stmt)', StepOver
  PROVE  Runs(Program') = Runs(Program)
<1>1. Top.stmts \in Seq(Stmt)
  BY WalkParts DEF FrameOf
<1>2. Continue(Top.stmts, Succ(Top.it, Top.stmts), FALSE)
  BY DEF StepOver
<1>3. QED
  BY <1>1, <1>2, ContinueRuns

LEMMA LoopRuns ==
  ASSUME IsAst(Stmt), LoopInv, [Next]_optv, ~ LosesOtherwise
  PROVE  Runs(Program') = Runs(Program)
<1>1. LoopInv' /\ WalkOK(Stmt) /\ WalkOK(Stmt)'
  BY LoopNext DEF LoopInv
<1>2. CASE FoldAll
  <2>1. Top.stmts \in Seq(Stmt) /\ Program = Top.stmts /\ Program' = FoldStmts(Top.stmts)
    BY <1>1, <1>2, FoldAllProgram
  <2>2. QED
    BY <2>1, FoldListRuns
<1>3. CASE DceStep
  BY <1>1, <1>3, StepOverRuns, LiftRuns, EraseRuns, TruncateRuns, EnterSame, LeaveSame DEF DceStep, Step
<1>4. CASE NextTurn \/ Done \/ UNCHANGED optv
  BY <1>4 DEF NextTurn, Done, optv, Program
<1>5. QED
  BY <1>2, <1>3, <1>4 DEF Next

(* No step of the optimiser changes what the program may do, but one: the  *)
(* erasing of a while with condition 0 that has an otherwise list.         *)
THEOREM OtherwiseIsLost ==
  ASSUME IsAst(Stmt), Programs \subseteq Seq(Stmt)
  PROVE  Spec => [][LosesOtherwise \/ Runs(Program') = Runs(Program)]_frames
<1>1. Init => LoopInv
  BY LoopInit
<1>2. LoopInv /\ [Next]_optv => LoopInv'
  BY LoopNext
<1>3. LoopInv /\ [Next]_optv => [LosesOtherwise \/ Runs(Program') = Runs(Program)]_frames
  BY LoopRuns
<1>4. QED
  BY <1>1, <1>2, <1>3, PTL DEF Spec

-----------------------------------------------------------------------------
(* The statements in which no while whose condition folds to 0 has an      *)
(* otherwise list.                                                         *)
PlainOver(s, plain) ==
  /\ s.kind = "WhileStmt" /\ Folded[s.cond] \in Zero => s.otherwise_stmts = <<>>
  /\ \A t \in Children(s) : plain[t]

Plain[s \in Stmt] == PlainOver(s, [t \in Children(s) |-> Plain[t]])

PlainStmts == {s \in Stmt : Plain[s]}

LEMMA PlainDef ==
  ASSUME IsAst(Stmt), NEW s \in Stmt
  PROVE  s \in PlainStmts <=>
           /\ s.kind = "WhileStmt" /\ Folded[s.cond] \in Zero => s.otherwise_stmts = <<>>
           /\ Children(s) \subseteq PlainStmts
<1> DEFINE over == [t \in Stmt |-> [g \in [Children(t) -> BOOLEAN] |-> PlainOver(t, g)]]
<1>1. \A t \in Stmt : \A g \in [Children(t) -> BOOLEAN] : over[t][g] = PlainOver(t, g)
  OBVIOUS
<1>2. Into(over, BOOLEAN)
  BY <1>1 DEF Into, PlainOver
<1> HIDE DEF over
<1>3. PICK h \in [Stmt -> BOOLEAN] : Meets(h, over)
  BY <1>2, StmtRecursion
<1>4. ASSUME NEW f \in [Stmt -> BOOLEAN], NEW t \in Stmt PROVE Below(t, f) \in [Children(t) -> BOOLEAN]
  BY ChildrenInside DEF Below
<1>5. \A t \in Stmt : h[t] = PlainOver(t, [c \in Children(t) |-> h[c]])
  BY <1>1, <1>3, <1>4 DEF Below, Meets
<1>6. h = [t \in Stmt |-> PlainOver(t, [c \in Children(t) |-> h[c]])]
  BY <1>5
<1>7. Plain = [t \in Stmt |-> PlainOver(t, [c \in Children(t) |-> Plain[c]])]
  BY <1>6, Zenon DEF Plain
<1>8. Plain[s] <=> PlainOver(s, Below(s, Plain))
  BY <1>7 DEF Below
<1>9. \A t \in Children(s) : t \in Stmt /\ (Below(s, Plain)[t] <=> Plain[t])
  BY ChildrenInside DEF Below
<1>10. QED
  BY <1>8, <1>9 DEF PlainOver, PlainStmts

LEMMA PlainLists ==
  ASSUME NEW stmts \in Seq(Stmt)
  PROVE  stmts \in Seq(PlainStmts) <=> Elements(stmts) \subseteq PlainStmts
<1>1. ASSUME Elements(stmts) \subseteq PlainStmts PROVE stmts \in Seq(PlainStmts)
  <2>1. \A i \in 1 .. Len(stmts) : stmts[i] \in PlainStmts
    BY <1>1, ElementsOf
  <2>2. QED
    BY <2>1
<1>2. ASSUME stmts \in Seq(PlainStmts) PROVE Elements(stmts) \subseteq PlainStmts
  BY <1>2, ElementsOf
<1>3. QED
  BY <1>1, <1>2

LEMMA PlainClosed ==
  ASSUME IsAst(Stmt)
  PROVE  Closed(PlainStmts)
<1>1. ASSUME NEW s \in PlainStmts, s.kind = "IfStmt"
      PROVE  s.then_stmts \in Seq(PlainStmts) /\ s.else_stmts \in Seq(PlainStmts)
  <2>1. s \in Stmt
    BY DEF PlainStmts
  <2>2. s \in Ifs
    BY <1>1, <2>1, Kinds DEF Simples, Whiles, Repeats_, Fundecs
  <2>3. Children(s) \subseteq PlainStmts
    BY <2>1, PlainDef
  <2>4. QED
    BY <2>2, <2>3, IfShape, PlainLists
<1>2. ASSUME NEW s \in FundecsIn(PlainStmts)
      PROVE  /\ s.body \in Seq(PlainStmts)
             /\ \A body \in Seq(PlainStmts) : [s EXCEPT !.body = body] \in FundecsIn(PlainStmts)
  <2>1. s \in Stmt /\ s.kind = "FundecStmt" /\ s \in PlainStmts
    BY DEF PlainStmts, FundecsIn
  <2>2. s \in Fundecs
    BY <2>1, Kinds DEF Simples, Whiles, Repeats_, Ifs
  <2>3. s.body \in Seq(PlainStmts)
    <3>1. Children(s) \subseteq PlainStmts
      BY <2>1, PlainDef
    <3>2. QED
      BY <2>2, <3>1, FundecShape, PlainLists
  <2>4. ASSUME NEW body \in Seq(PlainStmts) PROVE [s EXCEPT !.body = body] \in FundecsIn(PlainStmts)
    <3> DEFINE d == [s EXCEPT !.body = body]
    <3>1. body \in Seq(Stmt)
      BY DEF PlainStmts
    <3>2. d \in Fundecs /\ d.body = body
      BY <2>2, <3>1 DEF Fundecs
    <3> HIDE DEF d
    <3>3. d \in Stmt /\ d.kind = "FundecStmt" /\ Children(d) = Elements(body)
      BY <3>2, FundecShape
    <3>4. Children(d) \subseteq PlainStmts
      BY <3>1, <3>3, PlainLists
    <3>5. d \in PlainStmts
      BY <3>3, <3>4, PlainDef
    <3>6. QED
      BY <3>3, <3>5 DEF FundecsIn, d
  <2>5. QED
    BY <2>3, <2>4
<1>3. QED
  BY <1>1, <1>2 DEF Closed

LEMMA FoldPlain ==
  ASSUME IsAst(Stmt)
  PROVE  \A s \in PlainStmts : FoldStmt[s] \in PlainStmts
<1> DEFINE A == {s \in Stmt : s \in PlainStmts => FoldStmt[s] \in PlainStmts}
<1>0. \A e \in Exp : Folded[e] \in Exp /\ Folded[Folded[e]] = Folded[e]
  BY FoldedAssumption
<1>1. ASSUME NEW stmts \in Seq(Stmt), Elements(stmts) \subseteq A, Elements(stmts) \subseteq PlainStmts
      PROVE  FoldStmts(stmts) \in Seq(Stmt) /\ Elements(FoldStmts(stmts)) \subseteq PlainStmts
  <2>1. /\ FoldStmts(stmts) \in Seq(Stmt) /\ Len(FoldStmts(stmts)) = Len(stmts)
        /\ \A i \in 1 .. Len(stmts) : FoldStmts(stmts)[i] = FoldStmt[stmts[i]]
    BY FoldStmtsType
  <2>2. \A i \in 1 .. Len(stmts) : stmts[i] \in A /\ stmts[i] \in PlainStmts
    BY <1>1, ElementsOf
  <2>3. \A i \in 1 .. Len(FoldStmts(stmts)) : FoldStmts(stmts)[i] \in PlainStmts
    BY <2>1, <2>2
  <2>4. QED
    BY <2>1, <2>3 DEF Elements
<1>2. ASSUME NEW s \in Simples PROVE FoldStmt[s] \in PlainStmts
  <2> DEFINE t == [s EXCEPT !.exp = Folded[s.exp]]
  <2>1. t \in Simples
    BY <1>0, SimpleShape DEF Simples
  <2>2. FoldStmt[s] = t
    BY FoldStmtCases
  <2> HIDE DEF t
  <2>3. t \in Stmt /\ t.kind # "WhileStmt" /\ Children(t) = {}
    BY <2>1, SimpleShape
  <2>4. QED
    BY <2>2, <2>3, PlainDef
<1>3. ASSUME NEW s \in Stmt, s \in PlainStmts, Children(s) \subseteq A
      PROVE  /\ Children(s) \subseteq PlainStmts
             /\ s.kind = "WhileStmt" /\ Folded[s.cond] \in Zero => s.otherwise_stmts = <<>>
  BY <1>3, PlainDef
<1>4. ASSUME NEW s \in Ifs, s \in PlainStmts, Children(s) \subseteq A PROVE FoldStmt[s] \in PlainStmts
  <2> DEFINE a == FoldStmts(s.then_stmts)
             b == FoldStmts(s.else_stmts)
             t == [kind |-> "IfStmt", cond |-> Folded[s.cond], then_stmts |-> a, else_stmts |-> b]
  <2>1. /\ a \in Seq(Stmt) /\ Elements(a) \subseteq PlainStmts
        /\ b \in Seq(Stmt) /\ Elements(b) \subseteq PlainStmts
    BY <1>1, <1>3, <1>4, IfShape
  <2>2. FoldStmt[s] = t
    BY FoldStmtCases
  <2> HIDE DEF a, b
  <2>3. t \in Ifs /\ t.then_stmts = a /\ t.else_stmts = b
    BY <1>0, <2>1, IfShape DEF Ifs
  <2> HIDE DEF t
  <2>4. t \in Stmt /\ t.kind # "WhileStmt" /\ Children(t) \subseteq PlainStmts
    BY <2>1, <2>3, IfShape
  <2>5. QED
    BY <2>2, <2>4, PlainDef
<1>5. ASSUME NEW s \in Whiles, s \in PlainStmts, Children(s) \subseteq A PROVE FoldStmt[s] \in PlainStmts
  <2> DEFINE a == FoldStmts(s.body_stmts)
             b == FoldStmts(s.otherwise_stmts)
             t == [kind |-> "WhileStmt", cond |-> Folded[s.cond], body_stmts |-> a, otherwise_stmts |-> b]
  <2>1. /\ a \in Seq(Stmt) /\ Elements(a) \subseteq PlainStmts
        /\ b \in Seq(Stmt) /\ Elements(b) \subseteq PlainStmts
    BY <1>1, <1>3, <1>5, WhileShape
  <2>2. FoldStmt[s] = t
    BY FoldStmtCases
  <2>3. s.otherwise_stmts = <<>> => b = <<>>
    BY DEF FoldStmts, FoldEach
  <2> HIDE DEF a, b
  <2>4. t \in Whiles /\ t.cond = Folded[s.cond] /\ t.body_stmts = a /\ t.otherwise_stmts = b
    BY <1>0, <2>1, WhileShape DEF Whiles
  <2> HIDE DEF t
  <2>5. t \in Stmt /\ Children(t) \subseteq PlainStmts
    BY <2>1, <2>4, WhileShape
  <2>6. Folded[t.cond] \in Zero => t.otherwise_stmts = <<>>
    BY <1>0, <1>3, <1>5, <2>3, <2>4, WhileShape
  <2>7. QED
    BY <2>2, <2>5, <2>6, PlainDef
<1>6. ASSUME NEW s \in Repeats_, s \in PlainStmts, Children(s) \subseteq A PROVE FoldStmt[s] \in PlainStmts
  <2> DEFINE a == FoldStmts(s.body_stmts)
             t == [kind |-> "RepeatStmt", cond |-> Folded[s.cond], body_stmts |-> a]
  <2>1. a \in Seq(Stmt) /\ Elements(a) \subseteq PlainStmts
    BY <1>1, <1>3, <1>6, RepeatShape
  <2>2. FoldStmt[s] = t
    BY FoldStmtCases
  <2> HIDE DEF a
  <2>3. t \in Repeats_ /\ t.body_stmts = a
    BY <1>0, <2>1, RepeatShape DEF Repeats_
  <2> HIDE DEF t
  <2>4. t \in Stmt /\ t.kind # "WhileStmt" /\ Children(t) \subseteq PlainStmts
    BY <2>1, <2>3, RepeatShape
  <2>5. QED
    BY <2>2, <2>4, PlainDef
<1>7. ASSUME NEW s \in Fundecs, s \in PlainStmts, Children(s) \subseteq A PROVE FoldStmt[s] \in PlainStmts
  <2> DEFINE a == FoldStmts(s.body)
             t == [kind |-> "FundecStmt", name |-> s.name, params |-> s.params, body |-> a]
  <2>1. a \in Seq(Stmt) /\ Elements(a) \subseteq PlainStmts
    BY <1>1, <1>3, <1>7, FundecShape
  <2>2. FoldStmt[s] = t
    BY FoldStmtCases
  <2> HIDE DEF a
  <2>3. t \in Fundecs /\ t.body = a
    BY <2>1, FundecShape DEF Fundecs
  <2> HIDE DEF t
  <2>4. t \in Stmt /\ t.kind # "WhileStmt" /\ Children(t) \subseteq PlainStmts
    BY <2>1, <2>3, FundecShape
  <2>5. QED
    BY <2>2, <2>4, PlainDef
<1>8. ASSUME NEW s \in Stmt, Children(s) \subseteq A PROVE s \in A
  <2>1. s \in PlainStmts => FoldStmt[s] \in PlainStmts
    BY <1>2, <1>4, <1>5, <1>6, <1>7, <1>8, Kinds
  <2>2. QED
    BY <2>1
<1> HIDE DEF A
<1>9. Stmt \subseteq A
  BY <1>8, StmtInduction
<1>10. QED
  BY <1>9 DEF A, PlainStmts

LEMMA FoldPlainList ==
  ASSUME IsAst(Stmt), NEW stmts \in Seq(PlainStmts)
  PROVE  FoldStmts(stmts) \in Seq(PlainStmts)
<1>1. stmts \in Seq(Stmt)
  BY DEF PlainStmts
<1>2. /\ FoldStmts(stmts) \in Seq(Stmt) /\ Len(FoldStmts(stmts)) = Len(stmts)
      /\ \A i \in 1 .. Len(stmts) : FoldStmts(stmts)[i] = FoldStmt[stmts[i]]
  BY <1>1, FoldStmtsType
<1>3. \A i \in 1 .. Len(stmts) : FoldStmts(stmts)[i] \in PlainStmts
  BY <1>2, FoldPlain
<1>4. QED
  BY <1>2, <1>3

LEMMA PlainNext ==
  ASSUME IsAst(Stmt), LoopInv, WalkOK(PlainStmts), [Next]_optv
  PROVE  WalkOK(PlainStmts)' /\ ~ LosesOtherwise
<1>1. ASSUME EraseLoop PROVE ~ LosesOtherwise
  <2>1. Cur \in PlainStmts /\ Cur.cond \in Zero
    BY <1>1, AtParts DEF EraseLoop
  <2>2. Cur \in Stmt /\ Folded[Cur.cond] = Cur.cond
    BY <2>1, FoldedAssumption DEF PlainStmts
  <2>3. QED
    BY <2>1, <2>2, PlainDef DEF LosesOtherwise
<1>2. CASE FoldAll
  <2>1. Top.stmts \in Seq(PlainStmts)
    BY WalkParts DEF FrameOf
  <2>2. FoldStmts(Top.stmts) \in Seq(PlainStmts) /\ frames' = <<Call(FoldStmts(Top.stmts))>>
    BY <1>2, <2>1, FoldPlainList DEF FoldAll
  <2>3. WalkOK(PlainStmts)'
    BY <2>2, AgainKeeps
  <2>4. QED
    BY <1>1, <2>3 DEF LosesOtherwise
<1>3. CASE DceStep
  <2>1. WalkOK(PlainStmts)'
    BY <1>3, PlainClosed, StepKeeps DEF DceStep
  <2>2. QED
    BY <1>1, <2>1 DEF LosesOtherwise
<1>4. CASE NextTurn \/ Done \/ UNCHANGED optv
  <2>1. WalkOK(PlainStmts)'
    BY <1>4 DEF NextTurn, Done, optv, WalkOK, IteratorsStand
  <2>2. QED
    BY <1>1, <2>1 DEF LosesOtherwise
<1>5. QED
  BY <1>2, <1>3, <1>4 DEF Next

(* Programs in which no while that never runs has an otherwise list keep   *)
(* their meaning at every step of fold_stmts, dce_stmts and the loop.      *)
THEOREM KeepsMeaning ==
  ASSUME IsAst(Stmt), Programs \subseteq Seq(PlainStmts)
  PROVE  Spec => MeaningPreserved
<1>1. Init => LoopInv /\ WalkOK(PlainStmts)
  <2>1. Programs \subseteq Seq(Stmt)
    <3>1. Seq(PlainStmts) \subseteq Seq(Stmt)
      BY DEF PlainStmts
    <3>2. QED
      BY <3>1
  <2>2. ASSUME Init PROVE WalkOK(PlainStmts)
    <3>1. PICK p \in Programs : frames = <<Call(p)>>
      BY <2>2 DEF Init
    <3>2. QED
      BY <3>1, StartKeeps
  <2>3. QED
    BY <2>1, <2>2, LoopInit
<1>2. LoopInv /\ WalkOK(PlainStmts) /\ [Next]_optv => LoopInv' /\ WalkOK(PlainStmts)'
  BY LoopNext, PlainNext
<1>3. LoopInv /\ WalkOK(PlainStmts) /\ [Next]_optv => [Runs(Program') = Runs(Program)]_frames
  BY LoopRuns, PlainNext
<1>4. QED
  BY <1>1, <1>2, <1>3, PTL DEF Spec, MeaningPreserved

-----------------------------------------------------------------------------
(* Sums of the first members of a sequence of numbers.                     *)
LEMMA SumsDef ==
  ASSUME NEW f \in Seq(Nat)
  PROVE  /\ Sums(f)[0] = 0
         /\ \A k \in 1 .. Len(f) : Sums(f)[k] = Sums(f)[k - 1] + f[k]
         /\ \A k \in 0 .. Len(f) : Sums(f)[k] \in Nat
         /\ Total(f) = Sums(f)[Len(f)] /\ Total(f) \in Nat
<1> DEFINE n == Len(f)
           step == [k \in 1 .. n |-> [x \in Nat |-> x + f[k]]]
           Fits(h) == h = [k \in 0 .. n |-> IF k = 0 THEN 0 ELSE h[k - 1] + f[k]]
<1>1. n \in Nat /\ \A k \in 1 .. n : f[k] \in Nat
  OBVIOUS
<1>2. step \in [1 .. n -> [Nat -> Nat]]
  BY <1>1
<1>3. \A k \in 1 .. n : \A x \in Nat : step[k][x] = x + f[k]
  OBVIOUS
<1> HIDE DEF step, n
<1>4. PICK h \in [0 .. n -> Nat] : Repeats(h, n, 0, step)
  BY <1>1, <1>2, PrefixRecursion
<1>5. h[0] = 0 /\ \A k \in 1 .. n : h[k] = h[k - 1] + f[k]
  <2>1. \A k \in 1 .. n : h[k - 1] \in Nat
    BY <1>1, <1>4
  <2>2. QED
    BY <1>3, <1>4, <2>1 DEF Repeats
<1>6. Fits(h)
  BY <1>1, <1>4, <1>5
<1>7. Fits(Sums(f))
  BY <1>6, Zenon DEF Sums, n
<1> DEFINE t == Sums(f)
<1>8. t[0] = 0 /\ \A k \in 1 .. n : t[k] = t[k - 1] + f[k]
  BY <1>1, <1>7
<1> HIDE DEF t, Fits
<1> DEFINE A == {k \in Nat : k <= n => t[k] \in Nat}
<1>9. 0 \in A
  BY <1>8
<1>10. ASSUME NEW k \in Nat, k \in A PROVE k + 1 \in A
  <2> SUFFICES ASSUME k + 1 <= n PROVE t[k + 1] \in Nat
    OBVIOUS
  <2>1. t[k] \in Nat /\ (k + 1) - 1 = k /\ k + 1 \in 1 .. n
    BY <1>1, <1>10
  <2>2. t[k + 1] = t[k] + f[k + 1] /\ f[k + 1] \in Nat
    BY <1>1, <1>8, <2>1
  <2>3. QED
    BY <2>1, <2>2
<1> HIDE DEF A
<1>11. \A k \in Nat : k \in A
  BY <1>9, <1>10, NaturalInduction
<1>12. \A k \in 0 .. n : t[k] \in Nat
  BY <1>1, <1>11 DEF A
<1>13. Total(f) = t[n] /\ t[n] \in Nat
  BY <1>1, <1>12 DEF Total, t, n
<1>14. QED
  BY <1>8, <1>12, <1>13 DEF t, n

(* Sums over equal members are equal, wherever the members are.            *)
Alongside(f, a, g, b, m) ==
  \E d \in Nat : Sums(f)[a + m] = Sums(f)[a] + d /\ Sums(g)[b + m] = Sums(g)[b] + d

LEMMA SumsShift ==
  ASSUME NEW f \in Seq(Nat), NEW g \in Seq(Nat), NEW a \in Nat, NEW b \in Nat, NEW m \in Nat,
         a + m <= Len(f), b + m <= Len(g), \A i \in 1 .. m : f[a + i] = g[b + i]
  PROVE  Alongside(f, a, g, b, m)
<1> DEFINE s == Sums(f)
           t == Sums(g)
           A == {k \in Nat : k <= m => Alongside(f, a, g, b, k)}
<1>1. /\ Len(f) \in Nat /\ \A k \in 1 .. Len(f) : s[k] = s[k - 1] + f[k] /\ f[k] \in Nat
      /\ \A k \in 0 .. Len(f) : s[k] \in Nat
  BY SumsDef
<1>2. /\ Len(g) \in Nat /\ \A k \in 1 .. Len(g) : t[k] = t[k - 1] + g[k] /\ g[k] \in Nat
      /\ \A k \in 0 .. Len(g) : t[k] \in Nat
  BY SumsDef
<1> HIDE DEF s, t
<1>3. PICK x \in Nat, y \in Nat : x = s[a] /\ y = t[b]
  <2>1. a \in 0 .. Len(f) /\ b \in 0 .. Len(g)
    BY <1>1, <1>2
  <2>2. QED
    BY <1>1, <1>2, <2>1
<1>4. 0 \in A
  <2>1. a + 0 = a /\ b + 0 = b /\ x = x + 0 /\ y = y + 0 /\ 0 \in Nat
    OBVIOUS
  <2>2. s[a + 0] = s[a] + 0 /\ t[b + 0] = t[b] + 0
    BY <1>3, <2>1
  <2>3. Alongside(f, a, g, b, 0)
    BY <2>1, <2>2 DEF Alongside, s, t
  <2>4. QED
    BY <2>3
<1>5. ASSUME NEW k \in Nat, k \in A, k + 1 <= m PROVE Alongside(f, a, g, b, k + 1)
  <2>1. PICK p \in Nat, q \in Nat : p = a + (k + 1) /\ q = b + (k + 1)
    OBVIOUS
  <2>2. /\ p \in 1 .. Len(f) /\ p - 1 = a + k /\ q \in 1 .. Len(g) /\ q - 1 = b + k
        /\ k + 1 \in 1 .. m /\ k <= m
    BY <1>1, <1>2, <1>5, <2>1
  <2>3. PICK d \in Nat : s[a + k] = s[a] + d /\ t[b + k] = t[b] + d
    BY <1>5, <2>2 DEF Alongside, s, t
  <2>4. f[p] = g[q]
    BY <2>1, <2>2
  <2>5. PICK v \in Nat : v = f[p]
    BY <1>1, <2>2
  <2>6. s[p] = (x + d) + v /\ t[q] = (y + d) + v
    BY <1>1, <1>2, <1>3, <2>2, <2>3, <2>4, <2>5
  <2>7. (x + d) + v = x + (d + v) /\ (y + d) + v = y + (d + v) /\ d + v \in Nat
    OBVIOUS
  <2>8. s[p] = s[a] + (d + v) /\ t[q] = t[b] + (d + v)
    BY <1>3, <2>6, <2>7
  <2>9. QED
    BY <2>1, <2>7, <2>8 DEF Alongside, s, t
<1>6. ASSUME NEW k \in Nat, k \in A PROVE k + 1 \in A
  <2>1. CASE k + 1 <= m
    BY <1>5, <1>6, <2>1
  <2>2. CASE ~ (k + 1 <= m)
    BY <2>2
  <2>3. QED
    BY <2>1, <2>2
<1> HIDE DEF A
<1>7. \A k \in Nat : k \in A
  BY <1>4, <1>6, NaturalInduction
<1>8. QED
  BY <1>7 DEF A

LEMMA SumsSame ==
  ASSUME NEW f \in Seq(Nat), NEW g \in Seq(Nat), NEW m \in Nat, m <= Len(f), m <= Len(g),
         \A i \in 1 .. m : f[i] = g[i]
  PROVE  Sums(f)[m] = Sums(g)[m]
<1>1. Sums(f)[0] = 0 /\ Sums(g)[0] = 0
  BY SumsDef
<1>2. 0 + m = m /\ 0 \in Nat /\ \A i \in 1 .. m : f[0 + i] = g[0 + i]
  OBVIOUS
<1>3. Alongside(f, 0, g, 0, m)
  BY <1>2, SumsShift
<1>4. PICK d \in Nat : Sums(f)[0 + m] = Sums(f)[0] + d /\ Sums(g)[0 + m] = Sums(g)[0] + d
  BY <1>3 DEF Alongside
<1>5. QED
  BY <1>1, <1>2, <1>4

LEMMA SumsRise ==
  ASSUME NEW f \in Seq(Nat), \A i \in 1 .. Len(f) : f[i] # 0, NEW a \in 0 .. Len(f), a < Len(f)
  PROVE  Sums(f)[a] < Sums(f)[Len(f)]
<1> DEFINE s == Sums(f)
           n == Len(f)
           A == {k \in Nat : a < k /\ k <= n => s[a] < s[k]}
<1>1. /\ n \in Nat /\ \A k \in 1 .. n : s[k] = s[k - 1] + f[k] /\ f[k] \in Nat \ {0}
      /\ \A k \in 0 .. n : s[k] \in Nat
  BY SumsDef
<1> HIDE DEF s, n
<1>2. 0 \in A
  BY <1>1 DEF n
<1>3. ASSUME NEW k \in Nat, k \in A PROVE k + 1 \in A
  <2> SUFFICES ASSUME a < k + 1, k + 1 <= n PROVE s[a] < s[k + 1]
    OBVIOUS
  <2>1. k + 1 \in 1 .. n /\ (k + 1) - 1 = k /\ k \in 0 .. n /\ a \in 0 .. n /\ k + 1 \in 0 .. n
    BY <1>1 DEF n
  <2>2. s[k + 1] = s[k] + f[k + 1] /\ f[k + 1] \in Nat \ {0} /\ s[k] \in Nat /\ s[a] \in Nat /\ s[k + 1] \in Nat
    BY <1>1, <2>1
  <2>3. s[k] < s[k + 1]
    BY <2>2
  <2>4. a = k \/ s[a] < s[k]
    BY <1>3, <2>1
  <2>5. QED
    BY <2>2, <2>3, <2>4
<1> HIDE DEF A
<1>4. \A k \in Nat : k \in A
  BY <1>2, <1>3, NaturalInduction
<1>5. n \in A /\ a < n
  BY <1>1, <1>4 DEF n
<1>6. QED
  BY <1>1, <1>5 DEF A, s, n

(* The sum with one member replaced by a row of others.                    *)
LEMMA TotalReplaced ==
  ASSUME NEW f \in Seq(Nat), NEW it \in 1 .. Len(f), NEW mid \in Seq(Nat), NEW new \in Seq(Nat),
         Replaces(new, f, it, mid)
  PROVE  \E rest \in Nat : Total(f) = rest + f[it] /\ Total(new) = rest + Total(mid)
<1> DEFINE n == Len(f)
           m == Len(mid)
           s == Sums(f)
           t == Sums(new)
           u == Sums(mid)
<1>1. /\ n \in Nat /\ m \in Nat /\ Len(new) = n - 1 + m
      /\ it \in 1 .. n /\ it - 1 \in Nat /\ n - it \in Nat /\ (it - 1) + m \in Nat
  BY DEF Replaces
<1>2. /\ \A i \in 1 .. it - 1 : new[i] = f[i]
      /\ \A i \in 1 .. m : new[it - 1 + i] = mid[i]
      /\ \A i \in it + 1 .. n : new[i - 1 + m] = f[i]
  BY DEF Replaces
<1>3. /\ s[it] = s[it - 1] + f[it] /\ s[it - 1] \in Nat /\ f[it] \in Nat
      /\ u[0] = 0 /\ u[m] \in Nat
      /\ Total(f) = s[n] /\ Total(new) = t[Len(new)] /\ Total(mid) = u[m]
  <2>1. it - 1 \in 0 .. n /\ m \in 0 .. m
    BY <1>1
  <2>2. QED
    BY <2>1, SumsDef
<1> HIDE DEF n, m
<1>4. t[it - 1] = s[it - 1]
  <2>1. it - 1 <= Len(new) /\ it - 1 <= Len(f)
    BY <1>1 DEF n
  <2>2. QED
    BY <1>1, <1>2, <2>1, SumsSame
<1>5. PICK d \in Nat : t[(it - 1) + m] = t[it - 1] + d /\ u[0 + m] = u[0] + d
  <2>1. (it - 1) + m <= Len(new) /\ 0 + m <= Len(mid) /\ 0 \in Nat
    BY <1>1 DEF m
  <2>2. \A i \in 1 .. m : new[(it - 1) + i] = mid[0 + i]
    BY <1>1, <1>2
  <2>3. Alongside(new, it - 1, mid, 0, m)
    BY <1>1, <2>1, <2>2, SumsShift
  <2>4. QED
    BY <2>3 DEF Alongside
<1>6. PICK e \in Nat : t[((it - 1) + m) + (n - it)] = t[(it - 1) + m] + e /\ s[it + (n - it)] = s[it] + e
  <2>1. ((it - 1) + m) + (n - it) <= Len(new) /\ it + (n - it) <= Len(f) /\ it \in Nat
    BY <1>1 DEF n
  <2>2. ASSUME NEW i \in 1 .. n - it PROVE new[((it - 1) + m) + i] = f[it + i]
    <3>1. it + i \in it + 1 .. n /\ (it + i) - 1 + m = ((it - 1) + m) + i
      BY <1>1
    <3>2. QED
      BY <1>2, <3>1
  <2>3. Alongside(new, (it - 1) + m, f, it, n - it)
    BY <1>1, <2>1, <2>2, SumsShift
  <2>4. QED
    BY <2>3 DEF Alongside
<1>7. ((it - 1) + m) + (n - it) = Len(new) /\ it + (n - it) = n /\ 0 + m = m
  BY <1>1
<1> HIDE DEF s, t, u
<1>8. PICK x \in Nat, v \in Nat : x = s[it - 1] /\ v = f[it]
  BY <1>3
<1>9. Total(mid) = d
  BY <1>3, <1>5, <1>7
<1>10. Total(new) = (x + d) + e /\ Total(f) = (x + v) + e
  BY <1>3, <1>4, <1>5, <1>6, <1>7, <1>8
<1>11. x + e \in Nat /\ (x + d) + e = (x + e) + d /\ (x + v) + e = (x + e) + v
  OBVIOUS
<1>12. QED
  BY <1>8, <1>9, <1>10, <1>11

-----------------------------------------------------------------------------
(* The size of each kind of statement, and of lists.                       *)
LEMMA SizeEachType ==
  ASSUME NEW stmts \in Seq(Stmt), NEW size, \A i \in 1 .. Len(stmts) : size[stmts[i]] \in Nat
  PROVE  /\ SizeEach(stmts, size) \in Seq(Nat) /\ Len(SizeEach(stmts, size)) = Len(stmts)
         /\ \A i \in 1 .. Len(stmts) : SizeEach(stmts, size)[i] = size[stmts[i]]
<1>1. SizeEach(stmts, size) = [i \in 1 .. Len(stmts) |-> size[stmts[i]]] /\ Len(stmts) \in Nat
  BY DEF SizeEach
<1>2. QED
  BY <1>1

Inside(stmts, size) == 1 + Total(SizeEach(stmts, size))

LEMMA SizeOverCases ==
  ASSUME IsAst(Stmt), NEW size
  PROVE  /\ \A s \in Simples : SizeOver(s, size) = 1
         /\ \A s \in Ifs : SizeOver(s, size) = 1 + Inside(s.then_stmts, size) + Inside(s.else_stmts, size)
         /\ \A s \in Whiles : SizeOver(s, size) = 1 + Inside(s.body_stmts, size) + Inside(s.otherwise_stmts, size)
         /\ \A s \in Repeats_ : SizeOver(s, size) = 1 + Inside(s.body_stmts, size)
         /\ \A s \in Fundecs : SizeOver(s, size) = 1 + Inside(s.body, size)
<1>1. ASSUME NEW s \in Simples PROVE SizeOver(s, size) = 1
  <2>1. s.kind # "IfStmt" /\ s.kind # "WhileStmt" /\ s.kind # "RepeatStmt" /\ s.kind # "FundecStmt"
    BY SimpleShape
  <2>2. QED
    BY <2>1, Zenon DEF SizeOver
<1>2. ASSUME NEW s \in Ifs
      PROVE  SizeOver(s, size) = 1 + Inside(s.then_stmts, size) + Inside(s.else_stmts, size)
  BY IfShape, Zenon DEF SizeOver, Inside
<1>3. ASSUME NEW s \in Whiles
      PROVE  SizeOver(s, size) = 1 + Inside(s.body_stmts, size) + Inside(s.otherwise_stmts, size)
  <2>1. s.kind = "WhileStmt" /\ s.kind # "IfStmt"
    BY WhileShape
  <2>2. QED
    BY <2>1, Zenon DEF SizeOver, Inside
<1>4. ASSUME NEW s \in Repeats_
      PROVE  SizeOver(s, size) = 1 + Inside(s.body_stmts, size)
  <2>1. s.kind = "RepeatStmt" /\ s.kind # "IfStmt" /\ s.kind # "WhileStmt"
    BY RepeatShape
  <2>2. QED
    BY <2>1, Zenon DEF SizeOver, Inside
<1>5. ASSUME NEW s \in Fundecs
      PROVE  SizeOver(s, size) = 1 + Inside(s.body, size)
  <2>1. s.kind = "FundecStmt" /\ s.kind # "IfStmt" /\ s.kind # "WhileStmt" /\ s.kind # "RepeatStmt"
    BY FundecShape
  <2>2. QED
    BY <2>1, Zenon DEF SizeOver, Inside
<1>6. QED
  BY <1>1, <1>2, <1>3, <1>4, <1>5

LEMMA SizeOverType ==
  ASSUME IsAst(Stmt), NEW s \in Stmt, NEW size, \A t \in Children(s) : size[t] \in Nat
  PROVE  SizeOver(s, size) \in Nat \ {0}
<1>1. ASSUME NEW stmts \in Seq(Stmt), Elements(stmts) \subseteq Children(s) PROVE Inside(stmts, size) \in Nat \ {0}
  <2>1. \A i \in 1 .. Len(stmts) : size[stmts[i]] \in Nat
    BY <1>1, ElementsOf
  <2>2. SizeEach(stmts, size) \in Seq(Nat)
    BY <2>1, SizeEachType
  <2>3. Total(SizeEach(stmts, size)) \in Nat
    BY <2>2, SumsDef
  <2>4. QED
    BY <2>3 DEF Inside
<1>2. CASE s \in Simples
  BY <1>2, SizeOverCases
<1>3. CASE s \in Ifs
  <2>1. Inside(s.then_stmts, size) \in Nat \ {0} /\ Inside(s.else_stmts, size) \in Nat \ {0}
    BY <1>1, <1>3, IfShape
  <2>2. SizeOver(s, size) = 1 + Inside(s.then_stmts, size) + Inside(s.else_stmts, size)
    BY <1>3, SizeOverCases
  <2>3. QED
    BY <2>1, <2>2
<1>4. CASE s \in Whiles
  <2>1. Inside(s.body_stmts, size) \in Nat \ {0} /\ Inside(s.otherwise_stmts, size) \in Nat \ {0}
    BY <1>1, <1>4, WhileShape
  <2>2. SizeOver(s, size) = 1 + Inside(s.body_stmts, size) + Inside(s.otherwise_stmts, size)
    BY <1>4, SizeOverCases
  <2>3. QED
    BY <2>1, <2>2
<1>5. CASE s \in Repeats_
  <2>1. Inside(s.body_stmts, size) \in Nat \ {0} /\ SizeOver(s, size) = 1 + Inside(s.body_stmts, size)
    BY <1>1, <1>5, RepeatShape, SizeOverCases
  <2>2. QED
    BY <2>1
<1>6. CASE s \in Fundecs
  <2>1. Inside(s.body, size) \in Nat \ {0} /\ SizeOver(s, size) = 1 + Inside(s.body, size)
    BY <1>1, <1>6, FundecShape, SizeOverCases
  <2>2. QED
    BY <2>1
<1>7. QED
  BY <1>2, <1>3, <1>4, <1>5, <1>6, Kinds

LEMMA SizeOfDef ==
  ASSUME IsAst(Stmt)
  PROVE  \A s \in Stmt : SizeOf[s] = SizeOver(s, Below(s, SizeOf)) /\ SizeOf[s] \in Nat \ {0}
<1> DEFINE V == Nat \ {0}
           over == [s \in Stmt |-> [g \in [Children(s) -> V] |-> SizeOver(s, g)]]
<1>1. \A s \in Stmt : \A g \in [Children(s) -> V] : over[s][g] = SizeOver(s, g)
  OBVIOUS
<1>2. Into(over, V)
  <2>1. ASSUME NEW s \in Stmt, NEW g \in [Children(s) -> V] PROVE SizeOver(s, g) \in V
    BY SizeOverType
  <2>2. QED
    BY <1>1, <2>1 DEF Into
<1>3. V # {}
  OBVIOUS
<1> HIDE DEF over, V
<1>4. PICK h \in [Stmt -> V] : Meets(h, over)
  BY <1>2, <1>3, StmtRecursion
<1>5. ASSUME NEW f \in [Stmt -> V], NEW s \in Stmt PROVE Below(s, f) \in [Children(s) -> V]
  BY ChildrenInside DEF Below
<1>6. \A s \in Stmt : h[s] = SizeOver(s, [t \in Children(s) |-> h[t]])
  BY <1>1, <1>4, <1>5 DEF Below, Meets
<1>7. h = [s \in Stmt |-> SizeOver(s, [t \in Children(s) |-> h[t]])]
  BY <1>6
<1>8. SizeOf = [s \in Stmt |-> SizeOver(s, [t \in Children(s) |-> SizeOf[t]])]
  BY <1>7, Zenon DEF SizeOf
<1>9. \A s \in Stmt : SizeOf[s] = SizeOver(s, Below(s, SizeOf))
  BY <1>8 DEF Below
<1> DEFINE A == {s \in Stmt : SizeOf[s] \in V}
<1>10. ASSUME NEW s \in Stmt, Children(s) \subseteq A PROVE s \in A
  <2>1. \A t \in Children(s) : Below(s, SizeOf)[t] \in Nat
    BY <1>10 DEF Below, V
  <2>2. QED
    BY <1>9, <2>1, SizeOverType DEF V
<1> HIDE DEF A
<1>11. Stmt \subseteq A
  BY <1>10, StmtInduction
<1>12. QED
  BY <1>9, <1>11 DEF A, V

LEMMA SizesType ==
  ASSUME IsAst(Stmt), NEW stmts \in Seq(Stmt)
  PROVE  /\ Sizes(stmts) \in Seq(Nat) /\ Len(Sizes(stmts)) = Len(stmts)
         /\ \A i \in 1 .. Len(stmts) : Sizes(stmts)[i] = SizeOf[stmts[i]]
         /\ \A i \in 1 .. Len(stmts) : SizeOf[stmts[i]] \in Nat \ {0}
         /\ Total(Sizes(stmts)) \in Nat /\ Size(stmts) = 1 + Total(Sizes(stmts)) /\ Size(stmts) \in Nat \ {0}
<1>1. \A i \in 1 .. Len(stmts) : SizeOf[stmts[i]] \in Nat \ {0}
  BY SizeOfDef
<1>2. /\ Sizes(stmts) \in Seq(Nat) /\ Len(Sizes(stmts)) = Len(stmts)
      /\ \A i \in 1 .. Len(stmts) : Sizes(stmts)[i] = SizeOf[stmts[i]]
  BY <1>1, SizeEachType DEF Sizes
<1>3. Total(Sizes(stmts)) \in Nat
  BY <1>2, SumsDef
<1>4. Size(stmts) = 1 + Total(Sizes(stmts))
  BY DEF Size
<1>5. Size(stmts) \in Nat \ {0}
  BY <1>3, <1>4
<1>6. QED
  BY <1>1, <1>2, <1>3, <1>4, <1>5

LEMMA SizeBelow ==
  ASSUME NEW stmts \in Seq(Stmt), NEW s, Elements(stmts) \subseteq Children(s)
  PROVE  Inside(stmts, Below(s, SizeOf)) = Size(stmts)
<1>1. \A i \in DOMAIN stmts : Below(s, SizeOf)[stmts[i]] = SizeOf[stmts[i]]
  BY ElementsOf DEF Below
<1>2. SizeEach(stmts, Below(s, SizeOf)) = Sizes(stmts)
  BY <1>1 DEF SizeEach, Sizes
<1>3. QED
  BY <1>2 DEF Inside, Size

LEMMA SizeOfCases ==
  ASSUME IsAst(Stmt)
  PROVE  /\ \A s \in Simples : SizeOf[s] = 1
         /\ \A s \in Ifs : SizeOf[s] = 1 + Size(s.then_stmts) + Size(s.else_stmts)
         /\ \A s \in Whiles : SizeOf[s] = 1 + Size(s.body_stmts) + Size(s.otherwise_stmts)
         /\ \A s \in Repeats_ : SizeOf[s] = 1 + Size(s.body_stmts)
         /\ \A s \in Fundecs : SizeOf[s] = 1 + Size(s.body)
<1>1. \A s \in Stmt : SizeOf[s] = SizeOver(s, Below(s, SizeOf))
  BY SizeOfDef
<1>2. \A s \in Simples : SizeOf[s] = 1
  BY <1>1, SizeOverCases, SimpleShape
<1>3. ASSUME NEW s \in Ifs
      PROVE  SizeOf[s] = 1 + Size(s.then_stmts) + Size(s.else_stmts)
  <2>1. /\ Inside(s.then_stmts, Below(s, SizeOf)) = Size(s.then_stmts)
        /\ Inside(s.else_stmts, Below(s, SizeOf)) = Size(s.else_stmts)
    BY IfShape, SizeBelow
  <2>2. QED
    BY <1>1, <2>1, SizeOverCases, IfShape
<1>4. ASSUME NEW s \in Whiles
      PROVE  SizeOf[s] = 1 + Size(s.body_stmts) + Size(s.otherwise_stmts)
  <2>1. /\ Inside(s.body_stmts, Below(s, SizeOf)) = Size(s.body_stmts)
        /\ Inside(s.otherwise_stmts, Below(s, SizeOf)) = Size(s.otherwise_stmts)
    BY WhileShape, SizeBelow
  <2>2. QED
    BY <1>1, <2>1, SizeOverCases, WhileShape
<1>5. ASSUME NEW s \in Repeats_
      PROVE  SizeOf[s] = 1 + Size(s.body_stmts)
  <2>1. Inside(s.body_stmts, Below(s, SizeOf)) = Size(s.body_stmts)
    BY RepeatShape, SizeBelow
  <2>2. QED
    BY <1>1, <2>1, SizeOverCases, RepeatShape
<1>6. ASSUME NEW s \in Fundecs
      PROVE  SizeOf[s] = 1 + Size(s.body)
  <2>1. Inside(s.body, Below(s, SizeOf)) = Size(s.body)
    BY FundecShape, SizeBelow
  <2>2. QED
    BY <1>1, <2>1, SizeOverCases, FundecShape
<1>7. QED
  BY <1>2, <1>3, <1>4, <1>5, <1>6

(* Folding keeps the size.                                                 *)
LEMMA FoldListSize ==
  ASSUME IsAst(Stmt), NEW stmts \in Seq(Stmt), \A t \in Elements(stmts) : SizeOf[FoldStmt[t]] = SizeOf[t]
  PROVE  Size(FoldStmts(stmts)) = Size(stmts)
<1> DEFINE new == FoldStmts(stmts)
<1>1. new \in Seq(Stmt) /\ Len(new) = Len(stmts) /\ \A i \in 1 .. Len(stmts) : new[i] = FoldStmt[stmts[i]]
  BY FoldStmtsType
<1> HIDE DEF new
<1>2. \A i \in 1 .. Len(stmts) : SizeOf[new[i]] = SizeOf[stmts[i]]
  BY <1>1, ElementsOf
<1>3. /\ DOMAIN new = DOMAIN stmts /\ \A i \in DOMAIN stmts : SizeOf[new[i]] = SizeOf[stmts[i]]
  BY <1>1, <1>2
<1>4. Sizes(new) = Sizes(stmts)
  BY <1>3 DEF Sizes, SizeEach
<1>5. QED
  BY <1>4 DEF Size, new

LEMMA FoldStmtSize ==
  ASSUME IsAst(Stmt)
  PROVE  \A s \in Stmt : SizeOf[FoldStmt[s]] = SizeOf[s]
<1> DEFINE A == {s \in Stmt : SizeOf[FoldStmt[s]] = SizeOf[s]}
<1>1. \A s \in Stmt : FoldStmt[s] \in Stmt
  BY FoldStmtDef
<1>2. ASSUME NEW s \in Stmt, Children(s) \subseteq A, NEW stmts \in Seq(Stmt), Elements(stmts) \subseteq Children(s)
      PROVE  Size(FoldStmts(stmts)) = Size(stmts)
  <2>1. \A t \in Elements(stmts) : SizeOf[FoldStmt[t]] = SizeOf[t]
    BY <1>2
  <2>2. QED
    BY <2>1, FoldListSize
<1>3. ASSUME NEW s \in Simples PROVE SizeOf[FoldStmt[s]] = SizeOf[s]
  <2>1. FoldStmt[s] = [s EXCEPT !.exp = Folded[s.exp]] /\ s.exp \in Exp /\ Folded[s.exp] \in Exp
    BY SimpleShape, FoldStmtCases, FoldedAssumption
  <2>2. FoldStmt[s] \in Simples
    BY <2>1 DEF Simples
  <2>3. QED
    BY <2>2, SizeOfCases
<1>4. ASSUME NEW s \in Ifs, Children(s) \subseteq A PROVE SizeOf[FoldStmt[s]] = SizeOf[s]
  <2> DEFINE d == FoldStmt[s]
  <2>1. /\ s \in Stmt /\ s.then_stmts \in Seq(Stmt) /\ s.else_stmts \in Seq(Stmt)
        /\ Elements(s.then_stmts) \subseteq Children(s) /\ Elements(s.else_stmts) \subseteq Children(s)
    BY IfShape
  <2>2. d \in Stmt /\ d = [kind |-> "IfStmt", cond |-> Folded[s.cond],
               then_stmts |-> FoldStmts(s.then_stmts), else_stmts |-> FoldStmts(s.else_stmts)]
    BY <1>1, <2>1, FoldStmtCases
  <2> HIDE DEF d
  <2>3. d.kind = "IfStmt" /\ d.then_stmts = FoldStmts(s.then_stmts) /\ d.else_stmts = FoldStmts(s.else_stmts)
    BY <2>2
  <2>4. d \in Ifs
    BY <2>2, <2>3, Kinds DEF Simples, Whiles, Repeats_, Fundecs
  <2>5. Size(FoldStmts(s.then_stmts)) = Size(s.then_stmts) /\ Size(FoldStmts(s.else_stmts)) = Size(s.else_stmts)
    BY <1>2, <1>4, <2>1
  <2>6. SizeOf[d] = 1 + Size(d.then_stmts) + Size(d.else_stmts)
        /\ SizeOf[s] = 1 + Size(s.then_stmts) + Size(s.else_stmts)
    BY <2>4, SizeOfCases
  <2>7. QED
    BY <2>3, <2>5, <2>6 DEF d
<1>5. ASSUME NEW s \in Whiles, Children(s) \subseteq A PROVE SizeOf[FoldStmt[s]] = SizeOf[s]
  <2> DEFINE d == FoldStmt[s]
  <2>1. /\ s \in Stmt /\ s.body_stmts \in Seq(Stmt) /\ s.otherwise_stmts \in Seq(Stmt)
        /\ Elements(s.body_stmts) \subseteq Children(s) /\ Elements(s.otherwise_stmts) \subseteq Children(s)
    BY WhileShape
  <2>2. d \in Stmt /\ d = [kind |-> "WhileStmt", cond |-> Folded[s.cond],
               body_stmts |-> FoldStmts(s.body_stmts), otherwise_stmts |-> FoldStmts(s.otherwise_stmts)]
    BY <1>1, <2>1, FoldStmtCases
  <2> HIDE DEF d
  <2>3. d.kind = "WhileStmt" /\ d.body_stmts = FoldStmts(s.body_stmts)
        /\ d.otherwise_stmts = FoldStmts(s.otherwise_stmts)
    BY <2>2
  <2>4. d \in Whiles
    BY <2>2, <2>3, Kinds DEF Simples, Ifs, Repeats_, Fundecs
  <2>5. /\ Size(FoldStmts(s.body_stmts)) = Size(s.body_stmts)
        /\ Size(FoldStmts(s.otherwise_stmts)) = Size(s.otherwise_stmts)
    BY <1>2, <1>5, <2>1
  <2>6. SizeOf[d] = 1 + Size(d.body_stmts) + Size(d.otherwise_stmts)
        /\ SizeOf[s] = 1 + Size(s.body_stmts) + Size(s.otherwise_stmts)
    BY <2>4, SizeOfCases
  <2>7. QED
    BY <2>3, <2>5, <2>6 DEF d
<1>6. ASSUME NEW s \in Repeats_, Children(s) \subseteq A PROVE SizeOf[FoldStmt[s]] = SizeOf[s]
  <2> DEFINE d == FoldStmt[s]
  <2>1. s \in Stmt /\ s.body_stmts \in Seq(Stmt) /\ Elements(s.body_stmts) \subseteq Children(s)
    BY RepeatShape
  <2>2. d \in Stmt /\ d = [kind |-> "RepeatStmt", cond |-> Folded[s.cond], body_stmts |-> FoldStmts(s.body_stmts)]
    BY <1>1, <2>1, FoldStmtCases
  <2> HIDE DEF d
  <2>3. d.kind = "RepeatStmt" /\ d.body_stmts = FoldStmts(s.body_stmts)
    BY <2>2
  <2>4. d \in Repeats_
    BY <2>2, <2>3, Kinds DEF Simples, Ifs, Whiles, Fundecs
  <2>5. Size(FoldStmts(s.body_stmts)) = Size(s.body_stmts)
    BY <1>2, <1>6, <2>1
  <2>6. SizeOf[d] = 1 + Size(d.body_stmts) /\ SizeOf[s] = 1 + Size(s.body_stmts)
    BY <2>4, SizeOfCases
  <2>7. QED
    BY <2>3, <2>5, <2>6 DEF d
<1>7. ASSUME NEW s \in Fundecs, Children(s) \subseteq A PROVE SizeOf[FoldStmt[s]] = SizeOf[s]
  <2> DEFINE d == FoldStmt[s]
  <2>1. s \in Stmt /\ s.body \in Seq(Stmt) /\ Elements(s.body) \subseteq Children(s)
    BY FundecShape
  <2>2. d \in Stmt /\ d = [kind |-> "FundecStmt", name |-> s.name, params |-> s.params, body |-> FoldStmts(s.body)]
    BY <1>1, <2>1, FoldStmtCases
  <2> HIDE DEF d
  <2>3. d.kind = "FundecStmt" /\ d.body = FoldStmts(s.body)
    BY <2>2
  <2>4. d \in Fundecs
    BY <2>2, <2>3, Kinds DEF Simples, Ifs, Whiles, Repeats_
  <2>5. Size(FoldStmts(s.body)) = Size(s.body)
    BY <1>2, <1>7, <2>1
  <2>6. SizeOf[d] = 1 + Size(d.body) /\ SizeOf[s] = 1 + Size(s.body)
    BY <2>4, SizeOfCases
  <2>7. QED
    BY <2>3, <2>5, <2>6 DEF d
<1>8. ASSUME NEW s \in Stmt, Children(s) \subseteq A PROVE s \in A
  BY <1>3, <1>4, <1>5, <1>6, <1>7, <1>8, Kinds
<1> HIDE DEF A
<1>9. Stmt \subseteq A
  BY <1>8, StmtInduction
<1>10. QED
  BY <1>9 DEF A

LEMMA FoldKeepsSize ==
  ASSUME IsAst(Stmt), NEW stmts \in Seq(Stmt)
  PROVE  Size(FoldStmts(stmts)) = Size(stmts)
<1>1. \A t \in Elements(stmts) : SizeOf[FoldStmt[t]] = SizeOf[t]
  BY ElementsOf, FoldStmtSize
<1>2. QED
  BY <1>1, FoldListSize

-----------------------------------------------------------------------------
(* What is removed makes the list, and with it the program, smaller.       *)
LEMMA SizeReplaced ==
  ASSUME IsAst(Stmt), NEW stmts \in Seq(Stmt), NEW it \in 1 .. Len(stmts), NEW mid \in Seq(Stmt),
         NEW new \in Seq(Stmt), Replaces(new, stmts, it, mid)
  PROVE  \E rest \in Nat : /\ Size(stmts) = 1 + (rest + SizeOf[stmts[it]])
                           /\ Size(new) = 1 + (rest + Total(Sizes(mid)))
<1> DEFINE f == Sizes(stmts)
           g == Sizes(new)
           h == Sizes(mid)
<1>1. /\ f \in Seq(Nat) /\ Len(f) = Len(stmts) /\ \A i \in 1 .. Len(stmts) : f[i] = SizeOf[stmts[i]]
      /\ g \in Seq(Nat) /\ Len(g) = Len(new) /\ \A i \in 1 .. Len(new) : g[i] = SizeOf[new[i]]
      /\ h \in Seq(Nat) /\ Len(h) = Len(mid) /\ \A i \in 1 .. Len(mid) : h[i] = SizeOf[mid[i]]
      /\ Size(stmts) = 1 + Total(f) /\ Size(new) = 1 + Total(g)
      /\ Len(stmts) \in Nat /\ Len(mid) \in Nat
  BY SizesType
<1>2. Len(new) = Len(stmts) - 1 + Len(mid)
  BY DEF Replaces
<1> HIDE DEF f, g, h
<1>3. ASSUME NEW i \in 1 .. it - 1 PROVE g[i] = f[i]
  <2>1. i \in 1 .. Len(new) /\ i \in 1 .. Len(stmts) /\ new[i] = stmts[i]
    BY <1>1, <1>2 DEF Replaces
  <2>2. QED
    BY <1>1, <2>1
<1>4. ASSUME NEW i \in 1 .. Len(mid) PROVE g[it - 1 + i] = h[i]
  <2>1. it - 1 + i \in 1 .. Len(new) /\ new[it - 1 + i] = mid[i]
    BY <1>1, <1>2 DEF Replaces
  <2>2. QED
    BY <1>1, <2>1
<1>5. ASSUME NEW i \in it + 1 .. Len(stmts) PROVE g[i - 1 + Len(mid)] = f[i]
  <2>1. i - 1 + Len(mid) \in 1 .. Len(new) /\ i \in 1 .. Len(stmts) /\ new[i - 1 + Len(mid)] = stmts[i]
    BY <1>1, <1>2 DEF Replaces
  <2>2. QED
    BY <1>1, <2>1
<1>6. Replaces(g, f, it, h)
  BY <1>1, <1>2, <1>3, <1>4, <1>5 DEF Replaces
<1>7. PICK rest \in Nat : Total(f) = rest + f[it] /\ Total(g) = rest + Total(h)
  BY <1>1, <1>6, TotalReplaced
<1>8. QED
  BY <1>1, <1>7 DEF h

LEMMA Shrinks ==
  ASSUME IsAst(Stmt), NEW stmts \in Seq(Stmt), NEW it \in 1 .. Len(stmts), NEW mid \in Seq(Stmt),
         NEW new \in Seq(Stmt), Replaces(new, stmts, it, mid), Total(Sizes(mid)) < SizeOf[stmts[it]]
  PROVE  Size(new) < Size(stmts)
<1>1. PICK rest \in Nat : /\ Size(stmts) = 1 + (rest + SizeOf[stmts[it]])
                          /\ Size(new) = 1 + (rest + Total(Sizes(mid)))
  BY SizeReplaced
<1>2. PICK x \in Nat, y \in Nat : x = SizeOf[stmts[it]] /\ y = Total(Sizes(mid))
  BY SizesType
<1>3. QED
  BY <1>1, <1>2

LEMMA LiftShrinks ==
  ASSUME IsAst(Stmt), WalkOK(Stmt), LiftBranch
  PROVE  \E stmts \in Seq(Stmt) : \E it :
            Continue(stmts, it, TRUE) /\ Size(stmts) < Size(Top.stmts)
<1>1. /\ Top.stmts \in Seq(Stmt) /\ Top.it \in 1 .. Len(Top.stmts) /\ Cur \in Ifs
      /\ Before \in Seq(Stmt) /\ After \in Seq(Stmt)
  <2>1. Cur \in Stmt /\ Cur.kind = "IfStmt"
    BY AtParts DEF LiftBranch
  <2>2. Cur \in Ifs
    BY <2>1, Kinds DEF Simples, Whiles, Repeats_, Fundecs
  <2>3. QED
    BY <2>2, AtParts DEF LiftBranch
<1>2. /\ Len(Before) = Top.it - 1 /\ \A i \in 1 .. Top.it - 1 : Before[i] = Top.stmts[i]
      /\ Len(After) = Len(Top.stmts) - Top.it
      /\ \A i \in 1 .. Len(Top.stmts) - Top.it : After[i] = Top.stmts[Top.it + i]
  BY AroundParts DEF LiftBranch
<1>3. Taken \in Seq(Stmt) /\ Total(Sizes(Taken)) < SizeOf[Cur]
  <2>1. /\ Cur.then_stmts \in Seq(Stmt) /\ Cur.else_stmts \in Seq(Stmt)
        /\ SizeOf[Cur] = 1 + Size(Cur.then_stmts) + Size(Cur.else_stmts)
    BY <1>1, IfShape, SizeOfCases
  <2>2. PICK x \in Nat, y \in Nat : /\ x = Total(Sizes(Cur.then_stmts)) /\ Size(Cur.then_stmts) = 1 + x
                                    /\ y = Total(Sizes(Cur.else_stmts)) /\ Size(Cur.else_stmts) = 1 + y
    BY <2>1, SizesType
  <2>3. SizeOf[Cur] = 1 + (1 + x) + (1 + y)
    BY <2>1, <2>2
  <2>4. Taken = Cur.then_stmts \/ Taken = Cur.else_stmts
    BY DEF Taken
  <2>5. x < SizeOf[Cur] /\ y < SizeOf[Cur]
    BY <2>3
  <2>6. QED
    BY <2>1, <2>2, <2>4, <2>5
<1> DEFINE stmts == Before \o Taken \o After
<1>4. stmts \in Seq(Stmt) /\ Replaces(stmts, Top.stmts, Top.it, Taken)
  BY <1>1, <1>2, <1>3, SplicedAt
<1>5. Continue(stmts, Pred(Top.it + Len(Taken), stmts), TRUE)
  BY DEF LiftBranch
<1> HIDE DEF stmts
<1>6. Size(stmts) < Size(Top.stmts)
  BY <1>1, <1>3, <1>4, Shrinks DEF Cur
<1>7. QED
  BY <1>4, <1>5, <1>6

LEMMA EraseShrinks ==
  ASSUME IsAst(Stmt), WalkOK(Stmt), EraseLoop
  PROVE  \E stmts \in Seq(Stmt) : \E it :
            Continue(stmts, it, TRUE) /\ Size(stmts) < Size(Top.stmts)
<1>1. /\ Top.stmts \in Seq(Stmt) /\ Top.it \in 1 .. Len(Top.stmts) /\ Cur \in Stmt
      /\ Before \in Seq(Stmt) /\ After \in Seq(Stmt)
  BY AtParts DEF EraseLoop
<1>2. /\ Len(Before) = Top.it - 1 /\ \A i \in 1 .. Top.it - 1 : Before[i] = Top.stmts[i]
      /\ Len(After) = Len(Top.stmts) - Top.it
      /\ \A i \in 1 .. Len(Top.stmts) - Top.it : After[i] = Top.stmts[Top.it + i]
  BY AroundParts DEF EraseLoop
<1> DEFINE stmts == Before \o <<>> \o After
<1>3. stmts \in Seq(Stmt) /\ Replaces(stmts, Top.stmts, Top.it, <<>>)
  <2>1. <<>> \in Seq(Stmt)
    OBVIOUS
  <2>2. QED
    BY <1>1, <1>2, <2>1, SplicedAt
<1>4. Continue(stmts, Top.it, TRUE)
  <2>1. Before \o <<>> = Before
    BY <1>1
  <2>2. QED
    BY <2>1 DEF EraseLoop
<1> HIDE DEF stmts
<1>5. Total(Sizes(<<>>)) < SizeOf[Cur]
  <2>1. <<>> \in Seq(Stmt) /\ Len(<<>>) = 0
    OBVIOUS
  <2>2. Sizes(<<>>) \in Seq(Nat) /\ Len(Sizes(<<>>)) = 0
    BY <2>1, SizesType
  <2>3. Total(Sizes(<<>>)) = 0
    BY <2>2, SumsDef
  <2>4. SizeOf[Cur] \in Nat \ {0}
    BY <1>1, SizeOfDef
  <2>5. QED
    BY <2>3, <2>4
<1>6. Size(stmts) < Size(Top.stmts)
  <2>1. <<>> \in Seq(Stmt)
    OBVIOUS
  <2>2. QED
    BY <1>1, <1>3, <1>5, <2>1, Shrinks DEF Cur
<1>7. QED
  BY <1>3, <1>4, <1>6

(* A list cut off behind one of its statements.                            *)
LEMMA PrefixSmaller ==
  ASSUME IsAst(Stmt), NEW stmts \in Seq(Stmt), NEW new \in Seq(Stmt), Len(new) < Len(stmts),
         \A i \in 1 .. Len(new) : new[i] = stmts[i]
  PROVE  Size(new) < Size(stmts)
<1>1. PICK f \in Seq(Nat) : f = Sizes(stmts)
  BY SizesType
<1>2. PICK g \in Seq(Nat) : g = Sizes(new)
  BY SizesType
<1>3. /\ Len(f) = Len(stmts) /\ \A i \in 1 .. Len(f) : f[i] = SizeOf[stmts[i]] /\ f[i] # 0
      /\ Len(g) = Len(new) /\ \A i \in 1 .. Len(g) : g[i] = SizeOf[new[i]]
      /\ Size(stmts) = 1 + Total(f) /\ Size(new) = 1 + Total(g)
  <2>1. /\ Len(f) = Len(stmts) /\ \A i \in 1 .. Len(stmts) : f[i] = SizeOf[stmts[i]] /\ SizeOf[stmts[i]] # 0
        /\ Size(stmts) = 1 + Total(f)
    BY <1>1, SizesType
  <2>2. Len(g) = Len(new) /\ (\A i \in 1 .. Len(new) : g[i] = SizeOf[new[i]]) /\ Size(new) = 1 + Total(g)
    BY <1>2, SizesType
  <2>3. QED
    BY <2>1, <2>2
<1>4. PICK m \in Nat : m = Len(g)
  OBVIOUS
<1>5. m \in 0 .. Len(f) /\ m < Len(f) /\ m <= Len(f) /\ m <= Len(g)
  BY <1>3, <1>4
<1>6. Sums(f)[m] = Sums(g)[m]
  <2>1. \A i \in 1 .. m : f[i] = g[i]
    <3>1. ASSUME NEW i \in 1 .. m PROVE f[i] = g[i]
      <4>1. i \in 1 .. Len(new) /\ i \in 1 .. Len(f) /\ i \in 1 .. Len(g)
        BY <1>3, <1>4, <1>5
      <4>2. QED
        BY <1>3, <4>1
    <3>2. QED
      BY <3>1
  <2>2. QED
    BY <1>5, <2>1, SumsSame
<1>7. Sums(f)[m] < Sums(f)[Len(f)]
  BY <1>3, <1>5, SumsRise
<1>8. PICK x \in Nat, y \in Nat : x = Total(f) /\ y = Total(g) /\ x = Sums(f)[Len(f)] /\ y = Sums(g)[m]
  BY <1>4, SumsDef
<1>9. QED
  BY <1>3, <1>6, <1>7, <1>8

LEMMA TruncateShrinks ==
  ASSUME IsAst(Stmt), WalkOK(Stmt), Truncate
  PROVE  \E stmts \in Seq(Stmt) : \E it :
            Continue(stmts, it, TRUE) /\ Size(stmts) < Size(Top.stmts)
<1> DEFINE stmts == Append(Before, Cur)
<1>1. /\ Top.stmts \in Seq(Stmt) /\ Top.it \in 1 .. Len(Top.stmts) /\ Cur \in Stmt /\ Before \in Seq(Stmt)
      /\ Len(Before) = Top.it - 1 /\ \A i \in 1 .. Top.it - 1 : Before[i] = Top.stmts[i]
      /\ Len(After) = Len(Top.stmts) - Top.it
  BY AtParts, AroundParts DEF Truncate
<1>2. /\ stmts \in Seq(Stmt) /\ Len(stmts) = Top.it
      /\ \A i \in 1 .. Top.it : stmts[i] = IF i = Top.it THEN Cur ELSE Before[i]
  BY <1>1
<1>3. Continue(stmts, Succ(End(stmts), stmts), TRUE)
  BY DEF Truncate
<1> HIDE DEF stmts
<1>4. \A i \in 1 .. Len(stmts) : stmts[i] = Top.stmts[i]
  BY <1>1, <1>2 DEF Cur
<1>5. Top.it < Len(Top.stmts)
  <2>1. After # <<>> /\ After \in Seq(Stmt)
    BY AtParts DEF Truncate
  <2>2. QED
    BY <1>1, <2>1
<1>6. Size(stmts) < Size(Top.stmts)
  BY <1>1, <1>2, <1>4, <1>5, PrefixSmaller
<1>7. QED
  BY <1>2, <1>3, <1>6

LEMMA PutBodySize ==
  ASSUME IsAst(Stmt), NEW f, f.stmts \in Seq(Stmt), f.it \in 1 .. Len(f.stmts),
         f.stmts[f.it] \in FundecsIn(Stmt),
         NEW body \in Seq(Stmt), NEW new \in Seq(Stmt), Size(new) < Size(body)
  PROVE  Size(PutBody(f, new)) < Size(PutBody(f, body))
<1> DEFINE s == f.stmts[f.it]
           a == PutBody(f, body)
           b == PutBody(f, new)
           d == [s EXCEPT !.body = body]
           e == [s EXCEPT !.body = new]
<1>1. s \in Fundecs
  BY Kinds DEF Simples, Whiles, Repeats_, Ifs, FundecsIn
<1>2. d \in Fundecs /\ d.body = body /\ e \in Fundecs /\ e.body = new
  BY <1>1 DEF Fundecs
<1>3. /\ a \in Seq(Stmt) /\ Len(a) = Len(f.stmts) /\ a[f.it] = d
      /\ b \in Seq(Stmt) /\ Len(b) = Len(f.stmts) /\ b[f.it] = e
      /\ \A i \in 1 .. Len(f.stmts) : i # f.it => a[i] = f.stmts[i] /\ b[i] = f.stmts[i]
  BY PutBodyIn
<1> HIDE DEF a, b, d, e, s
<1>4. SizeOf[d] = 1 + Size(body) /\ SizeOf[e] = 1 + Size(new)
  BY <1>2, SizeOfCases
<1>5. e \in Stmt /\ <<e>> \in Seq(Stmt) /\ Len(<<e>>) = 1 /\ <<e>>[1] = e
  BY <1>2, FundecShape
<1>6. Replaces(b, a, f.it, <<e>>)
  <2>1. PICK n \in Nat : n = Len(f.stmts)
    OBVIOUS
  <2> PICK it \in 1 .. n : it = f.it
    BY <2>1
  <2>2. /\ Len(a) = n /\ Len(b) = n /\ b[it] = e
        /\ \A i \in 1 .. n : i # it => a[i] = f.stmts[i] /\ b[i] = f.stmts[i]
    BY <1>3, <2>1
  <2>3. Len(b) = Len(a) - 1 + 1 /\ it \in 1 .. Len(a)
    BY <2>2
  <2>4. \A i \in 1 .. it - 1 : b[i] = a[i]
    BY <2>2
  <2>5. \A i \in 1 .. 1 : b[it - 1 + i] = <<e>>[i]
    <3>1. it - 1 + 1 = it
      OBVIOUS
    <3>2. QED
      BY <1>5, <2>2, <3>1
  <2>6. \A i \in it + 1 .. Len(a) : b[i - 1 + 1] = a[i]
    <3>1. \A i \in it + 1 .. Len(a) : i - 1 + 1 = i /\ i \in 1 .. n /\ i # it
      BY <2>2
    <3>2. QED
      BY <2>2, <3>1
  <2>7. QED
    BY <1>5, <2>1, <2>3, <2>4, <2>5, <2>6 DEF Replaces
<1>7. Total(Sizes(<<e>>)) = SizeOf[e]
  <2> DEFINE h == Sizes(<<e>>)
  <2>1. h \in Seq(Nat) /\ Len(h) = 1 /\ h[1] = SizeOf[e] /\ SizeOf[e] \in Nat
    <3>1. 1 \in 1 .. Len(<<e>>)
      BY <1>5
    <3>2. QED
      BY <1>5, <3>1, SizesType
  <2> HIDE DEF h
  <2>2. 1 \in 1 .. Len(h) /\ 1 - 1 = 0
    BY <2>1
  <2>3. Total(h) = Sums(h)[1] /\ Sums(h)[1] = Sums(h)[0] + h[1] /\ Sums(h)[0] = 0
    BY <2>1, <2>2, SumsDef
  <2>4. QED
    BY <2>1, <2>3 DEF h
<1>8. SizeOf[e] < SizeOf[d]
  BY <1>4, SizesType
<1>9. Size(b) < Size(a)
  BY <1>3, <1>5, <1>6, <1>7, <1>8, Shrinks
<1>10. QED
  BY <1>9 DEF a, b

LEMMA TopShrinks ==
  ASSUME IsAst(Stmt), NEW calls, Stack(calls), NEW new, Stack(new), Len(new) = Len(calls),
         \A k \in 1 .. Len(calls) - 1 : new[k] = calls[k],
         Size(new[Len(calls)].stmts) < Size(calls[Len(calls)].stmts)
  PROVE  Size(ProgramOf(new)) < Size(ProgramOf(calls))
<1> DEFINE n == Len(calls)
           w == Whole(calls)
           v == Whole(new)
           A == {k \in Nat : k <= n - 1 => Size(v[k]) < Size(w[k])}
<1>1. n \in Nat \ {0}
  BY StackParts
<1>2. /\ w[0] = calls[n].stmts /\ v[0] = new[n].stmts
      /\ \A k \in 1 .. n - 1 : w[k] = PutBody(calls[n - k], w[k - 1]) /\ v[k] = PutBody(new[n - k], v[k - 1])
      /\ \A k \in 0 .. n - 1 : w[k] \in Seq(Stmt) /\ v[k] \in Seq(Stmt)
  BY WholeDef
<1> HIDE DEF w, v
<1>3. 0 \in A
  BY <1>2
<1>4. ASSUME NEW k \in Nat, k \in A PROVE k + 1 \in A
  <2> SUFFICES ASSUME k + 1 <= n - 1 PROVE Size(v[k + 1]) < Size(w[k + 1])
    OBVIOUS
  <2>1. PICK j \in 1 .. n - 1 : j = n - (k + 1)
    <3> HIDE DEF n
    <3> QED BY <1>1
  <2>2. Size(v[k]) < Size(w[k]) /\ w[k] \in Seq(Stmt) /\ v[k] \in Seq(Stmt)
    BY <1>1, <1>2, <1>4
  <2>3. k + 1 \in 1 .. n - 1 /\ (k + 1) - 1 = k
    BY <1>1
  <2>4. w[k + 1] = PutBody(calls[j], w[k]) /\ v[k + 1] = PutBody(calls[j], v[k])
    BY <1>2, <2>1, <2>3
  <2>5. /\ calls[j].stmts \in Seq(Stmt) /\ calls[j].it \in 1 .. Len(calls[j].stmts)
        /\ calls[j].stmts[calls[j].it] \in FundecsIn(Stmt)
    BY <1>1, StackParts
  <2>6. QED
    BY <2>2, <2>4, <2>5, PutBodySize
<1> HIDE DEF A
<1>5. \A k \in Nat : k \in A
  BY <1>3, <1>4, NaturalInduction
<1>6. Size(v[n - 1]) < Size(w[n - 1])
  <2> HIDE DEF n
  <2> QED BY <1>1, <1>5 DEF A
<1>7. QED
  BY <1>6 DEF ProgramOf, v, w

LEMMA ContinueShrinks ==
  ASSUME IsAst(Stmt), WalkOK(Stmt), WalkOK(Stmt)', NEW stmts \in Seq(Stmt), NEW it, NEW performed,
         Continue(stmts, it, performed), Size(stmts) < Size(Top.stmts)
  PROVE  Size(Program') < Size(Program)
<1>1. /\ Len(frames') = Len(frames)
      /\ \A k \in 1 .. Len(frames) - 1 : frames'[k] = frames[k]
      /\ frames'[Len(frames)].stmts = stmts
  BY ContinueFrames
<1>2. Stack(frames) /\ Stack(frames')
  BY WalkStack, WalkParts DEF Stack, WalkOK, IteratorsStand, InList, OnFundec
<1>3. Size(frames'[Len(frames)].stmts) < Size(frames[Len(frames)].stmts)
  BY <1>1 DEF Top
<1>4. Size(ProgramOf(frames')) < Size(ProgramOf(frames))
  BY <1>1, <1>2, <1>3, TopShrinks
<1>5. QED
  BY <1>4 DEF Program

LEMMA RemovalShrinks ==
  ASSUME IsAst(Stmt), WalkOK(Stmt), WalkOK(Stmt)', LiftBranch \/ EraseLoop \/ Truncate
  PROVE  Size(Program') < Size(Program)
<1>1. PICK stmts \in Seq(Stmt) : \E it : Continue(stmts, it, TRUE) /\ Size(stmts) < Size(Top.stmts)
  BY LiftShrinks, EraseShrinks, TruncateShrinks
<1>2. QED
  BY <1>1, ContinueShrinks

-----------------------------------------------------------------------------
(* What a walk still comes to.                                             *)
LEMMA AheadDef ==
  ASSUME IsAst(Stmt), NEW f, f.stmts \in Seq(Stmt), NEW next \in 1 .. End(f.stmts)
  PROVE  /\ Ahead(f, next) \in Nat \ {0}
         /\ next = 1 => Ahead(f, next) = Size(f.stmts)
         /\ next = End(f.stmts) => Ahead(f, next) = 1
         /\ next # End(f.stmts) =>
              Ahead(f, next + 1) \in Nat /\ Ahead(f, next) = Ahead(f, next + 1) + SizeOf[f.stmts[next]]
<1>1. PICK n \in Nat : n = Len(f.stmts)
  OBVIOUS
<1>2. PICK g \in Seq(Nat) : g = Sizes(f.stmts)
  BY SizesType
<1>3. /\ Len(g) = n /\ \A i \in 1 .. n : g[i] = SizeOf[f.stmts[i]] /\ g[i] # 0
      /\ Size(f.stmts) = 1 + Total(g)
  BY <1>1, <1>2, SizesType
<1>4. next \in 1 .. n + 1 /\ End(f.stmts) = n + 1
  BY <1>1 DEF End
<1>5. /\ Sums(g)[0] = 0 /\ \A k \in 1 .. n : Sums(g)[k] = Sums(g)[k - 1] + g[k]
      /\ \A k \in 0 .. n : Sums(g)[k] \in Nat
      /\ Total(g) = Sums(g)[n]
  BY <1>3, SumsDef
<1>6. PICK t \in Nat : t = Total(g) /\ Size(f.stmts) = 1 + t
  BY <1>3, <1>5
<1>7. ASSUME NEW k \in 1 .. n + 1
      PROVE  \E x \in Nat : x = Sums(g)[k - 1] /\ x <= t /\ Ahead(f, k) = (1 + t) - x
  <2>1. k - 1 \in 0 .. n
    OBVIOUS
  <2>2. PICK x \in Nat : x = Sums(g)[k - 1]
    BY <1>5, <2>1
  <2>3. k - 1 = n \/ Sums(g)[k - 1] < Sums(g)[n]
    <3>1. PICK m \in 0 .. n : m = k - 1
      BY <2>1
    <3>2. m = n \/ m < n
      OBVIOUS
    <3>3. m \in 0 .. Len(g) /\ \A i \in 1 .. Len(g) : g[i] # 0
      BY <1>3
    <3>4. m < n => Sums(g)[m] < Sums(g)[n]
      BY <1>3, <3>3, SumsRise
    <3>5. QED
      BY <3>1, <3>2, <3>4
  <2>4. x <= t
    BY <1>5, <1>6, <2>2, <2>3
  <2>5. Ahead(f, k) = (1 + t) - x
    BY <1>2, <1>6, <2>2 DEF Ahead
  <2>6. QED
    BY <2>2, <2>4, <2>5
<1>8. PICK x \in Nat : x = Sums(g)[next - 1] /\ x <= t /\ Ahead(f, next) = (1 + t) - x
  BY <1>4, <1>7
<1>9. Ahead(f, next) \in Nat \ {0}
  BY <1>8
<1>10. ASSUME next = 1 PROVE Ahead(f, next) = Size(f.stmts)
  <2>1. next - 1 = 0
    BY <1>10
  <2>2. x = 0
    BY <1>5, <1>8, <2>1
  <2>3. QED
    BY <1>6, <1>8, <2>2
<1>11. ASSUME next = End(f.stmts) PROVE Ahead(f, next) = 1
  <2>1. next - 1 = n
    BY <1>4, <1>11
  <2>2. x = t
    BY <1>5, <1>6, <1>8, <2>1
  <2>3. QED
    BY <1>8, <2>2
<1>12. ASSUME next # End(f.stmts)
       PROVE  Ahead(f, next + 1) \in Nat /\ Ahead(f, next) = Ahead(f, next + 1) + SizeOf[f.stmts[next]]
  <2>1. next \in 1 .. n /\ next + 1 \in 1 .. n + 1 /\ (next + 1) - 1 = next
    BY <1>4, <1>12
  <2>2. PICK y \in Nat : y = Sums(g)[(next + 1) - 1] /\ y <= t /\ Ahead(f, next + 1) = (1 + t) - y
    BY <1>7, <2>1
  <2>3. PICK v \in Nat : v = g[next] /\ v = SizeOf[f.stmts[next]]
    BY <1>3, <2>1
  <2>4. y = x + v
    BY <1>5, <1>8, <2>1, <2>2, <2>3
  <2>5. x <= t /\ y <= t
    BY <1>8, <2>2
  <2>6. (1 + t) - y \in Nat /\ (1 + t) - x = ((1 + t) - y) + v
    BY <2>4, <2>5
  <2>7. QED
    BY <1>8, <2>2, <2>3, <2>6
<1>13. QED
  BY <1>9, <1>10, <1>11, <1>12

(* Lists that are the same from next on have the same ahead of it.         *)
LEMMA AheadSame ==
  ASSUME IsAst(Stmt), NEW f, f.stmts \in Seq(Stmt), NEW g, g.stmts \in Seq(Stmt),
         Len(f.stmts) = Len(g.stmts), NEW it \in 1 .. Len(f.stmts),
         \A i \in 1 .. Len(f.stmts) : i # it => f.stmts[i] = g.stmts[i]
  PROVE  Ahead(f, it + 1) = Ahead(g, it + 1)
<1>1. PICK n \in Nat : n = Len(f.stmts) /\ n = Len(g.stmts)
  OBVIOUS
<1>2. PICK p \in Seq(Nat) : p = Sizes(f.stmts)
  BY SizesType
<1>3. PICK q \in Seq(Nat) : q = Sizes(g.stmts)
  BY SizesType
<1>4. /\ Len(p) = n /\ (\A i \in 1 .. n : p[i] = SizeOf[f.stmts[i]]) /\ Size(f.stmts) = 1 + Total(p)
      /\ Len(q) = n /\ (\A i \in 1 .. n : q[i] = SizeOf[g.stmts[i]]) /\ Size(g.stmts) = 1 + Total(q)
  BY <1>1, <1>2, <1>3, SizesType
<1>5. PICK m \in Nat : it + m = n
  <2>1. it \in 1 .. n
    BY <1>1
  <2>2. n - it \in Nat /\ it + (n - it) = n
    BY <2>1
  <2>3. QED
    BY <2>2
<1>6. \A i \in 1 .. m : p[it + i] = q[it + i]
  <2>1. ASSUME NEW i \in 1 .. m PROVE p[it + i] = q[it + i]
    <3>1. PICK j \in 1 .. n : j = it + i /\ j # it
      BY <1>1, <1>5
    <3>2. f.stmts[j] = g.stmts[j]
      BY <1>1, <3>1
    <3>3. p[j] = q[j]
      BY <1>4, <3>2
    <3>4. QED
      BY <3>1, <3>3
  <2>2. QED
    BY <2>1
<1>7. it \in Nat /\ it + m <= Len(p) /\ it + m <= Len(q)
  BY <1>1, <1>4, <1>5
<1>8. Alongside(p, it, q, it, m)
  BY <1>6, <1>7, SumsShift
<1>9. PICK d \in Nat : Sums(p)[it + m] = Sums(p)[it] + d /\ Sums(q)[it + m] = Sums(q)[it] + d
  BY <1>8 DEF Alongside
<1>10. it \in 0 .. n
  BY <1>1
<1>11. PICK x \in Nat, y \in Nat : x = Sums(p)[it] /\ y = Sums(q)[it]
  BY <1>4, <1>10, SumsDef
<1>12. Total(p) = x + d /\ Total(q) = y + d
  BY <1>4, <1>5, <1>9, <1>11, SumsDef
<1>13. (it + 1) - 1 = it
  OBVIOUS
<1>14. Ahead(f, it + 1) = (1 + (x + d)) - x /\ Ahead(g, it + 1) = (1 + (y + d)) - y
  BY <1>2, <1>3, <1>4, <1>11, <1>12, <1>13 DEF Ahead
<1>15. QED
  BY <1>14

LEMMA PlacesType ==
  ASSUME IsAst(Stmt), NEW calls, Stack(calls)
  PROVE  /\ Places(calls) \in Seq(Nat) /\ Len(Places(calls)) = Len(calls)
         /\ \A k \in 1 .. Len(calls) - 1 :
              k \in 1 .. Len(calls) /\ Places(calls)[k] = Ahead(calls[k], calls[k].it + 1)
         /\ Places(calls)[Len(calls)] = Ahead(calls[Len(calls)], calls[Len(calls)].it)
<1>1. PICK n \in Nat \ {0} : n = Len(calls)
  BY StackParts
<1>2. DOMAIN calls = 1 .. n
  BY <1>1 DEF Stack
<1> DEFINE p == Places(calls)
<1>3. p = [k \in 1 .. n |-> Ahead(calls[k], IF k = n THEN calls[k].it ELSE calls[k].it + 1)]
  BY <1>1, <1>2 DEF Places
<1>4. ASSUME NEW k \in 1 .. n - 1
      PROVE  k \in 1 .. n /\ p[k] = Ahead(calls[k], calls[k].it + 1) /\ p[k] \in Nat
  <2>1. k \in 1 .. n /\ k # n
    OBVIOUS
  <2>2. p[k] = Ahead(calls[k], calls[k].it + 1)
    BY <1>3, <2>1
  <2>3. calls[k].stmts \in Seq(Stmt) /\ calls[k].it \in 1 .. Len(calls[k].stmts)
    BY <1>1, <2>1, StackParts
  <2>4. calls[k].it + 1 \in 1 .. End(calls[k].stmts)
    BY <2>3 DEF End
  <2>5. Ahead(calls[k], calls[k].it + 1) \in Nat
    BY <2>3, <2>4, AheadDef
  <2>6. QED
    BY <2>1, <2>2, <2>5
<1>5. p[n] = Ahead(calls[n], calls[n].it) /\ p[n] \in Nat
  <2>1. p[n] = Ahead(calls[n], calls[n].it)
    BY <1>3
  <2>2. calls[n].stmts \in Seq(Stmt) /\ calls[n].it \in 1 .. End(calls[n].stmts)
    BY <1>1, StackParts DEF Stack, InList
  <2>3. QED
    BY <2>1, <2>2, AheadDef
<1>6. \A k \in 1 .. n : p[k] \in Nat
  BY <1>4, <1>5
<1>7. p \in Seq(Nat) /\ Len(p) = n
  <2> DEFINE q == [k \in 1 .. n |-> p[k]]
  <2>1. p = q
    BY <1>3
  <2>2. q \in [1 .. n -> Nat]
    BY <1>6
  <2>3. p \in [1 .. n -> Nat]
    BY <2>1, <2>2
  <2> HIDE DEF q, p
  <2>4. QED
    BY <2>3
<1>8. QED
  BY <1>1, <1>4, <1>5, <1>7

(* One call has less to go, or its way is divided between two.             *)
LEMMA LastLower ==
  ASSUME NEW f \in Seq(Nat), NEW g \in Seq(Nat), NEW n \in Nat \ {0}, Len(f) = n, Len(g) = n,
         \A k \in 1 .. n - 1 : f[k] = g[k], g[n] < f[n]
  PROVE  Total(g) < Total(f)
<1>1. n - 1 \in Nat /\ n - 1 \in 0 .. n /\ n \in 1 .. n /\ n - 1 <= Len(f) /\ n - 1 <= Len(g)
  OBVIOUS
<1>2. Sums(f)[n - 1] = Sums(g)[n - 1]
  BY <1>1, SumsSame
<1>3. PICK x \in Nat : x = Sums(f)[n - 1]
  BY <1>1, SumsDef
<1>4. PICK v \in Nat, w \in Nat : v = f[n] /\ w = g[n]
  BY <1>1
<1>5. Total(f) = x + v /\ Total(g) = x + w
  BY <1>1, <1>2, <1>3, <1>4, SumsDef
<1>6. QED
  BY <1>4, <1>5

LEMMA LastDivided ==
  ASSUME NEW f \in Seq(Nat), NEW g \in Seq(Nat), NEW n \in Nat \ {0}, Len(f) = n, Len(g) = n + 1,
         \A k \in 1 .. n - 1 : f[k] = g[k]
  PROVE  \E x \in Nat, v \in Nat, w \in Nat, z \in Nat :
            /\ v = f[n] /\ w = g[n] /\ z = g[n + 1]
            /\ Total(f) = x + v /\ Total(g) = (x + w) + z
<1>1. /\ n - 1 \in Nat /\ n - 1 \in 0 .. n /\ n \in 1 .. n /\ n \in 1 .. n + 1 /\ n + 1 \in 1 .. n + 1
      /\ (n + 1) - 1 = n /\ n - 1 <= Len(f) /\ n - 1 <= Len(g)
  OBVIOUS
<1>2. Sums(f)[n - 1] = Sums(g)[n - 1]
  BY <1>1, SumsSame
<1>3. PICK x \in Nat : x = Sums(f)[n - 1]
  BY <1>1, SumsDef
<1>4. PICK v \in Nat, w \in Nat, z \in Nat : v = f[n] /\ w = g[n] /\ z = g[n + 1]
  BY <1>1
<1>5. Total(f) = x + v
  BY <1>1, <1>3, <1>4, SumsDef
<1>6. Sums(g)[n] = x + w
  BY <1>1, <1>2, <1>3, <1>4, SumsDef
<1>7. Total(g) = (x + w) + z
  <2>1. Total(g) = Sums(g)[n + 1] /\ Sums(g)[n + 1] = Sums(g)[(n + 1) - 1] + g[n + 1]
    BY <1>1, SumsDef
  <2>2. QED
    BY <1>1, <1>4, <1>6, <2>1
<1>8. QED
  BY <1>4, <1>5, <1>7

-----------------------------------------------------------------------------
(* The steps that remove nothing: the program is the same, and the walk    *)
(* has less to go.                                                         *)
LEMMA SameTop ==
  ASSUME IsAst(Stmt), NEW calls, Stack(calls), NEW new, Stack(new), Len(new) = Len(calls),
         \A k \in 1 .. Len(calls) - 1 : new[k] = calls[k],
         new[Len(calls)].stmts = calls[Len(calls)].stmts
  PROVE  ProgramOf(new) = ProgramOf(calls)
<1> DEFINE n == Len(calls)
           w == Whole(calls)
           v == Whole(new)
           A == {k \in Nat : k <= n - 1 => v[k] = w[k]}
<1>1. n \in Nat \ {0}
  BY StackParts
<1>2. /\ w[0] = calls[n].stmts /\ v[0] = new[n].stmts
      /\ \A k \in 1 .. n - 1 : w[k] = PutBody(calls[n - k], w[k - 1]) /\ v[k] = PutBody(new[n - k], v[k - 1])
  BY WholeDef
<1> HIDE DEF w, v
<1>3. 0 \in A
  BY <1>2
<1>4. ASSUME NEW k \in Nat, k \in A PROVE k + 1 \in A
  <2> SUFFICES ASSUME k + 1 <= n - 1 PROVE v[k + 1] = w[k + 1]
    OBVIOUS
  <2>1. PICK j \in 1 .. n - 1 : j = n - (k + 1)
    <3> HIDE DEF n
    <3> QED BY <1>1
  <2>2. v[k] = w[k] /\ k + 1 \in 1 .. n - 1 /\ (k + 1) - 1 = k
    BY <1>1, <1>4
  <2>3. w[k + 1] = PutBody(calls[j], w[k]) /\ v[k + 1] = PutBody(calls[j], v[k])
    BY <1>2, <2>1, <2>2
  <2>4. QED
    BY <2>2, <2>3
<1> HIDE DEF A
<1>5. \A k \in Nat : k \in A
  BY <1>3, <1>4, NaturalInduction
<1>6. v[n - 1] = w[n - 1]
  <2> HIDE DEF n
  <2> QED BY <1>1, <1>5 DEF A
<1>7. QED
  BY <1>6 DEF ProgramOf, v, w

LEMMA BothStacks ==
  ASSUME WalkOK(Stmt), WalkOK(Stmt)'
  PROVE  Stack(frames) /\ Stack(frames')
BY WalkStack, WalkParts DEF Stack, WalkOK, IteratorsStand, InList, OnFundec

SomePerformed == \E k \in DOMAIN frames : frames[k].performed_dce

LEMMA StepOverDown ==
  ASSUME IsAst(Stmt), WalkOK(Stmt), WalkOK(Stmt)', StepOver
  PROVE  Program' = Program /\ Togo' < Togo /\ (SomePerformed' <=> SomePerformed)
<1>1. PICK n \in Nat \ {0} : n = Len(frames)
  BY WalkParts
<1>2. /\ Top.stmts \in Seq(Stmt) /\ Top.it \in 1 .. Len(Top.stmts)
      /\ Continue(Top.stmts, Succ(Top.it, Top.stmts), FALSE) /\ Top = frames[n]
  <2>1. PICK kinds \in {{"VardeclStmt", "AssignStmt", "CallStmt"}, {"IfStmt"},
                        {"WhileStmt", "RepeatStmt"}, {"RetStmt"}} : At(kinds)
    BY DEF StepOver
  <2>2. QED
    BY <1>1, <2>1, AtParts DEF StepOver, Top
<1>3. Succ(Top.it, Top.stmts) = Top.it + 1 /\ Top.it # End(Top.stmts) /\ Top.it \in 1 .. End(Top.stmts)
  BY <1>2 DEF Succ, End
<1>4. /\ Len(frames') = n /\ \A k \in 1 .. n - 1 : frames'[k] = frames[k]
      /\ frames'[n].stmts = Top.stmts /\ frames'[n].it = Top.it + 1
      /\ frames'[n].performed_dce = (Top.performed_dce \/ FALSE)
  BY <1>1, <1>2, <1>3, ContinueFrames
<1>5. Stack(frames) /\ Stack(frames')
  BY BothStacks
<1>6. Program' = Program
  <2>1. ProgramOf(frames') = ProgramOf(frames)
    BY <1>1, <1>2, <1>4, <1>5, SameTop
  <2>2. QED
    BY <2>1 DEF Program
<1>7. Togo' < Togo
  <2>1. /\ Places(frames) \in Seq(Nat) /\ Len(Places(frames)) = n
        /\ \A k \in 1 .. n - 1 : Places(frames)[k] = Ahead(frames[k], frames[k].it + 1)
        /\ Places(frames)[n] = Ahead(frames[n], frames[n].it)
    BY <1>1, <1>5, PlacesType
  <2>2. /\ Places(frames') \in Seq(Nat) /\ Len(Places(frames')) = n
        /\ \A k \in 1 .. n - 1 : Places(frames')[k] = Ahead(frames'[k], frames'[k].it + 1)
        /\ Places(frames')[n] = Ahead(frames'[n], frames'[n].it)
    BY <1>4, <1>5, PlacesType
  <2>3. \A k \in 1 .. n - 1 : Places(frames)[k] = Places(frames')[k]
    BY <1>4, <2>1, <2>2
  <2>4. Ahead(frames'[n], frames'[n].it) = Ahead(Top, Top.it + 1)
    BY <1>4 DEF Ahead
  <2>5. /\ Ahead(Top, Top.it + 1) \in Nat
        /\ Ahead(Top, Top.it) = Ahead(Top, Top.it + 1) + SizeOf[Top.stmts[Top.it]]
    BY <1>2, <1>3, AheadDef
  <2>6. SizeOf[Top.stmts[Top.it]] \in Nat \ {0}
    BY <1>2, SizeOfDef
  <2>7. PICK a \in Nat, v \in Nat \ {0} : a = Ahead(Top, Top.it + 1) /\ v = SizeOf[Top.stmts[Top.it]]
    BY <2>5, <2>6
  <2>8. Places(frames')[n] = a /\ Places(frames)[n] = a + v
    BY <1>2, <2>1, <2>2, <2>4, <2>5, <2>7
  <2>9. Places(frames')[n] < Places(frames)[n]
    BY <2>8
  <2>10. Total(Places(frames')) < Total(Places(frames))
    BY <2>1, <2>2, <2>3, <2>9, LastLower
  <2>11. QED
    BY <2>10 DEF Togo
<1>8. SomePerformed' <=> SomePerformed
  <2>1. DOMAIN frames = 1 .. n /\ DOMAIN frames' = 1 .. n
    BY <1>1, <1>4, <1>5 DEF Stack
  <2>2. Top.performed_dce \in BOOLEAN
    BY WalkParts DEF FrameOf
  <2>3. \A k \in 1 .. n : frames'[k].performed_dce = frames[k].performed_dce
    <3>1. frames'[n].performed_dce = frames[n].performed_dce
      BY <1>2, <1>4, <2>2
    <3>2. \A k \in 1 .. n : k = n \/ k \in 1 .. n - 1
      OBVIOUS
    <3>3. QED
      BY <1>4, <3>1, <3>2
  <2>4. QED
    BY <2>1, <2>3 DEF SomePerformed
<1>9. QED
  BY <1>6, <1>7, <1>8

LEMMA EnterDown ==
  ASSUME IsAst(Stmt), WalkOK(Stmt), WalkOK(Stmt)', EnterBody
  PROVE  Program' = Program /\ Togo' < Togo /\ (SomePerformed' <=> SomePerformed)
<1>1. PICK n \in Nat \ {0} : n = Len(frames)
  BY WalkParts
<1>2. /\ Top.stmts \in Seq(Stmt) /\ Top.it \in 1 .. Len(Top.stmts)
      /\ Top.stmts[Top.it] = Cur /\ Cur \in FundecsIn(Stmt) /\ Top = frames[n]
  BY <1>1, AtParts DEF EnterBody, Cur, FundecsIn, Top
<1>3. Top.it # End(Top.stmts) /\ Top.it \in 1 .. End(Top.stmts)
  BY <1>2 DEF End
<1>4. Cur \in Fundecs /\ Cur.body \in Seq(Stmt)
  <2>1. Cur \in Fundecs
    BY <1>2, Kinds DEF Simples, Whiles, Repeats_, Ifs, FundecsIn
  <2>2. QED
    BY <2>1, FundecShape
<1>5. /\ Len(frames') = n + 1 /\ \A k \in 1 .. n : frames'[k] = frames[k]
      /\ frames'[n + 1] = Call(Cur.body)
  BY <1>1, EnterFrames
<1>6. Stack(frames) /\ Stack(frames')
  BY BothStacks
<1>7. Togo' < Togo
  <2>1. /\ Places(frames) \in Seq(Nat) /\ Len(Places(frames)) = n
        /\ \A k \in 1 .. n - 1 : Places(frames)[k] = Ahead(frames[k], frames[k].it + 1)
        /\ Places(frames)[n] = Ahead(frames[n], frames[n].it)
    BY <1>1, <1>6, PlacesType
  <2>2. /\ Places(frames') \in Seq(Nat) /\ Len(Places(frames')) = n + 1
        /\ \A k \in 1 .. (n + 1) - 1 : Places(frames')[k] = Ahead(frames'[k], frames'[k].it + 1)
        /\ Places(frames')[n + 1] = Ahead(frames'[n + 1], frames'[n + 1].it)
    BY <1>5, <1>6, PlacesType
  <2>3. \A k \in 1 .. n : k \in 1 .. (n + 1) - 1
    OBVIOUS
  <2>4. \A k \in 1 .. n - 1 : Places(frames)[k] = Places(frames')[k]
    <3>1. \A k \in 1 .. n - 1 : k \in 1 .. n
      OBVIOUS
    <3>2. QED
      BY <1>5, <2>1, <2>2, <2>3, <3>1
  <2>5. Places(frames')[n] = Ahead(Top, Top.it + 1)
    <3>1. n \in 1 .. n
      OBVIOUS
    <3>2. QED
      BY <1>2, <1>5, <2>2, <2>3, <3>1
  <2>6. Places(frames')[n + 1] = Size(Cur.body)
    <3>1. Call(Cur.body).stmts = Cur.body /\ Call(Cur.body).it = 1
      BY DEF Call
    <3>2. 1 \in 1 .. End(Cur.body)
      BY <1>4 DEF End
    <3>3. Ahead(Call(Cur.body), 1) = Size(Cur.body)
      BY <1>4, <3>1, <3>2, AheadDef
    <3>4. QED
      BY <1>5, <2>2, <3>1, <3>3
  <2>7. /\ Ahead(Top, Top.it + 1) \in Nat
        /\ Ahead(Top, Top.it) = Ahead(Top, Top.it + 1) + SizeOf[Cur]
    BY <1>2, <1>3, AheadDef
  <2>8. SizeOf[Cur] = 1 + Size(Cur.body) /\ Size(Cur.body) \in Nat
    BY <1>4, SizeOfCases, SizesType
  <2>9. PICK x \in Nat, v \in Nat, w \in Nat, z \in Nat :
            /\ v = Places(frames)[n] /\ w = Places(frames')[n] /\ z = Places(frames')[n + 1]
            /\ Total(Places(frames)) = x + v /\ Total(Places(frames')) = (x + w) + z
    BY <2>1, <2>2, <2>4, LastDivided
  <2>10. v = w + (1 + z)
    BY <1>2, <2>1, <2>5, <2>6, <2>7, <2>8, <2>9
  <2>11. (x + w) + z < x + (w + (1 + z))
    OBVIOUS
  <2>12. QED
    BY <2>9, <2>10, <2>11 DEF Togo
<1>8. SomePerformed' <=> SomePerformed
  <2>1. DOMAIN frames = 1 .. n /\ DOMAIN frames' = 1 .. n + 1
    BY <1>1, <1>5, <1>6 DEF Stack
  <2>2. ~ frames'[n + 1].performed_dce
    BY <1>5 DEF Call
  <2>3. \A k \in 1 .. n + 1 : k = n + 1 \/ k \in 1 .. n
    OBVIOUS
  <2>4. \A k \in 1 .. n : k \in 1 .. n + 1
    OBVIOUS
  <2>5. QED
    BY <1>5, <2>1, <2>2, <2>3, <2>4 DEF SomePerformed
<1>9. QED
  BY <1>7, <1>8, EnterSame

LEMMA LeaveDown ==
  ASSUME IsAst(Stmt), WalkOK(Stmt), WalkOK(Stmt)', LeaveBody
  PROVE  Program' = Program /\ Togo' < Togo /\ (SomePerformed' <=> SomePerformed)
<1>1. PICK n \in Nat \ {0} : Len(frames) = n + 1
  <2>1. Len(frames) - 1 \in Nat \ {0} /\ Len(frames) = (Len(frames) - 1) + 1
    BY LeaveFrames, WalkParts
  <2>2. QED
    BY <2>1
<1>2. /\ Len(frames') = n /\ \A k \in 1 .. n - 1 : frames'[k] = frames[k]
      /\ frames'[n] = Resumed
  <2>1. Len(frames) - 1 = n /\ Len(frames) - 2 = n - 1
    BY <1>1
  <2>2. QED
    BY <2>1, LeaveFrames
<1>3. Stack(frames) /\ Stack(frames')
  BY BothStacks
<1>4. PICK f : f = frames[n]
  OBVIOUS
<1>5. Len(frames) - 1 = n /\ n \in 1 .. Len(frames) - 1 /\ n + 1 \in 1 .. Len(frames)
  BY <1>1
<1>6. /\ f.stmts \in Seq(Stmt) /\ f.it \in 1 .. Len(f.stmts) /\ f.stmts[f.it] \in FundecsIn(Stmt)
      /\ f \in FrameOf(Stmt) /\ frames[n + 1] \in FrameOf(Stmt)
  <2>1. n \in 1 .. Len(frames)
    BY <1>1
  <2>2. QED
    BY <1>3, <1>4, <1>5, <2>1, StackParts
<1>7. Top = frames[n + 1] /\ Top.stmts \in Seq(Stmt) /\ Top.it = End(Top.stmts)
  BY <1>1, WalkParts DEF Top, FrameOf, LeaveBody
<1>8. /\ Resumed.stmts = PutBody(f, Top.stmts) /\ Resumed.it = Succ(f.it, Resumed.stmts)
      /\ Resumed.performed_dce = (f.performed_dce \/ Top.performed_dce)
  BY <1>4, <1>5 DEF Resumed, PutBody
<1>9. /\ Resumed.stmts \in Seq(Stmt) /\ Len(Resumed.stmts) = Len(f.stmts)
      /\ \A i \in 1 .. Len(f.stmts) : i # f.it => f.stmts[i] = Resumed.stmts[i]
  <2>1. /\ PutBody(f, Top.stmts) \in Seq(Stmt) /\ Len(PutBody(f, Top.stmts)) = Len(f.stmts)
        /\ \A i \in 1 .. Len(f.stmts) : i # f.it => PutBody(f, Top.stmts)[i] = f.stmts[i]
    BY <1>6, <1>7, PutBodyIn
  <2>2. QED
    BY <1>8, <2>1
<1>10. Resumed.it = f.it + 1
  BY <1>6, <1>8, <1>9 DEF Succ, End
<1>11. Togo' < Togo
  <2>1. /\ Places(frames) \in Seq(Nat) /\ Len(Places(frames)) = n + 1
        /\ \A k \in 1 .. n : Places(frames)[k] = Ahead(frames[k], frames[k].it + 1)
        /\ Places(frames)[n + 1] = Ahead(Top, Top.it)
    <3>1. (n + 1) - 1 = n
      OBVIOUS
    <3>2. QED
      BY <1>1, <1>3, <1>7, <3>1, PlacesType
  <2>2. /\ Places(frames') \in Seq(Nat) /\ Len(Places(frames')) = n
        /\ \A k \in 1 .. n - 1 : Places(frames')[k] = Ahead(frames'[k], frames'[k].it + 1)
        /\ Places(frames')[n] = Ahead(Resumed, Resumed.it)
    BY <1>2, <1>3, PlacesType
  <2>3. \A k \in 1 .. n - 1 : Places(frames')[k] = Places(frames)[k]
    <3>1. \A k \in 1 .. n - 1 : k \in 1 .. n
      OBVIOUS
    <3>2. QED
      BY <1>2, <2>1, <2>2, <3>1
  <2>4. Places(frames')[n] = Places(frames)[n]
    <3>1. Ahead(f, f.it + 1) = Ahead(Resumed, f.it + 1)
      BY <1>6, <1>9, AheadSame
    <3>2. n \in 1 .. n
      OBVIOUS
    <3>3. QED
      BY <1>4, <1>10, <2>1, <2>2, <3>1, <3>2
  <2>5. Places(frames)[n + 1] = 1
    <3>1. Top.it \in 1 .. End(Top.stmts)
      BY <1>7 DEF End
    <3>2. QED
      BY <1>7, <2>1, <3>1, AheadDef
  <2>6. PICK x \in Nat, v \in Nat, w \in Nat, z \in Nat :
            /\ v = Places(frames')[n] /\ w = Places(frames)[n] /\ z = Places(frames)[n + 1]
            /\ Total(Places(frames')) = x + v /\ Total(Places(frames)) = (x + w) + z
    BY <2>1, <2>2, <2>3, LastDivided
  <2>7. v = w /\ z = 1 /\ x + w < (x + w) + 1
    BY <2>4, <2>5, <2>6
  <2>8. QED
    BY <2>6, <2>7 DEF Togo
<1>12. SomePerformed' <=> SomePerformed
  <2>1. DOMAIN frames = 1 .. n + 1 /\ DOMAIN frames' = 1 .. n
    BY <1>1, <1>2, <1>3 DEF Stack
  <2>2. frames'[n].performed_dce <=> frames[n].performed_dce \/ frames[n + 1].performed_dce
    BY <1>2, <1>4, <1>7, <1>8
  <2>3. /\ \A k \in 1 .. n + 1 : k = n + 1 \/ k = n \/ k \in 1 .. n - 1
        /\ \A k \in 1 .. n : k = n \/ k \in 1 .. n - 1
        /\ \A k \in 1 .. n - 1 : k \in 1 .. n /\ k \in 1 .. n + 1
        /\ n \in 1 .. n /\ n \in 1 .. n + 1 /\ n + 1 \in 1 .. n + 1
    OBVIOUS
  <2>4. QED
    BY <1>2, <2>1, <2>2, <2>3 DEF SomePerformed
<1>13. QED
  BY <1>11, <1>12, LeaveSame

(* The measure: the size of the program, the passes to come and the way to *)
(* go are numbers, and every step lowers the first of them it changes.     *)
Measured == Size(Program) \in Nat /\ Passes \in 0 .. 4 /\ Togo \in Nat

Lower ==
  \/ Size(Program') < Size(Program)
  \/ /\ Size(Program') = Size(Program)
     /\ \/ Passes' < Passes
        \/ Passes' = Passes /\ Togo' < Togo

LEMMA LoopMeasured ==
  ASSUME IsAst(Stmt), LoopInv
  PROVE  Measured /\ Program \in Seq(Stmt)
<1>1. Stack(frames)
  BY WalkStack DEF LoopInv
<1>2. Program \in Seq(Stmt)
  <2>1. PICK n \in Nat \ {0} : n = Len(frames)
    BY <1>1, StackParts
  <2>2. n - 1 \in 0 .. n - 1
    OBVIOUS
  <2>3. QED
    BY <1>1, <2>1, <2>2, WholeDef DEF Program, ProgramOf
<1>3. Togo \in Nat
  <2>1. Places(frames) \in Seq(Nat)
    BY <1>1, PlacesType
  <2>2. QED
    BY <2>1, SumsDef DEF Togo
<1>4. Passes \in 0 .. 4
  BY DEF Passes
<1>5. QED
  BY <1>2, <1>3, <1>4, SizesType DEF Measured

LEMMA FoldAllDown ==
  ASSUME IsAst(Stmt), LoopInv, LoopInv', FoldAll
  PROVE  Lower
<1>1. Top.stmts \in Seq(Stmt) /\ Program = Top.stmts /\ Program' = FoldStmts(Top.stmts)
  BY FoldAllProgram
<1>2. Size(Program') = Size(Program)
  BY <1>1, FoldKeepsSize
<1>3. Passes = IF FoldStmts(Program) # Program THEN 4 ELSE 2
  BY DEF Passes, FoldAll
<1>4. Passes' = IF should_optimize' THEN 3 ELSE 1
  <2>1. frames' = <<Call(FoldStmts(Top.stmts))>> /\ phase' = "dce"
    BY DEF FoldAll
  <2>2. ~ Call(FoldStmts(Top.stmts)).performed_dce
    BY DEF Call
  <2>3. ~ \E k \in DOMAIN frames' : frames'[k].performed_dce
    BY <2>1, <2>2
  <2>4. QED
    BY <2>1, <2>3 DEF Passes
<1>5. should_optimize' = (FoldStmts(Program) # Program)
  BY <1>1 DEF FoldAll
<1>6. Passes' < Passes
  <2>1. \/ Passes = 4 /\ Passes' = 3
        \/ Passes = 2 /\ Passes' = 1
    BY <1>3, <1>4, <1>5, Zenon
  <2>2. QED
    BY <2>1
<1>7. QED
  BY <1>2, <1>6 DEF Lower

LEMMA DceStepDown ==
  ASSUME IsAst(Stmt), LoopInv, LoopInv', DceStep
  PROVE  Lower
<1>1. /\ WalkOK(Stmt) /\ WalkOK(Stmt)' /\ Step
      /\ phase = "dce" /\ phase' = "dce" /\ should_optimize' = should_optimize
  BY DEF LoopInv, DceStep
<1>2. CASE LiftBranch \/ EraseLoop \/ Truncate
  BY <1>1, <1>2, RemovalShrinks DEF Lower
<1>3. CASE StepOver \/ EnterBody \/ LeaveBody
  <2>1. Program' = Program /\ Togo' < Togo /\ (SomePerformed' <=> SomePerformed)
    BY <1>1, <1>3, StepOverDown, EnterDown, LeaveDown
  <2>2. Passes = IF should_optimize \/ SomePerformed THEN 3 ELSE 1
    BY <1>1 DEF Passes, SomePerformed
  <2>3. Passes' = IF should_optimize' \/ SomePerformed' THEN 3 ELSE 1
    BY <1>1 DEF Passes, SomePerformed
  <2>4. Passes' = Passes
    BY <1>1, <2>1, <2>2, <2>3
  <2>5. QED
    BY <2>1, <2>4 DEF Lower
<1>4. QED
  BY <1>1, <1>2, <1>3 DEF Step

LEMMA NextTurnDown ==
  ASSUME IsAst(Stmt), LoopInv, LoopInv', NextTurn
  PROVE  Lower
<1>1. /\ frames' = frames /\ Len(frames) = 1 /\ phase = "dce"
      /\ WalkOK(Stmt) /\ WalkOK(Fixed)
      /\ should_optimize' = (should_optimize \/ Top.performed_dce)
      /\ phase' = IF should_optimize' THEN "fold" ELSE "done"
  BY DEF NextTurn, Returned, LoopInv
<1>2. Program' = Program
  BY <1>1 DEF Program
<1>3. FoldStmts(Program) = Program
  <2>1. Program = Top.stmts /\ Top.stmts \in Seq(Stmt) /\ Top.stmts \in Seq(Fixed)
    BY <1>1, ProgramAlone, WalkParts DEF FrameOf
  <2>2. QED
    BY <2>1, FixedLists
<1>4. SomePerformed <=> Top.performed_dce
  <2>1. DOMAIN frames = {1}
    BY <1>1, WalkParts
  <2>2. QED
    BY <1>1, <2>1 DEF SomePerformed, Top
<1>5. Passes = IF should_optimize \/ SomePerformed THEN 3 ELSE 1
  BY <1>1 DEF Passes, SomePerformed
<1>6. Passes' = IF should_optimize' THEN 2 ELSE 0
  <2>1. CASE should_optimize'
    <3>1. phase' = "fold"
      BY <1>1, <2>1
    <3>2. Passes' = IF FoldStmts(Program') # Program' THEN 4 ELSE 2
      BY <3>1 DEF Passes
    <3>3. QED
      BY <1>2, <1>3, <2>1, <3>2
  <2>2. CASE ~ should_optimize'
    <3>1. phase' = "done"
      BY <1>1, <2>2
    <3>2. QED
      BY <2>2, <3>1 DEF Passes
  <2>3. QED
    BY <2>1, <2>2
<1>7. Passes' < Passes
  <2>1. should_optimize' <=> should_optimize \/ SomePerformed
    BY <1>1, <1>4
  <2>2. \/ Passes = 3 /\ Passes' = 2
        \/ Passes = 1 /\ Passes' = 0
    BY <1>5, <1>6, <2>1, Zenon
  <2>3. QED
    BY <2>2
<1>8. QED
  BY <1>2, <1>7 DEF Lower

(* The optimisation loop cannot turn for ever.  Each of its steps makes    *)
(* the program smaller, or leaves fewer passes to come, or less of the     *)
(* walk to go, and none of the three can be lowered without end: also      *)
(* where the iterator steps back over the front of its list, or from       *)
(* behind the end to the front again.                                      *)
THEOREM RunsOut ==
  ASSUME IsAst(Stmt), Programs \subseteq Seq(Stmt)
  PROVE  Spec => []Measured /\ StepsRunOut
<1>1. Init => LoopInv
  BY LoopInit
<1>2. LoopInv /\ [Next]_optv => LoopInv'
  BY LoopNext
<1>3. LoopInv => Measured
  BY LoopMeasured
<1>4. LoopInv /\ LoopInv' /\ [Next]_optv => [Lower]_optv
  <2>1. ASSUME LoopInv, LoopInv', [Next]_optv PROVE [Lower]_optv
    <3>1. CASE UNCHANGED optv
      BY <3>1
    <3>2. CASE Done
      BY <3>2 DEF Done
    <3>3. QED
      BY <2>1, <3>1, <3>2, FoldAllDown, DceStepDown, NextTurnDown DEF Next
  <2>2. QED
    BY <2>1
<1>5. StepsRunOut <=> [][Lower]_optv
  BY DEF StepsRunOut, Lower
<1>6. QED
  BY <1>1, <1>2, <1>3, <1>4, <1>5, PTL DEF Spec

-----------------------------------------------------------------------------
(* There is a set of all statements: the theorems above have a subject.    *)
(* Level(n) are the trees of height n at most.                             *)
IsTower(h, n) ==
  DOMAIN h = 0 .. n /\ h[0] = {} /\ \A i \in 0 .. n : i < n => h[i + 1] = Nodes(h[i])

Level(n) == (CHOOSE h : IsTower(h, n))[n]
Trees == UNION {Level(n) : n \in Nat}

LEMMA TowersExist == \A n \in Nat : \E h : IsTower(h, n)
<1> DEFINE A == {n \in Nat : \E h : IsTower(h, n)}
<1>1. 0 \in A
  <2>1. IsTower([i \in 0 .. 0 |-> {}], 0)
    BY DEF IsTower
  <2>2. QED
    BY <2>1
<1>2. ASSUME NEW n \in Nat, n \in A PROVE n + 1 \in A
  <2>1. PICK h : IsTower(h, n)
    BY <1>2
  <2> DEFINE g == [i \in 0 .. n + 1 |-> IF i = n + 1 THEN Nodes(h[n]) ELSE h[i]]
  <2>2. DOMAIN g = 0 .. n + 1 /\ g[0] = {}
    BY <2>1 DEF IsTower
  <2>3. ASSUME NEW i \in 0 .. n + 1, i < n + 1 PROVE g[i + 1] = Nodes(g[i])
    <3>1. CASE i = n
      BY <2>3, <3>1
    <3>2. CASE i < n
      <4>1. g[i + 1] = h[i + 1] /\ g[i] = h[i]
        BY <2>3, <3>2
      <4>2. h[i + 1] = Nodes(h[i])
        BY <2>1, <2>3, <3>2 DEF IsTower
      <4>3. QED
        BY <4>1, <4>2
    <3>3. QED
      BY <2>3, <3>1, <3>2
  <2> HIDE DEF g
  <2>4. IsTower(g, n + 1)
    BY <2>2, <2>3 DEF IsTower
  <2>5. QED
    BY <2>4
<1> HIDE DEF A
<1>3. \A n \in Nat : n \in A
  BY <1>1, <1>2, NaturalInduction
<1>4. QED
  BY <1>3 DEF A

LEMMA TowersAgree ==
  ASSUME NEW n \in Nat, NEW g, IsTower(g, n), NEW m \in Nat, NEW h, IsTower(h, m)
  PROVE  \A i \in Nat : i <= n /\ i <= m => g[i] = h[i]
<1> DEFINE A == {i \in Nat : i <= n /\ i <= m => g[i] = h[i]}
<1>1. 0 \in A
  BY DEF IsTower
<1>2. ASSUME NEW i \in Nat, i \in A PROVE i + 1 \in A
  <2> SUFFICES ASSUME i + 1 <= n, i + 1 <= m PROVE g[i + 1] = h[i + 1]
    OBVIOUS
  <2>1. g[i] = h[i]
    BY <1>2
  <2>2. g[i + 1] = Nodes(g[i]) /\ h[i + 1] = Nodes(h[i])
    BY DEF IsTower
  <2>3. QED
    BY <2>1, <2>2
<1> HIDE DEF A
<1>3. \A i \in Nat : i \in A
  BY <1>1, <1>2, NaturalInduction
<1>4. QED
  BY <1>3 DEF A

LEMMA Levels ==
  Level(0) = {} /\ \A n \in Nat : Level(n + 1) = Nodes(Level(n))
<1> DEFINE tower(n) == CHOOSE h : IsTower(h, n)
<1>1. ASSUME NEW n \in Nat PROVE IsTower(tower(n), n)
  BY TowersExist
<1>2. \A n : Level(n) = tower(n)[n]
  BY DEF Level
<1> HIDE DEF tower
<1>3. Level(0) = {}
  BY <1>1, <1>2 DEF IsTower
<1>4. ASSUME NEW n \in Nat PROVE Level(n + 1) = Nodes(Level(n))
  <2>1. PICK m \in Nat : m = n + 1
    OBVIOUS
  <2>2. IsTower(tower(m), m) /\ IsTower(tower(n), n)
    BY <1>1
  <2>3. tower(m)[n] = tower(n)[n]
    BY <2>1, <2>2, TowersAgree
  <2>4. tower(m)[n + 1] = Nodes(tower(m)[n])
    BY <2>1, <2>2 DEF IsTower
  <2>5. QED
    BY <1>2, <2>1, <2>3, <2>4
<1>5. QED
  BY <1>3, <1>4

LEMMA NodesGrow ==
  ASSUME NEW S, NEW T, S \subseteq T
  PROVE  Nodes(S) \subseteq Nodes(T)
<1>1. Seq(S) \subseteq Seq(T)
  OBVIOUS
<1> DEFINE P == Seq(S)
           Q == Seq(T)
<1>2. P \subseteq Q
  BY <1>1
<1> HIDE DEF P, Q
<1>3. /\ [kind : {"IfStmt"}, cond : Exp, then_stmts : P, else_stmts : P]
           \subseteq [kind : {"IfStmt"}, cond : Exp, then_stmts : Q, else_stmts : Q]
      /\ [kind : {"WhileStmt"}, cond : Exp, body_stmts : P, otherwise_stmts : P]
           \subseteq [kind : {"WhileStmt"}, cond : Exp, body_stmts : Q, otherwise_stmts : Q]
      /\ [kind : {"RepeatStmt"}, cond : Exp, body_stmts : P]
           \subseteq [kind : {"RepeatStmt"}, cond : Exp, body_stmts : Q]
      /\ [kind : {"FundecStmt"}, name : Names, params : SUBSET Names, body : P]
           \subseteq [kind : {"FundecStmt"}, name : Names, params : SUBSET Names, body : Q]
  BY <1>2
<1>4. QED
  BY <1>3 DEF Nodes, P, Q

LEMMA LevelsGrow ==
  ASSUME NEW n \in Nat, NEW m \in Nat, n <= m
  PROVE  Level(n) \subseteq Level(m)
<1> DEFINE A == {i \in Nat : Level(i) \subseteq Level(i + 1)}
<1>1. 0 \in A
  BY Levels
<1>2. ASSUME NEW i \in Nat, i \in A PROVE i + 1 \in A
  <2>1. Level(i) \subseteq Level(i + 1)
    BY <1>2
  <2>2. Nodes(Level(i)) \subseteq Nodes(Level(i + 1))
    BY <2>1, NodesGrow
  <2>3. Level(i + 1) = Nodes(Level(i)) /\ Level((i + 1) + 1) = Nodes(Level(i + 1))
    BY Levels
  <2>4. QED
    BY <2>2, <2>3
<1>3. \A i \in Nat : i \in A
  <2> HIDE DEF A
  <2> QED BY <1>1, <1>2, NaturalInduction
<1> DEFINE B == {k \in Nat : Level(n) \subseteq Level(n + k)}
<1>4. 0 \in B
  OBVIOUS
<1>5. ASSUME NEW k \in Nat, k \in B PROVE k + 1 \in B
  <2>1. Level(n + k) \subseteq Level((n + k) + 1)
    BY <1>3
  <2>2. (n + k) + 1 = n + (k + 1)
    OBVIOUS
  <2>3. QED
    BY <1>5, <2>1, <2>2
<1>6. \A k \in Nat : k \in B
  <2> HIDE DEF B
  <2> QED BY <1>4, <1>5, NaturalInduction
<1>7. m - n \in Nat /\ n + (m - n) = m
  OBVIOUS
<1>8. QED
  BY <1>6, <1>7

LEMMA TreesHaveLevels ==
  ASSUME NEW args \in Seq(Trees)
  PROVE  \E n \in Nat : args \in Seq(Level(n))
<1> DEFINE A == {k \in Nat : k <= Len(args) => \E n \in Nat : \A i \in 1 .. k : args[i] \in Level(n)}
<1>1. 0 \in A
  OBVIOUS
<1>2. ASSUME NEW k \in Nat, k \in A PROVE k + 1 \in A
  <2> SUFFICES ASSUME k + 1 <= Len(args)
               PROVE  \E n \in Nat : \A i \in 1 .. k + 1 : args[i] \in Level(n)
    OBVIOUS
  <2>1. PICK n \in Nat : \A i \in 1 .. k : args[i] \in Level(n)
    BY <1>2
  <2>2. args[k + 1] \in Trees
    OBVIOUS
  <2>3. PICK m \in Nat : args[k + 1] \in Level(m)
    BY <2>2 DEF Trees
  <2>4. PICK top \in Nat : n <= top /\ m <= top
    <3>1. n <= m \/ m <= n
      OBVIOUS
    <3>2. QED
      BY <3>1
  <2>5. Level(n) \subseteq Level(top) /\ Level(m) \subseteq Level(top)
    BY <2>4, LevelsGrow
  <2>6. \A i \in 1 .. k + 1 : args[i] \in Level(top)
    BY <2>1, <2>3, <2>5
  <2>7. QED
    BY <2>6
<1>3. \A k \in Nat : k \in A
  <2> HIDE DEF A
  <2> QED BY <1>1, <1>2, NaturalInduction
<1>4. PICK n \in Nat : \A i \in 1 .. Len(args) : args[i] \in Level(n)
  <2>1. Len(args) \in Nat
    OBVIOUS
  <2>2. Len(args) \in A
    <3> HIDE DEF A
    <3> QED BY <1>3, <2>1
  <2>3. QED
    BY <2>1, <2>2
<1>5. QED
  BY <1>4

LEMMA BothHaveLevels ==
  ASSUME NEW l \in Seq(Trees), NEW k \in Seq(Trees)
  PROVE  \E n \in Nat : l \in Seq(Level(n)) /\ k \in Seq(Level(n))
<1>1. PICK n \in Nat : l \in Seq(Level(n))
  BY TreesHaveLevels
<1>2. PICK m \in Nat : k \in Seq(Level(m))
  BY TreesHaveLevels
<1>3. PICK top \in Nat : n <= top /\ m <= top
  <2>1. n <= m \/ m <= n
    OBVIOUS
  <2>2. QED
    BY <2>1
<1>4. Level(n) \subseteq Level(top) /\ Level(m) \subseteq Level(top)
  BY <1>3, LevelsGrow
<1>5. QED
  BY <1>1, <1>2, <1>4

(* The statements of all heights are closed under the constructors.        *)
LEMMA TreesClosed == Trees = Nodes(Trees)
<1>1. ASSUME NEW n \in Nat PROVE Level(n) \subseteq Trees /\ Nodes(Level(n)) \subseteq Trees
  <2>1. Nodes(Level(n)) = Level(n + 1) /\ n + 1 \in Nat
    BY Levels
  <2>2. QED
    BY <2>1 DEF Trees
<1>2. ASSUME NEW e \in Trees PROVE e \in Nodes(Trees)
  <2>1. PICK n \in Nat : e \in Level(n)
    BY DEF Trees
  <2>2. n # 0
    BY <2>1, Levels
  <2>3. PICK m \in Nat : n = m + 1
    BY <2>2
  <2>4. e \in Nodes(Level(m))
    BY <2>1, <2>3, Levels
  <2>5. QED
    BY <1>1, <2>4, NodesGrow
<1>3. ASSUME NEW e \in Nodes(Trees) PROVE \E n \in Nat : e \in Nodes(Level(n))
  <2>1. CASE e \in Nodes({})
    BY <2>1, Levels
  <2>2. CASE e.kind = "IfStmt" /\ e \in Nodes(Trees)
    <3>1. /\ e \in [kind : {"IfStmt"}, cond : Exp, then_stmts : Seq(Trees), else_stmts : Seq(Trees)]
          /\ e.then_stmts \in Seq(Trees) /\ e.else_stmts \in Seq(Trees)
      BY <2>2 DEF Nodes
    <3>2. PICK n \in Nat : e.then_stmts \in Seq(Level(n)) /\ e.else_stmts \in Seq(Level(n))
      BY <3>1, BothHaveLevels
    <3>3. e \in [kind : {"IfStmt"}, cond : Exp, then_stmts : Seq(Level(n)), else_stmts : Seq(Level(n))]
      BY <3>1, <3>2
    <3>4. QED
      BY <3>3 DEF Nodes
  <2>3. CASE e.kind = "WhileStmt" /\ e \in Nodes(Trees)
    <3>1. /\ e \in [kind : {"WhileStmt"}, cond : Exp, body_stmts : Seq(Trees), otherwise_stmts : Seq(Trees)]
          /\ e.body_stmts \in Seq(Trees) /\ e.otherwise_stmts \in Seq(Trees)
      BY <2>3 DEF Nodes
    <3>2. PICK n \in Nat : e.body_stmts \in Seq(Level(n)) /\ e.otherwise_stmts \in Seq(Level(n))
      BY <3>1, BothHaveLevels
    <3>3. e \in [kind : {"WhileStmt"}, cond : Exp, body_stmts : Seq(Level(n)), otherwise_stmts : Seq(Level(n))]
      BY <3>1, <3>2
    <3>4. QED
      BY <3>3 DEF Nodes
  <2>4. CASE e.kind = "RepeatStmt" /\ e \in Nodes(Trees)
    <3>1. e \in [kind : {"RepeatStmt"}, cond : Exp, body_stmts : Seq(Trees)] /\ e.body_stmts \in Seq(Trees)
      BY <2>4 DEF Nodes
    <3>2. PICK n \in Nat : e.body_stmts \in Seq(Level(n))
      BY <3>1, TreesHaveLevels
    <3>3. e \in [kind : {"RepeatStmt"}, cond : Exp, body_stmts : Seq(Level(n))]
      BY <3>1, <3>2
    <3>4. QED
      BY <3>3 DEF Nodes
  <2>5. CASE e.kind = "FundecStmt" /\ e \in Nodes(Trees)
    <3>1. /\ e \in [kind : {"FundecStmt"}, name : Names, params : SUBSET Names, body : Seq(Trees)]
          /\ e.body \in Seq(Trees)
      BY <2>5 DEF Nodes
    <3>2. PICK n \in Nat : e.body \in Seq(Level(n))
      BY <3>1, TreesHaveLevels
    <3>3. e \in [kind : {"FundecStmt"}, name : Names, params : SUBSET Names, body : Seq(Level(n))]
      BY <3>1, <3>2
    <3>4. QED
      BY <3>3 DEF Nodes
  <2>6. e.kind \in {"IfStmt", "WhileStmt", "RepeatStmt", "FundecStmt"} \/ e \in Nodes({})
    BY <1>3 DEF Nodes
  <2>7. QED
    BY <1>3, <2>1, <2>2, <2>3, <2>4, <2>5, <2>6
<1>4. QED
  BY <1>1, <1>2, <1>3

LEMMA PartsOfNode ==
  ASSUME NEW S, NEW s \in Nodes(S)
  PROVE  Children(s) \subseteq S
<1>1. ASSUME NEW l \in Seq(S) PROVE Elements(l) \subseteq S
  BY ElementsOf
<1>2. CASE s.kind = "IfStmt"
  <2>1. s.then_stmts \in Seq(S) /\ s.else_stmts \in Seq(S)
    BY <1>2 DEF Nodes
  <2>2. Children(s) = Elements(s.then_stmts) \union Elements(s.else_stmts)
    BY <1>2 DEF Children
  <2>3. QED
    BY <1>1, <2>1, <2>2
<1>3. CASE s.kind = "WhileStmt"
  <2>1. s.body_stmts \in Seq(S) /\ s.otherwise_stmts \in Seq(S)
    BY <1>3 DEF Nodes
  <2>2. Children(s) = Elements(s.body_stmts) \union Elements(s.otherwise_stmts)
    BY <1>3 DEF Children
  <2>3. QED
    BY <1>1, <2>1, <2>2
<1>4. CASE s.kind = "RepeatStmt"
  <2>1. s.body_stmts \in Seq(S) /\ Children(s) = Elements(s.body_stmts)
    BY <1>4 DEF Nodes, Children
  <2>2. QED
    BY <1>1, <2>1
<1>5. CASE s.kind = "FundecStmt"
  <2>1. s.body \in Seq(S) /\ Children(s) = Elements(s.body)
    BY <1>5 DEF Nodes, Children
  <2>2. QED
    BY <1>1, <2>1
<1>6. CASE ~ (s.kind = "IfStmt" \/ s.kind = "WhileStmt" \/ s.kind = "RepeatStmt" \/ s.kind = "FundecStmt")
  <2>1. Children(s) = {}
    BY <1>6, Zenon DEF Children
  <2>2. QED
    BY <2>1
<1>7. QED
  BY <1>2, <1>3, <1>4, <1>5, <1>6

(* The trees of all heights are an Ast: the hypothesis on Stmt, of which   *)
(* ast.h sets no bound, holds of a set.                                    *)
THEOREM AstExists == IsAst(Trees)
<1> DEFINE heights(e) == {n \in Nat : e \in Level(n)}
           rank == [e \in Trees |-> CHOOSE n \in heights(e) : \A m \in heights(e) : n <= m]
<1>1. ASSUME NEW e \in Trees PROVE rank[e] \in heights(e) /\ \A m \in heights(e) : rank[e] <= m
  <2>1. heights(e) \subseteq Nat /\ heights(e) # {}
    BY DEF Trees
  <2> HIDE DEF heights
  <2>2. \E n \in heights(e) : \A m \in heights(e) : n <= m
    BY <2>1, LeastNatural
  <2>3. QED
    BY <2>2
<1>2. DOMAIN rank = Trees /\ \A e \in Trees : rank[e] \in Nat
  BY <1>1
<1>3. rank \in [Trees -> Nat]
  BY <1>1
<1> HIDE DEF rank
<1>4. ASSUME NEW e \in Trees, NEW c \in Children(e) PROVE rank[c] < rank[e]
  <2>1. rank[e] \in Nat /\ e \in Level(rank[e])
    BY <1>1
  <2>2. PICK m \in Nat : rank[e] = m + 1
    <3>1. rank[e] # 0
      BY <2>1, Levels
    <3>2. rank[e] - 1 \in Nat /\ rank[e] = (rank[e] - 1) + 1
      BY <2>1, <3>1
    <3>3. QED
      BY <3>2
  <2>3. e \in Nodes(Level(m))
    BY <2>1, <2>2, Levels
  <2>4. c \in Level(m)
    BY <1>4, <2>3, PartsOfNode
  <2>5. c \in Trees
    BY <2>4 DEF Trees
  <2>6. rank[c] <= m /\ rank[c] \in Nat
    BY <1>1, <2>4, <2>5
  <2>7. QED
    BY <2>2, <2>6
<1>5. Falls(Trees, rank)
  BY <1>3, <1>4 DEF Falls
<1>6. QED
  BY <1>5, TreesClosed DEF IsAst
=============================================================================
