--------------------------- MODULE ExpTypesProofs ---------------------------
(***************************************************************************)
(* What resolver and checker make of expressions of any size, for any      *)
(* declarations.                                                           *)
(***************************************************************************)
EXTENDS ExpTypes, Induction

(* E is a set of finite expression trees with every node over it.          *)
Children(e) ==
  CASE e.kind = "BinopExp" -> {e.lhs, e.rhs}
    [] e.kind = "UnopExp"  -> {e.e}
    [] e.kind = "CallExp"  -> {e.args[i] : i \in DOMAIN e.args}
    [] OTHER               -> {}

Falls(E, rank) == rank \in [E -> Nat] /\ \A e \in E : \A c \in Children(e) : rank[c] < rank[e]

IsAst(E) == E = Nodes(E) /\ \E rank : Falls(E, rank)

Leaves == [kind : {"IntExp", "StringExp"}]
            \union [kind : {"VarExp"}, name : VarNames, var_info : {nullopt} \union Type]
Calls  == [kind : {"CallExp"}, name : FunNames, fun_info : {nullopt} \union FunInfo, args : Seq(Exp)]
Binops == [kind : {"BinopExp"}, lhs : Exp, rhs : Exp]
Unops  == [kind : {"UnopExp"}, e : Exp]

LEMMA Kinds ==
  ASSUME IsAst(Exp)
  PROVE  Exp = Leaves \union Calls \union Binops \union Unops
BY DEF IsAst, Nodes, Leaves, Calls, Binops, Unops

LEMMA LeafShape ==
  ASSUME IsAst(Exp), NEW e \in Leaves
  PROVE  /\ e \in Exp /\ e.kind \notin {"BinopExp", "UnopExp", "CallExp"}
         /\ \/ e.kind \in {"IntExp", "StringExp"}
            \/ e.kind = "VarExp" /\ e.name \in VarNames /\ e.var_info \in {nullopt} \union Type
<1>1. e \in Exp
  BY Kinds
<1>2. QED
  BY <1>1 DEF Leaves

LEMMA BinopShape ==
  ASSUME IsAst(Exp), NEW e \in Binops
  PROVE  /\ e \in Exp /\ e.kind = "BinopExp" /\ e.lhs \in Exp /\ e.rhs \in Exp
         /\ e.lhs \in Children(e) /\ e.rhs \in Children(e)
<1>1. e \in Exp
  BY Kinds
<1>2. QED
  BY <1>1 DEF Binops, Children

LEMMA UnopShape ==
  ASSUME IsAst(Exp), NEW e \in Unops
  PROVE  e \in Exp /\ e.kind = "UnopExp" /\ e.e \in Exp /\ e.e \in Children(e)
<1>1. e \in Exp
  BY Kinds
<1>2. QED
  BY <1>1 DEF Unops, Children

LEMMA CallShape ==
  ASSUME IsAst(Exp), NEW e \in Calls
  PROVE  /\ e \in Exp /\ e.kind = "CallExp" /\ e.name \in FunNames /\ e.fun_info \in {nullopt} \union FunInfo
         /\ Len(e.args) \in Nat /\ DOMAIN e.args = 1 .. Len(e.args) /\ e.args \in Seq(Exp)
         /\ \A i \in 1 .. Len(e.args) : e.args[i] \in Exp /\ e.args[i] \in Children(e)
<1>1. e \in Exp
  BY Kinds
<1>2. e.kind = "CallExp" /\ e.args \in Seq(Exp)
  BY DEF Calls
<1>3. \A i \in 1 .. Len(e.args) : e.args[i] \in Exp /\ e.args[i] \in Children(e)
  BY <1>2 DEF Children
<1>4. QED
  BY <1>1, <1>2, <1>3 DEF Calls

LEMMA ChildrenInside ==
  ASSUME IsAst(Exp), NEW e \in Exp
  PROVE  Children(e) \subseteq Exp
<1>1. CASE e \in Leaves
  <2>1. e.kind # "BinopExp" /\ e.kind # "UnopExp" /\ e.kind # "CallExp"
    BY <1>1, LeafShape
  <2>2. Children(e) = {}
    BY <2>1, Zenon DEF Children
  <2>3. QED
    BY <2>2
<1>2. CASE e \in Calls
  BY <1>2, CallShape DEF Children
<1>3. CASE e \in Binops
  BY <1>3, BinopShape DEF Children
<1>4. CASE e \in Unops
  BY <1>4, UnopShape DEF Children
<1>5. QED
  BY <1>1, <1>2, <1>3, <1>4, Kinds

(* What holds of an expression whenever it holds of its children holds of  *)
(* every expression.                                                       *)
LEMMA ExpInduction ==
  ASSUME IsAst(Exp), NEW A, \A e \in Exp : Children(e) \subseteq A => e \in A
  PROVE  \A e \in Exp : e \in A
<1>1. PICK rank \in [Exp -> Nat] : Falls(Exp, rank)
  BY DEF IsAst, Falls
<1>2. ASSUME NEW e \in Exp, \A y \in Exp : rank[y] < rank[e] => y \in A PROVE e \in A
  <2>1. \A c \in Children(e) : c \in Exp /\ rank[c] < rank[e]
    BY <1>1, ChildrenInside DEF Falls
  <2>2. QED
    BY <1>2, <2>1
<1>3. Exp \subseteq A
  BY <1>2, RankInduction
<1>4. QED
  BY <1>3

(* A definition that looks only at the children defines a function.        *)
Local(step, V) ==
  \A e \in Exp : \A f, g \in [Exp -> V] :
    (\A c \in Children(e) : f[c] = g[c]) => step[e][f] = step[e][g]

LEMMA ExpRecursion ==
  ASSUME IsAst(Exp), NEW V, V # {}, NEW step \in [Exp -> [[Exp -> V] -> V]], Local(step, V)
  PROVE  \E h \in [Exp -> V] : Defines(h, Exp, step)
<1>1. PICK rank \in [Exp -> Nat] : Falls(Exp, rank)
  BY DEF IsAst, Falls
<1>2. ASSUME NEW e \in Exp, NEW f \in [Exp -> V], NEW g \in [Exp -> V],
             \A y \in Exp : rank[y] < rank[e] => f[y] = g[y]
      PROVE  step[e][f] = step[e][g]
  <2>1. \A c \in Children(e) : c \in Exp /\ rank[c] < rank[e]
    BY <1>1, ChildrenInside DEF Falls
  <2>2. \A c \in Children(e) : f[c] = g[c]
    BY <1>2, <2>1
  <2>3. QED
    BY <2>2 DEF Local
<1>3. Looks(Exp, rank, V, step)
  BY <1>2 DEF Looks
<1>4. QED
  BY <1>3, RankRecursion

-----------------------------------------------------------------------------
(* Each definition by cases over the kinds of expressions, with the        *)
(* function it defines as a parameter.                                     *)
Each(f, es) == [i \in DOMAIN es |-> f[es[i]]]

LEMMA EachType ==
  ASSUME IsAst(Exp), NEW e \in Calls, NEW V, NEW f, \A c \in Children(e) : f[c] \in V
  PROVE  Each(f, e.args) \in [1 .. Len(e.args) -> V]
<1>1. DOMAIN e.args = 1 .. Len(e.args) /\ \A i \in DOMAIN e.args : f[e.args[i]] \in V
  BY CallShape
<1>2. QED
  BY <1>1 DEF Each

LEMMA EachLocal ==
  ASSUME IsAst(Exp), NEW e \in Calls, NEW f, NEW g, \A c \in Children(e) : f[c] = g[c]
  PROVE  Each(f, e.args) = Each(g, e.args)
<1>1. \A i \in DOMAIN e.args : f[e.args[i]] = g[e.args[i]]
  BY CallShape
<1>2. QED
  BY <1>1 DEF Each

LEMMA ByInduction ==
  ASSUME IsAst(Exp), NEW V, NEW h, \A e \in Exp : (\A c \in Children(e) : h[c] \in V) => h[e] \in V
  PROVE  \A e \in Exp : h[e] \in V
<1> DEFINE A == {e \in Exp : h[e] \in V}
<1>1. ASSUME NEW e \in Exp, Children(e) \subseteq A PROVE e \in A
  BY <1>1
<1> HIDE DEF A
<1>2. \A e \in Exp : e \in A
  BY <1>1, ExpInduction
<1>3. QED
  BY <1>2 DEF A

-----------------------------------------------------------------------------
(* Values of the five, and the loops over arguments.                       *)
Resolutions == [exp : Exp, throws : BOOLEAN]
Walks       == [value_type : Type \union {"throws", "terminates"}, visits : Nat]
LoopWalks   == [value_type : {"void", "throws", "terminates"}, visits : Nat]

LEMMA TurnType ==
  ASSUME NEW before \in LoopWalks, NEW w \in Walks, NEW param
  PROVE  Turn(before, w, param) \in LoopWalks
BY DEF Turn, LoopWalks, Walks, Walk, Ends

LEMMA TurnsDef ==
  ASSUME NEW params \in Seq(Type), NEW ws \in [1 .. Len(params) -> Walks]
  PROVE  /\ Turns(ws, params)[0] = Walk("void", 0)
         /\ \A k \in 1 .. Len(params) :
              Turns(ws, params)[k] = Turn(Turns(ws, params)[k - 1], ws[k], params[k])
         /\ \A k \in 0 .. Len(params) : Turns(ws, params)[k] \in LoopWalks
<1> DEFINE n == Len(params)
           step == [k \in 1 .. n |-> [b \in LoopWalks |-> Turn(b, ws[k], params[k])]]
           Fits(h) == h = [m \in 0 .. n |-> IF m = 0 THEN Walk("void", 0) ELSE Turn(h[m - 1], ws[m], params[m])]
<1>1. n \in Nat
  OBVIOUS
<1>2. step \in [1 .. n -> [LoopWalks -> LoopWalks]]
  BY TurnType
<1>3. \A k \in 1 .. n : \A b \in LoopWalks : step[k][b] = Turn(b, ws[k], params[k])
  OBVIOUS
<1>4. Walk("void", 0) \in LoopWalks
  BY DEF Walk, LoopWalks
<1> HIDE DEF step
<1>5. PICK h \in [0 .. n -> LoopWalks] : Repeats(h, n, Walk("void", 0), step)
  <2> HIDE DEF n
  <2> QED BY <1>1, <1>2, <1>4, PrefixRecursion
<1>6. h[0] = Walk("void", 0) /\ \A k \in 1 .. n : h[k] = Turn(h[k - 1], ws[k], params[k])
  BY <1>1, <1>3, <1>5 DEF Repeats
<1>7. Fits(h)
  BY <1>1, <1>5, <1>6
<1>8. Fits(Turns(ws, params))
  BY <1>7, Zenon DEF Turns
<1> DEFINE t == Turns(ws, params)
<1>9. t[0] = Walk("void", 0) /\ \A k \in 1 .. n : t[k] = Turn(t[k - 1], ws[k], params[k])
  BY <1>1, <1>8
<1> HIDE DEF t, Fits
<1>10. \A k \in 0 .. n : t[k] \in LoopWalks
  <2> DEFINE A == {k \in Nat : k <= n => t[k] \in LoopWalks}
  <2>1. 0 \in A
    BY <1>4, <1>9
  <2>2. ASSUME NEW k \in Nat, k \in A PROVE k + 1 \in A
    <3> SUFFICES ASSUME k + 1 <= n PROVE t[k + 1] \in LoopWalks
      OBVIOUS
    <3>1. t[k] \in LoopWalks /\ ws[k + 1] \in Walks /\ (k + 1) - 1 = k /\ k + 1 \in 1 .. n
      BY <1>1, <2>2
    <3>2. t[k + 1] = Turn(t[k], ws[k + 1], params[k + 1])
      BY <1>9, <3>1
    <3>3. QED
      BY <3>1, <3>2, TurnType
  <2> HIDE DEF A
  <2>3. \A k \in Nat : k \in A
    BY <2>1, <2>2, NaturalInduction
  <2>4. QED
    BY <1>1, <2>3 DEF A
<1>11. QED
  BY <1>9, <1>10 DEF t

LEMMA SumsDef ==
  ASSUME NEW n \in Nat, NEW ns \in [1 .. n -> Nat]
  PROVE  /\ Sums(ns, n)[0] = 0
         /\ \A k \in 1 .. n : Sums(ns, n)[k] = Sums(ns, n)[k - 1] + ns[k]
         /\ \A k \in 0 .. n : Sums(ns, n)[k] \in Nat
<1> DEFINE step == [k \in 1 .. n |-> [b \in Nat |-> b + ns[k]]]
           Fits(h) == h = [m \in 0 .. n |-> IF m = 0 THEN 0 ELSE h[m - 1] + ns[m]]
<1>1. step \in [1 .. n -> [Nat -> Nat]]
  OBVIOUS
<1>2. \A k \in 1 .. n : \A b \in Nat : step[k][b] = b + ns[k]
  OBVIOUS
<1> HIDE DEF step
<1>3. PICK h \in [0 .. n -> Nat] : Repeats(h, n, 0, step)
  BY <1>1, PrefixRecursion
<1>4. h[0] = 0 /\ \A k \in 1 .. n : h[k] = h[k - 1] + ns[k]
  <2>1. \A k \in 1 .. n : h[k - 1] \in Nat
    BY <1>3
  <2>2. QED
    BY <1>2, <1>3, <2>1 DEF Repeats
<1>5. Fits(h)
  BY <1>3, <1>4
<1>6. Fits(Sums(ns, n))
  BY <1>5, Zenon DEF Sums
<1> DEFINE t == Sums(ns, n)
<1>7. t[0] = 0 /\ \A k \in 1 .. n : t[k] = t[k - 1] + ns[k]
  BY <1>6
<1> HIDE DEF t, Fits
<1>8. \A k \in 0 .. n : t[k] \in Nat
  <2> DEFINE A == {k \in Nat : k <= n => t[k] \in Nat}
  <2>1. 0 \in A
    BY <1>7
  <2>2. ASSUME NEW k \in Nat, k \in A PROVE k + 1 \in A
    <3> SUFFICES ASSUME k + 1 <= n PROVE t[k + 1] \in Nat
      OBVIOUS
    <3>1. t[k] \in Nat /\ ns[k + 1] \in Nat /\ (k + 1) - 1 = k /\ k + 1 \in 1 .. n
      BY <2>2
    <3>2. t[k + 1] = t[k] + ns[k + 1]
      BY <1>7, <3>1
    <3>3. QED
      BY <3>1, <3>2
  <2> HIDE DEF A
  <2>3. \A k \in Nat : k \in A
    BY <2>1, <2>2, NaturalInduction
  <2>4. QED
    BY <2>3 DEF A
<1>9. QED
  BY <1>7, <1>8 DEF t

LEMMA DeclaredTypes ==
  /\ \A x \in DOMAIN Vars : x \in VarNames /\ Vars[x] \in Type
  /\ \A f \in DOMAIN Funs : /\ f \in FunNames /\ Funs[f] \in FunInfo
                            /\ Funs[f].ret_type \in Type /\ Funs[f].params \in Seq(Type)
BY DeclarationsAssumption DEF FunInfo

LEMMA ResolveTypes ==
  ASSUME IsAst(Exp)
  PROVE  /\ \A e \in Leaves : ResolveLeaf(e) \in Resolutions
         /\ \A e \in Binops : \A l, r \in Resolutions : ResolveBinop(e, l, r) \in Resolutions
         /\ \A e \in Unops : \A x \in Resolutions : ResolveUnop(e, x) \in Resolutions
         /\ \A e \in Calls : \A as \in [1 .. Len(e.args) -> Resolutions] : ResolveCall(e, as) \in Resolutions
<1>1. \A e \in Exp : Resolved(e) \in Resolutions /\ Unknown(e) \in Resolutions
  BY DEF Resolved, Unknown, Resolutions
<1>2. ASSUME NEW e \in Leaves PROVE ResolveLeaf(e) \in Resolutions
  <2>1. e \in Exp
    BY LeafShape
  <2>2. ASSUME e.kind = "VarExp", e.name \in DOMAIN Vars
        PROVE  [e EXCEPT !.var_info = Vars[e.name]] \in Exp
    <3>1. e \in [kind : {"VarExp"}, name : VarNames, var_info : {nullopt} \union Type]
      BY <2>2 DEF Leaves
    <3>2. Vars[e.name] \in Type
      BY <2>2, DeclaredTypes
    <3>3. [e EXCEPT !.var_info = Vars[e.name]] \in Leaves
      BY <3>1, <3>2 DEF Leaves
    <3>4. QED
      BY <3>3, Kinds
  <2>3. QED
    BY <1>1, <2>1, <2>2 DEF ResolveLeaf, ResolveVar
<1>3. ASSUME NEW e \in Binops, NEW l \in Resolutions, NEW r \in Resolutions
      PROVE  ResolveBinop(e, l, r) \in Resolutions
  <2>1. [kind |-> "BinopExp", lhs |-> l.exp, rhs |-> r.exp] \in Binops
    BY DEF Binops, Resolutions
  <2>2. [kind |-> "BinopExp", lhs |-> l.exp, rhs |-> r.exp] \in Exp /\ e \in Exp
    BY <2>1, Kinds
  <2>3. QED
    BY <1>1, <2>2 DEF ResolveBinop
<1>4. ASSUME NEW e \in Unops, NEW x \in Resolutions PROVE ResolveUnop(e, x) \in Resolutions
  <2>1. [e EXCEPT !.e = x.exp] \in Unops
    BY DEF Unops, Resolutions
  <2>2. [e EXCEPT !.e = x.exp] \in Exp /\ e \in Exp
    BY <2>1, Kinds
  <2>3. QED
    BY <1>1, <2>2 DEF ResolveUnop
<1>5. ASSUME NEW e \in Calls, NEW as \in [1 .. Len(e.args) -> Resolutions]
      PROVE  ResolveCall(e, as) \in Resolutions
  <2> DEFINE es == [i \in DOMAIN e.args |-> as[i].exp]
  <2>1. e \in Exp /\ e.name \in FunNames /\ Len(e.args) \in Nat /\ DOMAIN e.args = 1 .. Len(e.args)
    BY CallShape
  <2>2. \A i \in 1 .. Len(e.args) : as[i].exp \in Exp
    BY DEF Resolutions
  <2>3. es \in Seq(Exp)
    <3>1. es = [i \in 1 .. Len(e.args) |-> as[i].exp]
      BY <2>1
    <3>2. \A n \in Nat : \A f \in [1 .. n -> Exp] : f \in Seq(Exp)
      OBVIOUS
    <3>3. QED
      BY <2>1, <2>2, <3>1, <3>2
  <2>4. ASSUME e.name \in DOMAIN Funs PROVE CallTo(e.name, Funs[e.name], es) \in Exp
    <3>1. Funs[e.name] \in FunInfo
      BY <2>4, DeclaredTypes
    <3> HIDE DEF es
    <3>2. CallTo(e.name, Funs[e.name], es) \in Calls
      BY <2>1, <2>3, <3>1 DEF CallTo, Calls
    <3>3. QED
      BY <3>2, Kinds
  <2>5. QED
    BY <1>1, <2>1, <2>4 DEF ResolveCall
<1>6. QED
  BY <1>2, <1>3, <1>4, <1>5

LEMMA VisitTypes ==
  ASSUME IsAst(Exp)
  PROVE  /\ \A e \in Leaves : VisitLeaf(e) \in Walks
         /\ \A l, r \in Walks : VisitBinop(l, r) \in Walks
         /\ \A w \in Walks : VisitUnop(w) \in Walks
         /\ \A e \in Calls : \A ws \in [1 .. Len(e.args) -> Walks] : VisitCall(e, ws) \in Walks
<1>1. ASSUME NEW e \in Leaves PROVE VisitLeaf(e) \in Walks
  <2>1. CASE e.kind = "VarExp"
    <3>1. e.var_info \in {nullopt} \union Type
      BY <2>1, LeafShape
    <3>2. VisitLeaf(e) = Walk(IF e.var_info = nullopt THEN "terminates" ELSE e.var_info, 1)
      BY <2>1 DEF VisitLeaf
    <3>3. QED
      BY <3>1, <3>2 DEF Walk, Walks
  <2>2. CASE e.kind = "IntExp"
    BY <2>2, TypeAssumption DEF VisitLeaf, Walk, Walks
  <2>3. CASE e.kind = "StringExp"
    BY <2>3, TypeAssumption DEF VisitLeaf, Walk, Walks
  <2>4. QED
    BY <2>1, <2>2, <2>3, LeafShape
<1>2. ASSUME NEW l \in Walks, NEW r \in Walks PROVE VisitBinop(l, r) \in Walks
  BY TypeAssumption DEF VisitBinop, Walks, Walk, Ends
<1>3. ASSUME NEW w \in Walks PROVE VisitUnop(w) \in Walks
  BY TypeAssumption DEF VisitUnop, Walks, Walk, Ends
<1>4. ASSUME NEW e \in Calls, NEW ws \in [1 .. Len(e.args) -> Walks] PROVE VisitCall(e, ws) \in Walks
  <2>1. CASE e.fun_info = nullopt
    BY <2>1 DEF VisitCall, Walk, Walks
  <2>2. CASE e.fun_info # nullopt
    <3> DEFINE params == e.fun_info.params
               first  == FirstLoop(ws, params)
    <3>1. e.fun_info.ret_type \in Type /\ params \in Seq(Type)
      BY <2>2, CallShape DEF FunInfo
    <3>2. CASE Len(e.args) # Len(params)
      BY <2>2, <3>2 DEF VisitCall, CallWalk, Walk, Walks
    <3>3. CASE Len(e.args) = Len(params)
      <4>1. Len(params) \in 0 .. Len(params)
        BY <3>1
      <4>2. first \in LoopWalks
        BY <3>1, <3>3, <4>1, TurnsDef DEF FirstLoop
      <4>3. VisitCall(e, ws) = IF Ends(first) THEN Walk(first.value_type, 1 + first.visits)
                               ELSE Walk(e.fun_info.ret_type, 1 + 2 * first.visits)
        BY <2>2, <3>3 DEF VisitCall, CallWalk
      <4> HIDE DEF first
      <4>4. QED
        BY <3>1, <4>2, <4>3 DEF LoopWalks, Walks, Walk, Ends
    <3>4. QED
      BY <3>2, <3>3
  <2>3. QED
    BY <2>1, <2>2
<1>5. QED
  BY <1>1, <1>2, <1>3, <1>4

LEMMA CallTypesType ==
  ASSUME NEW e, NEW ts
  PROVE  CallTypes(e, ts) \in SUBSET Type
BY DeclaredTypes DEF CallTypes

LEMMA SumType ==
  ASSUME NEW n \in Nat, NEW ns \in [1 .. n -> Nat]
  PROVE  Sum(ns, n) \in Nat
BY SumsDef DEF Sum

LEMMA LeafTypesType ==
  ASSUME IsAst(Exp), NEW e \in Leaves
  PROVE  LeafTypes(e) \in SUBSET Type
<1>1. CASE e.kind = "VarExp"
  <2>1. LeafTypes(e) = {Vars[x] : x \in {e.name} \cap DOMAIN Vars}
    BY <1>1 DEF LeafTypes
  <2>2. QED
    BY <2>1, DeclaredTypes
<1>2. CASE e.kind = "IntExp"
  BY <1>2, TypeAssumption DEF LeafTypes
<1>3. CASE e.kind = "StringExp"
  BY <1>3, TypeAssumption DEF LeafTypes
<1>4. QED
  BY <1>1, <1>2, <1>3, LeafShape

-----------------------------------------------------------------------------
(* Declared, Resolve, TypecheckExp, TypesOf and Doubled at each kind of    *)
(* expression.                                                             *)
DeclaredCall(e, ds) == e.name \in DOMAIN Funs /\ \A i \in DOMAIN e.args : ds[i]
DeclaredLeaf(e) == e.kind = "VarExp" => e.name \in DOMAIN Vars

DeclaredAt(e, f) ==
  CASE e.kind = "BinopExp" -> f[e.lhs] /\ f[e.rhs]
    [] e.kind = "UnopExp"  -> f[e.e]
    [] e.kind = "CallExp"  -> e.name \in DOMAIN Funs /\ \A i \in DOMAIN e.args : f[e.args[i]]
    [] OTHER               -> e.kind = "VarExp" => e.name \in DOMAIN Vars

LEMMA DeclaredAtCases ==
  ASSUME IsAst(Exp), NEW f
  PROVE  /\ \A e \in Binops : DeclaredAt(e, f) = (f[e.lhs] /\ f[e.rhs])
         /\ \A e \in Unops : DeclaredAt(e, f) = f[e.e]
         /\ \A e \in Calls : DeclaredAt(e, f) = DeclaredCall(e, Each(f, e.args))
         /\ \A e \in Leaves : DeclaredAt(e, f) = DeclaredLeaf(e)
<1>1. ASSUME NEW e \in Binops PROVE DeclaredAt(e, f) = (f[e.lhs] /\ f[e.rhs])
  <2>1. e.kind = "BinopExp"
    BY BinopShape
  <2>2. QED
    BY <2>1, Zenon DEF DeclaredAt
<1>2. ASSUME NEW e \in Unops PROVE DeclaredAt(e, f) = f[e.e]
  <2>1. e.kind = "UnopExp" /\ e.kind # "BinopExp"
    BY UnopShape
  <2>2. QED
    BY <2>1, Zenon DEF DeclaredAt
<1>3. ASSUME NEW e \in Calls PROVE DeclaredAt(e, f) = DeclaredCall(e, Each(f, e.args))
  <2>1. e.kind = "CallExp" /\ e.kind # "BinopExp" /\ e.kind # "UnopExp"
    BY CallShape
  <2>2. QED
    BY <2>1, Zenon DEF DeclaredAt, Each, DeclaredCall
<1>4. ASSUME NEW e \in Leaves PROVE DeclaredAt(e, f) = DeclaredLeaf(e)
  <2>1. e.kind # "BinopExp" /\ e.kind # "UnopExp" /\ e.kind # "CallExp"
    BY LeafShape
  <2>2. QED
    BY <2>1, Zenon DEF DeclaredAt, DeclaredLeaf
<1>5. QED
  BY <1>1, <1>2, <1>3, <1>4

LEMMA DeclaredAtType ==
  ASSUME IsAst(Exp), NEW e \in Exp, NEW f, \A c \in Children(e) : f[c] \in BOOLEAN
  PROVE  DeclaredAt(e, f) \in BOOLEAN
<1>1. CASE e \in Binops
  <2>1. f[e.lhs] \in BOOLEAN /\ f[e.rhs] \in BOOLEAN
    BY <1>1, BinopShape
  <2>2. (f[e.lhs] /\ f[e.rhs]) \in BOOLEAN
    BY <1>1, <2>1
  <2>3. QED
    BY <1>1, <2>2, DeclaredAtCases
<1>2. CASE e \in Unops
  <2>1. f[e.e] \in BOOLEAN
    BY <1>2, UnopShape
  <2>2. f[e.e] \in BOOLEAN
    BY <1>2, <2>1
  <2>3. QED
    BY <1>2, <2>2, DeclaredAtCases
<1>3. CASE e \in Calls
  <2>1. Each(f, e.args) \in [1 .. Len(e.args) -> BOOLEAN]
    BY <1>3, EachType
  <2>2. DeclaredCall(e, Each(f, e.args)) \in BOOLEAN
    BY <1>3, <2>1 DEF DeclaredCall
  <2>3. QED
    BY <1>3, <2>2, DeclaredAtCases
<1>4. CASE e \in Leaves
  <2>1. DeclaredLeaf(e) \in BOOLEAN
    BY <1>4 DEF DeclaredLeaf
  <2>2. QED
    BY <1>4, <2>1, DeclaredAtCases
<1>5. QED
  BY <1>1, <1>2, <1>3, <1>4, Kinds

LEMMA DeclaredAtLocal ==
  ASSUME IsAst(Exp), NEW e \in Exp, NEW f, NEW g, \A c \in Children(e) : f[c] = g[c]
  PROVE  DeclaredAt(e, f) = DeclaredAt(e, g)
<1>1. CASE e \in Binops
  <2>1. f[e.lhs] = g[e.lhs] /\ f[e.rhs] = g[e.rhs]
    BY <1>1, BinopShape
  <2>2. QED
    BY <1>1, <2>1, DeclaredAtCases
<1>2. CASE e \in Unops
  <2>1. f[e.e] = g[e.e]
    BY <1>2, UnopShape
  <2>2. QED
    BY <1>2, <2>1, DeclaredAtCases
<1>3. CASE e \in Calls
  <2>1. Each(f, e.args) = Each(g, e.args)
    BY <1>3, EachLocal
  <2>2. DeclaredAt(e, f) = DeclaredCall(e, Each(f, e.args)) /\ DeclaredAt(e, g) = DeclaredCall(e, Each(g, e.args))
    BY <1>3, DeclaredAtCases
  <2>3. QED
    BY <2>1, <2>2
<1>4. CASE e \in Leaves
  BY <1>4, DeclaredAtCases
<1>5. QED
  BY <1>1, <1>2, <1>3, <1>4, Kinds

LEMMA DeclaredDef ==
  ASSUME IsAst(Exp)
  PROVE  Declared = [e \in Exp |-> DeclaredAt(e, Declared)]
<1> DEFINE step == [e \in Exp |-> [f \in [Exp -> BOOLEAN] |-> DeclaredAt(e, f)]]
<1>1. ASSUME NEW e \in Exp, NEW f \in [Exp -> BOOLEAN] PROVE DeclaredAt(e, f) \in BOOLEAN
  <2>1. \A c \in Children(e) : f[c] \in BOOLEAN
    BY ChildrenInside
  <2>2. QED
    BY <2>1, DeclaredAtType
<1>2. step \in [Exp -> [[Exp -> BOOLEAN] -> BOOLEAN]]
  BY <1>1
<1>3. \A e \in Exp : \A f \in [Exp -> BOOLEAN] : step[e][f] = DeclaredAt(e, f)
  OBVIOUS
<1> HIDE DEF step
<1>4. Local(step, BOOLEAN)
  <2> SUFFICES ASSUME NEW e \in Exp, NEW f \in [Exp -> BOOLEAN], NEW g \in [Exp -> BOOLEAN],
                      \A c \in Children(e) : f[c] = g[c]
               PROVE  step[e][f] = step[e][g]
    BY DEF Local
  <2>1. DeclaredAt(e, f) = DeclaredAt(e, g)
    BY DeclaredAtLocal
  <2>2. QED
    BY <1>3, <2>1
<1>5. BOOLEAN # {}
  OBVIOUS
<1>6. PICK h \in [Exp -> BOOLEAN] : Defines(h, Exp, step)
  BY <1>2, <1>4, <1>5, ExpRecursion
<1>7. h = [e \in Exp |-> DeclaredAt(e, h)]
  BY <1>3, <1>6 DEF Defines
<1>8. QED
  BY <1>7, Zenon DEF Declared, DeclaredAt

LEMMA DeclaredCases ==
  ASSUME IsAst(Exp)
  PROVE  /\ \A e \in Binops : Declared[e] = (Declared[e.lhs] /\ Declared[e.rhs])
         /\ \A e \in Unops : Declared[e] = Declared[e.e]
         /\ \A e \in Calls : Declared[e] = DeclaredCall(e, Each(Declared, e.args))
         /\ \A e \in Leaves : Declared[e] = DeclaredLeaf(e)
         /\ \A e \in Exp : Declared[e] \in BOOLEAN
<1>1. \A e \in Exp : Declared[e] = DeclaredAt(e, Declared)
  BY DeclaredDef
<1>2. ASSUME NEW e \in Exp, \A c \in Children(e) : Declared[c] \in BOOLEAN PROVE Declared[e] \in BOOLEAN
  BY <1>1, <1>2, DeclaredAtType
<1>3. \A e \in Exp : Declared[e] \in BOOLEAN
  BY <1>2, ByInduction
<1>4. Binops \subseteq Exp /\ Unops \subseteq Exp /\ Calls \subseteq Exp /\ Leaves \subseteq Exp
  BY Kinds
<1>5. QED
  BY <1>1, <1>3, <1>4, DeclaredAtCases

ResolveAt(e, f) ==
  CASE e.kind = "BinopExp" -> ResolveBinop(e, f[e.lhs], f[e.rhs])
    [] e.kind = "UnopExp"  -> ResolveUnop(e, f[e.e])
    [] e.kind = "CallExp"  -> ResolveCall(e, [i \in DOMAIN e.args |-> f[e.args[i]]])
    [] OTHER               -> ResolveLeaf(e)

LEMMA ResolveAtCases ==
  ASSUME IsAst(Exp), NEW f
  PROVE  /\ \A e \in Binops : ResolveAt(e, f) = ResolveBinop(e, f[e.lhs], f[e.rhs])
         /\ \A e \in Unops : ResolveAt(e, f) = ResolveUnop(e, f[e.e])
         /\ \A e \in Calls : ResolveAt(e, f) = ResolveCall(e, Each(f, e.args))
         /\ \A e \in Leaves : ResolveAt(e, f) = ResolveLeaf(e)
<1>1. ASSUME NEW e \in Binops PROVE ResolveAt(e, f) = ResolveBinop(e, f[e.lhs], f[e.rhs])
  <2>1. e.kind = "BinopExp"
    BY BinopShape
  <2>2. QED
    BY <2>1, Zenon DEF ResolveAt
<1>2. ASSUME NEW e \in Unops PROVE ResolveAt(e, f) = ResolveUnop(e, f[e.e])
  <2>1. e.kind = "UnopExp" /\ e.kind # "BinopExp"
    BY UnopShape
  <2>2. QED
    BY <2>1, Zenon DEF ResolveAt
<1>3. ASSUME NEW e \in Calls PROVE ResolveAt(e, f) = ResolveCall(e, Each(f, e.args))
  <2>1. e.kind = "CallExp" /\ e.kind # "BinopExp" /\ e.kind # "UnopExp"
    BY CallShape
  <2>2. QED
    BY <2>1, Zenon DEF ResolveAt, Each
<1>4. ASSUME NEW e \in Leaves PROVE ResolveAt(e, f) = ResolveLeaf(e)
  <2>1. e.kind # "BinopExp" /\ e.kind # "UnopExp" /\ e.kind # "CallExp"
    BY LeafShape
  <2>2. QED
    BY <2>1, Zenon DEF ResolveAt
<1>5. QED
  BY <1>1, <1>2, <1>3, <1>4

LEMMA ResolveAtType ==
  ASSUME IsAst(Exp), NEW e \in Exp, NEW f, \A c \in Children(e) : f[c] \in Resolutions
  PROVE  ResolveAt(e, f) \in Resolutions
<1>1. CASE e \in Binops
  <2>1. f[e.lhs] \in Resolutions /\ f[e.rhs] \in Resolutions
    BY <1>1, BinopShape
  <2>2. ResolveBinop(e, f[e.lhs], f[e.rhs]) \in Resolutions
    BY <1>1, <2>1, ResolveTypes
  <2>3. QED
    BY <1>1, <2>2, ResolveAtCases
<1>2. CASE e \in Unops
  <2>1. f[e.e] \in Resolutions
    BY <1>2, UnopShape
  <2>2. ResolveUnop(e, f[e.e]) \in Resolutions
    BY <1>2, <2>1, ResolveTypes
  <2>3. QED
    BY <1>2, <2>2, ResolveAtCases
<1>3. CASE e \in Calls
  <2>1. Each(f, e.args) \in [1 .. Len(e.args) -> Resolutions]
    BY <1>3, EachType
  <2>2. ResolveCall(e, Each(f, e.args)) \in Resolutions
    BY <1>3, <2>1, ResolveTypes
  <2>3. QED
    BY <1>3, <2>2, ResolveAtCases
<1>4. CASE e \in Leaves
  <2>1. ResolveLeaf(e) \in Resolutions
    BY <1>4, ResolveTypes
  <2>2. QED
    BY <1>4, <2>1, ResolveAtCases
<1>5. QED
  BY <1>1, <1>2, <1>3, <1>4, Kinds

LEMMA ResolveAtLocal ==
  ASSUME IsAst(Exp), NEW e \in Exp, NEW f, NEW g, \A c \in Children(e) : f[c] = g[c]
  PROVE  ResolveAt(e, f) = ResolveAt(e, g)
<1>1. CASE e \in Binops
  <2>1. f[e.lhs] = g[e.lhs] /\ f[e.rhs] = g[e.rhs]
    BY <1>1, BinopShape
  <2>2. QED
    BY <1>1, <2>1, ResolveAtCases
<1>2. CASE e \in Unops
  <2>1. f[e.e] = g[e.e]
    BY <1>2, UnopShape
  <2>2. QED
    BY <1>2, <2>1, ResolveAtCases
<1>3. CASE e \in Calls
  <2>1. Each(f, e.args) = Each(g, e.args)
    BY <1>3, EachLocal
  <2>2. ResolveAt(e, f) = ResolveCall(e, Each(f, e.args)) /\ ResolveAt(e, g) = ResolveCall(e, Each(g, e.args))
    BY <1>3, ResolveAtCases
  <2>3. QED
    BY <2>1, <2>2
<1>4. CASE e \in Leaves
  BY <1>4, ResolveAtCases
<1>5. QED
  BY <1>1, <1>2, <1>3, <1>4, Kinds

LEMMA ResolveDef ==
  ASSUME IsAst(Exp)
  PROVE  Resolve = [e \in Exp |-> ResolveAt(e, Resolve)]
<1> DEFINE step == [e \in Exp |-> [f \in [Exp -> Resolutions] |-> ResolveAt(e, f)]]
<1>1. ASSUME NEW e \in Exp, NEW f \in [Exp -> Resolutions] PROVE ResolveAt(e, f) \in Resolutions
  <2>1. \A c \in Children(e) : f[c] \in Resolutions
    BY ChildrenInside
  <2>2. QED
    BY <2>1, ResolveAtType
<1>2. step \in [Exp -> [[Exp -> Resolutions] -> Resolutions]]
  BY <1>1
<1>3. \A e \in Exp : \A f \in [Exp -> Resolutions] : step[e][f] = ResolveAt(e, f)
  OBVIOUS
<1> HIDE DEF step
<1>4. Local(step, Resolutions)
  <2> SUFFICES ASSUME NEW e \in Exp, NEW f \in [Exp -> Resolutions], NEW g \in [Exp -> Resolutions],
                      \A c \in Children(e) : f[c] = g[c]
               PROVE  step[e][f] = step[e][g]
    BY DEF Local
  <2>1. ResolveAt(e, f) = ResolveAt(e, g)
    BY ResolveAtLocal
  <2>2. QED
    BY <1>3, <2>1
<1>5. Resolutions # {}
  <2>1. [kind |-> "IntExp"] \in Exp
    BY Kinds DEF Leaves
  <2>2. [exp |-> [kind |-> "IntExp"], throws |-> FALSE] \in Resolutions
    BY <2>1 DEF Resolutions
  <2>3. QED
    BY <2>2
<1>6. PICK h \in [Exp -> Resolutions] : Defines(h, Exp, step)
  BY <1>2, <1>4, <1>5, ExpRecursion
<1>7. h = [e \in Exp |-> ResolveAt(e, h)]
  BY <1>3, <1>6 DEF Defines
<1>8. QED
  BY <1>7, Zenon DEF Resolve, ResolveAt

LEMMA ResolveCases ==
  ASSUME IsAst(Exp)
  PROVE  /\ \A e \in Binops : Resolve[e] = ResolveBinop(e, Resolve[e.lhs], Resolve[e.rhs])
         /\ \A e \in Unops : Resolve[e] = ResolveUnop(e, Resolve[e.e])
         /\ \A e \in Calls : Resolve[e] = ResolveCall(e, Each(Resolve, e.args))
         /\ \A e \in Leaves : Resolve[e] = ResolveLeaf(e)
         /\ \A e \in Exp : Resolve[e] \in Resolutions
<1>1. \A e \in Exp : Resolve[e] = ResolveAt(e, Resolve)
  BY ResolveDef
<1>2. ASSUME NEW e \in Exp, \A c \in Children(e) : Resolve[c] \in Resolutions PROVE Resolve[e] \in Resolutions
  BY <1>1, <1>2, ResolveAtType
<1>3. \A e \in Exp : Resolve[e] \in Resolutions
  BY <1>2, ByInduction
<1>4. Binops \subseteq Exp /\ Unops \subseteq Exp /\ Calls \subseteq Exp /\ Leaves \subseteq Exp
  BY Kinds
<1>5. QED
  BY <1>1, <1>3, <1>4, ResolveAtCases

TypecheckExpAt(e, f) ==
  CASE e.kind = "BinopExp" -> VisitBinop(f[e.lhs], f[e.rhs])
    [] e.kind = "UnopExp"  -> VisitUnop(f[e.e])
    [] e.kind = "CallExp"  -> VisitCall(e, [i \in DOMAIN e.args |-> f[e.args[i]]])
    [] OTHER               -> VisitLeaf(e)

LEMMA TypecheckExpAtCases ==
  ASSUME IsAst(Exp), NEW f
  PROVE  /\ \A e \in Binops : TypecheckExpAt(e, f) = VisitBinop(f[e.lhs], f[e.rhs])
         /\ \A e \in Unops : TypecheckExpAt(e, f) = VisitUnop(f[e.e])
         /\ \A e \in Calls : TypecheckExpAt(e, f) = VisitCall(e, Each(f, e.args))
         /\ \A e \in Leaves : TypecheckExpAt(e, f) = VisitLeaf(e)
<1>1. ASSUME NEW e \in Binops PROVE TypecheckExpAt(e, f) = VisitBinop(f[e.lhs], f[e.rhs])
  <2>1. e.kind = "BinopExp"
    BY BinopShape
  <2>2. QED
    BY <2>1, Zenon DEF TypecheckExpAt
<1>2. ASSUME NEW e \in Unops PROVE TypecheckExpAt(e, f) = VisitUnop(f[e.e])
  <2>1. e.kind = "UnopExp" /\ e.kind # "BinopExp"
    BY UnopShape
  <2>2. QED
    BY <2>1, Zenon DEF TypecheckExpAt
<1>3. ASSUME NEW e \in Calls PROVE TypecheckExpAt(e, f) = VisitCall(e, Each(f, e.args))
  <2>1. e.kind = "CallExp" /\ e.kind # "BinopExp" /\ e.kind # "UnopExp"
    BY CallShape
  <2>2. QED
    BY <2>1, Zenon DEF TypecheckExpAt, Each
<1>4. ASSUME NEW e \in Leaves PROVE TypecheckExpAt(e, f) = VisitLeaf(e)
  <2>1. e.kind # "BinopExp" /\ e.kind # "UnopExp" /\ e.kind # "CallExp"
    BY LeafShape
  <2>2. QED
    BY <2>1, Zenon DEF TypecheckExpAt
<1>5. QED
  BY <1>1, <1>2, <1>3, <1>4

LEMMA TypecheckExpAtType ==
  ASSUME IsAst(Exp), NEW e \in Exp, NEW f, \A c \in Children(e) : f[c] \in Walks
  PROVE  TypecheckExpAt(e, f) \in Walks
<1>1. CASE e \in Binops
  <2>1. f[e.lhs] \in Walks /\ f[e.rhs] \in Walks
    BY <1>1, BinopShape
  <2>2. VisitBinop(f[e.lhs], f[e.rhs]) \in Walks
    BY <1>1, <2>1, VisitTypes
  <2>3. QED
    BY <1>1, <2>2, TypecheckExpAtCases
<1>2. CASE e \in Unops
  <2>1. f[e.e] \in Walks
    BY <1>2, UnopShape
  <2>2. VisitUnop(f[e.e]) \in Walks
    BY <1>2, <2>1, VisitTypes
  <2>3. QED
    BY <1>2, <2>2, TypecheckExpAtCases
<1>3. CASE e \in Calls
  <2>1. Each(f, e.args) \in [1 .. Len(e.args) -> Walks]
    BY <1>3, EachType
  <2>2. VisitCall(e, Each(f, e.args)) \in Walks
    BY <1>3, <2>1, VisitTypes
  <2>3. QED
    BY <1>3, <2>2, TypecheckExpAtCases
<1>4. CASE e \in Leaves
  <2>1. VisitLeaf(e) \in Walks
    BY <1>4, VisitTypes
  <2>2. QED
    BY <1>4, <2>1, TypecheckExpAtCases
<1>5. QED
  BY <1>1, <1>2, <1>3, <1>4, Kinds

LEMMA TypecheckExpAtLocal ==
  ASSUME IsAst(Exp), NEW e \in Exp, NEW f, NEW g, \A c \in Children(e) : f[c] = g[c]
  PROVE  TypecheckExpAt(e, f) = TypecheckExpAt(e, g)
<1>1. CASE e \in Binops
  <2>1. f[e.lhs] = g[e.lhs] /\ f[e.rhs] = g[e.rhs]
    BY <1>1, BinopShape
  <2>2. QED
    BY <1>1, <2>1, TypecheckExpAtCases
<1>2. CASE e \in Unops
  <2>1. f[e.e] = g[e.e]
    BY <1>2, UnopShape
  <2>2. QED
    BY <1>2, <2>1, TypecheckExpAtCases
<1>3. CASE e \in Calls
  <2>1. Each(f, e.args) = Each(g, e.args)
    BY <1>3, EachLocal
  <2>2. TypecheckExpAt(e, f) = VisitCall(e, Each(f, e.args)) /\ TypecheckExpAt(e, g) = VisitCall(e, Each(g, e.args))
    BY <1>3, TypecheckExpAtCases
  <2>3. QED
    BY <2>1, <2>2
<1>4. CASE e \in Leaves
  BY <1>4, TypecheckExpAtCases
<1>5. QED
  BY <1>1, <1>2, <1>3, <1>4, Kinds

LEMMA TypecheckExpDef ==
  ASSUME IsAst(Exp)
  PROVE  TypecheckExp = [e \in Exp |-> TypecheckExpAt(e, TypecheckExp)]
<1> DEFINE step == [e \in Exp |-> [f \in [Exp -> Walks] |-> TypecheckExpAt(e, f)]]
<1>1. ASSUME NEW e \in Exp, NEW f \in [Exp -> Walks] PROVE TypecheckExpAt(e, f) \in Walks
  <2>1. \A c \in Children(e) : f[c] \in Walks
    BY ChildrenInside
  <2>2. QED
    BY <2>1, TypecheckExpAtType
<1>2. step \in [Exp -> [[Exp -> Walks] -> Walks]]
  BY <1>1
<1>3. \A e \in Exp : \A f \in [Exp -> Walks] : step[e][f] = TypecheckExpAt(e, f)
  OBVIOUS
<1> HIDE DEF step
<1>4. Local(step, Walks)
  <2> SUFFICES ASSUME NEW e \in Exp, NEW f \in [Exp -> Walks], NEW g \in [Exp -> Walks],
                      \A c \in Children(e) : f[c] = g[c]
               PROVE  step[e][f] = step[e][g]
    BY DEF Local
  <2>1. TypecheckExpAt(e, f) = TypecheckExpAt(e, g)
    BY TypecheckExpAtLocal
  <2>2. QED
    BY <1>3, <2>1
<1>5. Walks # {}
  <2>1. Walk("throws", 0) \in Walks
    BY DEF Walk, Walks
  <2>2. QED
    BY <2>1
<1>6. PICK h \in [Exp -> Walks] : Defines(h, Exp, step)
  BY <1>2, <1>4, <1>5, ExpRecursion
<1>7. h = [e \in Exp |-> TypecheckExpAt(e, h)]
  BY <1>3, <1>6 DEF Defines
<1>8. QED
  BY <1>7, Zenon DEF TypecheckExp, TypecheckExpAt

LEMMA TypecheckExpCases ==
  ASSUME IsAst(Exp)
  PROVE  /\ \A e \in Binops : TypecheckExp[e] = VisitBinop(TypecheckExp[e.lhs], TypecheckExp[e.rhs])
         /\ \A e \in Unops : TypecheckExp[e] = VisitUnop(TypecheckExp[e.e])
         /\ \A e \in Calls : TypecheckExp[e] = VisitCall(e, Each(TypecheckExp, e.args))
         /\ \A e \in Leaves : TypecheckExp[e] = VisitLeaf(e)
         /\ \A e \in Exp : TypecheckExp[e] \in Walks
<1>1. \A e \in Exp : TypecheckExp[e] = TypecheckExpAt(e, TypecheckExp)
  BY TypecheckExpDef
<1>2. ASSUME NEW e \in Exp, \A c \in Children(e) : TypecheckExp[c] \in Walks PROVE TypecheckExp[e] \in Walks
  BY <1>1, <1>2, TypecheckExpAtType
<1>3. \A e \in Exp : TypecheckExp[e] \in Walks
  BY <1>2, ByInduction
<1>4. Binops \subseteq Exp /\ Unops \subseteq Exp /\ Calls \subseteq Exp /\ Leaves \subseteq Exp
  BY Kinds
<1>5. QED
  BY <1>1, <1>3, <1>4, TypecheckExpAtCases

TypesOfAt(e, f) ==
  CASE e.kind = "BinopExp" -> {"int"} \cap f[e.lhs] \cap f[e.rhs]
    [] e.kind = "UnopExp"  -> {"int"} \cap f[e.e]
    [] e.kind = "CallExp"  -> CallTypes(e, [i \in DOMAIN e.args |-> f[e.args[i]]])
    [] OTHER               -> LeafTypes(e)

LEMMA TypesOfAtCases ==
  ASSUME IsAst(Exp), NEW f
  PROVE  /\ \A e \in Binops : TypesOfAt(e, f) = ({"int"} \cap f[e.lhs] \cap f[e.rhs])
         /\ \A e \in Unops : TypesOfAt(e, f) = ({"int"} \cap f[e.e])
         /\ \A e \in Calls : TypesOfAt(e, f) = CallTypes(e, Each(f, e.args))
         /\ \A e \in Leaves : TypesOfAt(e, f) = LeafTypes(e)
<1>1. ASSUME NEW e \in Binops PROVE TypesOfAt(e, f) = ({"int"} \cap f[e.lhs] \cap f[e.rhs])
  <2>1. e.kind = "BinopExp"
    BY BinopShape
  <2>2. QED
    BY <2>1, Zenon DEF TypesOfAt
<1>2. ASSUME NEW e \in Unops PROVE TypesOfAt(e, f) = ({"int"} \cap f[e.e])
  <2>1. e.kind = "UnopExp" /\ e.kind # "BinopExp"
    BY UnopShape
  <2>2. QED
    BY <2>1, Zenon DEF TypesOfAt
<1>3. ASSUME NEW e \in Calls PROVE TypesOfAt(e, f) = CallTypes(e, Each(f, e.args))
  <2>1. e.kind = "CallExp" /\ e.kind # "BinopExp" /\ e.kind # "UnopExp"
    BY CallShape
  <2>2. QED
    BY <2>1, Zenon DEF TypesOfAt, Each
<1>4. ASSUME NEW e \in Leaves PROVE TypesOfAt(e, f) = LeafTypes(e)
  <2>1. e.kind # "BinopExp" /\ e.kind # "UnopExp" /\ e.kind # "CallExp"
    BY LeafShape
  <2>2. QED
    BY <2>1, Zenon DEF TypesOfAt
<1>5. QED
  BY <1>1, <1>2, <1>3, <1>4

LEMMA TypesOfAtType ==
  ASSUME IsAst(Exp), NEW e \in Exp, NEW f, \A c \in Children(e) : f[c] \in (SUBSET Type)
  PROVE  TypesOfAt(e, f) \in (SUBSET Type)
<1>1. CASE e \in Binops
  <2>1. f[e.lhs] \in (SUBSET Type) /\ f[e.rhs] \in (SUBSET Type)
    BY <1>1, BinopShape
  <2>2. ({"int"} \cap f[e.lhs] \cap f[e.rhs]) \in (SUBSET Type)
    BY <1>1, <2>1
  <2>3. QED
    BY <1>1, <2>2, TypesOfAtCases
<1>2. CASE e \in Unops
  <2>1. f[e.e] \in (SUBSET Type)
    BY <1>2, UnopShape
  <2>2. ({"int"} \cap f[e.e]) \in (SUBSET Type)
    BY <1>2, <2>1
  <2>3. QED
    BY <1>2, <2>2, TypesOfAtCases
<1>3. CASE e \in Calls
  <2>1. Each(f, e.args) \in [1 .. Len(e.args) -> (SUBSET Type)]
    BY <1>3, EachType
  <2>2. CallTypes(e, Each(f, e.args)) \in (SUBSET Type)
    BY <1>3, <2>1, CallTypesType
  <2>3. QED
    BY <1>3, <2>2, TypesOfAtCases
<1>4. CASE e \in Leaves
  <2>1. LeafTypes(e) \in (SUBSET Type)
    BY <1>4, LeafTypesType
  <2>2. QED
    BY <1>4, <2>1, TypesOfAtCases
<1>5. QED
  BY <1>1, <1>2, <1>3, <1>4, Kinds

LEMMA TypesOfAtLocal ==
  ASSUME IsAst(Exp), NEW e \in Exp, NEW f, NEW g, \A c \in Children(e) : f[c] = g[c]
  PROVE  TypesOfAt(e, f) = TypesOfAt(e, g)
<1>1. CASE e \in Binops
  <2>1. f[e.lhs] = g[e.lhs] /\ f[e.rhs] = g[e.rhs]
    BY <1>1, BinopShape
  <2>2. QED
    BY <1>1, <2>1, TypesOfAtCases
<1>2. CASE e \in Unops
  <2>1. f[e.e] = g[e.e]
    BY <1>2, UnopShape
  <2>2. QED
    BY <1>2, <2>1, TypesOfAtCases
<1>3. CASE e \in Calls
  <2>1. Each(f, e.args) = Each(g, e.args)
    BY <1>3, EachLocal
  <2>2. TypesOfAt(e, f) = CallTypes(e, Each(f, e.args)) /\ TypesOfAt(e, g) = CallTypes(e, Each(g, e.args))
    BY <1>3, TypesOfAtCases
  <2>3. QED
    BY <2>1, <2>2
<1>4. CASE e \in Leaves
  BY <1>4, TypesOfAtCases
<1>5. QED
  BY <1>1, <1>2, <1>3, <1>4, Kinds

LEMMA TypesOfDef ==
  ASSUME IsAst(Exp)
  PROVE  TypesOf = [e \in Exp |-> TypesOfAt(e, TypesOf)]
<1> DEFINE step == [e \in Exp |-> [f \in [Exp -> (SUBSET Type)] |-> TypesOfAt(e, f)]]
<1>1. ASSUME NEW e \in Exp, NEW f \in [Exp -> (SUBSET Type)] PROVE TypesOfAt(e, f) \in (SUBSET Type)
  <2>1. \A c \in Children(e) : f[c] \in (SUBSET Type)
    BY ChildrenInside
  <2>2. QED
    BY <2>1, TypesOfAtType
<1>2. step \in [Exp -> [[Exp -> (SUBSET Type)] -> (SUBSET Type)]]
  BY <1>1
<1>3. \A e \in Exp : \A f \in [Exp -> (SUBSET Type)] : step[e][f] = TypesOfAt(e, f)
  OBVIOUS
<1> HIDE DEF step
<1>4. Local(step, (SUBSET Type))
  <2> SUFFICES ASSUME NEW e \in Exp, NEW f \in [Exp -> (SUBSET Type)], NEW g \in [Exp -> (SUBSET Type)],
                      \A c \in Children(e) : f[c] = g[c]
               PROVE  step[e][f] = step[e][g]
    BY DEF Local
  <2>1. TypesOfAt(e, f) = TypesOfAt(e, g)
    BY TypesOfAtLocal
  <2>2. QED
    BY <1>3, <2>1
<1>5. (SUBSET Type) # {}
  OBVIOUS
<1>6. PICK h \in [Exp -> (SUBSET Type)] : Defines(h, Exp, step)
  BY <1>2, <1>4, <1>5, ExpRecursion
<1>7. h = [e \in Exp |-> TypesOfAt(e, h)]
  BY <1>3, <1>6 DEF Defines
<1>8. QED
  BY <1>7, Zenon DEF TypesOf, TypesOfAt

LEMMA TypesOfCases ==
  ASSUME IsAst(Exp)
  PROVE  /\ \A e \in Binops : TypesOf[e] = ({"int"} \cap TypesOf[e.lhs] \cap TypesOf[e.rhs])
         /\ \A e \in Unops : TypesOf[e] = ({"int"} \cap TypesOf[e.e])
         /\ \A e \in Calls : TypesOf[e] = CallTypes(e, Each(TypesOf, e.args))
         /\ \A e \in Leaves : TypesOf[e] = LeafTypes(e)
         /\ \A e \in Exp : TypesOf[e] \in (SUBSET Type)
<1>1. \A e \in Exp : TypesOf[e] = TypesOfAt(e, TypesOf)
  BY TypesOfDef
<1>2. ASSUME NEW e \in Exp, \A c \in Children(e) : TypesOf[c] \in (SUBSET Type) PROVE TypesOf[e] \in (SUBSET Type)
  BY <1>1, <1>2, TypesOfAtType
<1>3. \A e \in Exp : TypesOf[e] \in (SUBSET Type)
  BY <1>2, ByInduction
<1>4. Binops \subseteq Exp /\ Unops \subseteq Exp /\ Calls \subseteq Exp /\ Leaves \subseteq Exp
  BY Kinds
<1>5. QED
  BY <1>1, <1>3, <1>4, TypesOfAtCases

DoubledAt(e, f) ==
  CASE e.kind = "BinopExp" -> 1 + f[e.lhs] + f[e.rhs]
    [] e.kind = "UnopExp"  -> 1 + f[e.e]
    [] e.kind = "CallExp"  -> 1 + 2 * Sum([i \in DOMAIN e.args |-> f[e.args[i]]], Len(e.args))
    [] OTHER               -> 1

LEMMA DoubledAtCases ==
  ASSUME IsAst(Exp), NEW f
  PROVE  /\ \A e \in Binops : DoubledAt(e, f) = 1 + f[e.lhs] + f[e.rhs]
         /\ \A e \in Unops : DoubledAt(e, f) = 1 + f[e.e]
         /\ \A e \in Calls : DoubledAt(e, f) = 1 + 2 * Sum(Each(f, e.args), Len(e.args))
         /\ \A e \in Leaves : DoubledAt(e, f) = 1
<1>1. ASSUME NEW e \in Binops PROVE DoubledAt(e, f) = 1 + f[e.lhs] + f[e.rhs]
  <2>1. e.kind = "BinopExp"
    BY BinopShape
  <2>2. QED
    BY <2>1, Zenon DEF DoubledAt
<1>2. ASSUME NEW e \in Unops PROVE DoubledAt(e, f) = 1 + f[e.e]
  <2>1. e.kind = "UnopExp" /\ e.kind # "BinopExp"
    BY UnopShape
  <2>2. QED
    BY <2>1, Zenon DEF DoubledAt
<1>3. ASSUME NEW e \in Calls PROVE DoubledAt(e, f) = 1 + 2 * Sum(Each(f, e.args), Len(e.args))
  <2>1. e.kind = "CallExp" /\ e.kind # "BinopExp" /\ e.kind # "UnopExp"
    BY CallShape
  <2>2. QED
    BY <2>1, Zenon DEF DoubledAt, Each
<1>4. ASSUME NEW e \in Leaves PROVE DoubledAt(e, f) = 1
  <2>1. e.kind # "BinopExp" /\ e.kind # "UnopExp" /\ e.kind # "CallExp"
    BY LeafShape
  <2>2. QED
    BY <2>1, Zenon DEF DoubledAt
<1>5. QED
  BY <1>1, <1>2, <1>3, <1>4

LEMMA DoubledAtType ==
  ASSUME IsAst(Exp), NEW e \in Exp, NEW f, \A c \in Children(e) : f[c] \in Nat
  PROVE  DoubledAt(e, f) \in Nat
<1>1. CASE e \in Binops
  <2>1. f[e.lhs] \in Nat /\ f[e.rhs] \in Nat
    BY <1>1, BinopShape
  <2>2. 1 + f[e.lhs] + f[e.rhs] \in Nat
    BY <1>1, <2>1
  <2>3. QED
    BY <1>1, <2>2, DoubledAtCases
<1>2. CASE e \in Unops
  <2>1. f[e.e] \in Nat
    BY <1>2, UnopShape
  <2>2. 1 + f[e.e] \in Nat
    BY <1>2, <2>1
  <2>3. QED
    BY <1>2, <2>2, DoubledAtCases
<1>3. CASE e \in Calls
  <2>1. Each(f, e.args) \in [1 .. Len(e.args) -> Nat]
    BY <1>3, EachType
  <2>2. 1 + 2 * Sum(Each(f, e.args), Len(e.args)) \in Nat
    BY <1>3, <2>1, SumType, CallShape
  <2>3. QED
    BY <1>3, <2>2, DoubledAtCases
<1>4. CASE e \in Leaves
  <2>1. 1 \in Nat
    BY <1>4
  <2>2. QED
    BY <1>4, <2>1, DoubledAtCases
<1>5. QED
  BY <1>1, <1>2, <1>3, <1>4, Kinds

LEMMA DoubledAtLocal ==
  ASSUME IsAst(Exp), NEW e \in Exp, NEW f, NEW g, \A c \in Children(e) : f[c] = g[c]
  PROVE  DoubledAt(e, f) = DoubledAt(e, g)
<1>1. CASE e \in Binops
  <2>1. f[e.lhs] = g[e.lhs] /\ f[e.rhs] = g[e.rhs]
    BY <1>1, BinopShape
  <2>2. QED
    BY <1>1, <2>1, DoubledAtCases
<1>2. CASE e \in Unops
  <2>1. f[e.e] = g[e.e]
    BY <1>2, UnopShape
  <2>2. QED
    BY <1>2, <2>1, DoubledAtCases
<1>3. CASE e \in Calls
  <2>1. Each(f, e.args) = Each(g, e.args)
    BY <1>3, EachLocal
  <2>2. DoubledAt(e, f) = 1 + 2 * Sum(Each(f, e.args), Len(e.args)) /\ DoubledAt(e, g) = 1 + 2 * Sum(Each(g, e.args), Len(e.args))
    BY <1>3, DoubledAtCases
  <2>3. QED
    BY <2>1, <2>2
<1>4. CASE e \in Leaves
  BY <1>4, DoubledAtCases
<1>5. QED
  BY <1>1, <1>2, <1>3, <1>4, Kinds

LEMMA DoubledDef ==
  ASSUME IsAst(Exp)
  PROVE  Doubled = [e \in Exp |-> DoubledAt(e, Doubled)]
<1> DEFINE step == [e \in Exp |-> [f \in [Exp -> Nat] |-> DoubledAt(e, f)]]
<1>1. ASSUME NEW e \in Exp, NEW f \in [Exp -> Nat] PROVE DoubledAt(e, f) \in Nat
  <2>1. \A c \in Children(e) : f[c] \in Nat
    BY ChildrenInside
  <2>2. QED
    BY <2>1, DoubledAtType
<1>2. step \in [Exp -> [[Exp -> Nat] -> Nat]]
  BY <1>1
<1>3. \A e \in Exp : \A f \in [Exp -> Nat] : step[e][f] = DoubledAt(e, f)
  OBVIOUS
<1> HIDE DEF step
<1>4. Local(step, Nat)
  <2> SUFFICES ASSUME NEW e \in Exp, NEW f \in [Exp -> Nat], NEW g \in [Exp -> Nat],
                      \A c \in Children(e) : f[c] = g[c]
               PROVE  step[e][f] = step[e][g]
    BY DEF Local
  <2>1. DoubledAt(e, f) = DoubledAt(e, g)
    BY DoubledAtLocal
  <2>2. QED
    BY <1>3, <2>1
<1>5. Nat # {}
  OBVIOUS
<1>6. PICK h \in [Exp -> Nat] : Defines(h, Exp, step)
  BY <1>2, <1>4, <1>5, ExpRecursion
<1>7. h = [e \in Exp |-> DoubledAt(e, h)]
  BY <1>3, <1>6 DEF Defines
<1>8. QED
  BY <1>7, Zenon DEF Doubled, DoubledAt

LEMMA DoubledCases ==
  ASSUME IsAst(Exp)
  PROVE  /\ \A e \in Binops : Doubled[e] = 1 + Doubled[e.lhs] + Doubled[e.rhs]
         /\ \A e \in Unops : Doubled[e] = 1 + Doubled[e.e]
         /\ \A e \in Calls : Doubled[e] = 1 + 2 * Sum(Each(Doubled, e.args), Len(e.args))
         /\ \A e \in Leaves : Doubled[e] = 1
         /\ \A e \in Exp : Doubled[e] \in Nat
<1>1. \A e \in Exp : Doubled[e] = DoubledAt(e, Doubled)
  BY DoubledDef
<1>2. ASSUME NEW e \in Exp, \A c \in Children(e) : Doubled[c] \in Nat PROVE Doubled[e] \in Nat
  BY <1>1, <1>2, DoubledAtType
<1>3. \A e \in Exp : Doubled[e] \in Nat
  BY <1>2, ByInduction
<1>4. Binops \subseteq Exp /\ Unops \subseteq Exp /\ Calls \subseteq Exp /\ Leaves \subseteq Exp
  BY Kinds
<1>5. QED
  BY <1>1, <1>3, <1>4, DoubledAtCases

-----------------------------------------------------------------------------
(* The resolver throws just for a name that is not declared.               *)
LEMMA ThrowsUndeclared ==
  ASSUME IsAst(Exp)
  PROVE  \A e \in Exp : Resolve[e].throws <=> ~ Declared[e]
<1> DEFINE A == {e \in Exp : Resolve[e].throws <=> ~ Declared[e]}
<1>1. ASSUME NEW e \in Exp, Children(e) \subseteq A PROVE Resolve[e].throws <=> ~ Declared[e]
  <2>1. CASE e \in Binops
    <3>1. e.lhs \in A /\ e.rhs \in A
      BY <1>1, <2>1, BinopShape
    <3>2. Resolve[e] = ResolveBinop(e, Resolve[e.lhs], Resolve[e.rhs])
      BY <2>1, ResolveCases
    <3>3. Declared[e] <=> Declared[e.lhs] /\ Declared[e.rhs]
      BY <2>1, DeclaredCases
    <3>4. Resolve[e].throws <=> Resolve[e.lhs].throws \/ Resolve[e.rhs].throws
      BY <3>2 DEF ResolveBinop, Resolved, Unknown
    <3>5. /\ Resolve[e.lhs].throws <=> ~ Declared[e.lhs]
          /\ Resolve[e.rhs].throws <=> ~ Declared[e.rhs]
      BY <3>1
    <3>6. QED
      BY <3>3, <3>4, <3>5
  <2>2. CASE e \in Unops
    <3>1. e.e \in A
      BY <1>1, <2>2, UnopShape
    <3>2. Resolve[e] = ResolveUnop(e, Resolve[e.e])
      BY <2>2, ResolveCases
    <3>3. Declared[e] <=> Declared[e.e]
      BY <2>2, DeclaredCases
    <3>4. Resolve[e].throws <=> Resolve[e.e].throws
      BY <3>2 DEF ResolveUnop, Resolved, Unknown
    <3>5. Resolve[e.e].throws <=> ~ Declared[e.e]
      BY <3>1
    <3>6. QED
      BY <3>3, <3>4, <3>5
  <2>3. CASE e \in Calls
    <3> DEFINE as == Each(Resolve, e.args)
               ds == Each(Declared, e.args)
               some == e.name \notin DOMAIN Funs \/ \E i \in DOMAIN e.args : as[i].throws
    <3>1. \A i \in DOMAIN e.args : e.args[i] \in A
      BY <1>1, <2>3, CallShape
    <3>2. \A i \in DOMAIN e.args : as[i] = Resolve[e.args[i]] /\ ds[i] = Declared[e.args[i]]
      BY DEF Each
    <3>3. Resolve[e] = ResolveCall(e, as) /\ Declared[e] = DeclaredCall(e, ds)
      BY <2>3, ResolveCases, DeclaredCases
    <3>4. \A i \in DOMAIN e.args : as[i].throws <=> ~ ds[i]
      BY <3>1, <3>2
    <3> HIDE DEF as, ds
    <3>5. Resolve[e].throws <=> some
      <4>1. some => Resolve[e] = Unknown(e)
        BY <3>3, Zenon DEF ResolveCall
      <4>2. ~ some => \E x : Resolve[e] = Resolved(x)
        BY <3>3, Zenon DEF ResolveCall
      <4>3. ASSUME NEW x PROVE ~ Resolved(x).throws /\ Unknown(x).throws
        BY DEF Resolved, Unknown
      <4> HIDE DEF some
      <4>4. QED
        BY <4>1, <4>2, <4>3
    <3>6. Declared[e] <=> ~ some
      BY <3>3, <3>4 DEF DeclaredCall
    <3>7. QED
      BY <3>5, <3>6
  <2>4. CASE e \in Leaves
    <3>1. Resolve[e] = ResolveLeaf(e)
      BY <2>4, ResolveCases
    <3>2. Declared[e] <=> DeclaredLeaf(e)
      BY <2>4, DeclaredCases
    <3>3. ResolveLeaf(e).throws <=> ~ DeclaredLeaf(e)
      BY DEF ResolveLeaf, ResolveVar, DeclaredLeaf, Resolved, Unknown
    <3>4. QED
      BY <3>1, <3>2, <3>3
  <2>5. QED
    BY <2>1, <2>2, <2>3, <2>4, Kinds
<1>2. ASSUME NEW e \in Exp, Children(e) \subseteq A PROVE e \in A
  BY <1>1, <1>2
<1> HIDE DEF A
<1>3. \A e \in Exp : e \in A
  BY <1>2, ExpInduction
<1>4. QED
  BY <1>3 DEF A

(* What it returns is annotated throughout: resolving it again changes     *)
(* nothing.                                                                *)
Annotated(e) == e \in Exp /\ Resolve[e] = Resolved(e)

LEMMA Annotates ==
  ASSUME IsAst(Exp)
  PROVE  \A e \in Exp : ~ Resolve[e].throws => Annotated(Resolve[e].exp)
<1> DEFINE A == {e \in Exp : ~ Resolve[e].throws => Annotated(Resolve[e].exp)}
<1>1. ASSUME NEW e \in Exp, Children(e) \subseteq A, ~ Resolve[e].throws PROVE Annotated(Resolve[e].exp)
  <2>1. CASE e \in Binops
    <3> DEFINE l == Resolve[e.lhs]
               r == Resolve[e.rhs]
               a == [kind |-> "BinopExp", lhs |-> l.exp, rhs |-> r.exp]
    <3>1. e.lhs \in A /\ e.rhs \in A
      BY <1>1, <2>1, BinopShape
    <3>2. Resolve[e] = ResolveBinop(e, l, r)
      BY <2>1, ResolveCases
    <3>3. ~ l.throws /\ ~ r.throws /\ Resolve[e] = Resolved(a)
      BY <1>1, <3>2 DEF ResolveBinop, Resolved, Unknown
    <3>4. Annotated(l.exp) /\ Annotated(r.exp)
      BY <3>1, <3>3
    <3> HIDE DEF l, r
    <3>5. a \in Binops /\ a.lhs = l.exp /\ a.rhs = r.exp
      BY <3>4 DEF Binops, Annotated
    <3>6. Resolve[a] = ResolveBinop(a, Resolve[l.exp], Resolve[r.exp])
      BY <3>5, ResolveCases
    <3>7. Resolve[a] = Resolved(a)
      BY <3>4, <3>6 DEF ResolveBinop, Resolved, Annotated
    <3>8. a \in Exp
      BY <3>5, Kinds
    <3>9. QED
      BY <3>3, <3>7, <3>8 DEF Annotated, Resolved
  <2>2. CASE e \in Unops
    <3> DEFINE x == Resolve[e.e]
               a == [e EXCEPT !.e = x.exp]
    <3>1. e.e \in A
      BY <1>1, <2>2, UnopShape
    <3>2. Resolve[e] = ResolveUnop(e, x)
      BY <2>2, ResolveCases
    <3>3. ~ x.throws /\ Resolve[e] = Resolved(a)
      BY <1>1, <3>2 DEF ResolveUnop, Resolved, Unknown
    <3>4. Annotated(x.exp)
      BY <3>1, <3>3
    <3> HIDE DEF x
    <3>5. a \in Unops /\ a.e = x.exp /\ [a EXCEPT !.e = x.exp] = a
      BY <2>2, <3>4 DEF Unops, Annotated
    <3> HIDE DEF a
    <3>6. Resolve[a] = ResolveUnop(a, Resolve[x.exp])
      BY <3>5, ResolveCases
    <3>7. Resolve[a] = Resolved(a)
      <4>1. Resolve[x.exp].throws = FALSE /\ Resolve[x.exp].exp = x.exp
        BY <3>4 DEF Resolved, Annotated
      <4>2. ResolveUnop(a, Resolve[x.exp]) = Resolved([a EXCEPT !.e = Resolve[x.exp].exp])
        BY <4>1 DEF ResolveUnop
      <4>3. QED
        BY <3>5, <3>6, <4>1, <4>2
    <3>8. a \in Exp
      BY <3>5, Kinds
    <3>9. QED
      BY <3>3, <3>7, <3>8 DEF Annotated, Resolved
  <2>3. CASE e \in Calls
    <3> DEFINE as == Each(Resolve, e.args)
               es == [i \in DOMAIN e.args |-> as[i].exp]
               a  == CallTo(e.name, Funs[e.name], es)
    <3>1. \A i \in DOMAIN e.args : e.args[i] \in A /\ as[i] = Resolve[e.args[i]]
      BY <1>1, <2>3, CallShape DEF Each
    <3>2. Resolve[e] = ResolveCall(e, as)
      BY <2>3, ResolveCases
    <3>3. /\ e.name \in DOMAIN Funs /\ \A i \in DOMAIN e.args : ~ as[i].throws
          /\ Resolve[e] = Resolved(a)
      <4> HIDE DEF as
      <4>1. Resolve[e] # Unknown(e)
        BY <1>1 DEF Unknown
      <4>2. QED
        BY <3>2, <4>1, Zenon DEF ResolveCall
    <3>4. \A i \in DOMAIN e.args : Annotated(as[i].exp)
      BY <3>1, <3>3
    <3>5. Resolve[e].exp = a /\ a \in Exp
      BY <3>3, ResolveCases DEF Resolved, Resolutions
    <3>6. a.kind = "CallExp" /\ a.name = e.name /\ a.args = es /\ a.fun_info = Funs[e.name]
      BY DEF CallTo
    <3>7. DOMAIN es = DOMAIN e.args /\ \A i \in DOMAIN es : es[i] = as[i].exp
      OBVIOUS
    <3> HIDE DEF as, es, a
    <3>8. a \in Calls
      BY <3>5, <3>6, Kinds DEF Leaves, Binops, Unops
    <3>9. Resolve[a] = ResolveCall(a, Each(Resolve, es))
      BY <3>6, <3>8, ResolveCases
    <3>10. \A i \in DOMAIN es : Each(Resolve, es)[i] = Resolved(es[i])
      BY <3>4, <3>7 DEF Annotated, Each
    <3>11. \A i \in DOMAIN es : ~ Each(Resolve, es)[i].throws /\ Each(Resolve, es)[i].exp = es[i]
      <4>1. \A x : ~ Resolved(x).throws /\ Resolved(x).exp = x
        BY DEF Resolved
      <4>2. QED
        BY <3>10, <4>1
    <3>12. [i \in DOMAIN es |-> Each(Resolve, es)[i].exp] = es
      <4>1. es = [i \in DOMAIN es |-> es[i]]
        BY DEF es
      <4>2. QED
        BY <3>11, <4>1
    <3>13. a = CallTo(e.name, Funs[e.name], es)
      BY DEF a
    <3>14. Resolve[a] = Resolved(a)
      BY <3>3, <3>6, <3>9, <3>11, <3>12, <3>13 DEF ResolveCall
    <3>15. QED
      BY <3>5, <3>14 DEF Annotated
  <2>4. CASE e \in Leaves
    <3>1. Resolve[e] = ResolveLeaf(e)
      BY <2>4, ResolveCases
    <3>2. CASE e.kind # "VarExp"
      <4>1. Resolve[e] = Resolved(e)
        BY <3>1, <3>2 DEF ResolveLeaf
      <4>2. QED
        BY <4>1 DEF Annotated, Resolved
    <3>3. CASE e.kind = "VarExp"
      <4> DEFINE a == [e EXCEPT !.var_info = Vars[e.name]]
      <4>0. Resolve[e] = ResolveVar(e) /\ Resolve[e] # Unknown(e)
        BY <1>1, <3>1, <3>3 DEF ResolveLeaf, Unknown
      <4>1. e.name \in DOMAIN Vars /\ Resolve[e] = Resolved(a)
        BY <4>0 DEF ResolveVar
      <4>2. e \in [kind : {"VarExp"}, name : VarNames, var_info : {nullopt} \union Type]
        BY <2>4, <3>3 DEF Leaves
      <4>3. a \in Leaves /\ a.name = e.name /\ a.kind = "VarExp" /\ [a EXCEPT !.var_info = Vars[a.name]] = a
        BY <4>1, <4>2, DeclaredTypes DEF Leaves
      <4> HIDE DEF a
      <4>4. Resolve[a] = ResolveLeaf(a)
        BY <4>3, ResolveCases
      <4>5. Resolve[a] = Resolved(a)
        BY <4>1, <4>3, <4>4 DEF ResolveLeaf, ResolveVar
      <4>6. a \in Exp
        BY <4>3, Kinds
      <4>7. QED
        BY <4>1, <4>5, <4>6 DEF Annotated, Resolved
    <3>4. QED
      BY <3>2, <3>3
  <2>5. QED
    BY <2>1, <2>2, <2>3, <2>4, Kinds
<1>2. ASSUME NEW e \in Exp, Children(e) \subseteq A PROVE e \in A
  BY <1>1, <1>2
<1> HIDE DEF A
<1>3. \A e \in Exp : e \in A
  BY <1>2, ExpInduction
<1>4. QED
  BY <1>3 DEF A

(* What annotated trees are made of.                                       *)
LEMMA AnnotatedBinop ==
  ASSUME IsAst(Exp), NEW e \in Binops, Annotated(e)
  PROVE  Annotated(e.lhs) /\ Annotated(e.rhs)
<1> DEFINE l == Resolve[e.lhs]
           r == Resolve[e.rhs]
<1>1. e.lhs \in Exp /\ e.rhs \in Exp /\ l \in Resolutions /\ r \in Resolutions
  BY BinopShape, ResolveCases
<1>2. Resolved(e) = ResolveBinop(e, l, r)
  BY ResolveCases DEF Annotated
<1> HIDE DEF l, r
<1>3. l.throws = FALSE /\ r.throws = FALSE /\ e = [kind |-> "BinopExp", lhs |-> l.exp, rhs |-> r.exp]
  BY <1>1, <1>2 DEF ResolveBinop, Resolved, Unknown, Resolutions
<1>4. l = Resolved(e.lhs) /\ r = Resolved(e.rhs)
  BY <1>1, <1>3 DEF Resolved, Resolutions
<1>5. QED
  BY <1>1, <1>4 DEF Annotated, l, r

LEMMA AnnotatedUnop ==
  ASSUME IsAst(Exp), NEW e \in Unops, Annotated(e)
  PROVE  Annotated(e.e)
<1> DEFINE x == Resolve[e.e]
<1>1. e.e \in Exp /\ x \in Resolutions
  BY UnopShape, ResolveCases
<1>2. Resolved(e) = ResolveUnop(e, x)
  BY ResolveCases DEF Annotated
<1> HIDE DEF x
<1>3. x.throws = FALSE /\ e = [e EXCEPT !.e = x.exp]
  BY <1>1, <1>2 DEF ResolveUnop, Resolved, Unknown, Resolutions
<1>4. x.exp = e.e
  BY <1>3 DEF Unops
<1>5. x = Resolved(e.e)
  BY <1>1, <1>3, <1>4 DEF Resolved, Resolutions
<1>6. QED
  BY <1>1, <1>5 DEF Annotated, x

LEMMA AnnotatedCall ==
  ASSUME IsAst(Exp), NEW e \in Calls, Annotated(e)
  PROVE  /\ e.name \in DOMAIN Funs /\ e.fun_info = Funs[e.name]
         /\ \A i \in DOMAIN e.args : Annotated(e.args[i])
<1> DEFINE as == Each(Resolve, e.args)
           es == [i \in DOMAIN e.args |-> as[i].exp]
<1>1. \A i \in DOMAIN e.args : /\ e.args[i] \in Exp /\ as[i] = Resolve[e.args[i]]
                               /\ Resolve[e.args[i]] \in Resolutions
  BY CallShape, ResolveCases DEF Each
<1>2. Resolved(e) = ResolveCall(e, as)
  BY ResolveCases DEF Annotated
<1>3. /\ e.name \in DOMAIN Funs /\ \A i \in DOMAIN e.args : ~ as[i].throws
      /\ Resolved(e) = Resolved(CallTo(e.name, Funs[e.name], es))
  <2> HIDE DEF as
  <2>1. Resolved(e) # Unknown(e)
    BY DEF Resolved, Unknown
  <2>2. QED
    BY <1>2, <2>1, Zenon DEF ResolveCall
<1>4. e = CallTo(e.name, Funs[e.name], es)
  <2> HIDE DEF es
  <2> QED BY <1>3 DEF Resolved
<1>5. e.fun_info = Funs[e.name] /\ e.args = es
  <2> HIDE DEF es
  <2> QED BY <1>4 DEF CallTo
<1>6. ASSUME NEW i \in DOMAIN e.args PROVE Annotated(e.args[i])
  <2>1. e.args[i] = as[i].exp
    BY <1>5
  <2> HIDE DEF as, es
  <2>2. as[i] = Resolved(e.args[i])
    BY <1>1, <1>3, <2>1 DEF Resolved, Resolutions
  <2>3. QED
    BY <1>1, <2>2 DEF Annotated
<1>7. QED
  BY <1>3, <1>5, <1>6

LEMMA AnnotatedVar ==
  ASSUME IsAst(Exp), NEW e \in Leaves, e.kind = "VarExp", Annotated(e)
  PROVE  e.name \in DOMAIN Vars /\ e.var_info = Vars[e.name]
<1>1. Resolved(e) = ResolveLeaf(e)
  BY ResolveCases DEF Annotated
<1>2. e.name \in DOMAIN Vars /\ e = [e EXCEPT !.var_info = Vars[e.name]]
  BY <1>1 DEF ResolveLeaf, ResolveVar, Resolved, Unknown
<1>3. e \in [kind : {"VarExp"}, name : VarNames, var_info : {nullopt} \union Type]
  BY DEF Leaves
<1>4. QED
  BY <1>2, <1>3


-----------------------------------------------------------------------------
(* The walk w of an expression of n visits and of the types ts.            *)
Judged(w, n, ts) ==
  /\ w \in Walks /\ w.visits <= n
  /\ \/ w.value_type \in Type /\ ts = {w.value_type} /\ w.visits = n
     \/ w.value_type = "throws" /\ ts = {}

LEMMA JudgedLeaf ==
  ASSUME IsAst(Exp), NEW e \in Leaves, Annotated(e)
  PROVE  Judged(VisitLeaf(e), 1, LeafTypes(e))
<1>1. VisitLeaf(e) \in Walks
  BY VisitTypes
<1>2. CASE e.kind = "VarExp"
  <2>1. e.name \in DOMAIN Vars /\ e.var_info = Vars[e.name] /\ Vars[e.name] \in Type
    BY <1>2, AnnotatedVar, DeclaredTypes
  <2>2. VisitLeaf(e) = Walk(Vars[e.name], 1)
    BY <1>2, <2>1, NulloptAssumption DEF VisitLeaf
  <2>3. LeafTypes(e) = {Vars[x] : x \in {e.name} \cap DOMAIN Vars}
    BY <1>2 DEF LeafTypes
  <2>4. LeafTypes(e) = {Vars[e.name]}
    BY <2>1, <2>3
  <2>5. QED
    BY <1>1, <2>1, <2>2, <2>4 DEF Judged, Walk
<1>3. CASE e.kind = "IntExp"
  BY <1>1, <1>3, TypeAssumption DEF VisitLeaf, LeafTypes, Judged, Walk
<1>4. CASE e.kind = "StringExp"
  BY <1>1, <1>4, TypeAssumption DEF VisitLeaf, LeafTypes, Judged, Walk
<1>5. QED
  BY <1>2, <1>3, <1>4, LeafShape

LEMMA JudgedBinop ==
  ASSUME IsAst(Exp), NEW l, NEW r, NEW m \in Nat, NEW n \in Nat, NEW ls, NEW rs,
         Judged(l, m, ls), Judged(r, n, rs)
  PROVE  Judged(VisitBinop(l, r), 1 + m + n, {"int"} \cap ls \cap rs)
<1>1. l \in Walks /\ r \in Walks /\ VisitBinop(l, r) \in Walks
  BY VisitTypes DEF Judged
<1>2. CASE l.value_type = "throws"
  <2>1. VisitBinop(l, r) = Walk("throws", 1 + l.visits) /\ ls = {}
    BY <1>2, TypeAssumption DEF VisitBinop, Ends, Judged
  <2>2. QED
    BY <1>1, <2>1 DEF Judged, Walk, Walks
<1>3. CASE l.value_type \in Type /\ r.value_type = "throws"
  <2>1. VisitBinop(l, r) = Walk("throws", 1 + l.visits + r.visits) /\ rs = {}
    BY <1>3, TypeAssumption DEF VisitBinop, Ends, Judged
  <2>2. QED
    BY <1>1, <2>1 DEF Judged, Walk, Walks
<1>4. CASE l.value_type \in Type /\ r.value_type \in Type
  <2>1. VisitBinop(l, r) = Walk(IF l.value_type = "int" /\ r.value_type = "int" THEN "int" ELSE "throws",
                                1 + l.visits + r.visits)
    BY <1>4, TypeAssumption DEF VisitBinop, Ends
  <2>2. ls = {l.value_type} /\ rs = {r.value_type} /\ l.visits = m /\ r.visits = n
    BY <1>4, TypeAssumption DEF Judged
  <2>3. CASE l.value_type = "int" /\ r.value_type = "int"
    BY <1>1, <2>1, <2>2, <2>3, TypeAssumption DEF Judged, Walk
  <2>4. CASE ~ (l.value_type = "int" /\ r.value_type = "int")
    BY <1>1, <2>1, <2>2, <2>4 DEF Judged, Walk
  <2>5. QED
    BY <2>3, <2>4
<1>5. QED
  BY <1>2, <1>3, <1>4 DEF Judged

LEMMA JudgedUnop ==
  ASSUME IsAst(Exp), NEW w, NEW n \in Nat, NEW ts, Judged(w, n, ts)
  PROVE  Judged(VisitUnop(w), 1 + n, {"int"} \cap ts)
<1>1. w \in Walks /\ VisitUnop(w) \in Walks
  BY VisitTypes DEF Judged
<1>2. CASE w.value_type = "throws"
  <2>1. VisitUnop(w) = Walk("throws", 1 + w.visits) /\ ts = {}
    BY <1>2, TypeAssumption DEF VisitUnop, Ends, Judged
  <2>2. QED
    BY <1>1, <2>1 DEF Judged, Walk, Walks
<1>3. CASE w.value_type \in Type
  <2>1. VisitUnop(w) = Walk(IF w.value_type = "int" THEN "int" ELSE "throws", 1 + w.visits)
    BY <1>3, TypeAssumption DEF VisitUnop, Ends
  <2>2. ts = {w.value_type} /\ w.visits = n
    BY <1>3, TypeAssumption DEF Judged
  <2>3. CASE w.value_type = "int"
    BY <1>1, <2>1, <2>2, <2>3, TypeAssumption DEF Judged, Walk
  <2>4. CASE w.value_type # "int"
    BY <1>1, <2>1, <2>2, <2>4 DEF Judged, Walk
  <2>5. QED
    BY <2>3, <2>4
<1>4. QED
  BY <1>2, <1>3 DEF Judged

(* The first loop after k turns, of s visits; fit where all k arguments do.*)
LoopJudged(w, s, fit) ==
  /\ w.visits <= s
  /\ \/ w.value_type = "void" /\ w.visits = s /\ fit
     \/ w.value_type = "throws" /\ ~ fit

LEMMA TurnJudged ==
  ASSUME NEW before \in LoopWalks, NEW s \in Nat, NEW fit \in BOOLEAN, LoopJudged(before, s, fit),
         NEW w, NEW n \in Nat, NEW ts, Judged(w, n, ts), NEW param \in Type
  PROVE  LoopJudged(Turn(before, w, param), s + n, fit /\ param \in ts)
<1>1. w \in Walks /\ w.visits \in Nat /\ w.visits <= n /\ before.visits \in Nat /\ before.visits <= s
  BY DEF Judged, Walks, LoopWalks, LoopJudged
<1>2. CASE before.value_type = "throws"
  <2>1. Turn(before, w, param) = before /\ ~ fit
    BY <1>2 DEF Turn, Ends, LoopJudged
  <2>2. QED
    BY <1>1, <1>2, <2>1 DEF LoopJudged
<1>3. CASE before.value_type = "void"
  <2>1. fit /\ before.visits = s
    BY <1>3 DEF LoopJudged
  <2>2. CASE param \in ts
    <3>1. w.value_type = param /\ w.visits = n /\ ~ Ends(w)
      BY <2>2, TypeAssumption DEF Judged, Ends
    <3>2. Turn(before, w, param) = Walk("void", s + n)
      BY <1>3, <2>1, <3>1 DEF Turn, Ends
    <3>3. QED
      BY <2>1, <2>2, <3>2 DEF LoopJudged, Walk
  <2>3. CASE param \notin ts
    <3>1. w.value_type = "throws" \/ (~ Ends(w) /\ w.value_type # param)
      BY <2>3, TypeAssumption DEF Judged, Ends
    <3>2. Turn(before, w, param) = Walk("throws", s + w.visits)
      BY <1>3, <2>1, <3>1 DEF Turn, Ends
    <3>3. QED
      BY <1>1, <2>3, <3>2 DEF LoopJudged, Walk
  <2>4. QED
    BY <2>2, <2>3
<1>4. QED
  BY <1>2, <1>3 DEF LoopJudged

AllFit(params, tss, k) == \A i \in 1 .. k : params[i] \in tss[i]

LEMMA LoopsJudged ==
  ASSUME NEW params \in Seq(Type), NEW ws \in [1 .. Len(params) -> Walks],
         NEW ns \in [1 .. Len(params) -> Nat], NEW tss,
         \A i \in 1 .. Len(params) : Judged(ws[i], ns[i], tss[i])
  PROVE  /\ FirstLoop(ws, params) \in LoopWalks /\ Sum(ns, Len(params)) \in Nat
         /\ LoopJudged(FirstLoop(ws, params), Sum(ns, Len(params)), AllFit(params, tss, Len(params)))
<1> DEFINE n == Len(params)
           t == Turns(ws, params)
           s == Sums(ns, n)
           fit(k) == AllFit(params, tss, k)
           A == {k \in Nat : k <= n => LoopJudged(t[k], s[k], fit(k))}
<1>1. n \in Nat
  OBVIOUS
<1>2. /\ t[0] = Walk("void", 0)
      /\ \A k \in 1 .. n : t[k] = Turn(t[k - 1], ws[k], params[k])
      /\ \A k \in 0 .. n : t[k] \in LoopWalks
  BY TurnsDef
<1>3. /\ s[0] = 0
      /\ \A k \in 1 .. n : s[k] = s[k - 1] + ns[k]
      /\ \A k \in 0 .. n : s[k] \in Nat
  BY <1>1, SumsDef
<1>4. \A i \in 1 .. n : params[i] \in Type
  OBVIOUS
<1> HIDE DEF t, s
<1>5. 0 \in A
  BY <1>2, <1>3 DEF LoopJudged, AllFit, Walk
<1>6. ASSUME NEW k \in Nat, k \in A PROVE k + 1 \in A
  <2> SUFFICES ASSUME k + 1 <= n PROVE LoopJudged(t[k + 1], s[k + 1], fit(k + 1))
    OBVIOUS
  <2>1. k \in 0 .. n /\ k + 1 \in 1 .. n /\ (k + 1) - 1 = k
    BY <1>1
  <2>2. t[k] \in LoopWalks /\ s[k] \in Nat /\ LoopJudged(t[k], s[k], fit(k))
    BY <1>2, <1>3, <1>6, <2>1
  <2>3. t[k + 1] = Turn(t[k], ws[k + 1], params[k + 1]) /\ s[k + 1] = s[k] + ns[k + 1]
    BY <1>2, <1>3, <2>1
  <2>4. Judged(ws[k + 1], ns[k + 1], tss[k + 1]) /\ params[k + 1] \in Type /\ ns[k + 1] \in Nat
    BY <1>4, <2>1
  <2>5. fit(k + 1) <=> fit(k) /\ params[k + 1] \in tss[k + 1]
    BY <2>1 DEF AllFit
  <2>6. fit(k) \in BOOLEAN
    BY Zenon DEF AllFit
  <2> HIDE DEF fit
  <2>7. LoopJudged(Turn(t[k], ws[k + 1], params[k + 1]), s[k] + ns[k + 1],
                   fit(k) /\ params[k + 1] \in tss[k + 1])
    BY <2>1, <2>2, <2>4, <2>6, TurnJudged
  <2>8. QED
    BY <2>3, <2>5, <2>7 DEF LoopJudged
<1> HIDE DEF A
<1>7. \A k \in Nat : k \in A
  BY <1>5, <1>6, NaturalInduction
<1>8. LoopJudged(t[n], s[n], fit(n))
  BY <1>1, <1>7 DEF A
<1>9. QED
  BY <1>1, <1>2, <1>3, <1>8 DEF FirstLoop, Sum, t, s

LEMMA JudgedCall ==
  ASSUME IsAst(Exp), NEW e \in Calls, Annotated(e),
         NEW ws \in [1 .. Len(e.args) -> Walks], NEW ns \in [1 .. Len(e.args) -> Nat], NEW tss,
         \A i \in 1 .. Len(e.args) : Judged(ws[i], ns[i], tss[i])
  PROVE  Judged(VisitCall(e, ws), 1 + 2 * Sum(ns, Len(e.args)), CallTypes(e, tss))
<1> DEFINE info == Funs[e.name]
           params == info.params
           first == FirstLoop(ws, params)
           sum == Sum(ns, Len(e.args))
           fits == Len(e.args) = Len(params) /\ \A i \in DOMAIN e.args : params[i] \in tss[i]
<1> SUFFICES Judged(VisitCall(e, ws), 1 + 2 * sum, CallTypes(e, tss))
  OBVIOUS
<1>1. e.name \in DOMAIN Funs /\ e.fun_info = info /\ info # nullopt /\ info.ret_type \in Type /\ params \in Seq(Type)
  BY AnnotatedCall, DeclaredTypes, NulloptAssumption
<1>2. VisitCall(e, ws) \in Walks /\ sum \in Nat /\ Len(e.args) \in Nat /\ DOMAIN e.args = 1 .. Len(e.args)
  BY VisitTypes, SumType, CallShape
<1>3. VisitCall(e, ws) = CallWalk(e, ws, Len(e.args) = Len(params), 2)
  BY <1>1 DEF VisitCall
<1>4. CallTypes(e, tss) = IF fits THEN {info.ret_type} ELSE {}
  <2>1. CallTypes(e, tss) = {Funs[f].ret_type : f \in {g \in {e.name} :
                               /\ Len(e.args) = Len(Funs[g].params)
                               /\ \A i \in DOMAIN e.args : Funs[g].params[i] \in tss[i]}}
    BY <1>1 DEF CallTypes
  <2>2. QED
    BY <2>1
<1> HIDE DEF info
<1>5. CASE Len(e.args) # Len(params)
  <2>1. VisitCall(e, ws) = Walk("throws", 1) /\ CallTypes(e, tss) = {}
    BY <1>1, <1>3, <1>4, <1>5 DEF CallWalk
  <2> HIDE DEF sum
  <2>2. QED
    BY <1>2, <2>1 DEF Judged, Walk
<1>6. CASE Len(e.args) = Len(params)
  <2>1. first \in LoopWalks /\ LoopJudged(first, sum, AllFit(params, tss, Len(params)))
    BY <1>1, <1>6, LoopsJudged
  <2>2. AllFit(params, tss, Len(params)) <=> fits
    BY <1>2, <1>6 DEF AllFit
  <2> HIDE DEF fits, sum, first
  <2>3. CASE first.value_type = "void"
    <3>1. VisitCall(e, ws) = Walk(info.ret_type, 1 + 2 * first.visits)
      BY <1>1, <1>3, <1>6, <2>3 DEF CallWalk, Ends, first
    <3>2. fits /\ first.visits = sum
      BY <2>1, <2>2, <2>3 DEF LoopJudged
    <3>3. QED
      BY <1>1, <1>2, <1>4, <3>1, <3>2 DEF Judged, Walk
  <2>4. CASE first.value_type = "throws"
    <3>1. VisitCall(e, ws) = Walk("throws", 1 + first.visits)
      BY <1>1, <1>3, <1>6, <2>4 DEF CallWalk, Ends, first
    <3>2. ~ fits /\ first.visits <= sum /\ first.visits \in Nat
      BY <2>1, <2>2, <2>4 DEF LoopJudged, LoopWalks
    <3>3. QED
      BY <1>2, <1>4, <3>1, <3>2 DEF Judged, Walk
  <2>5. QED
    BY <2>1, <2>3, <2>4 DEF LoopJudged
<1>7. QED
  BY <1>5, <1>6

LEMMA EveryWalkJudged ==
  ASSUME IsAst(Exp)
  PROVE  \A e \in Exp : Annotated(e) => Judged(TypecheckExp[e], Doubled[e], TypesOf[e])
<1> DEFINE A == {e \in Exp : Annotated(e) => Judged(TypecheckExp[e], Doubled[e], TypesOf[e])}
<1>1. ASSUME NEW e \in Exp, Children(e) \subseteq A, Annotated(e)
      PROVE  Judged(TypecheckExp[e], Doubled[e], TypesOf[e])
  <2>1. CASE e \in Binops
    <3> DEFINE l == e.lhs
               r == e.rhs
    <3>1. l \in A /\ r \in A /\ Annotated(l) /\ Annotated(r)
      BY <1>1, <2>1, BinopShape, AnnotatedBinop
    <3>2. Judged(TypecheckExp[l], Doubled[l], TypesOf[l]) /\ Judged(TypecheckExp[r], Doubled[r], TypesOf[r])
      BY <3>1
    <3>3. Doubled[l] \in Nat /\ Doubled[r] \in Nat
      BY <3>1, DoubledCases
    <3> HIDE DEF l, r
    <3>4. Judged(VisitBinop(TypecheckExp[l], TypecheckExp[r]), 1 + Doubled[l] + Doubled[r],
                 {"int"} \cap TypesOf[l] \cap TypesOf[r])
      BY <3>2, <3>3, JudgedBinop
    <3>5. /\ TypecheckExp[e] = VisitBinop(TypecheckExp[l], TypecheckExp[r])
          /\ Doubled[e] = 1 + Doubled[l] + Doubled[r]
          /\ TypesOf[e] = {"int"} \cap TypesOf[l] \cap TypesOf[r]
      BY <2>1, TypecheckExpCases, DoubledCases, TypesOfCases DEF l, r
    <3>6. QED
      BY <3>4, <3>5
  <2>2. CASE e \in Unops
    <3> DEFINE x == e.e
    <3>1. x \in A /\ Annotated(x)
      BY <1>1, <2>2, UnopShape, AnnotatedUnop
    <3>2. Judged(TypecheckExp[x], Doubled[x], TypesOf[x]) /\ Doubled[x] \in Nat
      BY <3>1, DoubledCases
    <3> HIDE DEF x
    <3>3. Judged(VisitUnop(TypecheckExp[x]), 1 + Doubled[x], {"int"} \cap TypesOf[x])
      BY <3>2, JudgedUnop
    <3>4. /\ TypecheckExp[e] = VisitUnop(TypecheckExp[x])
          /\ Doubled[e] = 1 + Doubled[x]
          /\ TypesOf[e] = {"int"} \cap TypesOf[x]
      BY <2>2, TypecheckExpCases, DoubledCases, TypesOfCases DEF x
    <3>5. QED
      BY <3>3, <3>4
  <2>3. CASE e \in Calls
    <3> DEFINE ws  == Each(TypecheckExp, e.args)
               ns  == Each(Doubled, e.args)
               tss == Each(TypesOf, e.args)
    <3>1. \A i \in 1 .. Len(e.args) : e.args[i] \in A /\ Annotated(e.args[i])
      BY <1>1, <2>3, CallShape, AnnotatedCall
    <3>2. \A i \in 1 .. Len(e.args) : Judged(ws[i], ns[i], tss[i])
      <4>1. DOMAIN e.args = 1 .. Len(e.args)
        BY <2>3, CallShape
      <4>2. QED
        BY <3>1, <4>1 DEF Each
    <3>3. ws \in [1 .. Len(e.args) -> Walks] /\ ns \in [1 .. Len(e.args) -> Nat]
      <4>1. Children(e) \subseteq Exp
        BY ChildrenInside
      <4>2. \A c \in Children(e) : TypecheckExp[c] \in Walks
        BY <4>1, TypecheckExpCases
      <4>3. \A c \in Children(e) : Doubled[c] \in Nat
        BY <4>1, DoubledCases
      <4>4. QED
        BY <2>3, <4>2, <4>3, EachType
    <3> HIDE DEF ws, ns, tss
    <3>4. Judged(VisitCall(e, ws), 1 + 2 * Sum(ns, Len(e.args)), CallTypes(e, tss))
      BY <1>1, <2>3, <3>2, <3>3, JudgedCall
    <3>5. /\ TypecheckExp[e] = VisitCall(e, ws)
          /\ Doubled[e] = 1 + 2 * Sum(ns, Len(e.args))
          /\ TypesOf[e] = CallTypes(e, tss)
      BY <2>3, TypecheckExpCases, DoubledCases, TypesOfCases DEF ws, ns, tss
    <3>6. QED
      BY <3>4, <3>5
  <2>4. CASE e \in Leaves
    <3>1. TypecheckExp[e] = VisitLeaf(e) /\ Doubled[e] = 1 /\ TypesOf[e] = LeafTypes(e)
      BY <2>4, TypecheckExpCases, DoubledCases, TypesOfCases
    <3>2. QED
      BY <1>1, <2>4, <3>1, JudgedLeaf
  <2>5. QED
    BY <2>1, <2>2, <2>3, <2>4, Kinds
<1>2. ASSUME NEW e \in Exp, Children(e) \subseteq A PROVE e \in A
  BY <1>1, <1>2
<1> HIDE DEF A
<1>3. \A e \in Exp : e \in A
  BY <1>2, ExpInduction
<1>4. QED
  BY <1>3 DEF A

-----------------------------------------------------------------------------
(* What the stages know: the checker starts from an annotated tree, and a  *)
(* run ends with what the resolver threw or with what the checker found.   *)
Refused == exit_code = EXIT_SYMRES_FAILURE /\ value_type = "none" /\ visits = 0

Found(w) == value_type = w.value_type /\ visits = w.visits /\ exit_code = StatusOf(w.value_type)

IInv ==
  /\ exp \in Exp
  /\ stage # "done" => value_type = "none" /\ visits = 0
  /\ stage = "checker" => Annotated(exp)
  /\ stage = "done" => \/ Resolve[exp].throws /\ Refused
                       \/ Annotated(exp) /\ Found(TypecheckExp[exp])

LEMMA IInvInvariant ==
  ASSUME IsAst(Exp), Programs \subseteq Exp
  PROVE  Spec => []IInv
<1>1. Init => IInv
  BY DEF Init, IInv
<1>2. IInv /\ [Next]_etv => IInv'
  <2> SUFFICES ASSUME IInv, [Next]_etv PROVE IInv'
    OBVIOUS
  <2>1. CASE Resolver
    <3>1. /\ exp \in Exp /\ ~ Resolve[exp].throws /\ exp' = Resolve[exp].exp /\ stage' = "checker"
          /\ value_type' = "none" /\ visits' = 0
      BY <2>1 DEF IInv, Resolver
    <3>2. Annotated(exp')
      BY <3>1, Annotates
    <3>3. exp' \in Exp
      BY <3>2 DEF Annotated
    <3>4. QED
      BY <3>1, <3>2, <3>3 DEF IInv
  <2>2. CASE ResolverThrows
    <3>1. stage' = "done" /\ exp' = exp
      BY <2>2 DEF ResolverThrows
    <3>2. QED
      BY <2>2, <3>1 DEF IInv, ResolverThrows, Refused
  <2>3. CASE Typecheck
    <3>1. Annotated(exp) /\ exp' = exp /\ stage' = "done"
      BY <2>3 DEF Typecheck, IInv
    <3>2. Found(TypecheckExp[exp])'
      BY <2>3, <3>1 DEF Typecheck, Found
    <3>3. QED
      BY <3>1, <3>2 DEF IInv
  <2>4. CASE Exited
    BY <2>4 DEF IInv, Exited, etv, Found, Refused
  <2>5. CASE UNCHANGED etv
    BY <2>5 DEF IInv, etv, Found, Refused
  <2>6. QED
    BY <2>1, <2>2, <2>3, <2>4, <2>5 DEF Next
<1>3. QED
  BY <1>1, <1>2, PTL DEF Spec

(* How a run ends, without the walks.                                      *)
Outcome ==
  stage = "done" =>
    \/ ~ Declared[exp] /\ Refused
    \/ /\ Declared[exp]
       /\ \E w : Found(w) /\ Judged(w, Doubled[exp], TypesOf[exp])

LEMMA OutcomeHolds ==
  ASSUME IsAst(Exp), IInv
  PROVE  Outcome
<1>1. exp \in Exp
  BY DEF IInv
<1>2. Resolve[exp].throws <=> ~ Declared[exp]
  BY <1>1, ThrowsUndeclared
<1>3. ASSUME Annotated(exp) PROVE Declared[exp] /\ Judged(TypecheckExp[exp], Doubled[exp], TypesOf[exp])
  <2>1. ~ Resolve[exp].throws
    BY <1>3 DEF Annotated, Resolved
  <2>2. QED
    BY <1>1, <1>2, <1>3, <2>1, EveryWalkJudged
<1>4. QED
  BY <1>2, <1>3 DEF IInv, Outcome

LEMMA OutcomeInvariant ==
  ASSUME IsAst(Exp), Programs \subseteq Exp
  PROVE  Spec => []Outcome
<1>1. Spec => []IInv
  BY IInvInvariant
<1>2. IInv => Outcome
  BY OutcomeHolds
<1>3. QED
  BY <1>1, <1>2, PTL

(* typecheck_exp (typecheck.cpp) finds the type the rules give, and throws *)
(* just when they give none, for every expression and all declarations:    *)
(* the order in which it walks, its early throws and the annotations it    *)
(* reads make no difference.                                               *)
THEOREM FindsTheType ==
  ASSUME IsAst(Exp), Programs \subseteq Exp
  PROVE  Spec => []FollowsRules
<1>1. Outcome => FollowsRules
  <2> SUFFICES ASSUME Outcome, stage = "done", Declared[exp]
               PROVE  /\ \A t \in Type : value_type = t <=> t \in TypesOf[exp]
                      /\ value_type = "throws" <=> TypesOf[exp] = {}
    BY DEF FollowsRules
  <2>1. PICK w : Found(w) /\ Judged(w, Doubled[exp], TypesOf[exp])
    BY DEF Outcome
  <2>2. QED
    BY <2>1, TypeAssumption DEF Found, Judged
<1>2. Spec => []Outcome
  BY OutcomeInvariant
<1>3. QED
  BY <1>1, <1>2, PTL

(* main() (albatross.cpp) exits with 203 just for an undeclared name, with *)
(* 204 just for an expression of declared names that has no type, and no   *)
(* value() of a missing annotation ends it in abort().                     *)
THEOREM BlamesTheStage ==
  ASSUME IsAst(Exp), Programs \subseteq Exp
  PROVE  Spec => []BlamesStage
<1>1. Outcome => BlamesStage
  <2> SUFFICES ASSUME Outcome, stage = "done"
               PROVE  exit_code = IF ~ Declared[exp] THEN EXIT_SYMRES_FAILURE
                                  ELSE IF TypesOf[exp] = {} THEN EXIT_TYPECHECK_FAILURE
                                  ELSE 0
    BY DEF BlamesStage
  <2>1. CASE ~ Declared[exp]
    BY <2>1 DEF Outcome, Refused
  <2>2. CASE Declared[exp]
    <3>1. PICK w : Found(w) /\ Judged(w, Doubled[exp], TypesOf[exp])
      BY <2>2 DEF Outcome
    <3>2. exit_code = StatusOf(w.value_type)
      BY <3>1 DEF Found
    <3>3. CASE w.value_type = "throws"
      <4>1. StatusOf(w.value_type) = EXIT_TYPECHECK_FAILURE
        BY <3>3 DEF StatusOf
      <4>2. TypesOf[exp] = {}
        BY <3>1, <3>3, TypeAssumption DEF Judged
      <4>3. QED
        BY <2>2, <3>2, <4>1, <4>2
    <3>4. CASE w.value_type \in Type
      <4>1. w.value_type # "throws" /\ w.value_type # "terminates"
        BY <3>4, TypeAssumption
      <4>2. StatusOf(w.value_type) = 0
        BY <4>1, Zenon DEF StatusOf
      <4>3. TypesOf[exp] # {}
        BY <3>1, <4>1 DEF Judged
      <4>4. QED
        BY <2>2, <3>2, <4>2, <4>3
    <3>5. QED
      BY <3>1, <3>3, <3>4 DEF Judged
  <2>3. QED
    BY <2>1, <2>2
<1>2. Spec => []Outcome
  BY OutcomeInvariant
<1>3. QED
  BY <1>1, <1>2, PTL

(* An argument of a call is visited twice by visit_call_node               *)
(* (typecheck.cpp), so that an expression under k calls costs 2^k visits:  *)
(* exactly as many unless the walk throws, and then at most as many.       *)
THEOREM VisitsDoubleUnderCalls ==
  ASSUME IsAst(Exp), Programs \subseteq Exp
  PROVE  Spec => []VisitsDouble
<1>1. Outcome => VisitsDouble
  <2> SUFFICES ASSUME Outcome, stage = "done", Declared[exp]
               PROVE  /\ visits <= Doubled[exp]
                      /\ value_type # "throws" => visits = Doubled[exp]
    BY DEF VisitsDouble
  <2>1. PICK w : Found(w) /\ Judged(w, Doubled[exp], TypesOf[exp])
    BY DEF Outcome
  <2>2. QED
    BY <2>1 DEF Found, Judged
<1>2. Spec => []Outcome
  BY OutcomeInvariant
<1>3. QED
  BY <1>1, <1>2, PTL

-----------------------------------------------------------------------------
(* There is a set of all expressions: the theorems above have a subject.   *)
(* Level(n) are the trees of height n at most.                             *)
IsTower(h, n) ==
  DOMAIN h = 0 .. n /\ h[0] = {} /\ \A i \in 0 .. n : i < n => h[i + 1] = Nodes(h[i])

Level(n) == (CHOOSE h : IsTower(h, n))[n]
Trees == UNION {Level(n) : n \in Nat}

LEMMA TowersExist == \A n \in Nat : \E h : IsTower(h, n)
<1> DEFINE A == {n \in Nat : \E h : IsTower(h, n)}
<1>1. 0 \in A
  <2>1. IsTower([i \in 0 .. 0 |-> {}], 0)
    BY DEF IsTower
  <2>2. QED
    BY <2>1
<1>2. ASSUME NEW n \in Nat, n \in A PROVE n + 1 \in A
  <2>1. PICK h : IsTower(h, n)
    BY <1>2
  <2> DEFINE g == [i \in 0 .. n + 1 |-> IF i = n + 1 THEN Nodes(h[n]) ELSE h[i]]
  <2>2. DOMAIN g = 0 .. n + 1 /\ g[0] = {}
    BY <2>1 DEF IsTower
  <2>3. ASSUME NEW i \in 0 .. n + 1, i < n + 1 PROVE g[i + 1] = Nodes(g[i])
    <3>1. CASE i = n
      BY <2>3, <3>1
    <3>2. CASE i < n
      <4>1. g[i + 1] = h[i + 1] /\ g[i] = h[i]
        BY <2>3, <3>2
      <4>2. h[i + 1] = Nodes(h[i])
        BY <2>1, <2>3, <3>2 DEF IsTower
      <4>3. QED
        BY <4>1, <4>2
    <3>3. QED
      BY <2>3, <3>1, <3>2
  <2> HIDE DEF g
  <2>4. IsTower(g, n + 1)
    BY <2>2, <2>3 DEF IsTower
  <2>5. QED
    BY <2>4
<1> HIDE DEF A
<1>3. \A n \in Nat : n \in A
  BY <1>1, <1>2, NaturalInduction
<1>4. QED
  BY <1>3 DEF A

LEMMA TowersAgree ==
  ASSUME NEW n \in Nat, NEW g, IsTower(g, n), NEW m \in Nat, NEW h, IsTower(h, m)
  PROVE  \A i \in Nat : i <= n /\ i <= m => g[i] = h[i]
<1> DEFINE A == {i \in Nat : i <= n /\ i <= m => g[i] = h[i]}
<1>1. 0 \in A
  BY DEF IsTower
<1>2. ASSUME NEW i \in Nat, i \in A PROVE i + 1 \in A
  <2> SUFFICES ASSUME i + 1 <= n, i + 1 <= m PROVE g[i + 1] = h[i + 1]
    OBVIOUS
  <2>1. g[i] = h[i]
    BY <1>2
  <2>2. g[i + 1] = Nodes(g[i]) /\ h[i + 1] = Nodes(h[i])
    BY DEF IsTower
  <2>3. QED
    BY <2>1, <2>2
<1> HIDE DEF A
<1>3. \A i \in Nat : i \in A
  BY <1>1, <1>2, NaturalInduction
<1>4. QED
  BY <1>3 DEF A

LEMMA Levels ==
  Level(0) = {} /\ \A n \in Nat : Level(n + 1) = Nodes(Level(n))
<1> DEFINE tower(n) == CHOOSE h : IsTower(h, n)
<1>1. ASSUME NEW n \in Nat PROVE IsTower(tower(n), n)
  BY TowersExist
<1>2. \A n : Level(n) = tower(n)[n]
  BY DEF Level
<1> HIDE DEF tower
<1>3. Level(0) = {}
  BY <1>1, <1>2 DEF IsTower
<1>4. ASSUME NEW n \in Nat PROVE Level(n + 1) = Nodes(Level(n))
  <2>1. PICK m \in Nat : m = n + 1
    OBVIOUS
  <2>2. IsTower(tower(m), m) /\ IsTower(tower(n), n)
    BY <1>1
  <2>3. tower(m)[n] = tower(n)[n]
    BY <2>1, <2>2, TowersAgree
  <2>4. tower(m)[n + 1] = Nodes(tower(m)[n])
    BY <2>1, <2>2 DEF IsTower
  <2>5. QED
    BY <1>2, <2>1, <2>3, <2>4
<1>5. QED
  BY <1>3, <1>4

LEMMA NodesGrow ==
  ASSUME NEW S, NEW T, S \subseteq T
  PROVE  Nodes(S) \subseteq Nodes(T)
BY DEF Nodes

LEMMA LevelsGrow ==
  ASSUME NEW n \in Nat, NEW m \in Nat, n <= m
  PROVE  Level(n) \subseteq Level(m)
<1> DEFINE A == {i \in Nat : Level(i) \subseteq Level(i + 1)}
<1>1. 0 \in A
  BY Levels
<1>2. ASSUME NEW i \in Nat, i \in A PROVE i + 1 \in A
  <2>1. Level(i) \subseteq Level(i + 1)
    BY <1>2
  <2>2. Nodes(Level(i)) \subseteq Nodes(Level(i + 1))
    BY <2>1, NodesGrow
  <2>3. Level(i + 1) = Nodes(Level(i)) /\ Level((i + 1) + 1) = Nodes(Level(i + 1))
    BY Levels
  <2>4. QED
    BY <2>2, <2>3
<1>3. \A i \in Nat : i \in A
  <2> HIDE DEF A
  <2> QED BY <1>1, <1>2, NaturalInduction
<1> DEFINE B == {k \in Nat : Level(n) \subseteq Level(n + k)}
<1>4. 0 \in B
  OBVIOUS
<1>5. ASSUME NEW k \in Nat, k \in B PROVE k + 1 \in B
  <2>1. Level(n + k) \subseteq Level((n + k) + 1)
    BY <1>3
  <2>2. (n + k) + 1 = n + (k + 1)
    OBVIOUS
  <2>3. QED
    BY <1>5, <2>1, <2>2
<1>6. \A k \in Nat : k \in B
  <2> HIDE DEF B
  <2> QED BY <1>4, <1>5, NaturalInduction
<1>7. m - n \in Nat /\ n + (m - n) = m
  OBVIOUS
<1>8. QED
  BY <1>6, <1>7

LEMMA TreesHaveLevels ==
  ASSUME NEW args \in Seq(Trees)
  PROVE  \E n \in Nat : args \in Seq(Level(n))
<1> DEFINE A == {k \in Nat : k <= Len(args) => \E n \in Nat : \A i \in 1 .. k : args[i] \in Level(n)}
<1>1. 0 \in A
  OBVIOUS
<1>2. ASSUME NEW k \in Nat, k \in A PROVE k + 1 \in A
  <2> SUFFICES ASSUME k + 1 <= Len(args)
               PROVE  \E n \in Nat : \A i \in 1 .. k + 1 : args[i] \in Level(n)
    OBVIOUS
  <2>1. PICK n \in Nat : \A i \in 1 .. k : args[i] \in Level(n)
    BY <1>2
  <2>2. args[k + 1] \in Trees
    OBVIOUS
  <2>3. PICK m \in Nat : args[k + 1] \in Level(m)
    BY <2>2 DEF Trees
  <2>4. PICK top \in Nat : n <= top /\ m <= top
    <3>1. n <= m \/ m <= n
      OBVIOUS
    <3>2. QED
      BY <3>1
  <2>5. Level(n) \subseteq Level(top) /\ Level(m) \subseteq Level(top)
    BY <2>4, LevelsGrow
  <2>6. \A i \in 1 .. k + 1 : args[i] \in Level(top)
    BY <2>1, <2>3, <2>5
  <2>7. QED
    BY <2>6
<1>3. \A k \in Nat : k \in A
  <2> HIDE DEF A
  <2> QED BY <1>1, <1>2, NaturalInduction
<1>4. PICK n \in Nat : \A i \in 1 .. Len(args) : args[i] \in Level(n)
  <2>1. Len(args) \in Nat
    OBVIOUS
  <2>2. Len(args) \in A
    <3> HIDE DEF A
    <3> QED BY <1>3, <2>1
  <2>3. QED
    BY <2>1, <2>2
<1>5. QED
  BY <1>4

(* The expressions of all heights are closed under the constructors, and   *)
(* everything but the empty set of expressions is built by them.           *)
LEMMA TreesClosed == Trees = Nodes(Trees)
<1>1. ASSUME NEW n \in Nat PROVE Level(n) \subseteq Trees /\ Nodes(Level(n)) \subseteq Trees
  <2>1. Nodes(Level(n)) = Level(n + 1) /\ n + 1 \in Nat
    BY Levels
  <2>2. QED
    BY <2>1 DEF Trees
<1>2. ASSUME NEW e \in Trees PROVE e \in Nodes(Trees)
  <2>1. PICK n \in Nat : e \in Level(n)
    BY DEF Trees
  <2>2. n # 0
    BY <2>1, Levels
  <2>3. PICK m \in Nat : n = m + 1
    BY <2>2
  <2>4. e \in Nodes(Level(m))
    BY <2>1, <2>3, Levels
  <2>5. QED
    BY <1>1, <2>4, NodesGrow
<1>3. ASSUME NEW e \in Nodes(Trees) PROVE \E n \in Nat : e \in Nodes(Level(n))
  <2>1. CASE e \in Nodes({})
    BY <2>1, Levels
  <2>2. CASE e \in [kind : {"CallExp"}, name : FunNames, fun_info : {nullopt} \union FunInfo, args : Seq(Trees)]
    <3>1. PICK n \in Nat : e.args \in Seq(Level(n))
      BY <2>2, TreesHaveLevels
    <3>2. QED
      BY <2>2, <3>1 DEF Nodes
  <2>3. CASE e \in [kind : {"UnopExp"}, e : Trees]
    <3>1. PICK n \in Nat : e.e \in Level(n)
      BY <2>3 DEF Trees
    <3>2. QED
      BY <2>3, <3>1 DEF Nodes
  <2>4. CASE e \in [kind : {"BinopExp"}, lhs : Trees, rhs : Trees]
    <3>1. PICK n \in Nat : e.lhs \in Level(n)
      BY <2>4 DEF Trees
    <3>2. PICK m \in Nat : e.rhs \in Level(m)
      BY <2>4 DEF Trees
    <3>3. PICK top \in Nat : n <= top /\ m <= top
      <4>1. n <= m \/ m <= n
        OBVIOUS
      <4>2. QED
        BY <4>1
    <3>4. e.lhs \in Level(top) /\ e.rhs \in Level(top)
      BY <3>1, <3>2, <3>3, LevelsGrow
    <3>5. QED
      BY <2>4, <3>4 DEF Nodes
  <2>5. QED
    BY <2>1, <2>2, <2>3, <2>4 DEF Nodes
<1>4. QED
  BY <1>1, <1>2, <1>3

(* The trees of all heights are an Ast: the hypothesis on Exp, of which    *)
(* ast.h sets no bound, holds of a set.                                    *)
THEOREM AstExists == IsAst(Trees)
<1> DEFINE heights(e) == {n \in Nat : e \in Level(n)}
           rank == [e \in Trees |-> CHOOSE n \in heights(e) : \A m \in heights(e) : n <= m]
<1>1. ASSUME NEW e \in Trees PROVE rank[e] \in heights(e) /\ \A m \in heights(e) : rank[e] <= m
  <2>1. heights(e) \subseteq Nat /\ heights(e) # {}
    BY DEF Trees
  <2> HIDE DEF heights
  <2>2. \E n \in heights(e) : \A m \in heights(e) : n <= m
    BY <2>1, LeastNatural
  <2>3. QED
    BY <2>2
<1>2. DOMAIN rank = Trees /\ \A e \in Trees : rank[e] \in Nat
  BY <1>1
<1>3. rank \in [Trees -> Nat]
  BY <1>1
<1> HIDE DEF rank
<1>4. ASSUME NEW e \in Trees, NEW c \in Children(e) PROVE rank[c] < rank[e]
  <2>1. rank[e] \in Nat /\ e \in Level(rank[e])
    BY <1>1
  <2>2. PICK m \in Nat : rank[e] = m + 1
    <3>1. rank[e] # 0
      BY <2>1, Levels
    <3>2. rank[e] - 1 \in Nat /\ rank[e] = (rank[e] - 1) + 1
      BY <2>1, <3>1
    <3>3. QED
      BY <3>2
  <2>3. e \in Nodes(Level(m))
    BY <2>1, <2>2, Levels
  <2>4. c \in Level(m)
    BY <1>4, <2>3 DEF Nodes, Children
  <2>5. c \in Trees
    BY <2>4 DEF Trees
  <2>6. rank[c] <= m /\ rank[c] \in Nat
    BY <1>1, <2>4, <2>5
  <2>7. QED
    BY <2>2, <2>6
<1>5. Falls(Trees, rank)
  BY <1>3, <1>4 DEF Falls
<1>6. QED
  BY <1>5, TreesClosed DEF IsAst
=============================================================================
