------------------------------ MODULE ExpTypes ------------------------------
(***************************************************************************)
(* An expression through the two stages that judge it: the ExpVisitor half *)
(* of SymbolResolverVisitor (symres.cpp) annotates names, then             *)
(* typecheck_exp and the ExpVisitor half of TypecheckVisitor               *)
(* (typecheck.cpp) read the annotations; main() (albatross.cpp) turns what *)
(* they throw into an exit status.                                         *)
(*                                                                         *)
(* An expression is a record with the field names of ast.h.  A walk of the *)
(* checker ends with a type, with "throws" where the code throws           *)
(* AlbatrossError, or with "terminates" where value() of an annotation     *)
(* that is not there throws bad_optional_access: no handler is around it,  *)
(* neither in the visitor nor in main().                                   *)
(***************************************************************************)
EXTENDS Integers, Sequences

CONSTANTS
  Type,
  VarNames, FunNames,
  Vars, Funs,           \* declared name |-> type, declared name |-> FunInfo
  nullopt,              \* no annotation
  Exp,                  \* the expressions there are
  Programs              \* those to judge, as parsed

FunInfo == [ret_type : Type, params : Seq(Type)]

(* The nodes of expressions whose children are in E.                       *)
Nodes(E) ==
  [kind : {"IntExp", "StringExp"}]
    \union [kind : {"VarExp"}, name : VarNames, var_info : {nullopt} \union Type]
    \union [kind : {"CallExp"}, name : FunNames, fun_info : {nullopt} \union FunInfo, args : Seq(E)]
    \union [kind : {"BinopExp"}, lhs : E, rhs : E]
    \union [kind : {"UnopExp"}, e : E]

ASSUME TypeAssumption ==
  {"int", "string"} \subseteq Type /\ {"throws", "terminates", "none"} \cap Type = {}

ASSUME DeclarationsAssumption ==
  /\ DOMAIN Vars \subseteq VarNames /\ Vars \in [DOMAIN Vars -> Type]
  /\ DOMAIN Funs \subseteq FunNames /\ Funs \in [DOMAIN Funs -> FunInfo]

ASSUME NulloptAssumption == nullopt \notin Type /\ nullopt \notin FunInfo

VARIABLES
  exp,                  \* the expression, annotated once resolved
  stage,                \* the stage to run next, "done" after the last
  exit_code,            \* of main(), 0 where it goes on to the optimisation loop
  value_type,           \* what typecheck_exp found, "none" before
  visits                \* calls of accept() by the checker so far

etv == <<exp, stage, exit_code, value_type, visits>>

EXIT_SYMRES_FAILURE == 203
EXIT_TYPECHECK_FAILURE == 204
SIGABRT_STATUS == 134

-----------------------------------------------------------------------------
(* A resolution is the tree, annotated where the walk did not throw; where *)
(* it did, main() drops the tree.  Of a VarInfo the type is kept.          *)
Resolved(e) == [exp |-> e, throws |-> FALSE]
Unknown(e) == [exp |-> e, throws |-> TRUE]

ResolveVar(e) ==
  IF e.name \in DOMAIN Vars THEN Resolved([e EXCEPT !.var_info = Vars[e.name]]) ELSE Unknown(e)

ResolveLeaf(e) == IF e.kind = "VarExp" THEN ResolveVar(e) ELSE Resolved(e)

(* Over what its operands resolve to.                                      *)
ResolveBinop(e, l, r) ==
  IF l.throws \/ r.throws THEN Unknown(e) ELSE Resolved([kind |-> "BinopExp", lhs |-> l.exp, rhs |-> r.exp])

ResolveUnop(e, x) ==
  IF x.throws THEN Unknown(e) ELSE Resolved([e EXCEPT !.e = x.exp])

ResolveCallOnly(e, args) ==            \* mutant: the arguments are not resolved
  IF e.name \in DOMAIN Funs THEN Resolved([e EXCEPT !.fun_info = Funs[e.name]]) ELSE Unknown(e)

CallTo(n, info, args) == [kind |-> "CallExp", name |-> n, fun_info |-> info, args |-> args]

ResolveCall(e, args) ==
  IF e.name \notin DOMAIN Funs \/ \E i \in DOMAIN e.args : args[i].throws THEN Unknown(e)
  ELSE Resolved(CallTo(e.name, Funs[e.name], [i \in DOMAIN e.args |-> args[i].exp]))

Resolve[e \in Exp] ==
  CASE e.kind = "BinopExp" -> ResolveBinop(e, Resolve[e.lhs], Resolve[e.rhs])
    [] e.kind = "UnopExp"  -> ResolveUnop(e, Resolve[e.e])
    [] e.kind = "CallExp"  -> ResolveCall(e, [i \in DOMAIN e.args |-> Resolve[e.args[i]]])
    [] OTHER               -> ResolveLeaf(e)

-----------------------------------------------------------------------------
Walk(t, n) == [value_type |-> t, visits |-> n]
Ends(w) == w.value_type \in {"throws", "terminates"}      \* by an exception

VisitLeaf(e) ==
  CASE e.kind = "IntExp"    -> Walk("int", 1)
    [] e.kind = "StringExp" -> Walk("string", 1)
    [] e.kind = "VarExp"    -> Walk(IF e.var_info = nullopt THEN "terminates" ELSE e.var_info, 1)

(* Operators: the operands left to right, both must be int.                *)
VisitBinop(l, r) ==
  LET n == 1 + l.visits + r.visits
  IN  IF Ends(l) THEN Walk(l.value_type, 1 + l.visits)
      ELSE IF Ends(r) THEN Walk(r.value_type, n)
      ELSE Walk(IF l.value_type = "int" /\ r.value_type = "int" THEN "int" ELSE "throws", n)

VisitUnop(w) ==
  Walk(IF Ends(w) THEN w.value_type
       ELSE IF w.value_type = "int" THEN "int" ELSE "throws", 1 + w.visits)

(* The first loop of visit_call_node, after its first n turns: it stops at *)
(* the first argument that throws or is not of its parameter's type.       *)
Turn(before, w, param) ==
  IF Ends(before) THEN before
  ELSE Walk(IF Ends(w) THEN w.value_type ELSE IF w.value_type # param THEN "throws" ELSE "void",
            before.visits + w.visits)

Turns(args, params) ==
  LET loop[n \in 0 .. Len(params)] ==
        IF n = 0 THEN Walk("void", 0) ELSE Turn(loop[n - 1], args[n], params[n])
  IN  loop

FirstLoop(args, params) == Turns(args, params)[Len(params)]

(* The second loop visits every argument again.                            *)
CallWalk(e, args, counted, times) ==
  LET first == FirstLoop(args, e.fun_info.params)
  IN  IF ~ counted THEN Walk("throws", 1)
      ELSE IF Ends(first) THEN Walk(first.value_type, 1 + first.visits)
      ELSE Walk(e.fun_info.ret_type, 1 + times * first.visits)

VisitCallNoCount(e, args) ==           \* mutant: surplus arguments are not noticed
  CallWalk(e, args, Len(e.args) >= Len(e.fun_info.params), 2)

VisitCallThreeTimes(e, args) ==        \* mutant: the extra accept() of visit_call_stmt_node
  CallWalk(e, args, Len(e.args) = Len(e.fun_info.params), 3)

VisitCall(e, args) ==
  IF e.fun_info = nullopt THEN Walk("terminates", 1)
  ELSE CallWalk(e, args, Len(e.args) = Len(e.fun_info.params), 2)

TypecheckExp[e \in Exp] ==
  CASE e.kind = "BinopExp" -> VisitBinop(TypecheckExp[e.lhs], TypecheckExp[e.rhs])
    [] e.kind = "UnopExp"  -> VisitUnop(TypecheckExp[e.e])
    [] e.kind = "CallExp"  -> VisitCall(e, [i \in DOMAIN e.args |-> TypecheckExp[e.args[i]]])
    [] OTHER               -> VisitLeaf(e)

-----------------------------------------------------------------------------
Init ==
  /\ exp \in Programs
  /\ stage = "resolver"
  /\ exit_code = 0
  /\ value_type = "none"
  /\ visits = 0

Resolver ==
  /\ stage = "resolver"
  /\ ~ Resolve[exp].throws
  /\ exp' = Resolve[exp].exp
  /\ stage' = "checker"
  /\ UNCHANGED <<exit_code, value_type, visits>>

ResolverThrows ==
  /\ stage = "resolver"
  /\ Resolve[exp].throws
  /\ stage' = "done"
  /\ exit_code' = EXIT_SYMRES_FAILURE
  /\ UNCHANGED <<exp, value_type, visits>>

StatusOf(t) ==
  CASE t = "throws"     -> EXIT_TYPECHECK_FAILURE
    [] t = "terminates" -> SIGABRT_STATUS
    [] OTHER            -> 0

Typecheck ==
  /\ stage = "checker"
  /\ LET w == TypecheckExp[exp]
     IN  /\ value_type' = w.value_type
         /\ visits' = w.visits
         /\ exit_code' = StatusOf(w.value_type)
  /\ stage' = "done"
  /\ UNCHANGED exp

Exited == stage = "done" /\ UNCHANGED etv

Next == Resolver \/ ResolverThrows \/ Typecheck \/ Exited

Spec == Init /\ [][Next]_etv

-----------------------------------------------------------------------------
(* The rules over the declarations, without annotations or order.          *)
Declared[e \in Exp] ==
  CASE e.kind = "BinopExp" -> Declared[e.lhs] /\ Declared[e.rhs]
    [] e.kind = "UnopExp"  -> Declared[e.e]
    [] e.kind = "CallExp"  -> e.name \in DOMAIN Funs /\ \A i \in DOMAIN e.args : Declared[e.args[i]]
    [] OTHER               -> e.kind = "VarExp" => e.name \in DOMAIN Vars

(* The types the rules give an expression: one or none.                    *)
LeafTypes(e) ==
  CASE e.kind = "IntExp"    -> {"int"}
    [] e.kind = "StringExp" -> {"string"}
    [] e.kind = "VarExp"    -> {Vars[x] : x \in {e.name} \cap DOMAIN Vars}

CallTypes(e, args) ==
  {Funs[f].ret_type : f \in {g \in {e.name} \cap DOMAIN Funs :
                               /\ Len(e.args) = Len(Funs[g].params)
                               /\ \A i \in DOMAIN e.args : Funs[g].params[i] \in args[i]}}

TypesOf[e \in Exp] ==
  CASE e.kind = "BinopExp" -> {"int"} \cap TypesOf[e.lhs] \cap TypesOf[e.rhs]
    [] e.kind = "UnopExp"  -> {"int"} \cap TypesOf[e.e]
    [] e.kind = "CallExp"  -> CallTypes(e, [i \in DOMAIN e.args |-> TypesOf[e.args[i]]])
    [] OTHER               -> LeafTypes(e)

(* The walk finds the type the rules give an expression of declared names, *)
(* and throws just when there is none, however errors and calls are nested.*)
FollowsRules ==
  stage = "done" /\ Declared[exp] =>
    /\ \A t \in Type : value_type = t <=> t \in TypesOf[exp]
    /\ value_type = "throws" <=> TypesOf[exp] = {}

(* The exit status names the stage at fault (error.h): 203 just for a name *)
(* that is not declared, wherever it stands and whatever else is wrong,    *)
(* then 204 just for an expression of no type.  So the resolver leaves     *)
(* nothing unannotated that the checker reads: it never ends in abort().   *)
BlamesStage ==
  stage = "done" =>
    exit_code = IF ~ Declared[exp] THEN EXIT_SYMRES_FAILURE
                ELSE IF TypesOf[exp] = {} THEN EXIT_TYPECHECK_FAILURE
                ELSE 0

(* The nodes of an expression, each counted once for every visit it gets   *)
(* when every enclosing call visits its arguments twice.                   *)
Sums(ns, k) == LET sum[n \in 0 .. k] == IF n = 0 THEN 0 ELSE sum[n - 1] + ns[n] IN sum
Sum(ns, k) == Sums(ns, k)[k]

Doubled[e \in Exp] ==
  CASE e.kind = "BinopExp" -> 1 + Doubled[e.lhs] + Doubled[e.rhs]
    [] e.kind = "UnopExp"  -> 1 + Doubled[e.e]
    [] e.kind = "CallExp"  -> 1 + 2 * Sum([i \in DOMAIN e.args |-> Doubled[e.args[i]]], Len(e.args))
    [] OTHER               -> 1

(* What typing costs: an expression under k calls is visited 2^k times, no *)
(* more, and fewer times only if the walk throws.                          *)
VisitsDouble ==
  stage = "done" /\ Declared[exp] =>
    /\ visits <= Doubled[exp]
    /\ value_type # "throws" => visits = Doubled[exp]
=============================================================================
