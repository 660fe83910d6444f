------------------------------ MODULE TypeCheck ------------------------------
(***************************************************************************)
(* TypecheckVisitor (typecheck.h, typecheck.cpp): the walk over a resolved *)
(* AST that checks every statement's types.  What outlives a handler is    *)
(* fun_ret_type, the return type a return statement is held to.            *)
(*                                                                         *)
(* As in SymRes the program is chosen as it is walked, and open is the     *)
(* stack of statement lists.  An expression is what typecheck_exp makes of *)
(* it: a type, or "throws" (module ExpTypes has the walk over expression   *)
(* trees; it neither reads nor writes fun_ret_type).                       *)
(***************************************************************************)
EXTENDS Integers, Sequences

CONSTANTS
  Type,                 \* "int" and "void" among them
  nullopt,              \* the empty std::optional
  TopLevelFuns,         \* programs declare functions outside any block only
  MaxArgs,              \* bound: parameters and arguments of a call
  MaxDepth              \* bound: nesting of statement lists

ASSUME TypeAssumption ==
  {"int", "void"} \subseteq Type /\ "throws" \notin Type /\ nullopt \notin Type
ASSUME BoundsAssumption ==
  TopLevelFuns \in BOOLEAN /\ MaxArgs \in Nat /\ MaxDepth \in Nat

VARIABLES
  fun_ret_type,         \* std::optional<Type>
  open,                 \* the statement lists being walked, outermost first
  status,               \* "visiting", "typed", "error" (AlbatrossError) or "crashed"
  ill                   \* history: a statement walked so far breaks a typing rule

tcsv == <<fun_ret_type, open, status, ill>>

Exp == Type \union {"throws"}
Lists == {"then_stmts", "else_stmts", "while_body", "otherwise_stmts", "repeat_body"}
Frame == [list : Lists] \union [list : {"fundec_body"}, ret : Type]
TypeLists == UNION {[1 .. k -> Exp] : k \in 0 .. MaxArgs}

-----------------------------------------------------------------------------
(* A handler throws AlbatrossError unless Ok, its checks in the code.      *)
(* Rule is what the language asks of the statement.                        *)
Judge(Ok, Rule) ==
  /\ status = "visiting"
  /\ status' = IF Ok THEN "visiting" ELSE "error"
  /\ ill' = (ill \/ ~ Rule)

Check(Ok, Rule) == Judge(Ok, Rule) /\ UNCHANGED <<fun_ret_type, open>>

(* The innermost function around the current statement, 0 for none.        *)
FunAround ==
  LET F == {i \in DOMAIN open : open[i].list = "fundec_body"}
  IN  IF F = {} THEN 0 ELSE CHOOSE i \in F : \A j \in F : j <= i

(* What a return statement here must return: the type of the function it   *)
(* is in, and int outside of functions.                                    *)
Required == IF FunAround = 0 THEN "int" ELSE open[FunAround].ret

-----------------------------------------------------------------------------
(* The left side is cast to VarNode unchecked: any other expression there  *)
(* leaves a null pointer, and the next line dereferences it.               *)
VisitAssign(lhs_is_var, lhs, rhs) ==
  IF lhs_is_var
  THEN Check(rhs = lhs, rhs = lhs)
  ELSE /\ status = "visiting"
       /\ status' = "crashed"
       /\ ill' = TRUE
       /\ UNCHANGED <<fun_ret_type, open>>

VisitVardecl(t, rhs) == Check(rhs = t, rhs = t)

(* The number of arguments first, then argument by argument, up to the     *)
(* first that throws or has the wrong type.                                *)
VisitCallStmt(params, args) ==
  Check(/\ Len(args) = Len(params)
        /\ \A i \in DOMAIN args : args[i] = params[i],
        args = params)

(* A return without an expression has type void.  Inside a function, as    *)
(* far as fun_ret_type tells, the declared type is asked for, else int.    *)
VisitRetSwapped(e) ==                  \* mutant: int asked for inside functions too
  Check(/\ e # "throws"
        /\ fun_ret_type # nullopt => e = "int"
        /\ fun_ret_type = nullopt => e = "int",
        e = Required)

VisitRet(e) ==
  Check(/\ e # "throws"
        /\ fun_ret_type # nullopt => e = fun_ret_type
        /\ fun_ret_type = nullopt => e = "int",
        e = Required)

-----------------------------------------------------------------------------
OpenList(cond, list) ==
  /\ Len(open) < MaxDepth
  /\ Judge(cond = "int", cond = "int")
  /\ open' = IF cond = "int" THEN Append(open, [list |-> list]) ELSE open
  /\ UNCHANGED fun_ret_type

AtEndOf(list) ==
  /\ status = "visiting"
  /\ open # <<>>
  /\ open[Len(open)].list = list

SwitchList(from, to) ==
  /\ AtEndOf(from)
  /\ open' = [open EXCEPT ![Len(open)] = [list |-> to]]
  /\ UNCHANGED <<fun_ret_type, status, ill>>

CloseList(list) ==
  /\ AtEndOf(list)
  /\ open' = SubSeq(open, 1, Len(open) - 1)
  /\ UNCHANGED <<fun_ret_type, status, ill>>

VisitIf(cond)  == OpenList(cond, "then_stmts")
EndThen        == SwitchList("then_stmts", "else_stmts")
EndElse        == CloseList("else_stmts")

VisitWhile(cond) == OpenList(cond, "while_body")
EndWhileBody     == SwitchList("while_body", "otherwise_stmts")
EndOtherwise     == CloseList("otherwise_stmts")

VisitRepeat(cond) == OpenList(cond, "repeat_body")
EndRepeat         == CloseList("repeat_body")

(* fun_ret_type holds one type: it is set before the body and reset, not   *)
(* restored, after it.                                                     *)
VisitFundec(t) ==
  /\ status = "visiting"
  /\ TopLevelFuns => open = <<>>
  /\ Len(open) < MaxDepth
  /\ fun_ret_type' = t
  /\ open' = Append(open, [list |-> "fundec_body", ret |-> t])
  /\ UNCHANGED <<status, ill>>

EndFundecNoReset ==                    \* mutant: reset() forgotten
  /\ AtEndOf("fundec_body")
  /\ open' = SubSeq(open, 1, Len(open) - 1)
  /\ UNCHANGED <<fun_ret_type, status, ill>>

EndFundec ==
  /\ AtEndOf("fundec_body")
  /\ fun_ret_type' = nullopt
  /\ open' = SubSeq(open, 1, Len(open) - 1)
  /\ UNCHANGED <<status, ill>>

Finish ==
  /\ status = "visiting"
  /\ open = <<>>
  /\ status' = "typed"
  /\ UNCHANGED <<fun_ret_type, open, ill>>

Stopped == status # "visiting" /\ UNCHANGED tcsv

-----------------------------------------------------------------------------
InitPlainType ==                       \* mutant: a Type for the optional, left unset
  /\ fun_ret_type = "unset"
  /\ open = <<>>
  /\ status = "visiting"
  /\ ill = FALSE

Init ==
  /\ fun_ret_type = nullopt
  /\ open = <<>>
  /\ status = "visiting"
  /\ ill = FALSE

VisitStmt ==
  \/ \E lhs_is_var \in BOOLEAN, lhs \in Type, rhs \in Exp : VisitAssign(lhs_is_var, lhs, rhs)
  \/ \E t \in Type, rhs \in Exp : VisitVardecl(t, rhs)
  \/ \E params, args \in TypeLists :
       (\A i \in DOMAIN params : params[i] \in Type) /\ VisitCallStmt(params, args)
  \/ \E e \in Exp : VisitRet(e)
  \/ \E cond \in Exp : VisitIf(cond) \/ VisitWhile(cond) \/ VisitRepeat(cond)
  \/ \E t \in Type : VisitFundec(t)

EndList == EndThen \/ EndElse \/ EndWhileBody \/ EndOtherwise \/ EndRepeat \/ EndFundec

Next == VisitStmt \/ EndList \/ Finish \/ Stopped

Spec == Init /\ [][Next]_tcsv

-----------------------------------------------------------------------------
TypeOK ==
  /\ fun_ret_type \in Type \union {nullopt}
  /\ open \in Seq(Frame)
  /\ status \in {"visiting", "typed", "error", "crashed"}
  /\ ill \in BOOLEAN

(* typecheck.cpp:314: "If we are inside a function definition, the member  *)
(* variable fun_ret_type will contain the declared return type of the      *)
(* function."  And outside of functions it is empty.                       *)
RetTypeTracks ==
  fun_ret_type = IF FunAround = 0 THEN nullopt ELSE open[FunAround].ret

(* The walk accepts exactly the programs that keep the typing rules: it    *)
(* goes on while no rule is broken, and an AlbatrossError is thrown for a  *)
(* program that breaks one.  Rules are stated over the declarations around *)
(* a statement, whatever fun_ret_type says.                                *)
Judgement ==
  /\ status \in {"visiting", "typed"} => ~ ill
  /\ status = "error" => ill

(* typecheck.cpp:139: "Throw an AlbatrossError if the dynamic cast fails." *)
(* No program makes the visitor fail in another way than by that error.    *)
NoCrash == status # "crashed"
=============================================================================
