------------------------------- MODULE SymRes -------------------------------
(***************************************************************************)
(* SymbolResolverVisitor (symres.h, symres.cpp): one walk over the AST     *)
(* that declares every variable and function and resolves every name to    *)
(* the declaration in force where it is used.                              *)
(*                                                                         *)
(* The program is chosen as it is walked: an action is the handler of one  *)
(* statement the parser can produce (visit_X_node with all it calls, up to *)
(* the first nested statement list), and another closes a list when        *)
(* visit_stmts reaches its end.  open is the C++ call stack of the         *)
(* statement lists being walked.  What the resolver reads of an expression *)
(* is Refs[e]: the VarNode and CallNode names in it, in accept order.      *)
(***************************************************************************)
EXTENDS SymTab

CONSTANTS
  Type,                 \* types a declaration may name
  Exp,                  \* expressions
  Refs,                 \* [Exp -> Seq(Ref)], the names an expression mentions
  Params,               \* parameter lists of function declarations
  TopLevelFuns,         \* programs declare functions outside any block only
  MaxSyms,              \* bound: variables declared in one program
  MaxDepth              \* bound: nesting of statement lists

Ref   == [kind : {"var", "fun"}, name : Name]
Param == [name : Name, type : Type]

ASSUME RefsAssumption == Refs \in [Exp -> Seq(Ref)]
ASSUME ParamsAssumption == Params \subseteq Seq(Param)
ASSUME BoundsAssumption ==
  MaxSyms \in Nat /\ MaxDepth \in Nat /\ TopLevelFuns \in BOOLEAN

VARIABLES
  vars,                 \* SymbolTable<VarInfo>
  functions,            \* SymbolTable<FunInfo>
  open,                 \* the statement lists being walked, outermost first
  status,               \* "visiting", "resolved", or "error": AlbatrossError thrown
  captures              \* history: the variables function bodies take from outside them

srsv == <<vars, functions, open, status, captures>>

VarInfo == [var_type : Type, var_idx : Nat \ {0}]
FunInfo == [ret_type : Type, var_idx_db : Nat \ {0}, params : Params]

ASSUME NulloptAssumption == nullopt \notin VarInfo

Lists == {"then_stmts", "else_stmts", "while_body", "otherwise_stmts", "repeat_body"}
Frame ==
  [list : Lists] \union [list : {"fundec_body"}, fun : Name, base : Nat \ {0}]

FunFrames == {i \in DOMAIN open : open[i].list = "fundec_body"}

-----------------------------------------------------------------------------
(* Expressions.  The walk throws at the first name without a declaration.  *)

Resolves(refs) ==
  \A i \in DOMAIN refs :
    FindSymbol(IF refs[i].kind = "var" THEN vars ELSE functions, refs[i].name) # nullopt

(* The var_idx of every VarNode of an expression, once resolved.           *)
VarsRead(refs) ==
  {FindSymbol(vars, refs[i].name).var_idx : i \in {j \in DOMAIN refs : refs[j].kind = "var"}}

(* A function under declaration captures what its body reads of variables  *)
(* declared before its own parameters.  Functions at top level and         *)
(* functions in a block are told apart.                                    *)
Captured(refs) ==
  [level \in {"top", "nested"} |->
     captures[level] \union
       {v \in VarsRead(refs) :
          \E i \in FunFrames : v < open[i].base /\ (level = "top" <=> i = 1)}]

(* AlbatrossError with EXIT_SYMRES_FAILURE: the exception unwinds main().  *)
Throw ==
  /\ status' = "error"
  /\ UNCHANGED <<vars, functions, open, captures>>

(* Throw unless the expressions' names resolve, else go on with Then.      *)
VisitExp(refs, Then) ==
  /\ status = "visiting"
  /\ \/ ~ Resolves(refs) /\ Throw
     \/ Resolves(refs) /\ Then

-----------------------------------------------------------------------------
(* Statements without a nested list.                                       *)

UseNames(refs) ==
  VisitExp(refs, /\ captures' = Captured(refs)
                 /\ UNCHANGED <<vars, functions, open, status>>)

(* The left side starts with an identifier that is not called (parse_stmt  *)
(* decides on that); operators after it add names as the right side does.  *)
VisitAssign(lhs, rhs) == UseNames(<<[kind |-> "var", name |-> lhs]>> \o Refs[rhs])

(* The callee is looked up before any argument is.                         *)
VisitCallStmt(f, args) == UseNames(<<[kind |-> "fun", name |-> f]>> \o Refs[args])

VisitRet(e) == UseNames(Refs[e])

(* The name must be new to the innermost scope; the initialiser is         *)
(* resolved before the name is added.                                      *)
VisitVardecl(n, t, rhs) ==
  IF CurScope(vars)[n] # nullopt
  THEN status = "visiting" /\ Throw
  ELSE VisitExp(Refs[rhs],
         /\ vars.sym_idx <= MaxSyms
         /\ vars' = AddSymbol(vars, n, [var_type |-> t, var_idx |-> vars.sym_idx])
         /\ captures' = Captured(Refs[rhs])
         /\ UNCHANGED <<functions, open, status>>)

-----------------------------------------------------------------------------
(* Statements with nested lists: the condition, then a scope per list.     *)

(* Mutant: the nested list is walked in the scope around it.               *)
OpenListNoScope(cond, list) ==
  VisitExp(Refs[cond],
    /\ Len(open) < MaxDepth
    /\ open' = Append(open, [list |-> list])
    /\ captures' = Captured(Refs[cond])
    /\ UNCHANGED <<vars, functions, status>>)

OpenList(cond, list) ==
  VisitExp(Refs[cond],
    /\ Len(open) < MaxDepth
    /\ vars' = EnterScope(vars)
    /\ open' = Append(open, [list |-> list])
    /\ captures' = Captured(Refs[cond])
    /\ UNCHANGED <<functions, status>>)

AtEndOf(list) ==
  /\ status = "visiting"
  /\ open # <<>>
  /\ open[Len(open)].list = list

SwitchList(from, to) ==
  /\ AtEndOf(from)
  /\ vars' = EnterScope(ExitScope(vars))
  /\ open' = [open EXCEPT ![Len(open)] = [list |-> to]]
  /\ UNCHANGED <<functions, status, captures>>

CloseList(list) ==
  /\ AtEndOf(list)
  /\ vars' = ExitScope(vars)
  /\ open' = SubSeq(open, 1, Len(open) - 1)
  /\ UNCHANGED <<functions, status, captures>>

VisitIf(cond)  == OpenList(cond, "then_stmts")
EndThen        == SwitchList("then_stmts", "else_stmts")
EndElse        == CloseList("else_stmts")

VisitWhile(cond) == OpenList(cond, "while_body")
EndWhileBody     == SwitchList("while_body", "otherwise_stmts")
EndOtherwise     == CloseList("otherwise_stmts")

VisitRepeat(cond) == OpenList(cond, "repeat_body")
EndRepeat         == CloseList("repeat_body")

(* The scope of a function body after its parameters are added, in order,  *)
(* from index base on: emplace keeps the first of two parameters with one  *)
(* name, and both take an index.                                           *)
ParamScope(ps, base) ==
  LET First(n) == CHOOSE i \in DOMAIN ps :
                    /\ ps[i].name = n
                    /\ \A j \in DOMAIN ps : ps[j].name = n => i <= j
  IN  [n \in Name |->
         IF \A i \in DOMAIN ps : ps[i].name # n
         THEN nullopt
         ELSE [var_type |-> ps[First(n)].type, var_idx |-> base + First(n) - 1]]

(* The function is declared before its body is walked; parameters and body *)
(* share a scope.  functions has one scope for the whole program.          *)
VisitFundec(f, t, ps) ==
  /\ status = "visiting"
  /\ TopLevelFuns => open = <<>>
  /\ \/ CurScope(functions)[f] # nullopt /\ Throw
     \/ /\ CurScope(functions)[f] = nullopt
        /\ Len(open) < MaxDepth
        /\ vars.sym_idx + Len(ps) <= MaxSyms + 1
        /\ functions' = AddSymbol(functions, f,
             [ret_type |-> t, var_idx_db |-> functions.sym_idx, params |-> ps])
        /\ vars' = [scopes  |-> Append(vars.scopes, ParamScope(ps, vars.sym_idx)),
                    sym_idx |-> vars.sym_idx + Len(ps)]
        /\ open' = Append(open, [list |-> "fundec_body", fun |-> f, base |-> vars.sym_idx])
        /\ UNCHANGED <<status, captures>>

EndFundec == CloseList("fundec_body")

(* visit_stmts returns to main() at the end of the program.                *)
Finish ==
  /\ status = "visiting"
  /\ open = <<>>
  /\ status' = "resolved"
  /\ UNCHANGED <<vars, functions, open, captures>>

Stopped == status # "visiting" /\ UNCHANGED srsv

-----------------------------------------------------------------------------
Init ==
  /\ vars = NewTable
  /\ functions = NewTable
  /\ open = <<>>
  /\ status = "visiting"
  /\ captures = [level \in {"top", "nested"} |-> {}]

VisitStmt ==
  \/ \E lhs \in Name, rhs \in Exp : VisitAssign(lhs, rhs)
  \/ \E f \in Name, args \in Exp : VisitCallStmt(f, args)
  \/ \E e \in Exp : VisitRet(e)
  \/ \E n \in Name, t \in Type, rhs \in Exp : VisitVardecl(n, t, rhs)
  \/ \E cond \in Exp : VisitIf(cond) \/ VisitWhile(cond) \/ VisitRepeat(cond)
  \/ \E f \in Name, t \in Type, ps \in Params : VisitFundec(f, t, ps)

EndList == EndThen \/ EndElse \/ EndWhileBody \/ EndOtherwise \/ EndRepeat \/ EndFundec

Next == VisitStmt \/ EndList \/ Finish \/ Stopped

Spec == Init /\ [][Next]_srsv

-----------------------------------------------------------------------------
(* Properties.                                                             *)

TypeOK ==
  /\ vars \in TableOf(VarInfo)
  /\ functions \in TableOf(FunInfo)
  /\ open \in Seq(Frame)
  /\ status \in {"visiting", "resolved", "error"}
  /\ captures \in [{"top", "nested"} -> SUBSET Nat]

(* One scope per statement list being walked, plus the global one, on      *)
(* every path through the handlers; so the assertions of find_symbol (a    *)
(* scope exists) and exit_scope (it never pops the global scope) hold, and *)
(* functions keeps the one scope the constructor entered.                  *)
ScopePerList ==
  /\ Len(vars.scopes) = Len(open) + 1
  /\ Len(functions.scopes) = 1

(* A var_idx stands for one variable: no two variables that are live at    *)
(* the same time share one, also when one shadows the other, and a scope   *)
(* entered later holds only higher indexes than the scopes around it, all  *)
(* of them below sym_idx, which add_symbol hands out next.                 *)
SlotsDistinct ==
  \A i, j \in DOMAIN vars.scopes, n, m \in Name :
    LET x == vars.scopes[i][n]
        y == vars.scopes[j][m]
    IN  x # nullopt /\ y # nullopt =>
          /\ x.var_idx < vars.sym_idx
          /\ i < j => x.var_idx < y.var_idx
          /\ i = j /\ n # m => x.var_idx # y.var_idx

(* functions never forgets a function, so its body can be called from      *)
(* anywhere after its declaration.  For a function declared at top level   *)
(* this is safe: every variable its body takes from outside, through       *)
(* blocks and functions nested in it too, exists from then on.             *)
CapturesLive ==
  \A v \in captures["top"] :
    \E i \in DOMAIN vars.scopes, n \in Name :
      vars.scopes[i][n] # nullopt /\ vars.scopes[i][n].var_idx = v

(* The symbol tables implement lexical scoping: what find_symbol answers   *)
(* for each name is the environment of LexScope.                           *)
EnvOf(scopes) == [n \in Name |-> Lookup(scopes, n)]

LS == INSTANCE LexScope WITH
        env   <- EnvOf(vars.scopes),
        saved <- [k \in 1 .. Len(vars.scopes) - 1 |-> EnvOf(SubSeq(vars.scopes, 1, k))],
        fresh <- vars.sym_idx

LexScoping == LS!Spec

(* The language definition, albatross.pdf page 1: "Functions may be        *)
(* defined in any order, and function f can call function g not yet        *)
(* defined."  Whatever has been walked may go on with a declaration of f   *)
(* that fits, so a call of an f not known yet is no reason to stop.        *)
ForwardCalls ==
  [][\A f \in Name, args \in Exp :
       VisitCallStmt(f, args) /\ Resolves(Refs[args]) => status' # "error"]_srsv
=============================================================================
