------------------------------ MODULE Optimizer ------------------------------
(***************************************************************************)
(* The optimisation loop of main() (albatross.cpp): fold_stmts and         *)
(* dce_stmts over the whole program, again and again until neither reports *)
(* a change.  Statements keep their expressions only as far as the loop    *)
(* tells them apart: Folded[e] is what fold_exp makes of e (module Fold).  *)
(***************************************************************************)
EXTENDS Dce

CONSTANTS
  Exp,                  \* expressions
  Folded,               \* [Exp -> Exp], fold_exp
  Names,                \* variables, told apart by the resolver's indexes, and functions
  Uses,                 \* [Exp -> SUBSET Names], the names in an expression
  Stmt,                 \* the statements there are
  Programs              \* statement lists the parser, resolver and type checker let through

(* The nodes of statements whose own lists are over S.                     *)
Nodes(S) ==
  [kind : {"AssignStmt", "CallStmt", "RetStmt"}, exp : Exp]
    \union [kind : {"VardeclStmt"}, name : Names, exp : Exp]
    \union [kind : {"IfStmt"}, cond : Exp, then_stmts : Seq(S), else_stmts : Seq(S)]
    \union [kind : {"WhileStmt"}, cond : Exp, body_stmts : Seq(S), otherwise_stmts : Seq(S)]
    \union [kind : {"RepeatStmt"}, cond : Exp, body_stmts : Seq(S)]
    \union [kind : {"FundecStmt"}, name : Names, params : SUBSET Names, body : Seq(S)]

(* Module Fold: one pass over an expression leaves nothing to fold.        *)
ASSUME FoldedAssumption ==
  /\ Folded \in [Exp -> Exp]
  /\ \A e \in Exp : Folded[Folded[e]] = Folded[e]
  /\ Zero \union NonZero \subseteq Exp
  /\ \A e \in Zero \union NonZero : Folded[e] = e

(* What fold_exp makes of an expression names nothing new.                 *)
ASSUME UsesAssumption ==
  /\ Uses \in [Exp -> SUBSET Names]
  /\ \A e \in Exp : Uses[Folded[e]] \subseteq Uses[e]

VARIABLES
  phase,                \* "fold", "dce" or "done"
  should_optimize

optv == <<frames, phase, should_optimize>>

-----------------------------------------------------------------------------
(* The statements in the lists of a statement.  What is defined over all   *)
(* statements is defined over what it is for these.                        *)
Elements(stmts) == {stmts[i] : i \in DOMAIN stmts}

Children(s) ==
  CASE s.kind = "IfStmt"     -> Elements(s.then_stmts) \union Elements(s.else_stmts)
    [] s.kind = "WhileStmt"  -> Elements(s.body_stmts) \union Elements(s.otherwise_stmts)
    [] s.kind = "RepeatStmt" -> Elements(s.body_stmts)
    [] s.kind = "FundecStmt" -> Elements(s.body)
    [] OTHER                 -> {}

(* fold_stmt and fold_stmts: every statement of every list, in place.  A   *)
(* return without an expression is a return of an expression that does not *)
(* fold, and the arguments of a call stand as one expression.              *)
FoldEach(stmts, fold) == [i \in DOMAIN stmts |-> fold[stmts[i]]]

FoldOver(s, fold) ==
  CASE s.kind = "IfStmt" ->
         [s EXCEPT !.cond = Folded[@], !.then_stmts = FoldEach(@, fold), !.else_stmts = FoldEach(@, fold)]
    [] s.kind = "WhileStmt" ->
         [s EXCEPT !.cond = Folded[@], !.body_stmts = FoldEach(@, fold), !.otherwise_stmts = FoldEach(@, fold)]
    [] s.kind = "RepeatStmt" -> [s EXCEPT !.cond = Folded[@], !.body_stmts = FoldEach(@, fold)]
    [] s.kind = "FundecStmt" -> [s EXCEPT !.body = FoldEach(@, fold)]
    [] OTHER                 -> [s EXCEPT !.exp = Folded[@]]

FoldStmt[s \in Stmt] == FoldOver(s, [t \in Children(s) |-> FoldStmt[t]])

FoldStmts(stmts) == FoldEach(stmts, FoldStmt)

(* fold_exp returns true just when it changes something (ReportsChange of  *)
(* module Fold), and every flag on the way up is an or.                    *)
FoldAll ==
  /\ phase = "fold"
  /\ frames' = <<Call(FoldStmts(Top.stmts))>>
  /\ should_optimize' = (FoldStmts(Top.stmts) # Top.stmts)
  /\ phase' = "dce"

DceStep ==
  /\ phase = "dce"
  /\ Step
  /\ UNCHANGED <<phase, should_optimize>>

NextTurnOnce ==                        \* mutant: only fold's answer counts
  /\ phase = "dce" /\ Returned
  /\ phase' = IF should_optimize THEN "fold" ELSE "done"
  /\ UNCHANGED <<frames, should_optimize>>

NextTurn ==
  /\ phase = "dce" /\ Returned
  /\ should_optimize' = (should_optimize \/ Top.performed_dce)
  /\ phase' = IF should_optimize' THEN "fold" ELSE "done"
  /\ UNCHANGED frames

Done == phase = "done" /\ UNCHANGED optv

Init ==
  /\ frames \in {<<Call(p)>> : p \in Programs}
  /\ phase = "fold"
  /\ should_optimize = TRUE

Next == FoldAll \/ DceStep \/ NextTurn \/ Done

(* main() runs to its end: no step waits for anything outside of it.       *)
Spec == Init /\ [][Next]_optv /\ WF_optv(Next)

-----------------------------------------------------------------------------
(* The program as it stands: every call's list with the body the call      *)
(* above it is working on put in place, from the top of the stack down.    *)
PutBody(f, body) == [f.stmts EXCEPT ![f.it].body = body]

Whole(calls) ==
  LET n == Len(calls)
      whole[k \in 0 .. n - 1] ==
        IF k = 0 THEN calls[n].stmts ELSE PutBody(calls[n - k], whole[k - 1])
  IN  whole

ProgramOf(calls) == Whole(calls)[Len(calls) - 1]

Program == ProgramOf(frames)

(* What a program may do: the sequences of things that happen, and whether *)
(* the last is a return.  A condition that is not a constant may go either *)
(* way, and a loop over it runs its body once or not at all, which tells   *)
(* apart all that the optimiser does to loops; the loop over a constant    *)
(* that is not 0 is run once and marked.  A function is what its body may  *)
(* do.                                                                     *)
Run(events, ret) == [events |-> events, ret |-> ret]
Then(runs, Rest) ==
  {r \in runs : r.ret} \union
    {Run(r.events \o q.events, q.ret) : r \in {x \in runs : ~ x.ret}, q \in Rest}
Happens(event) == {Run(<<event>>, FALSE)}
Nothing == {Run(<<>>, FALSE)}

Branch(cond, yes, no) ==
  CASE Folded[cond] \in NonZero -> yes
    [] Folded[cond] \in Zero    -> no
    [] OTHER -> Then(Happens(<<"true", Folded[cond]>>), yes)
                  \union Then(Happens(<<"false", Folded[cond]>>), no)

Loop(cond, body) ==
  IF Folded[cond] \in NonZero THEN Then(body, Happens(<<"again", Folded[cond]>>)) ELSE body

RunsUpTo(stmts, runs) ==
  LET upto[k \in 0 .. Len(stmts)] ==
        IF k = 0 THEN Nothing ELSE Then(upto[k - 1], runs[stmts[k]])
  IN  upto

RunsInTurn(stmts, runs) == RunsUpTo(stmts, runs)[Len(stmts)]

RunsOver(s, runs) ==
  LET Do(stmts) == RunsInTurn(stmts, runs)
  IN  CASE s.kind = "IfStmt"     -> Branch(s.cond, Do(s.then_stmts), Do(s.else_stmts))
        [] s.kind = "WhileStmt"  -> Branch(s.cond, Loop(s.cond, Do(s.body_stmts)), Do(s.otherwise_stmts))
        [] s.kind = "RepeatStmt" -> Branch(s.cond, Loop(s.cond, Do(s.body_stmts)), Nothing)
        [] s.kind = "FundecStmt" -> Happens(<<"fun", Do(s.body)>>)
        [] s.kind = "RetStmt"    -> {Run(<<<<"RetStmt", Folded[s.exp]>>>>, TRUE)}
        [] OTHER                 -> Happens(<<s.kind, Folded[s.exp]>>)

RunsOf[s \in Stmt] == RunsOver(s, [t \in Children(s) |-> RunsOf[t]])

Runs(stmts) == RunsInTurn(stmts, RunsOf)

(* No step of the optimiser, in the middle of a walk or at its end,        *)
(* changes what the program may do.                                        *)
MeaningPreserved == [][Runs(Program') = Runs(Program)]_frames

-----------------------------------------------------------------------------
(* The lists dce_stmts walks have nothing left for it: wherever the        *)
(* iterator jumped, what a turn skipped a later turn has found.            *)
EachClean(stmts, clean) ==
  \A i \in DOMAIN stmts : clean[stmts[i]] /\ (stmts[i].kind = "RetStmt" => i = Len(stmts))

CleanOver(s, clean) ==
  CASE s.kind = "IfStmt"                     -> s.cond \notin Zero \union NonZero
    [] s.kind \in {"WhileStmt", "RepeatStmt"} -> s.cond \notin Zero
    [] s.kind = "FundecStmt"                 -> EachClean(s.body, clean)
    [] OTHER                                 -> TRUE

CleanStmt[s \in Stmt] == CleanOver(s, [t \in Children(s) |-> CleanStmt[t]])

Clean(stmts) == EachClean(stmts, CleanStmt)

CleanAtEnd == phase = "done" => Clean(Program) /\ FoldStmts(Program) = Program

(* Names were resolved before the optimiser moved statements between       *)
(* lists.  What a list needs of the lists around it are the names it uses  *)
(* and does not declare before.                                            *)
Declares(s) == IF s.kind \in {"VardeclStmt", "FundecStmt"} THEN {s.name} ELSE {}

NeedsInTurn(stmts, needs) ==
  {n \in Names : \E i \in DOMAIN stmts :
                    n \in needs[stmts[i]] /\ \A j \in 1 .. i - 1 : n \notin Declares(stmts[j])}

NeedsOver(s, needs) ==
  LET Inside(stmts) == NeedsInTurn(stmts, needs)
  IN  CASE s.kind = "IfStmt" -> Uses[s.cond] \union Inside(s.then_stmts) \union Inside(s.else_stmts)
        [] s.kind = "WhileStmt" -> Uses[s.cond] \union Inside(s.body_stmts) \union Inside(s.otherwise_stmts)
        [] s.kind = "RepeatStmt" -> Uses[s.cond] \union Inside(s.body_stmts)
        [] s.kind = "FundecStmt" -> Inside(s.body) \ ({s.name} \union s.params)
        [] OTHER -> Uses[s.exp]

NeedsOf[s \in Stmt] == NeedsOver(s, [t \in Children(s) |-> NeedsOf[t]])

Needs(stmts) == NeedsInTurn(stmts, NeedsOf)

(* After every step each variable read and each function called is still   *)
(* declared before it, in its list or one around it: no declaration was    *)
(* erased, or left behind, under a use the resolver had bound to it.       *)
StillBound == Needs(Program) = {}

(* The loop of main() ends, though each turn walks lists whose iterator    *)
(* may step back or start over.                                            *)
OptimizationEnds == <>(phase = "done")

-----------------------------------------------------------------------------
(* The places an iterator can stand at: a statement, or the end of a list. *)
(* A statement counts for itself and for the lists in it.                  *)
Sums(f) == LET upto[k \in 0 .. Len(f)] == IF k = 0 THEN 0 ELSE upto[k - 1] + f[k] IN upto
Total(f) == Sums(f)[Len(f)]

SizeEach(stmts, size) == [i \in DOMAIN stmts |-> size[stmts[i]]]

SizeOver(s, size) ==
  LET In(stmts) == 1 + Total(SizeEach(stmts, size))
  IN  CASE s.kind = "IfStmt"     -> 1 + In(s.then_stmts) + In(s.else_stmts)
        [] s.kind = "WhileStmt"  -> 1 + In(s.body_stmts) + In(s.otherwise_stmts)
        [] s.kind = "RepeatStmt" -> 1 + In(s.body_stmts)
        [] s.kind = "FundecStmt" -> 1 + In(s.body)
        [] OTHER                 -> 1

SizeOf[s \in Stmt] == SizeOver(s, [t \in Children(s) |-> SizeOf[t]])

Sizes(stmts) == SizeEach(stmts, SizeOf)
Size(stmts) == 1 + Total(Sizes(stmts))

(* The places the walk still comes to: those from the iterator on, and for *)
(* a call that waits those behind the declaration it waits at.             *)
Ahead(f, next) == Size(f.stmts) - Sums(Sizes(f.stmts))[next - 1]

Places(calls) ==
  [k \in DOMAIN calls |-> Ahead(calls[k], IF k = Len(calls) THEN calls[k].it ELSE calls[k].it + 1)]

Togo == Total(Places(frames))

(* The passes still to come when nothing more is removed.                  *)
Passes ==
  CASE phase = "fold" -> IF FoldStmts(Program) # Program THEN 4 ELSE 2
    [] phase = "dce"  -> IF should_optimize \/ \E k \in DOMAIN frames : frames[k].performed_dce
                         THEN 3 ELSE 1
    [] OTHER          -> 0

(* Every step makes the program smaller, or leaves fewer passes, or the    *)
(* walk less to go.  An iterator that steps back over the front of its     *)
(* list, or past its end to the front again, is paid for by what was       *)
(* removed just before; no step turns in a circle.                         *)
StepsRunOut ==
  [][\/ Size(Program') < Size(Program)
     \/ /\ Size(Program') = Size(Program)
        /\ \/ Passes' < Passes
           \/ Passes' = Passes /\ Togo' < Togo]_optv
=============================================================================
