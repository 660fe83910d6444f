--------------------------------- MODULE Dce ---------------------------------
(***************************************************************************)
(* Dead code elimination (dce_stmts in transform_ast.cpp): one call, which *)
(* walks a std::list of statements with an iterator, erases and splices    *)
(* under it, and calls itself on the bodies of function declarations.      *)
(*                                                                         *)
(* frames is the C++ call stack: for each call of dce_stmts the list it    *)
(* works on, its iterator and performed_dce.  it = Len(stmts) + 1 is       *)
(* end().  Stepping past either end of a std::list is undefined in C++; in *)
(* the libraries the program is built with the list is a ring through the  *)
(* end() node, so that --begin() is end() and ++end() is begin().          *)
(*                                                                         *)
(* Statements are the nodes of ast.h as records with the code's field      *)
(* names.                                                                  *)
(***************************************************************************)
EXTENDS Integers, Sequences

CONSTANTS
  Zero, NonZero         \* the IntNode conditions that are 0, and the others

ASSUME ConditionAssumption == Zero \cap NonZero = {}

VARIABLE frames

Call(stmts) == [stmts |-> stmts, it |-> 1, performed_dce |-> FALSE]

Top == frames[Len(frames)]
End(stmts) == Len(stmts) + 1
Succ(it, stmts) == IF it = End(stmts) THEN 1 ELSE it + 1
Pred(it, stmts) == IF it = 1 THEN End(stmts) ELSE it - 1

Cur == Top.stmts[Top.it]
At(kinds) == frames # <<>> /\ Top.it # End(Top.stmts) /\ Cur.kind \in kinds

Before == SubSeq(Top.stmts, 1, Top.it - 1)
After  == SubSeq(Top.stmts, Top.it + 1, Len(Top.stmts))

(* The running call goes on with the list stmts at it.                     *)
Continue(stmts, it, performed) ==
  frames' = [frames EXCEPT ![Len(frames)] =
               [stmts |-> stmts, it |-> it, performed_dce |-> @.performed_dce \/ performed]]

-----------------------------------------------------------------------------
(* The kinds and conditions the switch does nothing for, a return at the   *)
(* end of its list among them.                                             *)
StepOver ==
  /\ \/ At({"VardeclStmt", "AssignStmt", "CallStmt"})
     \/ At({"IfStmt"}) /\ Cur.cond \notin Zero \union NonZero
     \/ At({"WhileStmt", "RepeatStmt"}) /\ Cur.cond \notin Zero
     \/ At({"RetStmt"}) /\ After = <<>>
  /\ Continue(Top.stmts, Succ(Top.it, Top.stmts), FALSE)

(* An if with a constant condition gives way to the branch that runs;      *)
(* erase() answers with the statement behind it, from where the iterator   *)
(* steps back.                                                             *)
Taken == IF Cur.cond \in NonZero THEN Cur.then_stmts ELSE Cur.else_stmts

LiftBranchOther ==                     \* mutant: the branches mixed up
  /\ At({"IfStmt"}) /\ Cur.cond \in Zero \union NonZero
  /\ LET lifted == IF Cur.cond \in Zero THEN Cur.then_stmts ELSE Cur.else_stmts
         stmts  == Before \o lifted \o After
     IN  Continue(stmts, Pred(Top.it + Len(lifted), stmts), TRUE)

LiftBranchFirst ==                     \* mutant: the branch spliced at begin(), not at it
  /\ At({"IfStmt"}) /\ Cur.cond \in Zero \union NonZero
  /\ LET stmts == Taken \o Before \o After
     IN  Continue(stmts, Pred(Top.it + Len(Taken), stmts), TRUE)

LiftBranchLeaves ==                    \* mutant: the branch spliced out, the if not erased
  /\ At({"IfStmt"}) /\ Cur.cond \in Zero \union NonZero
  /\ LET rest  == IF Cur.cond \in NonZero THEN [Cur EXCEPT !.then_stmts = <<>>]
                                            ELSE [Cur EXCEPT !.else_stmts = <<>>]
         stmts == Before \o Taken \o <<rest>> \o After
     IN  Continue(stmts, Pred(Top.it + Len(Taken), stmts), TRUE)

LiftBranch ==
  /\ At({"IfStmt"}) /\ Cur.cond \in Zero \union NonZero
  /\ LET stmts == Before \o Taken \o After
     IN  Continue(stmts, Pred(Top.it + Len(Taken), stmts), TRUE)

(* A while or repeat with condition 0 is erased, with an otherwise list if *)
(* it has one.                                                             *)
EraseLoop ==
  /\ At({"WhileStmt", "RepeatStmt"}) /\ Cur.cond \in Zero
  /\ Continue(Before \o After, Top.it, TRUE)

(* Erasing up to end() answers with end(), and the ++ after the switch     *)
(* still applies to it: the walk of the list starts over.                  *)
TruncateAlways ==                      \* mutant: it_after not compared with end()
  /\ At({"RetStmt"})
  /\ LET stmts == Append(Before, Cur)
     IN  Continue(stmts, Succ(End(stmts), stmts), TRUE)

Truncate ==
  /\ At({"RetStmt"}) /\ After # <<>>
  /\ LET stmts == Append(Before, Cur)
     IN  Continue(stmts, Succ(End(stmts), stmts), TRUE)

EnterBody ==
  /\ At({"FundecStmt"})
  /\ frames' = Append(frames, Call(Cur.body))

(* The call for a function body returns to the call that walks the list    *)
(* the declaration is in, which steps on.                                  *)
LeaveBody ==
  /\ Len(frames) > 1
  /\ Top.it = End(Top.stmts)
  /\ LET k == Len(frames) - 1
         f == frames[k]
         stmts == [f.stmts EXCEPT ![f.it].body = Top.stmts]
     IN  frames' = Append(SubSeq(frames, 1, k - 1),
                     [stmts |-> stmts, it |-> Succ(f.it, stmts),
                      performed_dce |-> f.performed_dce \/ Top.performed_dce])

Step == StepOver \/ LiftBranch \/ EraseLoop \/ Truncate \/ EnterBody \/ LeaveBody

Returned == Len(frames) = 1 /\ Top.it = End(Top.stmts)
=============================================================================
