------------------------------- MODULE Parser -------------------------------
(***************************************************************************)
(* The statement parsers of parser.cpp: parse_stmts() over the deque of    *)
(* tokens, with the expression parser of Pratt on the same stack of calls. *)
(*                                                                         *)
(* A frame of a statement parser stands in the loop over a statement list  *)
(* ("list"), in the loop over parameters ("params"), or waits for an       *)
(* expression ("exp").  It has the parts parsed so far: expressions, the   *)
(* number of parameters, and one list or two, in being the one it is at.   *)
(* A step consumes the tokens of a row of expect_token_type() calls.       *)
(***************************************************************************)
EXTENDS Pratt

ListCount == [k \in {"Stmts", "VardeclStmt", "AssignStmt", "RetStmt", "IfStmt", "WhileStmt",
                     "RepeatStmt", "FundecStmt", "CallStmt"} |->
  CASE k \in {"IfStmt", "WhileStmt"}               -> 2
    [] k \in {"Stmts", "RepeatStmt", "FundecStmt"} -> 1
    [] OTHER                                       -> 0]

Frame(kind, at) ==
  [at |-> at, kind |-> kind, params |-> 0, exps |-> <<>>, in |-> 1,
   lists |-> [i \in 1 .. ListCount[kind] |-> <<>>]]

Stmt(frame) ==
  [kind |-> frame.kind, params |-> frame.params, exps |-> frame.exps, lists |-> frame.lists]

-----------------------------------------------------------------------------
Ahead(types) == Len(types) <= Len(tokens) /\ SubSeq(tokens, 1, Len(types)) = types

(* expect_token_type() for each of types, on to calls if they are there.   *)
Expect(types, calls) ==
  IF Ahead(types) THEN Go(Len(types), calls) ELSE Throw

(* Call parse_exp() from a frame above the stack, or from the top of it.   *)
CallExp(frame) == Append(Append(stack, frame), ExpBp(0))

(* The calls up to k, the list of which gains the statement s.             *)
Within(k, s) ==
  [SubSeq(stack, 1, k) EXCEPT ![k].lists[stack[k].in] = Append(@, s)]

StmtAhead(type) == At("list") /\ Front = type

-----------------------------------------------------------------------------
(* parse_stmt, up to the first expression or the first list.               *)

ParseVardecl ==
  /\ StmtAhead("KeywordVar")
  /\ Expect(<<"KeywordVar", "Identifier", "TypeName", "Assign">>, CallExp(Frame("VardeclStmt", "exp")))

(* Any expression that begins with a name may stand on the left side.      *)
ParseAssign ==
  /\ StmtAhead("Identifier") /\ ~ CallAhead
  /\ Go(0, CallExp(Frame("AssignStmt", "exp")))

ParseCallStmt ==
  /\ StmtAhead("Identifier") /\ CallAhead
  /\ IF tokens[3] = "Rparen"
     THEN Expect(<<"Identifier", "Lparen", "Rparen", "Semicolon">>,
                 Within(Len(stack), Stmt(Frame("CallStmt", "exp"))))
     ELSE Go(2, CallExp(Frame("CallStmt", "exp")))

ParseReturn ==
  /\ StmtAhead("KeywordReturn")
  /\ IF tokens[2] = "Semicolon"
     THEN Go(2, Within(Len(stack), Stmt(Frame("RetStmt", "exp"))))
     ELSE Go(1, CallExp(Frame("RetStmt", "exp")))

ParseIf     == StmtAhead("KeywordIf")     /\ Go(1, CallExp(Frame("IfStmt", "exp")))
ParseWhile  == StmtAhead("KeywordWhile")  /\ Go(1, CallExp(Frame("WhileStmt", "exp")))
ParseRepeat == StmtAhead("KeywordRepeat") /\ Go(1, CallExp(Frame("RepeatStmt", "exp")))

FundecHead == <<"KeywordFun", "Identifier", "TypeName", "Lparen">>

ParseFundec ==
  /\ StmtAhead("KeywordFun")
  /\ IF Ahead(FundecHead \o <<"Rparen">>)
     THEN Expect(FundecHead \o <<"Rparen", "Lcurl">>, Append(stack, Frame("FundecStmt", "list")))
     ELSE Expect(FundecHead, Append(stack, Frame("FundecStmt", "params")))

(* What ends a list: the loops ask for this token before each statement.   *)
Closing(kind) == IF kind = "Stmts" THEN "Eof" ELSE "Rcurl"

StmtStart == {"Identifier", "KeywordVar", "KeywordReturn", "KeywordIf", "KeywordWhile",
              "KeywordRepeat", "KeywordFun"}

NoStatement ==
  /\ At("list") /\ Front \notin StmtStart \union {Closing(Top.kind)}
  /\ Throw

-----------------------------------------------------------------------------
(* The loop over the parameters of a function.                             *)

ParseParam ==
  /\ At("params")
  /\ LET counted == [Top EXCEPT !.params = @ + 1]
     IN  IF Ahead(<<"Identifier", "TypeName", "Comma">>)
         THEN Go(3, SetTop(counted))
         ELSE Expect(<<"Identifier", "TypeName", "Rparen", "Lcurl">>,
                     SetTop([counted EXCEPT !.at = "list"]))

-----------------------------------------------------------------------------
(* parse_exp() returns to a statement parser.                              *)

ReturningToStmt(kinds) == ReturningTo("exp") /\ stack[Below].kind \in kinds

(* The frame below with the expression that returns.                       *)
WithExp == [stack[Below] EXCEPT !.exps = Append(@, Top.lhs)]

EndUnchecked ==                        \* mutant: pop_front() for the Semicolon
  /\ \/ ReturningToStmt({"VardeclStmt", "RetStmt"})
     \/ ReturningToStmt({"AssignStmt"}) /\ stack[Below].exps # <<>>
  /\ Go(1, Within(Below - 1, Stmt(WithExp)))

(* The rest of a vardecl, return or assignment is a semicolon.             *)
EndSimpleStmt ==
  /\ \/ ReturningToStmt({"VardeclStmt", "RetStmt"})
     \/ ReturningToStmt({"AssignStmt"}) /\ stack[Below].exps # <<>>
  /\ Expect(<<"Semicolon">>, Within(Below - 1, Stmt(WithExp)))

ReturnLhs ==
  /\ ReturningToStmt({"AssignStmt"}) /\ stack[Below].exps = <<>>
  /\ Expect(<<"Assign">>, Append(SetBelow(WithExp), ExpBp(0)))

ReturnCond ==
  /\ ReturningToStmt({"IfStmt", "WhileStmt", "RepeatStmt"})
  /\ Expect(<<"Lcurl">>, SetBelow([WithExp EXCEPT !.at = "list"]))

ReturnStmtArgument ==
  /\ ReturningToStmt({"CallStmt"})
  /\ IF Front = "Comma"
     THEN Go(1, Append(SetBelow(WithExp), ExpBp(0)))
     ELSE Expect(<<"Rparen", "Semicolon">>, Within(Below - 1, Stmt(WithExp)))

-----------------------------------------------------------------------------
(* The end of a list.                                                      *)

AtRcurl(kinds) == StmtAhead("Rcurl") /\ Top.kind \in kinds

(* The list the other one may follow, and the keyword that says so.        *)
SecondList(kind, keyword) ==
  /\ AtRcurl({kind}) /\ Top.in = 1 /\ tokens[2] = keyword
  /\ Expect(<<"Rcurl", keyword, "Lcurl">>, SetTop([Top EXCEPT !.in = 2]))

NoSecondList(kind, keyword) ==
  /\ AtRcurl({kind}) /\ (Top.in = 2 \/ tokens[2] # keyword)
  /\ Go(1, Within(Below, Stmt(Top)))

CloseIf    == SecondList("IfStmt", "KeywordElse") \/ NoSecondList("IfStmt", "KeywordElse")
CloseWhile == SecondList("WhileStmt", "KeywordOtherwise") \/ NoSecondList("WhileStmt", "KeywordOtherwise")

CloseRepeat == AtRcurl({"RepeatStmt"}) /\ Go(1, Within(Below, Stmt(Top)))
CloseFundec == AtRcurl({"FundecStmt"}) /\ Go(1, Within(Below, Stmt(Top)))

CloseProgram ==
  /\ StmtAhead("Eof") /\ Top.kind = "Stmts"
  /\ status' = "parsed"
  /\ tree' = Top.lists[1]
  /\ UNCHANGED <<tokens, stack, input>>

-----------------------------------------------------------------------------
Init ==
  /\ input \in {Append(s, "Eof") : s \in Inputs}
  /\ tokens = input
  /\ stack = <<Frame("Stmts", "list")>>
  /\ status = "parsing"
  /\ tree = None

ParseStmt ==
  \/ ParseVardecl \/ ParseAssign \/ ParseCallStmt \/ ParseReturn \/ ParseIf \/ ParseWhile
  \/ ParseRepeat \/ ParseFundec \/ NoStatement
ReturnToStmt == EndSimpleStmt \/ ReturnLhs \/ ReturnCond \/ ReturnStmtArgument
CloseList == CloseIf \/ CloseWhile \/ CloseRepeat \/ CloseFundec \/ CloseProgram

Stopped == status # "parsing" /\ UNCHANGED prattv

Next == ParseExp \/ ParseStmt \/ ParseParam \/ ReturnToStmt \/ CloseList \/ Stopped

Spec == Init /\ [][Next]_prattv

-----------------------------------------------------------------------------
(* The calls of the parser nest no deeper than twice the tokens consumed,  *)
(* but for the three of a first assignment: no call is made again and      *)
(* again at the same token.                                                *)
DepthBounded == Len(stack) <= 3 + 2 * (Len(input) - Len(tokens))

(* No loop of the parser turns without consuming a token, leaving a call   *)
(* or beginning a statement's expression: a program is parsed, or refused, *)
(* in a number of steps linear in its tokens.                              *)
Left == 6 * Len(tokens) + Len(stack) + (IF Top.at = "list" THEN 3 ELSE 0)
MakesProgress == [][status' # "parsing" \/ Left' < Left]_prattv
=============================================================================
