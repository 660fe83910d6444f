--------------------------- MODULE TypeCheckProofs ---------------------------
(***************************************************************************)
(* Theorems about the type checker, for all types, argument counts and     *)
(* nesting depths, on programs that declare functions at top level only.   *)
(***************************************************************************)
EXTENDS TypeCheck, TLAPS

(* Functions are the outermost lists, so at most one is around any         *)
(* statement, and fun_ret_type is its type while its list is open.         *)
InFunction == open # <<>> /\ open[1].list = "fundec_body"

IInv ==
  /\ TypeOK
  /\ \A i \in DOMAIN open : open[i].list = "fundec_body" => i = 1
  /\ fun_ret_type = IF InFunction THEN open[1].ret ELSE nullopt
  /\ Judgement

(* Under IInv the innermost function is the one in open[1], if any.        *)
LEMMA AroundIsFirst ==
  ASSUME IInv
  PROVE  FunAround = IF InFunction THEN 1 ELSE 0
<1> DEFINE F == {i \in DOMAIN open : open[i].list = "fundec_body"}
<1>1. open \in Seq(Frame)
  BY DEF IInv, TypeOK
<1>2. CASE InFunction
  <2>1. F = {1}
    BY <1>1, <1>2 DEF IInv, InFunction
  <2>2. FunAround = CHOOSE i \in F : \A j \in F : j <= i
    BY <2>1 DEF FunAround
  <2>3. \A i \in F : i = 1 /\ \A j \in F : j <= i
    BY <2>1
  <2>4. QED
    BY <1>2, <2>1, <2>2, <2>3
<1>3. CASE ~ InFunction
  <2>1. F = {}
    BY <1>1, <1>3 DEF IInv, InFunction
  <2>2. QED
    BY <1>3, <2>1 DEF FunAround
<1>4. QED
  BY <1>2, <1>3

LEMMA FirstFrameRet ==
  ASSUME IInv, InFunction
  PROVE  open[1].ret \in Type
<1>1. open[1] \in Frame
  BY DEF IInv, TypeOK, InFunction
<1>2. QED
  BY <1>1 DEF Frame, Lists, InFunction

(* fun_ret_type tells what a return statement must return.                 *)
LEMMA RequiredIs ==
  ASSUME IInv
  PROVE  /\ Required \in Type
         /\ fun_ret_type # nullopt => Required = fun_ret_type
         /\ fun_ret_type = nullopt => Required = "int"
<1>1. CASE InFunction
  BY <1>1, AroundIsFirst, FirstFrameRet, TypeAssumption DEF IInv, Required
<1>2. CASE ~ InFunction
  BY <1>2, AroundIsFirst, TypeAssumption DEF IInv, Required
<1>3. QED
  BY <1>1, <1>2

LEMMA InitIInv == Init => IInv
<1> SUFFICES ASSUME Init PROVE IInv
  OBVIOUS
<1>1. open = <<>> /\ open \in Seq(Frame) /\ DOMAIN open = {}
  BY DEF Init
<1>2. ~ InFunction
  BY <1>1 DEF InFunction
<1>3. QED
  BY <1>1, <1>2 DEF Init, IInv, TypeOK, Judgement

-----------------------------------------------------------------------------
(* A handler whose checks are the typing rule keeps the judgement.         *)
LEMMA JudgeKeeps ==
  ASSUME IInv, NEW Ok \in BOOLEAN, Judge(Ok, Ok)
  PROVE  /\ status' \in {"visiting", "error"} /\ ill' \in BOOLEAN
         /\ Judgement'
  BY DEF Judge, IInv, TypeOK, Judgement

LEMMA CheckKeeps ==
  ASSUME IInv, NEW Ok \in BOOLEAN, Check(Ok, Ok)
  PROVE  IInv'
<1>1. Judge(Ok, Ok) /\ UNCHANGED <<fun_ret_type, open>>
  BY DEF Check
<1>2. QED
  BY <1>1, JudgeKeeps DEF IInv, TypeOK, InFunction

LEMMA AssignKeeps ==
  ASSUME IInv, NEW lhs_is_var \in BOOLEAN, NEW lhs \in Type, NEW rhs \in Exp,
         VisitAssign(lhs_is_var, lhs, rhs)
  PROVE  IInv'
<1>1. CASE lhs_is_var
  BY <1>1, CheckKeeps DEF VisitAssign
<1>2. CASE ~ lhs_is_var
  BY <1>2 DEF VisitAssign, IInv, TypeOK, InFunction, Judgement
<1>3. QED
  BY <1>1, <1>2

LEMMA CallKeeps ==
  ASSUME IInv, NEW params \in TypeLists, NEW args \in TypeLists, VisitCallStmt(params, args)
  PROVE  IInv'
<1> DEFINE Ok == /\ Len(args) = Len(params)
                 /\ \A i \in DOMAIN args : args[i] = params[i]
<1>1. params \in Seq(Exp) /\ args \in Seq(Exp)
  BY BoundsAssumption DEF TypeLists
<1>2. Ok <=> args = params
  BY <1>1
<1>3. Check(Ok, args = params)
  BY DEF VisitCallStmt
<1>4. Check(Ok, Ok)
  BY <1>2, <1>3 DEF Check, Judge
<1>5. QED
  BY <1>4, CheckKeeps

LEMMA RetKeeps ==
  ASSUME IInv, NEW e \in Exp, VisitRet(e)
  PROVE  IInv'
<1> DEFINE Ok == /\ e # "throws"
                 /\ fun_ret_type # nullopt => e = fun_ret_type
                 /\ fun_ret_type = nullopt => e = "int"
<1>1. Ok <=> e = Required
  BY RequiredIs, TypeAssumption
<1>2. Check(Ok, e = Required)
  BY DEF VisitRet
<1>3. Check(Ok, Ok)
  BY <1>1, <1>2 DEF Check, Judge
<1>4. QED
  BY <1>3, CheckKeeps

LEMMA OpenKeeps ==
  ASSUME IInv, NEW cond \in Exp, NEW list \in Lists, OpenList(cond, list)
  PROVE  IInv'
<1>1. Judge(cond = "int", cond = "int") /\ UNCHANGED fun_ret_type
  BY DEF OpenList
<1>2. /\ status' \in {"visiting", "error"} /\ ill' \in BOOLEAN
      /\ Judgement'
  BY <1>1, JudgeKeeps
<1>3. open \in Seq(Frame) /\ Len(open) \in Nat
  BY DEF IInv, TypeOK
<1>4. CASE cond # "int"
  BY <1>1, <1>2, <1>4 DEF OpenList, IInv, TypeOK, InFunction
<1>5. CASE cond = "int"
  <2>1. open' = Append(open, [list |-> list]) /\ [list |-> list] \in Frame
    BY <1>5 DEF OpenList, Frame
  <2>2. /\ open' \in Seq(Frame)
        /\ DOMAIN open' = 1 .. Len(open) + 1
        /\ open'[Len(open) + 1] = [list |-> list]
        /\ \A i \in DOMAIN open : open'[i] = open[i]
        /\ DOMAIN open = 1 .. Len(open)
    BY <1>3, <2>1
  <2>3. list # "fundec_body"
    BY DEF Lists
  <2>4. \A i \in DOMAIN open' : open'[i].list = "fundec_body" => i = 1
    BY <1>3, <2>2, <2>3 DEF IInv
  <2>5. InFunction' <=> InFunction
    BY <1>3, <2>1, <2>2, <2>3 DEF InFunction
  <2>6. InFunction => open'[1] = open[1]
    BY <1>3, <2>2 DEF InFunction
  <2>7. QED
    BY <1>1, <1>2, <2>2, <2>4, <2>5, <2>6 DEF IInv, TypeOK
<1>6. QED
  BY <1>4, <1>5

LEMMA SwitchKeeps ==
  ASSUME IInv, NEW from \in Lists, NEW to \in Lists, SwitchList(from, to)
  PROVE  IInv'
<1>1. open \in Seq(Frame) /\ Len(open) \in Nat /\ open # <<>> /\ open[Len(open)].list = from
  BY DEF IInv, TypeOK, SwitchList, AtEndOf
<1>2. open' = [open EXCEPT ![Len(open)] = [list |-> to]] /\ [list |-> to] \in Frame
  BY DEF SwitchList, Frame
<1>3. /\ open' \in Seq(Frame) /\ DOMAIN open' = DOMAIN open
      /\ open'[Len(open)] = [list |-> to]
      /\ \A i \in DOMAIN open : i # Len(open) => open'[i] = open[i]
      /\ DOMAIN open = 1 .. Len(open) /\ Len(open) > 0
  BY <1>1, <1>2
<1>4. to # "fundec_body" /\ from # "fundec_body"
  BY DEF Lists
<1>5. \A i \in DOMAIN open' : open'[i].list = "fundec_body" => i = 1
  BY <1>1, <1>3, <1>4 DEF IInv
<1>6. (InFunction' <=> InFunction) /\ (InFunction => open'[1] = open[1])
  BY <1>1, <1>3, <1>4 DEF InFunction
<1>7. QED
  BY <1>3, <1>5, <1>6 DEF SwitchList, IInv, TypeOK, Judgement

LEMMA CloseKeeps ==
  ASSUME IInv, NEW list \in Lists, CloseList(list)
  PROVE  IInv'
<1>1. open \in Seq(Frame) /\ Len(open) \in Nat /\ open # <<>> /\ open[Len(open)].list = list
  BY DEF IInv, TypeOK, CloseList, AtEndOf
<1>2. open' = SubSeq(open, 1, Len(open) - 1)
  BY DEF CloseList
<1>3. /\ open' \in Seq(Frame) /\ DOMAIN open' = 1 .. Len(open) - 1
      /\ \A i \in DOMAIN open' : open'[i] = open[i]
      /\ DOMAIN open = 1 .. Len(open) /\ Len(open) > 0
  BY <1>1, <1>2
<1>4. list # "fundec_body"
  BY DEF Lists
<1>5. \A i \in DOMAIN open' : open'[i].list = "fundec_body" => i = 1
  BY <1>1, <1>3 DEF IInv
<1>6. CASE Len(open) = 1
  <2>1. ~ InFunction
    BY <1>1, <1>4, <1>6 DEF InFunction
  <2>2. open' = <<>>
    BY <1>3, <1>6
  <2>3. ~ InFunction'
    BY <2>2 DEF InFunction
  <2>4. QED
    BY <1>3, <1>5, <2>1, <2>3 DEF CloseList, IInv, TypeOK, Judgement
<1>7. CASE Len(open) # 1
  <2>1. 1 \in DOMAIN open' /\ open'[1] = open[1]
    BY <1>1, <1>3, <1>7
  <2>2. open' # <<>> /\ (InFunction' <=> InFunction)
    BY <1>1, <2>1 DEF InFunction
  <2>3. QED
    BY <1>3, <1>5, <2>1, <2>2 DEF CloseList, IInv, TypeOK, Judgement
<1>8. QED
  BY <1>6, <1>7

(* A function starts with no list around it and ends as the only list.     *)
LEMMA FundecKeeps ==
  ASSUME IInv, TopLevelFuns, NEW t \in Type, VisitFundec(t)
  PROVE  IInv'
<1>1. open = <<>> /\ open' = <<[list |-> "fundec_body", ret |-> t]>>
  BY DEF VisitFundec
<1>2. [list |-> "fundec_body", ret |-> t] \in Frame
  BY DEF Frame
<1>3. QED
  BY <1>1, <1>2 DEF VisitFundec, IInv, TypeOK, InFunction, Judgement

LEMMA EndFundecKeeps ==
  ASSUME IInv, EndFundec
  PROVE  IInv'
<1>1. open \in Seq(Frame) /\ Len(open) \in DOMAIN open /\ open[Len(open)].list = "fundec_body"
  BY DEF IInv, TypeOK, EndFundec, AtEndOf
<1>2. Len(open) = 1
  BY <1>1 DEF IInv
<1>3. open' = <<>>
  BY <1>1, <1>2 DEF EndFundec
<1>4. QED
  BY <1>3 DEF EndFundec, IInv, TypeOK, InFunction, Judgement

LEMMA StepIInv ==
  ASSUME TopLevelFuns, IInv, [Next]_tcsv
  PROVE  IInv'
<1>1. CASE VisitStmt
  <2>1. ASSUME NEW t \in Type, NEW rhs \in Exp, VisitVardecl(t, rhs) PROVE IInv'
    BY <2>1, CheckKeeps DEF VisitVardecl
  <2>2. QED
    BY <1>1, <2>1, AssignKeeps, CallKeeps, RetKeeps, OpenKeeps, FundecKeeps
    DEF VisitStmt, VisitIf, VisitWhile, VisitRepeat, Lists
<1>2. CASE EndList
  BY <1>2, SwitchKeeps, CloseKeeps, EndFundecKeeps
  DEF EndList, EndThen, EndElse, EndWhileBody, EndOtherwise, EndRepeat, Lists
<1>3. CASE Finish
  BY <1>3 DEF Finish, IInv, TypeOK, InFunction, Judgement
<1>4. CASE Stopped \/ UNCHANGED tcsv
  BY <1>4 DEF Stopped, tcsv, IInv, TypeOK, InFunction, Judgement
<1>5. QED
  BY <1>1, <1>2, <1>3, <1>4 DEF Next

(* On programs that declare functions at top level, every state is well    *)
(* typed: fun_ret_type is a type or empty and a list that is open has the  *)
(* frame of its kind.                                                      *)
THEOREM Typing ==
  ASSUME TopLevelFuns
  PROVE  Spec => []TypeOK
<1>1. Init => IInv
  BY InitIInv
<1>2. IInv /\ [Next]_tcsv => IInv'
  BY StepIInv
<1>3. IInv => TypeOK
  BY DEF IInv
<1>4. QED
  BY <1>1, <1>2, <1>3, PTL DEF Spec

(* fun_ret_type is the declared type of the function a statement is in, on *)
(* programs that declare functions at top level.                           *)
THEOREM ReturnTypeTracked ==
  ASSUME TopLevelFuns
  PROVE  Spec => []RetTypeTracks
<1>1. Init => IInv
  BY InitIInv
<1>2. IInv /\ [Next]_tcsv => IInv'
  BY StepIInv
<1>3. IInv => RetTypeTracks
  BY AroundIsFirst DEF IInv, RetTypeTracks
<1>4. QED
  BY <1>1, <1>2, <1>3, PTL DEF Spec

(* On the same programs the visitor accepts a program just when no         *)
(* statement of it breaks a typing rule.                                   *)
THEOREM SoundAndComplete ==
  ASSUME TopLevelFuns
  PROVE  Spec => []Judgement
<1>1. Init => IInv
  BY InitIInv
<1>2. IInv /\ [Next]_tcsv => IInv'
  BY StepIInv
<1>3. IInv => Judgement
  BY DEF IInv
<1>4. QED
  BY <1>1, <1>2, <1>3, PTL DEF Spec
=============================================================================
