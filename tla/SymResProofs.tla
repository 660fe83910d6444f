---------------------------- MODULE SymResProofs ----------------------------
(***************************************************************************)
(* Theorems about the symbol resolver, for all names, types, expressions,  *)
(* parameter lists and nesting depths, and the refinement of LexScope.     *)
(***************************************************************************)
EXTENDS SymRes, SequenceTheorems, WellFoundedInduction, TLAPS

-----------------------------------------------------------------------------
(* What a step does to the tables: six effects cover all handlers.         *)

Declared(n, t) ==
  /\ CurScope(vars)[n] = nullopt
  /\ vars' = AddSymbol(vars, n, [var_type |-> t, var_idx |-> vars.sym_idx])
  /\ UNCHANGED <<functions, open>>

Opened(list) ==
  /\ vars' = EnterScope(vars)
  /\ open' = Append(open, [list |-> list])
  /\ UNCHANGED functions

Switched(list) ==
  /\ open # <<>>
  /\ vars' = EnterScope(ExitScope(vars))
  /\ open' = [open EXCEPT ![Len(open)] = [list |-> list]]
  /\ UNCHANGED functions

Closed ==
  /\ open # <<>>
  /\ vars' = ExitScope(vars)
  /\ open' = SubSeq(open, 1, Len(open) - 1)
  /\ UNCHANGED functions

FunDeclared(f, t, ps) ==
  /\ functions' = AddSymbol(functions, f,
       [ret_type |-> t, var_idx_db |-> functions.sym_idx, params |-> ps])
  /\ vars' = [scopes  |-> Append(vars.scopes, ParamScope(ps, vars.sym_idx)),
              sym_idx |-> vars.sym_idx + Len(ps)]
  /\ open' = Append(open, [list |-> "fundec_body", fun |-> f, base |-> vars.sym_idx])

Effect ==
  \/ UNCHANGED <<vars, functions, open>>
  \/ \E n \in Name, t \in Type : Declared(n, t)
  \/ \E list \in Lists : Opened(list)
  \/ \E list \in Lists : Switched(list)
  \/ Closed
  \/ \E f \in Name, t \in Type, ps \in Params : FunDeclared(f, t, ps)

LEMMA StepEffect == [Next]_srsv => Effect
<1> SUFFICES ASSUME [Next]_srsv PROVE Effect
  OBVIOUS
<1>1. ASSUME NEW refs, UseNames(refs) PROVE Effect
  BY <1>1 DEF UseNames, VisitExp, Throw, Effect
<1>2. ASSUME NEW n \in Name, NEW t \in Type, NEW rhs \in Exp, VisitVardecl(n, t, rhs)
      PROVE  Effect
  BY <1>2 DEF VisitVardecl, VisitExp, Throw, Effect, Declared
<1>3. ASSUME NEW cond \in Exp, NEW list \in Lists, OpenList(cond, list) PROVE Effect
  BY <1>3 DEF OpenList, VisitExp, Throw, Effect, Opened
<1>4. ASSUME NEW f \in Name, NEW t \in Type, NEW ps \in Params, VisitFundec(f, t, ps)
      PROVE  Effect
  BY <1>4 DEF VisitFundec, Throw, Effect, FunDeclared
<1>5. ASSUME NEW from, NEW to \in Lists, SwitchList(from, to) PROVE Effect
  BY <1>5 DEF SwitchList, AtEndOf, Effect, Switched
<1>6. ASSUME NEW list, CloseList(list) PROVE Effect
  BY <1>6 DEF CloseList, AtEndOf, Effect, Closed
<1>7. CASE VisitStmt
  BY <1>1, <1>2, <1>3, <1>4, <1>7
  DEF VisitStmt, VisitAssign, VisitCallStmt, VisitRet, VisitIf, VisitWhile, VisitRepeat, Lists
<1>8. CASE EndList
  BY <1>5, <1>6, <1>8
  DEF EndList, EndThen, EndElse, EndWhileBody, EndOtherwise, EndRepeat, EndFundec, Lists
<1>9. CASE Finish \/ Stopped \/ UNCHANGED srsv
  BY <1>9 DEF Finish, Stopped, srsv, Effect
<1>10. QED
  BY <1>7, <1>8, <1>9 DEF Next
-----------------------------------------------------------------------------
(* The tables stay well formed.                                            *)

Shape == TypeOK /\ ScopePerList

LEMMA EmptyScopeType ==
  ASSUME NEW T PROVE EmptyScope \in ScopeOf(T)
  BY DEF EmptyScope, ScopeOf

LEMMA AddSymbolType ==
  ASSUME NEW T, NEW tab \in TableOf(T), Len(tab.scopes) > 0, NEW n \in Name, NEW info \in T
  PROVE  /\ AddSymbol(tab, n, info) \in TableOf(T)
         /\ Len(AddSymbol(tab, n, info).scopes) = Len(tab.scopes)
<1> DEFINE k     == Len(tab.scopes)
           scope == ScopeAdd(tab.scopes[k], n, info)
<1>1. k \in 1 .. Len(tab.scopes) /\ tab.scopes[k] \in ScopeOf(T)
  BY ElementOfSeq DEF TableOf
<1>2. scope \in ScopeOf(T)
  BY <1>1 DEF ScopeAdd, ScopeOf
<1>3. [tab.scopes EXCEPT ![k] = scope] \in Seq(ScopeOf(T))
  BY <1>1, <1>2 DEF TableOf
<1>4. AddSymbol(tab, n, info) =
        [scopes |-> [tab.scopes EXCEPT ![k] = scope], sym_idx |-> tab.sym_idx + 1]
  BY DEF AddSymbol
<1>5. QED
  BY <1>1, <1>3, <1>4 DEF TableOf

LEMMA EnterScopeType ==
  ASSUME NEW T, NEW tab \in TableOf(T)
  PROVE  /\ EnterScope(tab) \in TableOf(T)
         /\ Len(EnterScope(tab).scopes) = Len(tab.scopes) + 1
  BY EmptyScopeType DEF EnterScope, TableOf

LEMMA FrontType ==
  ASSUME NEW T, NEW s \in Seq(T), Len(s) > 0
  PROVE  /\ SubSeq(s, 1, Len(s) - 1) \in Seq(T)
         /\ Len(SubSeq(s, 1, Len(s) - 1)) = Len(s) - 1
         /\ \A i \in 1 .. Len(s) - 1 : SubSeq(s, 1, Len(s) - 1)[i] = s[i]
<1> DEFINE k     == Len(s) - 1
           front == SubSeq(s, 1, k)
<1>1. k \in Nat /\ \A i \in 1 .. k : s[i] \in T
  OBVIOUS
<1>2. /\ front \in Seq(T)
      /\ Len(front) = IF 1 <= k THEN k - 1 + 1 ELSE 0
      /\ \A i \in 1 .. k - 1 + 1 : front[i] = s[1 + i - 1]
  <2> HIDE DEF k
  <2> QED
    BY <1>1, SubSeqProperties
<1> HIDE DEF k, front
<1>3. Len(front) = k
  BY <1>1, <1>2
<1>4. ASSUME NEW i \in 1 .. k PROVE front[i] = s[i]
  <2>1. i \in 1 .. k - 1 + 1 /\ 1 + i - 1 = i
    BY <1>1
  <2>2. QED
    BY <1>2, <2>1
<1>5. front \in Seq(T) /\ Len(front) = k /\ \A i \in 1 .. k : front[i] = s[i]
  BY <1>2, <1>3, <1>4
<1>6. QED
  BY <1>5 DEF front, k

LEMMA ExitScopeType ==
  ASSUME NEW T, NEW tab \in TableOf(T), Len(tab.scopes) > 1
  PROVE  /\ ExitScope(tab) \in TableOf(T)
         /\ Len(ExitScope(tab).scopes) = Len(tab.scopes) - 1
  BY DEF ExitScope, TableOf

LEMMA SmallestNat ==
  ASSUME NEW S \in SUBSET Nat, S # {}
  PROVE  \E m \in S : \A j \in S : m <= j
<1> DEFINE less == {ss \in Nat \X Nat : ss[1] < ss[2]}
<1>1. IsWellFoundedOn(less, Nat)
  BY NatLessThanWellFounded DEF OpToRel
<1>2. PICK m \in S : \A j \in S : ~ (<<j, m>> \in less)
  <2> HIDE DEF less
  <2> QED
    BY <1>1, WFMin, Zenon
<1>3. ASSUME NEW j \in S PROVE m <= j
  <2>1. ~ (<<j, m>> \in less)
    BY <1>2
  <2>2. j < m => <<j, m>> \in less
    OBVIOUS
  <2>3. QED
    BY <2>1, <2>2
<1>4. QED
  BY <1>3

(* The parameter scope holds, for each parameter name, the type and the    *)
(* index of its first occurrence.                                          *)
LEMMA ParamScopeFirst ==
  ASSUME NEW ps \in Params, NEW base \in Nat \ {0}, NEW n \in Name
  PROVE  \/ /\ \A i \in DOMAIN ps : ps[i].name # n
            /\ ParamScope(ps, base)[n] = nullopt
         \/ \E i \in DOMAIN ps :
              /\ ps[i].name = n
              /\ ParamScope(ps, base)[n] =
                   [var_type |-> ps[i].type, var_idx |-> base + i - 1]
<1> DEFINE IsFirst(i) == ps[i].name = n /\ \A j \in DOMAIN ps : ps[j].name = n => i <= j
           S == {j \in DOMAIN ps : ps[j].name = n}
<1>1. ps \in Seq(Param)
  BY ParamsAssumption
<1>2. CASE S = {}
  BY <1>2 DEF ParamScope
<1>3. CASE S # {}
  <2>1. S \in SUBSET Nat
    BY <1>1
  <2>2. \E i \in DOMAIN ps : IsFirst(i)
    BY <1>3, <2>1, SmallestNat
  <2>3. PICK i \in DOMAIN ps : i = (CHOOSE k \in DOMAIN ps : IsFirst(k)) /\ IsFirst(i)
    BY <2>2
  <2>4. ParamScope(ps, base)[n] = [var_type |-> ps[i].type, var_idx |-> base + i - 1]
    BY <1>3, <2>3 DEF ParamScope
  <2>5. QED
    BY <2>3, <2>4
<1>4. QED
  BY <1>2, <1>3

LEMMA ParamScopeType ==
  ASSUME NEW ps \in Params, NEW base \in Nat \ {0}
  PROVE  ParamScope(ps, base) \in ScopeOf(VarInfo)
<1>1. ps \in Seq(Param)
  BY ParamsAssumption
<1>2. ASSUME NEW n \in Name PROVE ParamScope(ps, base)[n] \in VarInfo \union {nullopt}
  <2>1. ASSUME NEW i \in DOMAIN ps
        PROVE  [var_type |-> ps[i].type, var_idx |-> base + i - 1] \in VarInfo
    <3>1. i \in Nat /\ i >= 1 /\ ps[i] \in Param
      BY <1>1
    <3>2. QED
      BY <3>1 DEF Param, VarInfo
  <2>2. CASE ParamScope(ps, base)[n] # nullopt
    <3>1. PICK i \in DOMAIN ps :
            ParamScope(ps, base)[n] = [var_type |-> ps[i].type, var_idx |-> base + i - 1]
      BY <2>2, ParamScopeFirst
    <3>2. QED
      BY <2>1, <3>1
  <2>3. QED
    BY <2>2
<1>3. ParamScope(ps, base) = [n \in Name |-> ParamScope(ps, base)[n]]
  BY DEF ParamScope
<1>4. QED
  BY <1>2, <1>3 DEF ScopeOf

LEMMA InitShape == Init => Shape
<1> SUFFICES ASSUME Init PROVE Shape
  OBVIOUS
<1>1. NewTable \in TableOf(VarInfo) /\ NewTable \in TableOf(FunInfo)
  BY EmptyScopeType DEF NewTable, TableOf
<1>2. QED
  BY <1>1 DEF Init, Shape, TypeOK, ScopePerList, NewTable

-----------------------------------------------------------------------------
(* find_symbol answers with the innermost declaration.                     *)

LEMMA LookupInnermost ==
  ASSUME NEW T, NEW scopes \in Seq(ScopeOf(T)), NEW n \in Name
  PROVE  \/ /\ \A i \in DOMAIN scopes : scopes[i][n] = nullopt
            /\ Lookup(scopes, n) = nullopt
         \/ \E i \in DOMAIN scopes :
              /\ scopes[i][n] # nullopt
              /\ \A j \in DOMAIN scopes : scopes[j][n] # nullopt => j <= i
              /\ Lookup(scopes, n) = scopes[i][n]
<1> DEFINE D == Declaring(scopes, n)
           len == Len(scopes)
           Last(i) == i \in D /\ \A j \in D : j <= i
<1>1. CASE D = {}
  BY <1>1 DEF Lookup, Declaring
<1>2. CASE D # {}
  <2> DEFINE S == {k \in Nat : \E i \in D : k = len - i}
  <2>1. len \in Nat /\ \A i \in D : i \in 1 .. len
    BY DEF Declaring
  <2>2. S # {}
    <3>1. PICK i \in D : TRUE
      BY <1>2
    <3>2. len - i \in S
      BY <2>1, <3>1
    <3>3. QED
      BY <3>2
  <2>3. PICK k \in S : \A j \in S : k <= j
    BY <2>2, SmallestNat
  <2>4. PICK i \in D : k = len - i
    BY <2>3
  <2>5. ASSUME NEW j \in D PROVE j <= i
    <3>1. len - j \in S
      BY <2>1
    <3>2. k <= len - j
      BY <2>3, <3>1
    <3>3. QED
      BY <2>1, <2>4, <3>2
  <2>6. \E m \in D : \A j \in D : j <= m
    BY <2>5
  <2>7. PICK m \in D : m = (CHOOSE l \in D : \A j \in D : j <= l) /\ \A j \in D : j <= m
    BY <2>6
  <2>8. Lookup(scopes, n) = scopes[m][n]
    BY <1>2, <2>7 DEF Lookup
  <2>9. QED
    BY <2>7, <2>8 DEF Declaring
<1>3. QED
  BY <1>1, <1>2

LEMMA LookupType ==
  ASSUME NEW T, NEW scopes \in Seq(ScopeOf(T)), NEW n \in Name, Lookup(scopes, n) # nullopt
  PROVE  Lookup(scopes, n) \in T
<1>1. PICK i \in DOMAIN scopes : scopes[i][n] # nullopt /\ Lookup(scopes, n) = scopes[i][n]
  BY LookupInnermost
<1>2. scopes[i] \in ScopeOf(T)
  OBVIOUS
<1>3. QED
  BY <1>1, <1>2 DEF ScopeOf

LEMMA VarsReadType ==
  ASSUME Shape, NEW refs \in Seq(Ref), Resolves(refs)
  PROVE  VarsRead(refs) \subseteq Nat
<1> SUFFICES ASSUME NEW i \in DOMAIN refs, refs[i].kind = "var"
             PROVE  FindSymbol(vars, refs[i].name).var_idx \in Nat
  BY DEF VarsRead
<1>1. refs[i].name \in Name
  <2>1. refs[i] \in Ref
    OBVIOUS
  <2>2. QED
    BY <2>1 DEF Ref
<1>2. Lookup(vars.scopes, refs[i].name) # nullopt
  BY DEF Resolves, FindSymbol
<1>3. vars.scopes \in Seq(ScopeOf(VarInfo))
  BY DEF Shape, TypeOK, TableOf
<1>4. Lookup(vars.scopes, refs[i].name) \in VarInfo
  BY <1>1, <1>2, <1>3, LookupType
<1>5. QED
  BY <1>4 DEF FindSymbol, VarInfo

(* What a step does to captures: nothing, or it adds variables that are    *)
(* read by names that resolve, and only while the tables are in use.       *)
Capturing ==
  \/ UNCHANGED captures
  \/ \E refs \in Seq(Ref) :
       /\ Resolves(refs)
       /\ captures' = Captured(refs)

LEMMA RefBefore ==
  ASSUME NEW kind \in {"var", "fun"}, NEW n \in Name, NEW refs \in Seq(Ref)
  PROVE  <<[kind |-> kind, name |-> n]>> \o refs \in Seq(Ref)
<1>1. [kind |-> kind, name |-> n] \in Ref
  BY DEF Ref
<1>2. <<[kind |-> kind, name |-> n]>> \in Seq(Ref)
  BY <1>1
<1>3. QED
  BY <1>2, ConcatProperties

LEMMA StepCapturing == [Next]_srsv => Capturing
<1> SUFFICES ASSUME [Next]_srsv PROVE Capturing
  OBVIOUS
<1>0. \A e \in Exp : Refs[e] \in Seq(Ref)
  BY RefsAssumption
<1>1. ASSUME NEW refs \in Seq(Ref), UseNames(refs) PROVE Capturing
  BY <1>1 DEF UseNames, VisitExp, Throw, Capturing
<1>2. ASSUME NEW n \in Name, NEW t \in Type, NEW rhs \in Exp, VisitVardecl(n, t, rhs)
      PROVE  Capturing
  BY <1>0, <1>2 DEF VisitVardecl, VisitExp, Throw, Capturing
<1>3. ASSUME NEW cond \in Exp, NEW list, OpenList(cond, list) PROVE Capturing
  BY <1>0, <1>3 DEF OpenList, VisitExp, Throw, Capturing
<1>4. ASSUME NEW f, NEW t, NEW ps, VisitFundec(f, t, ps) PROVE Capturing
  BY <1>4 DEF VisitFundec, Throw, Capturing
<1>5. CASE VisitStmt
  <2>1. ASSUME NEW lhs \in Name, NEW rhs \in Exp, VisitAssign(lhs, rhs) PROVE Capturing
    BY <1>0, <1>1, <2>1, RefBefore DEF VisitAssign
  <2>2. ASSUME NEW f \in Name, NEW args \in Exp, VisitCallStmt(f, args) PROVE Capturing
    BY <1>0, <1>1, <2>2, RefBefore DEF VisitCallStmt
  <2>3. ASSUME NEW e \in Exp, VisitRet(e) PROVE Capturing
    BY <1>0, <1>1, <2>3 DEF VisitRet
  <2>4. QED
    BY <1>2, <1>3, <1>4, <1>5, <2>1, <2>2, <2>3
    DEF VisitStmt, VisitIf, VisitWhile, VisitRepeat
<1>6. CASE EndList
  BY <1>6 DEF EndList, EndThen, EndElse, EndWhileBody, EndOtherwise, EndRepeat, EndFundec,
              SwitchList, CloseList, Capturing
<1>7. CASE Finish \/ Stopped \/ UNCHANGED srsv
  BY <1>7 DEF Finish, Stopped, srsv, Capturing
<1>8. QED
  BY <1>5, <1>6, <1>7 DEF Next

LEMMA CapturesType ==
  ASSUME Shape, [Next]_srsv
  PROVE  captures' \in [{"top", "nested"} -> SUBSET Nat]
<1>1. CASE UNCHANGED captures
  BY <1>1 DEF Shape, TypeOK
<1>2. ASSUME NEW refs \in Seq(Ref), Resolves(refs), captures' = Captured(refs)
      PROVE  captures' \in [{"top", "nested"} -> SUBSET Nat]
  <2>1. VarsRead(refs) \subseteq Nat
    BY <1>2, VarsReadType
  <2>2. QED
    BY <1>2, <2>1 DEF Captured, Shape, TypeOK
<1>3. QED
  BY <1>1, <1>2, StepCapturing DEF Capturing

LEMMA StatusType ==
  ASSUME Shape, [Next]_srsv
  PROVE  status' \in {"visiting", "resolved", "error"}
<1>1. status \in {"visiting", "resolved", "error"}
  BY DEF Shape, TypeOK
<1>2. CASE VisitStmt
  BY <1>1, <1>2
  DEF VisitStmt, VisitAssign, VisitCallStmt, VisitRet, UseNames, VisitVardecl, VisitIf, VisitWhile,
      VisitRepeat, OpenList, VisitFundec, VisitExp, Throw
<1>3. CASE EndList
  BY <1>1, <1>3
  DEF EndList, EndThen, EndElse, EndWhileBody, EndOtherwise, EndRepeat, EndFundec,
      SwitchList, CloseList
<1>4. CASE Finish \/ Stopped \/ UNCHANGED srsv
  BY <1>1, <1>4 DEF Finish, Stopped, srsv
<1>5. QED
  BY <1>2, <1>3, <1>4 DEF Next

-----------------------------------------------------------------------------
LEMMA ShapeStep ==
  ASSUME Shape, [Next]_srsv
  PROVE  Shape'
<1> USE DEF Shape
<1>1. /\ vars \in TableOf(VarInfo) /\ vars.scopes \in Seq(ScopeOf(VarInfo))
      /\ Len(vars.scopes) = Len(open) + 1
      /\ vars.sym_idx \in Nat \ {0}
  BY DEF TypeOK, ScopePerList, TableOf
<1>2. functions \in TableOf(FunInfo) /\ Len(functions.scopes) = 1
      /\ functions.sym_idx \in Nat \ {0}
  BY DEF TypeOK, ScopePerList, TableOf
<1>3. open \in Seq(Frame) /\ Len(open) \in Nat
  BY DEF TypeOK
<1> DEFINE Good == /\ vars' \in TableOf(VarInfo)
                   /\ functions' \in TableOf(FunInfo)
                   /\ open' \in Seq(Frame)
                   /\ ScopePerList'
<1>4. SUFFICES Good
  BY CapturesType, StatusType DEF TypeOK
<1>5. CASE UNCHANGED <<vars, functions, open>>
  BY <1>5, <1>1, <1>2, <1>3 DEF ScopePerList
<1>6. ASSUME NEW n \in Name, NEW t \in Type, Declared(n, t) PROVE Good
  <2>1. [var_type |-> t, var_idx |-> vars.sym_idx] \in VarInfo
    BY <1>1 DEF VarInfo
  <2>2. vars' \in TableOf(VarInfo) /\ Len(vars'.scopes) = Len(vars.scopes)
    BY <1>1, <1>3, <1>6, <2>1, AddSymbolType DEF Declared
  <2>3. QED
    BY <1>1, <1>2, <1>3, <1>6, <2>2 DEF Declared, ScopePerList
<1>7. ASSUME NEW list \in Lists, Opened(list) PROVE Good
  <2>1. vars' \in TableOf(VarInfo) /\ Len(vars'.scopes) = Len(vars.scopes) + 1
    BY <1>1, <1>7, EnterScopeType DEF Opened
  <2>2. open' \in Seq(Frame) /\ Len(open') = Len(open) + 1
    BY <1>3, <1>7 DEF Opened, Frame
  <2>3. QED
    BY <1>1, <1>2, <1>3, <1>7, <2>1, <2>2 DEF Opened, ScopePerList
<1>8. ASSUME NEW list \in Lists, Switched(list) PROVE Good
  <2>1. Len(open) > 0
    BY <1>3, <1>8 DEF Switched
  <2>2. ExitScope(vars) \in TableOf(VarInfo) /\ Len(ExitScope(vars).scopes) = Len(vars.scopes) - 1
    BY <1>1, <1>3, <2>1, ExitScopeType
  <2>3. vars' \in TableOf(VarInfo) /\ Len(vars'.scopes) = Len(vars.scopes)
    BY <1>1, <1>3, <1>8, <2>2, EnterScopeType DEF Switched
  <2>4. open' \in Seq(Frame) /\ Len(open') = Len(open)
    <3>1. [list |-> list] \in Frame
      BY DEF Frame
    <3>2. QED
      BY <1>3, <1>8, <2>1, <3>1 DEF Switched
  <2>5. QED
    BY <1>1, <1>2, <1>8, <2>3, <2>4 DEF Switched, ScopePerList
<1>9. CASE Closed
  <2>1. Len(open) > 0
    BY <1>3, <1>9 DEF Closed
  <2>2. vars' \in TableOf(VarInfo) /\ Len(vars'.scopes) = Len(vars.scopes) - 1
    BY <1>1, <1>3, <1>9, <2>1, ExitScopeType DEF Closed
  <2>3. open' \in Seq(Frame) /\ Len(open') = Len(open) - 1
    <3>1. open' = SubSeq(open, 1, Len(open) - 1)
      BY <1>9 DEF Closed
    <3>2. QED
      BY <1>3, <2>1, <3>1, FrontType
  <2>4. QED
    BY <1>1, <1>2, <1>3, <1>9, <2>2, <2>3 DEF Closed, ScopePerList
<1>10. ASSUME NEW f \in Name, NEW t \in Type, NEW ps \in Params, FunDeclared(f, t, ps)
       PROVE  Good
  <2>1. [ret_type |-> t, var_idx_db |-> functions.sym_idx, params |-> ps] \in FunInfo
    BY <1>2 DEF FunInfo
  <2>2. functions' \in TableOf(FunInfo) /\ Len(functions'.scopes) = 1
    <3> DEFINE info == [ret_type |-> t, var_idx_db |-> functions.sym_idx, params |-> ps]
    <3>1. functions' = AddSymbol(functions, f, info)
      BY <1>10 DEF FunDeclared
    <3>2. info \in FunInfo /\ Len(functions.scopes) > 0
      BY <1>2, <2>1
    <3> HIDE DEF info
    <3>3. QED
      BY <1>2, <3>1, <3>2, AddSymbolType
  <2>3. Len(ps) \in Nat
    BY ParamsAssumption
  <2>4. ParamScope(ps, vars.sym_idx) \in ScopeOf(VarInfo)
    BY <1>1, ParamScopeType
  <2>5. vars' \in TableOf(VarInfo) /\ Len(vars'.scopes) = Len(vars.scopes) + 1
    BY <1>1, <1>10, <2>3, <2>4 DEF FunDeclared, TableOf
  <2>6. open' \in Seq(Frame) /\ Len(open') = Len(open) + 1
    BY <1>1, <1>3, <1>10 DEF FunDeclared, Frame
  <2>7. QED
    BY <1>1, <1>3, <2>2, <2>5, <2>6 DEF ScopePerList
<1>11. QED
  BY <1>5, <1>6, <1>7, <1>8, <1>9, <1>10, StepEffect DEF Effect

(* The state of the resolver is always well typed.                         *)
THEOREM Typing == Spec => []TypeOK
<1>1. Spec => []Shape
  BY InitShape, ShapeStep, PTL DEF Spec
<1>2. Shape => TypeOK
  BY DEF Shape
<1>3. QED
  BY <1>1, <1>2, PTL

(* Every handler that enters a scope leaves it, so there is one scope per  *)
(* open statement list: the assertions in symtab.h hold.                   *)
THEOREM Scoped == Spec => []ScopePerList
<1>1. Spec => []Shape
  BY InitShape, ShapeStep, PTL DEF Spec
<1>2. Shape => ScopePerList
  BY DEF Shape
<1>3. QED
  BY <1>1, <1>2, PTL
-----------------------------------------------------------------------------
(* A var_idx stands for one variable.                                      *)

Slots(scopes, next) ==
  \A i, j \in DOMAIN scopes, n, m \in Name :
    LET x == scopes[i][n]
        y == scopes[j][m]
    IN  x # nullopt /\ y # nullopt =>
          /\ x.var_idx < next
          /\ i < j => x.var_idx < y.var_idx
          /\ i = j /\ n # m => x.var_idx # y.var_idx

(* A scope may be pushed whose variables are all numbered from the old     *)
(* sym_idx up to the new one.                                              *)
LEMMA SlotsPush ==
  ASSUME NEW scopes \in Seq(ScopeOf(VarInfo)), NEW scope \in ScopeOf(VarInfo),
         NEW old \in Nat, NEW next \in Nat, old <= next,
         Slots(scopes, old),
         \A n, m \in Name :
           scope[n] # nullopt /\ scope[m] # nullopt =>
             /\ old <= scope[n].var_idx /\ scope[n].var_idx < next
             /\ n # m => scope[n].var_idx # scope[m].var_idx
  PROVE  Slots(Append(scopes, scope), next)
<1> DEFINE new == Append(scopes, scope)
           len == Len(scopes)
<1>1. /\ len \in Nat
      /\ DOMAIN new = 1 .. len + 1
      /\ new[len + 1] = scope
      /\ \A i \in 1 .. len : i \in DOMAIN scopes /\ new[i] = scopes[i]
  OBVIOUS
<1>2. \A i \in 1 .. len + 1, n \in Name : new[i][n] # nullopt => new[i][n].var_idx \in Nat
  BY <1>1 DEF ScopeOf, VarInfo
<1> HIDE DEF new, len
<1>3. SUFFICES ASSUME NEW i \in 1 .. len + 1, NEW j \in 1 .. len + 1, NEW n \in Name, NEW m \in Name,
                      new[i][n] # nullopt, new[j][m] # nullopt
               PROVE  /\ new[i][n].var_idx < next
                      /\ i < j => new[i][n].var_idx < new[j][m].var_idx
                      /\ i = j /\ n # m => new[i][n].var_idx # new[j][m].var_idx
  BY <1>1 DEF Slots, new
<1>4. new[i][n].var_idx \in Nat /\ new[j][m].var_idx \in Nat
  BY <1>2, <1>3
<1>5. CASE i = len + 1
  BY <1>1, <1>3, <1>5
<1>6. CASE i # len + 1 /\ j = len + 1
  <2>1. i \in DOMAIN scopes /\ new[i] = scopes[i]
    BY <1>1, <1>6
  <2>2. new[i][n].var_idx < old
    BY <1>3, <2>1 DEF Slots
  <2>3. QED
    BY <1>1, <1>3, <1>4, <1>6, <2>2
<1>7. CASE i # len + 1 /\ j # len + 1
  <2>1. i \in DOMAIN scopes /\ new[i] = scopes[i] /\ j \in DOMAIN scopes /\ new[j] = scopes[j]
    BY <1>1, <1>7
  <2>2. /\ new[i][n].var_idx < old
        /\ i < j => new[i][n].var_idx < new[j][m].var_idx
        /\ i = j /\ n # m => new[i][n].var_idx # new[j][m].var_idx
    BY <1>3, <2>1 DEF Slots
  <2>3. QED
    BY <1>4, <2>2
<1>8. QED
  BY <1>5, <1>6, <1>7

LEMMA SlotsPop ==
  ASSUME NEW scopes \in Seq(ScopeOf(VarInfo)), Len(scopes) > 0, NEW next, Slots(scopes, next)
  PROVE  Slots(SubSeq(scopes, 1, Len(scopes) - 1), next)
<1> DEFINE front == SubSeq(scopes, 1, Len(scopes) - 1)
<1>1. \A i \in DOMAIN front : i \in DOMAIN scopes /\ front[i] = scopes[i]
  BY FrontType
<1> HIDE DEF front
<1>2. Slots(front, next)
  BY <1>1 DEF Slots
<1>3. QED
  BY <1>2 DEF front

LEMMA ParamSlots ==
  ASSUME NEW ps \in Params, NEW base \in Nat \ {0}, NEW n \in Name, NEW m \in Name,
         ParamScope(ps, base)[n] # nullopt, ParamScope(ps, base)[m] # nullopt
  PROVE  /\ base <= ParamScope(ps, base)[n].var_idx
         /\ ParamScope(ps, base)[n].var_idx < base + Len(ps)
         /\ n # m => ParamScope(ps, base)[n].var_idx # ParamScope(ps, base)[m].var_idx
<1>1. ps \in Seq(Param)
  BY ParamsAssumption
<1>2. PICK i \in DOMAIN ps :
        ps[i].name = n /\ ParamScope(ps, base)[n] = [var_type |-> ps[i].type, var_idx |-> base + i - 1]
  BY ParamScopeFirst
<1>3. PICK j \in DOMAIN ps :
        ps[j].name = m /\ ParamScope(ps, base)[m] = [var_type |-> ps[j].type, var_idx |-> base + j - 1]
  BY ParamScopeFirst
<1>4. i \in Nat /\ i >= 1 /\ i <= Len(ps) /\ Len(ps) \in Nat /\ j \in Nat /\ (n # m => i # j)
  BY <1>1, <1>2, <1>3
<1>5. QED
  BY <1>2, <1>3, <1>4

LEMMA SlotsStep ==
  ASSUME Shape, SlotsDistinct, [Next]_srsv
  PROVE  SlotsDistinct'
<1>1. /\ vars.scopes \in Seq(ScopeOf(VarInfo))
      /\ Len(vars.scopes) = Len(open) + 1 /\ Len(open) \in Nat
      /\ vars.sym_idx \in Nat \ {0}
      /\ Slots(vars.scopes, vars.sym_idx)
  BY DEF Shape, TypeOK, ScopePerList, TableOf, SlotsDistinct, Slots
<1>2. SUFFICES Slots(vars'.scopes, vars'.sym_idx)
  BY DEF SlotsDistinct, Slots
<1>3. EmptyScope \in ScopeOf(VarInfo) /\ \A n \in Name : EmptyScope[n] = nullopt
  BY EmptyScopeType DEF EmptyScope
<1>4. CASE UNCHANGED <<vars, functions, open>>
  BY <1>1, <1>4
<1>5. ASSUME NEW n \in Name, NEW t \in Type, Declared(n, t)
      PROVE  Slots(vars'.scopes, vars'.sym_idx)
  <2> DEFINE len == Len(vars.scopes)
             info == [var_type |-> t, var_idx |-> vars.sym_idx]
             scopes == vars.scopes
             new == vars'.scopes
  <2>1. /\ len \in DOMAIN scopes
        /\ scopes[len][n] = nullopt
        /\ \A i \in DOMAIN scopes : scopes[i] \in ScopeOf(VarInfo) /\ i <= len
        /\ new = [scopes EXCEPT ![len] = [scopes[len] EXCEPT ![n] = info]]
        /\ vars'.sym_idx = vars.sym_idx + 1
    BY <1>1, <1>5 DEF Declared, AddSymbol, CurScope, ScopeAdd
  <2>2. ASSUME NEW i \in DOMAIN new, NEW k \in Name
        PROVE  /\ i \in DOMAIN scopes
               /\ new[i][k] = IF i = len /\ k = n THEN info ELSE scopes[i][k]
               /\ scopes[i][k] # nullopt =>
                    scopes[i][k].var_idx \in Nat /\ scopes[i][k].var_idx < vars.sym_idx
    <3>1. i \in DOMAIN scopes /\ scopes[i] \in ScopeOf(VarInfo)
      BY <2>1
    <3>2. new[i][k] = IF i = len /\ k = n THEN info ELSE scopes[i][k]
      BY <2>1, <3>1 DEF ScopeOf
    <3>3. scopes[i][k] # nullopt =>
            scopes[i][k].var_idx \in Nat /\ scopes[i][k].var_idx < vars.sym_idx
      BY <1>1, <3>1 DEF ScopeOf, VarInfo, Slots
    <3>4. QED
      BY <3>1, <3>2, <3>3
  <2>3. info.var_idx = vars.sym_idx
    OBVIOUS
  <2>4. \A i \in DOMAIN scopes : i \in Nat /\ len \in Nat /\ i <= len
    BY <2>1
  <2> HIDE DEF info, scopes, new, len
  <2>5. SUFFICES ASSUME NEW i \in DOMAIN new, NEW j \in DOMAIN new, NEW k \in Name, NEW l \in Name,
                        new[i][k] # nullopt, new[j][l] # nullopt
                 PROVE  /\ new[i][k].var_idx < vars.sym_idx + 1
                        /\ i < j => new[i][k].var_idx < new[j][l].var_idx
                        /\ i = j /\ k # l => new[i][k].var_idx # new[j][l].var_idx
    BY <2>1 DEF Slots, new
  <2>6. CASE i = len /\ k = n
    BY <1>1, <2>2, <2>3, <2>4, <2>5, <2>6
  <2>7. CASE ~(i = len /\ k = n) /\ j = len /\ l = n
    BY <1>1, <2>2, <2>3, <2>5, <2>7
  <2>8. CASE ~(i = len /\ k = n) /\ ~(j = len /\ l = n)
    <3>1. /\ i \in DOMAIN scopes /\ new[i][k] = scopes[i][k] /\ scopes[i][k] # nullopt
          /\ j \in DOMAIN scopes /\ new[j][l] = scopes[j][l] /\ scopes[j][l] # nullopt
          /\ scopes[i][k].var_idx \in Nat
      BY <2>2, <2>5, <2>8
    <3>2. Slots(scopes, vars.sym_idx)
      BY <1>1 DEF scopes
    <3>3. /\ scopes[i][k].var_idx < vars.sym_idx
          /\ i < j => scopes[i][k].var_idx < scopes[j][l].var_idx
          /\ i = j /\ k # l => scopes[i][k].var_idx # scopes[j][l].var_idx
      BY <3>1, <3>2 DEF Slots
    <3>4. QED
      BY <1>1, <3>1, <3>3
  <2>9. QED
    BY <2>6, <2>7, <2>8
<1>6. ASSUME NEW list \in Lists, Opened(list) PROVE Slots(vars'.scopes, vars'.sym_idx)
  <2>1. vars'.scopes = Append(vars.scopes, EmptyScope) /\ vars'.sym_idx = vars.sym_idx
    BY <1>6 DEF Opened, EnterScope, Shape, TypeOK, TableOf
  <2>2. QED
    BY <1>1, <1>3, <2>1, SlotsPush
<1>7. ASSUME NEW list \in Lists, Switched(list) PROVE Slots(vars'.scopes, vars'.sym_idx)
  <2> DEFINE front == SubSeq(vars.scopes, 1, Len(vars.scopes) - 1)
  <2>1. vars'.scopes = Append(front, EmptyScope) /\ vars'.sym_idx = vars.sym_idx
    BY <1>7 DEF Switched, EnterScope, ExitScope, Shape, TypeOK, TableOf
  <2>2. front \in Seq(ScopeOf(VarInfo)) /\ Slots(front, vars.sym_idx)
    BY <1>1, FrontType, SlotsPop
  <2> HIDE DEF front
  <2>3. QED
    BY <1>1, <1>3, <2>1, <2>2, SlotsPush
<1>8. CASE Closed
  <2>1. /\ vars'.scopes = SubSeq(vars.scopes, 1, Len(vars.scopes) - 1)
        /\ vars'.sym_idx = vars.sym_idx
    BY <1>8 DEF Closed, ExitScope, Shape, TypeOK, TableOf
  <2>2. QED
    BY <1>1, <2>1, SlotsPop
<1>9. ASSUME NEW f \in Name, NEW t \in Type, NEW ps \in Params, FunDeclared(f, t, ps)
      PROVE  Slots(vars'.scopes, vars'.sym_idx)
  <2> DEFINE scope == ParamScope(ps, vars.sym_idx)
             next  == vars.sym_idx + Len(ps)
  <2>1. vars'.scopes = Append(vars.scopes, scope) /\ vars'.sym_idx = next
    BY <1>9 DEF FunDeclared
  <2>2. Len(ps) \in Nat
    BY ParamsAssumption
  <2>3. next \in Nat /\ vars.sym_idx <= next
    BY <1>1, <2>2
  <2>4. scope \in ScopeOf(VarInfo)
    BY <1>1, ParamScopeType
  <2>5. \A n, m \in Name :
          scope[n] # nullopt /\ scope[m] # nullopt =>
            /\ vars.sym_idx <= scope[n].var_idx /\ scope[n].var_idx < next
            /\ n # m => scope[n].var_idx # scope[m].var_idx
    BY <1>1, ParamSlots
  <2> HIDE DEF scope, next
  <2>6. QED
    BY <1>1, <2>1, <2>3, <2>4, <2>5, SlotsPush
<1>10. QED
  BY <1>4, <1>5, <1>6, <1>7, <1>8, <1>9, StepEffect DEF Effect

(* No two variables live at once share a var_idx, and inner scopes hold    *)
(* the higher ones.                                                        *)
THEOREM DistinctSlots == Spec => []SlotsDistinct
<1>1. Init => Shape /\ SlotsDistinct
  <2>1. ASSUME Init PROVE SlotsDistinct
    BY <2>1 DEF Init, NewTable, EmptyScope, SlotsDistinct
  <2>2. QED
    BY <2>1, InitShape
<1>2. Shape /\ SlotsDistinct /\ [Next]_srsv => (Shape /\ SlotsDistinct)'
  BY ShapeStep, SlotsStep
<1>3. QED
  BY <1>1, <1>2, PTL DEF Spec
-----------------------------------------------------------------------------
(* What a function at top level captures is in the global scope, which     *)
(* loses nothing: CapturesLive.                                            *)

InGlobalScope(v, scopes) == \E n \in Name : scopes[1][n] # nullopt /\ scopes[1][n].var_idx = v

GlobalCaptures == \A v \in captures["top"] : InGlobalScope(v, vars.scopes)

(* While a function at top level is walked, all scopes but the global one  *)
(* hold variables from its base on.                                        *)
FunOutermost == open # <<>> /\ open[1].list = "fundec_body"

From(scope, base) == \A n \in Name : scope[n] # nullopt => base <= scope[n].var_idx

InnerFromBase ==
  FunOutermost =>
    /\ open[1].base \in Nat
    /\ open[1].base <= vars.sym_idx
    /\ \A i \in DOMAIN vars.scopes : i # 1 => From(vars.scopes[i], open[1].base)

Keeps(old, new) == \A n \in Name : old[n] # nullopt => new[n] = old[n]

LEMMA TablesOfShape ==
  ASSUME Shape
  PROVE  /\ vars.scopes \in Seq(ScopeOf(VarInfo)) /\ Len(vars.scopes) = Len(open) + 1
         /\ vars.sym_idx \in Nat \ {0}
         /\ vars = [scopes |-> vars.scopes, sym_idx |-> vars.sym_idx]
         /\ open \in Seq(Frame) /\ Len(open) \in Nat
  BY DEF Shape, TypeOK, ScopePerList, TableOf

(* No step takes a variable out of the global scope, or changes it.        *)
LEMMA GlobalKept ==
  ASSUME Shape, [Next]_srsv
  PROVE  Keeps(vars.scopes[1], vars'.scopes[1])
<1> DEFINE len == Len(vars.scopes)
           front == SubSeq(vars.scopes, 1, len - 1)
<1>1. /\ vars.scopes \in Seq(ScopeOf(VarInfo)) /\ len = Len(open) + 1
      /\ vars = [scopes |-> vars.scopes, sym_idx |-> vars.sym_idx]
      /\ open \in Seq(Frame) /\ Len(open) \in Nat
  BY TablesOfShape
<1>2. /\ front \in Seq(ScopeOf(VarInfo)) /\ Len(front) = len - 1
      /\ \A i \in 1 .. len - 1 : front[i] = vars.scopes[i]
  BY <1>1, FrontType
<1>3. CASE UNCHANGED <<vars, functions, open>>
  BY <1>3 DEF Keeps
<1>4. ASSUME NEW n \in Name, NEW t \in Type, Declared(n, t) PROVE Keeps(vars.scopes[1], vars'.scopes[1])
  <2>1. len \in DOMAIN vars.scopes /\ 1 \in DOMAIN vars.scopes
        /\ vars.scopes[1] \in ScopeOf(VarInfo) /\ vars.scopes[len][n] = nullopt
    BY <1>1, <1>4 DEF Declared, CurScope
  <2> DEFINE info == [var_type |-> t, var_idx |-> vars.sym_idx]
  <2>2. vars'.scopes = [vars.scopes EXCEPT ![len] = ScopeAdd(vars.scopes[len], n, info)]
    BY <1>4 DEF Declared, AddSymbol
  <2> HIDE DEF info
  <2>3. vars'.scopes[1] =
          IF len = 1 THEN ScopeAdd(vars.scopes[1], n, info) ELSE vars.scopes[1]
    BY <2>1, <2>2
  <2>4. QED
    BY <2>1, <2>3 DEF Keeps, ScopeAdd, ScopeOf
<1>5. ASSUME NEW list \in Lists, Opened(list) PROVE Keeps(vars.scopes[1], vars'.scopes[1])
  BY <1>1, <1>5, EmptyScopeType DEF Opened, EnterScope, Keeps
<1>6. ASSUME NEW list \in Lists, Switched(list) PROVE Keeps(vars.scopes[1], vars'.scopes[1])
  <2>1. vars'.scopes = Append(front, EmptyScope)
    BY <1>1, <1>6 DEF Switched, EnterScope, ExitScope
  <2>2. Len(front) > 0
    BY <1>1, <1>2, <1>6 DEF Switched
  <2>3. vars'.scopes[1] = vars.scopes[1]
    <3> HIDE DEF front
    <3>1. vars'.scopes[1] = front[1]
      BY <1>2, <2>1, <2>2, EmptyScopeType
    <3>2. QED
      BY <1>1, <1>2, <2>2, <3>1
  <2>4. QED
    BY <2>3 DEF Keeps
<1>7. CASE Closed
  <2>1. vars'.scopes = front
    BY <1>1, <1>7 DEF Closed, ExitScope
  <2>2. 1 \in 1 .. len - 1
    BY <1>1, <1>7 DEF Closed
  <2>3. vars'.scopes[1] = vars.scopes[1]
    BY <1>2, <2>1, <2>2
  <2>4. QED
    BY <2>3 DEF Keeps
<1>8. ASSUME NEW f \in Name, NEW t \in Type, NEW ps \in Params, FunDeclared(f, t, ps)
      PROVE  Keeps(vars.scopes[1], vars'.scopes[1])
  <2>1. vars'.scopes = Append(vars.scopes, ParamScope(ps, vars.sym_idx))
    BY <1>8 DEF FunDeclared
  <2>2. vars'.scopes[1] = vars.scopes[1]
    BY <1>1, <2>1
  <2>3. QED
    BY <2>2 DEF Keeps
<1>9. QED
  BY <1>3, <1>4, <1>5, <1>6, <1>7, <1>8, StepEffect DEF Effect

(* What a top level function reads below its base is a global variable.    *)
LEMMA CapturedGlobal ==
  ASSUME Shape, InnerFromBase, GlobalCaptures, NEW refs \in Seq(Ref), Resolves(refs),
         NEW v \in Captured(refs)["top"]
  PROVE  InGlobalScope(v, vars.scopes)
<1>1. /\ vars.scopes \in Seq(ScopeOf(VarInfo)) /\ open \in Seq(Frame)
  BY TablesOfShape
<1>2. CASE v \in captures["top"]
  BY <1>2 DEF GlobalCaptures
<1>3. CASE v \notin captures["top"]
  <2>1. v \in VarsRead(refs) /\ \E i \in FunFrames : v < open[i].base /\ i = 1
    BY <1>3 DEF Captured
  <2>2. open # <<>> /\ open[1].list = "fundec_body" /\ v < open[1].base
    BY <1>1, <2>1 DEF FunFrames
  <2>3. /\ open[1].base \in Nat
        /\ \A i \in DOMAIN vars.scopes : i # 1 => From(vars.scopes[i], open[1].base)
    BY <2>2 DEF InnerFromBase, FunOutermost
  <2>4. PICK k \in DOMAIN refs : refs[k].kind = "var" /\ v = Lookup(vars.scopes, refs[k].name).var_idx
    BY <2>1 DEF VarsRead, FindSymbol
  <2>5. refs[k].name \in Name
    <3>1. refs[k] \in Ref
      OBVIOUS
    <3>2. QED
      BY <3>1 DEF Ref
  <2>6. Lookup(vars.scopes, refs[k].name) # nullopt
    BY <2>4 DEF Resolves, FindSymbol
  <2>7. PICK i \in DOMAIN vars.scopes :
          /\ vars.scopes[i][refs[k].name] # nullopt
          /\ Lookup(vars.scopes, refs[k].name) = vars.scopes[i][refs[k].name]
    BY <1>1, <2>5, <2>6, LookupInnermost
  <2>8. v \in Nat
    BY <2>1, VarsReadType
  <2>9. i = 1
    BY <2>2, <2>3, <2>4, <2>5, <2>7, <2>8 DEF From
  <2>10. QED
    BY <2>4, <2>5, <2>7, <2>9 DEF InGlobalScope
<1>4. QED
  BY <1>2, <1>3

LEMMA GlobalCapturesStep ==
  ASSUME Shape, InnerFromBase, GlobalCaptures, [Next]_srsv
  PROVE  GlobalCaptures'
<1>1. \A v \in captures'["top"] : InGlobalScope(v, vars.scopes)
  <2>1. CASE UNCHANGED captures
    BY <2>1 DEF GlobalCaptures
  <2>2. ASSUME NEW refs \in Seq(Ref), Resolves(refs), captures' = Captured(refs)
        PROVE  \A v \in captures'["top"] : InGlobalScope(v, vars.scopes)
    BY <2>2, CapturedGlobal
  <2>3. QED
    BY <2>1, <2>2, StepCapturing DEF Capturing
<1>2. Keeps(vars.scopes[1], vars'.scopes[1])
  BY GlobalKept
<1>3. QED
  BY <1>1, <1>2 DEF GlobalCaptures, InGlobalScope, Keeps

(* The variables of a scope put on top of the others are from the base of  *)
(* the function on, and the open lists start with the same function.       *)
LEMMA InnerPush ==
  ASSUME Shape, InnerFromBase,
         NEW scopes \in Seq(ScopeOf(VarInfo)), Len(scopes) \in 1 .. Len(vars.scopes),
         \A i \in DOMAIN scopes : scopes[i] = vars.scopes[i],
         NEW scope \in ScopeOf(VarInfo), From(scope, vars.sym_idx),
         vars'.scopes = Append(scopes, scope),
         vars'.sym_idx \in Nat, vars.sym_idx <= vars'.sym_idx,
         FunOutermost' => FunOutermost /\ open'[1] = open[1]
  PROVE  InnerFromBase'
<1> SUFFICES ASSUME FunOutermost' PROVE
      /\ open'[1].base \in Nat
      /\ open'[1].base <= vars'.sym_idx
      /\ \A i \in DOMAIN vars'.scopes : i # 1 => From(vars'.scopes[i], open'[1].base)
  BY DEF InnerFromBase
<1>1. /\ FunOutermost /\ open'[1] = open[1]
      /\ open[1].base \in Nat /\ open[1].base <= vars.sym_idx
      /\ \A i \in DOMAIN vars.scopes : i # 1 => From(vars.scopes[i], open[1].base)
  BY DEF InnerFromBase
<1>2. /\ vars.scopes \in Seq(ScopeOf(VarInfo)) /\ vars.sym_idx \in Nat
  BY TablesOfShape
<1>3. \A n \in Name : scope[n] # nullopt => scope[n].var_idx \in Nat
  BY DEF ScopeOf, VarInfo
<1>4. From(scope, open[1].base)
  BY <1>1, <1>2, <1>3 DEF From
<1>5. ASSUME NEW i \in DOMAIN vars'.scopes, i # 1 PROVE From(vars'.scopes[i], open[1].base)
  <2>1. CASE i = Len(scopes) + 1
    BY <1>4, <2>1
  <2>2. CASE i # Len(scopes) + 1
    <3>1. i \in DOMAIN scopes /\ i \in DOMAIN vars.scopes /\ vars'.scopes[i] = vars.scopes[i]
      BY <1>2, <1>5, <2>2
    <3>2. QED
      BY <1>1, <1>5, <3>1
  <2>3. QED
    BY <2>1, <2>2
<1>6. QED
  BY <1>1, <1>2, <1>5

LEMMA InnerStep ==
  ASSUME Shape, InnerFromBase, [Next]_srsv
  PROVE  InnerFromBase'
<1> DEFINE len   == Len(vars.scopes)
           front == SubSeq(vars.scopes, 1, len - 1)
<1>1. /\ vars.scopes \in Seq(ScopeOf(VarInfo)) /\ len = Len(open) + 1
      /\ vars.sym_idx \in Nat \ {0}
      /\ vars = [scopes |-> vars.scopes, sym_idx |-> vars.sym_idx]
      /\ open \in Seq(Frame) /\ Len(open) \in Nat
  BY TablesOfShape
<1>2. /\ front \in Seq(ScopeOf(VarInfo)) /\ Len(front) = len - 1
      /\ \A i \in 1 .. len - 1 : front[i] = vars.scopes[i]
  BY <1>1, FrontType
<1>3. EmptyScope \in ScopeOf(VarInfo) /\ From(EmptyScope, vars.sym_idx)
  BY EmptyScopeType DEF From, EmptyScope
<1>4. "fundec_body" \notin Lists
  BY DEF Lists
<1>5. CASE UNCHANGED <<vars, functions, open>>
  BY <1>5 DEF InnerFromBase, FunOutermost
<1>6. ASSUME NEW n \in Name, NEW t \in Type, Declared(n, t) PROVE InnerFromBase'
  <2> DEFINE info == [var_type |-> t, var_idx |-> vars.sym_idx]
             top  == vars.scopes[len]
  <2>1. len \in DOMAIN vars.scopes /\ top \in ScopeOf(VarInfo) /\ top[n] = nullopt
    BY <1>1, <1>6 DEF Declared, CurScope
  <2>2. /\ vars'.scopes = [vars.scopes EXCEPT ![len] = ScopeAdd(top, n, info)]
        /\ vars'.sym_idx = vars.sym_idx + 1 /\ open' = open
    BY <1>6 DEF Declared, AddSymbol
  <2>3. SUFFICES ASSUME FunOutermost PROVE
          /\ open[1].base \in Nat
          /\ open[1].base <= vars.sym_idx + 1
          /\ \A i \in DOMAIN vars'.scopes : i # 1 => From(vars'.scopes[i], open[1].base)
    BY <2>2 DEF InnerFromBase, FunOutermost
  <2>4. /\ open[1].base \in Nat /\ open[1].base <= vars.sym_idx
        /\ \A i \in DOMAIN vars.scopes : i # 1 => From(vars.scopes[i], open[1].base)
    BY <2>3 DEF InnerFromBase
  <2>5. From(top, open[1].base) => From(ScopeAdd(top, n, info), open[1].base)
    BY <2>1, <2>4 DEF From, ScopeAdd, ScopeOf
  <2> HIDE DEF info, top
  <2>6. ASSUME NEW i \in DOMAIN vars'.scopes, i # 1 PROVE From(vars'.scopes[i], open[1].base)
    BY <2>1, <2>2, <2>4, <2>5, <2>6 DEF top
  <2>7. QED
    BY <1>1, <2>4, <2>6
<1>7. ASSUME NEW list \in Lists, Opened(list) PROVE InnerFromBase'
  <2>1. vars'.scopes = Append(vars.scopes, EmptyScope) /\ vars'.sym_idx = vars.sym_idx
    BY <1>1, <1>7 DEF Opened, EnterScope
  <2>2. FunOutermost' => FunOutermost /\ open'[1] = open[1]
    <3>1. open' = Append(open, [list |-> list])
      BY <1>7 DEF Opened
    <3>2. CASE open = <<>>
      BY <1>4, <3>1, <3>2 DEF FunOutermost
    <3>3. CASE open # <<>>
      BY <1>1, <3>1, <3>3 DEF FunOutermost
    <3>4. QED
      BY <3>2, <3>3
  <2>3. QED
    BY <1>1, <1>3, <2>1, <2>2, InnerPush
<1>8. ASSUME NEW list \in Lists, Switched(list) PROVE InnerFromBase'
  <2>1. vars'.scopes = Append(front, EmptyScope) /\ vars'.sym_idx = vars.sym_idx
    BY <1>1, <1>8 DEF Switched, EnterScope, ExitScope
  <2>2. FunOutermost' => FunOutermost /\ open'[1] = open[1]
    <3>1. open' = [open EXCEPT ![Len(open)] = [list |-> list]] /\ Len(open) > 0
      BY <1>1, <1>8 DEF Switched
    <3>2. open'[1] = IF Len(open) = 1 THEN [list |-> list] ELSE open[1]
      BY <1>1, <3>1
    <3>3. QED
      BY <1>1, <1>4, <3>1, <3>2 DEF FunOutermost
  <2>3. Len(front) \in 1 .. len
    BY <1>1, <1>2, <1>8 DEF Switched
  <2> HIDE DEF front
  <2>4. QED
    BY <1>1, <1>2, <1>3, <2>1, <2>2, <2>3, InnerPush
<1>9. CASE Closed
  <2>1. vars'.scopes = front /\ vars'.sym_idx = vars.sym_idx
    BY <1>1, <1>9 DEF Closed, ExitScope
  <2>2. FunOutermost' => FunOutermost /\ open'[1] = open[1]
    <3>1. open' = SubSeq(open, 1, Len(open) - 1) /\ Len(open) > 0
      BY <1>1, <1>9 DEF Closed
    <3>2. open' \in Seq(Frame) /\ Len(open') = Len(open) - 1
          /\ \A i \in 1 .. Len(open) - 1 : open'[i] = open[i]
      BY <1>1, <3>1, FrontType
    <3>3. QED
      BY <1>1, <3>1, <3>2 DEF FunOutermost
  <2>3. \A i \in DOMAIN front : i \in DOMAIN vars.scopes /\ front[i] = vars.scopes[i]
    BY <1>1, <1>2
  <2> HIDE DEF front
  <2>4. QED
    BY <2>1, <2>2, <2>3 DEF InnerFromBase
<1>10. ASSUME NEW f \in Name, NEW t \in Type, NEW ps \in Params, FunDeclared(f, t, ps)
       PROVE  InnerFromBase'
  <2> DEFINE scope == ParamScope(ps, vars.sym_idx)
             next  == vars.sym_idx + Len(ps)
             frame == [list |-> "fundec_body", fun |-> f, base |-> vars.sym_idx]
  <2>1. /\ vars'.scopes = Append(vars.scopes, scope) /\ vars'.sym_idx = next
        /\ open' = Append(open, frame)
    BY <1>10 DEF FunDeclared
  <2>2. scope \in ScopeOf(VarInfo) /\ From(scope, vars.sym_idx)
    BY <1>1, ParamScopeType, ParamSlots DEF From
  <2>3. next \in Nat /\ vars.sym_idx <= next
    BY <1>1, ParamsAssumption
  <2>4. frame.base = vars.sym_idx
    OBVIOUS
  <2> HIDE DEF scope, next, frame
  <2>5. CASE open = <<>>
    <3>1. open'[1] = frame
      BY <2>1, <2>5
    <3>2. Len(vars.scopes) = 1
      BY <1>1, <2>5
    <3>3. \A i \in DOMAIN vars'.scopes : i # 1 => vars'.scopes[i] = scope
      BY <1>1, <2>1, <2>2, <3>2
    <3>4. QED
      BY <1>1, <2>1, <2>2, <2>3, <2>4, <3>1, <3>3 DEF InnerFromBase
  <2>6. CASE open # <<>>
    <3>1. FunOutermost' => FunOutermost /\ open'[1] = open[1]
      BY <1>1, <2>1, <2>6 DEF FunOutermost
    <3>2. Len(vars.scopes) \in 1 .. Len(vars.scopes)
      BY <1>1
    <3>3. vars'.scopes = Append(vars.scopes, scope)
      BY <2>1
    <3>4. vars'.sym_idx \in Nat /\ vars.sym_idx <= vars'.sym_idx
      BY <2>1, <2>3
    <3>5. vars.scopes \in Seq(ScopeOf(VarInfo))
      BY <1>1
    <3>6. QED
      BY <2>2, <3>1, <3>2, <3>3, <3>4, <3>5, InnerPush
  <2>7. QED
    BY <2>5, <2>6
<1>11. QED
  BY <1>5, <1>6, <1>7, <1>8, <1>9, <1>10, StepEffect DEF Effect

(* A function at top level may be called from anywhere behind it: what its *)
(* body takes from outside of it, blocks and functions nested in it        *)
(* included, is never gone.                                                *)
THEOREM Captures == Spec => []CapturesLive
<1> DEFINE Inv == Shape /\ InnerFromBase /\ GlobalCaptures
<1>1. Init => Inv
  <2>1. ASSUME Init PROVE InnerFromBase /\ GlobalCaptures
    BY <2>1 DEF Init, InnerFromBase, FunOutermost, GlobalCaptures
  <2>2. QED
    BY <2>1, InitShape
<1>2. Inv /\ [Next]_srsv => Inv'
  BY ShapeStep, InnerStep, GlobalCapturesStep
<1>3. Inv => CapturesLive
  <2>1. Shape => 1 \in DOMAIN vars.scopes
    BY DEF Shape, TypeOK, ScopePerList, TableOf
  <2>2. QED
    BY <2>1 DEF CapturesLive, GlobalCaptures, InGlobalScope
<1>4. QED
  BY <1>1, <1>2, <1>3, PTL DEF Spec

-----------------------------------------------------------------------------
(* The symbol tables implement lexical scoping: every step of SymRes is a  *)
(* step of LexScope, or changes nothing in it, under the mapping LS.       *)
Env == ScopeOf(VarInfo)

(* The environments with the inner scopes gone, of all scopes and of all   *)
(* but the last, which is what LS maps saved to.                           *)
Envs(scopes)  == [k \in 1 .. Len(scopes) |-> EnvOf(SubSeq(scopes, 1, k))]
Saved(scopes) == [k \in 1 .. Len(scopes) - 1 |-> EnvOf(SubSeq(scopes, 1, k))]

-----------------------------------------------------------------------------
(* Sequences and their prefixes.                                           *)

LEMMA LastSplit ==
  ASSUME NEW T, NEW s \in Seq(T), Len(s) > 0
  PROVE  /\ SubSeq(s, 1, Len(s) - 1) \in Seq(T)
         /\ s[Len(s)] \in T
         /\ s = Append(SubSeq(s, 1, Len(s) - 1), s[Len(s)])
<1> DEFINE front == SubSeq(s, 1, Len(s) - 1)
           last  == s[Len(s)]
<1>1. /\ front \in Seq(T) /\ Len(front) = Len(s) - 1
      /\ \A i \in 1 .. Len(s) - 1 : front[i] = s[i]
  BY FrontType
<1>2. last \in T
  BY ElementOfSeq
<1> HIDE DEF front
<1>3. /\ Append(front, last) \in Seq(T) /\ Len(Append(front, last)) = Len(s)
      /\ \A i \in 1 .. Len(s) : Append(front, last)[i] = s[i]
  BY <1>1, <1>2
<1>4. s = Append(front, last)
  BY <1>3, SeqEqual
<1>5. QED
  BY <1>1, <1>2, <1>4 DEF front

(* A prefix of a sequence as a sequence.                                   *)
LEMMA PrefixType ==
  ASSUME NEW T, NEW s \in Seq(T), NEW k \in 1 .. Len(s)
  PROVE  /\ SubSeq(s, 1, k) \in Seq(T)
         /\ Len(SubSeq(s, 1, k)) = k
         /\ \A i \in 1 .. k : SubSeq(s, 1, k)[i] = s[i]
<1>1. k \in Nat /\ \A i \in 1 .. k : s[i] \in T
  OBVIOUS
<1>2. /\ SubSeq(s, 1, k) \in Seq(T)
      /\ Len(SubSeq(s, 1, k)) = IF 1 <= k THEN k - 1 + 1 ELSE 0
      /\ \A i \in 1 .. k - 1 + 1 : SubSeq(s, 1, k)[i] = s[1 + i - 1]
  BY <1>1, SubSeqProperties
<1>3. ASSUME NEW i \in 1 .. k PROVE SubSeq(s, 1, k)[i] = s[i]
  <2>1. i \in 1 .. k - 1 + 1 /\ 1 + i - 1 = i
    BY <1>1
  <2>2. QED
    BY <1>2, <2>1
<1>4. QED
  BY <1>1, <1>2, <1>3

LEMMA WholePrefix ==
  ASSUME NEW T, NEW s \in Seq(T), Len(s) > 0
  PROVE  SubSeq(s, 1, Len(s)) = s
<1>1. Len(s) \in 1 .. Len(s)
  OBVIOUS
<1>2. /\ SubSeq(s, 1, Len(s)) \in Seq(T) /\ Len(SubSeq(s, 1, Len(s))) = Len(s)
      /\ \A i \in 1 .. Len(s) : SubSeq(s, 1, Len(s))[i] = s[i]
  BY <1>1, PrefixType
<1>3. QED
  BY <1>2, SeqEqual

LEMMA PrefixOfAppend ==
  ASSUME NEW T, NEW s \in Seq(T), NEW x \in T, NEW k \in 1 .. Len(s)
  PROVE  SubSeq(Append(s, x), 1, k) = SubSeq(s, 1, k)
<1> DEFINE new == Append(s, x)
<1>1. new \in Seq(T) /\ k \in 1 .. Len(new) /\ \A i \in 1 .. k : new[i] = s[i]
  OBVIOUS
<1>2. /\ SubSeq(s, 1, k) \in Seq(T) /\ Len(SubSeq(s, 1, k)) = k
      /\ \A i \in 1 .. k : SubSeq(s, 1, k)[i] = s[i]
  BY PrefixType
<1> HIDE DEF new
<1>3. /\ SubSeq(new, 1, k) \in Seq(T) /\ Len(SubSeq(new, 1, k)) = k
      /\ \A i \in 1 .. k : SubSeq(new, 1, k)[i] = new[i]
  BY <1>1, PrefixType
<1>4. SubSeq(new, 1, k) = SubSeq(s, 1, k)
  BY <1>1, <1>2, <1>3, SeqEqual
<1>5. QED
  BY <1>4 DEF new

LEMMA ReplaceLast ==
  ASSUME NEW T, NEW s \in Seq(T), NEW x \in T, NEW y \in T
  PROVE  [Append(s, x) EXCEPT ![Len(Append(s, x))] = y] = Append(s, y)
<1> DEFINE from == Append(s, x)
           to   == Append(s, y)
           old  == [from EXCEPT ![Len(from)] = y]
<1>1. /\ Len(s) \in Nat
      /\ from \in Seq(T) /\ Len(from) = Len(s) + 1 /\ \A i \in 1 .. Len(s) : from[i] = s[i]
      /\ to \in Seq(T) /\ Len(to) = Len(s) + 1 /\ to[Len(s) + 1] = y
      /\ \A i \in 1 .. Len(s) : to[i] = s[i]
  OBVIOUS
<1> HIDE DEF from, to
<1>2. /\ old \in Seq(T) /\ Len(old) = Len(from)
      /\ \A i \in 1 .. Len(from) : old[i] = IF i = Len(from) THEN y ELSE from[i]
  BY <1>1
<1> HIDE DEF old
<1>3. \A i \in 1 .. Len(s) + 1 : old[i] = to[i]
  BY <1>1, <1>2
<1>4. old = to
  BY <1>1, <1>2, <1>3, SeqEqual
<1>5. QED
  BY <1>4 DEF old, from, to

-----------------------------------------------------------------------------
(* What find_symbol answers when a scope is on top of others.              *)
LEMMA LookupAppend ==
  ASSUME NEW T, NEW scopes \in Seq(ScopeOf(T)), NEW scope \in ScopeOf(T), NEW n \in Name
  PROVE  Lookup(Append(scopes, scope), n) =
           IF scope[n] # nullopt THEN scope[n] ELSE Lookup(scopes, n)
<1> DEFINE new == Append(scopes, scope)
           len == Len(scopes)
<1>1. /\ len \in Nat
      /\ new \in Seq(ScopeOf(T))
      /\ DOMAIN new = 1 .. len + 1 /\ DOMAIN scopes = 1 .. len
      /\ new[len + 1] = scope
      /\ \A i \in 1 .. len : new[i] = scopes[i]
  OBVIOUS
<1> HIDE DEF new, len
<1>2. \/ /\ \A i \in DOMAIN new : new[i][n] = nullopt
         /\ Lookup(new, n) = nullopt
      \/ \E i \in DOMAIN new :
           /\ new[i][n] # nullopt
           /\ \A j \in DOMAIN new : new[j][n] # nullopt => j <= i
           /\ Lookup(new, n) = new[i][n]
  BY <1>1, LookupInnermost
<1>3. \/ /\ \A i \in DOMAIN scopes : scopes[i][n] = nullopt
         /\ Lookup(scopes, n) = nullopt
      \/ \E i \in DOMAIN scopes :
           /\ scopes[i][n] # nullopt
           /\ \A j \in DOMAIN scopes : scopes[j][n] # nullopt => j <= i
           /\ Lookup(scopes, n) = scopes[i][n]
  BY LookupInnermost
<1>4. CASE scope[n] # nullopt
  <2>1. len + 1 \in DOMAIN new /\ new[len + 1][n] # nullopt
    BY <1>1, <1>4
  <2>2. PICK i \in DOMAIN new :
          /\ \A j \in DOMAIN new : new[j][n] # nullopt => j <= i
          /\ Lookup(new, n) = new[i][n]
    BY <1>2, <2>1
  <2>3. i = len + 1
    BY <1>1, <2>1, <2>2
  <2>4. QED
    BY <1>1, <1>4, <2>2, <2>3 DEF new
<1>5. CASE scope[n] = nullopt
  <2>1. CASE \A i \in DOMAIN scopes : scopes[i][n] = nullopt
    <3>1. \A i \in DOMAIN new : new[i][n] = nullopt
      BY <1>1, <1>5, <2>1
    <3>2. Lookup(new, n) = nullopt
      BY <1>2, <3>1
    <3>3. Lookup(scopes, n) = nullopt
      BY <1>3, <2>1
    <3>4. QED
      BY <1>5, <3>2, <3>3 DEF new
  <2>2. CASE \E i \in DOMAIN scopes : scopes[i][n] # nullopt
    <3>1. PICK i \in DOMAIN scopes :
            /\ scopes[i][n] # nullopt
            /\ \A j \in DOMAIN scopes : scopes[j][n] # nullopt => j <= i
            /\ Lookup(scopes, n) = scopes[i][n]
      BY <1>3, <2>2
    <3>2. i \in DOMAIN new /\ new[i][n] # nullopt
      BY <1>1, <3>1
    <3>3. PICK k \in DOMAIN new :
            /\ new[k][n] # nullopt
            /\ \A j \in DOMAIN new : new[j][n] # nullopt => j <= k
            /\ Lookup(new, n) = new[k][n]
      BY <1>2, <3>2
    <3>4. k # len + 1
      BY <1>1, <1>5, <3>3
    <3>5. k \in DOMAIN scopes /\ new[k] = scopes[k]
      BY <1>1, <3>3, <3>4
    <3>6. k = i
      BY <1>1, <3>1, <3>2, <3>3, <3>5
    <3>7. QED
      BY <1>5, <3>1, <3>3, <3>5, <3>6 DEF new
  <2>3. QED
    BY <2>1, <2>2
<1>6. QED
  BY <1>4, <1>5
-----------------------------------------------------------------------------
(* Environments.                                                           *)

LEMMA EnvType ==
  ASSUME NEW scopes \in Seq(Env)
  PROVE  EnvOf(scopes) \in Env
<1>1. \A n \in Name : Lookup(scopes, n) \in VarInfo \union {nullopt}
  BY LookupType DEF Env
<1>2. QED
  BY <1>1 DEF EnvOf, Env, ScopeOf

LEMMA EnvAppend ==
  ASSUME NEW scopes \in Seq(Env), NEW scope \in Env
  PROVE  EnvOf(Append(scopes, scope)) =
           [n \in Name |-> IF scope[n] # nullopt THEN scope[n] ELSE EnvOf(scopes)[n]]
<1>1. \A n \in Name : Lookup(Append(scopes, scope), n) =
        IF scope[n] # nullopt THEN scope[n] ELSE Lookup(scopes, n)
  BY LookupAppend DEF Env
<1>2. QED
  BY <1>1 DEF EnvOf

(* An empty scope on top changes no name's meaning.                        *)
LEMMA EnvEntered ==
  ASSUME NEW scopes \in Seq(Env)
  PROVE  EnvOf(Append(scopes, EmptyScope)) = EnvOf(scopes)
<1>1. EmptyScope \in Env /\ \A n \in Name : EmptyScope[n] = nullopt
  BY EmptyScopeType DEF Env, EmptyScope
<1>2. EnvOf(Append(scopes, EmptyScope)) = [n \in Name |-> EnvOf(scopes)[n]]
  BY <1>1, EnvAppend
<1>3. QED
  BY <1>2 DEF EnvOf

LEMMA EnvsType ==
  ASSUME NEW scopes \in Seq(Env)
  PROVE  Envs(scopes) \in Seq(Env) /\ Len(Envs(scopes)) = Len(scopes)
<1>1. \A k \in 1 .. Len(scopes) : EnvOf(SubSeq(scopes, 1, k)) \in Env
  BY PrefixType, EnvType
<1>2. QED
  BY <1>1 DEF Envs

(* What is saved below a scope does not depend on it.                      *)
LEMMA SavedAppend ==
  ASSUME NEW scopes \in Seq(Env), NEW scope \in Env
  PROVE  Saved(Append(scopes, scope)) = Envs(scopes)
<1>1. \A k \in 1 .. Len(scopes) : SubSeq(Append(scopes, scope), 1, k) = SubSeq(scopes, 1, k)
  BY PrefixOfAppend
<1>2. Len(Append(scopes, scope)) - 1 = Len(scopes)
  OBVIOUS
<1>3. QED
  BY <1>1, <1>2 DEF Saved, Envs

LEMMA EnvsSaved ==
  ASSUME NEW scopes \in Seq(Env), Len(scopes) > 0
  PROVE  /\ Saved(scopes) \in Seq(Env)
         /\ Len(Saved(scopes)) = Len(scopes) - 1
         /\ Envs(scopes) = Append(Saved(scopes), EnvOf(scopes))
<1>1. ASSUME NEW k \in 1 .. Len(scopes) - 1 PROVE EnvOf(SubSeq(scopes, 1, k)) \in Env
  <2>1. k \in 1 .. Len(scopes)
    OBVIOUS
  <2>2. QED
    BY <2>1, PrefixType, EnvType
<1>2. /\ Saved(scopes) \in Seq(Env) /\ Len(Saved(scopes)) = Len(scopes) - 1
      /\ \A k \in 1 .. Len(scopes) - 1 : Saved(scopes)[k] = EnvOf(SubSeq(scopes, 1, k))
  BY <1>1 DEF Saved
<1>3. EnvOf(scopes) \in Env
  BY EnvType
<1>4. /\ Envs(scopes) \in Seq(Env) /\ Len(Envs(scopes)) = Len(scopes)
      /\ \A k \in 1 .. Len(scopes) : Envs(scopes)[k] = EnvOf(SubSeq(scopes, 1, k))
  BY EnvsType DEF Envs
<1> DEFINE both == Append(Saved(scopes), EnvOf(scopes))
<1>5. /\ both \in Seq(Env) /\ Len(both) = Len(scopes)
      /\ \A k \in 1 .. Len(scopes) - 1 : both[k] = Saved(scopes)[k]
      /\ both[Len(scopes)] = EnvOf(scopes)
  BY <1>2, <1>3
<1>6. EnvOf(SubSeq(scopes, 1, Len(scopes))) = EnvOf(scopes)
  BY WholePrefix
<1>7. \A k \in 1 .. Len(scopes) : Envs(scopes)[k] = both[k]
  BY <1>2, <1>4, <1>5, <1>6
<1> HIDE DEF both
<1>8. Envs(scopes) = both
  BY <1>4, <1>5, <1>7, SeqEqual
<1>9. QED
  BY <1>2, <1>8 DEF both

-----------------------------------------------------------------------------
(* The steps, in terms of what LS maps to.                                 *)

TopSplit(front, top) ==
  /\ front \in Seq(Env) /\ top \in Env
  /\ vars.scopes = Append(front, top)
  /\ front = SubSeq(vars.scopes, 1, Len(vars.scopes) - 1)
  /\ top = vars.scopes[Len(vars.scopes)]
  /\ Len(vars.scopes) = Len(front) + 1

LEMMA ScopesSplit ==
  ASSUME Shape
  PROVE  /\ vars.scopes \in Seq(Env) /\ vars.sym_idx \in Nat
         /\ Len(vars.scopes) = Len(open) + 1 /\ Len(open) \in Nat
         /\ vars = [scopes |-> vars.scopes, sym_idx |-> vars.sym_idx]
         /\ TopSplit(SubSeq(vars.scopes, 1, Len(vars.scopes) - 1), vars.scopes[Len(vars.scopes)])
<1>1. /\ vars.scopes \in Seq(Env) /\ vars.sym_idx \in Nat
      /\ Len(vars.scopes) = Len(open) + 1 /\ Len(open) \in Nat
      /\ vars = [scopes |-> vars.scopes, sym_idx |-> vars.sym_idx]
  BY DEF Shape, TypeOK, ScopePerList, TableOf, Env
<1> DEFINE front == SubSeq(vars.scopes, 1, Len(vars.scopes) - 1)
           top   == vars.scopes[Len(vars.scopes)]
<1>2. front \in Seq(Env) /\ top \in Env /\ vars.scopes = Append(front, top)
  BY <1>1, LastSplit
<1>3. Len(front) = Len(vars.scopes) - 1
  BY <1>1, FrontType
<1>4. QED
  BY <1>1, <1>2, <1>3 DEF TopSplit

LEMMA InitRefines == Init => LS!Init
<1> SUFFICES ASSUME Init PROVE LS!Init
  OBVIOUS
<1>1. /\ vars.scopes = <<EmptyScope>> /\ vars.sym_idx = 1
  BY DEF Init, NewTable
<1>2. EnvOf(vars.scopes) = [n \in Name |-> nullopt]
  <2>1. <<EmptyScope>> = Append(<<>>, EmptyScope) /\ <<>> \in Seq(Env)
    OBVIOUS
  <2>2. \A n \in Name : Lookup(<<>>, n) = nullopt
    BY DEF Lookup, Declaring
  <2>3. QED
    BY <1>1, <2>1, <2>2, EnvEntered DEF EnvOf
<1>3. vars.scopes \in Seq(Env) /\ Len(vars.scopes) = 1
  BY <1>1, EmptyScopeType DEF Env
<1>4. [k \in 1 .. Len(vars.scopes) - 1 |-> EnvOf(SubSeq(vars.scopes, 1, k))] = <<>>
  <2>1. Saved(vars.scopes) \in Seq(Env) /\ Len(Saved(vars.scopes)) = 1 - 1
    <3>1. Len(vars.scopes) > 0
      BY <1>3
    <3>2. QED
      BY <1>3, <3>1, EnvsSaved
  <2>2. Saved(vars.scopes) = <<>>
    BY <2>1, EmptySeq
  <2>3. QED
    BY <2>2 DEF Saved
<1>5. QED
  BY <1>1, <1>2, <1>4 DEF LS!Init
-----------------------------------------------------------------------------
(* One lemma for each effect a handler has on the tables.                  *)

LEMMA DeclaredRefines ==
  ASSUME Shape, NEW n \in Name, NEW t \in Type, Declared(n, t)
  PROVE  LS!Declare(n, t)
<1> DEFINE info  == [var_type |-> t, var_idx |-> vars.sym_idx]
           front == SubSeq(vars.scopes, 1, Len(vars.scopes) - 1)
           top   == vars.scopes[Len(vars.scopes)]
           added == [top EXCEPT ![n] = info]
<1>1. /\ vars.scopes \in Seq(Env) /\ TopSplit(front, top)
  BY ScopesSplit
<1>2. info \in VarInfo /\ info # nullopt
  <2>1. info \in VarInfo
    BY DEF VarInfo, Shape, TypeOK, TableOf
  <2>2. QED
    BY <2>1, NulloptAssumption
<1>3. top \in Env /\ top[n] = nullopt
  BY <1>1 DEF Declared, CurScope, TopSplit
<1> HIDE DEF info, front, top
<1>4. /\ added \in Env
      /\ \A m \in Name : added[m] = IF m = n THEN info ELSE top[m]
  BY <1>2, <1>3 DEF Env, ScopeOf
<1>5. /\ vars'.scopes = [vars.scopes EXCEPT ![Len(vars.scopes)] = added]
      /\ vars'.sym_idx = vars.sym_idx + 1
  BY <1>3 DEF Declared, AddSymbol, ScopeAdd, CurScope, info, top
<1> HIDE DEF added
<1>6. vars'.scopes = Append(front, added)
  <2>1. vars.scopes = Append(front, top) /\ front \in Seq(Env)
    BY <1>1 DEF TopSplit
  <2>2. vars'.scopes = [Append(front, top) EXCEPT ![Len(Append(front, top))] = added]
    BY <1>5, <2>1
  <2>3. QED
    BY <1>3, <1>4, <2>1, <2>2, ReplaceLast
<1>7. EnvOf(vars'.scopes) = [EnvOf(vars.scopes) EXCEPT ![n] = info]
  <2>1. EnvOf(vars'.scopes) = [m \in Name |-> IF added[m] # nullopt THEN added[m] ELSE EnvOf(front)[m]]
    BY <1>1, <1>4, <1>6, EnvAppend DEF TopSplit
  <2>2. EnvOf(vars.scopes) = [m \in Name |-> IF top[m] # nullopt THEN top[m] ELSE EnvOf(front)[m]]
    BY <1>1, <1>3, EnvAppend DEF TopSplit
  <2>3. QED
    BY <1>2, <1>4, <2>1, <2>2
<1>8. Saved(vars'.scopes) = Saved(vars.scopes)
  <2>1. Saved(vars'.scopes) = Envs(front)
    BY <1>1, <1>4, <1>6, SavedAppend DEF TopSplit
  <2>2. Saved(vars.scopes) = Envs(front)
    BY <1>1, <1>3, SavedAppend DEF TopSplit
  <2>3. QED
    BY <2>1, <2>2
<1>9. QED
  BY <1>5, <1>7, <1>8 DEF LS!Declare, LS!Meaning, Saved, info

LEMMA OpenedRefines ==
  ASSUME Shape, NEW list \in Lists, Opened(list)
  PROVE  LS!EnterBlock
<1>1. vars.scopes \in Seq(Env) /\ Len(vars.scopes) > 0
  BY ScopesSplit
<1>2. vars'.scopes = Append(vars.scopes, EmptyScope) /\ vars'.sym_idx = vars.sym_idx
  BY ScopesSplit DEF Opened, EnterScope
<1>3. EnvOf(vars'.scopes) = EnvOf(vars.scopes)
  BY <1>1, <1>2, EnvEntered
<1>4. Saved(vars'.scopes) = Append(Saved(vars.scopes), EnvOf(vars.scopes))
  BY <1>1, <1>2, EmptyScopeType, SavedAppend, EnvsSaved DEF Env
<1>5. QED
  BY <1>2, <1>3, <1>4 DEF LS!EnterBlock, Saved

(* What LS maps saved to when a scope can be left.                         *)
LEMMA SavedTop ==
  ASSUME NEW front \in Seq(Env), NEW top \in Env, Len(front) > 0
  PROVE  /\ Saved(Append(front, top)) # <<>>
         /\ LET s == Saved(Append(front, top))
            IN  s[Len(s)] = EnvOf(front) /\ SubSeq(s, 1, Len(s) - 1) = Saved(front)
<1> DEFINE s == Saved(Append(front, top))
           r == Saved(front)
           e == EnvOf(front)
<1>1. s = Append(r, e) /\ r \in Seq(Env) /\ e \in Env
  BY SavedAppend, EnvsSaved, EnvType
<1> HIDE DEF s, r, e
<1>2. s # <<>> /\ Len(s) = Len(r) + 1 /\ s[Len(s)] = e
  BY <1>1
<1>3. SubSeq(s, 1, Len(s) - 1) = r
  BY <1>1
<1>4. QED
  BY <1>2, <1>3 DEF s, r, e

LEMMA SwitchedRefines ==
  ASSUME Shape, NEW list \in Lists, Switched(list)
  PROVE  LS!NextBlock
<1> DEFINE front == SubSeq(vars.scopes, 1, Len(vars.scopes) - 1)
           top   == vars.scopes[Len(vars.scopes)]
<1>1. /\ front \in Seq(Env) /\ top \in Env /\ vars.scopes = Append(front, top)
      /\ Len(front) > 0
  <2>1. Len(open) > 0
    BY DEF Switched, Shape, TypeOK
  <2>2. QED
    BY <2>1, ScopesSplit DEF TopSplit
<1>2. vars'.scopes = Append(front, EmptyScope) /\ vars'.sym_idx = vars.sym_idx
  BY ScopesSplit DEF Switched, EnterScope, ExitScope
<1> HIDE DEF front, top
<1>3. EnvOf(vars'.scopes) = EnvOf(front)
  BY <1>1, <1>2, EnvEntered
<1>4. Saved(vars'.scopes) = Saved(vars.scopes)
  BY <1>1, <1>2, EmptyScopeType, SavedAppend DEF Env
<1>5. /\ Saved(vars.scopes) # <<>>
      /\ Saved(vars.scopes)[Len(Saved(vars.scopes))] = EnvOf(front)
  BY <1>1, SavedTop
<1>6. QED
  BY <1>2, <1>3, <1>4, <1>5 DEF LS!NextBlock, Saved

LEMMA ClosedRefines ==
  ASSUME Shape, Closed
  PROVE  LS!LeaveBlock
<1> DEFINE front == SubSeq(vars.scopes, 1, Len(vars.scopes) - 1)
           top   == vars.scopes[Len(vars.scopes)]
<1>1. /\ front \in Seq(Env) /\ top \in Env /\ vars.scopes = Append(front, top)
      /\ Len(front) > 0
  <2>1. Len(open) > 0
    BY DEF Closed, Shape, TypeOK
  <2>2. QED
    BY <2>1, ScopesSplit DEF TopSplit
<1>2. vars'.scopes = front /\ vars'.sym_idx = vars.sym_idx
  BY ScopesSplit DEF Closed, ExitScope
<1> HIDE DEF front, top
<1>3. /\ Saved(vars.scopes) # <<>>
      /\ Saved(vars.scopes)[Len(Saved(vars.scopes))] = EnvOf(vars'.scopes)
      /\ SubSeq(Saved(vars.scopes), 1, Len(Saved(vars.scopes)) - 1) = Saved(vars'.scopes)
  BY <1>1, <1>2, SavedTop
<1>4. QED
  BY <1>2, <1>3 DEF LS!LeaveBlock, Saved

LEMMA FunDeclaredRefines ==
  ASSUME Shape, NEW f \in Name, NEW t \in Type, NEW ps \in Params, FunDeclared(f, t, ps)
  PROVE  LS!EnterFunction(ps)
<1> DEFINE scope == ParamScope(ps, vars.sym_idx)
<1>1. vars.scopes \in Seq(Env) /\ Len(vars.scopes) > 0
  BY ScopesSplit
<1>2. scope \in Env
  BY ParamScopeType DEF Env, Shape, TypeOK, TableOf
<1>3. vars'.scopes = Append(vars.scopes, scope) /\ vars'.sym_idx = vars.sym_idx + Len(ps)
  BY DEF FunDeclared
<1>4. LS!ParamMeanings(ps, vars.sym_idx) = scope
  BY DEF LS!ParamMeanings, LS!Meaning, ParamScope
<1> HIDE DEF scope
<1>5. EnvOf(vars'.scopes) = LS!Shadow(scope, EnvOf(vars.scopes))
  BY <1>1, <1>2, <1>3, EnvAppend DEF LS!Shadow
<1>6. Saved(vars'.scopes) = Append(Saved(vars.scopes), EnvOf(vars.scopes))
  BY <1>1, <1>2, <1>3, SavedAppend, EnvsSaved
<1>7. QED
  BY <1>3, <1>4, <1>5, <1>6 DEF LS!EnterFunction, Saved

LEMMA StepRefines ==
  ASSUME Shape, [Next]_srsv
  PROVE  [LS!Next]_LS!lexVars
<1>1. CASE UNCHANGED <<vars, functions, open>>
  BY <1>1 DEF LS!lexVars
<1>2. ASSUME NEW n \in Name, NEW t \in Type, Declared(n, t) PROVE LS!Next
  BY <1>2, DeclaredRefines DEF LS!Next
<1>3. ASSUME NEW list \in Lists, Opened(list) PROVE LS!Next
  BY <1>3, OpenedRefines DEF LS!Next
<1>4. ASSUME NEW list \in Lists, Switched(list) PROVE LS!Next
  BY <1>4, SwitchedRefines DEF LS!Next
<1>5. CASE Closed
  BY <1>5, ClosedRefines DEF LS!Next
<1>6. ASSUME NEW f \in Name, NEW t \in Type, NEW ps \in Params, FunDeclared(f, t, ps)
      PROVE  LS!Next
  BY <1>6, FunDeclaredRefines DEF LS!Next
<1>7. QED
  BY <1>1, <1>2, <1>3, <1>4, <1>5, <1>6, StepEffect DEF Effect

(* For every program, name, nesting and number of variables, what          *)
(* find_symbol answers are the meanings lexical scoping gives names:       *)
(* leaving a list brings back what was visible before it.                  *)
THEOREM Refines == Spec => LexScoping
<1>1. Spec => []Shape
  BY InitShape, ShapeStep, PTL DEF Spec
<1>2. Shape /\ [Next]_srsv => [LS!Next]_LS!lexVars
  BY StepRefines
<1>3. QED
  BY <1>1, <1>2, InitRefines, PTL DEF Spec, LexScoping, LS!Spec
=============================================================================
