------------------------------ MODULE Grammar ------------------------------
(***************************************************************************)
(* The statements of the language as a grammar over the expressions of     *)
(* ExpGrammar, and what it asks of Parser.  A statement is recognised as a *)
(* whole, by its first and last tokens and by what is between them; no     *)
(* order of reading is in it.                                              *)
(***************************************************************************)
EXTENDS ExpGrammar, Parser

WholeExps(i, j) == Exps[<<1, i, j>>]

Node(kind, params, exps, lists) ==
  [kind |-> kind, params |-> params, exps |-> exps, lists |-> lists]

(* The tokens from i on are types.                                         *)
Stands(i, types) == \A n \in DOMAIN types : i + n - 1 \in Place /\ input[i + n - 1] = types[n]

VardeclHead == <<"KeywordVar", "Identifier", "TypeName", "Assign">>

SimpleStmts(i, j) ==
  IF input[j - 1] # "Semicolon" THEN {}
  ELSE IF Stands(i, VardeclHead)
  THEN {Node("VardeclStmt", 0, <<e>>, <<>>) : e \in WholeExps(i + 4, j - 1)}
  ELSE IF input[i] = "KeywordReturn"
  THEN IF j = i + 2 THEN {Node("RetStmt", 0, <<>>, <<>>)}
       ELSE {Node("RetStmt", 0, <<e>>, <<>>) : e \in WholeExps(i + 1, j - 1)}
  ELSE IF Stands(i, <<"Identifier", "Lparen">>)
  THEN IF input[j - 2] # "Rparen" THEN {}
       ELSE IF j = i + 4 THEN {Node("CallStmt", 0, <<>>, <<>>)}
       ELSE {Node("CallStmt", 0, call.args, <<>>) : call \in Exps[<<ArgRow, i + 2, j - 2>>]}
  ELSE IF input[i] = "Identifier"
  THEN UNION {{Node("AssignStmt", 0, <<l, r>>, <<>>) :
                 l \in WholeExps(i, m), r \in WholeExps(m + 1, j - 1)} :
                m \in Among(i, j, {"Assign"})}
  ELSE {}

(* name type, ... , name type                                              *)
IsParams(i, j) ==
  /\ (j - i) % 3 = 2
  /\ \A m \in i .. j - 1 :
       input[m] = IF (m - i) % 3 = 0 THEN "Identifier" ELSE IF (m - i) % 3 = 1 THEN "TypeName"
                  ELSE "Comma"

ParamCount(i, j) == (j - i + 1) \div 3

(* A statement with a condition and one list, or two with the keyword      *)
(* between them.  lists gives the statement lists of the spans inside.     *)
OneList(lists, kind, second, i, j) ==
  UNION {{Node(kind, 0, <<e>>, <<l>> \o second) :
            e \in WholeExps(i + 1, b), l \in lists[<<b + 1, j - 1>>]} :
           b \in Among(i, j, {"Lcurl"})}

TwoLists(lists, kind, keyword, i, j) ==
  OneList(lists, kind, <<<<>>>>, i, j) \union
  UNION {UNION {{Node(kind, 0, <<e>>, <<l, r>>) :
                   e \in WholeExps(i + 1, b), l \in lists[<<b + 1, m>>], r \in lists[<<m + 3, j - 1>>]} :
                  m \in {m \in Among(b, j, {"Rcurl"}) : Stands(m, <<"Rcurl", keyword, "Lcurl">>)}} :
           b \in Among(i, j, {"Lcurl"})}

FundecStmts(lists, i, j) ==
  IF ~ Stands(i, FundecHead) THEN {}
  ELSE UNION {{Node("FundecStmt", ParamCount(i + 4, b), <<>>, <<l>>) : l \in lists[<<b + 2, j - 1>>]} :
                b \in {b \in Among(i, j, {"Rparen"}) : /\ Stands(b, <<"Rparen", "Lcurl">>)
                                                       /\ b = i + 4 \/ IsParams(i + 4, b)}}

BlockStmts(lists, i, j) ==
  IF input[j - 1] # "Rcurl" THEN {}
  ELSE CASE input[i] = "KeywordIf"     -> TwoLists(lists, "IfStmt", "KeywordElse", i, j)
         [] input[i] = "KeywordWhile"  -> TwoLists(lists, "WhileStmt", "KeywordOtherwise", i, j)
         [] input[i] = "KeywordRepeat" -> OneList(lists, "RepeatStmt", <<>>, i, j)
         [] OTHER                      -> FundecStmts(lists, i, j)

(* A list is a first statement and a list; a statement ends in one of two. *)
Stmts(lists, i, j) == SimpleStmts(i, j) \union BlockStmts(lists, i, j)

ListsBy(lists, i, j) ==
  IF i = j THEN {<<>>}
  ELSE UNION {{<<s>> \o l : s \in Stmts(lists, i, m + 1), l \in lists[<<m + 1, j>>]} :
                m \in Among(i, j, {"Semicolon", "Rcurl"})}

StmtLists[x \in Place \X Place] == ListsBy(StmtLists, x[1], x[2])

Program == StmtLists[<<1, Len(input)>>]

(* What parse_stmts() returns is the one tree of the program: operators    *)
(* group as the table of precedence says, an else belongs to its if, and   *)
(* no token is dropped or taken twice.                                     *)
ParsesTree == status = "parsed" => Program = {tree}

(* A program is refused only if the grammar has no tree for it.            *)
RefusesOnlyBad == status = "error" => Program = {}
=============================================================================
