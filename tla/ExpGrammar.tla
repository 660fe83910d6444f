----------------------------- MODULE ExpGrammar -----------------------------
(***************************************************************************)
(* The expressions of the language as a grammar with one level for each    *)
(* row of the table "Operator precedence and associativity" of the         *)
(* language definition (albatross.pdf page 5): all trees of the tokens     *)
(* from place i of the input up to place j, j not among them.  No order of *)
(* reading is in it.                                                       *)
(***************************************************************************)
EXTENDS Pratt

(* Rows 11 to 3 of the table, loosest first.                               *)
Row == <<{"OpOr"}, {"OpAnd"}, {"OpBor"}, {"OpXor"}, {"OpBand"}, {"OpEq", "OpNe"},
         {"OpLt", "OpLe", "OpGt", "OpGe"}, {"OpPlus", "OpMinus"}, {"OpTimes", "OpDiv", "OpRem"}>>
ArgRow == 0
PrefixRow == 10
PrimaryRow == 11

Place == 1 .. Len(input)
Among(i, j, types) == {m \in i .. j - 1 : input[m] \in types}

(* The trees of a span as an expression whose loosest operator is in row k *)
(* or further on, exps giving those of the spans inside.  Binary operators *)
(* group to the left, prefix ones to the right, '[' and a call's           *)
(* parentheses come first.                                                 *)
BinaryExps(exps, k, i, j) ==
  exps[<<k + 1, i, j>>] \union
  UNION {{Binop(input[m], l, r) : l \in exps[<<k, i, m>>], r \in exps[<<k + 1, m + 1, j>>]} :
           m \in Among(i, j, Row[k])}

PrefixExps(exps, i, j) ==
  exps[<<PrimaryRow, i, j>>] \union
  IF input[i] \in PrefixOps THEN {Unop(input[i], e) : e \in exps[<<PrefixRow, i + 1, j>>]} ELSE {}

PrimaryExps(exps, i, j) ==
  UNION {
    IF j = i + 1 /\ input[i] \in DOMAIN LeafKind THEN {Leaf(LeafKind[input[i]])} ELSE {},
    IF input[j - 1] = "Lbracket"
    THEN {Unop("Lbracket", e) : e \in exps[<<PrimaryRow, i, j - 1>>]} ELSE {},
    IF input[i] = "Lparen" /\ input[j - 1] = "Rparen" THEN exps[<<1, i + 1, j - 1>>] ELSE {},
    IF input[i] = "Identifier" /\ input[i + 1] = "Lparen" /\ input[j - 1] = "Rparen"
    THEN IF j = i + 3 THEN {CallTree(<<>>)} ELSE exps[<<ArgRow, i + 2, j - 1>>]
    ELSE {}}

(* The arguments of a call, as a call that has them.                       *)
ArgExps(exps, i, j) ==
  {CallTree(<<e>>) : e \in exps[<<1, i, j>>]} \union
  UNION {{CallTree(<<e>> \o rest.args) :
            e \in exps[<<1, i, m>>], rest \in exps[<<ArgRow, m + 1, j>>]} :
           m \in Among(i, j, {"Comma"})}

ExpsBy(exps, k, i, j) ==
  IF i >= j THEN {}
  ELSE IF k = ArgRow THEN ArgExps(exps, i, j)
  ELSE IF k = PrimaryRow THEN PrimaryExps(exps, i, j)
  ELSE IF k = PrefixRow THEN PrefixExps(exps, i, j)
  ELSE BinaryExps(exps, k, i, j)

ExpSpans == (ArgRow .. PrimaryRow) \X Place \X Place

Exps[x \in ExpSpans] == ExpsBy(Exps, x[1], x[2], x[3])
=============================================================================
