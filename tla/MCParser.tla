------------------------------ MODULE MCParser ------------------------------
(* Expressions in a return statement: all token sequences up to a length   *)
(* over three alphabets, and pairs and triples of binary operators.  Then  *)
(* programs, whole, cut short, and with a token dropped or replaced.       *)
EXTENDS Grammar

Seqs == INSTANCE SequencesExt

UpTo(n, types) == UNION {[1 .. k -> types] : k \in 0 .. n}

Mixed == UpTo(5, {"IntLiteral", "Identifier", "Lparen", "Rparen", "Comma", "OpMinus", "OpTimes",
                  "OpNot", "Lbracket", "Semicolon"})
Calls == UpTo(6, {"Identifier", "Lparen", "Rparen", "Comma"})
Operators == UpTo(6, {"StrLiteral", "OpMinus", "OpTimes", "Lparen", "Rparen"})

Operands == {<<"IntLiteral">>, <<"OpMinus", "IntLiteral">>, <<"OpNot", "Identifier", "Lbracket">>}
Pairs == {a \o <<o>> \o b \o <<p>> \o <<"Identifier">> :
            a, b \in Operands, o, p \in InfixOps}
Triples == {<<"IntLiteral", o, "Identifier", p, "IntLiteral", q, "Identifier">> :
              o, p, q \in {"OpOr", "OpAnd", "OpEq", "OpLt", "OpMinus", "OpTimes"}}

Returned == {<<"KeywordReturn">> \o s \o <<"Semicolon">> :
               s \in Mixed \union Calls \union Operators \union Pairs \union Triples}

Short == UpTo(4, {"Identifier", "IntLiteral", "Lparen", "Rparen", "Comma", "Semicolon", "Assign",
                  "TypeName", "Lcurl", "Rcurl", "KeywordVar", "KeywordReturn", "KeywordIf",
                  "KeywordElse", "KeywordFun"})
Assigns == {<<"Identifier">> \o s : s \in UpTo(5, {"Identifier", "Lparen", "Rparen", "Assign", "Comma",
                                                  "OpPlus", "Semicolon"})}

Call   == <<"Identifier", "Lparen", "Rparen", "Semicolon">>
CallOf == <<"Identifier", "Lparen", "IntLiteral", "Comma", "Identifier", "Rparen", "Semicolon">>
Assign == <<"Identifier", "Assign", "IntLiteral", "Semicolon">>
Vardecl == <<"KeywordVar", "Identifier", "TypeName", "Assign", "IntLiteral", "Semicolon">>
Ret == <<"KeywordReturn", "Semicolon">>
Block(s) == <<"Lcurl">> \o s \o <<"Rcurl">>

Simple == {<<>>, Call, CallOf, Assign, Vardecl, Ret}
OneDeep(S) ==
  UNION {{<<"KeywordIf", "Identifier">> \o Block(s), <<"KeywordRepeat", "IntLiteral">> \o Block(s),
          <<"KeywordFun", "Identifier", "TypeName", "Lparen", "Rparen">> \o Block(s),
          <<"KeywordFun", "Identifier", "TypeName", "Lparen", "Identifier", "TypeName", "Comma",
            "Identifier", "TypeName", "Rparen">> \o Block(s)} : s \in S}
Second(S, T) ==
  {<<"KeywordIf", "Identifier">> \o Block(s) \o <<"KeywordElse">> \o Block(t) : s \in S, t \in T}
  \union
  {<<"KeywordWhile", "Identifier">> \o Block(s) \o <<"KeywordOtherwise">> \o Block(t) : s \in S, t \in T}

Level1 == Simple \union OneDeep(Simple) \union Second({<<>>, Call}, {<<>>, Assign})
Programs ==
  Level1 \union {s \o t : s \in Level1, t \in {Call, Ret}}
  \union OneDeep({<<"KeywordIf", "Identifier">> \o Block(Call), Call \o Assign})
  \union {p \o <<"KeywordElse">> \o Block(<<>>) : p \in Second({<<>>}, {<<>>})}
  \union Second({<<"KeywordIf", "Identifier">> \o Block(<<>>)}, {Call, <<"KeywordIf", "Identifier">> \o Block(<<>>)})

Cut(p)  == {SubSeq(p, 1, n) : n \in 0 .. Len(p)}
Drop(p) == {Seqs!RemoveAt(p, i) : i \in DOMAIN p}
Swap(p) == {[p EXCEPT ![i] = t] : i \in DOMAIN p,
              t \in {"Identifier", "Semicolon", "Rcurl", "Lcurl", "Rparen", "KeywordElse"}}

MCInputs == Returned \union Short \union Assigns \union UNION {Cut(p) \union Drop(p) \union Swap(p) : p \in Programs}
=============================================================================
