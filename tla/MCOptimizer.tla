----------------------------- MODULE MCOptimizer -----------------------------
(* Optimizer on programs of up to four nested lists.                       *)
EXTENDS Optimizer, SequencesExt

MCExp == {"0", "1", "1-1", "x", "x+0", "x+(1-1)", "v", "f()"}
MCNames == {"x", "v", "f", "g", "h"}
MCStmt == Nodes(Nodes(Nodes(Nodes({}))))
MCFolded == [e \in MCExp |-> CASE e = "1-1" -> "0" [] e = "x+(1-1)" -> "x+0" [] OTHER -> e]
MCUses == [e \in MCExp |-> CASE e \in {"x", "x+0", "x+(1-1)"} -> {"x"} [] e = "v" -> {"v"} [] e = "f()" -> {"f"} [] OTHER -> {}]

s == [kind |-> "AssignStmt", exp |-> "1-1"]
c == [kind |-> "CallStmt", exp |-> "f()"]
u == [kind |-> "AssignStmt", exp |-> "v"]
Var(n) == [kind |-> "VardeclStmt", name |-> n, exp |-> "0"]
v == Var("v")
r == [kind |-> "RetStmt", exp |-> "x"]
If(e, t, f) == [kind |-> "IfStmt", cond |-> e, then_stmts |-> t, else_stmts |-> f]
While(e, b, o) == [kind |-> "WhileStmt", cond |-> e, body_stmts |-> b, otherwise_stmts |-> o]
Repeat(e, b) == [kind |-> "RepeatStmt", cond |-> e, body_stmts |-> b]
Fundec(n, b) == [kind |-> "FundecStmt", name |-> n, params |-> {}, body |-> b]
FundecOfV(b) == [kind |-> "FundecStmt", name |-> "g", params |-> {"v"}, body |-> b]

Flat == {<<>>, <<s, r>>, <<v, u>>}
Inner ==
  {s, r} \union {If(e, t, <<c>>) : e \in {"1", "1-1", "x"}, t \in Flat}
    \union {If(e, <<s, r>>, <<>>) : e \in {"1", "1-1", "x"}}
    \union {While(e, <<s>>, <<>>) : e \in {"0", "1"}} \union {While("x", <<s, r>>, <<c>>)}
    \union {Repeat(e, <<r, s>>) : e \in {"0", "1", "x"}}
InnerLists == BoundedSeq(Inner, 2)
Outer ==
  {If(e, t, <<c>>) : e \in {"1", "x"}, t \in InnerLists} \union {If("1-1", <<s>>, f) : f \in InnerLists}
    \union {Fundec("g", b) : b \in InnerLists} \union {Fundec("g", <<Fundec("h", <<r, s>>), If("1", <<>>, <<>>)>>)}
    \union {FundecOfV(<<If(e, <<u>>, <<c>>), u>>) : e \in {"1-1", "1", "x"}}
    \union {While("x", b, <<>>) : b \in InnerLists}
    \union {If("x+(1-1)", <<s>>, <<r, s>>), While("x+(1-1)", <<s, r>>, <<c, s>>), Repeat("x+(1-1)", <<s>>)}

(* The variable and the function that the statements above name.           *)
Decls == <<Var("x"), Fundec("f", <<r>>)>>

MCPrograms == {Decls \o p : p \in {<<o>> : o \in Outer} \union {<<x, o>> : x \in {v, r}, o \in Outer}
                \union {<<o, If("1", <<>>, <<>>)>> : o \in Outer}}

(* Programs whose while loops have an otherwise list and constant          *)
(* conditions.                                                             *)
OtherwisePrograms == {Decls \o <<While(e, <<s>>, <<c>>), x>> : e \in MCExp \ {"v"}, x \in Inner}
=============================================================================
