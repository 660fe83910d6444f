------------------------------ MODULE MCSymRes ------------------------------
(* SymRes on small programs.  An expression is the sequence of names it    *)
(* mentions; an assignment adds the name on its left.                      *)
EXTENDS SymRes

v(n) == [kind |-> "var", name |-> n]
f(n) == [kind |-> "fun", name |-> n]
p(n) == [name |-> n, type |-> "int"]

MCExp    == {<<>>, <<f("b"), v("a")>>}
MCRefs   == [e \in MCExp |-> e]
MCParams == {<<>>, <<p("a"), p("a")>>}
=============================================================================
