----------------------------- MODULE MCExpTypes -----------------------------
(* ExpTypes on expressions of up to three levels, calls among operators    *)
(* and calls.  "x" and a function of every signature are declared, "u" and *)
(* Nobody are not.                                                         *)
EXTENDS ExpTypes

MCType == {"int", "string", "void"}
ParamLists == {<<>>, <<"int">>, <<"string">>, <<"string", "int">>}
Nobody == <<"nobody", <<>>>>           \* functions are named by their signature
MCVarNames == {"x", "u"}
MCFunNames == (MCType \X ParamLists) \union {Nobody}
MCVars == [v \in {"x"} |-> "int"]
MCFuns == [f \in MCType \X ParamLists |-> [ret_type |-> f[1], params |-> f[2]]]
MCExp == Nodes(Nodes(Nodes(Nodes({}))))

Var(v) == [kind |-> "VarExp", name |-> v, var_info |-> nullopt]
StringExp == [kind |-> "StringExp"]
Leaves == {[kind |-> "IntExp"], StringExp, Var("x"), Var("u")}
OpsOver(E) ==
  {[kind |-> "BinopExp", lhs |-> l, rhs |-> r] : l, r \in E}
    \union {[kind |-> "UnopExp", e |-> e] : e \in E}
CallOf(f, args) == CallTo(f, nullopt, args)
Calls(E) ==
  {CallOf(f, args) : f \in MCFunNames,
                     args \in {<<>>} \union {<<a>> : a \in E} \union {<<StringExp, a>> : a \in E}}
Level1 == OpsOver(Leaves) \union Calls(Leaves)
MCPrograms ==
  Leaves \union Level1 \union OpsOver(Level1) \union Calls(Level1)
    \union Calls({CallOf(<<"int", <<"int">>>>, <<e>>) : e \in Calls(Leaves)})
=============================================================================
