------------------------------- MODULE MCFold -------------------------------
(* Fold on expressions of up to three operators over four ints, a variable *)
(* and a call.                                                             *)
EXTENDS Fold, Bitwise

MCMinInt == -4
Bits(x) == x % (-2 * MCMinInt)         \* two's complement, and back
Signed(b) == IF b < -MCMinInt THEN b ELSE b + 2 * MCMinInt
MCBitOp(op, x, y) ==
  Signed(CASE op = "Bor"  -> Bits(x) | Bits(y)
           [] op = "Xor"  -> Bits(x) ^^ Bits(y)
           [] op = "Band" -> Bits(x) & Bits(y))

MCNames == {"x", "f"}
MCExp == Nodes(Nodes(Nodes(Nodes({}))))     \* up to four levels

Var(n) == [kind |-> "VarExp", name |-> n]
Call(n, args) == [kind |-> "CallExp", name |-> n, args |-> args]
Binop(op, l, r) == [kind |-> "BinopExp", op |-> op, lhs |-> l, rhs |-> r]
Unop(op, e) == [kind |-> "UnopExp", op |-> op, e |-> e]

MCUnOps == {"Not", "Sub"}            \* the parser makes no "Neg"
MCEnv == [MCNames -> {-4, 0, 1}]

Leaves == {IntNode(i) : i \in {-4, -1, 0, 3}} \union {Var("x"), Call("f", <<>>)}
One == {Binop(op, l, r) : op \in BinOps, l, r \in Leaves} \union {Unop(op, e) : op \in MCUnOps, e \in Leaves}
Few == {Binop(op, l, r) : op \in {"Add", "Div"}, l, r \in {IntNode(0), IntNode(3), Var("x")}}
         \union {Call("f", <<Binop("Add", IntNode(1), IntNode(1))>>), Unop("Not", IntNode(0))}
Outer == {"And", "Or", "Rem"}
Two == {Binop(op, l, r) : op \in Outer, l \in One, r \in {IntNode(0), Var("x")}}
         \union {Binop(op, l, r) : op \in Outer, l \in {IntNode(0), Var("x")}, r \in One}
         \union {Unop(op, e) : op \in MCUnOps, e \in One}
Three == {Binop(op, l, r) : op \in BinOps, l, r \in Few}

MCPrograms == Leaves \union One \union Two \union Three
=============================================================================
