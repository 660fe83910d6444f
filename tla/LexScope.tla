------------------------------ MODULE LexScope ------------------------------
(***************************************************************************)
(* What the symbol resolver promises a program, without symbol tables:     *)
(* lexical scoping.  At every point of the program there is one            *)
(* environment, the meaning of each visible name.  A declaration gives its *)
(* name a meaning never used before; entering a block saves the            *)
(* environment; leaving the block brings exactly that environment back,    *)
(* whatever was declared or shadowed inside.                               *)
(***************************************************************************)
EXTENDS Integers, Sequences

CONSTANTS
  Name,                 \* identifiers
  nullopt,              \* the meaning of a name that has none
  Type,                 \* the types a variable may be declared with
  Params                \* the parameter lists a function may be declared with

VARIABLES
  env,                  \* the meaning of every visible variable
  saved,                \* the environments of the enclosing blocks, outermost first
  fresh                 \* no variable has had this index, or a higher one

lexVars == <<env, saved, fresh>>

Meaning(t, idx) == [var_type |-> t, var_idx |-> idx]

(* The variables a parameter list declares, numbered from base on.  Where  *)
(* a name is repeated its first occurrence is the one that counts.         *)
ParamMeanings(ps, base) ==
  LET First(n) == CHOOSE i \in DOMAIN ps :
                    /\ ps[i].name = n
                    /\ \A j \in DOMAIN ps : ps[j].name = n => i <= j
  IN  [n \in Name |->
         IF \A i \in DOMAIN ps : ps[i].name # n
         THEN nullopt
         ELSE Meaning(ps[First(n)].type, base + First(n) - 1)]

(* The environment e with the meanings in new added, shadowing old ones.   *)
Shadow(new, e) ==
  [n \in Name |-> IF new[n] # nullopt THEN new[n] ELSE e[n]]

Init ==
  /\ env = [n \in Name |-> nullopt]
  /\ saved = <<>>
  /\ fresh = 1

Declare(n, t) ==
  /\ fresh' = fresh + 1
  /\ env' = [env EXCEPT ![n] = Meaning(t, fresh)]
  /\ UNCHANGED saved

EnterBlock ==
  /\ UNCHANGED <<fresh, env>>
  /\ saved' = Append(saved, env)

EnterFunction(ps) ==
  /\ fresh' = fresh + Len(ps)
  /\ env' = Shadow(ParamMeanings(ps, fresh), env)
  /\ saved' = Append(saved, env)

LeaveBlock ==
  /\ saved # <<>>
  /\ UNCHANGED fresh
  /\ env' = saved[Len(saved)]
  /\ saved' = SubSeq(saved, 1, Len(saved) - 1)

(* From a block straight into its sibling (then to else, while to          *)
(* otherwise): nothing declared in the first is visible in the second.     *)
NextBlock ==
  /\ saved # <<>>
  /\ UNCHANGED <<fresh, saved>>
  /\ env' = saved[Len(saved)]

Next ==
  \/ \E n \in Name, t \in Type : Declare(n, t)
  \/ EnterBlock
  \/ \E ps \in Params : EnterFunction(ps)
  \/ LeaveBlock
  \/ NextBlock

Spec == Init /\ [][Next]_lexVars
=============================================================================
