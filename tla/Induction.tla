------------------------------ MODULE Induction ------------------------------
(***************************************************************************)
(* Induction and recursion over finite data, stated with sets in place of  *)
(* predicates: what the passes of the compiler do to every tree rests on   *)
(* these lemmas.                                                           *)
(*                                                                         *)
(* rank stands for the height of a tree: whatever a node consists of has a *)
(* lower rank.                                                             *)
(***************************************************************************)
EXTENDS Integers, WellFoundedInduction, TLAPS

LEMMA LeastNatural ==
  ASSUME NEW T, T \subseteq Nat, T # {}
  PROVE  \E x \in T : \A y \in T : x <= y
<1> DEFINE R == OpToRel(<, Nat)
<1>1. IsWellFoundedOn(R, Nat)
  BY NatLessThanWellFounded, Zenon
<1>2. \A x \in Nat, y \in Nat : y < x => <<y, x>> \in R
  BY DEF OpToRel
<1> HIDE DEF R
<1>3. PICK x \in T : \A y \in T : ~ (<<y, x>> \in R)
  BY <1>1, WFMin
<1>4. \A y \in T : ~ (y < x)
  BY <1>2, <1>3
<1>5. QED
  BY <1>4

LEMMA NaturalInduction ==
  ASSUME NEW A, 0 \in A, \A n \in Nat : n \in A => n + 1 \in A
  PROVE  \A n \in Nat : n \in A
<1> DEFINE T == {n \in Nat : n \notin A}
<1>1. ASSUME T # {} PROVE FALSE
  <2>1. T \subseteq Nat
    OBVIOUS
  <2>2. PICK x \in T : \A y \in T : x <= y
    <3> HIDE DEF T
    <3> QED BY <1>1, <2>1, LeastNatural
  <2>3. x # 0
    OBVIOUS
  <2>4. x - 1 \in Nat /\ x - 1 \notin T
    BY <2>2, <2>3
  <2>5. QED
    BY <2>4
<1>2. QED
  BY <1>1

(* What holds of a tree whenever it holds of the parts holds of all trees. *)
LEMMA RankInduction ==
  ASSUME NEW S, NEW rank \in [S -> Nat], NEW A,
         \A x \in S : (\A y \in S : rank[y] < rank[x] => y \in A) => x \in A
  PROVE  S \subseteq A
<1> DEFINE bad == {x \in S : x \notin A}
           T   == {rank[x] : x \in bad}
<1>1. ASSUME bad # {} PROVE FALSE
  <2>1. T \subseteq Nat /\ T # {}
    BY <1>1
  <2>2. PICK n \in T : \A m \in T : n <= m
    <3> HIDE DEF T
    <3> QED BY <2>1, LeastNatural
  <2>3. PICK x \in bad : n = rank[x]
    BY <2>2
  <2>4. \A y \in S : rank[y] < rank[x] => y \in A
    BY <2>2, <2>3
  <2>5. QED
    BY <2>4
<1>2. QED
  BY <1>1

-----------------------------------------------------------------------------
(* step[x][f] is what a recursive definition gives at x when f is taken    *)
(* for the function that is defined.                                       *)
Looks(S, rank, V, step) ==
  \A x \in S : \A f, g \in [S -> V] :
    (\A y \in S : rank[y] < rank[x] => f[y] = g[y]) => step[x][f] = step[x][g]

Agree(f, g, n, S, rank) == \A x \in S : rank[x] < n => f[x] = g[x]

Solves(h, n, S, rank, step) == \A x \in S : rank[x] < n => h[x] = step[x][h]

Defines(h, S, step) == \A x \in S : h[x] = step[x][h]

LEMMA SolutionsAgree ==
  ASSUME NEW S, NEW rank \in [S -> Nat], NEW V, NEW step \in [S -> [[S -> V] -> V]],
         Looks(S, rank, V, step)
  PROVE  \A n \in Nat : \A f, g \in [S -> V] :
           Solves(f, n, S, rank, step) /\ Solves(g, n, S, rank, step)
             => Agree(f, g, n, S, rank)
<1> SUFFICES ASSUME NEW n \in Nat,
                    NEW f \in [S -> V], Solves(f, n, S, rank, step),
                    NEW g \in [S -> V], Solves(g, n, S, rank, step)
             PROVE  \A x \in S : rank[x] < n => f[x] = g[x]
  BY DEF Agree
<1> DEFINE A == {x \in S : rank[x] < n => f[x] = g[x]}
<1>1. ASSUME NEW x \in S, \A y \in S : rank[y] < rank[x] => y \in A PROVE x \in A
  <2>1. CASE rank[x] < n
    <3>1. \A y \in S : rank[y] < rank[x] => f[y] = g[y]
      BY <1>1, <2>1
    <3>2. step[x][f] = step[x][g]
      BY <3>1 DEF Looks
    <3>3. QED
      BY <2>1, <3>2 DEF Solves
  <2>2. QED
    BY <2>1
<1> HIDE DEF A
<1>2. S \subseteq A
  BY <1>1, RankInduction
<1>3. QED
  BY <1>2 DEF A

LEMMA SolutionsExist ==
  ASSUME NEW S, NEW rank \in [S -> Nat], NEW V, V # {}, NEW step \in [S -> [[S -> V] -> V]],
         Looks(S, rank, V, step)
  PROVE  \A n \in Nat : \E h \in [S -> V] : Solves(h, n, S, rank, step)
<1> DEFINE A == {n \in Nat : \E h \in [S -> V] : Solves(h, n, S, rank, step)}
<1>1. 0 \in A
  <2>1. PICK v \in V : TRUE
    OBVIOUS
  <2>2. Solves([x \in S |-> v], 0, S, rank, step)
    BY DEF Solves
  <2>3. QED
    BY <2>1, <2>2
<1>2. ASSUME NEW n \in Nat, n \in A PROVE n + 1 \in A
  <2>1. PICK h \in [S -> V] : Solves(h, n, S, rank, step)
    BY <1>2
  <2> DEFINE next == [x \in S |-> step[x][h]]
  <2>2. next \in [S -> V]
    OBVIOUS
  <2>3. \A x \in S : rank[x] < n => next[x] = h[x]
    BY <2>1 DEF Solves
  <2>4. ASSUME NEW x \in S, rank[x] < n + 1 PROVE next[x] = step[x][next]
    <3>1. \A y \in S : rank[y] < rank[x] => next[y] = h[y]
      BY <2>3, <2>4
    <3> HIDE DEF next
    <3>2. step[x][next] = step[x][h]
      BY <2>2, <3>1 DEF Looks
    <3>3. QED
      BY <3>2 DEF next
  <2> HIDE DEF next
  <2>5. Solves(next, n + 1, S, rank, step)
    BY <2>4 DEF Solves
  <2>6. QED
    BY <2>2, <2>5
<1> HIDE DEF A
<1>3. \A n \in Nat : n \in A
  BY <1>1, <1>2, NaturalInduction
<1>4. QED
  BY <1>3 DEF A

(* A definition that looks only at what has a lower rank defines a         *)
(* function on all trees.                                                  *)
LEMMA RankRecursion ==
  ASSUME NEW S, NEW rank \in [S -> Nat], NEW V, V # {}, NEW step \in [S -> [[S -> V] -> V]],
         Looks(S, rank, V, step)
  PROVE  \E h \in [S -> V] : Defines(h, S, step)
<1> DEFINE upto(n) == CHOOSE h \in [S -> V] : Solves(h, n, S, rank, step)
           h == [x \in S |-> upto(rank[x] + 1)[x]]
<1>1. \A n \in Nat : upto(n) \in [S -> V] /\ Solves(upto(n), n, S, rank, step)
  BY SolutionsExist
<1> HIDE DEF upto
<1>2. h \in [S -> V]
  BY <1>1
<1>3. ASSUME NEW x \in S PROVE h[x] = step[x][h]
  <2> DEFINE f == upto(rank[x] + 1)
  <2>1. f \in [S -> V] /\ Solves(f, rank[x] + 1, S, rank, step)
    BY <1>1
  <2>2. ASSUME NEW y \in S, rank[y] < rank[x] PROVE h[y] = f[y]
    <3>1. PICK n \in Nat : n = rank[y] + 1
      OBVIOUS
    <3> DEFINE g == upto(n)
    <3>2. g \in [S -> V] /\ Solves(g, n, S, rank, step)
      BY <1>1
    <3>3. Solves(f, n, S, rank, step)
      BY <2>1, <2>2, <3>1 DEF Solves
    <3>4. h[y] = g[y]
      BY <3>1
    <3> HIDE DEF f, g, h
    <3>5. Agree(g, f, n, S, rank)
      BY <2>1, <3>2, <3>3, SolutionsAgree
    <3>6. QED
      BY <3>1, <3>4, <3>5 DEF Agree
  <2>3. h[x] = f[x]
    OBVIOUS
  <2> HIDE DEF f, h
  <2>4. f[x] = step[x][f]
    BY <2>1 DEF Solves
  <2>5. step[x][f] = step[x][h]
    BY <1>2, <2>1, <2>2 DEF Looks
  <2>6. QED
    BY <2>3, <2>4, <2>5
<1>4. QED
  BY <1>2, <1>3 DEF Defines

(* The same for what a loop makes of a list, turn by turn.                 *)
Repeats(h, n, start, step) == h[0] = start /\ \A k \in 1 .. n : h[k] = step[k][h[k - 1]]

LEMMA PrefixRecursion ==
  ASSUME NEW n \in Nat, NEW V, NEW start \in V, NEW step \in [1 .. n -> [V -> V]]
  PROVE  \E h \in [0 .. n -> V] : Repeats(h, n, start, step)
<1> DEFINE Upto(m, h) == h[0] = start /\ \A k \in 1 .. m : h[k] = step[k][h[k - 1]]
           A == {m \in Nat : m <= n => \E h \in [0 .. n -> V] : Upto(m, h)}
<1>1. 0 \in A
  <2>1. [k \in 0 .. n |-> start] \in [0 .. n -> V] /\ Upto(0, [k \in 0 .. n |-> start])
    OBVIOUS
  <2>2. QED
    BY <2>1
<1>2. ASSUME NEW m \in Nat, m \in A PROVE m + 1 \in A
  <2> SUFFICES ASSUME m + 1 <= n PROVE \E h \in [0 .. n -> V] : Upto(m + 1, h)
    OBVIOUS
  <2>1. PICK h \in [0 .. n -> V] : Upto(m, h)
    BY <1>2
  <2> DEFINE g == [k \in 0 .. n |-> IF k = m + 1 THEN step[k][h[m]] ELSE h[k]]
  <2>2. g \in [0 .. n -> V] /\ g[0] = start
    BY <2>1
  <2>3. ASSUME NEW k \in 1 .. m + 1 PROVE g[k] = step[k][g[k - 1]]
    <3>1. CASE k = m + 1
      BY <3>1
    <3>2. CASE k <= m
      <4>1. g[k] = h[k] /\ g[k - 1] = h[k - 1]
        BY <3>2
      <4>2. h[k] = step[k][h[k - 1]]
        BY <2>1, <3>2
      <4>3. QED
        BY <4>1, <4>2
    <3>3. QED
      BY <3>1, <3>2
  <2>4. Upto(m + 1, g)
    <3> HIDE DEF g
    <3> QED BY <2>2, <2>3
  <2>5. QED
    <3> HIDE DEF g, Upto
    <3> QED BY <2>2, <2>4
<1>3. \A m \in Nat : m \in A
  <2> HIDE DEF A
  <2> QED BY <1>1, <1>2, NaturalInduction
<1>4. QED
  BY <1>3 DEF Repeats

(* The same for what a loop makes of a list from its end.                  *)
RepeatsDown(h, n, last, step) == h[n + 1] = last /\ \A k \in 1 .. n : h[k] = step[k][h[k + 1]]

LEMMA SuffixRecursion ==
  ASSUME NEW n \in Nat, NEW V, NEW last \in V, NEW step \in [1 .. n -> [V -> V]]
  PROVE  \E h \in [1 .. n + 1 -> V] : RepeatsDown(h, n, last, step)
<1> DEFINE back == [k \in 1 .. n |-> step[n + 1 - k]]
<1>1. back \in [1 .. n -> [V -> V]]
  OBVIOUS
<1>2. PICK g \in [0 .. n -> V] : Repeats(g, n, last, back)
  <2> HIDE DEF back
  <2> QED BY <1>1, PrefixRecursion
<1> DEFINE h == [k \in 1 .. n + 1 |-> g[n + 1 - k]]
<1>3. h \in [1 .. n + 1 -> V] /\ h[n + 1] = last
  BY <1>2 DEF Repeats
<1>4. ASSUME NEW k \in 1 .. n PROVE h[k] = step[k][h[k + 1]]
  <2>1. n + 1 - k \in 1 .. n /\ n + 1 - (n + 1 - k) = k /\ n + 1 - k - 1 = n + 1 - (k + 1)
    OBVIOUS
  <2>2. g[n + 1 - k] = back[n + 1 - k][g[n + 1 - k - 1]]
    BY <1>2, <2>1 DEF Repeats
  <2>3. h[k] = g[n + 1 - k] /\ h[k + 1] = g[n + 1 - (k + 1)] /\ back[n + 1 - k] = step[k]
    BY <2>1
  <2>4. QED
    BY <2>1, <2>2, <2>3
<1>5. QED
  BY <1>3, <1>4 DEF RepeatsDown

LEMMA SuffixTyped ==
  ASSUME NEW n \in Nat, NEW V, NEW g, DOMAIN g = 1 .. n + 1, g = [k \in 1 .. n + 1 |-> g[k]],
         g[n + 1] \in V, \A k \in 1 .. n : g[k + 1] \in V => g[k] \in V
  PROVE  g \in [1 .. n + 1 -> V]
<1> DEFINE A == {j \in Nat : j <= n => g[n + 1 - j] \in V}
<1>1. 0 \in A
  OBVIOUS
<1>2. ASSUME NEW j \in Nat, j \in A PROVE j + 1 \in A
  <2> SUFFICES ASSUME j + 1 <= n PROVE g[n + 1 - (j + 1)] \in V
    OBVIOUS
  <2>1. n - j \in 1 .. n /\ n + 1 - (j + 1) = n - j /\ n + 1 - j = (n - j) + 1
    OBVIOUS
  <2>2. g[n + 1 - j] \in V
    BY <1>2
  <2>3. QED
    BY <2>1, <2>2
<1>3. \A j \in Nat : j \in A
  <2> HIDE DEF A
  <2> QED BY <1>1, <1>2, NaturalInduction
<1>4. ASSUME NEW k \in 1 .. n + 1 PROVE g[k] \in V
  <2>1. n + 1 - k \in Nat /\ n + 1 - k <= n /\ n + 1 - (n + 1 - k) = k
    OBVIOUS
  <2>2. QED
    BY <1>3, <2>1
<1>5. QED
  BY <1>4
=============================================================================
