------------------------------- MODULE Report -------------------------------
(***************************************************************************)
(* print_err() of error.cpp, as far as it depends on positions: which      *)
(* lines of the source it shows, and which character its caret points at.  *)
(***************************************************************************)
EXTENDS Integers, Sequences, FiniteSets

(* split_string(): getline() up to each newline, and what is behind the    *)
(* last one only if there is something.                                    *)
Lines(source) ==
  {[num |-> 1 + Cardinality({i \in 1 .. from - 1 : source[i] = "NL"}), from |-> from] :
     from \in {i \in DOMAIN source : i = 1 \/ source[i - 1] = "NL"}}

UpLimit == 2
DownLimit == 2

Shown(source, line_num) ==
  {l \in Lines(source) : line_num - UpLimit <= l.num /\ l.num <= line_num + DownLimit}

(* The line of the error has its caret below, in column col_num.           *)
Marked(source, line_num, col_num) ==
  {l.from + col_num - 1 : l \in {s \in Shown(source, line_num) : s.num = line_num}}
=============================================================================
