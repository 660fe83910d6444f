------------------------------- MODULE SymTab -------------------------------
(***************************************************************************)
(* The symbol tables of the front end (symtab.h): a SymbolTable<T> is a    *)
(* stack of Scopes, each a map from identifiers to T, and the running      *)
(* index sym_idx the resolver stamps into every VarInfo and FunInfo.       *)
(*                                                                         *)
(* A table is a record [scopes, sym_idx]; every method of the C++ template *)
(* is an operator from the table it is called on to the table it leaves.   *)
(***************************************************************************)
EXTENDS Integers, Sequences

CONSTANTS
  Name,                 \* the identifiers of a program
  nullopt               \* the empty std::optional: no symbol here

(* A Scope of values of type T: T for the names in the map, nullopt for    *)
(* the others.                                                             *)
ScopeOf(T) == [Name -> T \union {nullopt}]

TableOf(T) == [scopes : Seq(ScopeOf(T)), sym_idx : Nat \ {0}]

EmptyScope == [n \in Name |-> nullopt]

(* Mutant: indexes start at 0, the value no variable has.                  *)
NewTableFromZero == [scopes |-> <<EmptyScope>>, sym_idx |-> 0]

(* A table after the one enter_scope() of SymbolResolverVisitor's          *)
(* constructor.                                                            *)
NewTable == [scopes |-> <<EmptyScope>>, sym_idx |-> 1]

CurScope(tab) == tab.scopes[Len(tab.scopes)]

(* Scope::add_symbol is unordered_map::emplace: a name that is already     *)
(* there keeps its first value.                                            *)
ScopeAdd(scope, n, info) ==
  [scope EXCEPT ![n] = IF @ = nullopt THEN info ELSE @]

(* SymbolTable::add_symbol moves sym_idx on whether or not emplace stored  *)
(* anything.                                                               *)
AddSymbolSameIndex(tab, n, info) ==    \* mutant: sym_idx stays
  [tab EXCEPT !.scopes[Len(tab.scopes)] = ScopeAdd(@, n, info)]

AddSymbol(tab, n, info) ==
  [scopes  |-> [tab.scopes EXCEPT ![Len(tab.scopes)] = ScopeAdd(@, n, info)],
   sym_idx |-> tab.sym_idx + 1]

EnterScope(tab) == [tab EXCEPT !.scopes = Append(@, EmptyScope)]

ExitScopeOldest(tab) ==                \* mutant: erase(begin()) for pop_back()
  [tab EXCEPT !.scopes = Tail(@)]

(* exit_scope asserts scopes.size() > 1 before it pops.                    *)
ExitScope(tab) == [tab EXCEPT !.scopes = SubSeq(@, 1, Len(@) - 1)]

(* find_symbol scans the scopes from the last one entered to the first and *)
(* answers with the first hit.                                             *)
Declaring(scopes, n) == {i \in DOMAIN scopes : scopes[i][n] # nullopt}

LookupOutermost(scopes, n) ==          \* mutant: begin() for rbegin()
  LET D == Declaring(scopes, n)
  IN  IF D = {} THEN nullopt
      ELSE scopes[CHOOSE i \in D : \A j \in D : i <= j][n]

Lookup(scopes, n) ==
  LET D == Declaring(scopes, n)
  IN  IF D = {} THEN nullopt
      ELSE scopes[CHOOSE i \in D : \A j \in D : j <= i][n]

FindSymbol(tab, n) == Lookup(tab.scopes, n)
=============================================================================
