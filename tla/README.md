# Verification of the Albatross compiler

TLA+ models of the front end of `albatross-jit`: the C++ program under `src/src`
that reads an Albatross program, splits it into tokens, parses it, resolves its names, checks its types, folds its
constants and removes its dead code. The models follow the code, handler by
handler; `PROJECT.json` maps each definition to the lines it stands for.

## 1. The system

`main()` (`albatross.cpp`) runs the stages in a row on one thread; the stages
share the token deque and then the AST, which they change in place. A stage stops
the program by throwing `AlbatrossError`, which `main()` turns into a report and
an exit code (201 lexer, 202 parser, 203 resolver, 204 type checker).

| part | state it keeps | operations | what makes it correct | module |
|---|---|---|---|---|
| Lexer (`lexer.cpp`) | `ProgramText`: index, line, column; the tokens | `tokenize`, one function per class of token | the tokens are the longest words of the language; positions are those of the text; every turn of the loop consumes; the tokens end in `Eof` | `Token`, `Lexer`, `Lexicon` |
| Parser (`parser.cpp`) | the deque of tokens, and the C++ stack of calls | `parse_stmts`, `parse_stmt`, `parse_*_stmt`, `exp_bp`, `parse_call_exp` | the tree is the one the grammar has; only what has none is refused; `Eof` stays in the deque, so that `front()` and `at(1)` exist; every loop consumes | `Pratt`, `Parser`, `ExpGrammar`, `Grammar` |
| AST (`ast.h`) | nodes, with a `kind` | `accept` for two visitors | - | records in the modules below |
| Symbol tables (`symtab.h`) | stack of scopes, `sym_idx` | `add_symbol`, `find_symbol`, `enter_scope`, `exit_scope` | the narrowest scope wins; the assertions hold | `SymTab` |
| Symbol resolver (`symres.cpp`) | two tables, and the C++ stack of the walk | a handler per node | lexical scoping; one index per live variable; a function's variables outlive it | `SymRes`, `LexScope` |
| Type checker (`typecheck.cpp`) | `fun_ret_type`, `value_type` of nodes | a handler per node | exactly the ill-typed programs are refused | `TypeCheck`, `ExpTypes` |
| Constant folding (`transform_ast.cpp`) | the AST | `fold_exp`, `fold_stmt`, `fold_stmts` | values are kept; the answer "folded" is right; it ends | `Fold`, `Optimizer` |
| Dead code elimination (`transform_ast.cpp`) | the AST, a list iterator per call | `dce_stmts` | what runs is kept; what is left is clean; the walk ends, though its iterator leaves the list at both ends | `Dce`, `Optimizer` |
| Optimisation loop (`albatross.cpp:53-58`) | `should_optimize` | fold, then eliminate, until neither changes anything | it ends, with nothing left to do | `Optimizer` |
| Error report (`error.cpp`) | none | `print_err` | the line of the error is shown, and the caret is below its character | `Report`, in `Lexicon` |
| Stages (`main()`, `error.h`) | the exit code | lexer, parser, resolver, checker in a row | the exit code names the stage at fault; no exception but `AlbatrossError` gets out of a stage | `ExpTypes` (resolver and checker) |
| Type names (`types.cpp`), harness (`run_tests.py`) | none | - | - | not modelled |
| Call frames (`frame.h`), `OptimizerVisitor` (`opt.h`) | - | declared, never used | - | not modelled |

There is no concurrency, persistence or network. What is hard in this code is
hidden state across a recursive walk (the scopes, `sym_idx`, `fun_ret_type`),
iterators over a list that changes under them, a loop that must reach a fixed
point, and arithmetic of the compiled program done by the compiler. The list is
under `hazards` in `PROJECT.json`, with the properties aimed at each.

## 2. The modules

**Token** has the token types of `token.h`, which `Lexer` and `Pratt` share.

**Lexer** is `tokenize()` over a text, with `idx`, `line_num` and `col_num` as the
code keeps them. An action is one turn of the loop with the blanks skipped at its
end, or one turn of the loop inside a string. `EndsLine` is how `advance_char`
tells the end of a line: it peeks when the index has moved on already, so that it
looks at the character two behind a CR. `Number` is `stoi` with its two exceptions.
Characters are strings of one letter; a newline, a CR and a tab have names.

**Report** is the part of `print_err` that depends on positions. **Lexicon** says
what the tokens of the language are as sets of words, takes the longest at each
place (`TokensFrom`), and holds the lexer and the report against it. A text may not
begin with a blank, which the code refuses; a CR alone ends a comment and no line.

**Pratt** is `exp_bp` and `parse_call_exp` over a deque of token types that ends
in `Eof`. `stack` is the C++ call stack; a frame says whether its call is at the
operand, in the operator loop, or waiting for the call above it, and what it does
when that returns. A leaf parser or an operator is one step with the tokens it
pops. `Throw` is an `AlbatrossError`. Binding powers are the numbers of
`op_binding_power`; trees carry the code's `Operator`, which is the same for an
infix minus, a prefix minus and a `[`.

**Parser** puts the frames of the statement parsers on the same stack: in the loop
over a list, in the loop over parameters, or waiting for `exp_bp`. A step is a row
of `expect_token_type()` calls (`Expect`), which throws if one of the types is not
there. An action is named for the handler, or for the place where an expression or
a list comes back to it (`ReturnCond`, `CloseIf`).

**ExpGrammar** is the table of precedence and associativity in the language
definition (page 5) as a grammar with a level for each row: `Exps` gives all trees
of a span of the input, whatever order it is read in. A prefix minus, which the table does not have, and `[`, which the
parser takes for an operator after its operand with no index and no `]`, are in it
as the parser has them.

**Grammar** does the same for statements (`StmtLists`), and asks of `Parser` that
its tree is the one tree of the program and that it refuses only what has none. Both
are recursive functions over spans, with the equation they solve in an operator of
its own (`ExpsBy`, `ListsBy`), so that they can be proved about.

**SymTab** has one operator per method of `Scope` and `SymbolTable`. A table is a
record `[scopes, sym_idx]`. `add_symbol` is `emplace` (the first of two equal
names stays) and moves `sym_idx` on in any case, as the code does.

**SymRes** is the resolver as a state machine: `vars`, `functions`, `status`, and
`open`, the stack of statement lists being walked, which stands for the C++ call
stack. An action is a handler up to its first nested statement list
(`VisitIf`, `VisitFundec`, ...) or the end of such a list (`EndThen`, ...), where
the handler goes on. The program is not given: a step may be any statement the
parser lets through at that point, so that the runs cover all programs up to the
bounds. An expression is the sequence of names it mentions, in the order the walk
meets them. `Throw` ends the walk. `TopLevelFuns` says whether programs keep
functions out of other lists, as the language definition (`albatross.pdf`) asks
and the parser does not enforce. `captures` is a history variable: what function
bodies read from outside.

**LexScope** is the specification `SymRes` implements: an environment, saved on
entering a block and brought back on leaving it. `SymRes` names the refinement
mapping (`LS`): the environment is what `find_symbol` answers for each name, the
saved ones what it would answer with the inner scopes gone, `fresh` is `sym_idx`.

**TypeCheck** is the same kind of machine for the statement handlers of the type
checker. Expressions enter as the type they have or `"throws"`. `ill` is a history
variable: a statement has broken a typing rule, judged from the declarations
around it (`Required`) and not from `fun_ret_type`.

**ExpTypes** takes an expression through the resolver, the checker and `main()`.
The expression handlers of both visitors are recursive functions over `Exp`, the
expressions there are: a set that is `Nodes` of itself, or a few levels of it in a
run. The resolver annotates names with `var_info` and `fun_info`, the checker reads them, and
an annotation that is not there ends the program in `abort()`, since `value()` then
throws what nobody catches. A walk also counts its `accept()` calls. The rules
(`Declared`, `TypesOf`) are stated over the declarations, without annotations and
without an order of evaluation.

**Fold** has `fold_exp` as recursive functions over `Exp`. An int is one of
`MinInt .. -(MinInt + 1)` and wraps; `/` and `%` truncate as in C++ and trap as the
processor does; what it makes of `|`, `^` and `&` is the constant `BitOp`. An
action is one pass of `main()`'s loop. `Value` is what the expression is worth
when it runs, with `&&` and `||` short-circuiting as the runtime tests expect.

**Dce** is `dce_stmts` step by step. A frame per C++ call holds the list, the
iterator and `performed_dce`. The code moves an iterator past either end of its
list (`it--` at `begin()`, `it++` at `end()`); this is undefined in C++, and with
the library the Makefile builds with the list is a ring through its end node,
which is what `Pred` and `Succ` say. With another library the program may do anything
there; that the iterator leaves the list is a hazard of the code that no property
here denies, and what is checked is what becomes of the walk when it does
(`CleanAtEnd`, `StepsRunOut`).

**Optimizer** extends `Dce` with `main()`'s loop and the folding of statements,
expressions abstracted to what `fold_exp` makes of them (`Folded`) and the names in
them (`Uses`). It rests on two facts of `Fold`: a pass leaves nothing to fold
(`OnePassFolds`) and the answer is true just when something changed
(`ReportsChange`); programs whose folding ends the compiler (`FoldReturns`) are
outside of it. In the middle of a walk the program is spread over the calls of
`dce_stmts`; `Program` puts it together again. What is defined over all statements
is a recursive function that is given its values on the statements inside
(`FoldStmt`, `RunsOf`, `CleanStmt`, `NeedsOf`). `Runs` is the meaning of a program,
the set of its possible event sequences; `Needs` is the set of names it uses
without a declaration in front of them. Three numbers measure what the loop has still
to do: `Size`, the places an iterator could stand at in the whole program; `Passes`,
the passes of `fold_stmts` and `dce_stmts` that come if nothing more is removed; and
`Togo`, the places in front of the iterators of this walk.

**Induction** has induction and recursion over trees, stated with sets in place of
predicates, for the proofs. **LexerProofs**, **ParserProofs**, **SymResProofs**,
**TypeCheckProofs**, **ExpTypesProofs**, **FoldProofs** and **OptimizerProofs** hold
the theorems. **MC*** modules give the constants for TLC. Operators marked "mutant"
are the plausible bugs each property was tried against.

## 3. The runs

| run | checks | shows |
|---|---|---|
| `Lexer` | `TypeOK`, `PositionsTrue`, `EofLast`, `FollowsLexicon`, `CaretPoints`, `MovesOn` | the lexer makes the longest tokens, refuses a text only if it does not consist of tokens, knows the position of each token and each error, ends every result in `Eof`, and ends |
| `Parser` | `EofKept`, `DepthBounded`, `ParsesTree`, `RefusesOnlyBad`, `MakesProgress` | the parser builds the one tree the grammar has, refuses only what has none, keeps `Eof`, and consumes in every loop and recursion |
| `SymRes` | `TypeOK`, `ScopePerList`, `SlotsDistinct`, `CapturesLive`, `LexScoping` | the resolver's scopes and indexes are right on every program in the bounds, functions inside blocks included, and the tables implement `LexScope` |
| `TypeCheck` | `TypeOK`, `RetTypeTracks`, `Judgement` | with functions at top level exactly the ill-typed programs are refused |
| `ExpTypes` | `FollowsRules`, `BlamesStage`, `VisitsDouble` | expression types are those of the rules; the exit code is 203 just for undeclared names and 204 just for ill-typed expressions, so that the checker never reads what the resolver left out; an expression under k calls is visited 2^k times |
| `Fold` | `TypeOK`, `ValuePreserved`, `OnePassFolds`, `ReportsChange`, `FoldingEnds` | folding keeps values and traps, is done in a pass, and ends |
| `Optimizer` | `CleanAtEnd`, `StillBound`, `MeaningPreserved`, `OptimizationEnds`, `StepsRunOut` | the loop ends, wherever the iterator jumped, with clean lists, and every step brings the end nearer; every step keeps the meaning, and every declaration in front of its uses |

Five runs show the code at odds with what the repository says of it:

| run | property | what happens |
|---|---|---|
| `SymResForward` | `ForwardCalls` | a call above the declaration is refused; the language allows it (page 1) |
| `TypeCheckNested` | `RetTypeTracks` | a nested function makes the checker forget the outer one's type (comment at `typecheck.cpp:314`) |
| `TypeCheckCast` | `NoCrash` | `x + 1 := 2;` dereferences null (comment at `typecheck.cpp:139`) |
| `FoldReturns` | `FoldReturns` | folding `-1` ends the compiler with exit code 1, folding `0 / 0` kills it (comment at `transform_ast.cpp:5`, test `04-complex-stmts-exprs/pass12`) |
| `OptimizerOtherwise` | `MeaningPreserved` | `while 0 {} otherwise {s}` loses `s` (page 3) |

Further divergences have no run:

- Lexer: in a text that mixes line ends, a `\r\n` followed by an empty `\n` line counts
  one line too many (`return 1;\r\n\n$` is reported on line 4), since `advance_char`
  peeks after it moved; the comment at `lexer.cpp:75` says what it should do.
  `PositionsTrue` is stated for texts with one kind of line end. A text that begins
  with a blank is refused. `get_numeric_literal`'s comment names `3.14`, which is not
  lexed. The least int has no literal. A report about `Eof` shows no line when the
  text ends with its last line.
- Parser: `x + 1 := 2` is accepted (`TypeCheckCast` shows what it leads to); an array
  access `a[i]` is not parsed, though `a[` is an expression.
- Resolver: two parameters may have one name, which page 5 of `albatross.pdf`
  forbids; a parameter may shadow a global, which
  `semantic-tests/10-function-args/fail8` expects refused; a function declared in a
  block stays callable after the block's variables are gone (`CapturesLive` is
  stated for functions at top level); the intrinsic functions of page 5 (`printint`
  and others) are not known.
- Optimiser: after lifting a branch the iterator stands on its last statement, not
  its first as the comment at `transform_ast.cpp:182` says, which later turns make
  up for (`CleanAtEnd`); dead code inside the lists of `if`, `while` and `repeat`
  stays; a function declared in a branch that is erased vanishes, though calls of it
  from behind the branch were resolved.

The model of the lexer was also held against the built program on 32 974 texts of
the run: verdict and reported position agreed on all.

### Bounds

- `Lexer`: all texts of up to three of 25 characters, one at least for every class the
  code tells apart; for numbers, strings, operators, and for line ends with comments,
  all texts of up to four to seven characters over the few that matter to them; every
  keyword, whole and with a character behind it. `IntMax` is 127, so that literals of
  all three bases are out of range. Three characters are enough for each token and
  what is behind it; lines need more, which `Layout` gives.
- `Parser`: expressions in a return: all sequences of up to five tokens over ten types,
  of up to six over the tokens of calls and over operators with parentheses; every
  pair of the sixteen binary operators, with and without prefix operators and a `[`;
  triples of six levels. Grouping is decided between two neighbouring operators, so
  pairs are what `ParsesTree` needs. Statements: all sequences of up to four tokens
  over fifteen types, assignments and call statements of up to six tokens, and
  programs of every kind of statement with lists two deep, each also cut short at
  every token, with each token dropped, and with each replaced by one of six. The
  proofs cover inputs of any length.
- `SymRes`: two names (a name and one to shadow it with, each as variable,
  parameter and function), three variables, lists nested two deep (a block in a
  function, a function in a function), two expressions (no name; a call that
  reads a variable). Two names and two scopes are what `SlotsDistinct` relates;
  shadowing, reuse of a block's names and siblings all occur. Every property of the
  run is also proved, without the bounds.
- `TypeCheck`: three types, two arguments, four nested lists. The fourth type,
  `char`, has no literal and takes the paths of `string`.
- `ExpTypes`: trees of three levels, calls among operators and calls, up to two
  arguments; a declared and an undeclared variable, a function of every signature in
  the bounds and one that is not declared. Undeclared names stand under operators and
  calls, beside type errors in front of and behind them. Proved without the bounds.
- `Fold`: ints of 3 bits, the least, the greatest, -1 and 0 as constants, up to
  three operators. Overflow, wrap, truncation and both traps occur. All but
  `FoldingEnds` is proved for every width and height.
- `Optimizer`: conditions that are zero, not zero, foldable to zero and unknown;
  lists of up to two statements nested four deep, behind the declarations of the
  variable and the function that they name. Programs in the passing run give a
  `while` with a constant condition 0 no otherwise list: that case is
  `OptimizerOtherwise`. Functions stand outside of the branches, as the language
  asks. All but `OptimizationEnds` is proved without the bounds.

### Fairness

Only `Fold` and `Optimizer` state liveness, under weak fairness of the step of the
loop: `main()` is one thread that waits for nothing. The other machines may stop
in any state (a program has any length); they check safety only. That the lexer and
the parser end is an action property instead (`MovesOn`, `MakesProgress`): every step
lowers a measure, so that no fairness is needed to say that no loop turns for ever. The
optimisation loop has both: `OptimizationEnds`, and `StepsRunOut`, which names the
measure (`Size`, then `Passes`, then `Togo`) and can be proved. An iterator that goes
back over the front of its list or past the end to the front again makes `Togo` larger;
it does so only in a step that has just removed a statement, and `Size` counts that. Each machine
stutters explicitly when it has stopped, so that deadlock checking stays on.

## 4. The proofs

Nothing is assumed but the named assumptions on the constants (what the inputs are
sequences of, that `nullopt` is no variable, that bounds are numbers) and what a
theorem states.

`LexerProofs`, for any set of texts:

- `Typing`: `Spec => []TypeOK`; `Positions`: `Spec => []PositionsTrue`;
  `OneEof`: `Spec => []EofLast`; `Progress`: `Spec => MovesOn`;
- `HandsOver`: the tokens in front of `Eof` satisfy `InputsAssumption` of `Pratt`, so
  that what is proved of the parser holds for all the lexer makes;
- `CaretsPoint`: `Spec => []CaretPoints`;
- `TokensTrue`: `Spec => []FollowsLexicon`, that the lexer implements the lexicon.

`PositionsTrue` is about newlines, the code counts with `EndsLine`, so it is not
inductive. The invariant (`IInv`) says with the code's own notion of a line end what
line and column the cursor, every token and the open string have (`Placed`), on any
text. One lemma covers `MoveTo`; each action is then an instance. Where all lines end
alike, the two notions agree up to the character asked about (`PlacedStands`). For
the report it takes two facts more (`CaretInv`): a token other than `Eof` begins in
front of the end of the text, and an error at the end of the text (a string without
its quote, a number too large) is on the line of the character in front of it.

`FollowsLexicon` says nothing before the lexer stops. What is inductive (`LexInv`) is
that the tokens made so far, joined in front of those the lexicon finds from the
cursor on, are those of the whole text (`Ahead`), and inside a string, which takes a
step for each character, that decoding the rest adds its characters to the value read
so far and that no quote passed over could have ended the string (`ReadSoFar`). A
lemma per handler shows that what it reads is the longest lexeme at its place, from
the kind of the first character; that the digits read one by one are the number in
positional notation (`Positional`) is an induction of its own, and so is that a string
decodes in one way. `TokensFrom`, `Decoded`, `Place` and `Worth` are recursive
functions, and that they are solutions of their equations is proved first, with
`RankRecursion` and `SuffixRecursion` of `Induction`.

`ParserProofs`, for inputs of any length:

- `EofStays`: `Spec => []EofKept`; `Depth`: `Spec => []DepthBounded`;
- `Progress`: `Spec => MakesProgress`, whose measure makes the number of steps
  linear in the tokens.

The invariant joins the types of the deque and of the input, `EofKept`, that the
outermost call is the loop over the program, and a bound on the depth that is two
lower for a call in the loop over a list (`Shallow`; without that a statement could
not be entered). Trees nest without bound, so no set is given for frames: all that is
said is that the stack is a sequence. What is common to all steps is one lemma each
for consuming a row of tokens and for returning; each action is then an instance.

- `ParsesTheTree`: `Spec => []ParsesTree`; `RefusesNoTree`: `Spec => []RefusesOnlyBad`;
- `TreeInvariance`: `Spec => []TInv`, the invariant they follow from;
- `ExpsAre`, `ListsAre`: the grammar's recursive functions solve their equations.

`ParsesTree` says nothing until the parser stops. What is inductive is one equation
(`Means`): a tree is one of the program's just when the calls on the stack can still
come to it over the tokens left. With each call goes the set `K` of the trees it may
return and of the places before which they may end. For the outermost call that is the
tree and the end of the input; `Cont(f, K)` makes from it what the call that `f` waits
for may return, and `Accepting(f, K, i)` says by the grammar that the call at the top
can go on from place `i` to a member of its own. A step then keeps the equation if
it changes the calls and the place without changing `Accepting` (`TopGoesOn`,
`TopCalls`, `BelowGoesOn`, ...), one lemma per shape of step and one per action. A step
that throws is at a place from which `Accepting` is false (`NothingComes`).

Three things make this hard. The loop of `exp_bp` builds from the left what the grammar
describes from outside, so that `Grown` says of a tree that a larger one of a looser row
begins with it: the least set closed under adding an operator and its right side, and
under passing to a looser row. That the loop stops where it does is right only because
no operator it could take can follow (`Refuses`), which each waiting call must
establish for the call it makes: with the binding powers this is where precedence and
grouping come from. And the loop over a list may end at a `}` without asking for an
`else` only because no statement is followed by one that is not its own (`NoOther`).

Trees nest without bound; `Trees` is the union of the sets of each height, built in the
module, so that nothing is assumed of it. It is infinite, and `Means` quantifies over
it: TLC cannot evaluate `TInv` and checks what follows from it, `ParsesTree` and
`RefusesOnlyBad`, in the run `Parser`.

`SymResProofs`, for every set of names, types, expressions and
parameter lists, any nesting and any number of variables:

- `Typing`: `Spec => []TypeOK`;
- `Scoped`: `Spec => []ScopePerList`, from which the assertions of `symtab.h` hold
  and `vars.scopes` is never empty;
- `DistinctSlots`: `Spec => []SlotsDistinct`;
- `Captures`: `Spec => []CapturesLive`;
- `Refines`: `Spec => LexScoping`, the refinement of `LexScope`.

`TypeOK` alone is not inductive: that a lookup succeeds, or a scope may be popped,
depends on how many scopes there are. The first invariant (`Shape`) joins it with
`ScopePerList`. A handler has one of six effects on the tables (`StepEffect`), and
every later proof has a lemma per effect. `SlotsDistinct` is proved on top: what a
scope gains has index `sym_idx` or above, and all that was there is below, so the
order of indexes follows the order of scopes. Parameters need the lemma that the
first occurrence of a name has an index of its own.

`CapturesLive` says of a captured variable that some scope has it. What is inductive
is that the global scope has it (`GlobalCaptures`), since that one is never left and
`emplace` overwrites nothing (`GlobalKept`). That a top-level function captures
nothing else needs `InnerFromBase`: while it is walked, every scope but the global one
has indexes from the function's base on.

For the refinement, `LookupAppend` says what `find_symbol` answers with a scope on
top of others, `SavedAppend` that what is saved below a scope does not depend on it.
With these each effect is one action of `LexScope`.

`TypeCheckProofs`, assuming `TopLevelFuns` (without it `TypeCheckNested` is a
counterexample):

- `Typing`: `Spec => []TypeOK`;
- `ReturnTypeTracked`: `Spec => []RetTypeTracks`;
- `SoundAndComplete`: `Spec => []Judgement`.

The invariant adds that a function body can only be the outermost list, and that
`fun_ret_type` is its type. Then the innermost function is the outermost list
(`AroundIsFirst`), the checks of `visit_ret_node` are the rule (`RequiredIs`), and
one lemma per handler keeps the rest.

### Trees

Expressions and statements nest without bound, and what the passes do to them is
recursive. The library's induction theorems take an operator as a parameter and
cannot be used here, so `Induction` states what is needed with sets: `RankInduction`
(a set that has a tree whenever it has its parts has all trees) and `RankRecursion`
(a definition by recursion has a value). `rank` stands for the height.
`SuffixRecursion` is the same for what is defined over a sequence from its end, as
the lexer's numbers are. The modules
about trees assume `IsAst(Exp)` or `IsAst(Stmt)`: the set is `Nodes` of itself and
its trees are finite. `AstExists` in each of them shows that there is such a set, so
that the theorems have a subject.

`FoldProofs`, for ints of any width and expressions of any height:

- `FoldTypes`: `Spec => []TypeOK`; `FoldKeepsValue`: `Spec => []ValuePreserved`;
- `FoldsAll`: `Spec => OnePassFolds`; `FoldReports`: `Spec => ReportsChange`;
- `FoldsOnce`: `fold_exp` is idempotent, which is what `Optimizer` assumes.

Each is an induction over expressions with a step per kind of node; the arithmetic
is in lemmas about `Wrap`, `TruncDiv` and `TruncRem`.

`ExpTypesProofs`, for all declarations and expressions of any size:

- `FindsTheType`: `Spec => []FollowsRules`; `BlamesTheStage`: `Spec => []BlamesStage`;
- `VisitsDoubleUnderCalls`: `Spec => []VisitsDouble`.

The walk of the arguments is an inner recursion over their number; it is described
by what a walk finds when no argument throws, and by the first that does.

`OptimizerProofs`, for programs of any length and nesting:

- `EndsClean`: `Spec => []CleanAtEnd`;
- `RunsOut`: `Spec => []Measured /\ StepsRunOut`, that `Size`, `Passes` and `Togo` are
  natural numbers in every state, `Passes` at most 4, and that every step lowers the first
  of the three that it changes. No infinite run of steps is left, whatever the program;
- `NeedsNoMore`: `Spec => [][Needs(Program') \subseteq Needs(Program)]_optv`, and from
  it `StaysBound`: `Spec => []StillBound`, for programs that declare what they use, as
  the resolver leaves them;
- `OtherwiseIsLost`: every step that changes `Runs(Program)` erases a `while` over 0
  that has an otherwise list; and from it `KeepsMeaning`: `Spec => MeaningPreserved`,
  for programs in which no such `while` has one (`PlainStmts`).

`CleanAtEnd` is about the end of the loop only; the iterator skips statements, so no
single walk leaves its list clean. The invariant (`LoopInv`) says: what a call has
walked over without removing anything is clean (`AllCleanSoFar`), and `dce_stmts` walks
only statements in which nothing folds (`WalkOK(Fixed)`), since one pass of `fold_stmts`
leaves none (`FoldTwice`). A turn that reports no change at all is then one
over a clean list. The actions of `Dce` keep `WalkOK(S)` for every set `S` of
statements that is closed under taking branches and bodies, which is proved once and
used for `Stmt`, `Fixed` and `PlainStmts`.

`RunsOut` needs `LoopInv` for the turns of `main()`: behind a walk that removed nothing
`fold_stmts` has nothing to report, so that one more turn is the last (`NextTurnDown`).
Folding keeps `Size` (`FoldKeepsSize`); a statement replaced by less lowers it, in the
list and in all the lists around it (`RemovalShrinks`, by `TotalReplaced` and
`TopShrinks`); and the three steps that remove nothing leave the program as it is and
lower `Togo` (`StepOverDown`, `EnterDown`, `LeaveDown`).

For the action properties, one lemma per action says what happens to the running
call's list, and the lemmas about `Whole` carry that through the bodies of the waiting
calls (`Program`). `Runs` of a list is that of its parts in a row, since `Then` is
associative (`RunsOfJoin`, `RunsInThree`).

### Only model-checked

Liveness (`FoldingEnds`, `OptimizationEnds`), which the prover does not do; what
`RunsOut` proves of the optimisation loop is the measure behind the second. Every other
property of the passing runs is also proved.

## 5. Plan

1. The resolver and the type checker in a row on whole programs, as `ExpTypes` has
   them on expressions, with the statements' own annotations.
2. Erased declarations: `StillBound` on programs whose branches declare functions,
   with the rule a program must keep for it.

## 6. Not modelled

- `main()` around the lexer and the parser: each of their modules ends in the state
  the next stage starts from, and the first `AlbatrossError` ends the program.
  Opening and reading the file is I/O.
- `print_err` beyond the lines it shows and where the caret is: colours and wording.
- `types.cpp`: two constant tables. `frame.h` and `opt.h`: declarations without code.
- `run_tests.py`: it builds the program for one stage at a time and compares output
  and exit code.
- `to_str` and the other printing of tokens and trees.
- The size of the C++ stack: nesting is bounded by the tokens (`DepthBounded`), not by
  a limit of the code's own.
