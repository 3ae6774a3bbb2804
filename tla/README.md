# A verification project for ric-compiler

ric-compiler is an ahead-of-time compiler for a small expression language: lexer,
parser, semantic analysis, lowering to a three-address IR in basic blocks, a
pass manager with five optimization passes, and an x86-64 code generator. The
sources are under `src/compiler/`; this directory holds TLA+ models of them, the
configurations TLC checks them with, and theorems about the lowering, the optimizer, the
generated program, the register allocator and the driver checked by the TLA+ proof system. Paths below are relative to
`src/compiler/` unless they start with `src/`.

The compiler is one sequential program. What makes it hard to test is not
interleaving but shape: deep mutual recursion over arbitrary trees with shared
mutable state (`last_value_`, `loop_stack_`, the current block), code emitted
behind terminators, a fixed-point loop whose termination depends on what the
passes report, and rewrites that must agree with what the emitted assembly does.
The one place where processes interact is the driver, whose intermediate files
are shared by all compilations into a directory.

## Inventory

| Component | State | Operations | Talks to |
|---|---|---|---|
| Lexer (`src/lexer/lexer.cpp`) | `pos_`, `line_`, `column_` | `tokenize`, `scan_*`, `skip_whitespace_and_comments` | pushes errors to DiagnosticEngine; returns the token vector |
| Parser (`src/parser/parser.cpp`) | `pos_` into the token span | recursive descent `parse_*`, `consume`, `synchronize_to_*` | consumes tokens, builds the AST, reports errors |
| AST, types (`include/ast/`) | node fields; `Expr::resolved_type` is written by the analysis | constructors, `accept`, type predicates | shared, mutated in place by the analysis, read by the builder |
| SemanticAnalyzer, SymbolTable (`src/semantic/`) | the stack of scopes with each symbol's type, mutability and moved flag; the expected return type; the type of the loop being checked | two passes: collect signatures, then check bodies | annotates the AST, reports errors; the driver stops on any |
| IR (`include/ir/ir.hpp`) | functions: blocks, edge lists, open block, next temporary, locals | `add_block`, `emit`, `switch_to`, `seal_block`, `is_terminated` | written by IRBuilder, rewritten by the passes, read by CodeGenerator |
| IRBuilder (`src/ir/ir_builder.cpp`) | `current_fn_`, `last_value_`, `loop_stack_` and the C++ call stack of visit functions | one `visit` per node kind, `lower_fn`, `lower` | reads the annotated AST, throws `std::logic_error` for an unknown label |
| Passes (`src/optimizer/passes.cpp`) | per run: the constant map, the set of used temporaries | five `run` functions, each with a report "changed" | rewrite the module in place |
| PassManager (same file) | `any_changed`, the pass in turn | `run`, `default_pipeline` | calls the passes until a sweep reports nothing |
| CodeGenerator (`src/codegen/codegen.cpp`) | the frame layout and name of the current function | `build_frame`, `emit_*` | reads the module, writes text |
| LinearScanAllocator (same file) | `free_regs_`, `active_`, `next_spill_offset_` | `allocate` | called by nobody yet |
| Driver (`src/driver/driver.cpp`) | files beside the output | `compile`: the phases, then `nasm` twice and `ld` | all components, subprocesses, the file system |
| DiagnosticEngine (`src/diagnostics/`) | a list and a count | append, render | everyone appends |
| main (`src/main.cpp`) | none | option parsing | Driver |

What is hard in each, and what makes it correct:

* **Lexer** – words, numbers and characters are consumed and put back, comments
  nest; correct when every text is read as the tokens it was written as, every
  location is true, and scanning ends.
* **Parser** – a ladder of hand-written loops for the operators, and error
  recovery that must make progress; correct when the tree of a program is parsed
  back from its text, what is accepted is understood completely, and every token
  list is consumed to the end.
* **Semantic analysis** – scopes, moved flags and break types are state that a
  visitor changes for others and puts back by hand; correct when exactly the
  well-typed programs are accepted, in whatever order their functions stand.
* **IRBuilder** – labels wait, unfilled, across arbitrary recursion; correct when
  the graph handed over is well-formed: labels exist, every block ends in a
  terminator, edges match terminators, values are defined before use on every path,
  breaks reach their own loop.
* **Passes, PassManager** – correct when a pass changes nothing a caller can
  observe, the code stays well-formed and the manager ends at a fixed point.
* **CodeGenerator** – frames of nested activations on one stack; correct when slots
  and frames do not overlap and the process computes what the source means.
* **LinearScanAllocator** – correct when two live intervals never share a register.
* **Driver** – intermediate files with names derived from the output's, removed at
  the end, or left by a failure or a kill; correct when success means that what
  was asked for is there, and nothing else.

`PROJECT.json` lists the hazards of this code at their lines under `hazards`.

## Modules

| Module | Models |
|---|---|
| `IR` | values, the nine instructions, blocks, `add_block`/`emit`/`seal_block`/`is_terminated` |
| `IRModule` | the module that the phases hand on |
| `Ast` | the node classes as tree constructors, and a tree's table of nodes |
| `Lexer` | `tokenize`: one action per blank, comment or token |
| `Grammar` | a printer of the language, with the parentheses the precedences ask for (reference) |
| `Parser` | every parse function, one action per turn of the loop of `parse()` |
| `Semantic` | the visit functions of the analysis as operators on an environment |
| `Analysis` | `analyze()`: one action per declaration, in both phases |
| `Typing` | which programs are well typed, without any state (reference) |
| `Programs`, `Examples` | building blocks for families of sources; whole programs |
| `IRBuilder` | the lowering: one action per stretch of a visit function between two calls to `accept()` |
| `BlockDiscipline` | the abstract promise of the builder about its blocks |
| `IRCheck`, `LoweringChecks` | definitions before uses, stores before loads, over the control flow the instructions have |
| `Optimizer` | the five passes as operators on functions, each with what it reports |
| `PassManager` | the fixed-point loop, one action per pass |
| `Compiler` | builder and pass manager composed as the driver does at `-O1`; what optimized code keeps |
| `Machine` | what the emitted assembly of a function does when called, for comparing passes |
| `CompilerChecks` | properties of optimized modules, stated with `Machine` |
| `LinearScan` | `LinearScanAllocator::allocate`, one action per turn of its two loops |
| `RegisterAssignment` | the abstract promise of a register allocator |
| `Frame` | `build_frame`: the slots and the size of a frame |
| `Processor` | the arithmetic of the emitted instructions |
| `Execution` | the generated program running: registers, a stack in memory, calls |
| `Source` | what a program means to a reader of its source (reference) |
| `EndToEnd` | lowering, pass manager, code generation and the running process in one behaviour |
| `CommandLine`, `Driver` | `main()` and `compile()`: several runs of the compiler on one file system |
| `LoweringLemmas` | lemmas about a function under construction, for the next four |
| `IRBuilderProofs` | the proofs about the graph the lowering builds |
| `LoweringValues` | the proofs about the temporaries in it |
| `LoweringSlots` | the proofs about the named slots in it |
| `OptimizerProofs` | the proofs about what the passes and the pass manager make of it |
| `ExecutionProofs` | the proofs about frames and calls of the generated program |
| `LinearScanProofs` | the proofs about the allocator |
| `DriverProofs` | the proofs about the driver |
| `MC*` | the families and bounds of the runs, one module for each |

`Compiler` composes `IRBuilder` and `PassManager`; `EndToEnd` extends `Compiler` and `Execution`,
which meet in the variable `module` of `IRModule`: what the one makes, the other runs; beside
them stands `Source`; `IRBuilder` implements
`BlockDiscipline` and `LinearScan` implements `RegisterAssignment`; `Parser` is held
against `Grammar`, `Analysis` against `Typing`, `EndToEnd` against `Source`.

### Lexer

The position record `here` is `pos_`, `line_` and `column_`. `SkipSpace`,
`SkipLineComment`, `SkipBlockComment`, `AddToken` and `AddEof` are the turns of
`tokenize` and `skip_whitespace_and_comments`. Characters are one-letter strings;
`peek` beyond the end is the character NUL, as in the code. `PutBack` is the
decrement of `pos_` and `column_` before a scanner that begins at the first
character, and `advance` keeps the line as the code does. Integers up to
`MaxLiteral` stand for those that fit.

### Parser

A state of the parser functions is a record of `pos_`, the errors and the result;
each function takes one and gives one, in the order of the code's calls, and
`Error` keeps the code and the token it blames. The six loops for binary operators
are one operator over a table of levels. One action is one turn of the loop of
`parse()`: `ParseFn` or `SkipOther`. `parse_stmt` and `parse_expr_stmt` are called by
nobody and left out.

`Grammar` prints trees as tokens, with every semicolon and with the fewest.

### Semantic analysis

`Semantic` has an operator for each visit function, from an environment (scopes,
errors, break type, return type) and a node to both of them changed; the same
module annotates the sources of the lowering runs. `Analysis` steps through the
declarations. The errors are the set of the diagnostics' codes; notes, messages and
suggestions are left out. `Typing` gives the *set* of types an expression can have;
code that jumps away can have every type. The symbol of a function is never copyable,
so a function named as a value is moved; the properties about acceptance leave
such programs out (`FirstOrder`), and the families do not use a jump as an operand
or as the initializer of a `let`. A break in the condition of a `while` belongs to the
loop around it and fixes that loop's type: the code saves the type of the breaks
behind the condition.

### Lowering

The builder is a recursive visitor. Its C++ activation records are the variable
`stack`: a record keeps the node, how many operands were visited (`pc`), the local
variables that survive a call of `accept()` – operand values, labels not yet
switched to, the loop header, the slot – and, for a break, the capacity
`loop_stack_` had when `ctx` was bound. `Accept` pushes a record, `ReturnFromVisit`
pops one. An action is everything the visit function does between two calls, so
`IfThen` takes the condition's value, allocates the labels, emits the branch with
its two edges, switches blocks, reserves the slot and calls the then branch.
`lastValue` is `last_value_` (`<<>>` when empty), `cur`, `blocks`, `nextTemp` and
`locals` are the fields of `current_fn_`, `module` the functions handed over.
`loop_stack_` is a `std::vector`, and `loopCap` its capacity (growth by doubling):
`visit(BreakExpr)` holds a reference into it across the lowering of the break's
value. When the vector was reallocated meanwhile, the model lets the read of the
freed buffer return the old contents (`BreakStore`), other values that happen to
name a block (`BreakGarbage`) or a label that does not exist, so that
`Function::block` throws (`BreakDangling`, status `"failed"`).

Trees are data: `Programs` is a set of programs in tabulated form, an arbitrary
one in the proofs; in the runs, the programs of a family that `Semantic` accepts,
with the types it resolved. Only annotated, accepted programs ever reach the builder:
`ProgramAssumption` says that a tree's nodes have the operands the constructors give
them (a block with a tail has a last child, the value of a literal is no temporary, the
operator of a binary node is one of `BinOps`),
that an `if` with a result has an else (without one its type is unit), that every break
and continue is inside the body of a loop (`Stray`), which the analysis reports
otherwise (E0222), and that no break of a loop with a result is bare (`Bare`, E0223).
The scopes are no part of it: `NamesBound` is a premise of `SlotsStoredOnEveryPath`
alone, that every use of a name is below a parameter list or behind a `let` of an
enclosing block. The analysis accepts one thing more, a function named as a value, which the
builder loads as if it were a local; nobody stores that slot. `MCLowering` assumes
`NamesBound` for its whole family, so there the premise leaves nothing out.
Block label strings, types stored in the IR for printing, and the `print` functions
are left out.

### Optimizer

A pass is an operator from a function to its new form and what the pass reports;
the report is computed from the same conditions as in the code, not by comparing
input and output: constant folding reports every constant `Assign`, even one it
leaves alone, and does not report the operands it resolves. Constant folding and
jump bypassing are recursive functions over the instructions and the blocks because
their order matters: the one constant map of a function, and the targets earlier
bypasses have moved. `Without` is the copy into `new_instrs` of dead code elimination.
Integers are `Width` bits wide and wrap, as additions and multiplications of the
built program do; `IntMin / -1` raises the processor's divide error, inside the
compiler when folding meets it (`Crash`). `PassManager` runs the pipeline,
`Compiler` lets it start when the builder is done.

`Machine` gives the meaning of one function's code, compactly enough to compare the
code before and after every pass: every name has its own slot, a slot never written
holds garbage, blocks are laid out in order, `idiv` traps; a call of another function
is recorded with its arguments and returns a fixed function of the first one.

### Register allocator

`freeRegs` (taken from and given back to its end), `active`, `newActive` and
`spillOffset` are the members and the inner vector. `TakeUp` begins a turn of the
outer loop – `std::sort` leaves the order of equal starts open –, `Keep` and `Expire`
are the turns of the inner one, `TakeRegister` and `Spill` end it. `Begin` is a call of
`allocate`; the members survive it, so entries of an earlier call are looked up by
temporary among the new intervals. Nothing in the compiler calls the class yet;
`expire_old` is called by nobody.

### Generated code

`Frame` numbers the names of a function by the place of their first claim, in the order of
`build_frame`. A step of `Execution` is one IR
instruction, the prologue (`Enter`) or what stands behind a call. Memory is a
function of byte addresses, and a frame that ends leaves its contents behind. The
start code of `driver.cpp:149-161` (`Launch`, `Exit`) is included. The ghost variable
`activations` records what each activation stored under which name and what it was
called with; the properties compare memory with it. Assembly text, label names and
the encoding of instructions are left out.

`EndToEnd` runs builder, pass manager (at `-O1`) and process one after the other.
`Source` evaluates the tree with lexical scopes, from left to right, both sides of
`&&` and `||` too (no document says that they stop early). Numbers have the
processor's width; division is Euclidean, as `src/docs/Architecture.md:201-203` says, not
the `idiv` of `Processor`.

### Driver

`fs` maps paths to what is there and who created it. Each step is a file operation
or a subprocess of `compile()`; opening a file empties it, closing it fills it, and
what was removed in between is filled without a name. nasm and ld are external: the
model says what they may make of what they find. `careful` (a rigid variable) splits
the behaviours: with care (`Cautious`), a user waits for the run in a directory to end
before calling another one there, no disk fills up, and no output is named `*.asm`,
`*.o` or `_ric_runtime*`, the names of the intermediates; without it, the command
lines are those of `Crowd` (one names the other's source as its output), runs overlap
and a write may be cut short.
`kills` bounds the runs killed from outside, at any step, in both; a kill takes the nasm or
ld that the run waits for with it.

## Runs

| Run | Question | Result |
|---|---|---|
| `lowering` | Does every control-flow tree, every operand and result, and every loop inside the value of a break become a well-formed graph with temporaries written once and before every use, and does lowering end? | holds |
| `break_context` | Is the reference `ctx` valid when it is used (`ir_builder.cpp:503-517`)? | violated: a loop inside a break value reallocates `loop_stack_` |
| `passes` | Through the default pipeline: does every pass but strength reduction keep what a caller observes, does the code stay well-formed, does the manager end, and at a true fixed point? | holds |
| `endless` | Does the manager end (`src/docs/Architecture.md:164-165`)? | violated: for `f(1 + 2)` every sweep reports a change |
| `registers` | Do overlapping intervals ever share a location; are registers lost or doubled; does the first function spill only under pressure? | never; no; yes |
| `meaning` | Does the compiled process, at `-O0` and `-O1`, compute what the source means, end when it does, and keep its frames apart? | holds |
| `shadowing` | The same for an inner `let` of a name in use (`src/tests/test_semantic.cpp:153`) | violated: one slot per name |
| `driver` | What is on disk after runs of the compiler – succeeding, failing, killed, at once in one directory? | holds |
| `parsing` | Is every tree parsed back from its text, nothing dropped that is accepted, and every token sequence consumed? | holds |
| `lexing` | Is every text read as it was written, with true locations, to its end? | holds |
| `analysis` | Are exactly the well-typed programs accepted, in either order of their functions, and does a declaration leave the analyzer as it found it? | holds |
| `forward` | Is a call of what is declared further down an error (`src/tests/test_semantic.cpp:138-144`)? | violated: all signatures are collected first |

What the properties say is written above each in its module. The most telling:

* `FinishedBlocksTerminated` – code behind a `return` un-terminates the open block,
  yet every block handed over ends in a terminator.
* `SlotsStoredOnEveryPath` – an `if` or `loop` with a value loads its slot in the
  merge block although branches ending in a jump never stored it; no executable
  path reaches the load without a store.
* `RefinesBlockDiscipline`, `NoSharedLocation` – refinements.
* `RewritesKeepMeaning`, `DeadCodeKeepsMeaning` – compared by running old and new
  code on `Machine`; dead code elimination may lose a trap and nothing else.
* `FixedPointReached` – unreported rewrites do not make the manager stop early.
* `ComputesItsMeaning`, `EndsLikeItsSource` – the whole compiler against `Source`.
* `FramesIntact`, `ReturnsToCaller`, `ReadsOnlyItsOwn` – every slot of every open
  activation holds what was stored under its name; no result hangs on what an
  earlier frame left behind.
* `RoundTrip`, `NothingDropped` – the parser against the printer, for programs and
  for arbitrary accepted token sequences.
* `AcceptedIsTyped`, `TypedIsAccepted` – the stateful analysis against `Typing`.
* `NoForeignExecutable` – even with overlapping runs, an executable found under a
  name was made of a source somebody asked to have compiled to that name, as long as
  no two outputs share a stem.

### Bounds and why they are enough

* `lowering`: two levels of control expressions around seven kinds of atoms, with
  and without tail, with code behind jumps on either side; one operator or call over
  operands of every kind, including those that end in another block than they began
  in; loops inside the value of a break, where a capacity of one is exceeded. The
  builder's records interact only through `loop_stack_`, `last_value_` and the open
  block, so an inner construct inside each place of an outer one exercises each
  hand-over.
* `passes`: `Width = 4` (numbers -8..7), so overflow, `IntMin` and division by -1
  occur; arguments -1, 0, 2 for each of about eight hundred functions; a call is
  followed for `Fuel = 60` steps and not compared when the old code has not ended
  by then (the loops of the family end sooner or never).
* `registers`: two registers, up to three intervals over three points, two calls:
  one interval more than registers, every way two intervals can meet, and entries
  of the first call met again in the second.
* `meaning`: the repository's examples, recursion with values alive across calls,
  six arguments, every loop exit, all operators; inputs -1 to 4, `Width = 8`. The
  programs keep clear of what the optimizer and the builder get wrong (below): no
  multiplication by a power of two, no division of a negative number that leaves
  a remainder, no shadowing, breaks of one type, and no call
  with an argument computed from constants alone.
* `driver`: two runs, one kill, sources that are good, wrong, without `main` and not
  for nasm, outputs beside each other, elsewhere and in a locked directory. Two runs
  are enough for every property relates a run to one other; the theorems below are
  about any number of runs.
* `parsing`: the text of every example and of every pair of nested operators, and all
  sequences of up to four tokens from alphabets of four to eleven kinds, in a body, a
  branch, a call, a header, before another function and outside of functions. With the
  fewest semicolons, a `while` that ends a body still has its own (below).
* `lexing`: every pair of 28 lexemes with nothing, a blank, a line end or one of
  seven comments between, and every text of up to four to six characters over four alphabets: all
  look-ahead and put-back is of at most three characters.
* `analysis`: every small expression in every place of a body; three functions whose
  names, parameters and calls coincide in every way; breaks, with values of
  different types, in the conditions of `while`s, inside of loops, of each other and outside
  of loops; odd before even. Loops are two deep.
* `break_context`, `endless`, `shadowing`, `forward`: the smallest programs.

### Fairness

`FairSpec` asks weak fairness of `Next`: the compiler is a running sequential
program, and nothing but its own next step can happen. `LoweringEnds` excludes the
behaviours in which the dangling reference was read (`ReferenceHolds`), whose
end is undefined. `FairCompSpec` says the same in two parts, for the lowering and
for the position of the pass manager: `Advance` names only that position, what a step
does to the module is fixed by `CompNext`. `OptimizerEnds` takes a crash of the compiler in
constant folding (`IntMin / -1`) for an end. `Lexer` and `Parser` have a variable
`turn` that toggles with every turn of the loop, and ask weak fairness of the toggling
(`Turns`): a turn that consumed nothing would still be a step, so that a loop which
goes round without consuming anything violates the property instead of stuttering.
`FairE2ESpec` asks that the process moves (`Moving`) while it has not ended, except at a
block that is a jump to itself (`Circling`): there its position never changes, and such a
loop is one the source does not leave either. Deadlock is not checked where the
program ends.

## Disagreements

Four are kept as runs and listed under `findings` of `PROJECT.json`. The following were
met the same way, each with the formula named and the smallest source that violates it;
they are recorded here and not re-checked.

| Where | What the code does | What is said | Shown by |
|---|---|---|---|
| `ir_builder.cpp:505` | the operand of a break is compiled only when the loop has a slot; `loop { break { x = 3; } }` never assigns | `src/README.md:36` lists `break` with value, the analysis accepts it | `ComputesItsMeaning` on that program |
| `semantic_analyzer.cpp:478` | the first break gives the loop its type, even an unknown one: after `break (return 1)` the value of `break 2` is lost | `src/docs/IRDesign.md:154-157` | `ComputesItsMeaning` |
| `codegen.cpp:166` | `main` makes its calls with `rsp` at 8 modulo 16 | `src/docs/Architecture.md:186-188` | `rsp % 16 = 0` at every `Calls` step of `Execution` |
| `passes.cpp:212` | a multiplication by 2^k becomes an addition of k, at `-O1` | `src/docs/Architecture.md:160`: a shift | `ComputesItsMeaning` on `p * 2`, which gives `p + 1` |
| `codegen.cpp:237` | `-p % 3` is -1 for `p = 1`: `idiv` truncates | `src/docs/Architecture.md:201-203`: Euclidean division | `ComputesItsMeaning` on that program, and on `-p / 3` |
| `codegen.cpp:60` | without a free register the new interval is spilled | `src/docs/Architecture.md:212-213`: the one that ends last | intervals 1..3, 1..2, 2..2 in two registers of `LinearScan` |
| `passes.cpp:272` | after the pipeline the folded constant is in the `Return`; every `Assign` is gone | `src/tests/test_optimizer.cpp:78`, `157` look for it in an `Assign` | `(1 + 2) * 2` |
| `driver.cpp:125` | compilations into one directory share `_ric_runtime.*`: one can link without a start code and report success | `src/compiler/src/main.cpp:19` | `DeliversWhatWasAsked` without `careful` |
| `driver.cpp:193` | `-o prog.asm` is removed after it was linked | `main.cpp:19` | the same |
| `driver.cpp:179` | `--no-link` leaves `<stem>.asm`, `_ric_runtime.asm` and `_ric_runtime.o` | `main.cpp:24`: `.o` only | the formula of `LeavesNothingElse` where `at` goes from there to `"succeeded"` |
| `driver.cpp:136` | a write cut short is reported as success | `main.cpp:25` | the same |
| `parser.cpp:280` | in `fn f() { while true { } }` the `while` is the tail | `src/tests/test_parser.cpp:91-98` requires one statement | `RoundTrip` on the tree with the statement, printed without its semicolon |
| `parser.cpp:521` | `let x = }` takes the following function with it | `src/docs/Architecture.md:61-63`: recovery stops at `}` | `fn f() { let x = } fn g() {}` loses `g` |
| `lexer.cpp:321` | a text that ends in a quote and a backslash is read one character behind its end | `src/README.md:45`: offsets of the source | the location of `Eof` |
| `semantic_analyzer.cpp:181` | `let x = y; x; x;` with undeclared `y` reports a move of `x` | `src/docs/Architecture.md:76`: no cascading false positives | E0206 for a program without function values |

## Theorems

About `IRBuilder`, for every set `Programs` satisfying `ProgramAssumption`
– every tree of every size and depth:

* `TypeCorrect`, `LabelsAlwaysExist`, `FinishedBlocksAlwaysTerminated`,
  `EdgesAlwaysMatch`, `LoopStackAlwaysMatches`: `Spec => []P` for invariants of
  run `lowering`.
* `Refinement`: `Spec => Discipline!Spec`, the lowering implements
  `BlockDiscipline`.
* `Inductive`: `Spec => []IInv`.

None of the invariants is inductive alone. That a finished block is terminated
depends on where each block stands in the middle of the recursion, so `IInv`
(module `IRBuilderProofs`) adds:

* `Graph` – edges lead to blocks and match the terminators at both ends;
* `Shapes` – each activation record has the labels, header and slot its node and
  `pc` call for;
* `FinishedSealed` – control stays inside a function handed over: its blocks are
  terminated and go to blocks it has;
* `Account` – every block is terminated, or the open one, or awaited by exactly one
  activation record; this is what makes a hand-over with an empty stack leave only
  the open block to close;
* `Loops` – `loop_stack_` lists the loops whose bodies are being visited, and a
  break whose value is being visited is inside one.

The 28 kinds of step fall in two classes: those that stay in the open block
(`StayStep`) and those that leave it for an awaited or new one (`MoveStep`); each
action is shown to belong to one, with what it does to the stack of records and
the loop stack, and the two class lemmas preserve `IInv`. The refinement follows
the same split: a stay step is a stutter of `BlockDiscipline`, a move step is
`Move`, `BeginFn` is `Start`, `EndFn` is `Finish`. The lemmas about sequences,
edges, terminators, records and labels are in `LoweringLemmas`.

About the temporaries the lowering writes and uses, under the same assumption
(`LoweringValues`, with the lemmas about code in the last part of `LoweringLemmas`):

* `TempsAreWrittenOnce`, `DefsAlwaysPrecedeUses`, `TempsAlwaysDefined`: `Spec => []P`
  for invariants of run `lowering`.
* `ReferencesHold`: as long as no value of a break of the function contains a loop
  (`ReferenceHolds`), the reference `ctx` is valid when it is used. The disagreement
  of run `break_context` is therefore the only way it dangles.
* `ValuesInductive`: `Spec => []VInv`, on top of `IInv`.

Definitions on every path are a fact about a graph that is still being built. `VInv`
says there is a *certificate*: a set of temporaries for every block, all of them
written whenever control gets to it (`Certified`). A block's set is fixed when its label
is allocated, as what the open block knows at that point: nothing that is emitted later can
take away from it, so only the new instruction of each step has to be looked at. What
the recursion still holds must agree with it (`Held`): the operand values in each
activation record are known in the open block and in every block the record, or one
above it, will go on to. A finished function with a certificate defines its
temporaries on every path: the blocks that do not expect a temporary include the entry
block and are left only through a block that writes it, so the search of `IRCheck` never
gets out of them (`EnteredInside`). For `ReferencesHold`, `Quiet` says that `loopCap` is
still what each waiting break saw, no visit above it having a loop below it, and
`Placed` that a break being visited has its loop below it on the stack. `Stray`,
`HasLoop` and `EnteredAvoiding` are recursive functions: that they satisfy their recursion
is shown without induction over data, from the least closed set (`LeadToNext`) and
from the least number at which a claim could fail (`Least`).

About the slots of variables and of the results of `if` and `loop` (`LoweringSlots`):

* `SlotsAlwaysStored`: `Spec => []SlotsStoredOnEveryPath`.
* `SlotsInductive`: `Spec => []SInv`, on top of `VInv`.

The certificate is now a set of names for every block, all of them stored whenever
control gets there (`Supplied`). It cannot be what the open block has stored when a label is
allocated: the merge block of an `if` with a result is allocated before either branch has
stored the result, and loads it. So `SInv` also keeps, for every activation record, the
names `h` that were stored when its visit began: the labels a record waits with expect
`h`, and the last of them the record's result slot besides (`Owed`). The jump that
goes there is emitted behind the store, or in a block nothing leads to. For a loop
this takes `Bare`: no break that goes to the exit of a loop with a result comes without
a value (`Valued`). For variables, `Needs` says that what is read at or below a node, and
not bound there, is in the `h` of its visit; `LevelOf` that the names a block has
declared so far (`LetsBefore`) are in what its next statement begins with. A
finished function with a certificate stores every slot before it loads it
(`SuppliedOnEveryPath`), by the same argument as above.

About the optimizer (`OptimizerProofs`), for every set of programs as above, every
`Width` and any number of sweeps:

* `OptimizedCodeAlwaysWellFormed` and `FixedPointAlwaysReached`: `CompSpec => []P` for
  the two invariants of run `passes`.
* `OptimizationInductive`: `CompSpec => []OInv`. While the builder works, `OInv` is
  `VInv`, and the manager waits at its start. From then on it is `Carried` – control stays
  inside of every function (`Fine`), and one in which the reference `ctx` held has a
  certificate (`Covered`), the one of `LoweringValues` – and `Managed`.

That temporaries are defined on every path says nothing step by step; the certificate does,
for each pass (`PassKeeps`). Folding, simplification and strength reduction leave
every instruction in its place with the same destination, no operand and no target it
did not have (`Weaker`), so the certificate stays as it is. Dead code elimination
removes only definitions of temporaries nothing uses: the certificate restricted to
the used ones stays (`CertUsed`), though every instruction moves (`Without`). Bypassing
replaces a label by one that takes no more to be written: a block
that is a sole jump writes nothing, so what it goes to expects at most what it expects
itself (`Forwards`), through chains and cycles of them.

`Managed` says that in a sweep without a report so far the passes already run find nothing
to change (`Quieted`). A pass that reports nothing must have left the module as it was.
For constant folding that is not evident, for it resolves operands unreported; but
whatever puts a constant into its map also reports, so without a report the map
stayed empty and nothing was resolved (`ConstantFoldingKeeps`).

The sweeps over lists are recursive functions; that each satisfies its recursion is
shown without induction over data, from the set of lengths for which a partial
computation exists (`Upward`, `Iterates`). That folded numbers are integers takes
that `2 ^ Width` is positive, which follows from counting subsets (`PowerPositive`).

About the generated program (`Execution`), for all code that is `Executable`, every width,
every stack size, every input and any depth of calls:

* `FramesAlwaysIntact`: `ExecSpec => []FramesIntact`, and `AlwaysReturnsToCaller`:
  `ExecSpec => ReturnsToCaller`, two properties of run `meaning`.
* `AlwaysReadsItsOwn`: `ExecSpec /\ AllWellRead => []ReadsOnlyItsOwn`, the third.
* `ExecutionInductive`: `ExecSpec => []XInv`, and `ReadingInductive`:
  `ExecSpec /\ AllWellRead => []RInv`.

`ExecSpec` is the process of one module of code, from before it is launched. `Executable`
is what the phases before the generator provide: a sequence of functions whose blocks are
terminated and whose jumps stay inside (proved for lowered and for optimized code, above),
with the parameters among the locals (`lower_fn` puts them there), every function called
being there (the analysis reports E0215 or E0216 otherwise) and `main` too (nothing links without).

That a slot holds what was stored in it is a fact about one frame only as long as no other
frame reaches into it, and that is a fact about all of them. `XInv` says that each
frame ends above the return address of the next (`Nested`), that each saved `rbp` and return
address is that of the caller and of a call in its code (`Linked`), that what an activation
has stored has a slot (`Recorded`), and where control and `rsp` are between the steps
(`Control`). Within a frame the slots are apart because the names are numbered differently, and
lie between the saved `rbp` and the end of the frame because no number exceeds how
many names there are and `frame_size` is at least eight bytes for each
(`NumbersApart`, `LayoutSound`). A store then changes what is held under one name of one
activation (`VarStored`, `TempStored`), a call writes below all frames (`WrittenBelow`), and the
prologue stores each parameter where its name is looked up later (`PrologueIs`).

`AllWellRead` asks of every function what `IRCheck` states of paths: a definition before every use, a
store before every load (proved of lowered code, above), operands that are temporaries, and no
more parameters than there are registers for them. From paths to what has happened in one
activation leads `Remembered`: at the place it is at, an activation has stored all that every path to
that place stores; the place of a caller is the one behind its call. What all paths to the next
instruction pass is what all paths to this one pass, or this one itself (`NextFlows`, and for jumps
`JumpFlows`); nothing is passed on all paths to the entry (`StartFlows`), where the prologue has
stored the parameters. That a jump from a block entered leads to a block entered takes that the search
of `EnteredAvoiding` is over after as many rounds as there are blocks: a round that is not
the last adds at least one (`EnteredClosed`).

About `LinearScan`, for every sequence of distinct registers, all sets of intervals
with distinct temporaries that do not end before they start, and any number of calls:

* `AllocatorTypeCorrect` and `RegistersAlwaysConserved`: `Spec => []P`.
* `NeverShared`: `Spec => Promise!Spec`, the allocator implements
  `RegisterAssignment`.
* `AllocatorInductive`: `Spec => []IInv`. That overlapping intervals get different
  registers is not inductive: a free register must not be one that a live interval
  was given, which depends on what the inner loop did with every entry since. `IInv`
  says that the three lists hold every register once between them (`EachHeldOnce`),
  that an interval with a register has an entry under its name and register until
  it ends before everything still to come (`HeldOrOver`), that the interval of the
  outer loop starts first (`FirstIsNow`) and that slots given out lie above the next
  one (`SlotsAbove`). `Keep`, `Expire` and `TakeRegister` move one element from one list
  to the end of another (`HeadMoves`, `LastMoves`); an entry expires only when its
  interval ends before the present one starts, which starts no later than the rest.
* `FirstFunctionSpillsUnderPressure`: in the first function an interval goes to the stack only where
  intervals that overlap it hold all the registers. `FirstInv` adds to `IInv` that
  the intervals come in the order of their starts, that an entry in either list
  belongs to an interval of this call, that what the inner loop kept ends after the
  present start, and the property itself for what was spilled before. Nothing free means,
  by `EachHeldOnce`, that every register is in one entry; distinct entries have
  distinct intervals, which gives as many overlapping intervals as registers
  by an injection.

About `Driver`, for any number of runs, command lines, kills and sources, with or
without care, assuming only that no two sources have one path (`SourcesAssumption`):

* `ExecutablesAreOwn`, `GoodSourcesCompile`, `SourcesAreKept`: `Spec => []P`.
* `SuccessIsDelivery`, `SuccessLeavesNothingElse`: `Spec => P` for the action
  properties `DeliversWhatWasAsked` and `LeavesNothingElse`.
* `DriverInductive`: `Spec => []DInv`. An executable is what the run that links finds
  in its object file, which is what it assembled, which is what it wrote; `OwnFiles`
  says so at each stage for a run whose files nobody else writes (`Alone`), and
  `OwnExecutables` that the files of finished runs stay accounted for. With care,
  `Progress` lists for each stage what is in each of the run's five files (`Stages`), so
  that every subprocess finds what it needs and the last removal leaves nothing.
  A step touches only the five files of its run (`StepWrites`); those of two
  runs are apart by directory (`Apart`) or by stem, those of one run because its
  output is named like none of its intermediates (`Distinct`).

`IInv`, `VInv`, `SInv`, `FirstInv` and `DInv` were checked with TLC before they were proved, on
the configurations of `lowering`, `registers` and `driver`; for `VInv` and `SInv` the certificate
was a variable of its own that recorded each label's set when it was allocated. Of `OInv`,
`Managed` and the `Sealed` of every function were checked on the configuration of `passes`; of
`XInv`, all but `Laid` and `Stack`, with `Executable`, and of `RInv`, `Remembered` and, once the
module is final, `AllWellRead`, on the programs of `meaning`.

Checked by TLC only:

* liveness (`LoweringEnds`, `OptimizerEnds`, `EndsLikeItsSource`, `EventuallyParsed`,
  `EventuallyLexed`), which is beyond the prover;
* that the passes keep the meaning of the code (`RewritesKeepMeaning`,
  `DeadCodeKeepsMeaning`), the parser, the lexer, the analysis, and that the process computes
  what the source means:
  their properties say what recursive operators (`Machine!Run`, `Types`, `PrintedExpr`,
  `Eval`, the scanners) compute, which takes induction over data.

## Not modelled

* DiagnosticEngine: an append-only list and its coloured rendering; the one fact other
  parts use, whether there are errors, is the set `errs` of each front-end module.
* The text of assembly, IR dumps and messages; source locations in the tree.
* `--emit-ir` output, and what the driver prints.
* More than six parameters: a seventh reads a slot nobody stored
  (`src/docs/Architecture.md:196-198` says it is not supported).
* Tests, examples (but for those in `Examples`) and build files.

## Plan

What is left: the parser and lexer composed, so that
texts of characters are held against trees; a larger family of well-typed programs for
`meaning`, generated from `Typing` instead of written down.
