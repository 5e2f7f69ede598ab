# A verification development for DOrder

DOrder infers refinement (liquid) types for OCaml programs.  It generates
subtyping constraints over predicate variables, solves them with a fixpoint
solver that asks Z3, and, when assertions remain unproved, runs the program on
generated tests, searches for bad samples, learns candidate predicates that
separate good from bad, and solves again with the candidates as qualifiers.
Beside the OCaml code the repository carries a learner of Boolean functions by
queries, in C, with its bindings and a MiniSat oracle, and C programs by which
`configure` finds out what the platform does.

This directory models the algorithms that decide whether the answer is right
in TLA+, checks small instances with TLC, and proves the safety properties of
eight components with TLAPS for every value of their constants.

Paths below are relative to the repository (`src/` in PROJECT.json).

## 1. Inventory

| Component | Code | State it keeps | Operations | Model |
|---|---|---|---|---|
| Fixpoint solver | `liquid/constraint.ml` | solution table `s`, indexed constraints `sri`, marks `pend`, registered `Frame.unfound` | `make_initial_solution`, `make_further_solution`, `solve_wf`, `make_initial_worklist`, `solve_sub`/`refine`, `unsat_constraints` | `LiquidSolver` |
| Worklist | `utils/heap.ml`, `push_worklist`/`pop_worklist` | functional heap, mark table | add, remove, maximum, push, pop | `WorklistHeap` |
| SMT interface | `liquid/theoremProverZ3.ml`, `theoremProver.ml` | one Z3 context, constants `vart`, sections `vars`, `count` | push, pop, implies, valid, finish, sat, unsatisfiable, model | `ProverZ3` |
| Synthesis loop | end of `liquid/constraint.ml` (`testloop`, `loop`), callbacks in `liquid/qualifymod.ml` | `testcounter`, `iter_count`, `pos_samples`, `neg_samples`, failed candidates, solution and report | query_pos_samples, query_neg_samples, learn_from_samples, solve again | `SynthesisLoop` |
| Sample-based learner | `liquid/cbslearner.ml` | sample matrix, columns, solutions found, the term in construction | drop common columns, rec_solve, allsolution, interprete | `SeparatorLearner` |
| Two-level optimiser | `liquid/bes.ml` | none that outlives a call | Quine-McCluskey | not modelled |
| Backward analysis | `liquid/backwalker.ml`, `backwalkerfull.ml` | bad conditions per function, `hoflag` | symb_exe_structure, drive_new_test | only `drive_new_test` |
| Bad-sample search | `liquid/modelsolver.ml` | none | one model query per function and restriction | only its results |
| Sampling | `liquid/instrument.ml`, `liquid/run.ml`, `modify` in `qualifymod.ml` | instrumented file with its `callflag`, log file, `env_stack` of the reader | dump_app, dump_fun, synthesize, execute, read_dumpings; append tests | `Sampling`, `modify` in `SynthesisLoop` |
| Constraint generation | `liquid/qualifymod.ml`, `frame.ml`, `builtins.ml`, `wellformed.ml` | list of labelled constraints | constrain, split | splitting planned |
| Driver | `msolve.py`, `common.py`, `liquid/liquid.ml` | exit codes, `.quals` files | generate qualifiers, solve, retry with `-hoflag` | planned |
| Formula handles | `learning/cdnf/cdnfp_stubs.c`, `external/cdnfcore/boolformula.c` | reference-counted formulas in C, custom blocks in OCaml | create, add, set, get, copy, to_cnf, cdnf and its variants, is_equivalent, finalisation, boolformula_free | `FormulaHandles` |
| CDNF learner | `external/cdnfcore/cdnf.c`, `learning/cdnf/cdnfp.ml`, `cdnflearn.ml` | bases with supports and disjunctions, number of variables, session counter | go, gox, goxx, goxxx: four learners by queries | `CdnfLearner` |
| SAT oracle | `learning/cdnf/minisat_stubs.cc`, `oracle.ml` | a MiniSat solver per query, variable map | to_eq_sat, is_satisfiable, with assumptions, is_equivalent | `MinisatOracle` |
| Configuration probes | `config/auto-aux/signals.c`, `async_io.c`, `dblalign.c`, `int64align.c`, `align.c` | handlers, a counter, a child process | one `main` each | `ConfigureProbes` |
| Other learners | `rulemine.ml`, `invmine.ml`, `cpredmine.ml`, `learn.ml` | candidate tables | mining heuristics | not modelled |
| Predicates | `typing/predicate.ml`, `normalize.ml`, `qualifier.ml` | none | syntax transformations | not modelled |
| Other configuration probes | the rest of `config/auto-aux/` | none | print a size, call a function | not modelled |
| Front end, libraries | `parsing/`, `typing/`, the rest of `external/` | | vendored | not modelled |

**How the parts interact.**  `msolve.py` runs the binary twice.
`qualify_implementation` (`liquid/qualifymod.ml`) chains everything in one
thread: constraint generation, backward analysis, instrumentation, then
`Constraint.solve` with three callbacks (run the program for good samples,
query Z3 for bad ones, learn candidates).  The solver reaches the worklist
through `push_worklist`/`pop_worklist`, the SMT interface through
`TheoremProver.implies`, and the types of local expressions through a closure
it registers in the global `Frame.unfound`.  The tested program is a separate
process that communicates through files.

The learner by queries is a call from OCaml to C that calls back: `Cdnfp.go`
registers three closures under numbered names, the stub copies the names and
runs `learn`, and each of its queries looks a closure up and calls it.  The
closures of `oracle.ml` ask MiniSat through stubs of their own.  At this commit
these bindings are built only on request (`CDNFOBJS` is empty, `Makefile:73`)
and their callers in `liquid/cbslearner.ml` are commented out; the modules
are about the libraries, whoever calls them.

**What is hard here.**  The analysis itself is one thread.  What interleaves is
OCaml's collector with the C stubs, a callback with the learner that called it
(it may raise, or start a session of its own), and in `async_io` two processes
and their signals.  The other hazards are *state
that outlives the call that made it* (the mark table, the closure in
`Frame.unfound`, Z3's memo table, the sample tables, `iter_count`), *loops with
no evident bound* (`solve_sub`, `testloop`, `rec_solve`, `allsolution`),
*stacks that must stay in step* (Z3's scopes, the sections, the counter), and
*an order of work chosen by a priority queue* on which the answer must not
depend.  PROJECT.json lists each at its line under "hazards", including those
no property covers yet and why.

**What makes each part correct.**

* Solver: the answer of a pass is the strongest fixpoint below its start
  whatever the order of work; nothing violated is ever left unqueued; the
  report is about the table that is returned; rounds never un-prove.
* Worklist: it is a priority queue of distinct constraints.
* SMT interface: an answer is about the facts that were asked, no more, no less;
  scopes balance; no freed constant is used.
* Loop: solution and report belong together; refuted candidates do not return;
  inner loops end; it gives up only when it has nothing to learn from.
* Sampling: the lines of the log are whole (under `-reachability` nearly, see
  below), and a result is learned with the environment its own call was made in.
* Learner: each answer separates; each smallest answer is found; it ends.
* Handles: nothing is freed that can still be read, and what nobody can reach
  is reclaimed.
* CDNF learner: it ends with the function that was asked for, whatever
  counterexamples it gets; its assertions hold.
* SAT oracle: the answer is right although the encoding's own variables are
  never decided.
* Probes: the exit status tells what the platform does, in every order of
  events, and `configure` does not hang.

## 2. Modules

### LiquidSolver (refines StrongestAnswer)

A predicate is a set of qualifiers.  `Solutions` are the tables `s`;
`Entails(c, H, q)` stands for all the prover does with constraint `c` under
hypotheses `H`.  Actions:

| Action | Code |
|---|---|
| `SolveWf(i)` | one step of `solve_wf` |
| `MakeWorklist` | `make_initial_worklist`, then `Frame.register_unfound` |
| `Refine(c)` | one iteration of `solve_sub`: pop, `refine`, push the successors |
| `Drained` | `pop_worklist` finds the heap empty |
| `Validate` | `unsat_constraints` |
| `Further(new)` | `make_further_solution` on a copy of the first pass's table, by `loop` |

`live`/`old` model which table the closure in `Frame.unfound` reads.  `pend`
and `wl` are separate because the table of marks belongs to the constraint
index and survives a pass while the heap does not.  `start` is a history
variable.

`StrongestAnswer` says only: a table is prepared, then replaced in one step by
its strongest acceptable restriction.  All of `solve_sub` is that one step.

Abstractions and assumptions, all named `ASSUME`s:

* `RankAssumption`: a dependency never leads to a higher rank
  (`Common.scc_rank`, a topological numbering of components).
* `MonotoneAssumption`: more hypotheses never prove less.  This is true of
  logic; the instantiation of quantified facts by pattern matching is taken to
  respect it.
* `LocalsAcyclic`: constraints on local variables do not feed each other in a
  cycle.  The code relies on it: on such a cycle `local_types` would recurse
  for ever.
* The first pass runs with `is_higher_order=false`; the conjuncts of an arrow
  are empty, so it is not a different case here.  The filter on
  `Pre`/`Post` names under `-reachability` is left out.

### PriorityQueue and WorklistHeap

`WorklistHeap` is the heap of `utils/heap.ml` behind `push_worklist` and
`pop_worklist`.  The three-part rank is one integer `Key`.  A heap is a function
from positions (sequences of sides) to nodes, `Same` or `Diff` with an element.
Its three recursive functions go down one branch, so each call is a step: `call`
is the function, `at` the position of its tree, `hand` the element it was given.
What a call does to the result of the inner one, it does on the way down: the
constructor around it is known before.  One thread: a push or pop begins when the
call in progress has returned.

| Action | Code |
|---|---|
| `Push(i)` | `push_worklist` for one id: the mark, then `add` |
| `AddHere`, `AddBelow` | `add` on `Empty`; on `Same` or `Diff` |
| `Pop`, `PopEmpty` | `pop_worklist`: `maximum`, the mark, `remove` (`RemoveTop`); its `EmptyHeap` handler |
| `ExtractHere`, `ExtractBelow` | `extract_last` on the last element, which goes to `descent`; on another node |
| `DescentHere`, `DescentSwap`, `DescentBelow` | `descent`: the element stays, changes places with an only child, or goes on |

It implements `PriorityQueue` (through `Contents`: the elements in the nodes and
the one on its way), which is what `LiquidSolver` assumes of its bag `wl` in
`IsTop`.  `Complete` is the comment of the functional heap (`utils/heap.ml:137`): full trees
except on the bottom level; it bounds the height of a heap of `n` elements by the
logarithm of `n`.

### ProverZ3

The three stacks (`sections` for `me.vars` between Barriers, `frames` for what
Z3's levels assert and under which names, `alive` for the constants built at
each level), the table `memo` (`me.vart`) and `count`.  The client follows the
callers: `implies p` opens, `valid q` asks, `implies_tp` wraps a goal in the
instances `pattern_match` found, `finish` closes; `sat`, `unsatisfiable` and
`model` are one push and one pop.  Whether Z3 refutes a set of predicates is
`Contradicts`, and it only counts when every level of the stack calls a path
by the same name (`Unsat`).

Assumptions: `NamesApart` (a bound path is never used free; binders are made
with reserved names) and `ContradictsMonotone`.  Function declarations go
through the same table and are left out.  A translation that raises is not
modelled; `TheoremProver.reset` only resets counters.

### SynthesisLoop

`TestLoop` is one entry of `testloop` with `query_pos_samples`; `Ask` the head
of `loop` (count, `query_neg_samples`, give up or merge); `SolveAgain` and
`NothingLearned` the rest of an iteration; `Back` the return with the reset of
`iter_count`.  The solver is `Verdict`, monotone because `LiquidSolver` proves
`ProvedStaysProved`.

`testcounter` is only compared with 0, so it is the Boolean `tested`.  `iter`
saturates at `IterCap`; only `>= 5` is ever asked of it.  The tested program is
deterministic: a test logs a fixed set of calls.  The `invariants` argument of
`query_pos_samples` only changes which tests are written and is left out, as
are the qualifiers added by `gen_inv`.

`Logged` models `modify`, which replaces the last line of the instrumented file.
The pretty-printer ends the file with `close_out outch` behind a break hint, so
if the margin has room the last statement of the program is on the same line
(flag `shared`) and is dropped together with it: from the second round on only
the tests log.  A last statement of several lines would leave half a statement
behind and the file would not compile; that is not modelled.

### Sampling

One run of the instrumented program and the reading of its log.  `stack` holds
the calls in progress, `log` the lines (`env` before an application, `name` when
a function of the program returns), each with the number of its call, which the
code does not write: the properties compare it.

| Action | Code |
|---|---|
| `Call(code)` | an application: `dump_app`, if the place is in `funcallenvs` and `callflag` is up |
| `Return` | the end of a function that writes no name line, or of any with `callflag` down, which may write its heap (`MayWriteHeap`) |
| `BeginLine`, `EndLine` | first and last piece of what `dump_fun` prints |
| `Probe`, `ProbeEnd` | `synthesize`: flag down, apply a function value, flag up |
| `Raise` | an exception, to the handler that catches it or to the top level |
| `EndRun` | the program ends by itself |
| `ReadEnv`, `ReadName`, `Starve`, `EndRead` | a line of the log in `read_dumpings`; `Starve` is `Stack.pop` on an empty stack |

Code is *defined* (a named function of the program: both lines), *anonymous*
(no name line, but what it applies is instrumented) or *library* (no lines of
its own and none for what it applies; applied by its name it has no env line,
applied through a variable it has one).  The history variables `orphan` and
`stale` tell the two ways in which lines fail to match: a name line without
env line (a defined function applied by library code), and an env line without
name line (an exception, or a return without a line).  `OwnEnvironment` is what
sampling promises when neither happens.  `LaterEnvironment`
bounds the damage of the second, which real programs cause
(`tests/mochi2/benchs/451_exc-simple.ml` and `436_fact_exn.ml` raise and catch):
lines left behind lie above those of the calls still in progress, so the reader
never runs dry, and a mismatched result gets the environment of a later call.

`line` is the set of calls whose text the unfinished line of the file holds, and
the history variable `mixed` collects, when a line ends, the calls other than
its own that wrote into it.  Everything `dump_app` and `dump_fun` print tests
`callflag`, with one exception.  Under `-reachability` (the variable of that
name, chosen at the start) `dump` writes for a parameter or result that is a
list `"<x>_heap:"` (`instrument.ml` 613 and 628) and a tab (622 and 639) without
a look at the flag, and `sample_<type>`, which it applies to the elements,
writes constructor records likewise (127).  So when a probe applies such a
function, that text lands between the pieces of the outer name line, where it is
read as part of the outer call's values.  `LinesWhole` says exactly this much:
without `-reachability` a line holds the text of its own call only; with it,
an env line still does, and a name line holds besides its own text only that of
calls made later; and a run leaves no line unfinished, however it ends.  What
the stray text does to the values learned from the line is not modelled.  It
holds no newline, so it changes nothing for the pairing.

Assumed: a probe only raises inside its `try` (evaluating the arguments it
prints does not), measures apply only measures (neither writes lines), the
channel is flushed when the program ends by an exception (OCaml's `at_exit`),
and nobody kills the process.

### SeparatorLearner

A sample is the set of atomic predicates (columns) that hold on it.  The search
is one action per prover query; the prover's models are chosen
nondeterministically among the solutions of its constraints.  The cover makes
the code's greedy choice.  `Bes.auto_optimize` keeps the meaning of a formula,
so it is a stutter; its inexact result for more than twelve nonessential
implicants, on which `interprete` asserts false, is not modelled.

### FormulaHandles

Each formula has a `kind`, its slots `sub` and its count `ref`; each custom
block points to a formula.  The collector (`Finalise`) may run whenever OCaml
code runs, and inside `Val_boolformula`, which allocates the block while it
holds a bare pointer (`wrap`).

| Action | Code |
|---|---|
| `Create`, `Add`, `Put`, `Get`, `Inspect`, `Survey` | the stubs `ocaml_create_*`, `ocaml_add_boolformula`, `ocaml_set_boolformula`, `ocaml_get_boolformula`, those that read one field, those that walk through the formula |
| `Copy`, `Make`, `Set`, `GiveBack`, `Copied` | `ocaml_copy` and `ocaml_to_cnf`, step by step |
| `Wrap(h)` | `Val_boolformula`: allocate, then count |
| `Go`, `Ask`, `IsEquivalent`, `Answer`, `Raise`, `Refuted`, `Learned`, `Conflict` | `ocaml_cdnf*` and `learn_core`, around the callback of an equivalence query |
| `Drop`, `Finalise` | OCaml forgets a block; `dealloc_boolformula` |
| `FreeSub`, `FreeDone` | the loop of `boolformula_free`, one slot at a time |
| `Abort` | bound of the model: no address is left, another run of the program starts |

`kept` is a history variable: the references nobody will give back.  Four places
make one: creation by a stub, the old child of `ocaml_set_boolformula`, a copy
returned to OCaml, and an exception that leaves through the learner.  These
leaks are in the code; `NoGarbage` says there are no others, and
`FreesOnlyFilled` that the first of them is what keeps a connective with unset
slots from being freed.  Assumed of the client: it reads only slots it has set,
and builds no formula out of itself (on which `boolformula_free` would recurse
without end).  Membership queries pass no formula and are left out.

### CdnfLearner

An assignment is the set of its true variables, a monomial a set of signed ones.
`Member` and `Counterexamples` are the teacher, the one of `oracle.ml` and of the
comment in `cdnflearn.ml`: over a target of `N` variables, it answers a query
about fewer by asking for a completion; which counterexample it gives is open.
A target without variables is left out (`N >= 1`).

| Action | Code |
|---|---|
| `Go` | `Cdnfp.go` to `goxxx`: count the session, register, copy the names, start |
| `Nested` | a callback runs another session: what it registers |
| `First(v)` | the answer to the conjecture "true" |
| `Ask(v)` | an answer to a conjecture: `get_indices_to_modify`, a new basis if none |
| `Walk` | the loop of `walk` up to its next successful flip |
| `Fix` | the walk has ended elsewhere: a new support for the basis |
| `Conflict` | the walk has reached the basis: `refine_bases`, restart, or NULL |
| `Equal` | the learner returns its conjecture |

`named` is the table of `Callback.register`, `info` what C holds of it, `own`
what the caller meant.

### MinisatOracle

One query, from `create_dvars` to the answer and the finalisation of the solver.
`Helper` is one call of the encoder's recursive helper.  Only the variables of
`create_dvars` are decision variables, those of the encoding are made with
`new_inferred_var`; so MiniSat, of which decisions, propagation, conflicts and
assumptions are kept, may stop with these undecided.  `OutputsDetermined` says
that propagation never leaves one, and each has the value its formula
has; `AnswersRight` is about what OCaml gets.

### ConfigureProbes

`platform` is a record of what the five programs are to find out, chosen at
the start; a signal sent to a process is pending until `Deliver`.  `Access` is
one memory access of `dblalign` and `int64align`, `Kill` one call of `kill` in
`signals`, and `async_io` is two processes (`Prepare`, `Fork`, `Wait`, `Again`,
`TellSignalled`; `Write`, `Exit`).  `align` (not among those `configure` runs)
tries three accesses (`Test`) and times two loops, each ended by an alarm whose
handler leaves it by `longjmp` (`SpeedTest`, `Alarm`, `AlarmHandler`).  Where a
signal is blocked while its handler runs and `longjmp` does not restore the mask,
as with glibc's `signal` and `setjmp`, the second alarm is never delivered and the
program does not end: `ProbesEnd` excepts exactly these platforms.  A misaligned access depends only on the
address, `longjmp` restores nothing the program reads afterwards.

### MC modules and broken variants

`MC<Module>` gives the constants of a run.  Operators commented `Broken:` are
variants of an operation with one plausible mistake; no specification uses
them.  Each is paired in PROJECT.json with a property that fails when the
variant takes the place of the operation, which shows what the property guards.

## 3. Runs

Properties are the invariants and temporal properties of the `.cfg` of the same
name.  `LoopInv`, `HeapInv`, `LearnerInv`, `OracleInv` and `ProbeInv` are
conjunctions of named parts, type invariant included.

| Run | Instance | Distinct states | What it shows |
|---|---|---|---|
| `LiquidSolver` | one recursive function: 9 constraints, 3 qualifiers, 4 WF constraints, a chain of 2 locals, a data-type variable, 2 assertions, 16 possible offers per round | 403 | the order of work does not matter; the answer is the strongest; marks and heap agree across rounds; every pass ends; the solver implements `StrongestAnswer` |
| `WorklistHeap` | 7 constraints, two pairs of equal rank | 36631 (6280 at rest) | the heap keeps shape, order, and content through every call, raises nothing but for an empty heap, and is a priority queue |
| `ProverZ3` | 8 predicates over 2 paths and a bound one, 4 constants | 10607 | scopes balance, no dangling or doubled constant, answers match questions |
| `SynthesisLoop` | main and one helper, 3 candidates, 2 bad points, 2 tests, all 8 settings of the flags, with and without initial logs, last statement on its own line or not | 22774 | report and solution together, refuted candidates gone, proof kept, bounded rounds |
| `SynthesisEnds` | the same with an assertion nothing proves | | violated, see below |
| `Sampling` | every run of at most 5 calls, with and without `-reachability` | 50601 | whole lines but for heaps written in probes, own environments, damage of exceptions bounded |
| `SeparatorLearner` | every table of up to 3 good and 3 bad samples over 3 predicates | 229422 | separates, complete, ends |
| `FormulaHandles` | 3 addresses, 3 blocks, at most 2 slots, counts to 3 | 260475 | no dangling pointer whenever the collector runs; only filled formulas are freed; no leak but the known ones |
| `FormulasReclaimed` | 3 addresses, 2 blocks, 1 slot | 61942 | what nobody needs is reclaimed, the conjectures shown to queries too |
| `CdnfLearner` | 7 functions of 3 variables, all four learners, every counterexample, one nested session | 101740 | learns the function of its own caller, each correction makes progress, the assertions hold, it ends |
| `MinisatOracle` | 30 formulas of up to 2 variables with every connective, empty ones too, all queries, all partial assignments | 21414 | propagation determines the encoding; answers are right |
| `ConfigureProbes` | every platform | 1092 | right verdicts in every order of events; the probes end |

**Why the bounds are enough.**  The instance of `LiquidSolver` has each kind of
constraint the code distinguishes: a base call, a constraint into a local, a
local with two sources, a chain of two locals (the case in which a violated
constraint is not itself pending), a recursive call inside its own component,
an assertion on a function's result and one on its parameter, a right-hand side
outside the unknowns, and a
WF constraint on a local.  Learned qualifiers that hold, that do not, and that
only hold together are among the offers.  Pop order is free among equal ranks.
Four constants are what the deepest scope of `ProverZ3` can use for
two free paths, with names to spare so that a stale name can differ.  Its names
are interchangeable, and the run uses that symmetry (it checks no liveness).
Five calls are enough for
`Sampling`: a name line with a probe whose function calls a function that raises,
inside a call that goes on and calls again, needs four; and
`SamplingProofs` has no bound.  Seven nodes give every shape of a heap of height three.  `SynthesisLoop`
keeps its rounds below `IterCap = 6`, one past the bound the code tests.
With three formulas and three blocks one formula can be in a slot, in a block and
in the hands of C code at once, one can be freed from inside the loop that frees
its parent, and a slot can be overwritten; two slots show one of a parent's slots
given back and the other not.  `MaxRef` only stops the client from adding a formula once
more.  The liveness run needs fairness for each block and so uses no
symmetry; with one slot it still frees chains of three.  `CdnfLearner` has three variables because
with two the incremental learners cannot be seen to depend on starting with
one: a learner that begins with two violates its invariants only from three on.
The functions are false, majority, all equal, an exclusive or of the first and
last variable, a choice, two models that lie apart, and the last variable.  For
`MinisatOracle` the encoding is per connective, so two variables and nesting of
depth two or three, with empty, single and double arguments under each of the
connectives, meet each of its cases.

**Deadlock** is checked in every run but `ConfigureProbes`, whose processes
really end: solvers and learners that have finished are idle or stutter
explicitly (`Done`, `Over`, `Gone`).

**Fairness.**  The program is one thread; a loop that has a next step takes it.
So `LiquidSolver` has weak fairness of `SolveStep` (not of `Further`: nothing
obliges the learner to offer another round), `SynthesisLoop` and
`SeparatorLearner` of `Next` (each call returns, in particular each prover
query and each run of the tested program).  `CdnfLearner` has it too, with the
bound on nested sessions as the assumption that a callback returns.
`FormulasReclaimed` assumes that C code runs to its end (weak fairness of
`CCode`), that building a formula takes finitely many steps (strong fairness of
`BuildEnds`: the code copies a finite formula, the model may make and give
back for ever), and that the collector comes round to each unreachable block
(strong fairness of `Finalise`, since it only runs when OCaml allocates); OCaml
code is under no obligation to drop anything.  `ConfigureProbes` assumes that the kernel runs both
processes and delivers pending signals.  `ProverZ3`, `Sampling` and `WorklistHeap` state
only safety, and need none.

**The disagreement found.**  The comments of `drive_new_test` and
`query_pos_samples` say that it is reported whether new tests are derivable and
that the loop ends when none is.  `drive_new_test` says yes on both its
branches, and the bound on `testcounter` is commented out, so with an assertion
that cannot be proved the synthesis never ends.  `SynthesisEnds` shows it under
the fairness above: every test that can be written is in the file and the loop
goes on.

## 4. Proofs

`LiquidSolverProofs`, `ProverZ3Proofs`, `SamplingProofs`,
`SeparatorLearnerProofs`, `SynthesisLoopProofs`, `FormulaHandlesProofs`,
`CdnfLearnerProofs` and `WorklistHeapProofs` prove all the safety properties their modules' runs check, from the named assumptions.
Each of their inductive invariants was first checked by TLC on the instance of
the run.

**Solver.**  `UnsatIsPending` is the heart: a violated constraint is pending,
or a chain of local types leads from a pending constraint to it.  It is stated
with closed sets (`ClosedUnderLocals`) and not with paths, so that no induction
over a chain is needed: `RefineCovers` shows that if a closed set avoids the
new marks, removing the popped constraint from it leaves a closed set that
avoided the old ones.  `ImpliedFrame` says that what a constraint's left-hand
side proves does not change when a table change cannot reach it, `ImpliedMonotone`
that a smaller table proves less; with them every fixpoint below the start stays
below the table, so an empty worklist leaves the greatest one.  `NothingPending`
closes the argument: with no marks, the whole set of constraints is closed, so
nothing is violated.  `SolverInv` adds that marks are empty outside
`solve_sub`, that the closure reads the current table once the worklist is made,
that the table stays well-formed, and that the first pass's answer is still a
fixpoint below the current table; none of the properties is inductive without
these.  Theorems: `TypeCorrect`, `MarksAgree`, `NothingMissed`, `Strongest`,
`ReportsAssertions`, `NoRegression`, `WorksDown`, and `ImplementsPromise`
(refinement of `StrongestAnswer`).

Why `solve_sub` ends is proved as far as safety goes.  `EveryStepCounts`: a
refinement drops a qualifier, or leaves the table, takes the popped constraint
away and pushes only what lies downstream of it through a local (`Lower`,
`Upstream`; that a constraint never comes back to itself is where `LocalsAcyclic`
enters, `NothingComesBack`).  `RefiningEnds`: that order is well-founded.  Among
tables take one that holds least; for the pending constraints, take a largest set
of constraints, closed upstream, whose pending part stays as it is from
some point on: a constraint next downstream of it can only leave, so it can
be added, so the set is everything (`TurnsEnd`).  No run states these two: the run
checks `PassEnds`, their consequence under fairness.

**SMT interface.**  `OneName` is not inductive: a pop could forget a path that an
outer level still uses.  `Older` says that a path was declared no later than any
assertion that uses it, `Homes` that an entry lives in the section at whose
level its constant was built, `Faithful` that Z3's stack is what the client
holds.  `PushStack` and `PopStack` prove the two primitives once, independent of
the client; each client step then is one of them.  Theorems: `ScopesBalance`,
`NoDanglingEntry`, `OneConstantPerPath`, `AnswersTheQuestion`.

**Sampling.**  `StackInv` says that at most one probe is on the stack, that the
flag is then down, and that a call in the middle of its line has nothing or a
probe above it.  `LineInv` adds that no probe is under a line in progress, so
that there is at most one; that it is below the running code while the flag is
down; and that the unfinished line holds text of its call or, under
`-reachability`, of later ones: what ends in a probe was called above the line's
call, and calls are numbered upwards.  `LinesWhole` follows when the line ends.  For the pairing, `PairInv` speaks of what
the reader *will* do: there is a course `T` of its stack over all the lines
not yet read in which no line starves it or pairs a result with an earlier call
(`Reads`), and while the program runs, the stack at the end of that course still
holds, for each call in progress that wrote an env line, an env line as late as
the call, different calls having different lines (`Matched`).  A name line
takes the top line, which may be the one another call counted on; that call then
counts on the line the returning call gives up, which is later still
(`MatchedEnd`).  If nothing was left behind, the stack is exactly the calls in
progress, and the top is the returning call's own.  The course is a function
over the unread lines, so that writing a line extends it at one end
(`ReadsMore`), reading one shortens it at the other (`ReadsLess`), and no
induction over the log is needed.  Theorems: `TypeCorrect`, `LinesAreWhole`,
`SamplesOwnEnvironment`, `SamplesLaterEnvironment`.

**Learner.**  `LearnerInv` says what the cover has so far: a term's columns
agree with its row, the bad samples excluded by them are those not left, and
rows done have a term.  `SeparatorsSeparate` and `AssertionsNeverFail` follow
for any number of predicates and samples.  Completeness is a second invariant,
`CompleteInv`, about the enumeration: while the prover is asked for `k` columns
no fewer separate the samples, and some number does (`NoneSmaller`), which is why
the first solution found is smallest and one is found; while solutions are collected all have that one size and
differ (`AllOfSize`); when the prover has no more, they are all there are
(`AllKnown`); and each of them is either still to be interpreted or has its
separator (`Accounted`).  Three facts about sets carry it: dropping columns in
which all samples agree loses no distinction (`SameColumns`, `SameSmallest`), a
table can be separated exactly when no good sample equals a bad one
(`SolvableIffNoTwins`), and a set that contains an already known solution and
has its size *is* that solution (`AllFound`), so blocking the known solutions by
inclusion blocks nothing else.  Theorems: `AnswerComplete`, `AllSmallestFound`,
`TwinsAlone`.

**Loop.**  `AnswersTogether`, `RefutesTheLatest`, `NoRelapse` and
`GivesUpOnlyBlind` need three more facts.  `CountInv` bounds the rounds at each
place of the loop, which `FewRounds` says only where it matters.  `NegInv` says
that a sample once shown against a function is still in `neg` as long as that
has an entry for the function, and that every function whose candidates just
failed has one: the merge goes by path, so a path that disappeared and came back
would have lost its samples.  `ProofInv` says that before the first round of tests
nothing was needed.  The assumptions on the solver are
monotony, as `NoRegression` proves it, and that what is reported before anything
was learned are assertions of the program (`OnlyAssertionsFail`).  Theorems:
`LoopCorrect`, `RefutedStaysRefuted`, `EndsProvedOrBlind`, `ProofNeverLost`.

**Handles.**  The invariant is an exact account, `CountInv`: the count of each
live formula is the number of its owners, that is the blocks that point to it,
the slots of formulas not yet freed (while a formula is being freed, those its
loop has not come to), the formulas C code has in hand and the references in `kept`; what is not
live has none.  That a formula dies exactly when its last owner goes follows,
and so does `NoDangling`.  `FilledInv` says that a
connective made by a stub, which may have unset slots, has a reference in `kept`
for ever.  `NoGarbage` also needs that formulas never form a cycle: every
nonempty set of them has a member no slot of the set leads to (`Acyclic`; sets
again, so no induction), and then whatever is not reachable from an owner
outside would contain a formula without owner.  The rest of the invariant is the
control of the stubs (`RootInv`, `PhaseInv`, `WrapInv`): what is on the stack of
formulas being freed, and what C code holds at each of its program points.  Each
stub changes the account by moving one token; the proof has one lemma per kind of move.
Theorems: `CountsAreExact`, `TypeCorrect`, `NothingDangles`, `FreedAreFilled`,
`NothingLeaks`.

**CDNF learner.**  `Sound` says of a basis what the queries made of it: its
disjunction is that of its supports, each support is a member, some completion of
the basis falsifies the target, and it is not its own support.  Three lemmas about
assignments carry it through an added variable (`ExtendedSound`): what begins an
assignment of a set begins one with the next variable false or true
(`BeginsMore`), with more variables it still does (`BeginsLess`), with all of them
it is in the set (`BeginsAll`).  The last gives `NoConflictAtTheEnd`: at `n = N` no
assignment is both a member and falsified, so there is no conflict and none of the
learners runs out of variables (`NoLearnerGivesUp`, which with `Ends` says that
NULL is never returned and nothing raised).  `BasesInv` holds the exception that
makes Plus3 right: it extends bases by false without asking, so no completion of a
basis may satisfy; only the very first basis may, with one variable, and that one
never gets a support (the walk reaches it) and is dropped.  `TurnInv` is about a
correction in progress: each basis still to be corrected rejects the
counterexample, and the walk has only moved toward the basis, so the
counterexample satisfies the monomial of the walk's end (`WalkSatisfies`); that
monomial can therefore not be there yet, which is `CorrectionsCount`.  That the
walk and the corrections use the least and the greatest of finite sets of numbers
is the only place that needs an induction: `Least` takes it from the library's
theorem that `<` is well-founded on the naturals.
Theorems: `LearnerCorrect`, `LearnsTheTarget`, `NoLearnerGivesUp`,
`CorrectionsCount`.

**Worklist.**  `HeapInv` is not inductive, since a call on its way down has
already changed the constructors it passed, but not yet the trees they speak of.
`WalkInv` counts what is on its way: `Due(p)` is what the tree at `p` will gain
by the call in progress (1 for an `add` that is headed into it, -1 for an
`extract_last`), and `Promised` says that each node's promise is right of the
sizes with that added.  `BelowAll` says that the element carried belongs below all
nodes passed; `PendIsHeap` and `HeapOrdered` hold in every state, with the node
whose element is gone (`Hole`) left out of the contents.  The actions then have
local effects: two lemmas carry `Promised` through a step of the call
(`DueBelow`, `TurnedSkeleton`), `SidesThere` and `LonelyLeft` read off the shape
what the code relies on: `extract_last` goes where there is an element
(`NeverRaises`), a lone left child has no children.  At rest nothing is due, and
balance gives completeness.  `LevelsFull` compares two trees, `q` smaller than `p`
by one at most: if `p` has a node deeper than `d`, level `d` of `q` is full, for
their sides again differ by one at most.  The induction is on `d`, by the least
depth at which the claim fails (`LeastDepth`, from the library's well-foundedness
of `<`); completeness is the case `p = q = Root`.
Theorems: `WalkHolds`, `HeapHolds`, `HeapIsPriorityQueue` (refinement of
`PriorityQueue`).

**Only model-checked.**  Liveness (`PassEnds`, `LoopComesBack`, `Ends`,
`Reclaimed`, `ProbesEnd`), which is beyond the prover, as is `ENABLED`.  All of
`MinisatOracle`: it is built on recursive operators over formulas, which the
prover does not handle.  All
of `ConfigureProbes`: it has no constants, so its run already is exhaustive and a
proof would say no more.  `LiquidSolver.TypeOK`,
`LiquidSolver.SolverInv` and `ProverZ3.ProverInv` are proved and not repeated in
the runs.

## 5. Plan

Done, in this order: solver with its abstract specification and proofs, SMT
interface with proofs, loop, learner with proofs, worklist, sampling with
proofs, formula handles, CDNF learner, SAT oracle, configuration probes; then
the proofs of the loop, of the learner's completeness, of the handles and of the
CDNF learner; then the worklist call by call with its proofs, and that
refinement is well-founded.

Next:

1. `Splitting`: the worklist of `split` on frames (arrows contravariant, type
   parameters by variance), checked against a reference definition of subtyping
   on bounded frames.
2. `Driver`: two processes, their exit codes, the retry with `-hoflag`.
3. A composition of `SynthesisLoop` with `LiquidSolver` in place of `Verdict`.

Not modelled inside the modelled parts: the names of literals, the memory
of bases and supports, MiniSat's `simplify`, `nvars` and `okay` (called by
nobody), and `stackov.c`, which nobody runs and which only has to compile.

Not planned: `bes.ml`, the backward analysis and predicate transformations are
sequential functions on unbounded syntax, better served by tests; the mining
learners are heuristics whose results reach the solver only as candidates, which
`Further` and `LearnFromSamples` already choose freely; front end and libraries are vendored.
