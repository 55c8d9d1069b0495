# Verification of MIP-DD

MIP-DD is a delta debugger for mixed-integer programming solvers.  Given an
instance (solver settings, problem, optional reference solution) on which a
solver shows a bug, it applies reductions to the instance as long as the solver
still shows a bug.  It is a sequential C++14 program; the solver is a library
called in-process.  This directory holds TLA+ models of it, the TLC runs that
check them and the TLAPS proofs about them.  Paths below are relative to
`src/src/` of the repository unless they say otherwise.

## 1. Inventory

| Component | State it keeps | Operations | What makes it correct |
|---|---|---|---|
| main, `BuggerParameters` (`bugger.cpp`) | parameters, list of nine modifiers | read parameters, normalise rounds and stages, call `apply` | the starts lie below the maxima, nothing negative reaches the loop |
| bugger loop (`bugger/data/BuggerRun.hpp`) | round, stage, success, status of every modifier, last result and effort, number of batches, the instance | original solve, write files, adapt batches, call modifiers, closing assertion, statistics | ends; ends at a fixpoint or at a limit; the files of the last round hold the final instance; bookkeeping fits |
| modifier base (`bugger/modifiers/BuggerModifier.hpp`) | enabled flag, last result and effort, counters | `run`, `call_solver` | reports the solve that confirmed what it hands back |
| nine modifiers (`bugger/modifiers/*.hpp`) | none between runs (the setting modifier: its target settings) | `execute`: count, batch, scan, solve, rebuild, hand back | hands back only what the solver confirmed; tries every reduction; bounded number of solves; the reference solution stays feasible |
| solver interface (`bugger/interfaces/SolverInterface.hpp`) | adjusted settings, model, reference solution | set up, solve, check dual bound, primal solution, objective, solution count | a bug is reported only for a real contradiction; pass codes are ignored |
| SCIP interfaces | SCIP data, limits, parameters | parse settings, set up, solve, restrict limits, effort, write | limits only become tighter, and only when the bug shows |
| SoPlex interfaces | SoPlex data, static `initial` flag | the same for LPs | the objective limit is shifted consistently |
| `SolverSettings` | six typed lists and the limits | get, set | positions of target and current settings agree |
| `Problem`, `ConstraintMatrix`, `SparseStorage`, `MatrixBuffer`, `ProblemBuilder` | rows, columns, flags, row-wise and column-wise storage | change coefficients and sides, feasibility check | both storages agree; sides and flags agree |
| `Num`, `StableSum` | tolerances | comparisons, rounding | tolerance classes are used consistently |
| `MpsParser`, `MpsWriter`, `SolParser`, `SolWriter` | none | read, write | reading what was written gives the same instance |
| `ParameterSet`, `OptionsParser` | parameter references | parse, range check | values stay in range; the last assignment counts |
| `SingleRow.hpp`, activities and locks in `Problem` | activities, locks | compute, update, propagate, remove redundant bounds | not modelled: nothing calls them, see section 7 |
| messages, timer, hashing, aliases | log level, clock | | not modelled: no logic of their own |
| fmt, pdqsort, ska | | | not modelled: vendored |

**Interaction.**  `main` creates the modifiers and calls `BuggerRun::apply`.  In
every round the loop writes the instance and calls `run` of the modifiers of
the current stages with references to its settings, problem and solution.  A
modifier works on a copy, calls the solver through `call_solver` after every
batch, and overwrites the caller's problem (or settings) when it succeeded.
The solver interface gets the settings by reference as well and may restrict
their limits during a solve.  The loop reads the modifier's last result and
effort after a success.

**What is hard here.**  There are no messages, and threads only within single
calls on the matrix, where tasks on the two storages run in parallel (with TBB).  The
difficulties are long sequences of legal steps (stages, rounds, the position of the last
success), copies that must agree with each other (the copy, the reductions
replayed on it, the limits in two settings objects), values that are read later
than they were computed (statuses of earlier rounds, the last effort), limits
that end the loop at an awkward moment, and integer arithmetic at its
boundaries.  `PROJECT.json` lists these hazards by line.  The repository has no
tests.

## 2. Modules

| Module | Models |
|---|---|
| `BuggerRun` | `BuggerRun::apply` with the parameters as `main` leaves them; a call of a modifier is one step with an open outcome |
| `BuggerRunProofs` | Theorems about `BuggerRun` for all constants |
| `BatchedReduction` | `BuggerModifier::run`, `call_solver` and the algorithm that all nine `execute` share |
| `Bugger` | Both together: the call of a modifier is replaced by its steps |
| `BuggerProofs` | Theorems for all constants, about a modifier: what it hands back, nothing left untried, bounded solver calls; about both together: the loop is implemented, the final instance is minimal and written, and what is reported is of the last bug |
| `Tolerances` | `Num`: comparisons and rounding with tolerances |
| `Problems` | Rows, columns, flags, changes of sides and coefficients, feasibility |
| `Reductions` | The eight modifiers that change the problem, with numbers |
| `ReductionsProofs` | Theorems about it for all problems, references, tolerances and numbers of batches: the copy stays consistent, visits do not interfere, a success hands back what was solved |
| `ExactProofs` | Theorems about it with exact numbers: a feasible reference stays feasible, a success hands back a lighter problem |
| `FoldLemmas` | Folds over finite sets and sequences of any operator: what they keep, where they split, what commutes |
| `SettingReduction` | `SettingModifier::execute` in full: six typed lists, batches across their ends, `reset` |
| `SolverChecks` | `SolverInterface`: return codes, `relax()`, the four checks |
| `ScipSolve` | `solve()` of the SCIP interfaces around these checks |
| `SolverLimits` | Which limits SCIP runs with, and what a bug leaves of them |
| `SoplexSession` | The same for SoPlex, with the objective limit that follows the reference |
| `Solver` | `SolverLimits`, `SoplexSession` and `ScipSolve` side by side |
| `SolverProofs` | Theorems about `SolverLimits` and about `Solver`: the limits, also those for SoPlex, and what the checks report, for all versions, files, requests, problems and answers |
| `ScipInstance` | A problem set up in SCIP, written, read back, real and exact |
| `Startup` | From the options to the loaded instance, with all fallbacks |
| `InputProofs` | Theorems about `Parameters` for all parameters and inputs, about `Startup` for all options and files, about `ScipInstance` for all problems and SCIP files, about `SolFile` for all solutions, and about `SettingReduction` for lists of any length |
| `Parameters` | Parameter file and command line |
| `MpsFile` | `MpsWriter` as an operator, `MpsParser` line by line |
| `SolFile` | `SolWriter` and `SolParser` |
| `AscendingLists` | The columns or rows that a loop picks, in order, for `SolFile` and `ScipInstance` |
| `SparseStorage` | One storage as a record, and its operations |
| `StorageSession` | A storage in use; `shiftRows` step by step |
| `MatrixBuffer` | Entries of a new matrix in two search trees |
| `ConstraintMatrix` | Both storages, sizes, sides and flags, with parallel tasks |
| `MCFiles` | `MpsFile`, `SolFile`, `ScipInstance`, `Parameters` and `Startup` side by side |
| `MCMatrixData` | `ConstraintMatrix`, `StorageSession` and `MatrixBuffer` side by side |
| other `MC...` | Constants of the TLC runs |

### BuggerRun

The state is that of `apply`: the parameters (two of which the loop changes),
`round`, `stage`, `success`, `modifier`, `results` and the `last_*` variables,
under the names of the source.  `phase` is the place in the function.

| Action | Source (`bugger/data/BuggerRun.hpp`) |
|---|---|
| `Init` | parameters after `bugger.cpp:186-200`, loop header line 166 |
| `SkipOriginal`, `SolveOriginal` | mode 1; otherwise the original solve and the initial expenditure (127-145) |
| `WriteInstance` | one head of the loop: write the files, break or adapt the batches (166-190) |
| `LeaveLoop` | the loop condition fails (166) |
| `Succeed`, `FailModifier` | a call of a modifier and what the loop does with its status (190-210) |
| `EndRound` | end of the inner loop, increment of `round` |
| `Expire` | the clock passes the time limit at any moment |

The instance is abstracted to `size`, the number of reductions that are still
possible (a measure which every success decreases), and `limit`, one automatic
solver limit.  `tried` is a history variable: the modifiers that were run
without success since the instance last changed.  The overflow of
`nbatches * last_effort` (line 139) is undefined behaviour: the model allows the
wrapped product, which is left when the compiler folds the test away, and the value 0,
to which the test leads when it is kept.  The signed widths are constants (`IntMax`, `LLMax`).  Corner cases are
initial states of the runs: an expenditure of -1, given or none, no modifier enabled, `maxstages = 0`,
`maxrounds = 0`, a start at or above its maximum.

### BatchedReduction

All nine `execute` functions are instances of one algorithm; it is modelled
once.  An instance is the set of elementary reductions applied to the input,
`Layout[m]` is the sequence of reductions modifier `m` visits (rows or columns,
upwards or downwards, or the six lists of settings one after the other),
`Opens` and `Bars` say which reductions of other modifiers make one possible
(fixing a column needs equal bounds) or impossible (a removed row has no sides),
`Refuses` is the gate on the status of the reference solution.

| Action | Source |
|---|---|
| `Skip` | disabled (`BuggerModifier.hpp:118-121`), gate or nothing to count (`ConstraintModifier.hpp:58-70`) |
| `Begin` | batch size, copy, reserve (`ConstraintModifier.hpp:61-80`) |
| `Scan` | one iteration up to the solve (`80-90`) |
| `Reject` | the solve returns OKAY: rebuild the copy (`92-100`; limits as in `SettingModifier::reset`) |
| `Accept` | any other answer: `call_solver` records it, the batch is kept (`BuggerModifier.hpp:201-238`, `ConstraintModifier.hpp:101-103`) |
| `Finish` | status and hand back (`107-113`) |
| `Adapt` | environment: the loop changes the number of batches between runs |

The solver is external and answers as it likes: OKAY, a bug, an internal error
or a status `call_solver` does not know, any effort, any tighter limit after a
bug.  `trial` is the limit in the settings object the solver works on; for all
modifiers but the setting modifier that is the loop's own object, so `limit`
follows at once.  `Statuses` are the statuses the reference solution may have.
`copy` and `trial` are compared with what was really solved
through the history variables `confirmed`, `tightest` and `rejected`.

`ASSUME LayoutAssumption` states that two reductions of the same modifier do
not make each other possible or impossible.  In the source that holds because
every row (column, setting) is tested on its own: a removed row leaves the other
rows alone, and so on for the other eight.

Reductions never undo each other in this model.  In the code, rounding may widen
domains; `Reductions` below shows that this cannot go on for ever.

### Reductions

What `BatchedReduction` takes for granted about reductions is checked here on
concrete rows and columns.  A visit of a row or column yields *edits*, the lists
`batches_...` and `applied_...` of the code gathered in one record: `Edits` for
each modifier, next to its `Is...Admissible`.  `Scan` puts the edits on the copy
at once, except for changed coefficients, which wait for the solve
(`apply_changes`); `Reject` makes the copy from the problem and the accepted
edits with `Replay`, list by list in the order of the code.  `Accept`, `Finish`,
`Start` and `Skip` are as before.  The loop calls the modifiers in any order,
which includes the order of the stages.  The solver answers as it likes.

Numbers are integers that count units of `1/One`; the coefficients, bounds and
values of the instances are multiples of a step whose square is whole, so that
products are exact (part of `TypeOK`).  The overflow of the batch size is left to
`BatchedReduction`.

### SettingReduction

`Visit` is one turn of one of the six loops up to its call of the solver,
`RejectBatch` and `AcceptBatch` are the rest of the turn, `PassEmpty` is a loop
over an empty list, `Finish` the end.  The position is a list and an index in it,
so that the condition for the last flush (`LastEntry`: the last entry, and all
later lists empty) is the one of the six loops.  `reset()` rebuilds the copy from
the settings and the accepted entries, but keeps the limits of the copy.

### SolverChecks and ScipSolve

`SolverChecks` translates `relax()`, `check_dual_bound`, `check_primal_solution`,
`check_objective_value` and `check_count_number` as operators on whole numbers.
`ScipSolve` is `solve()`: `DoSetUp` (the objective and the cutoff), `Solve` (any
answer of SCIP: bounds, solutions, a ray, a count, an error), then
`CheckDual`, `CheckPrimal`, `CheckObjective`, `CheckCount`, `CheckCertificate` in
the order of the code, each of which the pass codes may skip, and
`ApplyPasscodes`.  What is true of the instance is decided by enumeration of its
points and rays.  A true ray improves the objective by more than the tolerance, since
the check takes any other for none (`SolverInterface.hpp:331`).  In counting mode the objective limit is still set when
`cutoffrelax` is not negative, which cuts off solutions; such calls are not
counted as truthful answers.

### SolverLimits and SoplexSession

`CreateSolver`, `ParseSettings`, `DoSetUp`, `Solve` and `FreeSolver` are the
factory and the interface around one solve; the state that survives a solver
object is the settings, the names of the limits in use and the flag `initial`.
The solver object is a stage and a value for every parameter.  A conversion of a
real number that does not fit into an integer is undefined and gives one of two
values.  `SoplexSession` follows the settings and the target settings through any
sequence of set ups, solves and reductions of the problem (`Reduce` changes the
reference objective) and of the settings.

### ScipInstance, MpsFile, SolFile

`ScipInstance` has `DoSetUp`, `WriteInstance` and `ReadScipInstance`; a number of the
exact interface is a rational with a flag for infinity.  A row of a file holds a
variable or its negation, not both.  What problems and files are (`IsProblem`,
`IsModel`): names identify columns, removed columns have no entries, equations are
marked, infinite bounds of the exact interface have the sign of their infinity (section
4 says where the parser leaves them without), and moving negated variables leaves
finite sides finite.  In `MpsFile` the writer is an operator and the parser
a state machine with an action per section (`ParseRows`, `ParseCols`, `ParseRhs`,
`ParseRanges`, `ParseBounds`, ...) that reads a line per step.  The parser turns a
free row with a right-hand side into an inequality, and the writer does not keep
implied integrality; both are as in the code.  Rows with a left side above the
right one are not written (`ProblemsAssumption`).  `SolFile` ends its files with a
newline, as the writer does; `ModelsAssumption` and `IsSolution` say what its names and
files are.  The text form of numbers is left out of all three.

### Startup and Parameters

`Startup` has one action per part of `checkFiles`, `main` and `apply` up to the
first set up; `reference` is the status of the reference solution.  A file is the set
of its readers: the solver, the general parser, both or none.  `Parameters` reads one assignment per step; what a text converts
to is a constant of the run.  Options with one dash, and an equality sign as
first character, are left out.

### SparseStorage, StorageSession, MatrixBuffer, ConstraintMatrix

A storage is a record of ranges and cells, with every operation of
`SparseStorage.hpp` as an operator.  `StorageSession` calls them one after the
other; `shiftRows` is a state machine since its search for space on both sides
of a row is where it can go wrong.  `MatrixBuffer` has an action per turn of the
loops of `addEntry`, `splay` and the traversals; the priorities are a constant.
`ConstraintMatrix` runs the tasks of `changeCoefficients`, `deleteRowsAndCols` and
`compress` interleaved, one row or column per step, each phase after the one
before.  The bugger calls `changeCoefficients` only, whose tasks change the rows and
the columns.  `deleteRowsAndCols`, `compress`, `shiftRows` and the merge of
`changeRow` are inherited from PaPILO and reached by no run of the program.  Callers of `deleteRowsAndCols` set the flags of deleted rows before
and delete nothing twice.

### Bugger

`Loop == INSTANCE BuggerRun` maps `size` to the reductions not applied and
`limit` to the limit when the loop last had control.  The loop's own steps are
those of `BuggerRun`; a call is `Call` (the modifier begins, or returns at
once), `Reduce` (its steps) and `HandBack` (it returns, and the loop books the
status with `Bookkeep` and `TakeReport` of `BuggerRun`).  That the modifiers
shrink the instance when they report success, leave it alone otherwise, and
never change the loop's limits except through a success is not built in: it is
what `ImplementsBuggerRun` checks.

`heard` is a history of what the solver told of the bugs it showed: the codes that may
be reported of the last one, and the last effort known of one.  A run clears
its result when it starts, and a status that `call_solver` does not know leaves what
was there (`Hear`).

## 3. Runs

Runs of programs or calls that end set `CHECK_DEADLOCK FALSE`, unless their module
has a step for the end; the others check for deadlock.

| Run | Properties | Shows |
|---|---|---|
| `loop` | `FixpointAtExhaustion`, `LastWrittenIsFinal`, `RoundsBounded`, `BatchBudget` | the loop over all combinations of limits and expenditures |
| `batches` | `AdoptedIsConfirmed`, `LimitIsTightest`, `SolveBound`, `RemainingRejected` | one modifier after the other on the same instance |
| `system` | `FinalIsMinimal`, `DiskHoldsBug`, `ReportIsOfLastBug`, `ImplementsBuggerRun`, `ProgramEnds` | the whole program |
| `reductions` | `ReferenceRemainsTrue`, `ProblemsConsistent`, `Bystanders`, `AdoptedIsConfirmed`, `EverySuccessShrinks` | the modifiers on numbers |
| `settings` | `KeptShowBug`, `EverythingTried`, `Terminates` | the six lists, batches across their ends, any answers |
| `solver` | `OneNamePerLimit`, `LimitsWork`, `LimitsOnlyTighten` (`SolverLimits`); `ObjectiveLimitsFollow` (`SoplexSession`); `NoFalseAlarm`, `PasscodesSilenceTheirOwn`, `ErrorsReported` (`ScipSolve`) | solver objects one after the other and the limits they leave; what a solve reports, against what is true |
| `files` | `ProblemRead` (`MpsFile`), `SolutionRead` (`SolFile`), `ProblemLoaded` (`ScipInstance`), `LastLegalCounts` (`Parameters`), `ReferenceMatchesStatus`, `IndicesAgree` (`Startup`), `FilesEnd` (the two parsers) | what was written is read back, and files of others; all options, files and readers at the start |
| `matrix_data` | `MatrixKept` (`ConstraintMatrix`), `StorageKept` (`StorageSession`), `EntriesFound` (`MatrixBuffer`) | every two operations, the tasks of the matrix in every order, every order of up to four entries |
| `end_assertion` | `EndAssertion` (violated) | see Findings |
| `overflowed_budget` | `OriginalIsUsed` (violated) | see Findings |
| `fixed_entries` | `NoFixedEntries` (violated) | see Findings |
| `integral_gap` | `FeasibilityStatusKept` (violated) | see Findings |

`solver`, `files` and `matrix_data` check several modules at once that never
interact: the variable `component` says which of them a behaviour belongs to, and
the variables of the others rest.  Each of their properties is about one component
and is the conjunction of what its module states, type invariant included:

| Property | Conjuncts |
|---|---|
| `LimitsWork` | `TypeOK`, `LimitSettingsKnown`, `Repeatable`, `SetUpSucceeds`, `SetUpIsComplete` |
| `ObjectiveLimitsFollow` | `TypeOK`, `LimitSettingsKnown`, `LimitFollowsReference`, `ObjectiveLimitsSided` |
| `ErrorsReported` | `UnjustifiedBoundReported`, `GrossErrorsReported`, `ErrorsStayApart`, `DualLimitIsABug` |
| `ProblemRead` | `TypeOK`, `RoundTrip`, `EquationsAreEqual`, `ColumnsSorted` |
| `SolutionRead` | `SolTypeOK`, `SolutionKept` |
| `ProblemLoaded` | `PositionsValid`, `LoadsProblem`, `NegationKeepsRows`, `SurvivesDisk` |
| `MatrixKept` | `TypeOK`, `Represents`, `SizesAgree`, `SizesCount`, `SidesFollow` |
| `StorageKept` | `TypeOK`, `Represents`, `StorageWellFormed`, `TightStaysTight`, `SpaceMade`, `MovesWithinLimit` |
| `EntriesFound` | `TypeOK`, `AllFound`, `NullNodeClean`, `TraversalSorted`, `StoragesTransposed` |

`ProblemsConsistent` of `Reductions` is `TypeOK`, `EntriesStored` and `EquationFlag`.

**Bounds.**  `loop` has three modifiers, instances of size at most two, round
limits -1, 0, 2 and stage limits -1, 0, 2, 4 (negative, zero, exact, too
large): stages advance twice, both orders of success within a stage occur, and
the round limit can fall before, at and after the exhaustion.  The user asks for an
expenditure of 5 or for the original one (-1), with two or five batches, and a solve
takes an effort of -1 (none), 0, 2 or 4: with `LLMax = 7` a product of 4 fits,
8 and 10 wrap to negative numbers and 20 to a positive one.  `batches` has three
rows, so that a batch size of two leaves an incomplete last batch, a column
whose fixing another modifier must open, two settings, an empty layout, and
`nbatches = LLMax = 7`, so that the batch size overflows.  `system` has three
modifiers and five reductions: a success of a later modifier makes reductions of
an earlier one possible, or the other way round; the reference is feasible or
unbounded, and a solve tells an effort of 1 or none.  `reductions` has two rows and two columns in four
instances, one for each status of the reference: fractional and integral
columns, rows that share a column (two substitutions in one batch change the
same sides), a row that rounding turns into an equation, a coefficient that
rounds to zero, a closed column that rounding reopens, infinite and fractional
sides on both ends, batches of one and of everything; zeta and epsilon are zero,
zeta by default, epsilon (1e-9 by default) because the data are far coarser.
Larger numbers repeat these
cases: no action looks at more than one position of the scan, one modifier and
one comparison of counters at a time.  The proofs below do not depend on them.

`settings` has every shape of the six lists with up to four entries, so the last
entry may be in any list with any of the others empty, and batches of one to
four entries reach over one to five ends.  `solver` has tolerances of one and
two in 16, numbers of eighths and an objective of a size at which one is below the relative
tolerance; it has old and new names of the dual limit, a version without
one of the limits, limits at zero and one, and integer types small enough to be
exceeded.  `matrix_data` has matrices of three entries, two of them in opposite corners,
storages of up to six, rows that grow, shrink, empty and vanish, storages
as they are built and after a full compression, and two operations since the second works on what
the first left behind (`MaxOps`).  The buffer needs four entries for a
double rotation under a root.  The files of `files` have
each kind of line and each kind of mistake once.  Its starts have every option, at most
one file that is missing, and files that the solver, the general parser, both or
neither can read.

**Fairness.**  `Spec` and `System` assume weak fairness of the program's own
steps, since sequential code always takes its next step; this includes that a
solve returns, which the solver's limits are there for.  The clock has no
fairness: the time limit may never be reached.  The same holds within single
calls (`Terminates`, `FilesEnd`): they are loops of one thread.

**What the properties say.**  `FixpointAtExhaustion` and, in the composition,
`FinalIsMinimal` are the promise to the user: when the stages are exhausted,
every reduction still possible was in a batch that was tried on top of exactly
the final instance and its final limits and did not show the bug.  The bound on
a batch is that of the run that tried it (`RemainingRejected`).
`LastWrittenIsFinal` and `DiskHoldsBug` are about the files: whatever ends the
loop, they hold the final instance, which is the last one that showed the bug.
`ReportIsOfLastBug` is about what the loop goes on with after a success: the code is that
of the solve that showed the last bug (where that solve had a status nobody
knows, of the bug before it or that of the start of a run), and the effort, which the
next number of batches is computed from, is the last
one known of a bug, not one of a rejected batch or of a run that failed.
`BatchBudget` says what the expenditure stands for, given or computed, and that the
number of batches is the least that reaches it; where the product is no long long it
says only what the undefined overflow leaves of it, and `OriginalIsUsed`, which the run
`overflowed_budget` violates, is the promise of the parameter.
`LimitIsTightest` is about the limits in two settings objects; `LimitsOnlyTighten`, `LimitsWork` and
`ObjectiveLimitsFollow` are about where these limits come from: a solve never
loosens one, one left by a bug lets the same solve happen again, and an objective
limit keeps its distance from the reference whatever is reduced.  `NoFalseAlarm`
is what a user relies on when a bug is reported: the solver was wrong.
`ErrorsReported` is the converse.  `ProblemRead`, `ProblemLoaded` and
`SolutionRead` carry `DiskHoldsBug` on to what the files are read back as.
`SolveBound` is
the sentence of the repository's README that the solver is invoked at most as
many times as specified.

`ReferenceRemainsTrue` is the other promise of the repository's README, that the
feasibility of the reference solution is preserved: through substitutions whose
sides are rounded because the rest of the row is integral, and through roundings
of coefficients, sides and bounds.  For an infeasible reference it enumerates the
integral points, for an unbounded one it follows a point and a ray.
`EverySuccessShrinks` is what `BuggerRun` abstracts to `size` and its termination
rests on: no count of open or fractional parts decreases with every success
(substitutions make sides fractional, rounding reopens domains), but six of
them compared lexicographically do.  `Bystanders` supports `LayoutAssumption` of
`BatchedReduction`.  `EntriesStored` is the precondition of `changeRowInplace`,
which runs past the row when it does not hold.

**Mutants.**  Every property of a passing run is violated by a small change of the code it is
about; the changed definitions stand before the definitions they replace (for
instance `EndsStage_Last`, `Rebuilt_Kept`, `BatchSize_Floored`).

## 4. Findings

* `bugger/data/BuggerRun.hpp:213` asserts
  `is_time_exceeded(timer) || evaluateResults( ) != ModifierStatus::kSuccessful`.
  Line 181 also leaves the loop when `round >= parameters.maxrounds`.  When
  the last round before that had a success, its status is still in `results`, and
  the assertion fails.  `NoSuccessAtExhaustion`, which is proved, is the part of
  the assertion that holds, `EndAssertion` the one that does not.

* `bugger/data/BuggerRun.hpp:139` computes `parameters.nbatches * last_effort` as a signed
  product and tests afterwards, by a division, whether it fits.  Overflow is undefined,
  so that an optimizing compiler may take the test for false, and `Release` is the
  default build type (`CMakeLists.txt:38` of the repository).  The expenditure is then what
  is left of the product: if negative, batches are kept, if positive, they are adapted to
  a number that has nothing to do with the original solve, while the parameter is
  described as "-1: use original" and line 141 would say "Batch adaption disabled."
  Run `overflowed_budget`; `BatchBudget` says what holds nevertheless.

* `bugger/modifiers/FixingModifier.hpp:121` removes only coefficients above zeta
  from the rows of a column that it marks as fixed.  The solver interface asserts
  (`bugger/interfaces/ScipRealInterface.hpp:126`) that no coefficient of a row
  belongs to a fixed column; the parameter `numerics.zeta` may be as large as
  0.1.  Run `fixed_entries`.
* The CHANGELOG (line 24) says that trivially infeasible bounds and sides are not
  fixed "to keep feasibility status".  Only `lb > ub` is excluded
  (`bugger/modifiers/VariableModifier.hpp:53`): an integral column in [0.3, 0.7] is
  fixed to 1, the value rounded up after it was rounded down, and the infeasible
  problem becomes feasible.  Integral rows with fractional sides behave the same
  way.  Run `integral_gap`.

### Observations

The following were met while modelling.  No run is kept for them: the models show
the code's behaviour, and the inputs of the runs stay clear of it where a property
would not hold.

* `bugger/interfaces/ScipInterface.hpp:165` caps SCIP's time limit 1e20 at
  `SCIP_Real(LLONG_MAX)`, which is 2^63 and does not fit; on x86 the limit becomes
  `LLONG_MIN`, which SCIP refuses, and the program aborts.  The parameter that turns
  this on is described as "restrict time automatically" (line 385).  The model has such
  limits (`Solver.cfg`: 9, with a largest integer of 6) and reaches the state `aborted`;
  `SetUpSucceeds` says that this happens with them, whenever the conversion made them
  negative, and with nothing else.  Where it gives `LLONG_MAX`, the limit is accepted.
* `bugger/interfaces/SoplexInterface.hpp:149` chooses the side of the objective
  limits while the settings are parsed, before the problem is read; line 431 says
  that happens "where sense is revealed".  `ObjectiveLimitsSided` therefore speaks
  of a known sense.  The limits of the target settings are not shifted by the
  reference objective, as those of the settings are (`SoplexRealInterface.hpp:134`),
  so a limit that is reset to its target is shifted twice; `LimitFollowsReference`
  leaves such limits out.  Two settings files with different senses have lists of
  different lengths, against the assertion at `SettingModifier.hpp:77`.
* `bugger/interfaces/ScipRationalInterface.hpp:64` sets an infinite rational from a
  number the MPS parser left at zero, so that minus infinity is not negative; the
  problems of the run have signed numbers under their flags.  A free row reaches the
  assertion at `ScipRealInterface.hpp:112`.
* `bugger/data/BuggerRun.hpp:109` runs the solution parser on the solution option
  even if it is empty or a word, so that a run without a reference ends when the
  solver cannot read the problem.
* `bugger.cpp:128` drops a letter of a parameter's name that is followed by `=`
  without a blank.  `parameters.txt:68` lists the empty default of `debug_filename`
  as `""`, which is stored as two quotes.
* `MpsWriter.hpp:239` writes bounds of columns without entries, which
  `MpsParser.hpp:771` asserts to know.  A single column is not sorted
  (`MpsParser.hpp:490`), against `SparseStorage.hpp:423`.  A problem without columns
  breaks the assertion at `SparseStorage.hpp:490`.  The problems of the run list
  both their columns.
* `SolParser.hpp:113` takes a first column whose name occurs again in its line for
  the header.  `NameOnce` excludes such names, in the run and in the theorem about it.
* `MatrixBuffer.hpp:198` may break the order of priorities that its comment claims;
  only the balance of the trees is lost.
* The dual limit of `ScipRealInterface.hpp:148` is the reference value relaxed by twice
  the tolerance, so that a solve that it cuts off fails the dual check.  `relax()`
  (`SolverInterface.hpp:182`) moves a large number by 1 minus the tolerance, so that
  for a large value twice the tolerance moves it less: a solve that is cut off
  there is not reported.  `DualLimitIsABug` is about values below that size.
* An unknown solver status is accepted as a bug without a report, so that the
  program may end with a statistics line about an earlier solve; `nbatches` near
  `LLONG_MAX` overflows in the batch size and ends in an uncaught
  `std::length_error` (state `thrown`).
* With `zeta > 0` a rebuilt copy may differ from the one that was solved: a row with
  sides 0 and 0.15 in which two columns fixed at -0.2 and -0.3 are substituted in
  one batch, zeta = 0.1, is solved with sides 0.35 and 0.65, since the left side
  snaps to the right side of that moment; after a later rejected batch the left
  side is replayed against the original right side and is 0.45, and that problem is
  handed back without a solve.  This is why `SuccessIsConfirmed` (section 5) has the
  hypothesis that zeta is 0 or the fixing modifier is not in use.

## 5. Proofs

`BuggerRunProofs` shows, for every number of modifiers, every size of the input
and all parameters, that `IInv` is inductive, and derives from it the type
correctness, all safety properties of `loop`, three more (`RoundsShrink`,
`NoSuccessAtExhaustion`, `StatsConsistent`, the assertions of the source) and the
action property `BatchBudget`, for every effort and all parameters.  The argument: `success` splits the modifiers of the stage
into those that ran after it in an earlier round and those that run before it in
this one.  `FixpointAtExhaustion` alone is not inductive, because it says
nothing before the end; `TriedInv` says which half of the stage is known to be
tried, depending on whether the loop has passed `success` in this round.
`WrittenInv` relates the instance to the one last written in the same two cases,
`RoundsInv` charges every round to a reduction, and `StatsInv` the bookkeeping of
the last success to the loop variables.  `BudgetInv` says that batches,
expenditure and effort stay within their types, also after the product of line 139 wrapped.

`BuggerProofs` first shows of `BatchedReduction`, for every layout, number of batches and answer
of the solver, type correctness (the scan stays inside the layout, no batch size
in use is negative), `AdoptedIsConfirmed` and `LimitIsTightest`.  The
invariant: during a run the copy is the instance with the accepted reductions
and the pending batch (`CopyInv`), and the last bug was shown by the same
without the batch; `LimitInv` is the same statement for the limits, with a case
for the setting modifier; `PendingInv` says where a batch may be pending.

Its second part adds `RemainingRejected` and `SolveBound`.  Both need to know
where the scan stands: whatever it has passed is applied, pending, rejected or
was never possible, and the solves so far times the batch size do not exceed the
reductions passed; at the end the count made at the beginning bounds them.

It then puts the two together, for all layouts, gates, effects, counts of
batches and parameters: the loop with the real runs of its modifiers implements
`BuggerRun`, the final instance is minimal, the files hold it, and what is reported is of
the last bug (`HeardInv`: once a run accepted a batch, what its modifier keeps is of the
last bug, with the loop's effort as long as no bug of the run told one; until then what
the loop keeps is).  The invariant
`SystemInv` (stated in `Bugger`) has four of the parts of `IInv` of `BuggerRun`,
read in the variables of the composition, those of `BatchedReduction`, and
what relates them: `CallInv` (a run is a call of the loop's current modifier),
`EffortInv` (what the loop reads of the solver's efforts), `BeforeInv` (the limits
a run starts from bound those it leaves, and only an accepted batch makes a
difference), `NewInv` and `RefutedInv`.  `BeforeInv` is what the step refinement
needs: the status a run ends with is what the loop takes for its outcome, so a run
that reports a failure must leave the limits as the files have them.  `RefutedInv`
carries `RemainingRejected` of one run over the rest of the round, as long as
nothing succeeds.  `LoopParameters` shows that the assumptions of `BuggerRun`
follow from those of `Bugger`.  This prover cannot cite a theorem through an
instance with a substitution, so that the four parts carried over are proved again
here, by the same cases.

`InputProofs` extends `Parameters`, `Startup`, `ScipInstance`, `SolFile` and
`SettingReduction`, whose variables have different names, and treats one after the other.  Of the parameters it shows
`LastLegalCounts` and that they stay in their ranges (`ParametersInRange`), for any
parameters, files and command lines.  The invariant says that what is left to read is
the end of one of the inputs (`EndOf`), and that the parameters have the values of the
last legal assignments in what was read (`MeantUpto`); one more line changes one of
them, or none (`MeantNext`).  Of the setting modifier it shows for six lists of any
length that what is handed back showed the bug, that nothing is left untried, and that
the copy is exact.  `EverythingTried` alone says nothing before the end; `TriedInv` adds that whatever
the cursor has passed was tried or is pending, and that a pending batch has a
nonempty list ahead of it.  That second part is what the flush at the last entry
preserves: it fails if the condition forgets one of the lists.  `SetToTwice` is
the lemma about the data: setting entries twice is setting their union.

About `ScipInstance` it shows `ProblemLoaded`, for any number of columns and rows, any
files and both interfaces.  The invariant (`ScipInv`) says at every stage what the
next step needs: a problem that can be loaded says what the first one said; SCIP has
what `doSetUp` makes of it; a file read now would say the same, and what was read last
is in the file.  What comes back from SCIP is in other positions, so that problems are
compared by their facts (`Facts`): the columns and rows that are left are numbered in
their order (`AscendingHasAll`, by the ranks of numbers in a set), the variable of a
column and the constraint of a row say the same as they do (`VarOfColumn`,
`ConsOfRow`), values are found by name (`ValueTranslated`), and together problem and
file do (`FactsSurvive`).  `NegationHolds` is the arithmetic of negated variables: the
activity of the constraint is that of the row and what was moved to the sides.

About `SolFile` it shows `SolutionRead`.  What a file stands for is said without the
parser: a column has the value in the last line that begins with its name, and zero
without one (`ValueFor`).  `SolInv` says that of the lines before the next one, and that
none of those skipped starts with a column; a line changes one value or none
(`OwnLine`, `OtherLine`).  That the header ends no later than the first line of a column
(`IsSolution`) is what `skip_header` relies on.  Of files that the writer wrote it is
proved (`WrittenIsSolution`): the name a line begins with does not occur in it again
(`NameOnce`), so that the line starts with that column (`OwnLineStarts`), whatever names
lie within other names.  Without `NameOnce` the theorem is false (section 4).

About the start up `InputProofs` shows `ReferenceMatchesStatus`, `IndicesAgree`, type
correctness, `SettingNeedsBoth` and `ReferenceIsTried`.  `SettingInv` follows what
enables the setting modifier through four steps, `ReferenceInv` the solution through
the two readers; `WordsUnread` is where the assumption is needed that no file is
called like a word.

`SolverProofs` first shows of `SolverLimits` that no solve loosens a limit and that the limits in
the settings are limits in use.  `OrderInv` is the reason why the choice of the
first solver object is never made again after settings were read, `ChosenInv` why
no two names stand for one limit (`FirstNameMeans`), and `RestrictedTightens` is
the arithmetic of a restricted limit for every usage and limit space.  `UseInv` adds
what holds between the steps of a solver object: what it was given (`ObjectInv`),
that SCIP accepts it unless it is a time limit that overflowed (`AcceptInv`), and that what the last bug left covers what its
solve used (`RepeatInv`).  The assumption `IntMax <= Forever` says that the time
limit of no limit, 1e20, is beyond every integer.

It then carries this over to the composition `Solver` and shows
`ObjectiveLimitsFollow` there, so that the definitions of `SoplexSession` have the
prefix `Soplex!`.  `LimitFollowsReference` compares settings with the file they came
from, several objects and reductions ago; `DistanceInv` says at every stage which
reference the objective limit is relative to, `SenseInv` which sense the limits were
named by, and `KindsInv` what the limits in use stand for.  An infinite distance
stays infinite.  `FilesAssumption` says that SoPlex does not read a file with a
value that it would refuse from the interface.

Its last part shows `NoFalseAlarm`, `PasscodesSilenceTheirOwn` and
`ErrorsReported`, for any finite set of columns and any number of rows.  The
invariant (`IInv` of `ScipSolve`) says that the code at each step is that of the
checks made so far, applied one after the other to the same answer; the properties
then follow from what one check says.  Three parts carry that: a tolerance moves a
bound by more than 0 and less than 1 (`SlackRange`), so that a number on the right
side of a bound passes and one that is off by 1 does not (`RightSide`, `WrongSide`);
the sums over columns are integers (`SumIsInteger`, for which the recursion of the
fold is shown to have a solution, by the number of elements); and a limit that
follows the reference is recognised as such (`LimitIsLimit`).  The proof needed what
the first version of the model left open: bounds and sides that are not flagged are
not beyond infinity (`IsProblem`), objectives of solutions are not either, and a ray
improves by more than the tolerance.

Assumptions are the named `ASSUME`s on the constants, which TLC evaluates in the
runs.  Invariants that no run lists (`IInv` and `TypeOK` of the modules with proofs,
`CopyIsExact`, `SettingNeedsBoth` and the like) are theorems, which say more.

`ReductionsProofs` shows `ProblemsConsistent` and `Bystanders` for all problems,
references, tolerances and numbers of batches.  Neither is inductive by itself: what
a visit finds depends on the copy, which earlier visits have edited, and a rebuilt
copy on lists that were filled at different moments.  The invariant (`IInv` of
`Reductions`) therefore speaks of places.  The edits of a run are those of its
visits (`EditsOf`): in the modifier's own lists, at visited rows or columns, each
changed coefficient one of the problem, and none changed twice.  The copy is what
such edits may make (`VariantOf`): a problem whose unvisited rows and columns are the
original ones, without new coefficients, with right equation flags.  `VisitTyped`
is the lemma that every visit of the eight modifiers yields such edits; its hard case
is `FixingEdits`, which substitutes a column row by row.  `ApplyKeeps` says that every
edit leads from variant to variant, `ReplayKeeps` that lists of them do.

`SuccessIsConfirmed` shows `AdoptedIsConfirmed`: a success hands back the very problem
that the last accepted solve ran on, although the modifiers never keep that problem
but rebuild the copy from their lists after each rejected batch, and keep
coefficients aside until a batch is solved.  Its invariant is `ReplayInv`, that the
copy is what the accepted edits followed by those of the batch (`Pending`) make of the
problem, with `AdmissibleInv`, that nothing is edited before something was admissible;
TLC checked both on the constants of `Reductions.cfg` before they were proved.
A rebuild applies list after list and not visit after visit, so that the proof rests
on edits in different lists commuting where visits mix them (`VisitsCommute`): edits
of different rows or columns do (`EditsCommute`); of the edits of one row, which only
the fixing modifier makes in several visits, the changed coefficients commute with
those of the sides, and those of its left with those of its right side because
nothing snaps when zeta is 0 (`RowChangesCommute`).  Coefficients may come last for the
same reason (`EntriesCommute`).  Zeta is 0 by default (`Num.hpp:117`); section 4 shows
what happens without the hypothesis.

`ExactProofs` holds what needs exact numbers.  `ReferenceAlwaysTrue` shows `ReferenceRemainsTrue` for every problem and reference: a
reference that is feasible, or unbounded with a ray, at first is so for every problem
that is handed back.  The statement is about the problem between two runs; during a
run it has no meaning for the copy, where a fixed column still stands in its rows with
its old coefficients, and a rounded row has new sides and old coefficients until the
batch is solved.  The invariant (`ReferenceInv`, which TLC checks first) speaks of the
problem that the copy would be with its changed coefficients entered (`Settled`), and
of the edits of each modifier one by one.  One lemma per modifier (`ConstraintVisit`,
`FixingVisit` and so on) says that the edits of a visit keep a true reference true: a
constraint is only removed; a variable, a side or an objective is fixed or changed to
fit the reference values; the coefficients of a column that is dropped or fixed move
both sides by what they contribute at the reference (`FixingFolds`, row by row);
rounding moves bounds and sides to where the reference values satisfy them.
`VisitAgrees` carries this from the place of one visit to a whole batch, since visits
do not interfere.  Its hypotheses: zeta and epsilon are 0, and the reference is not
infeasible.  Both are needed: the runs `fixed_entries` and `integral_gap` show what
tolerances and a claim of infeasibility come to (section 4).  `TrueAtFirst` holds of
the three other instances of `Reductions.cfg`.

`EverySuccessLightens` shows `EverySuccessShrinks` for every problem, modifier and
number of batches.  The six numbers of `Weight` are sizes of sets of rows, columns and
coefficients (`WeightParts`), and `LighterByColumn` and `LighterByRow` say what one
column or row must lose for the problem to be lighter.  One lemma per modifier
(`ConstraintLightens`, `SideLightens` and so on) says that a visit which the code finds
admissible does that: this is where a test for admissibility and the edits that follow
have to match, or a modifier would report success for ever on a row that it leaves as it
was.  Sides and coefficients that fixing changes may become fractional, but a column
is no longer free then, which counts first (`FixingLightens`).  The invariant
(`ShrinkInv`) says that what is accepted, and what is settled, is lighter than the
problem unless no edit was made at all.  Zeta and epsilon are 0, and a reference that
claims to be feasible is so (`TrueIfFeasible`, weaker than `TrueAtFirst`): rounding to
keep a reference value would open bounds that leave no room for it.
Weights descend only finitely often, so that modifiers succeed only finitely often,
which is what `BuggerRun` assumes of its `size`.

Lists of edits are replayed by a fold, so that these proofs need induction over
data.  `FoldLemmas` does it for any operator, as a module with an operator as a
parameter: the fold is shown to exist by the least number of elements for which it
would not, and its properties by the shortest sequence for which they would fail.
`ReductionsProofs` and `InputProofs` have an instance of it for each of their folds.  `WellFormed` and `ReferenceFits`, the assumptions about the instances, say what types have in the
code, that numbers are multiples of a step whose square is whole, and that equations
are marked.

Model-checked only: liveness (`ProgramEnds`, `Terminates`, `FilesEnd`), which is out of
the prover's reach; of `Reductions`, `ReferenceRemainsTrue` with tolerances or an
infeasible reference, `EverySuccessShrinks` with tolerances, and `AdoptedIsConfirmed`
with a tolerance that snaps sides; and everything about MPS files
and about the storages and the buffer of the matrix, whose definitions count
the cells of arrays and choose by what they hold.

## 6. Plan

Done: all modules of section 2; proofs about the loop, the modifiers, their
composition, the reductions with numbers, their reference and their weight, the
setting modifier, start up, the parameters, instances in SCIP and its files,
solution files, and the three modules of the solver interfaces.

Open, in this order:

1. The storages of `StorageSession`.
2. `Reductions` with tolerances: `Snapped` sides, weights and what rounding keeps.

## 7. Not modelled

Floating-point arithmetic (`Tolerances` is exact), the text form of numbers and
names, the solver libraries (external: nondeterministic answers), certificates
beyond their verdict, logging and statistics output, serialization, printing of
parameters, and the vendored libraries.

Of the data structures inherited from PaPILO, what nothing in this repository calls:
the presolving steps `sparsify` and `aggregate` of `ConstraintMatrix`, the activities of
rows with their updates, propagation and redundant bounds (`SingleRow.hpp`,
`Problem::removeRedundantBounds`), and the locks of columns.  Part of it could not be
instantiated: `isFeasGE`, `isSafeLT`, `isSafeGT` and `Num<REAL>::max` are not
declared in `Num.hpp` (`SingleRow.hpp:101` and `797`, `ConstraintMatrix.hpp:119`), so that
there is nothing to be faithful to.
