# A TLA+ model of dckp-sbpo

dckp-sbpo solves the Disjunctively Constrained Knapsack Problem: choose items
with profits and weights so that the weight stays within a capacity, no two
chosen items are in conflict, and the profit is large. The program is
sequential C++. It reads an instance, runs one of four heuristics under a
composite stopping criterion, validates the result and prints one line; scripts
run it in batteries and compare configurations. This directory models its logic
in TLA+, from the words of the command line to the rows of the experiments,
checks it with TLC on small instances, and proves with TLAPS, for all values of
the constants, all its safety properties: those of the algorithms, the validator and
the conflict graph, of the reader, the command line and the scripts, and of the
program composed of them.

Paths below are relative to the root of the repository.

## 1. Inventory

| Component | Source | State it keeps | Operations |
|---|---|---|---|
| Instance | `src/utils/instance_reader.*` | items, profits, weights, capacity, adjacency lists, last error | read_from_file (format detection, two parsers, normalization), has_conflict, getters |
| Solution | `src/utils/solution.*` | set of items, two running totals, feasibility flag, labels | addItem, removeItem, setters, ordering |
| SelectionState | `src/local_search/selection_state.h` | reference to a Solution, membership flags, conflict counters | constructor, applyAdd, applyRemove |
| StoppingCriteria | `src/algorithms/stopping_criteria.h` | limits, tick counter, count at the last improvement, start time | setters, start, tick, registerImprovement, shouldStop |
| Rng | `src/algorithms/rng.h` | engine | uniformInt |
| GreedyMaxProfit | `src/constructive/*` | order, forbidden flags, remaining capacity | run, makeProfitOrder |
| VND | `src/local_search/vnd.*` | schedule, position in it, SelectionState | run, improve, four neighbourhood scans |
| ILS | `src/local_search/ils.*` | incumbent, best, kick strength | run, perturb |
| VNS | `src/local_search/vns.*` | incumbent, best, shake level | run, shake (three moves) |
| Validator | `src/utils/validator.*` | none; writes a report and the flag of a solution | analyze, validate |
| Runner, Algorithm | `src/algorithms/runner.*`, `algorithm.h` | one context per execution | execute |
| Command line | `src/main.cpp` | options | parseCli, makeAlgorithm, main |
| Experiment scripts | `scripts/*.sh`, `scripts/irace/*.sh` | CSV files | batteries of runs with seeds, checks on each row |

**How they interact.** `main` builds an algorithm and an instance; the Runner
owns the random engine and one StoppingCriteria and passes both by reference.
ILS and VNS call the greedy construction, then `VND::improve`, then alternate a
random change of the incumbent with further calls of `improve`. *All of them
test and advance the same StoppingCriteria*, so every limit can strike inside a
construction, inside a descent or inside one scan of a neighbourhood, and the
outer loop learns of it only through the same object. Solutions are passed by
value; a SelectionState holds a reference to the one it mirrors.

**What is hard.** There are no threads: inside the program the one concurrent
actor is the clock, outside it the user who kills a battery. The risks are in

- incremental books: three mirrors of one set, updated item by item, that all
  move tests trust;
- move tests computed on the books *before* the departing items have left;
- interruption: a scan that is cut short looks like one that found nothing;
- counters shared by nested loops, tested before and after their own tick;
- comparisons of profits against two records (incumbent and best) in two places;
- boundaries: strengths and levels out of range, empty instances, empty
  schedules, zero and negative profits, ties in the sort;
- input: a format that is guessed, a header whose order is inferred, an edge
  list that does not say whether it counts from 0 or from 1, files that end
  anywhere, and an object that is read again after a failure;
- agreement of two programs: scripts that predict the names and seeds in the
  program's answers, and an analysis that trusts what the scripts have counted.

**What makes each part correct.**

- *Books*: totals, flags and counters equal those of the selected items, always.
- *Construction*: stopped anywhere, the partial selection is feasible; run to
  its end, each profitable item left out has a reason among earlier choices.
- *Descent*: feasible at every step, strictly better with every move, inside
  the limits, and a local optimum for every scheduled neighbourhood if nothing
  stopped it. It returns.
- *Searches*: best is feasible and exact and changes only by strict gains;
  incumbent and best never part; each kick starts from a local optimum; the run
  ends under an iteration or time limit.
- *Reader*: exactly the files of the two formats are accepted; an accepted
  instance is the file's and what the solver assumes; a refused one leaves
  nothing; the numbering is recovered where the file determines it.
- *Validator*: its verdict is the definition of the problem.
- *Order of solutions*: exactly one of <, ==, > holds, and < has no cycles.
- *Command line*: what runs is what the line says as a whole, whatever the order
  of its options; every other line ends with the exit code of its mistake.
- *Program*: it exits; once the instance is read, the printed line is valid and
  its totals are right; the iteration limit is never passed, and a run that ends
  below its limits has come to its own end.
- *Scripts*: the rows are a beginning of the schedule, whatever ends a battery;
  statistics describe the rows above them; pairs share a seed, runs do not.

`PROJECT.json` lists the components with their status and the hazards with the
line where each one bites.

## 2. Modules

```
DCKPInstance ── Solution ─┬─ SelectionState ── Neighborhoods ── VND ─┐
                          ├─ GreedyMaxProfit ────────────────────────┼── ILS, VNS ── Runner ─┐
StoppingCriteria ─────────┴──────────────────────────────────────────┘                       ├─ Program
Validator ───────────────────────────────────────────────────────────────────────────────────┘
AnytimeSearch  (what every algorithm promises; refined by all four)

InputFile ─┬─ CompactFormat ─┐
           ├─ AmplFormat ────┼── InstanceReader       CommandLine
ConflictNormalization ───────┘
ProgramCall ── Battery, PairedTest

SelectionTheorems ─┬─ GreedyMaxProfitTheorems, VNDTheorems, ILSTheorems, VNSTheorems
                   ├─ ProgramTheorems  (Program, Validator, ConflictNormalization)
                   └─ ReaderTheorems   (InstanceReader)
ShellTheorems  (Battery, PairedTest, CommandLine)
```

| Module | Models | Correspondence |
|---|---|---|
| `DCKPInstance` | a loaded instance | Its fields are CONSTANTS. The assumptions are what the reader establishes: `n_items` natural, profits any integer, weights and capacity natural, a symmetric graph without loops. `HasConflict` looks in the shorter list. `Feasible` is the problem itself. |
| `Solution` | the class | A record of items and totals. An item that is out of range or present changes nothing, as in the code. `Equal` and `Less` are `==` and the cases in which `<=>` is less. |
| `SelectionState` | the struct | A record that contains the solution it refers to, the flags and the counters. |
| `StoppingCriteria` | the class | A record; an absent limit is -1. The field `expired` stands for "elapsed() has reached the limit" and is raised by the environment. |
| `AnytimeSearch` | the promise | A feasible selection, replaced by strict gains only, and finally returned. |
| `GreedyMaxProfit` | `run`, `makeProfitOrder` | One step per turn of the loop (`Take`, `Skip`), any order that an unstable sort may leave. |
| `Neighborhoods` | the four scans | The moves that each scan finds eligible on a SelectionState, the order in which its loops meet them, what a move does; and `LocallyOptimal`, the *declarative* local optimum: no feasible selection that differs by the named numbers of items out and in has more profit. |
| `VND` | `improve` | One step per call of a scan. `Move`: the first eligible move in loop order. `NoMove`: none exists, or the turn's own tick reached a limit and the first test inside the scan ends it. `Interrupted`: the clock ran out inside the scan. |
| `ILS` | `run`, `perturb` | Construction and descent are the actions of `GreedyMaxProfit` and `VND`, over shared variables. The kick is destroyed item by item (`Destroy`) and repaired along the order (`Repair`). |
| `VNS` | `run`, `shake` | As for ILS; a shake is one step whose outcomes are all selections that some draws lead to, the unchanged one included where the budget of draws may be spent in vain. |
| `ConflictNormalization` | `normalize_conflicts` | Three steps: choice of the base, lists, count. Adjacency lists are sets because the code sorts them and removes repetitions. |
| `Validator` | `analyze`, `validate` | One step per id, then capacity, conflicts, verdict. |
| `InputFile` | the text of a file | A line is the keywords it starts with, its tokens, whether a semicolon and a comment follow: what the two parsers and the detection can tell apart. Each of them sees its own view of it (`Tokens`, `IsBlank`, `IsRecord`). |
| `CompactFormat` | `parse_numeric_compact` | One step per section, one per item: the fields are written before later tokens can refuse the file. |
| `AmplFormat` | `parse_ampl_like` | One step per line, over the five states of the code. `OutOfMemory`: the allocation for the announced number of items throws. |
| `InstanceReader` | `read_from_file` | `CannotRead` and `Open` are the ways a call may begin; then the steps of a parser and of the normalization on the fields of one object, which is read again later. |
| `CommandLine` | the wrapper, `parseCli`, `makeAlgorithm` | One step per word (`Words`). Numbers are words with a meaning (`IntegerOf`); the widths of the three integer types are constants. |
| `Runner` | `execute`, and `run` of Greedy and VND | The limits that a configuration activates; then the steps of the algorithm that the dynamic type selects. |
| `Program` | `main` after the command line | Reading answers true or false, `Runner`, then `Validator` (both extended) on the items in ascending order, then the exit code. The tests enter at `execute`, with limits that `main` does not set. |
| `ProgramCall` | a call as the scripts see it (external) | Any answer: a failure, a wrong number of lines, another name, seed or verdict. The names that script and program make of a path are two operators. |
| `Battery` | `run_experiments.sh` | One step per call; any step may be followed by a kill, any end by another start over the same file. The awk program's tallies go record by record; a sorted list of profits stands for its insertion sort, and a median is doubled so that it is an integer. |
| `PairedTest` | `evaluate_test.sh`, the tests of `analyze_test.R` | One step per line of the list and per call. |

The variables and formulas of components that one module extends together carry a
prefix (`check_pos` and `ValidatorNext`, `batteryVars` and `BatteryInit`,
`CliSpec`); the plain names are those of the code.

Operators named `Fault...` are variants of the definition that follows them with
one plausible slip (a test dropped, an update missed). They are used by nothing.
Put in the place of the original they must break a property, which shows that
the property depends on that piece of the code; `PROJECT.json` pairs them.

**What is abstracted.** Random draws are nondeterministic choices, so the results
hold for every seed. Method names, computation times, logs and the texts of
reasons are left out. Totals are integers: the code accumulates in 64 bits at
most 2^31 values of 32 bits, which cannot overflow. The counters of ticks are
unbounded, as 64-bit counters are in practice.

**One scan, one step.** Between two tests of the clock a scan only reads. Where
an interruption falls inside the scan therefore does not matter, only that it
falls before a move is made. Once a scan has found its move it makes it without
another test. The inner tests ask about the iteration limits too, but no tick
happens inside a scan, so these give the same answer throughout.

## 3. Runs

All runs but `battery` use `CHECK_DEADLOCK FALSE`: every modelled program ends. A
battery can always be started again, so there deadlock is checked.

| Run | Instance and inputs | Shows |
|---|---|---|
| `greedy` | 7 items, 50 combinations of limits | exact books and an anytime search whenever stopped; greedy if not |
| `vnd` | 6 items, every feasible seed, all 16 schedules, 4 kinds of limits | exact books, feasibility, local optimality, no worthless items, termination |
| `ils` | 7 items, strengths -1, 1, 2 and 8, four schedules, six sets of limits | kicks keep the books; best and incumbent; kicks start from local optima, with one exception; the order of solutions; an anytime search |
| `vns` | 7 items, k_max -1, 2 and 4, three schedules, three limits | the same for the shakes |
| `normalization` | all lists of up to two edges with ends from -1 to n+1, n up to 3, both defaults | well-formed graph, exact count, justified refusals, numbering recovered |
| `validator` | all lists of up to four ids from -1 to n, 4 items | the verdict, the accounts, the flag |
| `reader` | some 50000 intact and damaged files, then one of 15 others | exactly the formats are accepted, the object is the file's or empty |
| `command_line` | lines of up to three pieces (a switch, or a flag with its value) and a path before, behind or nowhere; numerals beyond each of the three integer widths | what is run, what is refused, with which exit code |
| `program` | 7 items, four algorithms, three schedules, three strengths, six sets of limits | the line printed is true, limits are kept and used up, the program exits |
| `battery` | up to two of six files, one or two runs, kills and restarts | schedule, statistics, names |
| `paired_test` | lists of up to three lines, five runs each | pairs share seeds, only a whole protocol is analyzed |
| `vns_stagnation` | as `vns` | a violation, see below |

**Properties.** Books: `Bookkeeping`, `KickKeepsBooks`. Feasibility:
`StaysFeasible`, `ShakesStayFeasible`. Quality: `LeavesOutForAReason`,
`ReturnsLocalOptimum`,
`KicksLocalOptima`, `ShakesLocalOptima`, `OnlyGainsReopenTheSearch`,
`KeepsItemsProfitable`. Agreement of records: `IncumbentKeepsBestProfit`,
`IncumbentIsBest`, `OrderAgreesWithEquality`. Refinement, with strict gains and
termination: `ImplementsAnytimeSearch`, stated in each of the four algorithms.
Input: `GraphIsWellFormed`, `RefusesWhatNoBaseFits`, `RecoversNumbering`,
`ObjectIsEmptyOrAnInstance`, `AcceptsTheFormats`, `LoadedObjectIsTheFile`.
Output: `VerdictIsFeasibility`, `AccountsForEveryItem`, `FlagIsFresh`. Program: `RunsWhatTheLineSays`, `ExitsForAReason`,
`ShortFormsGoByPosition`, `PrintedLineIsTrue`, `LimitsMeanWhatTheConfigSays`,
`AlwaysExits`. Scripts: `RowsFollowTheSchedule`, `StatisticsDescribeTheRows`,
`NamesDisagreeOnForeignFiles`, `SeedsPairTheRows`, `AnalysisSeesTheProtocol`. The
type invariant of the composed program, `TypeOK` of `Program`, covers the
variables of all algorithms and of the validator; the modules below it state
their own for the proofs.

**Bounds, and why they are enough.**

- *Descent.* A move involves at most three items and their mutual conflicts; six
  items leave, beside those three, selected items that hold a candidate back, an
  item without profit and one with a negative profit. The seeds of `vnd` are
  *all* feasible selections.
- *Searches.* In the instance of `ils` kicks lead to the same, to worse and to
  other equally good local optima, and with the schedule of swap_1_2 alone some
  kicks gain at once: acceptance, rejection, plateau steps and gains all occur,
  and the no-improvement limits of 6, 7 and 8 may cut a descent right after a
  gain. In that of `vns` the first local optimum is not the best. The iteration
  limits (24 and 40) leave room for several rounds; they strike in the
  construction, in a descent and in the outer loop on different paths, and the
  clock strikes anywhere.
- *Program.* `MaxTicks` bounds how late the clock may strike; 24 ticks reach the
  second kick or shake of every schedule. Beyond them nothing new can be cut. The
  iteration limits of 5, 9 and 22 end the construction, the first descent and the
  search, or come too late for Greedy and VND. `k_max` is 3 there, as `makeAlgorithm`
  sets it; values below one and others are in `vns`, and `VNSTheorems` covers all.
- *Reader.* Numbers in `normalization` reach one beyond both ends of both
  numberings, and a base is decided by the extremes of a list, which two edges
  provide. The files of `reader` are all that result from one damage (a token
  lost, replaced, added; the file cut) to compact files of one or two items and
  up to two conflicts in either header order, and from two damages (a line lost,
  repeated, inserted, replaced, exchanged; the file cut) to an AMPL file whose
  records stand on the lines of headers and semicolons too. 32-bit integers are
  -3..3 and the detection looks at two lines, so that values leave the range and
  keywords come too late. `Reads` is two: every call clears the same fields, and
  the second starts from every state that the first can leave.
- *Validator.* Lists of two ids decide every pair of conflict, repetition and
  range, and four allow them to mix.
- *Command line.* Two options and their values decide every overwriting, a third
  one adds the disabling of all neighbourhoods, and the path stands on either
  side; the largest integers of the three types are 20, 30 and 40, so that each
  has a word beyond it that another takes.
- *Scripts.* Files 50 and 51 are the two sides of the border between the groups,
  and each may have no extension, .txt or another. Two instances of two runs show
  every step of both loops. Profits are positive, as the program's are. In
  `paired_test` the protocol is two instances of five runs instead of twenty, and
  the third file of the list may be missing.

**Fairness.** Weak fairness of the program's own steps: it is one thread that no
one blocks. In `ILS` and `VNS` also weak fairness of `TimeOut`: a steady clock
reaches any limit. `GreedyMaxProfit` and `VND` assume nothing about the clock:
they end without it, because the order is finite and the profit strictly rises.
In `ILS` and `VNS` every set of limits in the runs has an iteration limit or a
time limit; with none, the code loops for ever, as it must. `Program` takes the
same two assumptions: `Main` is one thread, the clock reaches a limit. The reader
and the scripts assume nothing: their properties are about safety. That a read ends
needs no model: its loops are over the lines or the tokens of a file.

## 4. A divergence between comment and code

`vns_stagnation` finds a violation of `StopsWithoutImprovement`. The comment of
VNS (`src/local_search/vns.h:47`) says that every strict improvement of best
registers an improvement "so the composite criterion's no-improvement counter is
reset correctly"; the one of ILS (`src/local_search/ils.h:43`) says the same. But
`VND::improve` registers every move it makes (`src/local_search/vnd.cpp:364`) on
the same object, also inside the outer search, where a move may do no more than
undo a shake. In the trace best has stood still for as many ticks as the limit
allows and the loop goes on. The program as shipped is not affected: `main` sets
a time limit only.

It has a second effect. A strict gain of best that a descent reached before the
no-improvement limit cut it short is registered after the cut, which makes the
limit answer false again: the search goes on and kicks a selection that need not
be a local optimum. `OnlyGainsReopenTheSearch` says that this is the only way;
`KicksLocalOptima` and `ShakesLocalOptima` therefore exclude searches with such a
limit.

## 5. Proofs

TLAPS proves the following for every instance, schedule, strength, level and set
of limits, for every sequence of files that one reader reads, every command line,
and every list of instances with whatever answers the program gives to a script.
Where a theorem states a property of a run, the run shows it on a small instance
and TLC reaches the states that matter there.

| Module | Theorem | Property of the run |
|---|---|---|
| `GreedyMaxProfitTheorems` | `BooksAgree` | `Bookkeeping` |
| | `GreedyForAReason` | `LeavesOutForAReason` |
| | `TypeCorrect`, `AlwaysFeasible`, `AnytimeSafety` | |
| `VNDTheorems` | `BooksAreExact` | `Bookkeeping` |
| | `AlwaysFeasible` | `StaysFeasible` |
| | `LocalOptimum` | `ReturnsLocalOptimum` |
| | `SelectsProfitable` | `KeepsItemsProfitable` |
| | `TypeCorrect`, `AnytimeSafety` | |
| `ILSTheorems` | `KicksAreFeasible` | `KickKeepsBooks` |
| | `PlateausOnly` | `IncumbentKeepsBestProfit` |
| | `KicksStartFromOptima` | `KicksLocalOptima` |
| | `OnlyGainsReopen` | `OnlyGainsReopenTheSearch` |
| | `OrderAgrees` | `OrderAgreesWithEquality` |
| | `TypeCorrect`, `AnytimeSafety` | |
| `VNSTheorems` | `ShakesAreFeasible` | `ShakesStayFeasible` |
| | `OneBest` | `IncumbentIsBest` |
| | `ShakesStartFromOptima` | `ShakesLocalOptima` |
| | `TypeCorrect`, `AnytimeSafety` | |
| `ProgramTheorems` | `LineIsTrue` | `PrintedLineIsTrue` |
| | `LimitsAreMeant` | `LimitsMeanWhatTheConfigSays` |
| | `ProgramTypeCorrect` | `TypeOK` |
| | `VerdictIsRight` | `VerdictIsFeasibility` |
| | `EveryItemAccounted` | `AccountsForEveryItem` |
| | `ValidateRefreshes` | `FlagIsFresh` |
| | `GraphAlwaysWellFormed` | `GraphIsWellFormed` |
| | `RefusalIsJustified` | `RefusesWhatNoBaseFits` |
| | `NumberingRecovered` | `RecoversNumbering` |
| | `ValidatorTypeCorrect`, `ConflictTypeCorrect` | |
| `ReaderTheorems` | `ObjectEmptyOrInstance` | `ObjectIsEmptyOrAnInstance` |
| | `FormatsAccepted` | `AcceptsTheFormats` |
| | `ObjectIsLoaded` | `LoadedObjectIsTheFile` |
| `ShellTheorems` | `LineIsRun` | `RunsWhatTheLineSays` |
| | `ExitsAreJustified` | `ExitsForAReason` |
| | `ShortFormsAreMeant` | `ShortFormsGoByPosition` |
| | `RowsAreScheduled` | `RowsFollowTheSchedule` |
| | `StatisticsAreTheRows` | `StatisticsDescribeTheRows` |
| | `OnlyForeignFilesMismatch` | `NamesDisagreeOnForeignFiles` |
| | `SeedsAlwaysPair` | `SeedsPairTheRows` |
| | `AnalysisIsComplete` | `AnalysisSeesTheProtocol` |
| `SelectionTheorems` | `ApplyAddExact`, `ApplyRemoveExact`, `LessOrdersSolutions` | |

`AnytimeSafety` says of each of the four algorithms that its initial states are
those of `AnytimeSearch` and each of its steps is one of `AnytimeSearch` or a
stutter: the result changes by strict gains to feasible selections only, and not
after it has been returned. It is the safety half of `ImplementsAnytimeSearch`;
the other half is termination.

**The problem and the moves** (`SelectionTheorems`). On the exact state of a
selection, `applyAdd` and `applyRemove` give the exact state of the new one. From
that state each eligible move of each neighbourhood leads to the exact state of a
feasible selection of greater profit (`MoveGains`). It is proved per neighbourhood
from three facts: what the counters say after the departing items have left
(`CountWithout`), what a candidate needs to enter (`EnterFeasible`), and that
updates are exact. The converse, per neighbourhood too: when no move is eligible,
no feasible selection at that distance has more profit (`NoMoveIsOptimal`), so the
tests on the counters miss nothing. Exactness alone does not give this; it needs
that a *feasible* neighbour of the selection passes the test that the code makes
before the departing items have left.

**The descent.** None of its invariants is inductive alone. A move keeps the
selection feasible only if its tests read exact books; the books stay exact only
if items that enter are not in the selection and items that leave are; the position
must be in range for the scan to be one of the four. `Descending`, their
conjunction, says besides that the scans *before* the current position have nothing
to gain, with the exception the code makes: a limit may have ended them
(`OptimalFor`). A move returns to the first scan, so nothing has to be said of it
then; a scan without a move adds itself; and the clock, which only ever ends more,
keeps it. At the end the scans before the position are all of them.
`SelectsProfitable` follows from `NoSingleGain`: a pair one half of which is worthless
is preceded by the exchange that leaves that half out, which swap_1_1 has already
excluded when swap_1_2 comes to its turn.

**The construction.** `Constructing` says that the flags are the neighbours of the
selected items, that the capacity left is exact and that all selected items stand
before the position. `Reasons` says of each item behind the position that it is
selected or infeasible beside the selected items before it: the reason rests on
the books of its turn, and remains one because later turns add nothing in front
of it.

**The searches.** `Constructing` and `Descending` are stated about values, not
variables (the order, the selection, the position, the criterion), together with
lemmas for one step of each. `ILS` and `VNS` run the actions of `GreedyMaxProfit`
and `VND` over variables of their own, and a theorem of an instantiated module
cannot be cited by the prover; so each theorem module of a search shows that the
actions it runs are such steps (`Greedy!...`, `Local!...`) and uses those lemmas.
Their invariants add that the incumbent, best and the state inside a kick or
shake are each exact and feasible, and that incumbent and best have the same profit
(in VNS they are the same): the comparisons of profits at the end of a turn decide
what they are meant to only because all totals are those of the items. `StartsFromOptima` says when the incumbent is a local
optimum: unless a limit holds, or the criterion has a no-improvement limit. Without
one, a criterion that has said stop says so for ever (`KeepsStop`), so a descent cut
short is the last one. With one it is not, see section 4, and `OnlyGainsReopen`
says how far that goes.

**The normalization.** Every variable is a function of the file and of the passes
made so far. `NumberingFits` goes through the five cases of the choice of the base.
For the count, the sizes of the lists add up to the arcs (`SumOfSizes`), arcs in both
directions are equally many, and those that ascend stand for the pairs
(`AscendingPairs`); hence half the entries, which the code takes by an integer
division, is the number of pairs.

**The validator.** The invariant says what each counter of the report counts, that
the counts of refused ids are zero exactly for a clean beginning of the list
(`CleanUpTo`), and that failures are the sum of all counts. That a pair is reported
from its smaller end only is again `AscendingPairs`.

**The program.** `MainInv` is inductive for main: before `validate` the Validator is
untouched (`Unexamined`), afterwards it satisfies its own invariant over the items
that the Runner returned (`Examined`), and throughout `RunInv` holds, which covers
all four algorithms at once. `Called`: the criterion is the configured one and
within its limits. `Books`: `Constructing`, `Descending` and the solutions between
them are exact and feasible. `Counters` and `Control`: ranges, and where the run
stands, which ties the end of VND to the end of its descent, the end of a search to
a limit that stops it, and the end of a construction below all limits to an
exhausted order; that a limit once reached stays reached (`ReachedStays`) carries the
last one through the run. The Runner runs the algorithms as instances
(`Iterated!Local!Move` is the descent of ILS), so the first lemmas say that all
these instances compute with the same operators (`CountsAgree` to `ResultsAgree`).
That the nested loops together never pass the iteration limit rests on one fact
about every step of every loop, `CriterionStep`: a tick is preceded by a test that
has answered no *in the same step*. A loop that ticked behind an older test would
break it. `NothingFound` then is short: feasible, exact and ascending is what the
Validator checks, and its verdict is right. Such a list exists for every selection
(`AscendingExists`, by minimal counterexample), so the choice in `Ascending` means
something.

**The reader.** `ReaderInv` says what a parser has learned as a function of the text
up to its cursor. For the AMPL format: where the blocks begin and that they go on to
the cursor (`BlockUpTo`), the last value of each parameter (`LastGiven`), the records
that have filled items (`Learned`), the edges so far (`Listed`). For the compact
format: the sections behind it, with the number of tokens left deciding where the
edges stand (`LeavesEdges`, `EdgesOf`). The formats themselves are declarative, they
say *there are* a header line, a block, an order; so acceptance needs that what was
learned is such a witness, and a refusal needs that no other one exists. That is
what `BlocksAreUnique`, `ItemsAreMeant` and `EdgesAreMeant` are for: any
reading of the file as one of the format would have to agree with the parser's line
by line, and it fails at the line where the parser stands. `Places` and
`ConflictsAreCounted` take the result through the normalization: half the entries of
the lists are the conflicts of the file. Tokens are joined over lines by a function of
the community modules that is recursive inside; that it exists is shown by minimal
counterexample (`JoinExists`).

**The command line.** `Understood` says what the options are after any beginning of the
line: each has the last value given so far, or its default. `Clean` says that nothing
before the position is a mistake or asks for help, and `Standing` what each phase
says of the position, so that an exit code can be traced to the word that caused it.
Whether a word is a value depends on whether its predecessor is, back to the start
of the line: a recursive function, whose defining equation is again shown by minimal
counterexample (`IsValueFollowsRule`).

**The scripts.** Instance, run and, in the comparison, turn are read off the place of a row
in the file (`Place`, `RoundOfPlace`), because the rounds have equal lengths. `PairedInv`
and `BatteryInv` say that the rows are exactly the places before the current call and
that each is what its place says; a kill leaves them as they are and a new start
begins with none. `AnalysisIsComplete` adds the count: as many good rows as expected,
all at different places, leave none out.

The statistics of a battery need three facts about its awk program. Its tallies are a
recursive function of the rows, whose defining equation is again shown by minimal
counterexample (`TallyFollowsRule`), and a further row keeps the best profit attained
and the groups disjoint (`AllTalliedOneMore`). Any finite set of rows can be sorted
(`SortExists`), so that the choice of a sorted list is one. A stretch of that list holds
as many rows as it is long, which puts half of them on each side of the median
(`StretchCounts`, `MedianHalves`). `Noted` says where the numbers stand: below all
rows only, and a kill among the comment lines leaves both as they are.

**Sums** (`SelectionTheorems`). The totals are folds of the community modules. Adding or
removing an element changes the sum by its value, whatever order the fold takes.
This is proved by minimal counterexample over the subsets of a set: induction
schemes that take a predicate cannot be instantiated by the provers.

**What a failed proof found.** `LessOrdersSolutions` could not be proved of an
earlier `Precedes`, which decided the comparison of two sorted lists by the smallest
id that only one of them holds without asking whether the other list has ended:
it had {5} and {3, 5, 7} before each other. Such sets never have the same totals
in the instance of `ils`, so the run had passed. The definition now is what comparing
two `std::set`s does, and the theorem holds of all sets of ids and all totals.

**Assumptions.** Only the named ones on the constants, which TLC evaluates in
every run.

- Instances: those of `DCKPInstance`, which are what the reader is proved to
  establish.
- Calls: `LimitsAssumption`; `ConfigsAssumption` (schedules come from the four
  neighbourhoods); `StrengthsAssumption` and `KMaxesAssumption` (integers, negative
  ones included); `RunnerAssumption`, the same for the Runner; `SelectionsAssumption`
  (ids are integers).
- Files: `FilesAssumption` of the normalization (a natural number of items, finitely
  many pairs of integers, a default base 0 or 1); of the reader, `ReaderAssumption`
  (files are sequences of lines), `WordAssumption` (a word that is not a number is
  none), `Int32Assumption` (a range around 0, with 1 in it) and `InspectedAssumption`
  (the detection looks at one line at least).
- Command line: `CommandLineAssumption`. Lines consist of words, flags begin with a
  dash, the empty word neither begins with one nor is a numeral, and the widths of the
  integer types are in order.
- Scripts: `FilesAssumption` and `ProfitsAssumption` of `ProgramCall` (stems are
  numbers, profits positive), `BatteryAssumption` and `PairedTestAssumption` (at least
  one run per instance, seeds natural, an empty line names no file).

`SelectionTheorems` extends `StoppingCriteria` for the steps of the algorithms. The
theorems of the validator and of the reader, which extend it for sums and counts,
use nothing of that, those of the reader and of the normalization nothing of
`DCKPInstance` either.

**Only model-checked.** Termination and `AlwaysExits`: liveness is
out of the prover's reach, and with it the temporal half of
`ImplementsAnytimeSearch`. Every safety property that a run checks has a theorem.

## 6. Plan

Left for a later time: steps from the `CommandLine` to the `Program` within one
specification, so that the words of a line and the printed line are related in
one formula. Today they meet in the configuration: `RunsWhatTheLineSays` ends where
`MainConfig` begins.

## 7. Not modelled

- `audit.sh`, the build files and the benchmark data hold no state of the solver.
- The random engine: each draw is a choice, see "What is abstracted".
- The irace scripts `target-runner.sh` and the one that starts irace: single calls
  with the checks that `PairedTest` has, around an external optimizer.
- The constructor of VND that takes another algorithm for its seed: no part of
  the program calls it, and `vnd` starts from every feasible seed.
- Of the statistics, deviations and times; of `analyze_test.R`, its figures and
  tests of significance. Of the program, printing, labels and log lines.
- The text of a file of instance names in `evaluate_test.sh`: its loop passes over a
  last line without a line feed, so a line in `PairedTest` is one that ends with it.
- What the tests check by number on one instance is not repeated here.

A remark on `evaluate_test.sh`: its comment asks for alternating order, and within
the runs of an instance the order alternates. Since an instance has an odd number
of runs and each begins with the same order, two consecutive pairs at the border
of two instances are called in the same order.
