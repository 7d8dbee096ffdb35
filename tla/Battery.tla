------------------------------ MODULE Battery -------------------------------
(***************************************************************************)
(* run_experiments.sh: every instance file, in their sorted order, a       *)
(* number of times, each time with the next seed; one row of the CSV per   *)
(* call that answers well, the end of the battery at the first that does   *)
(* not, and statistics below the rows when all calls are done.  A battery  *)
(* may be killed at any point and started again over the same file.        *)
(***************************************************************************)
EXTENDS ProgramCall, FiniteSets

CONSTANTS
  MaxInstances, \* bound: the length of INSTANCES
  RunCounts,    \* the values of --runs
  BaseSeeds     \* the values of --base-seed

ASSUME BatteryAssumption ==
  /\ MaxInstances \in Nat
  /\ RunCounts \subseteq Nat \ {0} /\ BaseSeeds \subseteq Nat

VARIABLES
  instances,         \* INSTANCES, in the order in which sort lists the paths
  runs, base_seed,   \* RUNS, BASE_SEED
  csv,               \* OUTPUT below its header: the rows, and how much of the
                     \* statistics has been written
  idx, run,          \* the counters of the two loops
  stats,             \* STATS: the printed numbers of the groups 1 and 2, and of
                     \* all rows as number 0
  phase,             \* "idle", "loop", "report"
  reason             \* why the last battery ended

batteryVars == <<instances, runs, base_seed, csv, idx, run, stats, phase, reason>>

EmptyCsv == [rows |-> <<>>, notes |-> "none"]

-----------------------------------------------------------------------------
(* The statistics of the awk program.                                      *)

FaultTwoDigitsAreTwo(name) ==
  CASE name.stem \in 1 .. 45   -> 1
    [] name.stem \in 46 .. 100 -> 2
    [] OTHER                   -> 0

\* 1I1 to 10I5 are group 1, 11I1 to 20I5 are group 2.
group_of(name) ==
  CASE name.stem \in 1 .. 50   -> 1
    [] name.stem \in 51 .. 100 -> 2
    [] OTHER                   -> 0

InGroup(row, g) == g = 0 \/ group_of(row.instance) = g

\* The main rule, record by record.
Tally(rows, g) ==
  LET after[m \in 0 .. Len(rows)] ==
        IF m = 0 THEN [n |-> 0, best |-> 0, sum |-> 0]
        ELSE LET t == after[m - 1]  profit == rows[m].profit IN
             IF InGroup(rows[m], g)
             THEN [n |-> t.n + 1, best |-> IF profit > t.best THEN profit ELSE t.best,
                   sum |-> t.sum + profit]
             ELSE t
  IN after[Len(rows)]

\* The rows of a group, after the insertion sort of their profits.
Sorted(rows, of) ==
  CHOOSE arr \in [1 .. Cardinality(of) -> of] :
    \A i, j \in DOMAIN arr :
      i < j => arr[i] # arr[j] /\ rows[arr[i]].profit <= rows[arr[j]].profit

\* Twice the median, 0 of no values.
median(rows, of) ==
  LET n == Cardinality(of)
      arr(i) == rows[Sorted(rows, of)[i]].profit
  IN IF n = 0 THEN 0
     ELSE IF n % 2 = 1 THEN 2 * arr((n + 1) \div 2)
     ELSE arr(n \div 2) + arr(n \div 2 + 1)

\* The END rule.
Summary(rows, g) ==
  LET t == Tally(rows, g) IN
  [n |-> t.n, best |-> t.best, sum |-> t.sum,
   median |-> median(rows, {p \in DOMAIN rows : InGroup(rows[p], g)})]

Statistics(rows) == [g \in 0 .. 2 |-> Summary(rows, g)]

-----------------------------------------------------------------------------
(* The script.                                                             *)

\* echo header > OUTPUT: what an earlier battery left is gone.
WriteHeader(file) == EmptyCsv

\* The build has succeeded (one that fails leaves the file alone), the header
\* is written, and the instances may turn out to be missing only then.
Start ==
  /\ phase = "idle"
  /\ runs' \in RunCounts
  /\ base_seed' \in BaseSeeds
  /\ csv' = WriteHeader(csv)
  /\ idx' = 1 /\ run' = 1
  /\ \/ phase' = "loop" /\ reason' = "none"
     \/ phase' = "idle" /\ reason' = "setup"
  /\ UNCHANGED <<instances, stats>>

FaultSeedsOverlap == base_seed + (idx - 1) + run - 1

seed == base_seed + (idx - 1) * runs + run - 1

\* The next turn of the inner loop, or the first one of the next instance.
Advance ==
  IF run < runs THEN run' = run + 1 /\ idx' = idx
                ELSE run' = 1 /\ idx' = idx + 1

\* The row of an answer that has passed all checks.
Record(answer) ==
  /\ Matches(answer, instances[idx], seed)
  /\ csv' = [csv EXCEPT !.rows =
               Append(@, [run |-> run, instance |-> answer.line.instance,
                          seed |-> answer.line.seed, profit |-> answer.line.profit])]
  /\ Advance
  /\ UNCHANGED <<instances, runs, base_seed, stats, phase, reason>>

\* exit 1
Abort(why) ==
  /\ phase' = "idle" /\ reason' = why
  /\ UNCHANGED <<instances, runs, base_seed, csv, idx, run, stats>>

\* One call of the program, with its checks.
RunOnce ==
  /\ phase = "loop" /\ idx <= Len(instances)
  /\ \E answer \in Answers(instances[idx], seed) :
       \/ ~ Succeeds(answer) /\ Abort("failed")
       \/ Succeeds(answer) /\ ~ Matches(answer, instances[idx], seed) /\ Abort("mismatched")
       \/ Succeeds(answer) /\ Record(answer)

Compute ==
  /\ phase = "loop" /\ idx > Len(instances)
  /\ stats' = Statistics(csv.rows)
  /\ phase' = "report"
  /\ UNCHANGED <<instances, runs, base_seed, csv, idx, run, reason>>

\* The block of comment lines is not written at once.
WriteNotes ==
  /\ phase = "report"
  /\ \/ /\ csv.notes = "none"
        /\ csv' = [csv EXCEPT !.notes = "part"]
        /\ UNCHANGED <<phase, reason>>
     \/ /\ csv.notes = "part"
        /\ csv' = [csv EXCEPT !.notes = "all"]
        /\ phase' = "idle" /\ reason' = "done"
  /\ UNCHANGED <<instances, runs, base_seed, idx, run, stats>>

Killed == phase # "idle" /\ Abort("killed")

BatteryInit ==
  /\ instances \in Listings(MaxInstances) \ {<<>>}
  /\ runs \in RunCounts /\ base_seed \in BaseSeeds
  /\ csv = EmptyCsv
  /\ idx = 1 /\ run = 1
  /\ stats = Statistics(<<>>)
  /\ phase = "idle" /\ reason = "none"

BatteryNext == Start \/ RunOnce \/ Compute \/ WriteNotes \/ Killed

BatterySpec == BatteryInit /\ [][BatteryNext]_batteryVars

-----------------------------------------------------------------------------
(* Properties.                                                             *)

\* However the battery ends and whatever the file held before, its rows are a
\* beginning of the schedule: instance by instance in their order, run by
\* run, with consecutive seeds of which no two are equal, and none missing.
\* A failing call, a mismatch or a kill costs no row that was written, so the
\* row at which an interrupted battery can be taken up again is known.
RowsFollowTheSchedule ==
  /\ Len(csv.rows) = (idx - 1) * runs + run - 1
  /\ Len(csv.rows) <= Len(instances) * runs
  /\ \A p \in DOMAIN csv.rows :
       LET r == csv.rows[p] IN
       /\ r.instance.stem = instances[(p - 1) \div runs + 1].stem
       /\ r.run = ((p - 1) % runs) + 1
       /\ r.seed = base_seed + p - 1

\* The script "iterates over every instance": statistics, even a part of
\* them, stand below all the rows of a battery and never below some.  They
\* describe the rows above them: the best profit is attained and not exceeded,
\* half of the rows lie on each side of the median, and the two groups share
\* the rows of the benchmark families between them.
StatisticsDescribeTheRows ==
  csv.notes # "none" =>
    /\ Len(csv.rows) = Len(instances) * runs
    /\ \A g \in DOMAIN stats :
         LET group == IF g = 0 THEN Nat ELSE 50 * g - 49 .. 50 * g
             of == {p \in DOMAIN csv.rows : csv.rows[p].instance.stem \in group}
         IN of # {} =>
            /\ \E p \in of : csv.rows[p].profit = stats[g].best
            /\ \A p \in of : csv.rows[p].profit <= stats[g].best
            /\ 2 * Cardinality({p \in of : 2 * csv.rows[p].profit <= stats[g].median})
                 >= Cardinality(of)
            /\ 2 * Cardinality({p \in of : 2 * csv.rows[p].profit >= stats[g].median})
                 >= Cardinality(of)
    /\ stats[0].n = Len(csv.rows)
    /\ Stems \subseteq 1 .. 100 =>
         /\ stats[0].n = stats[1].n + stats[2].n
         /\ stats[0].sum = stats[1].sum + stats[2].sum

\* The script compares the name that it makes of a file with the name that
\* the program makes of it.  They disagree on an extension that is not .txt
\* and on nothing else: such a file ends the battery, no other does.
NamesDisagreeOnForeignFiles ==
  /\ reason = "mismatched" => instances[idx].ext \notin {"", ".txt"}
  /\ \A p \in DOMAIN csv.rows : instances[(p - 1) \div runs + 1].ext \in {"", ".txt"}

=============================================================================
