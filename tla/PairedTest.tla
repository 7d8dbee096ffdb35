----------------------------- MODULE PairedTest -----------------------------
(***************************************************************************)
(* evaluate_test.sh: the final comparison of the default configuration and *)
(* the tuned one.  Each instance of a list is run five times; each run is  *)
(* one call per configuration with the same seed, in alternating order.    *)
(* The analysis starts when the expected number of results is there, and   *)
(* examines them once more.                                                *)
(***************************************************************************)
EXTENDS ProgramCall, FiniteSets

CONSTANTS
  MaxLines,   \* bound: the lines of test-instances.txt
  Missing,    \* the numbers of files that do not exist
  Expected,   \* 20, the number of instances
  Runs        \* 5, the runs per instance

\* An empty line of the list.
Blank == [stem |-> 0, ext |-> ""]

ASSUME PairedTestAssumption ==
  /\ MaxLines \in Nat /\ Missing \subseteq Stems /\ Blank \notin Files
  /\ Expected \in Nat /\ Runs \in Nat \ {0}

VARIABLES
  lines,            \* the lines that are still to be read
  file,             \* instance_path
  instance_index,
  run_number,
  turn,             \* 1 or 2: the first or the second call of the pair
  completed,
  rows,             \* OUTPUT below its header
  stage             \* "read", "run", "analyzed", "failed"

pairedVars == <<lines, file, instance_index, run_number, turn, completed, rows, stage>>

total_runs == 2 * Runs * Expected

-----------------------------------------------------------------------------

Stop(p) ==
  /\ stage' = p
  /\ UNCHANGED <<lines, file, instance_index, run_number, turn, completed, rows>>

SkipEmptyLine ==
  /\ stage = "read" /\ lines # <<>> /\ Head(lines) = Blank
  /\ lines' = Tail(lines)
  /\ UNCHANGED <<file, instance_index, run_number, turn, completed, rows, stage>>

ReadInstance ==
  /\ stage = "read" /\ lines # <<>> /\ Head(lines) # Blank
  /\ lines' = Tail(lines)
  /\ file' = Head(lines)
  /\ instance_index' = instance_index + 1
  /\ run_number' = 1 /\ turn' = 1
  /\ stage' = IF file'.stem \in Missing THEN "failed" ELSE "run"
  /\ UNCHANGED <<completed, rows>>

FaultSeedPerCall == 42 + completed

pair_seed == 42 + (instance_index - 1) * Runs + run_number - 1

configuration ==
  IF (run_number + turn) % 2 = 0 THEN "baseline" ELSE "tuned"

\* After the second call of a pair, the next run or the next instance.
NextTurn ==
  IF turn = 1 THEN turn' = 2 /\ UNCHANGED <<run_number, stage>>
  ELSE /\ turn' = 1
       /\ IF run_number < Runs THEN run_number' = run_number + 1 /\ UNCHANGED stage
                               ELSE stage' = "read" /\ UNCHANGED run_number

\* run_configuration: one call of the program, with its checks.
RunConfiguration ==
  /\ stage = "run"
  /\ \E answer \in Answers(file, pair_seed) :
       IF Succeeds(answer) /\ Matches(answer, file, pair_seed)
       THEN /\ rows' = Append(rows, [configuration |-> configuration,
                                     instance |-> answer.line.instance,
                                     run |-> run_number, seed |-> answer.line.seed])
            /\ completed' = completed + 1
            /\ NextTurn
            /\ UNCHANGED <<lines, file, instance_index>>
       ELSE Stop("failed")

\* 20 instances and 200 results, the script's own test.
AllCounted == instance_index = Expected /\ completed = total_runs

Instances(configurationName) ==
  {rows[p].instance : p \in {q \in DOMAIN rows : rows[q].configuration = configurationName}}

FaultCountsRowsOnly == Len(rows) = total_runs

\* What analyze_test.R insists on.
Analyzable ==
  /\ Len(rows) = total_runs
  /\ Instances("baseline") # {} /\ Instances("tuned") # {}
  /\ Cardinality(Instances("baseline") \cap Instances("tuned")) = Expected

Analyze ==
  /\ stage = "read" /\ lines = <<>>
  /\ Stop(IF AllCounted /\ Analyzable THEN "analyzed" ELSE "failed")

PairedInit ==
  /\ lines \in UNION {[1 .. n -> Files \cup {Blank}] : n \in 0 .. MaxLines}
  /\ file = Blank
  /\ instance_index = 0 /\ run_number = 1 /\ turn = 1 /\ completed = 0
  /\ rows = <<>>
  /\ stage = "read"

PairedNext == SkipEmptyLine \/ ReadInstance \/ RunConfiguration \/ Analyze

PairedSpec == PairedInit /\ [][PairedNext]_pairedVars

-----------------------------------------------------------------------------
(* Properties.                                                             *)

\* "retaining identical instance/seed pairs for both configurations": two rows
\* have the same seed exactly if they are the two halves of a pair, and then
\* they are one run of one instance by both configurations; this also in the
\* file that an aborted evaluation leaves.  "Alternate execution order to
\* reduce systematic temporal bias": within the runs of an instance, no
\* configuration is called first twice in a row.  (It may be where one
\* instance follows another.)
SeedsPairTheRows ==
  /\ \A p, q \in DOMAIN rows : p < q =>
       /\ rows[p].seed = rows[q].seed <=> p % 2 = 1 /\ q = p + 1
       /\ rows[p].seed = rows[q].seed =>
            /\ rows[p].instance = rows[q].instance /\ rows[p].run = rows[q].run
            /\ rows[p].configuration # rows[q].configuration
  /\ \A p \in DOMAIN rows :
       p % 2 = 1 /\ p + 2 \in DOMAIN rows /\ rows[p].run < Runs =>
         rows[p].configuration # rows[p + 2].configuration

\* Results that are analyzed are those of the whole protocol: each of the
\* expected number of different instances, each run, by each configuration,
\* once.  A list with a repetition, a blank line, a missing file, a file of
\* another kind or the wrong length never leads to another picture.
AnalysisSeesTheProtocol ==
  stage = "analyzed" =>
    /\ Cardinality({rows[p].instance : p \in DOMAIN rows}) = Expected
    /\ \A p \in DOMAIN rows, r \in 1 .. Runs, c \in {"baseline", "tuned"} :
         Cardinality({q \in DOMAIN rows : /\ rows[q].instance = rows[p].instance
                                          /\ rows[q].run = r
                                          /\ rows[q].configuration = c}) = 1

=============================================================================
