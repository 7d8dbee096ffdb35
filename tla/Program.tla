------------------------------ MODULE Program -------------------------------
(***************************************************************************)
(* main, from an accepted command line to the exit code: the instance is   *)
(* read, the Runner executes the algorithm, the Validator examines the     *)
(* solution, and its verdict becomes the exit code.  The Runner's steps    *)
(* and the Validator's are those of their modules.                         *)
(***************************************************************************)
EXTENDS Runner, Validator

VARIABLES
  step,   \* where main stands: "read", "execute", "validate", "print", "exit"
  exit    \* the exit code, -1 before it

vars == <<runnerVars, validatorVars, step, exit>>

-----------------------------------------------------------------------------

Leave(code) ==
  /\ step' = "exit"
  /\ exit' = code
  /\ UNCHANGED <<runnerVars, validatorVars>>

\* instance.read_from_file answers false.
Unreadable == step = "read" /\ Leave(1)

\* It answers true, runner.execute is called.
Execute ==
  /\ step = "read"
  /\ step' = "execute"
  /\ phase' = "construct"
  /\ UNCHANGED <<algorithm, config, greedyVars, vndVars, stopping, ilsOnly, vnsOnly,
                 incumbent, best, validatorVars, exit>>

RunAlgorithm ==
  /\ step = "execute"
  /\ Run
  /\ UNCHANGED <<validatorVars, step, exit>>

\* The items of a std::set, in ascending order.
Ascending(S) ==
  CHOOSE s \in [1 .. Cardinality(S) -> S] : \A p, q \in DOMAIN s : p < q => s[p] < s[q]

\* validator.validate(solution).
Validate ==
  /\ step = "execute" /\ phase = "done"
  /\ items' = Ascending(best.items)
  /\ check_phase' = "items"
  /\ step' = "validate"
  /\ UNCHANGED <<runnerVars, call, check_pos, selected, report, is_feasible, exit>>

Analyze ==
  /\ step = "validate"
  /\ ValidatorNext
  /\ UNCHANGED <<runnerVars, exit>>
  /\ step' = IF check_phase' = "done" THEN "print" ELSE step

\* The line is printed, and main returns valid ? 0 : 1.
PrintLine == step = "print" /\ Leave(IF is_feasible THEN 0 ELSE 1)

Main ==
  \/ Unreadable \/ Execute \/ RunAlgorithm \/ Validate \/ Analyze \/ PrintLine

ClockRunsOut ==
  /\ step = "execute"
  /\ TimeOut
  /\ UNCHANGED <<validatorVars, step, exit>>

\* main sets the time limit only; the tests call execute themselves, with any
\* limits, and then hand the solution to a Validator as main does.
MainConfig(c) ==
  c.time_limit > 0 /\ c.iteration_limit = 0 /\ c.no_improvement_limit = 0

MainInit ==
  /\ Begin
  /\ \/ MainConfig(config) /\ step = "read" /\ phase = "idle"
     \/ step = "execute" /\ phase = "construct"
  /\ call = "validate" /\ items = <<>> /\ check_pos = 1 /\ selected = {}
  /\ report = NewReport
  /\ is_feasible = TRUE   \* of a new Solution
  /\ check_phase = "idle"
  /\ exit = -1

MainNext == Main \/ ClockRunsOut

\* One thread, and a steady clock that reaches any time limit that was set.
MainSpec ==
  MainInit /\ [][MainNext]_vars /\ WF_vars(Main) /\ WF_vars(ClockRunsOut)

-----------------------------------------------------------------------------
(* Properties.                                                             *)

TypeOK ==
  /\ RunnerTypeOK
  /\ items \in Seq(Items) /\ selected \in SUBSET Items
  /\ check_pos \in 1 .. Len(items) + 1
  /\ is_feasible \in BOOLEAN
  /\ check_phase \in {"idle", "items", "capacity", "conflicts", "verdict", "done"}
  /\ step \in {"read", "execute", "validate", "print", "exit"}
  /\ exit \in {-1, 0, 1}

\* The validator is there to find mistakes of the algorithms, and finds none:
\* once the instance is read, every algorithm under every schedule ends with
\* valid=true and the exit code 0, whatever limit has stopped it.  The totals
\* printed beside it are the running totals of a solution that went through
\* copies, moves, kicks and shakes; the validator adds up the same ones anew.
PrintedLineIsTrue ==
  /\ step \in {"print", "exit"} /\ phase = "done" =>
       /\ is_feasible /\ report.failures = 0
       /\ best.profit = report.total_profit
       /\ best.weight = report.total_weight
       /\ best.items = selected
  /\ step = "exit" => exit = (IF phase = "done" THEN 0 ELSE 1)

\* No limit of the configuration has been reached, and none can be without a
\* further tick.
NoneReached ==
  /\ config.time_limit <= 0 /\ config.no_improvement_limit = 0
  /\ config.iteration_limit = 0 \/ stopping.iterations < config.iteration_limit

\* The loops of construction, descent and search advance one counter, each
\* behind a test of its own: together they never pass the iteration limit
\* that the caller has configured, and they use it up.  A run that ends below
\* it has ended by itself, which is left to a construction at the end of its
\* order and to a descent in a local optimum.  So has a run without limits:
\* "Any field left at its default (zero) is treated as inactive" (runner.h).
LimitsMeanWhatTheConfigSays ==
  /\ config.iteration_limit > 0 => stopping.iterations <= config.iteration_limit
  /\ phase = "done" /\ NoneReached =>
       /\ algorithm \in {"Greedy", "VND"}
       /\ pos > Len(order)
       /\ algorithm = "VND" =>
            \A p \in DOMAIN schedule : LocallyOptimal(schedule[p], best.items)

\* The caller gets to its end: a limit on time or iterations stops either
\* search, Greedy and VND stop without any, and no algorithm keeps main from
\* its exit.
AlwaysExits == <>(step = "exit")

=============================================================================
