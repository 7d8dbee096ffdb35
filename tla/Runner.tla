------------------------------- MODULE Runner -------------------------------
(***************************************************************************)
(* Runner::execute over each of the four algorithms: it activates the      *)
(* limits of its configuration, starts the criterion and runs the          *)
(* algorithm on it.  The algorithms are the actions of their own modules;  *)
(* GreedyMaxProfit and VND::run end where ILS and VNS go on.  Program      *)
(* composes it with its callers.                                           *)
(***************************************************************************)
EXTENDS Neighborhoods, StoppingCriteria, FiniteSetsExt

CONSTANTS
  RunnerConfigs,   \* the RunnerConfigs of the runs
  Configs,         \* the vnd_config values of the runs
  Strengths,       \* the perturbation_strength values of the runs
  MaxTicks         \* bound: the clock reaches a time limit within so many ticks

RunnerConfigType ==
  [time_limit : Int, iteration_limit : Nat, no_improvement_limit : Nat]

ASSUME RunnerAssumption ==
  /\ RunnerConfigs \subseteq RunnerConfigType
  /\ Configs \subseteq SUBSET NeighborhoodNames /\ Strengths \subseteq Int
  /\ MaxTicks \in Nat

VARIABLES
  algorithm,   \* the dynamic type of the Algorithm
  config,      \* the RunnerConfig
  order, pos, solution, forbidden, remaining, building,   \* GreedyMaxProfit
  schedule, state, k, mode,                               \* VND
  stopping,                                               \* the criterion
  strength, kick, fill,                                   \* ILS
  k_max, level, shaken, best_at,                          \* VNS
  incumbent, best, phase                                  \* ILS and VNS

greedyVars == <<order, pos, solution, forbidden, remaining, building>>
vndVars == <<schedule, state, k, mode>>
ilsOnly == <<strength, kick, fill>>
vnsOnly == <<k_max, level, shaken, best_at>>
runnerVars == <<algorithm, config, greedyVars, vndVars, stopping, ilsOnly, vnsOnly,
                incumbent, best, phase>>

Iterated == INSTANCE ILS
Variable == INSTANCE VNS WITH KMaxes <- {3}   \* makeAlgorithm's .k_max = 3
Local == INSTANCE VND
Greedy == INSTANCE GreedyMaxProfit

-----------------------------------------------------------------------------

FaultZeroIsALimit(c) ==
  [time       |-> c.time_limit > 0,
   iter       |-> c.iteration_limit,
   no_improve |-> IF c.no_improvement_limit > 0 THEN c.no_improvement_limit ELSE Inactive]

\* The limits that execute activates.
Activate(c) ==
  [time       |-> c.time_limit > 0,
   iter       |-> IF c.iteration_limit > 0 THEN c.iteration_limit ELSE Inactive,
   no_improve |-> IF c.no_improvement_limit > 0 THEN c.no_improvement_limit ELSE Inactive]

\* The construction and the first descent are common to all algorithms.
Construct == Iterated!Construct /\ UNCHANGED vnsOnly
FirstDescent == Iterated!FirstDescent /\ UNCHANGED vnsOnly
Descend == Iterated!Descend /\ UNCHANGED vnsOnly

\* run() returns the solution of the construction, or of the descent.
ReturnSolution(s) ==
  /\ best' = s
  /\ phase' = "done"
  /\ UNCHANGED <<greedyVars, vndVars, stopping, ilsOnly, vnsOnly, incumbent>>

RunGreedy ==
  /\ algorithm = "Greedy"
  /\ \/ Construct
     \/ phase = "construct" /\ ~ building /\ ReturnSolution(solution)

RunVND ==
  /\ algorithm = "VND"
  /\ \/ Construct \/ FirstDescent \/ Descend
     \/ phase = "first" /\ mode = "returned" /\ ReturnSolution(state.solution)

RunILS == algorithm = "ILS" /\ Iterated!Run /\ UNCHANGED vnsOnly

RunVNS == algorithm = "VNS" /\ Variable!Run /\ UNCHANGED ilsOnly

WithinBound ==
  stopping.limits.time => stopping.iterations < MaxTicks \/ stopping.expired

Run ==
  /\ WithinBound
  /\ RunGreedy \/ RunVND \/ RunILS \/ RunVNS
  /\ UNCHANGED <<algorithm, config>>

\* The clock runs out between two steps.
TimeOut == Iterated!TimeOut /\ UNCHANGED <<algorithm, config, vnsOnly>>

\* execute is called, where the search of ILS and VNS has a limit of its own.
Begin ==
  /\ Greedy!Begin
  /\ algorithm \in {"Greedy", "VND", "ILS", "VNS"}
  /\ config \in RunnerConfigs
  /\ algorithm \in {"ILS", "VNS"} => config.time_limit > 0 \/ config.iteration_limit > 0
  /\ schedule \in {ScheduleOf(e) : e \in Configs}
  /\ state = Iterated!NoState /\ k = 1 /\ mode = "idle"
  /\ stopping = Start(Activate(config))
  /\ strength \in Strengths
  /\ kick = Iterated!NoState /\ fill = 1
  /\ k_max = 3 /\ level = 1 /\ shaken = EmptySolution /\ best_at = 0
  /\ incumbent = EmptySolution /\ best = EmptySolution

RunnerTypeOK ==
  /\ algorithm \in {"Greedy", "VND", "ILS", "VNS"}
  /\ config \in RunnerConfigType
  /\ Greedy!TypeOK /\ Local!TypeOK
  /\ strength \in Int /\ kick \in StateType /\ fill \in 1 .. Len(order) + 1
  /\ k_max = 3 /\ level \in 1 .. 3 /\ shaken \in SolutionType /\ best_at \in Nat
  /\ incumbent \in SolutionType /\ best \in SolutionType
  /\ phase \in {"idle", "construct", "first", "loop", "destroy", "repair", "kicked",
                "shaken", "improve", "done"}

=============================================================================
