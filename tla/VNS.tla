-------------------------------- MODULE VNS ---------------------------------
(***************************************************************************)
(* Variable Neighborhood Search: VNS::run composed with the greedy         *)
(* construction and the descents it calls, over one StoppingCriteria       *)
(* object that all of them test and advance.                               *)
(***************************************************************************)
EXTENDS Neighborhoods, StoppingCriteria, FiniteSetsExt

CONSTANTS
  Configs,   \* the vnd_config values of the runs
  KMaxes     \* the k_max values of the runs, any int

ASSUME ConfigsAssumption == Configs \subseteq SUBSET NeighborhoodNames
ASSUME KMaxesAssumption == KMaxes \subseteq Int

VARIABLES
  order, pos, solution, forbidden, remaining, building,   \* GreedyMaxProfit
  schedule, state, k, mode,                               \* VND
  stopping,                                               \* ctx.stopping
  k_max,       \* max(1, config_.k_max)
  level,       \* the k of VNS::run, the shake level
  shaken,      \* the solution that shake has returned
  incumbent,   \* the solution that is shaken
  best,        \* the best solution so far
  best_at,     \* history: the tick count when best last became better
  phase        \* where VNS::run stands

greedyVars == <<order, pos, solution, forbidden, remaining, building>>
vndVars == <<schedule, state, k, mode>>
vnsVars == <<k_max, level, shaken, incumbent, best, best_at, phase>>
vars == <<greedyVars, vndVars, stopping, vnsVars>>

Greedy == INSTANCE GreedyMaxProfit
Local == INSTANCE VND

NoState == NewState(EmptySolution)   \* a local object outside its scope

-----------------------------------------------------------------------------
(* The shakes: the states that the random samples of one call may lead to. *)

Room(st, out, in) ==
  st.solution.weight - SumFunctionOnSet(Weight, out) + Weight[in] <= Capacity

FaultRoomIgnored(st, out, u) ==
  /\ ~ st.in_solution[u]
  /\ st.conflict_count[u] = Cardinality({i \in out : HasConflict(i, u)})

\* u may enter once the items of out have left, as the counters tell it.
Enters(st, out, u) ==
  /\ ~ st.in_solution[u]
  /\ st.conflict_count[u] = Cardinality({i \in out : HasConflict(i, u)})
  /\ Room(st, out, u)

\* An Add or a Drop, whichever the coin says, and the other one if it fails.
\* Drop fails on an empty selection only; Add may fail when some draw can.
ShakeAddDrop(st) ==
  LET items == st.solution.items
  IN  {ApplyAdd(st, u) : u \in {v \in Items : Enters(st, {}, v)}}
      \cup {ApplyRemove(st, i) : i \in items}
      \cup {s \in {st} : items = {} /\ \E v \in Items : ~ Enters(st, {}, v)}

\* Every draw may name a selected item as the one to enter, so that all the
\* samples of the budget may fail.
ShakeSwap11(st) ==
  {st} \cup
  UNION {{ApplyAdd(ApplyRemove(st, i), u) : u \in {v \in Items : Enters(st, {i}, v)}} :
           i \in st.solution.items}

ShakeSwap21(st) ==
  {st} \cup
  UNION {{ApplyAdd(ApplyRemove(ApplyRemove(st, p[1]), p[2]), u) :
            u \in {v \in Items : Enters(st, {p[1], p[2]}, v)}} :
           p \in {q \in st.solution.items \X st.solution.items : q[1] # q[2]}}

\* Levels beyond three reuse the three shakes in a cycle.
Shakes(st, lev) ==
  LET move == ((Max({1, lev}) - 1) % 3) + 1
  IN  CASE N = 0    -> {st}
        [] N > 0 /\ move = 1 -> ShakeAddDrop(st)
        [] N > 0 /\ move = 2 -> ShakeSwap11(st)
        [] N > 0 /\ move = 3 -> ShakeSwap21(st)

-----------------------------------------------------------------------------

Construct ==
  /\ phase = "construct"
  /\ Greedy!Build
  /\ UNCHANGED <<vndVars, vnsVars>>

\* improve(s0), and its steps.
FirstDescent ==
  /\ phase = "construct" /\ ~ building
  /\ Local!Improve(solution)
  /\ phase' = "first"
  /\ UNCHANGED <<greedyVars, k_max, level, shaken, incumbent, best, best_at>>

Descend ==
  /\ phase \in {"first", "improve"}
  /\ Local!Descend
  /\ UNCHANGED <<greedyVars, vnsVars>>

FaultFirstIsGreedy ==
  /\ phase = "first" /\ mode = "returned"
  /\ incumbent' = solution
  /\ best' = solution
  /\ best_at' = stopping.iterations
  /\ mode' = "idle" /\ state' = NoState
  /\ phase' = "loop"
  /\ UNCHANGED <<greedyVars, schedule, k, stopping, k_max, level, shaken>>

\* incumbent = improve(s0); best = incumbent.
TakeFirst ==
  /\ phase = "first" /\ mode = "returned"
  /\ incumbent' = state.solution
  /\ best' = state.solution
  /\ best_at' = stopping.iterations
  /\ mode' = "idle" /\ state' = NoState
  /\ phase' = "loop"
  /\ UNCHANGED <<greedyVars, schedule, k, stopping, k_max, level, shaken>>

\* One turn of the loop begins: not stopped, tick, shake.
Shake ==
  /\ phase = "loop" /\ ~ ShouldStop(stopping)
  /\ stopping' = Tick(stopping)
  /\ \E st \in Shakes(NewState(incumbent), level) : shaken' = st.solution
  /\ phase' = "shaken"
  /\ UNCHANGED <<greedyVars, vndVars, k_max, level, incumbent, best, best_at>>

\* improve(shaken).
NextDescent ==
  /\ phase = "shaken"
  /\ Local!Improve(shaken)
  /\ shaken' = EmptySolution
  /\ phase' = "improve"
  /\ UNCHANGED <<greedyVars, k_max, level, incumbent, best, best_at>>

Accepted(candidate) == candidate.profit > incumbent.profit

\* Compares with the incumbent, which has just moved.
FaultImprovedTooLate(candidate) ==
  candidate.profit > (IF Accepted(candidate) THEN candidate ELSE incumbent).profit

FaultImprovedOnPlateau(candidate) == candidate.profit >= best.profit

Improved(candidate) == candidate.profit > best.profit

FaultEndlessLevels == level + 1

\* The shake level after a turn without a gain.
NextLevel == (level % k_max) + 1

\* The comparisons at the end of a turn.
Change ==
  LET candidate == state.solution
  IN  /\ phase = "improve" /\ mode = "returned"
      /\ incumbent' = IF Accepted(candidate) THEN candidate ELSE incumbent
      /\ level' = IF Accepted(candidate) THEN 1 ELSE NextLevel
      /\ best' = IF Improved(candidate) THEN candidate ELSE best
      /\ stopping' = IF Improved(candidate) THEN RegisterImprovement(stopping) ELSE stopping
      /\ best_at' = IF Improved(candidate) THEN stopping.iterations ELSE best_at
      /\ mode' = "idle" /\ state' = NoState
      /\ phase' = "loop"
      /\ UNCHANGED <<greedyVars, schedule, k, k_max, shaken>>

Finish ==
  /\ phase = "loop" /\ ShouldStop(stopping)
  /\ phase' = "done"
  /\ UNCHANGED <<greedyVars, vndVars, stopping, k_max, level, shaken, incumbent, best, best_at>>

\* The clock runs out between two steps.
TimeOut ==
  /\ stopping.limits.time /\ ~ stopping.expired
  /\ phase # "done"
  /\ stopping' = Expire(stopping)
  /\ UNCHANGED <<greedyVars, vndVars, vnsVars>>

Init ==
  /\ Greedy!Begin
  /\ schedule \in {ScheduleOf(e) : e \in Configs}
  /\ state = NoState /\ k = 1 /\ mode = "idle"
  /\ stopping \in {Start(l) : l \in Limits}
  /\ k_max \in {Max({1, c}) : c \in KMaxes}
  /\ level = 1
  /\ shaken = EmptySolution
  /\ incumbent = EmptySolution /\ best = EmptySolution /\ best_at = 0
  /\ phase = "construct"

Run ==
  \/ Construct \/ FirstDescent \/ Descend \/ TakeFirst
  \/ Shake \/ NextDescent \/ Change \/ Finish

Next == Run \/ TimeOut

\* The thread runs on until run() returns, and the steady clock reaches any
\* time limit that was set.
Spec == Init /\ [][Next]_vars /\ WF_vars(Run) /\ WF_vars(TimeOut)

-----------------------------------------------------------------------------
(* Properties.                                                             *)

TypeOK ==
  /\ Greedy!TypeOK
  /\ Local!TypeOK
  /\ k_max \in Nat \ {0}
  /\ level \in 1 .. k_max
  /\ shaken \in SolutionType /\ incumbent \in SolutionType /\ best \in SolutionType
  /\ best_at \in Nat
  /\ phase \in {"construct", "first", "loop", "shaken", "improve", "done"}

\* "Shaking is intentionally profit-blind: it only guarantees feasibility"
\* (vns.h): every seed that the shakes hand to the descent has exact totals
\* and is feasible, whichever samples were drawn.
ShakesStayFeasible ==
  shaken = SolutionOf(shaken.items) /\ Feasible(shaken.items)

\* The incumbent and the global best are updated by two separate tests, yet
\* they are always the same selection, and it is feasible with exact totals.
IncumbentIsBest ==
  /\ incumbent = best
  /\ best = SolutionOf(best.items) /\ Feasible(best.items)

\* While a search without a no-improvement limit goes on, each of its shakes
\* starts from a local optimum: a descent that a limit cuts short is the last.
ShakesLocalOptima ==
  phase = "loop" /\ ~ ShouldStop(stopping) /\ stopping.limits.no_improve = Inactive
    => \A p \in DOMAIN schedule : LocallyOptimal(schedule[p], incumbent.items)

\* The class comments promise that the strict improvements of best reset the
\* counter of the composite criterion "so the composite criterion's
\* no-improvement counter is reset correctly" (vns.h): once best has not
\* improved for as many ticks as the limit allows, the loop would stop.
StopsWithoutImprovement ==
  /\ phase = "loop"
  /\ stopping.limits.no_improve # Inactive
  /\ stopping.iterations - best_at >= stopping.limits.no_improve
  => ShouldStop(stopping)

Anytime == INSTANCE AnytimeSearch
             WITH best <- CASE phase = "construct" -> solution.items
                            [] phase = "first"     -> state.solution.items
                            [] OTHER               -> best.items,
                  done <- phase = "done"

\* From the empty selection to the result, construction, first descent and
\* search form one anytime search: the selection that would be returned is
\* always feasible, changes by strict gains only, and is returned under every
\* combination of limits that contains a time or an iteration limit.
ImplementsAnytimeSearch == Anytime!Spec

=============================================================================
