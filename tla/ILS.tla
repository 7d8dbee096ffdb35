-------------------------------- MODULE ILS ---------------------------------
(***************************************************************************)
(* Iterated Local Search: ILS::run composed with the greedy construction   *)
(* and the descents it calls, over one StoppingCriteria object that all of *)
(* them test and advance.                                                  *)
(***************************************************************************)
EXTENDS Neighborhoods, StoppingCriteria, FiniteSetsExt

CONSTANTS
  Configs,    \* the vnd_config values of the runs
  Strengths   \* the perturbation_strength values of the runs, any int

ASSUME ConfigsAssumption == Configs \subseteq SUBSET NeighborhoodNames
ASSUME StrengthsAssumption == Strengths \subseteq Int

VARIABLES
  order, pos, solution, forbidden, remaining, building,   \* GreedyMaxProfit
  schedule, state, k, mode,                               \* VND
  stopping,                                               \* ctx.stopping
  strength,    \* config_.perturbation_strength
  kick,        \* the SelectionState of perturb
  fill,        \* the position of its repair loop in repair_order, from 1
  incumbent,   \* the solution the next kick starts from
  best,        \* the best solution so far
  phase        \* where ILS::run stands

greedyVars == <<order, pos, solution, forbidden, remaining, building>>
vndVars == <<schedule, state, k, mode>>
ilsVars == <<strength, kick, fill, incumbent, best, phase>>
vars == <<greedyVars, vndVars, stopping, ilsVars>>

Greedy == INSTANCE GreedyMaxProfit
Local == INSTANCE VND

NoState == NewState(EmptySolution)   \* a local object outside its scope

-----------------------------------------------------------------------------

Construct ==
  /\ phase = "construct"
  /\ Greedy!Build
  /\ UNCHANGED <<vndVars, ilsVars>>

\* improve(s0), and its steps.
FirstDescent ==
  /\ phase = "construct" /\ ~ building
  /\ Local!Improve(solution)
  /\ phase' = "first"
  /\ UNCHANGED <<greedyVars, strength, kick, fill, incumbent, best>>

Descend ==
  /\ phase \in {"first", "improve"}
  /\ Local!Descend
  /\ UNCHANGED <<greedyVars, ilsVars>>

FaultFirstIsGreedy ==
  /\ phase = "first" /\ mode = "returned"
  /\ incumbent' = solution
  /\ best' = state.solution
  /\ mode' = "idle" /\ state' = NoState
  /\ phase' = "loop"
  /\ UNCHANGED <<greedyVars, schedule, k, stopping, strength, kick, fill>>

\* incumbent = improve(s0); best = incumbent.
TakeFirst ==
  /\ phase = "first" /\ mode = "returned"
  /\ incumbent' = state.solution
  /\ best' = state.solution
  /\ mode' = "idle" /\ state' = NoState
  /\ phase' = "loop"
  /\ UNCHANGED <<greedyVars, schedule, k, stopping, strength, kick, fill>>

\* One turn of the loop begins: not stopped, tick, and perturb copies the
\* incumbent.
Perturb ==
  /\ phase = "loop" /\ ~ ShouldStop(stopping)
  /\ stopping' = Tick(stopping)
  /\ kick' = NewState(incumbent)
  /\ fill' = 1
  /\ phase' = IF N = 0 THEN "kicked" ELSE "destroy"
  /\ UNCHANGED <<greedyVars, vndVars, strength, incumbent, best>>

FaultRemovalsUnclamped == Max({0, strength})

\* The number of items that the destruction removes.
Removals == Min({Max({0, strength}), Cardinality(incumbent.items)})

\* One step of the partial shuffle: any item that is still selected.
Destroy ==
  /\ phase = "destroy"
  /\ Cardinality(incumbent.items \ kick.solution.items) < Removals
  /\ \E i \in kick.solution.items : kick' = ApplyRemove(kick, i)
  /\ UNCHANGED <<greedyVars, vndVars, stopping, strength, fill, incumbent, best, phase>>

Destroyed ==
  /\ phase = "destroy"
  /\ Cardinality(incumbent.items \ kick.solution.items) = Removals
  /\ phase' = "repair"
  /\ UNCHANGED <<greedyVars, vndVars, stopping, strength, kick, fill, incumbent, best>>

\* One turn of the repair loop over repair_order, which is the order of the
\* construction: makeProfitOrder is a function of the instance.
FaultInsertConflicting(st, u) ==
  /\ ~ st.in_solution[u]
  /\ st.solution.weight + Weight[u] <= Capacity

Insertable(st, u) ==
  /\ ~ st.in_solution[u]
  /\ st.conflict_count[u] = 0
  /\ st.solution.weight + Weight[u] <= Capacity

Repair ==
  /\ phase = "repair"
  /\ fill <= Len(order)
  /\ kick' = IF Insertable(kick, order[fill]) THEN ApplyAdd(kick, order[fill]) ELSE kick
  /\ fill' = fill + 1
  /\ UNCHANGED <<greedyVars, vndVars, stopping, strength, incumbent, best, phase>>

Repaired ==
  /\ phase = "repair"
  /\ fill > Len(order)
  /\ phase' = "kicked"
  /\ UNCHANGED <<greedyVars, vndVars, stopping, strength, kick, fill, incumbent, best>>

\* improve(perturbed).
NextDescent ==
  /\ phase = "kicked"
  /\ Local!Improve(kick.solution)
  /\ kick' = NoState
  /\ phase' = "improve"
  /\ UNCHANGED <<greedyVars, strength, fill, incumbent, best>>

FaultImprovedOnPlateau(candidate) == candidate.profit >= best.profit

FaultAcceptAll(candidate) == TRUE

\* The elite tracker asks for a strict gain, the acceptance for no loss.
Improved(candidate) == candidate.profit > best.profit

Accepted(candidate) == candidate.profit >= incumbent.profit

\* The comparisons at the end of a turn, of the values before it.
Accept ==
  LET candidate == state.solution
  IN  /\ phase = "improve" /\ mode = "returned"
      /\ best' = IF Improved(candidate) THEN candidate ELSE best
      /\ stopping' = IF Improved(candidate) THEN RegisterImprovement(stopping) ELSE stopping
      /\ incumbent' = IF Accepted(candidate) THEN candidate ELSE incumbent
      /\ mode' = "idle" /\ state' = NoState
      /\ phase' = "loop"
      /\ UNCHANGED <<greedyVars, schedule, k, strength, kick, fill>>

Finish ==
  /\ phase = "loop" /\ ShouldStop(stopping)
  /\ phase' = "done"
  /\ UNCHANGED <<greedyVars, vndVars, stopping, strength, kick, fill, incumbent, best>>

\* The clock runs out between two steps.
TimeOut ==
  /\ stopping.limits.time /\ ~ stopping.expired
  /\ phase # "done"
  /\ stopping' = Expire(stopping)
  /\ UNCHANGED <<greedyVars, vndVars, ilsVars>>

Init ==
  /\ Greedy!Begin
  /\ schedule \in {ScheduleOf(e) : e \in Configs}
  /\ state = NoState /\ k = 1 /\ mode = "idle"
  /\ stopping \in {Start(l) : l \in Limits}
  /\ strength \in Strengths
  /\ kick = NoState /\ fill = 1
  /\ incumbent = EmptySolution /\ best = EmptySolution
  /\ phase = "construct"

Run ==
  \/ Construct \/ FirstDescent \/ Descend \/ TakeFirst
  \/ Perturb \/ Destroy \/ Destroyed \/ Repair \/ Repaired
  \/ NextDescent \/ Accept \/ Finish

Next == Run \/ TimeOut

\* The thread runs on until run() returns, and the steady clock reaches any
\* time limit that was set.
Spec == Init /\ [][Next]_vars /\ WF_vars(Run) /\ WF_vars(TimeOut)

-----------------------------------------------------------------------------
(* Properties.                                                             *)

TypeOK ==
  /\ Greedy!TypeOK
  /\ Local!TypeOK
  /\ strength \in Int
  /\ kick \in StateType
  /\ fill \in 1 .. Len(order) + 1
  /\ incumbent \in SolutionType /\ best \in SolutionType
  /\ phase \in {"construct", "first", "loop", "destroy", "repair", "kicked",
                "improve", "done"}

\* The kick works on books of its own: at each of its steps they are exact and
\* its selection is feasible, so that the repair never needs to be undone and
\* each descent starts from a feasible seed.
KickKeepsBooks == Exact(kick) /\ Feasible(kick.solution.items)

\* The acceptance rule walks plateaus only: although best and incumbent are
\* updated by two separate tests, they never differ in profit.
IncumbentKeepsBestProfit == incumbent.profit = best.profit

\* While a search without a no-improvement limit goes on, each of its kicks
\* starts from a local optimum: a descent that a limit cuts short is the last.
KicksLocalOptima ==
  phase = "loop" /\ ~ ShouldStop(stopping) /\ stopping.limits.no_improve = Inactive
    => \A p \in DOMAIN schedule : LocallyOptimal(schedule[p], incumbent.items)

\* A descent that a limit cuts short is the last one, with one exception: the
\* strict gain on best that it may have reached restarts the count of a
\* no-improvement limit (vnd.cpp and ils.cpp register it), and then the search
\* goes on from a selection that need not be a local optimum.
OnlyGainsReopenTheSearch ==
  [][ phase = "improve" /\ phase' = "loop" /\ ~ ShouldStop(stopping')
      => \/ \A p \in DOMAIN schedule :
              LocallyOptimal(schedule[p], state.solution.items)
         \/ ShouldStop(stopping) /\ best'.profit > best.profit ]_vars

\* A std::set or a sort of the solutions at hand may rely on their order: of
\* any two exactly one of <, == and > holds, and < never goes round in a
\* circle.  == reads the items and <=> the totals first, which each solution
\* has accumulated on its own way, so this rests on every way of getting to a
\* selection leaving the same totals.
OrderAgreesWithEquality ==
  LET pool == {incumbent, best, kick.solution, state.solution}
  IN  \A x, y \in pool :
        /\ Equal(x, y) <=> ~ Less(x, y) /\ ~ Less(y, x)
        /\ ~ (Less(x, y) /\ Less(y, x))
        /\ \A z \in pool : Less(x, y) /\ Less(y, z) => Less(x, z)

Anytime == INSTANCE AnytimeSearch
             WITH best <- CASE phase = "construct" -> solution.items
                            [] phase = "first"     -> state.solution.items
                            [] OTHER               -> best.items,
                  done <- phase = "done"

\* From the empty selection to the result, construction, first descent and
\* search form one anytime search: the selection that would be returned is
\* always feasible, changes by strict gains only, and is returned under every
\* combination of limits that contains a time or an iteration limit.
ImplementsAnytimeSearch == Anytime!Spec

=============================================================================
