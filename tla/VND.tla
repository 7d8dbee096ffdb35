-------------------------------- MODULE VND ---------------------------------
(***************************************************************************)
(* Variable Neighborhood Descent: VND::improve over the neighbourhoods it  *)
(* schedules.  One call of a scan is one step; its outcome is the first    *)
(* eligible move in the order of its loops, no move, or no move because    *)
(* one of the shouldStop() tests inside the loops answered true.           *)
(***************************************************************************)
EXTENDS Neighborhoods, StoppingCriteria

\* The sets of enabled neighbourhoods a run may be configured with.
CONSTANT Configs
ASSUME ConfigsAssumption ==
  Configs \subseteq SUBSET NeighborhoodNames

VARIABLES
  schedule,   \* the enabled neighbourhoods, in the order of their visits
  state,      \* the SelectionState over the solution that is improved
  k,          \* the position in the schedule, from 1
  mode,       \* "idle" before the call, "descend" in the loop, "returned"
  stopping    \* ctx.stopping

vndVars == <<schedule, state, k, mode>>
vars == <<schedule, state, k, mode, stopping>>

-----------------------------------------------------------------------------
(* VND::improve.                                                           *)

\* The call: with no item or no neighbourhood the seed is returned as it is.
Improve(seed) ==
  /\ mode = "idle"
  /\ state' = NewState(seed)
  /\ k' = 1
  /\ mode' = IF N = 0 \/ schedule = <<>> THEN "returned" ELSE "descend"
  /\ UNCHANGED <<schedule, stopping>>

\* One turn of the loop: not stopped, tick, then the scan of schedule[k].
Turn ==
  /\ mode = "descend"
  /\ k <= Len(schedule)
  /\ ~ ShouldStop(stopping)
  /\ UNCHANGED <<schedule, mode>>

\* The scan makes its first eligible move; back to the first neighbourhood.
Move ==
  /\ Turn
  /\ ~ ShouldStop(Tick(stopping))
  /\ \E m \in Moves(schedule[k], state) :
       /\ First(m, Moves(schedule[k], state))
       /\ state' = Result(schedule[k], state, m)
  /\ stopping' = RegisterImprovement(Tick(stopping))
  /\ k' = 1

\* The scan finds nothing, or this tick has reached a limit and its first
\* shouldStop() test ends it.
NoMove ==
  /\ Turn
  /\ Moves(schedule[k], state) = {} \/ ShouldStop(Tick(stopping))
  /\ stopping' = Tick(stopping)
  /\ k' = k + 1
  /\ UNCHANGED state

\* The clock runs out during the scan, before it has found a move.
Interrupted ==
  /\ Turn
  /\ stopping.limits.time
  /\ stopping' = Expire(Tick(stopping))
  /\ k' = k + 1
  /\ UNCHANGED state

Return ==
  /\ mode = "descend"
  /\ k > Len(schedule) \/ ShouldStop(stopping)
  /\ mode' = "returned"
  /\ UNCHANGED <<schedule, state, k, stopping>>

Descend == Move \/ NoMove \/ Interrupted \/ Return

\* The clock runs out between two steps.
TimeOut ==
  /\ stopping.limits.time /\ ~ stopping.expired
  /\ stopping' = Expire(stopping)
  /\ UNCHANGED vndVars

-----------------------------------------------------------------------------
(* One call of improve on any feasible seed, under any configuration.      *)

Init ==
  /\ schedule \in {ScheduleOf(e) : e \in Configs}
  /\ stopping \in {Start(l) : l \in Limits}
  /\ state \in {NewState(s) : s \in FeasibleSolutions}
  /\ k = 1
  /\ mode = "idle"

Next == Improve(state.solution) \/ Descend \/ TimeOut

\* The thread runs on until improve returns; the clock owes it nothing.
Spec == Init /\ [][Next]_vars /\ WF_vars(Improve(state.solution) \/ Descend)

-----------------------------------------------------------------------------
(* Properties.                                                             *)

TypeOK ==
  /\ schedule \in Seq(NeighborhoodNames)
  /\ state \in StateType
  /\ k \in 1 .. Len(schedule) + 1
  /\ mode \in {"idle", "descend", "returned"}
  /\ stopping \in StoppingType

\* The incremental totals, flags and conflict counters always equal what a
\* rebuild from the selected items gives (selection_state.h, solution.h): the
\* arithmetic of every move test rests on it.
Bookkeeping == Exact(state)

\* "The algorithm never produces an infeasible solution" (vnd.h): whenever
\* the loop is left, for whatever reason, the selection satisfies the
\* capacity and the conflicts.
StaysFeasible == Feasible(state.solution.items)

\* "When the last enabled neighborhood is exhausted without improvement the
\* current solution is a local optimum w.r.t. all enabled neighborhoods"
\* (vnd.h): no limit having stopped it, improve returns a selection that no
\* feasible neighbour in the declarative sense beats, although the scans test
\* counters, filter candidates and look at each pair in one order only.
ReturnsLocalOptimum ==
  mode = "returned" /\ ~ ShouldStop(stopping)
    => \A p \in DOMAIN schedule : LocallyOptimal(schedule[p], state.solution.items)

\* As long as Swap-1-1 is scheduled, the descent from a selection of items of
\* positive profit never selects an item without profit, although Swap-1-2
\* looks only at the sum of two profits: a pair with a worthless half is
\* preceded by the swap that leaves that half out.
KeepsItemsProfitable ==
  [][ (\E p \in DOMAIN schedule : schedule[p] = "swap_1_1")
      /\ (\A i \in state.solution.items : Profit[i] > 0)
        => \A i \in state'.solution.items : Profit[i] > 0 ]_vars

Anytime == INSTANCE AnytimeSearch
             WITH best <- state.solution.items, done <- mode = "returned"

\* improve is an anytime search: every change of its solution is a strict
\* gain of profit to a feasible selection, and it always returns.
ImplementsAnytimeSearch == Anytime!Spec

=============================================================================
