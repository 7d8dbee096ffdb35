---------------------------- MODULE ILSTheorems -----------------------------
(***************************************************************************)
(* Theorems about iterated local search, for every instance, schedule,     *)
(* perturbation strength and combination of limits.  ILS runs instances of *)
(* GreedyMaxProfit and VND on its own variables; their steps are brought   *)
(* back to the steps that SelectionTheorems speaks of.                     *)
(***************************************************************************)
EXTENDS ILS, SelectionTheorems

-----------------------------------------------------------------------------
(* The instances compute with the same operators.                          *)

\* What both take from the library.
LEMMA SameCardinality ==
  \A S : Greedy!Cardinality(S) = Cardinality(S) /\ Local!Cardinality(S) = Cardinality(S)
BY DEF Greedy!Cardinality, Local!Cardinality, Cardinality

\* The operators of the construction.
LEMMA GreedyOperators ==
  /\ \A s : /\ Greedy!ShouldStop(s) <=> ShouldStop(s)
            /\ Greedy!Tick(s) = Tick(s)
            /\ Greedy!RegisterImprovement(s) = RegisterImprovement(s)
  /\ \A s, i : Greedy!AddItem(s, i) = AddItem(s, i)
  /\ Greedy!EmptySolution = EmptySolution
  /\ Greedy!Items = Items /\ Greedy!SolutionType = SolutionType
  /\ Greedy!StoppingType = StoppingType
BY DEF Greedy!ShouldStop, ShouldStop, Greedy!Inactive, Inactive, Greedy!Tick, Tick,
       Greedy!RegisterImprovement, RegisterImprovement, Greedy!AddItem, AddItem,
       Greedy!Items, Items, Greedy!EmptySolution, EmptySolution,
       Greedy!SolutionType, SolutionType, Greedy!StoppingType, StoppingType,
       Greedy!LimitsType, LimitsType

\* The operators of the descent.
LEMMA LocalOperators ==
  /\ \A s : /\ Local!ShouldStop(s) <=> ShouldStop(s)
            /\ Local!Tick(s) = Tick(s)
            /\ Local!RegisterImprovement(s) = RegisterImprovement(s)
            /\ Local!Expire(s) = Expire(s)
  /\ \A s : Local!NewState(s) = NewState(s)
  /\ Local!StateType = StateType /\ Local!StoppingType = StoppingType
  /\ Local!NeighborhoodNames = NeighborhoodNames
<1>1. \A s : /\ Local!ShouldStop(s) <=> ShouldStop(s)
             /\ Local!Tick(s) = Tick(s)
             /\ Local!RegisterImprovement(s) = RegisterImprovement(s)
             /\ Local!Expire(s) = Expire(s)
  BY DEF Local!ShouldStop, ShouldStop, Local!Inactive, Inactive, Local!Tick, Tick,
         Local!RegisterImprovement, RegisterImprovement, Local!Expire, Expire
<1>2. Local!Items = Items
  BY DEF Local!Items, Items
<1>3. \A s : Local!NewState(s) = NewState(s)
  BY SameCardinality DEF Local!NewState, NewState, Local!Items, Items
<1>4. Local!StateType = StateType
  BY <1>2 DEF Local!StateType, StateType, Local!SolutionType, SolutionType
<1>5. Local!StoppingType = StoppingType
  BY DEF Local!StoppingType, StoppingType, Local!LimitsType, LimitsType,
         Local!Inactive, Inactive
<1>6. Local!NeighborhoodNames = NeighborhoodNames
  BY DEF Local!NeighborhoodNames, NeighborhoodNames
<1> QED BY <1>1, <1>3, <1>4, <1>5, <1>6

\* Its moves.
LEMMA LocalMoves == \A name, st : Local!Moves(name, st) = Moves(name, st)
<1>1. Local!Items = Items
  BY DEF Local!Items, Items
<1>2. /\ \A i, u : Local!HasConflict(i, u) <=> HasConflict(i, u)
      /\ \A i, u : Local!C(i, u) = C(i, u)
  <2>1. \A i, u : Local!HasConflict(i, u) <=> HasConflict(i, u)
    BY SameCardinality DEF Local!HasConflict, HasConflict, Local!Items, Items
  <2> QED BY <2>1 DEF Local!C, C
<1>3. \A st : Local!AddMoves(st) = AddMoves(st)
  BY <1>1 DEF Local!AddMoves, AddMoves
<1>4. \A st : Local!Swap11Moves(st) = Swap11Moves(st)
  BY <1>1, <1>2 DEF Local!Swap11Moves, Swap11Moves
<1>5. \A st : Local!Swap21Moves(st) = Swap21Moves(st)
  BY <1>1, <1>2 DEF Local!Swap21Moves, Swap21Moves
<1>6. \A st, i : Local!Candidates(st, i) = Candidates(st, i)
  BY <1>1, <1>2 DEF Local!Candidates, Candidates
<1>7. \A st : Local!Swap12Moves(st) = Swap12Moves(st)
  BY <1>1, <1>2, <1>6 DEF Local!Swap12Moves, Swap12Moves
<1> QED BY <1>3, <1>4, <1>5, <1>7 DEF Local!Moves, Moves

\* What its moves do.
LEMMA LocalResult == \A name, st, m : Local!Result(name, st, m) = Result(name, st, m)
<1>1. Local!Items = Items
  BY DEF Local!Items, Items
<1>2. \A s, i : Local!AddItem(s, i) = AddItem(s, i) /\ Local!RemoveItem(s, i) = RemoveItem(s, i)
  BY <1>1 DEF Local!AddItem, AddItem, Local!RemoveItem, RemoveItem
<1>3. \A c, i, d : Local!Bump(c, i, d) = Bump(c, i, d)
  BY <1>1 DEF Local!Bump, Bump
<1>4. \A st, i : /\ Local!ApplyAdd(st, i) = ApplyAdd(st, i)
                 /\ Local!ApplyRemove(st, i) = ApplyRemove(st, i)
  BY <1>2, <1>3 DEF Local!ApplyAdd, ApplyAdd, Local!ApplyRemove, ApplyRemove
<1> QED BY <1>4 DEF Local!Result, Result

\* The order that the construction starts with is a profit order.
LEMMA BeginConstructs ==
  ASSUME Greedy!Begin
  PROVE  Constructing(order, pos, solution, forbidden, remaining) /\ building \in BOOLEAN
<1>1. order \in Greedy!ProfitOrders
  BY DEF Greedy!Begin
<1> DEFINE profitable == {i \in Items : Profit[i] > 0}
<1>2. /\ order \in [1 .. Cardinality(profitable) -> profitable]
      /\ \A p, q \in 1 .. Cardinality(profitable) : p < q => order[p] # order[q]
  BY <1>1, SameCardinality, GreedyOperators DEF Greedy!ProfitOrders
<1>3. IsOrder(order)
  BY <1>2, SortIsOrder
<1> QED BY <1>3, ConstructionBegins, GreedyOperators DEF Greedy!Begin

\* Its steps are those of the construction.
LEMMA BuildSteps ==
  ASSUME Greedy!Build, building \in BOOLEAN
  PROVE  /\ ConstructionStep(order, pos, solution, forbidden, remaining, stopping,
                             pos', solution', forbidden', remaining', stopping')
         /\ order' = order /\ building' \in BOOLEAN
<1>1. CASE Greedy!Take
  BY <1>1, GreedyOperators
     DEF Greedy!Take, Greedy!Turn, Greedy!Accepts, ConstructionStep
<1>2. CASE Greedy!Skip
  BY <1>2, GreedyOperators DEF Greedy!Skip, Greedy!Turn, ConstructionStep
<1>3. CASE Greedy!Finish
  BY <1>3 DEF Greedy!Finish, ConstructionStep
<1> QED BY <1>1, <1>2, <1>3 DEF Greedy!Build

\* The steps of the descent are those of the descent.
LEMMA DescendSteps ==
  ASSUME Local!Descend
  PROVE  /\ DescentStep(schedule, state, k, mode, stopping, state', k', mode', stopping')
         /\ schedule' = schedule
<1>1. CASE Local!Move
  BY <1>1, LocalOperators, LocalMoves, LocalResult
     DEF Local!Move, Local!Turn, DescentStep
<1>2. CASE Local!NoMove
  BY <1>2, LocalOperators, LocalMoves DEF Local!NoMove, Local!Turn, DescentStep
<1>3. CASE Local!Interrupted
  BY <1>3, LocalOperators DEF Local!Interrupted, Local!Turn, DescentStep
<1>4. CASE Local!Return
  BY <1>4, LocalOperators DEF Local!Return, DescentStep
<1> QED BY <1>1, <1>2, <1>3, <1>4 DEF Local!Descend

-----------------------------------------------------------------------------
(* The inductive invariant.                                                *)

\* Once the loop has been reached, the incumbent is a local optimum unless a
\* limit has cut its descent short, which ends the search if no later gain
\* can reopen it.
StartsFromOptima ==
  phase \notin {"construct", "first"} /\ stopping.limits.no_improve = Inactive
    => ShouldStop(stopping)
       \/ \A p \in DOMAIN schedule : LocallyOptimal(schedule[p], incumbent.items)

\* The kick, the descent and the two retained solutions each have exact books
\* of their own: the comparisons of profits at the end of a turn decide what
\* they are meant to only because all totals are those of the items.
IInv ==
  /\ Constructing(order, pos, solution, forbidden, remaining)
  /\ building \in BOOLEAN
  /\ Descending(schedule, state, k, mode, stopping)
  /\ mode # "idle" => phase \in {"first", "improve"}
  /\ strength \in Int
  /\ kick = StateOf(kick.solution.items) /\ Feasible(kick.solution.items)
  /\ fill \in 1 .. Len(order) + 1
  /\ Held(incumbent) /\ Held(best)
  /\ incumbent.profit = best.profit
  /\ phase \in {"construct", "first", "loop", "destroy", "repair", "kicked",
                "improve", "done"}
  /\ StartsFromOptima

\* The empty solution is held from the start.
LEMMA EmptyHeld ==
  /\ Held(EmptySolution) /\ EmptySolution = SolutionOf({})
  /\ NoState = StateOf({}) /\ NoState.solution.items = {}
<1>1. EmptySolution = SolutionOf({}) /\ EmptySolution.items = {}
  BY TotalsType DEF EmptySolution, SolutionOf
<1>2. NoState = StateOf({})
  BY <1>1 DEF NoState, StateOf
<1> QED BY <1>1, <1>2, StateOfFields, EmptyFeasible, {} \in SUBSET Items DEF Held

\* The state of run() before its first statement.
LEMMA InitIInv == Init => IInv
<1> SUFFICES ASSUME Init PROVE IInv
  OBVIOUS
<1>1. Constructing(order, pos, solution, forbidden, remaining) /\ building \in BOOLEAN
  BY BeginConstructs DEF Init
<1>2. schedule \in Seq(NeighborhoodNames) /\ stopping \in StoppingType
  BY ScheduleType, StoppingTypes DEF Init
<1>3. Descending(schedule, state, k, mode, stopping)
  <2>1. 1 \in 1 .. Len(schedule) + 1
    BY <1>2
  <2> QED BY <1>2, <2>1, DescentIdle, EmptyHeld, EmptyFeasible DEF Init
<1>4. kick = StateOf(kick.solution.items) /\ Feasible(kick.solution.items)
  BY EmptyHeld, EmptyFeasible DEF Init
<1>5. fill \in 1 .. Len(order) + 1
  BY <1>1, ConstructingTypes DEF Init
<1>6. strength \in Int
  BY StrengthsAssumption DEF Init
<1> QED BY <1>1, <1>3, <1>4, <1>5, <1>6, EmptyHeld DEF Init, IInv, StartsFromOptima

\* While the incumbent and the schedule stay, so does what is known of them.
LEMMA OptimaStay ==
  ASSUME IInv, KeepsStop(stopping, stopping'), UNCHANGED <<schedule, incumbent>>,
         phase \in {"construct", "first"} => phase' \in {"construct", "first"}
  PROVE  StartsFromOptima'
BY DEF IInv, StartsFromOptima, KeepsStop

\* A turn of the construction.
LEMMA ConstructStep ==
  ASSUME IInv, Construct
  PROVE  /\ IInv'
         /\ \/ solution' = solution
            \/ TotalProfit(solution'.items) > TotalProfit(solution.items)
<1>1. /\ ConstructionStep(order, pos, solution, forbidden, remaining, stopping,
                          pos', solution', forbidden', remaining', stopping')
      /\ order' = order /\ building' \in BOOLEAN
      /\ phase = "construct" /\ UNCHANGED <<vndVars, ilsVars>>
  BY BuildSteps DEF Construct, IInv
<1>2. stopping \in StoppingType /\ mode = "idle"
  BY <1>1 DEF IInv, Descending
<1>3. /\ Constructing(order, pos, solution, forbidden, remaining)'
      /\ solution' = solution \/ TotalProfit(solution'.items) > TotalProfit(solution.items)
      /\ KeepsStop(stopping, stopping')
  BY <1>1, <1>2, ConstructionStepKeeps DEF IInv
<1>4. Descending(schedule, state, k, mode, stopping)'
  BY <1>1, <1>2, <1>3, DescentWaits DEF IInv, KeepsStop, vndVars
<1>5. StartsFromOptima'
  BY <1>1, <1>3, OptimaStay DEF vndVars, ilsVars
<1> QED BY <1>1, <1>3, <1>4, <1>5 DEF IInv, vndVars, ilsVars

\* A call of improve on a held solution.
LEMMA ImproveStep ==
  ASSUME IInv, NEW s, Held(s), Local!Improve(s)
  PROVE  /\ Descending(schedule, state, k, mode, stopping)'
         /\ state' = StateOf(s.items)
         /\ UNCHANGED <<schedule, stopping>>
<1>1. schedule \in Seq(NeighborhoodNames) /\ stopping \in StoppingType
  BY DEF IInv, Descending
<1>2. /\ state' = StateOf(s.items) /\ Feasible(s.items)
      /\ k' = 1 /\ mode' = IF N = 0 \/ schedule = <<>> THEN "returned" ELSE "descend"
      /\ UNCHANGED <<schedule, stopping>>
  BY HeldFields, LocalOperators DEF Local!Improve, Held
<1>3. Descending(schedule, StateOf(s.items), 1,
                 IF N = 0 \/ schedule = <<>> THEN "returned" ELSE "descend", stopping)
  BY <1>1, <1>2, DescentBegins
<1> QED BY <1>2, <1>3

\* A step of a descent.
LEMMA DescendStep ==
  ASSUME IInv, Descend
  PROVE  /\ IInv'
         /\ Feasible(state'.solution.items)
         /\ \/ state' = state
            \/ TotalProfit(state'.solution.items) > TotalProfit(state.solution.items)
<1>1. /\ DescentStep(schedule, state, k, mode, stopping, state', k', mode', stopping')
      /\ schedule' = schedule /\ UNCHANGED <<greedyVars, ilsVars>>
      /\ phase \in {"first", "improve"}
  BY DescendSteps DEF Descend
<1>2. /\ Descending(schedule, state, k, mode, stopping)'
      /\ \/ state' = state
         \/ TotalProfit(state'.solution.items) > TotalProfit(state.solution.items)
      /\ KeepsStop(stopping, stopping')
  BY <1>1, DescentStepKeeps DEF IInv
<1>3. StartsFromOptima'
  BY <1>1, <1>2, OptimaStay DEF ilsVars
<1>4. IInv'
  BY <1>1, <1>2, <1>3 DEF IInv, greedyVars, ilsVars
<1> QED BY <1>2, <1>4 DEF Descending

\* The kick takes items from a copy of the incumbent and repairs it.
LEMMA KickSteps ==
  ASSUME IInv, Destroy \/ Repair
  PROVE  kick' = StateOf(kick'.solution.items) /\ Feasible(kick'.solution.items)
<1> DEFINE S == kick.solution.items
<1>1. kick = StateOf(S) /\ Feasible(S) /\ S \in SUBSET Items /\ ConflictFree(S)
  BY DEF IInv, Feasible
<1>2. CASE Destroy
  <2>1. PICK i \in S : kick' = ApplyRemove(kick, i)
    BY <1>2 DEF Destroy
  <2>2. kick' = StateOf(S \ {i}) /\ Feasible(S \ {i})
    BY <1>1, <2>1, ApplyRemoveExact, FeasibleRemove
  <2> QED BY <2>2, FeasibleStateOf
<1>3. CASE Repair
  <2> DEFINE u == order[fill]
  <2>1. u \in Items
    BY <1>3 DEF Repair, IInv, Constructing, IsOrder
  <2>2. CASE Insertable(kick, u)
    <3>1. u \notin S /\ Cardinality(Graph[u] \cap S) = 0 /\ TotalWeight(S) + Weight[u] <= Capacity
      <4>1. /\ kick.in_solution[u] = (u \in S)
            /\ kick.conflict_count[u] = Cardinality(Graph[u] \cap S)
            /\ kick.solution.weight = TotalWeight(S)
        BY <1>1, <2>1, StateOfFields
      <4> QED BY <2>2, <4>1 DEF Insertable
    <3>2. Feasible(S \cup {u})
      BY <1>1, <2>1, <3>1, NoNeighbour, EnterFeasible
    <3>3. kick' = StateOf(S \cup {u})
      BY <1>1, <1>3, <2>1, <2>2, <3>1, ApplyAddExact DEF Repair
    <3> QED BY <3>2, <3>3, FeasibleStateOf
  <2>3. CASE ~ Insertable(kick, u)
    BY <1>1, <1>3, <2>3 DEF Repair
  <2> QED BY <2>2, <2>3
<1> QED BY <1>2, <1>3

\* The end of a turn: two tests, one outcome.
LEMMA AcceptStep ==
  ASSUME IInv, Accept
  PROVE  /\ IInv'
         /\ \/ best' = best
            \/ best'.items = state.solution.items /\ best'.profit > best.profit
<1> DEFINE candidate == state.solution
<1>1. /\ Held(candidate) /\ mode = "returned" /\ stopping \in StoppingType
      /\ Descending(schedule, state, k, "returned", stopping)
      /\ schedule \in Seq(NeighborhoodNames) /\ k \in 1 .. Len(schedule) + 1
  BY StatesHold DEF Accept, IInv, Descending
<1>2. /\ best' = IF candidate.profit > best.profit THEN candidate ELSE best
      /\ incumbent' = IF candidate.profit >= incumbent.profit THEN candidate ELSE incumbent
      /\ stopping' = IF candidate.profit > best.profit
                       THEN RegisterImprovement(stopping) ELSE stopping
      /\ phase = "improve" /\ phase' = "loop" /\ mode' = "idle" /\ state' = NoState
      /\ UNCHANGED <<greedyVars, schedule, k, strength, kick, fill>>
  BY DEF Accept, Improved, Accepted
<1>3. /\ candidate.profit \in Int /\ best.profit \in Int /\ incumbent.profit = best.profit
  BY <1>1, HeldFields DEF IInv
<1>4. Held(best') /\ Held(incumbent') /\ incumbent'.profit = best'.profit
  BY <1>1, <1>2, <1>3 DEF IInv
<1>5. stopping' \in StoppingType /\ KeepsStop(stopping, stopping')
  BY <1>1, <1>2, MethodsKeepStop DEF KeepsStop
<1>6. Descending(schedule, state, k, mode, stopping)'
  BY <1>1, <1>2, <1>5, DescentIdle, EmptyHeld, EmptyFeasible
<1>7. ShouldStop(stopping)
        \/ \A p \in DOMAIN schedule : LocallyOptimal(schedule[p], candidate.items)
  BY <1>1 DEF Descending, OptimalFor
<1>8. StartsFromOptima'
  BY <1>2, <1>5, <1>7 DEF IInv, StartsFromOptima, KeepsStop
<1>9. IInv'
  BY <1>2, <1>4, <1>6, <1>8 DEF IInv, greedyVars
<1> QED BY <1>2, <1>9

\* Every other step of run() preserves the invariant as well.
LEMMA NextIInv == IInv /\ [Next]_vars => IInv'
<1> SUFFICES ASSUME IInv, [Next]_vars PROVE IInv'
  OBVIOUS
<1> USE DEF greedyVars, vndVars, ilsVars
<1>0. stopping \in StoppingType /\ KeepsStop(stopping, stopping)
  BY MethodsKeepStop DEF IInv, Descending
<1>1. CASE Construct
  BY <1>1, ConstructStep
<1>2. CASE FirstDescent
  <2>1. Local!Improve(solution) /\ Held(solution)
    BY <1>2 DEF FirstDescent, IInv, Constructing, Held
  <2>2. /\ Descending(schedule, state, k, mode, stopping)'
        /\ UNCHANGED <<schedule, stopping>>
    BY <2>1, ImproveStep
  <2> QED BY <1>2, <2>2 DEF FirstDescent, IInv, StartsFromOptima
<1>3. CASE Descend
  BY <1>3, DescendStep
<1>4. CASE TakeFirst
  <2>1. Held(state.solution)
    BY StatesHold DEF IInv, Descending
  <2>2. Descending(schedule, state, k, mode, stopping)'
    BY <1>0, <1>4, DescentIdle, EmptyHeld, EmptyFeasible DEF TakeFirst, IInv, Descending
  <2>3. StartsFromOptima'
    BY <1>4 DEF TakeFirst, IInv, Descending, OptimalFor, StartsFromOptima
  <2> QED BY <1>4, <2>1, <2>2, <2>3 DEF TakeFirst, IInv
<1>5. CASE Perturb
  <2>1. kick' = StateOf(incumbent.items) /\ Feasible(incumbent.items)
    BY <1>5, HeldFields DEF Perturb, IInv, Held
  <2>2. kick' = StateOf(kick'.solution.items) /\ Feasible(kick'.solution.items)
    BY <2>1, FeasibleStateOf
  <2>3. KeepsStop(stopping, stopping') /\ mode = "idle"
    BY <1>0, <1>5, MethodsKeepStop DEF Perturb, IInv, Descending
  <2>4. Descending(schedule, state, k, mode, stopping)'
    BY <1>5, <2>3, DescentWaits DEF Perturb, IInv, KeepsStop
  <2>5. StartsFromOptima'
    BY <1>5, <2>3, OptimaStay DEF Perturb
  <2>6. fill' \in 1 .. Len(order') + 1
    BY <1>5 DEF Perturb, IInv
  <2> QED BY <1>5, <2>2, <2>3, <2>4, <2>5, <2>6 DEF Perturb, IInv
<1>6. CASE Destroy
  BY <1>0, <1>6, KickSteps, OptimaStay DEF Destroy, IInv
<1>7. CASE Destroyed
  BY <1>0, <1>7, OptimaStay DEF Destroyed, IInv
<1>8. CASE Repair
  <2>1. fill' \in 1 .. Len(order') + 1
    BY <1>8 DEF Repair, IInv, Constructing, IsOrder
  <2> QED BY <1>0, <1>8, <2>1, KickSteps, OptimaStay DEF Repair, IInv
<1>9. CASE Repaired
  BY <1>0, <1>9, OptimaStay DEF Repaired, IInv
<1>10. CASE NextDescent
  <2>1. Local!Improve(kick.solution) /\ Held(kick.solution)
    BY <1>10, StatesHold DEF NextDescent, IInv
  <2>2. /\ Descending(schedule, state, k, mode, stopping)'
        /\ UNCHANGED <<schedule, stopping>>
    BY <2>1, ImproveStep
  <2>3. kick' = StateOf(kick'.solution.items) /\ Feasible(kick'.solution.items)
    BY <1>10, EmptyHeld, EmptyFeasible DEF NextDescent
  <2>4. StartsFromOptima'
    BY <1>0, <1>10, <2>2, OptimaStay DEF NextDescent
  <2> QED BY <1>10, <2>2, <2>3, <2>4 DEF NextDescent, IInv
<1>11. CASE Accept
  BY <1>11, AcceptStep
<1>12. CASE Finish
  BY <1>0, <1>12, OptimaStay DEF Finish, IInv
<1>13. CASE TimeOut
  <2>1. KeepsStop(stopping, stopping')
    BY <1>0, <1>13, MethodsKeepStop DEF TimeOut
  <2>2. Descending(schedule, state, k, mode, stopping)'
    BY <1>13, DescentTimesOut DEF TimeOut, IInv
  <2>3. StartsFromOptima'
    BY <1>13, <2>1, OptimaStay DEF TimeOut
  <2> QED BY <1>13, <2>2, <2>3 DEF TimeOut, IInv
<1>14. CASE UNCHANGED vars
  BY <1>14 DEF vars, IInv, StartsFromOptima
<1> QED
  BY <1>1, <1>2, <1>3, <1>4, <1>5, <1>6, <1>7, <1>8, <1>9, <1>10, <1>11, <1>12, <1>13, <1>14
  DEF Next, Run

\* The invariant holds in every state of every search.
THEOREM Invariance == Spec => []IInv
BY InitIInv, NextIInv, PTL DEF Spec

-----------------------------------------------------------------------------
(* The theorems.                                                           *)

\* The variables keep their types: no loop leaves its schedule or its order,
\* and no comparison meets a solution that is not one.
THEOREM TypeCorrect == Spec => []TypeOK
<1>1. IInv => TypeOK
  <2> SUFFICES ASSUME IInv PROVE TypeOK
    OBVIOUS
  <2>1. /\ order \in Seq(Items) /\ pos \in 1 .. Len(order) + 1
        /\ solution \in SolutionType /\ forbidden \in SUBSET Items /\ remaining \in Int
        /\ building \in BOOLEAN /\ stopping \in StoppingType
    BY ConstructingTypes DEF IInv, Descending
  <2>2. Greedy!TypeOK
    BY <2>1, GreedyOperators DEF Greedy!TypeOK
  <2>3. state \in StateType /\ kick \in StateType
    BY FeasibleStateOf DEF IInv, Descending
  <2>4. Local!TypeOK
    BY <2>3, LocalOperators DEF Local!TypeOK, IInv, Descending
  <2>5. incumbent \in SolutionType /\ best \in SolutionType
    BY HeldFields DEF IInv
  <2> QED BY <2>2, <2>3, <2>4, <2>5 DEF TypeOK, IInv
<1> QED BY <1>1, Invariance, PTL

\* Every step of every kick leaves exact books and a feasible selection, so
\* that each descent starts from a feasible seed.
THEOREM KicksAreFeasible == Spec => []KickKeepsBooks
<1>1. IInv => KickKeepsBooks
  BY FeasibleStateOf DEF IInv, KickKeepsBooks
<1> QED BY <1>1, Invariance, PTL

\* The two tests at the end of a turn never let best and incumbent differ in
\* profit.
THEOREM PlateausOnly == Spec => []IncumbentKeepsBestProfit
<1>1. IInv => IncumbentKeepsBestProfit
  BY DEF IInv, IncumbentKeepsBestProfit
<1> QED BY <1>1, Invariance, PTL

\* Without a no-improvement limit, every kick starts from a local optimum.
THEOREM KicksStartFromOptima == Spec => []KicksLocalOptima
<1>1. IInv => KicksLocalOptima
  BY DEF IInv, StartsFromOptima, KicksLocalOptima
<1> QED BY <1>1, Invariance, PTL

\* With one, a descent that a limit has cut short is followed by another turn
\* only if it was a strict gain on the best solution.
THEOREM OnlyGainsReopen == Spec => OnlyGainsReopenTheSearch
<1> DEFINE reopens ==
      phase = "improve" /\ phase' = "loop" /\ ~ ShouldStop(stopping')
        => \/ \A p \in DOMAIN schedule :
                LocallyOptimal(schedule[p], state.solution.items)
           \/ ShouldStop(stopping) /\ best'.profit > best.profit
<1>1. ASSUME IInv, [Next]_vars PROVE reopens
  <2> SUFFICES ASSUME phase = "improve", phase' = "loop", ~ ShouldStop(stopping')
               PROVE  \/ \A p \in DOMAIN schedule :
                           LocallyOptimal(schedule[p], state.solution.items)
                      \/ ShouldStop(stopping) /\ best'.profit > best.profit
    OBVIOUS
  <2>1. Accept
    BY <1>1 DEF Next, Run, Construct, FirstDescent, Descend, TakeFirst, Perturb, Destroy,
                Destroyed, Repair, Repaired, NextDescent, Finish, TimeOut, vars, ilsVars
  <2>2. ShouldStop(stopping) \/ \A p \in DOMAIN schedule :
                                   LocallyOptimal(schedule[p], state.solution.items)
    BY <1>1, <2>1 DEF Accept, IInv, Descending, OptimalFor
  <2>3. ASSUME ShouldStop(stopping) PROVE best'.profit > best.profit
    BY <2>1, <2>3 DEF Accept, Improved
  <2> QED BY <2>2, <2>3
<1>2. IInv /\ [Next]_vars => [reopens]_vars
  BY <1>1
<1> QED BY <1>2, Invariance, PTL DEF Spec, OnlyGainsReopenTheSearch

\* < and == agree on the solutions of a search and order them strictly.
THEOREM OrderAgrees == Spec => []OrderAgreesWithEquality
<1>1. IInv => OrderAgreesWithEquality
  <2> DEFINE pool == {incumbent, best, kick.solution, state.solution}
  <2> SUFFICES ASSUME IInv, NEW x \in pool, NEW y \in pool
               PROVE  /\ Equal(x, y) <=> ~ Less(x, y) /\ ~ Less(y, x)
                      /\ ~ (Less(x, y) /\ Less(y, x))
                      /\ \A z \in pool : Less(x, y) /\ Less(y, z) => Less(x, z)
    BY DEF OrderAgreesWithEquality
  <2>1. \A z \in pool : z.items \in SUBSET Items /\ z = SolutionOf(z.items)
    BY StatesHold DEF IInv, Descending, Held, Feasible
  <2> HIDE DEF pool
  <2> QED BY <2>1, LessOrdersSolutions
<1> QED BY <1>1, Invariance, PTL

-----------------------------------------------------------------------------
(* The whole search implements the safety part of AnytimeSearch.           *)

\* The abstract search speaks of the same items, totals and conflicts.
LEMMA SameProblem ==
  /\ Anytime!Items = Items
  /\ \A S : Anytime!TotalProfit(S) = TotalProfit(S)
  /\ \A S : Anytime!Feasible(S) <=> Feasible(S)
<1>1. \A w, S : Anytime!SumFunctionOnSet(w, S) = SumFunctionOnSet(w, S)
  BY DEF Anytime!SumFunctionOnSet, Anytime!FoldFunctionOnSet, Anytime!MapThenFoldSet,
         SumFunctionOnSet, FoldFunctionOnSet, MapThenFoldSet
<1>2. /\ Anytime!Items = Items
      /\ \A S : Anytime!TotalProfit(S) = TotalProfit(S)
      /\ \A S : Anytime!TotalWeight(S) = TotalWeight(S)
  BY <1>1 DEF Anytime!Items, Items, Anytime!TotalProfit, TotalProfit,
              Anytime!TotalWeight, TotalWeight
<1> QED BY <1>2 DEF Anytime!ConflictFree, ConflictFree, Anytime!Feasible, Feasible

\* The selection that would be returned.
Shown == CASE phase = "construct" -> solution.items
           [] phase = "first"     -> state.solution.items
           [] OTHER               -> best.items

\* What the abstract search sees of a step: nothing, a gain, or the return.
LEMMA SeenSteps ==
  /\ Shown' = Shown /\ (phase' = "done") = (phase = "done") => UNCHANGED Anytime!vars
  /\ /\ (phase = "done") = FALSE /\ (phase' = "done") = FALSE
     /\ Feasible(Shown') /\ TotalProfit(Shown') > TotalProfit(Shown)
     => Anytime!Improve
  /\ (phase = "done") = FALSE /\ (phase' = "done") = TRUE /\ Shown' = Shown
     => Anytime!Return
<1>1. ASSUME Shown' = Shown, (phase' = "done") = (phase = "done")
      PROVE  UNCHANGED Anytime!vars
  BY <1>1 DEF Anytime!vars, Shown
<1>2. ASSUME (phase = "done") = FALSE, (phase' = "done") = FALSE,
             Feasible(Shown'), TotalProfit(Shown') > TotalProfit(Shown)
      PROVE  Anytime!Improve
  BY <1>2, SameProblem DEF Anytime!Improve, Shown, Feasible
<1>3. ASSUME (phase = "done") = FALSE, (phase' = "done") = TRUE, Shown' = Shown
      PROVE  Anytime!Return
  BY <1>3 DEF Anytime!Return, Shown
<1> QED BY <1>1, <1>2, <1>3

\* Construction, first descent and search hand the selection over unchanged,
\* and each changes it by gains only.
LEMMA NextAnytime == IInv /\ [Next]_vars => [Anytime!Next]_(Anytime!vars)
<1> SUFFICES ASSUME IInv, [Next]_vars PROVE [Anytime!Next]_(Anytime!vars)
  OBVIOUS
<1> USE DEF greedyVars, vndVars, ilsVars
<1>0. IInv'
  BY NextIInv
<1>1. ASSUME Shown' = Shown, (phase' = "done") = (phase = "done")
      PROVE  [Anytime!Next]_(Anytime!vars)
  BY <1>1, SeenSteps
<1>2. ASSUME phase # "done", phase' # "done", Feasible(Shown'),
             TotalProfit(Shown') > TotalProfit(Shown)
      PROVE  [Anytime!Next]_(Anytime!vars)
  <2>1. (phase = "done") = FALSE /\ (phase' = "done") = FALSE
    BY <1>2
  <2> QED BY <1>2, <2>1, SeenSteps DEF Anytime!Next
<1>3. CASE Construct
  <2>1. /\ phase = "construct" /\ phase' = "construct"
        /\ Shown = solution.items /\ Shown' = solution'.items
    BY <1>3 DEF Construct, Shown
  <2>2. Feasible(solution'.items)
    BY <1>0 DEF IInv, Constructing
  <2> QED BY <1>1, <1>2, <1>3, <2>1, <2>2, ConstructStep
<1>4. CASE FirstDescent
  <2>1. Local!Improve(solution) /\ Held(solution)
    BY <1>4 DEF FirstDescent, IInv, Constructing, Held
  <2>2. state'.solution.items = solution.items
    BY <2>1, ImproveStep, FeasibleStateOf DEF Held
  <2> QED BY <1>1, <1>4, <2>2 DEF FirstDescent, Shown
<1>5. CASE Descend
  <2>1. CASE phase = "first"
    <3>1. /\ phase' = "first" /\ Shown = state.solution.items
          /\ Shown' = state'.solution.items
      BY <1>5, <2>1 DEF Descend, Shown
    <3> QED BY <1>1, <1>2, <1>5, <2>1, <3>1, DescendStep
  <2>2. CASE phase = "improve"
    BY <1>1, <1>5, <2>2 DEF Descend, Shown
  <2> QED BY <1>5, <2>1, <2>2 DEF Descend
<1>6. CASE TakeFirst
  BY <1>1, <1>6 DEF TakeFirst, Shown
<1>7. CASE Perturb \/ Destroy \/ Destroyed \/ Repair \/ Repaired \/ NextDescent
  BY <1>1, <1>7 DEF Perturb, Destroy, Destroyed, Repair, Repaired, NextDescent, Shown
<1>8. CASE Accept
  <2>1. /\ phase = "improve" /\ phase' = "loop"
        /\ Shown = best.items /\ Shown' = best'.items
    BY <1>8 DEF Accept, Shown
  <2>2. CASE best' = best
    BY <1>1, <2>1, <2>2
  <2>3. CASE best'.profit > best.profit
    <3>1. Held(best) /\ Held(best')
      BY <1>0 DEF IInv
    <3>2. TotalProfit(best'.items) > TotalProfit(best.items) /\ Feasible(best'.items)
      BY <2>3, <3>1, HeldFields DEF Held
    <3> QED BY <1>2, <2>1, <3>2
  <2> QED BY <1>8, <2>2, <2>3, AcceptStep
<1>9. CASE Finish
  <2>1. (phase = "done") = FALSE /\ (phase' = "done") = TRUE /\ Shown' = Shown
    BY <1>9 DEF Finish, Shown
  <2> QED BY <2>1, SeenSteps DEF Anytime!Next
<1>10. CASE TimeOut
  BY <1>1, <1>10 DEF TimeOut, Shown
<1>11. CASE UNCHANGED vars
  BY <1>1, <1>11 DEF vars, Shown
<1> QED
  BY <1>3, <1>4, <1>5, <1>6, <1>7, <1>8, <1>9, <1>10, <1>11 DEF Next, Run

\* From the empty selection to the result, the selection that would be returned
\* is feasible, gains with every change, and is final once it is returned.
THEOREM AnytimeSafety == Spec => Anytime!Safe
<1>1. Init => Anytime!Init
  <2> SUFFICES ASSUME Init PROVE Anytime!Init
    OBVIOUS
  <2>1. phase = "construct" /\ solution.items = {}
    BY GreedyOperators DEF Init, Greedy!Begin, EmptySolution
  <2> QED BY <2>1, SameProblem, EmptyFeasible, {} \in SUBSET Items DEF Anytime!Init
<1> QED BY <1>1, Invariance, NextAnytime, PTL DEF Spec, Anytime!Safe

=============================================================================
