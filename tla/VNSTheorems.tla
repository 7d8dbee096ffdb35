---------------------------- MODULE VNSTheorems -----------------------------
(***************************************************************************)
(* Theorems about variable neighborhood search, for every instance,        *)
(* schedule, k_max and combination of limits.  As ILS does, VNS runs       *)
(* instances of GreedyMaxProfit and VND on its own variables, and their    *)
(* steps are brought back to the steps that SelectionTheorems speaks of.   *)
(***************************************************************************)
EXTENDS VNS, SelectionTheorems

-----------------------------------------------------------------------------
(* The instances compute with the same operators.                          *)

\* What both take from the library.
LEMMA SameCardinality ==
  \A S : Greedy!Cardinality(S) = Cardinality(S) /\ Local!Cardinality(S) = Cardinality(S)
BY DEF Greedy!Cardinality, Local!Cardinality, Cardinality

\* The operators of the construction.
LEMMA GreedyOperators ==
  /\ \A s : /\ Greedy!ShouldStop(s) <=> ShouldStop(s)
            /\ Greedy!Tick(s) = Tick(s)
            /\ Greedy!RegisterImprovement(s) = RegisterImprovement(s)
  /\ \A s, i : Greedy!AddItem(s, i) = AddItem(s, i)
  /\ Greedy!EmptySolution = EmptySolution
  /\ Greedy!Items = Items /\ Greedy!SolutionType = SolutionType
  /\ Greedy!StoppingType = StoppingType
BY DEF Greedy!ShouldStop, ShouldStop, Greedy!Inactive, Inactive, Greedy!Tick, Tick,
       Greedy!RegisterImprovement, RegisterImprovement, Greedy!AddItem, AddItem,
       Greedy!Items, Items, Greedy!EmptySolution, EmptySolution,
       Greedy!SolutionType, SolutionType, Greedy!StoppingType, StoppingType,
       Greedy!LimitsType, LimitsType

\* The operators of the descent.
LEMMA LocalOperators ==
  /\ \A s : /\ Local!ShouldStop(s) <=> ShouldStop(s)
            /\ Local!Tick(s) = Tick(s)
            /\ Local!RegisterImprovement(s) = RegisterImprovement(s)
            /\ Local!Expire(s) = Expire(s)
  /\ \A s : Local!NewState(s) = NewState(s)
  /\ Local!StateType = StateType /\ Local!StoppingType = StoppingType
  /\ Local!NeighborhoodNames = NeighborhoodNames
<1>1. \A s : /\ Local!ShouldStop(s) <=> ShouldStop(s)
             /\ Local!Tick(s) = Tick(s)
             /\ Local!RegisterImprovement(s) = RegisterImprovement(s)
             /\ Local!Expire(s) = Expire(s)
  BY DEF Local!ShouldStop, ShouldStop, Local!Inactive, Inactive, Local!Tick, Tick,
         Local!RegisterImprovement, RegisterImprovement, Local!Expire, Expire
<1>2. Local!Items = Items
  BY DEF Local!Items, Items
<1>3. \A s : Local!NewState(s) = NewState(s)
  BY SameCardinality DEF Local!NewState, NewState, Local!Items, Items
<1>4. Local!StateType = StateType
  BY <1>2 DEF Local!StateType, StateType, Local!SolutionType, SolutionType
<1>5. Local!StoppingType = StoppingType
  BY DEF Local!StoppingType, StoppingType, Local!LimitsType, LimitsType,
         Local!Inactive, Inactive
<1>6. Local!NeighborhoodNames = NeighborhoodNames
  BY DEF Local!NeighborhoodNames, NeighborhoodNames
<1> QED BY <1>1, <1>3, <1>4, <1>5, <1>6

\* Its moves.
LEMMA LocalMoves == \A name, st : Local!Moves(name, st) = Moves(name, st)
<1>1. Local!Items = Items
  BY DEF Local!Items, Items
<1>2. /\ \A i, u : Local!HasConflict(i, u) <=> HasConflict(i, u)
      /\ \A i, u : Local!C(i, u) = C(i, u)
  <2>1. \A i, u : Local!HasConflict(i, u) <=> HasConflict(i, u)
    BY SameCardinality DEF Local!HasConflict, HasConflict, Local!Items, Items
  <2> QED BY <2>1 DEF Local!C, C
<1>3. \A st : Local!AddMoves(st) = AddMoves(st)
  BY <1>1 DEF Local!AddMoves, AddMoves
<1>4. \A st : Local!Swap11Moves(st) = Swap11Moves(st)
  BY <1>1, <1>2 DEF Local!Swap11Moves, Swap11Moves
<1>5. \A st : Local!Swap21Moves(st) = Swap21Moves(st)
  BY <1>1, <1>2 DEF Local!Swap21Moves, Swap21Moves
<1>6. \A st, i : Local!Candidates(st, i) = Candidates(st, i)
  BY <1>1, <1>2 DEF Local!Candidates, Candidates
<1>7. \A st : Local!Swap12Moves(st) = Swap12Moves(st)
  BY <1>1, <1>2, <1>6 DEF Local!Swap12Moves, Swap12Moves
<1> QED BY <1>3, <1>4, <1>5, <1>7 DEF Local!Moves, Moves

\* What its moves do.
LEMMA LocalResult == \A name, st, m : Local!Result(name, st, m) = Result(name, st, m)
<1>1. Local!Items = Items
  BY DEF Local!Items, Items
<1>2. \A s, i : Local!AddItem(s, i) = AddItem(s, i) /\ Local!RemoveItem(s, i) = RemoveItem(s, i)
  BY <1>1 DEF Local!AddItem, AddItem, Local!RemoveItem, RemoveItem
<1>3. \A c, i, d : Local!Bump(c, i, d) = Bump(c, i, d)
  BY <1>1 DEF Local!Bump, Bump
<1>4. \A st, i : /\ Local!ApplyAdd(st, i) = ApplyAdd(st, i)
                 /\ Local!ApplyRemove(st, i) = ApplyRemove(st, i)
  BY <1>2, <1>3 DEF Local!ApplyAdd, ApplyAdd, Local!ApplyRemove, ApplyRemove
<1> QED BY <1>4 DEF Local!Result, Result

\* The order that the construction starts with is a profit order.
LEMMA BeginConstructs ==
  ASSUME Greedy!Begin
  PROVE  Constructing(order, pos, solution, forbidden, remaining) /\ building \in BOOLEAN
<1>1. order \in Greedy!ProfitOrders
  BY DEF Greedy!Begin
<1> DEFINE profitable == {i \in Items : Profit[i] > 0}
<1>2. /\ order \in [1 .. Cardinality(profitable) -> profitable]
      /\ \A p, q \in 1 .. Cardinality(profitable) : p < q => order[p] # order[q]
  BY <1>1, SameCardinality, GreedyOperators DEF Greedy!ProfitOrders
<1>3. IsOrder(order)
  BY <1>2, SortIsOrder
<1> QED BY <1>3, ConstructionBegins, GreedyOperators DEF Greedy!Begin

\* Its steps are those of the construction.
LEMMA BuildSteps ==
  ASSUME Greedy!Build, building \in BOOLEAN
  PROVE  /\ ConstructionStep(order, pos, solution, forbidden, remaining, stopping,
                             pos', solution', forbidden', remaining', stopping')
         /\ order' = order /\ building' \in BOOLEAN
<1>1. CASE Greedy!Take
  BY <1>1, GreedyOperators
     DEF Greedy!Take, Greedy!Turn, Greedy!Accepts, ConstructionStep
<1>2. CASE Greedy!Skip
  BY <1>2, GreedyOperators DEF Greedy!Skip, Greedy!Turn, ConstructionStep
<1>3. CASE Greedy!Finish
  BY <1>3 DEF Greedy!Finish, ConstructionStep
<1> QED BY <1>1, <1>2, <1>3 DEF Greedy!Build

\* The steps of the descent are those of the descent.
LEMMA DescendSteps ==
  ASSUME Local!Descend
  PROVE  /\ DescentStep(schedule, state, k, mode, stopping, state', k', mode', stopping')
         /\ schedule' = schedule
<1>1. CASE Local!Move
  BY <1>1, LocalOperators, LocalMoves, LocalResult
     DEF Local!Move, Local!Turn, DescentStep
<1>2. CASE Local!NoMove
  BY <1>2, LocalOperators, LocalMoves DEF Local!NoMove, Local!Turn, DescentStep
<1>3. CASE Local!Interrupted
  BY <1>3, LocalOperators DEF Local!Interrupted, Local!Turn, DescentStep
<1>4. CASE Local!Return
  BY <1>4, LocalOperators DEF Local!Return, DescentStep
<1> QED BY <1>1, <1>2, <1>3, <1>4 DEF Local!Descend

-----------------------------------------------------------------------------
(* The shakes.                                                             *)

\* The tests of the shakes are enough for an item to enter in exchange for a
\* set of others: as many neighbours leave as the counters have seen.
LEMMA EntersFeasibly ==
  ASSUME NEW S, Feasible(S), NEW out \in SUBSET S, NEW u \in Items,
         Enters(StateOf(S), out, u)
  PROVE  u \notin S /\ Feasible((S \ out) \cup {u})
<1>1. S \in SUBSET Items
  BY DEF Feasible
<1>2. /\ u \notin S
      /\ Cardinality(Graph[u] \cap S) = Cardinality({i \in out : HasConflict(i, u)})
      /\ TotalWeight(S) - SumFunctionOnSet(Weight, out) + Weight[u] <= Capacity
  BY <1>1, StateOfFields DEF Enters, Room
<1>3. {i \in out : HasConflict(i, u)} = Graph[u] \cap out
  BY <1>1, HasConflictIsAdjacency, GraphAssumption
<1> QED BY <1>2, <1>3, ExchangeFeasible

\* "max(1, c)".
LEMMA AtLeastOne ==
  ASSUME NEW c \in Int
  PROVE  Max({1, c}) \in Nat \ {0}
<1>1. \E x \in {1, c} : \A y \in {1, c} : x >= y
  OBVIOUS
<1>2. Max({1, c}) \in {1, c} /\ \A y \in {1, c} : Max({1, c}) >= y
  BY <1>1 DEF Max
<1> QED BY <1>2

\* Whatever is drawn, a shake of a feasible selection gives the exact state of
\* a feasible one.
LEMMA ShakesFeasible ==
  ASSUME NEW S, Feasible(S), NEW lev \in Int, NEW st \in Shakes(StateOf(S), lev)
  PROVE  \E T : Feasible(T) /\ st = StateOf(T)
<1> DEFINE goal == \E T : Feasible(T) /\ st = StateOf(T)
<1>1. S \in SUBSET Items /\ StateOf(S).solution.items = S
  BY StateOfFields DEF Feasible
<1>2. ASSUME st = StateOf(S) PROVE goal
  BY <1>2
<1>3. ASSUME NEW u \in Items, Enters(StateOf(S), {}, u), st = ApplyAdd(StateOf(S), u)
      PROVE  goal
  <2>1. u \notin S /\ Feasible((S \ {}) \cup {u})
    BY <1>3, EntersFeasibly, {} \in SUBSET S
  <2>2. st = StateOf(S \cup {u}) /\ (S \ {}) \cup {u} = S \cup {u}
    BY <1>1, <1>3, <2>1, ApplyAddExact
  <2> QED BY <2>1, <2>2
<1>4. ASSUME NEW i \in S, st = ApplyRemove(StateOf(S), i) PROVE goal
  BY <1>1, <1>4, ApplyRemoveExact, FeasibleRemove
<1>5. ASSUME NEW i \in S, NEW u \in Items, Enters(StateOf(S), {i}, u),
             st = ApplyAdd(ApplyRemove(StateOf(S), i), u)
      PROVE  goal
  <2>1. u \notin S /\ Feasible((S \ {i}) \cup {u})
    BY <1>5, EntersFeasibly, {i} \in SUBSET S
  <2>2. st = StateOf((S \ {i}) \cup {u})
    BY <1>1, <1>5, <2>1, ApplyRemoveExact, ApplyAddExact
  <2> QED BY <2>1, <2>2
<1>6. ASSUME NEW i \in S, NEW j \in S, i # j, NEW u \in Items, Enters(StateOf(S), {i, j}, u),
             st = ApplyAdd(ApplyRemove(ApplyRemove(StateOf(S), i), j), u)
      PROVE  goal
  <2>1. u \notin S /\ Feasible((S \ {i, j}) \cup {u})
    BY <1>6, EntersFeasibly, {i, j} \in SUBSET S
  <2>2. ApplyRemove(StateOf(S), i) = StateOf(S \ {i})
    BY <1>1, ApplyRemoveExact
  <2>3. ApplyRemove(StateOf(S \ {i}), j) = StateOf(S \ {i, j})
    <3>1. (S \ {i}) \ {j} = S \ {i, j} /\ j \in S \ {i} /\ S \ {i} \in SUBSET Items
      BY <1>1, <1>6
    <3> QED BY <3>1, ApplyRemoveExact
  <2>4. ApplyAdd(StateOf(S \ {i, j}), u) = StateOf((S \ {i, j}) \cup {u})
    BY <1>1, <2>1, ApplyAddExact
  <2> QED BY <1>6, <2>1, <2>2, <2>3, <2>4
<1>7. ASSUME st \in ShakeAddDrop(StateOf(S)) PROVE goal
  BY <1>1, <1>2, <1>3, <1>4, <1>7 DEF ShakeAddDrop
<1>8. ASSUME st \in ShakeSwap11(StateOf(S)) PROVE goal
  BY <1>1, <1>2, <1>5, <1>8 DEF ShakeSwap11
<1>9. ASSUME st \in ShakeSwap21(StateOf(S)) PROVE goal
  BY <1>1, <1>2, <1>6, <1>9 DEF ShakeSwap21
<1> DEFINE move == ((Max({1, lev}) - 1) % 3) + 1
<1>10. move \in 1 .. 3
  <2>1. Max({1, lev}) \in Int
    BY AtLeastOne
  <2> QED BY <2>1
<1>11. st \in CASE N = 0    -> {StateOf(S)}
                [] N > 0 /\ move = 1 -> ShakeAddDrop(StateOf(S))
                [] N > 0 /\ move = 2 -> ShakeSwap11(StateOf(S))
                [] N > 0 /\ move = 3 -> ShakeSwap21(StateOf(S))
  BY DEF Shakes
<1> HIDE DEF move
<1>12. CASE N = 0
  BY <1>2, <1>11, <1>12
<1>13. CASE N > 0
  BY <1>7, <1>8, <1>9, <1>10, <1>11, <1>13
<1> QED BY <1>12, <1>13, NAssumption

-----------------------------------------------------------------------------
(* The inductive invariant.                                                *)

\* Once the loop has been reached, the incumbent is a local optimum unless a
\* limit has cut its descent short, which ends the search if no later gain
\* can reopen it.
StartsFromOptima ==
  phase \notin {"construct", "first"} /\ stopping.limits.no_improve = Inactive
    => ShouldStop(stopping)
       \/ \A p \in DOMAIN schedule : LocallyOptimal(schedule[p], incumbent.items)

\* The empty solution is held from the start.
LEMMA EmptyHeld ==
  /\ Held(EmptySolution) /\ EmptySolution = SolutionOf({})
  /\ NoState = StateOf({}) /\ NoState.solution.items = {}
<1>1. EmptySolution = SolutionOf({}) /\ EmptySolution.items = {}
  BY TotalsType DEF EmptySolution, SolutionOf
<1>2. NoState = StateOf({})
  BY <1>1 DEF NoState, StateOf
<1> QED BY <1>1, <1>2, StateOfFields, EmptyFeasible, {} \in SUBSET Items DEF Held

\* The two retained solutions are one, and every comparison of profits is one
\* of exact totals.
IInv ==
  /\ Constructing(order, pos, solution, forbidden, remaining)
  /\ building \in BOOLEAN
  /\ Descending(schedule, state, k, mode, stopping)
  /\ mode # "idle" => phase \in {"first", "improve"}
  /\ k_max \in Nat \ {0} /\ level \in 1 .. k_max /\ best_at \in Nat
  /\ Held(shaken) /\ Held(best)
  /\ incumbent = best
  /\ phase \in {"construct", "first", "loop", "shaken", "improve", "done"}
  /\ StartsFromOptima

\* The state of run() before its first statement.
LEMMA InitIInv == Init => IInv
<1> SUFFICES ASSUME Init PROVE IInv
  OBVIOUS
<1>1. Constructing(order, pos, solution, forbidden, remaining) /\ building \in BOOLEAN
  BY BeginConstructs DEF Init
<1>2. schedule \in Seq(NeighborhoodNames) /\ stopping \in StoppingType
  BY ScheduleType, StoppingTypes DEF Init
<1>3. Descending(schedule, state, k, mode, stopping)
  <2>1. 1 \in 1 .. Len(schedule) + 1
    BY <1>2
  <2> QED BY <1>2, <2>1, DescentIdle, EmptyHeld, EmptyFeasible DEF Init
<1>4. k_max \in Nat \ {0} /\ level \in 1 .. k_max
  <2>1. PICK c \in KMaxes : k_max = Max({1, c})
    BY DEF Init
  <2>2. c \in Int /\ level = 1
    BY KMaxesAssumption DEF Init
  <2> QED BY <2>1, <2>2, AtLeastOne
<1> QED BY <1>1, <1>3, <1>4, EmptyHeld DEF Init, IInv, StartsFromOptima

\* While the incumbent and the schedule stay, so does what is known of them.
LEMMA OptimaStay ==
  ASSUME IInv, KeepsStop(stopping, stopping'), UNCHANGED <<schedule, incumbent>>,
         phase \in {"construct", "first"} => phase' \in {"construct", "first"}
  PROVE  StartsFromOptima'
BY DEF IInv, StartsFromOptima, KeepsStop

\* A turn of the construction.
LEMMA ConstructStep ==
  ASSUME IInv, Construct
  PROVE  /\ IInv'
         /\ \/ solution' = solution
            \/ TotalProfit(solution'.items) > TotalProfit(solution.items)
<1>1. /\ ConstructionStep(order, pos, solution, forbidden, remaining, stopping,
                          pos', solution', forbidden', remaining', stopping')
      /\ order' = order /\ building' \in BOOLEAN
      /\ phase = "construct" /\ UNCHANGED <<vndVars, vnsVars>>
  BY BuildSteps DEF Construct, IInv
<1>2. stopping \in StoppingType /\ mode = "idle"
  BY <1>1 DEF IInv, Descending
<1>3. /\ Constructing(order, pos, solution, forbidden, remaining)'
      /\ solution' = solution \/ TotalProfit(solution'.items) > TotalProfit(solution.items)
      /\ KeepsStop(stopping, stopping')
  BY <1>1, <1>2, ConstructionStepKeeps DEF IInv
<1>4. Descending(schedule, state, k, mode, stopping)'
  BY <1>1, <1>2, <1>3, DescentWaits DEF IInv, KeepsStop, vndVars
<1>5. StartsFromOptima'
  BY <1>1, <1>3, OptimaStay DEF vndVars, vnsVars
<1> QED BY <1>1, <1>3, <1>4, <1>5 DEF IInv, vndVars, vnsVars

\* A call of improve on a held solution.
LEMMA ImproveStep ==
  ASSUME IInv, NEW s, Held(s), Local!Improve(s)
  PROVE  /\ Descending(schedule, state, k, mode, stopping)'
         /\ state' = StateOf(s.items)
         /\ UNCHANGED <<schedule, stopping>>
<1>1. schedule \in Seq(NeighborhoodNames) /\ stopping \in StoppingType
  BY DEF IInv, Descending
<1>2. /\ state' = StateOf(s.items) /\ Feasible(s.items)
      /\ k' = 1 /\ mode' = IF N = 0 \/ schedule = <<>> THEN "returned" ELSE "descend"
      /\ UNCHANGED <<schedule, stopping>>
  BY HeldFields, LocalOperators DEF Local!Improve, Held
<1>3. Descending(schedule, StateOf(s.items), 1,
                 IF N = 0 \/ schedule = <<>> THEN "returned" ELSE "descend", stopping)
  BY <1>1, <1>2, DescentBegins
<1> QED BY <1>2, <1>3

\* A step of a descent.
LEMMA DescendStep ==
  ASSUME IInv, Descend
  PROVE  /\ IInv'
         /\ Feasible(state'.solution.items)
         /\ \/ state' = state
            \/ TotalProfit(state'.solution.items) > TotalProfit(state.solution.items)
<1>1. /\ DescentStep(schedule, state, k, mode, stopping, state', k', mode', stopping')
      /\ schedule' = schedule /\ UNCHANGED <<greedyVars, vnsVars>>
      /\ phase \in {"first", "improve"}
  BY DescendSteps DEF Descend
<1>2. /\ Descending(schedule, state, k, mode, stopping)'
      /\ \/ state' = state
         \/ TotalProfit(state'.solution.items) > TotalProfit(state.solution.items)
      /\ KeepsStop(stopping, stopping')
  BY <1>1, DescentStepKeeps DEF IInv
<1>3. StartsFromOptima'
  BY <1>1, <1>2, OptimaStay DEF vnsVars
<1>4. IInv'
  BY <1>1, <1>2, <1>3 DEF IInv, greedyVars, vnsVars
<1> QED BY <1>2, <1>4 DEF Descending

\* The end of a turn: two tests, one outcome.
LEMMA ChangeStep ==
  ASSUME IInv, Change
  PROVE  /\ IInv'
         /\ \/ best' = best
            \/ best'.items = state.solution.items /\ best'.profit > best.profit
<1> DEFINE candidate == state.solution
<1>1. /\ Held(candidate) /\ mode = "returned" /\ stopping \in StoppingType
      /\ Descending(schedule, state, k, "returned", stopping)
      /\ schedule \in Seq(NeighborhoodNames) /\ k \in 1 .. Len(schedule) + 1
  BY StatesHold DEF Change, IInv, Descending
<1>2. /\ best' = IF candidate.profit > best.profit THEN candidate ELSE best
      /\ incumbent' = IF candidate.profit > incumbent.profit THEN candidate ELSE incumbent
      /\ stopping' = IF candidate.profit > best.profit
                       THEN RegisterImprovement(stopping) ELSE stopping
      /\ phase = "improve" /\ phase' = "loop" /\ mode' = "idle" /\ state' = NoState
      /\ UNCHANGED <<greedyVars, schedule, k, k_max, shaken>>
  BY DEF Change, Improved, Accepted
<1>3. incumbent' = best' /\ Held(best')
  BY <1>1, <1>2 DEF IInv
<1>4. stopping' \in StoppingType /\ KeepsStop(stopping, stopping')
  BY <1>1, <1>2, MethodsKeepStop DEF KeepsStop
<1>5. Descending(schedule, state, k, mode, stopping)'
  BY <1>1, <1>2, <1>4, DescentIdle, EmptyHeld, EmptyFeasible
<1>6. ShouldStop(stopping)
        \/ \A p \in DOMAIN schedule : LocallyOptimal(schedule[p], candidate.items)
  BY <1>1 DEF Descending, OptimalFor
<1>7. StartsFromOptima'
  BY <1>2, <1>4, <1>6 DEF IInv, StartsFromOptima, KeepsStop
<1>8. level' \in 1 .. k_max' /\ k_max' \in Nat \ {0}
  <2>1. k_max \in Nat \ {0} /\ level \in Nat /\ level % k_max \in 0 .. k_max - 1
    BY DEF IInv
  <2> QED BY <1>2, <2>1 DEF Change, NextLevel
<1>9. best_at' \in Nat
  BY <1>1 DEF Change, IInv, StoppingType
<1>10. IInv'
  BY <1>2, <1>3, <1>5, <1>7, <1>8, <1>9 DEF IInv, greedyVars
<1> QED BY <1>2, <1>10

\* Every other step of run() preserves the invariant as well.
LEMMA NextIInv == IInv /\ [Next]_vars => IInv'
<1> SUFFICES ASSUME IInv, [Next]_vars PROVE IInv'
  OBVIOUS
<1> USE DEF greedyVars, vndVars, vnsVars
<1>0. stopping \in StoppingType /\ KeepsStop(stopping, stopping)
  BY MethodsKeepStop DEF IInv, Descending
<1>1. CASE Construct
  BY <1>1, ConstructStep
<1>2. CASE FirstDescent
  <2>1. Local!Improve(solution) /\ Held(solution)
    BY <1>2 DEF FirstDescent, IInv, Constructing, Held
  <2>2. /\ Descending(schedule, state, k, mode, stopping)'
        /\ UNCHANGED <<schedule, stopping>>
    BY <2>1, ImproveStep
  <2> QED BY <1>2, <2>2 DEF FirstDescent, IInv, StartsFromOptima
<1>3. CASE Descend
  BY <1>3, DescendStep
<1>4. CASE TakeFirst
  <2>1. Held(state.solution)
    BY StatesHold DEF IInv, Descending
  <2>2. Descending(schedule, state, k, mode, stopping)'
    BY <1>0, <1>4, DescentIdle, EmptyHeld, EmptyFeasible DEF TakeFirst, IInv, Descending
  <2>3. StartsFromOptima'
    BY <1>4 DEF TakeFirst, IInv, Descending, OptimalFor, StartsFromOptima
  <2>4. best_at' \in Nat
    BY <1>0, <1>4 DEF TakeFirst, StoppingType
  <2> QED BY <1>4, <2>1, <2>2, <2>3, <2>4 DEF TakeFirst, IInv
<1>5. CASE Shake
  <2>1. NewState(incumbent) = StateOf(incumbent.items) /\ Feasible(incumbent.items)
    BY HeldFields DEF IInv, Held
  <2>2. PICK st \in Shakes(StateOf(incumbent.items), level) : shaken' = st.solution
    BY <1>5, <2>1 DEF Shake
  <2>3. Held(shaken')
    <3>1. PICK T : Feasible(T) /\ st = StateOf(T)
      BY <2>1, <2>2, ShakesFeasible DEF IInv
    <3> QED BY <2>2, <3>1, FeasibleStateOf DEF Held
  <2>4. KeepsStop(stopping, stopping') /\ mode = "idle"
    BY <1>0, <1>5, MethodsKeepStop DEF Shake, IInv, Descending
  <2>5. Descending(schedule, state, k, mode, stopping)'
    BY <1>5, <2>4, DescentWaits DEF Shake, IInv, KeepsStop
  <2>6. StartsFromOptima'
    BY <1>5, <2>4, OptimaStay DEF Shake
  <2> QED BY <1>5, <2>3, <2>4, <2>5, <2>6 DEF Shake, IInv
<1>6. CASE NextDescent
  <2>1. Local!Improve(shaken) /\ Held(shaken)
    BY <1>6 DEF NextDescent, IInv
  <2>2. /\ Descending(schedule, state, k, mode, stopping)'
        /\ UNCHANGED <<schedule, stopping>>
    BY <2>1, ImproveStep
  <2>3. StartsFromOptima'
    BY <1>0, <1>6, <2>2, OptimaStay DEF NextDescent
  <2> QED BY <1>6, <2>2, <2>3, EmptyHeld DEF NextDescent, IInv
<1>7. CASE Change
  BY <1>7, ChangeStep
<1>8. CASE Finish
  BY <1>0, <1>8, OptimaStay DEF Finish, IInv
<1>9. CASE TimeOut
  <2>1. KeepsStop(stopping, stopping')
    BY <1>0, <1>9, MethodsKeepStop DEF TimeOut
  <2>2. Descending(schedule, state, k, mode, stopping)'
    BY <1>9, DescentTimesOut DEF TimeOut, IInv
  <2>3. StartsFromOptima'
    BY <1>9, <2>1, OptimaStay DEF TimeOut
  <2> QED BY <1>9, <2>2, <2>3 DEF TimeOut, IInv
<1>10. CASE UNCHANGED vars
  BY <1>10 DEF vars, IInv, StartsFromOptima
<1> QED
  BY <1>1, <1>2, <1>3, <1>4, <1>5, <1>6, <1>7, <1>8, <1>9, <1>10 DEF Next, Run

\* The invariant holds in every state of every search.
THEOREM Invariance == Spec => []IInv
BY InitIInv, NextIInv, PTL DEF Spec

-----------------------------------------------------------------------------
(* The theorems.                                                           *)

\* The variables keep their types: the shake level stays within k_max, however
\* long the search, and no loop leaves its schedule or its order.
THEOREM TypeCorrect == Spec => []TypeOK
<1>1. IInv => TypeOK
  <2> SUFFICES ASSUME IInv PROVE TypeOK
    OBVIOUS
  <2>1. /\ order \in Seq(Items) /\ pos \in 1 .. Len(order) + 1
        /\ solution \in SolutionType /\ forbidden \in SUBSET Items /\ remaining \in Int
        /\ building \in BOOLEAN /\ stopping \in StoppingType
    BY ConstructingTypes DEF IInv, Descending
  <2>2. Greedy!TypeOK
    BY <2>1, GreedyOperators DEF Greedy!TypeOK
  <2>3. state \in StateType
    BY FeasibleStateOf DEF IInv, Descending
  <2>4. Local!TypeOK
    BY <2>3, LocalOperators DEF Local!TypeOK, IInv, Descending
  <2>5. incumbent \in SolutionType /\ best \in SolutionType /\ shaken \in SolutionType
    BY HeldFields DEF IInv
  <2> QED BY <2>2, <2>4, <2>5 DEF TypeOK, IInv
<1> QED BY <1>1, Invariance, PTL

\* Every seed that the shakes hand to a descent is feasible and has exact
\* totals, whichever samples were drawn.
THEOREM ShakesAreFeasible == Spec => []ShakesStayFeasible
<1>1. IInv => ShakesStayFeasible
  BY DEF IInv, Held, ShakesStayFeasible
<1> QED BY <1>1, Invariance, PTL

\* The incumbent and the global best are one selection, feasible and exact.
THEOREM OneBest == Spec => []IncumbentIsBest
<1>1. IInv => IncumbentIsBest
  BY DEF IInv, Held, IncumbentIsBest
<1> QED BY <1>1, Invariance, PTL

\* Without a no-improvement limit, every shake starts from a local optimum.
THEOREM ShakesStartFromOptima == Spec => []ShakesLocalOptima
<1>1. IInv => ShakesLocalOptima
  BY DEF IInv, StartsFromOptima, ShakesLocalOptima
<1> QED BY <1>1, Invariance, PTL

-----------------------------------------------------------------------------
(* The whole search implements the safety part of AnytimeSearch.           *)

\* The abstract search speaks of the same items, totals and conflicts.
LEMMA SameProblem ==
  /\ Anytime!Items = Items
  /\ \A S : Anytime!TotalProfit(S) = TotalProfit(S)
  /\ \A S : Anytime!Feasible(S) <=> Feasible(S)
<1>1. \A w, S : Anytime!SumFunctionOnSet(w, S) = SumFunctionOnSet(w, S)
  BY DEF Anytime!SumFunctionOnSet, Anytime!FoldFunctionOnSet, Anytime!MapThenFoldSet,
         SumFunctionOnSet, FoldFunctionOnSet, MapThenFoldSet
<1>2. /\ Anytime!Items = Items
      /\ \A S : Anytime!TotalProfit(S) = TotalProfit(S)
      /\ \A S : Anytime!TotalWeight(S) = TotalWeight(S)
  BY <1>1 DEF Anytime!Items, Items, Anytime!TotalProfit, TotalProfit,
              Anytime!TotalWeight, TotalWeight
<1> QED BY <1>2 DEF Anytime!ConflictFree, ConflictFree, Anytime!Feasible, Feasible

\* The selection that would be returned.
Shown == CASE phase = "construct" -> solution.items
           [] phase = "first"     -> state.solution.items
           [] OTHER               -> best.items

\* What the abstract search sees of a step: nothing, a gain, or the return.
LEMMA SeenSteps ==
  /\ Shown' = Shown /\ (phase' = "done") = (phase = "done") => UNCHANGED Anytime!vars
  /\ /\ (phase = "done") = FALSE /\ (phase' = "done") = FALSE
     /\ Feasible(Shown') /\ TotalProfit(Shown') > TotalProfit(Shown)
     => Anytime!Improve
  /\ (phase = "done") = FALSE /\ (phase' = "done") = TRUE /\ Shown' = Shown
     => Anytime!Return
<1>1. ASSUME Shown' = Shown, (phase' = "done") = (phase = "done")
      PROVE  UNCHANGED Anytime!vars
  BY <1>1 DEF Anytime!vars, Shown
<1>2. ASSUME (phase = "done") = FALSE, (phase' = "done") = FALSE,
             Feasible(Shown'), TotalProfit(Shown') > TotalProfit(Shown)
      PROVE  Anytime!Improve
  BY <1>2, SameProblem DEF Anytime!Improve, Shown, Feasible
<1>3. ASSUME (phase = "done") = FALSE, (phase' = "done") = TRUE, Shown' = Shown
      PROVE  Anytime!Return
  BY <1>3 DEF Anytime!Return, Shown
<1> QED BY <1>1, <1>2, <1>3

\* Construction, first descent and search hand the selection over unchanged,
\* and each changes it by gains only.
LEMMA NextAnytime == IInv /\ [Next]_vars => [Anytime!Next]_(Anytime!vars)
<1> SUFFICES ASSUME IInv, [Next]_vars PROVE [Anytime!Next]_(Anytime!vars)
  OBVIOUS
<1> USE DEF greedyVars, vndVars, vnsVars
<1>0. IInv'
  BY NextIInv
<1>1. ASSUME Shown' = Shown, (phase' = "done") = (phase = "done")
      PROVE  [Anytime!Next]_(Anytime!vars)
  BY <1>1, SeenSteps
<1>2. ASSUME phase # "done", phase' # "done", Feasible(Shown'),
             TotalProfit(Shown') > TotalProfit(Shown)
      PROVE  [Anytime!Next]_(Anytime!vars)
  <2>1. (phase = "done") = FALSE /\ (phase' = "done") = FALSE
    BY <1>2
  <2> QED BY <1>2, <2>1, SeenSteps DEF Anytime!Next
<1>3. CASE Construct
  <2>1. /\ phase = "construct" /\ phase' = "construct"
        /\ Shown = solution.items /\ Shown' = solution'.items
    BY <1>3 DEF Construct, Shown
  <2>2. Feasible(solution'.items)
    BY <1>0 DEF IInv, Constructing
  <2> QED BY <1>1, <1>2, <1>3, <2>1, <2>2, ConstructStep
<1>4. CASE FirstDescent
  <2>1. Local!Improve(solution) /\ Held(solution)
    BY <1>4 DEF FirstDescent, IInv, Constructing, Held
  <2>2. state'.solution.items = solution.items
    BY <2>1, ImproveStep, FeasibleStateOf DEF Held
  <2> QED BY <1>1, <1>4, <2>2 DEF FirstDescent, Shown
<1>5. CASE Descend
  <2>1. CASE phase = "first"
    <3>1. /\ phase' = "first" /\ Shown = state.solution.items
          /\ Shown' = state'.solution.items
      BY <1>5, <2>1 DEF Descend, Shown
    <3> QED BY <1>1, <1>2, <1>5, <2>1, <3>1, DescendStep
  <2>2. CASE phase = "improve"
    BY <1>1, <1>5, <2>2 DEF Descend, Shown
  <2> QED BY <1>5, <2>1, <2>2 DEF Descend
<1>6. CASE TakeFirst
  BY <1>1, <1>6 DEF TakeFirst, Shown
<1>7. CASE Shake \/ NextDescent
  BY <1>1, <1>7 DEF Shake, NextDescent, Shown
<1>8. CASE Change
  <2>1. /\ phase = "improve" /\ phase' = "loop"
        /\ Shown = best.items /\ Shown' = best'.items
    BY <1>8 DEF Change, Shown
  <2>2. CASE best' = best
    BY <1>1, <2>1, <2>2
  <2>3. CASE best'.profit > best.profit
    <3>1. Held(best) /\ Held(best')
      BY <1>0 DEF IInv
    <3>2. TotalProfit(best'.items) > TotalProfit(best.items) /\ Feasible(best'.items)
      BY <2>3, <3>1, HeldFields DEF Held
    <3> QED BY <1>2, <2>1, <3>2
  <2> QED BY <1>8, <2>2, <2>3, ChangeStep
<1>9. CASE Finish
  <2>1. (phase = "done") = FALSE /\ (phase' = "done") = TRUE /\ Shown' = Shown
    BY <1>9 DEF Finish, Shown
  <2> QED BY <2>1, SeenSteps DEF Anytime!Next
<1>10. CASE TimeOut
  BY <1>1, <1>10 DEF TimeOut, Shown
<1>11. CASE UNCHANGED vars
  BY <1>1, <1>11 DEF vars, Shown
<1> QED
  BY <1>3, <1>4, <1>5, <1>6, <1>7, <1>8, <1>9, <1>10, <1>11 DEF Next, Run

\* From the empty selection to the result, the selection that would be returned
\* is feasible, gains with every change, and is final once it is returned.
THEOREM AnytimeSafety == Spec => Anytime!Safe
<1>1. Init => Anytime!Init
  <2> SUFFICES ASSUME Init PROVE Anytime!Init
    OBVIOUS
  <2>1. phase = "construct" /\ solution.items = {}
    BY GreedyOperators DEF Init, Greedy!Begin, EmptySolution
  <2> QED BY <2>1, SameProblem, EmptyFeasible, {} \in SUBSET Items DEF Anytime!Init
<1> QED BY <1>1, Invariance, NextAnytime, PTL DEF Spec, Anytime!Safe

=============================================================================
