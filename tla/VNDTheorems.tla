---------------------------- MODULE VNDTheorems -----------------------------
(***************************************************************************)
(* Theorems about VND, for every instance and every configuration: the     *)
(* incremental books are exact, the selection is feasible at every step,   *)
(* it is a local optimum if nothing has stopped the descent, and every     *)
(* step of the descent is a step of AnytimeSearch.                         *)
(***************************************************************************)
EXTENDS VND, SelectionTheorems

-----------------------------------------------------------------------------
(* The inductive invariant, and the theorems.                              *)

\* The parts of the invariant name each other: a move preserves the books only
\* if its tests can trust them, the selection it tests is feasible, and a scan
\* without a move says something of the neighbourhood only on exact books.
IInv == Descending(schedule, state, k, mode, stopping)

\* A move of the descent leads to the exact state of a better selection.
LEMMA MoveStep ==
  ASSUME IInv, Move
  PROVE  /\ IInv'
         /\ Feasible(state'.solution.items)
         /\ TotalProfit(state'.solution.items) > TotalProfit(state.solution.items)
<1>1. Descending(schedule, state, k, "descend", stopping) /\ k <= Len(schedule)
  BY DEF IInv, Move, Turn
<1>2. PICK m \in Moves(schedule[k], state) : state' = Result(schedule[k], state, m)
  BY DEF Move
<1>3. /\ Descending(schedule, state', 1, "descend", RegisterImprovement(Tick(stopping)))
      /\ TotalProfit(state'.solution.items) > TotalProfit(state.solution.items)
  BY <1>1, <1>2, DescentMoves
<1>4. IInv'
  BY <1>3 DEF IInv, Move, Turn
<1> QED BY <1>3, <1>4 DEF Descending

\* The constructor over a feasible seed establishes the invariant.
LEMMA InitIInv == Init => IInv
<1> SUFFICES ASSUME Init PROVE IInv
  OBVIOUS
<1>1. PICK S \in SUBSET Items : Feasible(S) /\ state = StateOf(S)
  BY DEF Init, FeasibleSolutions, StateOf
<1>2. schedule \in Seq(NeighborhoodNames) /\ stopping \in StoppingType
  BY ScheduleType, StoppingTypes DEF Init
<1>3. k \in 1 .. Len(schedule) + 1 /\ mode = "idle"
  BY <1>2 DEF Init
<1> QED BY <1>1, <1>2, <1>3, DescentIdle DEF IInv

\* Every step of improve preserves it, a scan cut short included.
LEMMA NextIInv == IInv /\ [Next]_vars => IInv'
<1> SUFFICES ASSUME IInv, [Next]_vars PROVE IInv'
  OBVIOUS
<1> USE DEF IInv
<1>1. CASE Improve(state.solution)
  <2> DEFINE S == state.solution.items
  <2>1. Feasible(S) /\ state.solution = SolutionOf(S)
    BY FeasibleStateOf DEF Descending
  <2>2. state' = StateOf(S)
    BY <1>1, <2>1 DEF Improve, StateOf
  <2>3. schedule \in Seq(NeighborhoodNames) /\ stopping \in StoppingType
    BY DEF Descending
  <2> QED BY <1>1, <2>1, <2>2, <2>3, DescentBegins DEF Improve
<1>2. CASE Move
  BY <1>2, MoveStep
<1>3. CASE NoMove
  BY <1>3, DescentPasses DEF NoMove, Turn
<1>4. CASE Interrupted
  BY <1>4, DescentInterrupted DEF Interrupted, Turn
<1>5. CASE Return
  BY <1>5, DescentReturns DEF Return
<1>6. CASE TimeOut
  BY <1>6, DescentTimesOut DEF TimeOut, vndVars
<1>7. CASE UNCHANGED vars
  BY <1>7 DEF vars
<1> QED BY <1>1, <1>2, <1>3, <1>4, <1>5, <1>6, <1>7 DEF Next, Descend

\* The invariant holds in every state of every run of improve.
THEOREM Invariance == Spec => []IInv
BY InitIInv, NextIInv, PTL DEF Spec

\* The variables keep their types: the position in the schedule stays in its
\* range, so that no scan outside the schedule is called.
THEOREM TypeCorrect == Spec => []TypeOK
<1>1. IInv => TypeOK
  BY FeasibleStateOf DEF IInv, Descending, TypeOK
<1> QED BY <1>1, Invariance, PTL

\* The totals, the flags and the conflict counters never drift from the
\* selected items.
THEOREM BooksAreExact == Spec => []Bookkeeping
<1>1. IInv => Bookkeeping
  BY FeasibleStateOf DEF IInv, Descending, Bookkeeping
<1> QED BY <1>1, Invariance, PTL

\* improve holds a feasible selection at every moment.
THEOREM AlwaysFeasible == Spec => []StaysFeasible
<1>1. IInv => StaysFeasible
  BY DEF IInv, Descending, StaysFeasible
<1> QED BY <1>1, Invariance, PTL

\* What improve returns when no limit has stopped it is beaten by no feasible
\* neighbour in any scheduled neighbourhood.
THEOREM LocalOptimum == Spec => []ReturnsLocalOptimum
<1>1. IInv => ReturnsLocalOptimum
  BY DEF IInv, Descending, OptimalFor, ReturnsLocalOptimum
<1> QED BY <1>1, Invariance, PTL

-----------------------------------------------------------------------------
(* What a descent selects.                                                 *)

\* The schedule is one that VNDConfig's flags give.
Scheduled == \E e : schedule = ScheduleOf(e)

\* improve never writes to it.
LEMMA KeepsSchedule == Spec => []Scheduled
<1>1. Init => Scheduled
  BY DEF Init, Scheduled
<1>2. Scheduled /\ [Next]_vars => Scheduled'
  BY DEF Scheduled, Next, Improve, Descend, Move, NoMove, Interrupted, Return, TimeOut, Turn,
         vars, vndVars
<1> QED BY <1>1, <1>2, PTL DEF Spec

\* From profitable items a descent with Swap-1-1 leads to profitable items: by
\* the time Swap-1-2 is tried, no single item is worth the exchange.
THEOREM SelectsProfitable == Spec => KeepsItemsProfitable
<1> DEFINE keeps ==
      (\E p \in DOMAIN schedule : schedule[p] = "swap_1_1")
      /\ (\A i \in state.solution.items : Profit[i] > 0)
        => \A i \in state'.solution.items : Profit[i] > 0
<1>1. ASSUME IInv, Scheduled, [Next]_vars PROVE keeps
  <2> SUFFICES ASSUME NEW p \in DOMAIN schedule, schedule[p] = "swap_1_1",
                      \A i \in state.solution.items : Profit[i] > 0
               PROVE  \A i \in state'.solution.items : Profit[i] > 0
    OBVIOUS
  <2>1. CASE Move
    <3>1. /\ Descending(schedule, state, k, "descend", stopping)
          /\ k <= Len(schedule) /\ ~ ShouldStop(stopping)
      BY <1>1, <2>1 DEF IInv, Move, Turn
    <3>2. PICK m \in Moves(schedule[k], state) : state' = Result(schedule[k], state, m)
      BY <2>1 DEF Move
    <3> DEFINE S == state.solution.items
    <3>3. /\ state = StateOf(S) /\ Feasible(S) /\ k \in DOMAIN schedule
          /\ schedule[k] \in NeighborhoodNames
          /\ OptimalFor(schedule, 1 .. k - 1, state)
      BY <3>1 DEF Descending
    <3>4. ASSUME schedule[k] = "swap_1_2" PROVE LocallyOptimal("swap_1_1", S)
      <4>1. p < k
        BY <1>1, <3>3, <3>4, PairsComeLast DEF Scheduled
      <4>2. p \in 1 .. k - 1
        BY <3>1, <4>1 DEF Descending
      <4> QED BY <3>3, <4>2 DEF OptimalFor
    <3> HIDE DEF S
    <3>5. \A x \in Result(schedule[k], StateOf(S), m).solution.items : Profit[x] > 0
      BY <3>2, <3>3, <3>4, MovesSelectProfitable DEF S
    <3> QED BY <3>2, <3>3, <3>5
  <2>2. CASE Improve(state.solution)
    BY <2>2 DEF Improve, NewState
  <2>3. CASE NoMove \/ Interrupted \/ Return \/ TimeOut \/ UNCHANGED vars
    BY <2>3 DEF NoMove, Interrupted, Return, TimeOut, vars, vndVars
  <2> QED BY <1>1, <2>1, <2>2, <2>3 DEF Next, Descend
<1>2. IInv /\ Scheduled /\ [Next]_vars => [keeps]_vars
  BY <1>1
<1> QED BY <1>2, Invariance, KeepsSchedule, PTL DEF Spec, KeepsItemsProfitable

-----------------------------------------------------------------------------
(* VND implements the safety part of AnytimeSearch.                        *)

\* The abstract search speaks of the same items, totals and conflicts.
LEMMA SameProblem ==
  /\ Anytime!Items = Items
  /\ \A S : Anytime!TotalProfit(S) = TotalProfit(S)
  /\ \A S : Anytime!Feasible(S) <=> Feasible(S)
<1>1. \A w, S : Anytime!SumFunctionOnSet(w, S) = SumFunctionOnSet(w, S)
  BY DEF Anytime!SumFunctionOnSet, Anytime!FoldFunctionOnSet, Anytime!MapThenFoldSet,
         SumFunctionOnSet, FoldFunctionOnSet, MapThenFoldSet
<1>2. /\ Anytime!Items = Items
      /\ \A S : Anytime!TotalProfit(S) = TotalProfit(S)
      /\ \A S : Anytime!TotalWeight(S) = TotalWeight(S)
  BY <1>1 DEF Anytime!Items, Items, Anytime!TotalProfit, TotalProfit,
              Anytime!TotalWeight, TotalWeight
<1> QED BY <1>2 DEF Anytime!ConflictFree, ConflictFree, Anytime!Feasible, Feasible

\* The seed is a start of the abstract search.
LEMMA InitAnytime == Init => Anytime!Init
BY InitIInv, SameProblem DEF Init, IInv, Descending, Feasible, Anytime!Init

\* A move of the descent is an improvement, and the other steps change nothing
\* that the abstract search sees, except that improve returns.
LEMMA NextAnytime == IInv /\ [Next]_vars => [Anytime!Next]_(Anytime!vars)
<1> SUFFICES ASSUME IInv, [Next]_vars PROVE [Anytime!Next]_(Anytime!vars)
  OBVIOUS
<1> USE DEF Anytime!vars
<1>1. CASE Improve(state.solution)
  <2>1. state'.solution = state.solution
    BY <1>1 DEF Improve, NewState
  <2>2. CASE mode' = "descend"
    BY <1>1, <2>1, <2>2 DEF Improve
  <2>3. CASE mode' = "returned"
    BY <1>1, <2>1, <2>3 DEF Improve, Anytime!Next, Anytime!Return
  <2> QED BY <1>1, <2>2, <2>3 DEF Improve
<1>2. CASE Move
  <2>1. mode = "descend" /\ mode' = "descend"
    BY <1>2 DEF Move, Turn
  <2>2. Anytime!Improve
    <3>1. (mode = "returned") = FALSE /\ (mode' = "returned") = FALSE
      BY <2>1
    <3>2. /\ Feasible(state'.solution.items)
          /\ TotalProfit(state'.solution.items) > TotalProfit(state.solution.items)
      BY <1>2, MoveStep
    <3> QED BY <3>1, <3>2, SameProblem DEF Anytime!Improve, Feasible
  <2> QED BY <2>2 DEF Anytime!Next
<1>3. CASE NoMove
  BY <1>3 DEF NoMove, Turn
<1>4. CASE Interrupted
  BY <1>4 DEF Interrupted, Turn
<1>5. CASE Return
  BY <1>5 DEF Return, Anytime!Next, Anytime!Return
<1>6. CASE TimeOut
  BY <1>6 DEF TimeOut, vndVars
<1>7. CASE UNCHANGED vars
  BY <1>7 DEF vars
<1> QED BY <1>1, <1>2, <1>3, <1>4, <1>5, <1>6, <1>7 DEF Next, Descend

\* Every change that a run of improve makes to its solution is a strict gain
\* of profit to a feasible selection, and none is made after it has returned.
THEOREM AnytimeSafety == Spec => Anytime!Safe
BY Invariance, InitAnytime, NextAnytime, PTL DEF Spec, Anytime!Safe

=============================================================================
