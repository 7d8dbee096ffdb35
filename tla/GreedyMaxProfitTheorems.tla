----------------------- MODULE GreedyMaxProfitTheorems -----------------------
(***************************************************************************)
(* Theorems about the construction, for every instance, every order that   *)
(* an unstable sort may leave and every combination of limits: its books   *)
(* agree, the partial selection is feasible, what the complete one leaves  *)
(* out it leaves out for a reason, and every step is one of AnytimeSearch. *)
(***************************************************************************)
EXTENDS GreedyMaxProfit, SelectionTheorems

-----------------------------------------------------------------------------
(* The inductive invariant.                                                *)

Earlier(p) == {order[q] : q \in 1 .. p - 1} \cap solution.items

\* Each item behind the position is selected or could not be.
Reasons ==
  \A p \in 1 .. pos - 1 :
    order[p] \notin solution.items => ~ Feasible(Earlier(p) \cup {order[p]})

\* The reason for an item passed over rests on the books of that turn, and it
\* remains one because later turns add no item in front of it.
IInv ==
  /\ Constructing(order, pos, solution, forbidden, remaining)
  /\ Reasons
  /\ building \in BOOLEAN
  /\ stopping \in StoppingType

\* The item at hand is rejected only if it would break a constraint beside the
\* items selected so far.
LEMMA RejectedForAReason ==
  ASSUME IInv, pos <= Len(order), ~ Accepts(order[pos])
  PROVE  order[pos] \notin solution.items => ~ Feasible(solution.items \cup {order[pos]})
<1> DEFINE S == solution.items
           i == order[pos]
<1> SUFFICES ASSUME i \notin S, Feasible(S \cup {i}) PROVE FALSE
  OBVIOUS
<1>1. S \in SUBSET Items /\ i \in Items \ S /\ solution = SolutionOf(S)
  BY DEF IInv, Constructing, IsOrder, Feasible
<1>2. Graph[i] \cap S = {} /\ TotalWeight(S) + Weight[i] <= Capacity
  BY <1>1, EnteredFeasibly
<1>3. i \notin forbidden
  <2>1. \A j \in S : i \notin Graph[j]
    BY <1>1, <1>2, GraphAssumption
  <2> QED BY <2>1 DEF IInv, Constructing
<1>4. solution.weight = TotalWeight(S)
  BY <1>1 DEF SolutionOf
<1>5. Weight[i] <= remaining
  BY <1>1, <1>2, <1>4, TotalsType, WeightAssumption, CapacityAssumption DEF IInv, Constructing
<1> QED BY <1>3, <1>5 DEF Accepts

\* The sort and the empty selection establish the invariant.
LEMMA InitIInv == Init => IInv
<1> SUFFICES ASSUME Init PROVE IInv
  OBVIOUS
<1>0. IsOrder(order)
  <2>1. order \in ProfitOrders
    BY DEF Init, Begin
  <2> QED BY <2>1, SortIsOrder DEF ProfitOrders
<1>1. Constructing(order, pos, solution, forbidden, remaining)
  BY <1>0, ConstructionBegins DEF Init, Begin
<1>2. Reasons
  BY DEF Init, Begin, Reasons
<1> QED BY <1>1, <1>2, StoppingTypes DEF Init, Begin, IInv

\* A taken item.
LEMMA TakeStep ==
  ASSUME IInv, Take
  PROVE  /\ IInv'
         /\ Feasible(solution'.items)
         /\ TotalProfit(solution'.items) > TotalProfit(solution.items)
<1> DEFINE i == order[pos]
<1>1. /\ pos <= Len(order) /\ Weight[i] <= remaining /\ i \notin forbidden
      /\ Constructing(order, pos, solution, forbidden, remaining)
  BY DEF IInv, Take, Turn, Accepts
<1>2. /\ Constructing(order, pos + 1, AddItem(solution, i), forbidden \cup Graph[i],
                      remaining - Weight[i])
      /\ AddItem(solution, i).items = solution.items \cup {i}
      /\ TotalProfit(solution.items \cup {i}) > TotalProfit(solution.items)
  BY <1>1, ConstructionTakes
<1>3. /\ Constructing(order, pos, solution, forbidden, remaining)'
      /\ solution'.items = solution.items \cup {i}
  BY <1>2 DEF Take, Turn
<1>4. pos \in 1 .. Len(order) /\ Len(order) \in Nat
  BY <1>1 DEF Constructing, IsOrder
<1>5. Reasons'
  <2>0. pos' - 1 = pos /\ order' = order
    BY <1>4 DEF Take, Turn
  <2> SUFFICES ASSUME NEW p \in 1 .. pos, order[p] \notin solution'.items
               PROVE  ~ Feasible(({order[q] : q \in 1 .. p - 1} \cap solution'.items)
                                   \cup {order[p]})
    BY <2>0 DEF Reasons, Earlier
  <2>1. p # pos /\ p \in 1 .. pos - 1 /\ order[p] \notin solution.items
    BY <1>3, <1>4
  <2>2. \A q \in 1 .. p - 1 : q \in 1 .. Len(order) /\ q < pos
    BY <1>4, <2>1
  <2>3. \A q \in 1 .. p - 1 : order[q] # i
    BY <1>4, <2>2 DEF IInv, Constructing, IsOrder
  <2>4. {order[q] : q \in 1 .. p - 1} \cap solution'.items = Earlier(p)
    BY <1>3, <2>3 DEF Earlier
  <2> QED BY <2>1, <2>4 DEF IInv, Reasons
<1>6. stopping' \in StoppingType
  BY StoppingTypes DEF IInv, Take
<1>7. IInv'
  BY <1>3, <1>5, <1>6 DEF IInv, Take, Turn
<1> QED BY <1>2, <1>3, <1>7 DEF Constructing

\* Every turn of the loop preserves the invariant.
LEMMA NextIInv == IInv /\ [Next]_vars => IInv'
<1> SUFFICES ASSUME IInv, [Next]_vars PROVE IInv'
  OBVIOUS
<1>1. CASE Take
  BY <1>1, TakeStep
<1>2. CASE Skip
  <2>1. /\ pos <= Len(order) /\ ~ Accepts(order[pos])
        /\ pos' = pos + 1 /\ stopping' = Tick(stopping)
        /\ UNCHANGED <<order, building, solution, remaining, forbidden>>
    BY <1>2 DEF Skip, Turn
  <2>2. Constructing(order, pos, solution, forbidden, remaining)'
    BY <2>1, ConstructionSkips DEF IInv
  <2>3. pos \in 1 .. Len(order) /\ Len(order) \in Nat
    BY <2>1 DEF IInv, Constructing, IsOrder
  <2>4. Earlier(pos) = solution.items
    BY DEF Earlier, IInv, Constructing
  <2>5. Reasons'
    <3> SUFFICES ASSUME NEW p \in 1 .. pos, order[p] \notin solution.items
                 PROVE  ~ Feasible(Earlier(p) \cup {order[p]})
      BY <2>1, <2>3 DEF Reasons, Earlier
    <3>1. CASE p = pos
      BY <2>1, <2>4, <3>1, RejectedForAReason
    <3>2. CASE p \in 1 .. pos - 1
      BY <3>2 DEF IInv, Reasons
    <3> QED BY <2>3, <3>1, <3>2
  <2> QED BY <2>1, <2>2, <2>5, StoppingTypes DEF IInv
<1>3. CASE Finish
  BY <1>3 DEF Finish, IInv, Reasons, Earlier
<1>4. CASE TimeOut
  BY <1>4, StoppingTypes DEF TimeOut, greedyVars, IInv, Reasons, Earlier
<1>5. CASE UNCHANGED vars
  BY <1>5 DEF vars, IInv, Reasons, Earlier
<1> QED BY <1>1, <1>2, <1>3, <1>4, <1>5 DEF Next, Build

\* The invariant holds in every state of every construction.
THEOREM Invariance == Spec => []IInv
BY InitIInv, NextIInv, PTL DEF Spec

-----------------------------------------------------------------------------
(* The theorems.                                                           *)

\* The variables keep their types: the position stays inside the order.
THEOREM TypeCorrect == Spec => []TypeOK
<1>1. IInv => TypeOK
  BY ConstructingTypes DEF IInv, TypeOK
<1> QED BY <1>1, Invariance, PTL

\* The remaining capacity and the forbidden items are those that the selection
\* determines, and its totals are exact, at every turn.
THEOREM BooksAgree == Spec => []Bookkeeping
<1>1. IInv => Bookkeeping
  BY DEF IInv, Constructing, Bookkeeping
<1> QED BY <1>1, Invariance, PTL

\* Stopped at any turn, the construction holds a feasible selection.
THEOREM AlwaysFeasible == Spec => []StaysFeasible
<1>1. IInv => StaysFeasible
  BY DEF IInv, Constructing, StaysFeasible
<1> QED BY <1>1, Invariance, PTL

\* A construction that no limit has stopped is greedy: each profitable item it
\* has left out conflicts with or does not fit beside selected items that come
\* no later in the order.
THEOREM GreedyForAReason == Spec => []LeavesOutForAReason
<1>1. IInv => LeavesOutForAReason
  <2> SUFFICES ASSUME IInv, pos > Len(order), NEW p \in DOMAIN order,
                      order[p] \notin solution.items
               PROVE  ~ Feasible(Earlier(p) \cup {order[p]})
    BY DEF LeavesOutForAReason, Earlier
  <2>1. p \in 1 .. pos - 1
    BY DEF IInv, Constructing, IsOrder
  <2> QED BY <2>1 DEF IInv, Reasons
<1> QED BY <1>1, Invariance, PTL

-----------------------------------------------------------------------------
(* The construction implements the safety part of AnytimeSearch.           *)

\* The abstract search speaks of the same items, totals and conflicts.
LEMMA SameProblem ==
  /\ Anytime!Items = Items
  /\ \A S : Anytime!TotalProfit(S) = TotalProfit(S)
  /\ \A S : Anytime!Feasible(S) <=> Feasible(S)
<1>1. \A w, S : Anytime!SumFunctionOnSet(w, S) = SumFunctionOnSet(w, S)
  BY DEF Anytime!SumFunctionOnSet, Anytime!FoldFunctionOnSet, Anytime!MapThenFoldSet,
         SumFunctionOnSet, FoldFunctionOnSet, MapThenFoldSet
<1>2. /\ Anytime!Items = Items
      /\ \A S : Anytime!TotalProfit(S) = TotalProfit(S)
      /\ \A S : Anytime!TotalWeight(S) = TotalWeight(S)
  BY <1>1 DEF Anytime!Items, Items, Anytime!TotalProfit, TotalProfit,
              Anytime!TotalWeight, TotalWeight
<1> QED BY <1>2 DEF Anytime!ConflictFree, ConflictFree, Anytime!Feasible, Feasible

\* A taken item is an improvement, the end of the loop is the return, and no
\* other step is seen.
LEMMA NextAnytime == IInv /\ [Next]_vars => [Anytime!Next]_(Anytime!vars)
<1> SUFFICES ASSUME IInv, [Next]_vars PROVE [Anytime!Next]_(Anytime!vars)
  OBVIOUS
<1> USE DEF Anytime!vars
<1>1. CASE Take
  <2>1. ~ ~ building /\ ~ ~ building'
    BY <1>1 DEF Take, Turn
  <2>2. /\ Feasible(solution'.items)
        /\ TotalProfit(solution'.items) > TotalProfit(solution.items)
    BY <1>1, TakeStep
  <2>3. (~ building') = (~ building)
    BY <1>1 DEF Take, Turn
  <2> QED BY <2>1, <2>2, <2>3, SameProblem DEF Anytime!Next, Anytime!Improve, Feasible
<1>2. CASE Skip
  BY <1>2 DEF Skip, Turn
<1>3. CASE Finish
  BY <1>3 DEF Finish, Anytime!Next, Anytime!Return
<1>4. CASE TimeOut
  BY <1>4 DEF TimeOut, greedyVars
<1>5. CASE UNCHANGED vars
  BY <1>5 DEF vars
<1> QED BY <1>1, <1>2, <1>3, <1>4, <1>5 DEF Next, Build

\* Every item that a construction takes is a strict gain to a feasible
\* selection, and none is taken after the loop has been left.
THEOREM AnytimeSafety == Spec => Anytime!Safe
<1>1. Init => Anytime!Init
  BY EmptyFeasible, SameProblem, {} \in SUBSET Items
     DEF Init, Begin, EmptySolution, Anytime!Init
<1> QED BY <1>1, Invariance, NextAnytime, PTL DEF Spec, Anytime!Safe

=============================================================================
