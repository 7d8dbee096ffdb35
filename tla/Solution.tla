------------------------------ MODULE Solution ------------------------------
(***************************************************************************)
(* The Solution class: a set of selected items with the two totals that    *)
(* addItem and removeItem keep up to date incrementally.                   *)
(***************************************************************************)
EXTENDS DCKPInstance

EmptySolution == [items |-> {}, profit |-> 0, weight |-> 0]

\* An item that is out of range or already selected changes nothing.
AddItem(s, i) ==
  IF i \in Items \ s.items
  THEN [items  |-> s.items \cup {i},
        profit |-> s.profit + Profit[i],
        weight |-> s.weight + Weight[i]]
  ELSE s

\* Fault...: what the next definition would be with one slip; put in its
\* place, it must break a property.  The other modules name theirs likewise.
FaultRemoveKeepsWeight(s, i) ==
  IF i \in s.items
  THEN [s EXCEPT !.items = @ \ {i}, !.profit = @ - Profit[i]]
  ELSE s

RemoveItem(s, i) ==
  IF i \in s.items
  THEN [items  |-> s.items \ {i},
        profit |-> s.profit - Profit[i],
        weight |-> s.weight - Weight[i]]
  ELSE s

\* S < T for std::sets of ids: the smallest id that only one of them holds
\* decides, for its holder, unless the other one has ended by then.
Precedes(S, T) ==
  LET differ == (S \ T) \cup (T \ S)
  IN  \E i \in differ :
        /\ \A j \in differ : i <= j
        /\ IF i \in S THEN \E j \in T : i < j ELSE \A j \in S : j < i

\* operator==
Equal(x, y) == x.items = y.items

FaultEitherTotal(x, y) ==
  \/ x.profit < y.profit
  \/ x.weight > y.weight
  \/ x.profit = y.profit /\ x.weight = y.weight /\ Precedes(x.items, y.items)

\* The cases in which x <=> y is less.
Less(x, y) ==
  \/ x.profit < y.profit
  \/ x.profit = y.profit /\ x.weight > y.weight
  \/ x.profit = y.profit /\ x.weight = y.weight /\ Precedes(x.items, y.items)

SolutionType == [items : SUBSET Items, profit : Int, weight : Int]

-----------------------------------------------------------------------------
(* The invariant the class documents: the totals are the sums over the     *)
(* selected items.                                                         *)

SolutionOf(S) ==
  [items |-> S, profit |-> TotalProfit(S), weight |-> TotalWeight(S)]

FeasibleSolutions == {SolutionOf(S) : S \in {T \in SUBSET Items : Feasible(T)}}

=============================================================================
