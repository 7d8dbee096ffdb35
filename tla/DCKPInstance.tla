---------------------------- MODULE DCKPInstance ----------------------------
(***************************************************************************)
(* One instance of the Disjunctively Constrained Knapsack Problem as the   *)
(* solver sees it once DCKPInstance::read_from_file has succeeded: items   *)
(* numbered from 0, their profits and weights, the capacity, and the       *)
(* adjacency lists of the conflict graph.  The instance never changes      *)
(* during a run, so its fields are constants.  The assumptions are what    *)
(* the reader establishes: profits may be negative or zero, weights and    *)
(* the capacity may not be negative, and the graph is symmetric and has    *)
(* no loops.                                                               *)
(***************************************************************************)
EXTENDS Integers, FiniteSets, Functions

CONSTANTS
  N,         \* n_items_
  Profit,    \* profits_
  Weight,    \* weights_
  Capacity,  \* capacity_
  Graph      \* conflict_graph_: the set of the neighbours of each item

Items == 0 .. N - 1

ASSUME NAssumption        == N \in Nat
ASSUME ProfitAssumption   == Profit \in [Items -> Int]
ASSUME WeightAssumption   == Weight \in [Items -> Nat]
ASSUME CapacityAssumption == Capacity \in Nat
ASSUME GraphAssumption    ==
  /\ Graph \in [Items -> SUBSET Items]
  /\ \A i, j \in Items : j \in Graph[i] <=> i \in Graph[j]
  /\ \A i \in Items : i \notin Graph[i]

\* Searches the shorter of the two adjacency lists.
HasConflict(i, j) ==
  /\ i \in Items /\ j \in Items /\ i # j
  /\ IF Cardinality(Graph[i]) <= Cardinality(Graph[j])
     THEN j \in Graph[i]
     ELSE i \in Graph[j]

-----------------------------------------------------------------------------
(* The problem itself, independent of the data structures of the code.     *)

TotalProfit(S) == SumFunctionOnSet(Profit, S)
TotalWeight(S) == SumFunctionOnSet(Weight, S)

ConflictFree(S) == \A i \in S : Graph[i] \cap S = {}

Feasible(S) ==
  /\ S \subseteq Items
  /\ TotalWeight(S) <= Capacity
  /\ ConflictFree(S)

=============================================================================
