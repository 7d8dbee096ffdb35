--------------------------- MODULE SelectionState ---------------------------
(***************************************************************************)
(* The SelectionState struct: the solution being worked on, with two       *)
(* arrays that mirror it, so that a move is tested without rescanning the  *)
(* graph.  in_solution flags the selected items; conflict_count counts,    *)
(* for every item, its selected neighbours.                                *)
(***************************************************************************)
EXTENDS Solution

\* The constructor: counts from scratch.
NewState(sol) ==
  [solution       |-> sol,
   in_solution    |-> [u \in Items |-> u \in sol.items],
   conflict_count |-> [u \in Items |-> Cardinality(Graph[u] \cap sol.items)]]

\* The loops over the neighbours of one item: ++ and -- of their counters.
Bump(count, i, d) ==
  [u \in Items |-> IF u \in Graph[i] THEN count[u] + d ELSE count[u]]

ApplyAdd(st, i) ==
  [solution       |-> AddItem(st.solution, i),
   in_solution    |-> [st.in_solution EXCEPT ![i] = TRUE],
   conflict_count |-> Bump(st.conflict_count, i, 1)]

FaultRemoveKeepsCounters(st, i) ==
  [solution       |-> RemoveItem(st.solution, i),
   in_solution    |-> [st.in_solution EXCEPT ![i] = FALSE],
   conflict_count |-> st.conflict_count]

ApplyRemove(st, i) ==
  [solution       |-> RemoveItem(st.solution, i),
   in_solution    |-> [st.in_solution EXCEPT ![i] = FALSE],
   conflict_count |-> Bump(st.conflict_count, i, -1)]

StateType ==
  [solution       : SolutionType,
   in_solution    : [Items -> BOOLEAN],
   conflict_count : [Items -> Int]]

\* The totals, the flags and the counters are those of the selected items.
Exact(st) == st = NewState(SolutionOf(st.solution.items))

=============================================================================
