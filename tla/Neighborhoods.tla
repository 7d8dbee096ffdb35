---------------------------- MODULE Neighborhoods ----------------------------
(***************************************************************************)
(* The four neighbourhoods of the descent: the moves that tryAdd,          *)
(* trySwap11, trySwap21 and trySwap12 find eligible on a SelectionState,   *)
(* what each of them does to it, the order in which the loops meet them,   *)
(* and what a local optimum is, said without counters and loops.           *)
(***************************************************************************)
EXTENDS SelectionState, Sequences

NeighborhoodNames == {"add", "swap_1_1", "swap_2_1", "swap_1_2"}

-----------------------------------------------------------------------------
(* The schedule built from the four flags of VNDConfig.                    *)

FaultPairsFirst(enabled) ==
  LET push(name) == IF name \in enabled THEN <<name>> ELSE <<>>
  IN  push("add") \o push("swap_1_2") \o push("swap_1_1") \o push("swap_2_1")

ScheduleOf(enabled) ==
  LET push(name) == IF name \in enabled THEN <<name>> ELSE <<>>
  IN  push("add") \o push("swap_1_1") \o push("swap_2_1") \o push("swap_1_2")

-----------------------------------------------------------------------------
(* The neighbourhoods.  A move is the tuple of the items its loops have    *)
(* reached, outermost loop first.                                          *)

C(i, u) == IF HasConflict(i, u) THEN 1 ELSE 0

AddMoves(st) ==
  {m \in {<<u>> : u \in Items} :
     LET u == m[1] IN
       /\ ~ st.in_solution[u]
       /\ st.conflict_count[u] = 0
       /\ Profit[u] > 0
       /\ st.solution.weight + Weight[u] <= Capacity}

Swap11Moves(st) ==
  {m \in st.solution.items \X Items :
     LET i == m[1]
         u == m[2] IN
       /\ ~ st.in_solution[u]
       /\ Profit[u] > Profit[i]
       /\ st.conflict_count[u] - C(i, u) = 0
       /\ st.solution.weight - Weight[i] + Weight[u] <= Capacity}

FaultGainOverOne(st) ==
  {m \in st.solution.items \X st.solution.items \X Items :
     LET i == m[1]
         j == m[2]
         u == m[3] IN
       /\ i < j
       /\ ~ st.in_solution[u]
       /\ Profit[u] > Profit[i]
       /\ st.conflict_count[u] - C(i, u) - C(j, u) = 0
       /\ st.solution.weight - Weight[i] - Weight[j] + Weight[u] <= Capacity}

Swap21Moves(st) ==
  {m \in st.solution.items \X st.solution.items \X Items :
     LET i == m[1]
         j == m[2]
         u == m[3] IN
       /\ i < j
       /\ ~ st.in_solution[u]
       /\ Profit[u] > Profit[i] + Profit[j]
       /\ st.conflict_count[u] - C(i, u) - C(j, u) = 0
       /\ st.solution.weight - Weight[i] - Weight[j] + Weight[u] <= Capacity}

FaultForgetOut(st, i) ==
  {u \in Items :
     /\ ~ st.in_solution[u]
     /\ st.conflict_count[u] = 0
     /\ st.solution.weight - Weight[i] + Weight[u] <= Capacity}

\* The pre-filter of the scan: what could replace i on its own.
Candidates(st, i) ==
  {u \in Items :
     /\ ~ st.in_solution[u]
     /\ st.conflict_count[u] - C(i, u) = 0
     /\ st.solution.weight - Weight[i] + Weight[u] <= Capacity}

FaultPairUnchecked(st) ==
  {m \in st.solution.items \X Items \X Items :
     LET i == m[1]
         u == m[2]
         v == m[3] IN
       /\ u \in Candidates(st, i) /\ v \in Candidates(st, i) /\ u < v
       /\ Profit[u] + Profit[v] > Profit[i]
       /\ st.solution.weight - Weight[i] + Weight[u] + Weight[v] <= Capacity}

FaultPairFitsStrictly(st) ==
  {m \in st.solution.items \X Items \X Items :
     LET i == m[1]
         u == m[2]
         v == m[3] IN
       /\ u \in Candidates(st, i) /\ v \in Candidates(st, i) /\ u < v
       /\ Profit[u] + Profit[v] > Profit[i]
       /\ ~ HasConflict(u, v)
       /\ st.solution.weight - Weight[i] + Weight[u] + Weight[v] < Capacity}

Swap12Moves(st) ==
  {m \in st.solution.items \X Items \X Items :
     LET i == m[1]
         u == m[2]
         v == m[3] IN
       /\ u \in Candidates(st, i) /\ v \in Candidates(st, i) /\ u < v
       /\ Profit[u] + Profit[v] > Profit[i]
       /\ ~ HasConflict(u, v)
       /\ st.solution.weight - Weight[i] + Weight[u] + Weight[v] <= Capacity}

Moves(name, st) ==
  CASE name = "add"      -> AddMoves(st)
    [] name = "swap_1_1" -> Swap11Moves(st)
    [] name = "swap_2_1" -> Swap21Moves(st)
    [] name = "swap_1_2" -> Swap12Moves(st)

Result(name, st, m) ==
  CASE name = "add"      -> ApplyAdd(st, m[1])
    [] name = "swap_1_1" -> ApplyAdd(ApplyRemove(st, m[1]), m[2])
    [] name = "swap_2_1" -> ApplyAdd(ApplyRemove(ApplyRemove(st, m[1]), m[2]), m[3])
    [] name = "swap_1_2" -> ApplyAdd(ApplyAdd(ApplyRemove(st, m[1]), m[2]), m[3])

\* The loops run over ascending item numbers: m is met before any other move.
Before(m, o) ==
  \E p \in DOMAIN m : m[p] < o[p] /\ \A q \in 1 .. p - 1 : m[q] = o[q]

First(m, M) == m \in M /\ \A o \in M \ {m} : Before(m, o)

-----------------------------------------------------------------------------
(* Local optima, independent of the scans.                                 *)

\* The neighbourhoods N1 to N4 as the class comment names them: how many items
\* leave the selection, and how many enter it.
Neighborhood(name, S) ==
  LET exchange(out, in) ==
        {T \in SUBSET Items : Cardinality(S \ T) = out /\ Cardinality(T \ S) = in}
  IN  CASE name = "add"      -> exchange(0, 1)
        [] name = "swap_1_1" -> exchange(1, 1)
        [] name = "swap_2_1" -> exchange(2, 1)
        [] name = "swap_1_2" -> exchange(1, 2)

LocallyOptimal(name, S) ==
  ~ \E T \in Neighborhood(name, S) : Feasible(T) /\ TotalProfit(T) > TotalProfit(S)

=============================================================================
