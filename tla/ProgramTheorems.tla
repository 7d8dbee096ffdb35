-------------------------- MODULE ProgramTheorems ---------------------------
(***************************************************************************)
(* Theorems about main and about the two checks at the ends of a run, both *)
(* of which count pairs in conflict.                                       *)
(*                                                                         *)
(* The validator, for every instance and every list of ids: the verdict is *)
(* the definition of the problem, every id is accounted for once, and      *)
(* validate leaves a fresh verdict in the solution.                        *)
(*                                                                         *)
(* normalize_conflicts, for every list of edges: what it hands to the      *)
(* solver is a symmetric graph without loops over the items, and a list is *)
(* refused only if no numbering fits it.                                   *)
(*                                                                         *)
(* main, for every instance, algorithm, schedule and limit: the validator  *)
(* finds nothing against the solution that the Runner hands to it, so that *)
(* the printed line is true and the exit code 0, and the limits mean what  *)
(* the configuration says.                                                 *)
(***************************************************************************)
EXTENDS Program, ConflictNormalization, SelectionTheorems

-----------------------------------------------------------------------------
(* The inductive invariant of the validator.                               *)

\* The ids read so far are items, none twice.
CleanUpTo(n) ==
  /\ \A p \in 1 .. n : items[p] \in Items
  /\ \A p, q \in 1 .. n : p # q => items[p] # items[q]

ReportType ==
  [feasible : BOOLEAN, total_profit : Int, total_weight : Int,
   invalid_index_count : Nat, duplicate_item_count : Nat,
   conflict_pair_count : Nat, capacity_violated : BOOLEAN, failures : Nat]

\* What each kind of step writes in the report.
LEMMA ReportChanges ==
  ASSUME NEW r \in ReportType
  PROVE  /\ \A m, n \in Nat :
              /\ [r EXCEPT !.feasible = FALSE, !.failures = n, !.invalid_index_count = m]
                   \in ReportType
              /\ [r EXCEPT !.feasible = FALSE, !.failures = n, !.duplicate_item_count = m]
                   \in ReportType
              /\ [r EXCEPT !.feasible = FALSE, !.failures = n, !.conflict_pair_count = m]
                   \in ReportType
         /\ \A n \in Nat :
              [r EXCEPT !.feasible = FALSE, !.failures = n, !.capacity_violated = TRUE]
                \in ReportType
         /\ \A p, w \in Int : [r EXCEPT !.total_profit = p, !.total_weight = w] \in ReportType
BY DEF ReportType

\* The list and its reading.
Reading ==
  /\ call \in {"analyze", "validate"}
  /\ items \in Seq(Int)
  /\ call = "validate" => FromSolution(items)
  /\ check_pos \in 1 .. Len(items) + 1
  /\ check_phase \in {"items", "capacity", "conflicts", "verdict", "done"}
  /\ check_phase # "items" => check_pos = Len(items) + 1
  /\ selected = {items[p] : p \in 1 .. check_pos - 1} \cap Items
  /\ is_feasible \in BOOLEAN

\* The counters of the report and what each of them says; the reasons are the
\* sum of them, so that none is given without a failure and none is lost.
Reporting ==
  /\ report \in ReportType
  /\ check_pos - 1 = report.invalid_index_count + report.duplicate_item_count
                 + Cardinality(selected)
  /\ report.invalid_index_count + report.duplicate_item_count = 0 <=> CleanUpTo(check_pos - 1)
  /\ report.total_profit = TotalProfit(selected)
  /\ report.total_weight = TotalWeight(selected)
  /\ report.failures = report.invalid_index_count + report.duplicate_item_count
                         + (IF report.capacity_violated THEN 1 ELSE 0)
                         + report.conflict_pair_count
  /\ report.feasible <=> report.failures = 0
  /\ report.capacity_violated <=>
       check_phase \notin {"items", "capacity"} /\ TotalWeight(selected) > Capacity
  /\ report.conflict_pair_count =
       IF check_phase \in {"verdict", "done"} THEN Cardinality(ConflictPairs) ELSE 0

ValidatorInv == Reading /\ Reporting

\* The flagged items, and the pairs of them, are finitely many.
LEMMA SelectedFinite ==
  ASSUME Reading
  PROVE  /\ selected \in SUBSET Items /\ IsFiniteSet(selected)
         /\ Cardinality(selected) \in Nat
         /\ TotalProfit(selected) \in Int /\ TotalWeight(selected) \in Int
         /\ IsFiniteSet(ConflictPairs) /\ Cardinality(ConflictPairs) \in Nat
<1>1. selected \in SUBSET Items /\ IsFiniteSet(selected)
  BY ItemsFinite DEF Reading
<1>2. IsFiniteSet(selected \X selected) /\ ConflictPairs \in SUBSET (selected \X selected)
  BY <1>1, FS_Product DEF ConflictPairs
<1>3. IsFiniteSet(ConflictPairs)
  BY <1>2, FS_Subset
<1> QED BY <1>1, <1>3, FS_CardinalityType, TotalsType

\* analyze is called.
Fresh ==
  /\ call \in {"analyze", "validate"}
  /\ items \in Seq(Int)
  /\ call = "validate" => FromSolution(items)
  /\ check_pos = 1 /\ selected = {} /\ report = NewReport
  /\ is_feasible \in BOOLEAN
  /\ check_phase = "items"

\* It starts with an empty report.
LEMMA FreshInv == Fresh => ValidatorInv
<1> SUFFICES ASSUME Fresh PROVE ValidatorInv
  OBVIOUS
<1>1. Len(items) \in Nat /\ 1 .. 1 - 1 = {}
  BY DEF Fresh
<1>2. Reading
  BY <1>1 DEF Fresh, Reading
<1>3. report \in ReportType
  BY DEF Fresh, NewReport, ReportType
<1>4. Reporting
  BY <1>1, <1>3, TotalsType, FS_EmptySet DEF Fresh, NewReport, Reporting, CleanUpTo
<1> QED BY <1>2, <1>4 DEF ValidatorInv

\* What one more id adds to what has been read.
LEMMA ReadOne ==
  ASSUME Reading, AtItem
  PROVE  /\ check_pos \in 1 .. Len(items)
         /\ check_pos' - 1 = check_pos /\ check_pos' \in 1 .. Len(items) + 1
         /\ items[check_pos] \in Int
         /\ {items[p] : p \in 1 .. check_pos} \cap Items
              = IF items[check_pos] \in Items THEN selected \cup {items[check_pos]}
                                              ELSE selected
         /\ CleanUpTo(check_pos) <=>
              CleanUpTo(check_pos - 1) /\ items[check_pos] \in Items \ selected
<1>1. check_pos \in 1 .. Len(items) /\ Len(items) \in Nat
  BY DEF Reading, AtItem
<1>2. check_pos' - 1 = check_pos /\ check_pos' \in 1 .. Len(items) + 1
  BY <1>1 DEF AtItem
<1>3. items[check_pos] \in Int
  BY <1>1 DEF Reading
<1>4. \A p : p \in 1 .. check_pos <=> p \in 1 .. check_pos - 1 \/ p = check_pos
  BY <1>1
<1>5. {items[p] : p \in 1 .. check_pos}
        = {items[p] : p \in 1 .. check_pos - 1} \cup {items[check_pos]}
  BY <1>4
<1>6. {items[p] : p \in 1 .. check_pos} \cap Items
        = IF items[check_pos] \in Items THEN selected \cup {items[check_pos]} ELSE selected
  BY <1>5 DEF Reading
<1>7. CleanUpTo(check_pos) <=>
        CleanUpTo(check_pos - 1) /\ items[check_pos] \in Items \ selected
  <2>1. ASSUME CleanUpTo(check_pos)
        PROVE  CleanUpTo(check_pos - 1) /\ items[check_pos] \in Items \ selected
    <3>1. \A p \in 1 .. check_pos - 1 : p # check_pos
      BY <1>1
    <3> QED BY <1>4, <2>1, <3>1 DEF CleanUpTo, Reading
  <2>2. ASSUME CleanUpTo(check_pos - 1), items[check_pos] \in Items \ selected
        PROVE  CleanUpTo(check_pos)
    <3>1. \A p \in 1 .. check_pos - 1 : items[p] # items[check_pos]
      BY <2>2 DEF Reading
    <3> QED BY <1>4, <2>2, <3>1 DEF CleanUpTo
  <2> QED BY <2>1, <2>2
<1> QED BY <1>1, <1>2, <1>3, <1>6, <1>7

-----------------------------------------------------------------------------
(* The inductive step, one lemma per phase.                                *)

\* An id that is kept out is one count more, whichever, and one failure more.
LEMMA KeepOut ==
  ASSUME ValidatorInv, AtItem, items[check_pos] \notin Items \ selected, selected' = selected,
         report' \in ReportType,
         report'.invalid_index_count + report'.duplicate_item_count
           = report.invalid_index_count + report.duplicate_item_count + 1,
         report'.failures = report.failures + 1, report'.feasible = FALSE,
         report'.total_profit = report.total_profit,
         report'.total_weight = report.total_weight,
         report'.capacity_violated = report.capacity_violated,
         report'.conflict_pair_count = report.conflict_pair_count
  PROVE  ValidatorInv'
<1>1. Reading /\ Reporting
  BY DEF ValidatorInv
<1>2. /\ check_pos' - 1 = check_pos /\ check_pos' \in 1 .. Len(items) + 1 /\ check_pos \in Int
      /\ {items[p] : p \in 1 .. check_pos} \cap Items = selected
      /\ ~ CleanUpTo(check_pos)
  <2>1. check_pos \in Int
    BY <1>1, ReadOne
  <2>2. items[check_pos] \in Items => selected \cup {items[check_pos]} = selected
    OBVIOUS
  <2> QED BY <1>1, <2>1, <2>2, ReadOne
<1>3. Reading'
  BY <1>1, <1>2 DEF Reading, AtItem, FromSolution
<1>4. ~ (CleanUpTo(check_pos - 1))'
  BY <1>2 DEF AtItem, CleanUpTo
<1>5. /\ TotalProfit(selected') = TotalProfit(selected)
      /\ TotalWeight(selected') = TotalWeight(selected)
      /\ Cardinality(selected') = Cardinality(selected)
      /\ check_phase' = check_phase /\ check_phase = "items"
  BY DEF AtItem
<1>6. /\ report.invalid_index_count \in Nat /\ report.duplicate_item_count \in Nat
      /\ report.failures \in Nat /\ report.conflict_pair_count \in Nat
      /\ report.capacity_violated = FALSE /\ Cardinality(selected) \in Nat
  BY <1>1, <1>5, SelectedFinite DEF Reporting, ReportType
<1>7. Reporting'
  <2>1. /\ report'.failures # 0
        /\ report'.invalid_index_count + report'.duplicate_item_count # 0
        /\ check_pos' - 1 = report'.invalid_index_count + report'.duplicate_item_count
                        + Cardinality(selected')
    <3>1. check_pos - 1 = report.invalid_index_count + report.duplicate_item_count
                      + Cardinality(selected)
      BY <1>1 DEF Reporting
    <3>2. check_pos' - 1 = report.invalid_index_count + report.duplicate_item_count + 1
                       + Cardinality(selected)
      <4>1. check_pos' - 1 = check_pos /\ check_pos \in Int
        BY <1>2
      <4> QED BY <1>6, <3>1, <4>1
    <3> QED BY <1>5, <1>6, <3>2
  <2>2. report'.failures = report'.invalid_index_count + report'.duplicate_item_count
                         + (IF report'.capacity_violated THEN 1 ELSE 0)
                         + report'.conflict_pair_count
    BY <1>1, <1>6 DEF Reporting
  <2> QED BY <1>1, <1>4, <1>5, <1>6, <2>1, <2>2 DEF Reporting
<1> QED BY <1>3, <1>7 DEF ValidatorInv

LEMMA InvalidKeeps == ValidatorInv /\ Invalid => ValidatorInv'
<1> SUFFICES ASSUME ValidatorInv, Invalid PROVE ValidatorInv'
  OBVIOUS
<1>1. report \in ReportType
  BY DEF ValidatorInv, Reporting
<1>2. report' = [report EXCEPT !.feasible = FALSE, !.failures = report.failures + 1,
                               !.invalid_index_count = report.invalid_index_count + 1]
  BY <1>1 DEF Invalid, Fail, ReportType
<1>3. AtItem /\ selected' = selected /\ items[check_pos] \notin Items \ selected
  BY DEF Invalid
<1>4. report' \in ReportType
  <2>1. \A n \in Nat : n + 1 \in Nat
    OBVIOUS
  <2>2. /\ report.failures + 1 \in Nat /\ report.invalid_index_count + 1 \in Nat
        /\ report.duplicate_item_count + 1 \in Nat
    BY <1>1, <2>1 DEF ReportType
  <2> QED BY <1>1, <1>2, <2>2, ReportChanges
<1>5. /\ report'.invalid_index_count = report.invalid_index_count + 1
      /\ report'.duplicate_item_count = report.duplicate_item_count
      /\ report'.failures = report.failures + 1 /\ report'.feasible = FALSE
      /\ report'.total_profit = report.total_profit
      /\ report'.total_weight = report.total_weight
      /\ report'.capacity_violated = report.capacity_violated
      /\ report'.conflict_pair_count = report.conflict_pair_count
  BY <1>1, <1>2 DEF ReportType
<1>6. report.invalid_index_count \in Nat /\ report.duplicate_item_count \in Nat
  BY <1>1 DEF ReportType
<1>7. report'.invalid_index_count + report'.duplicate_item_count
        = report.invalid_index_count + report.duplicate_item_count + 1
  BY <1>5, <1>6
<1> QED BY <1>3, <1>4, <1>5, <1>7, KeepOut

LEMMA DuplicateKeeps == ValidatorInv /\ Duplicate => ValidatorInv'
<1> SUFFICES ASSUME ValidatorInv, Duplicate PROVE ValidatorInv'
  OBVIOUS
<1>1. report \in ReportType
  BY DEF ValidatorInv, Reporting
<1>2. report' = [report EXCEPT !.feasible = FALSE, !.failures = report.failures + 1,
                               !.duplicate_item_count = report.duplicate_item_count + 1]
  BY <1>1 DEF Duplicate, Fail, ReportType
<1>3. AtItem /\ selected' = selected /\ items[check_pos] \notin Items \ selected
  BY DEF Duplicate
<1>4. report' \in ReportType
  <2>1. \A n \in Nat : n + 1 \in Nat
    OBVIOUS
  <2>2. /\ report.failures + 1 \in Nat /\ report.invalid_index_count + 1 \in Nat
        /\ report.duplicate_item_count + 1 \in Nat
    BY <1>1, <2>1 DEF ReportType
  <2> QED BY <1>1, <1>2, <2>2, ReportChanges
<1>5. /\ report'.duplicate_item_count = report.duplicate_item_count + 1
      /\ report'.invalid_index_count = report.invalid_index_count
      /\ report'.failures = report.failures + 1 /\ report'.feasible = FALSE
      /\ report'.total_profit = report.total_profit
      /\ report'.total_weight = report.total_weight
      /\ report'.capacity_violated = report.capacity_violated
      /\ report'.conflict_pair_count = report.conflict_pair_count
  BY <1>1, <1>2 DEF ReportType
<1>6. report.invalid_index_count \in Nat /\ report.duplicate_item_count \in Nat
  BY <1>1 DEF ReportType
<1>7. report'.invalid_index_count + report'.duplicate_item_count
        = report.invalid_index_count + report.duplicate_item_count + 1
  BY <1>5, <1>6
<1> QED BY <1>3, <1>4, <1>5, <1>7, KeepOut

\* An item that is flagged enters the totals.
LEMMA AcceptKeeps == ValidatorInv /\ Accept => ValidatorInv'
<1> SUFFICES ASSUME ValidatorInv, Accept PROVE ValidatorInv'
  OBVIOUS
<1>1. Reading /\ Reporting /\ AtItem
  BY DEF ValidatorInv, Accept
<1> DEFINE i == items[check_pos]
<1>2. /\ i \in Items \ selected /\ selected' = selected \cup {i} /\ report \in ReportType
      /\ Profit[i] \in Int /\ Weight[i] \in Int
  BY <1>1, ProfitAssumption, WeightAssumption DEF Accept, Reporting
<1>3. report' = [report EXCEPT !.total_profit = report.total_profit + Profit[i],
                               !.total_weight = report.total_weight + Weight[i]]
  BY <1>2 DEF Accept, ReportType
<1>4. /\ check_pos' - 1 = check_pos /\ check_pos' \in 1 .. Len(items) + 1 /\ check_pos \in Int
      /\ {items[p] : p \in 1 .. check_pos} \cap Items = selected'
      /\ CleanUpTo(check_pos) <=> CleanUpTo(check_pos - 1)
  BY <1>1, <1>2, ReadOne
<1>5. Reading'
  BY <1>1, <1>4 DEF Reading, AtItem, FromSolution
<1>6. (CleanUpTo(check_pos - 1))' <=> CleanUpTo(check_pos)
  <2>1. items' = items /\ 1 .. check_pos' - 1 = 1 .. check_pos
    BY <1>1, <1>4 DEF AtItem
  <2> QED BY <2>1 DEF CleanUpTo
<1>7. /\ TotalProfit(selected') = TotalProfit(selected) + Profit[i]
      /\ TotalWeight(selected') = TotalWeight(selected) + Weight[i]
      /\ Cardinality(selected') = Cardinality(selected) + 1
      /\ Cardinality(selected) \in Nat
  BY <1>1, <1>2, SelectedFinite, TotalsAdd, FS_AddElement
<1>8. check_phase' = check_phase /\ check_phase = "items"
  BY <1>1 DEF AtItem
<1> HIDE DEF i
<1>9. report' \in ReportType
  <2>1. report.total_profit + Profit[i] \in Int /\ report.total_weight + Weight[i] \in Int
    BY <1>2 DEF ReportType
  <2> QED BY <1>2, <1>3, <2>1, ReportChanges
<1>10. /\ report'.total_profit = report.total_profit + Profit[i]
      /\ report'.total_weight = report.total_weight + Weight[i]
      /\ report'.failures = report.failures /\ report'.feasible = report.feasible
      /\ report'.invalid_index_count = report.invalid_index_count
      /\ report'.duplicate_item_count = report.duplicate_item_count
      /\ report'.capacity_violated = report.capacity_violated
      /\ report'.conflict_pair_count = report.conflict_pair_count
  BY <1>2, <1>3 DEF ReportType
<1>11. /\ report'.total_profit = TotalProfit(selected')
       /\ report'.total_weight = TotalWeight(selected')
  BY <1>1, <1>7, <1>10 DEF Reporting
<1>12. check_pos' - 1 = report'.invalid_index_count + report'.duplicate_item_count
                    + Cardinality(selected')
  <2>1. check_pos - 1 = report.invalid_index_count + report.duplicate_item_count
                    + Cardinality(selected)
    BY <1>1 DEF Reporting
  <2>2. report.invalid_index_count \in Nat /\ report.duplicate_item_count \in Nat
    BY <1>2 DEF ReportType
  <2>3. check_pos' - 1 = check_pos /\ check_pos \in Int
    BY <1>4
  <2>4. /\ report'.invalid_index_count = report.invalid_index_count
        /\ report'.duplicate_item_count = report.duplicate_item_count
    BY <1>10
  <2>5. Cardinality(selected') = Cardinality(selected) + 1 /\ Cardinality(selected) \in Nat
    BY <1>7
  <2> QED BY <2>1, <2>2, <2>3, <2>4, <2>5
<1>13. Reporting'
  BY <1>1, <1>4, <1>6, <1>8, <1>9, <1>10, <1>11, <1>12 DEF Reporting
<1> QED BY <1>5, <1>13 DEF ValidatorInv

LEMMA EndOfItemsKeeps == ValidatorInv /\ EndOfItems => ValidatorInv'
<1> SUFFICES ASSUME ValidatorInv, EndOfItems PROVE ValidatorInv'
  OBVIOUS
<1>1. check_pos = Len(items) + 1
  BY DEF ValidatorInv, Reading, EndOfItems
<1>2. Reading'
  BY <1>1 DEF ValidatorInv, Reading, EndOfItems, FromSolution
<1>3. (CleanUpTo(check_pos - 1))' <=> CleanUpTo(check_pos - 1)
  BY DEF EndOfItems, CleanUpTo
<1>4. Reporting'
  BY <1>3 DEF ValidatorInv, Reporting, EndOfItems
<1> QED BY <1>2, <1>4 DEF ValidatorInv

LEMMA CheckCapacityKeeps == ValidatorInv /\ CheckCapacity => ValidatorInv'
<1> SUFFICES ASSUME ValidatorInv, CheckCapacity PROVE ValidatorInv'
  OBVIOUS
<1>1. Reading'
  BY DEF ValidatorInv, Reading, CheckCapacity, FromSolution
<1>2. (CleanUpTo(check_pos - 1))' <=> CleanUpTo(check_pos - 1)
  BY DEF CheckCapacity, CleanUpTo
<1>3. /\ Reporting /\ report \in ReportType
      /\ report.failures \in Nat /\ report.failures + 1 \in Nat
      /\ report.failures = report.invalid_index_count + report.duplicate_item_count
      /\ report.conflict_pair_count = 0 /\ report.capacity_violated = FALSE
      /\ report.invalid_index_count \in Nat /\ report.duplicate_item_count \in Nat
  BY DEF ValidatorInv, Reporting, CheckCapacity, ReportType
<1>4. CASE Overweight
  <2>1. report' = [report EXCEPT !.feasible = FALSE, !.failures = report.failures + 1,
                                 !.capacity_violated = TRUE]
    BY <1>3, <1>4 DEF CheckCapacity, Fail, ReportType
  <2>2. report' \in ReportType
    BY <1>3, <2>1, ReportChanges
  <2>3. /\ report'.feasible = FALSE /\ report'.failures = report.failures + 1
        /\ report'.capacity_violated = TRUE
        /\ report'.total_profit = report.total_profit
        /\ report'.total_weight = report.total_weight
        /\ report'.invalid_index_count = report.invalid_index_count
        /\ report'.duplicate_item_count = report.duplicate_item_count
        /\ report'.conflict_pair_count = report.conflict_pair_count
    BY <1>3, <2>1 DEF ReportType
  <2>4. TotalWeight(selected) > Capacity /\ report.failures + 1 # 0
    BY <1>3, <1>4 DEF Overweight, Reporting
  <2>5. check_phase' = "conflicts" /\ selected' = selected /\ check_pos' = check_pos
    BY DEF CheckCapacity
  <2>6. report'.failures = report'.invalid_index_count + report'.duplicate_item_count
                             + (IF report'.capacity_violated THEN 1 ELSE 0)
                             + report'.conflict_pair_count
    BY <1>3, <2>3
  <2>7. Reporting'
    BY <1>2, <1>3, <2>2, <2>3, <2>4, <2>5, <2>6 DEF Reporting
  <2> QED BY <1>1, <2>7 DEF ValidatorInv
<1>5. CASE ~ Overweight
  <2>1. /\ report' = report /\ check_phase' = "conflicts"
        /\ selected' = selected /\ check_pos' = check_pos
    BY <1>5 DEF CheckCapacity
  <2>2. ~ TotalWeight(selected) > Capacity
    BY <1>3, <1>5 DEF Overweight, Reporting
  <2>3. Reporting'
    BY <1>2, <1>3, <2>1, <2>2 DEF Reporting
  <2> QED BY <1>1, <2>3 DEF ValidatorInv
<1> QED BY <1>4, <1>5

LEMMA CheckConflictsKeeps == ValidatorInv /\ CheckConflicts => ValidatorInv'
<1> SUFFICES ASSUME ValidatorInv, CheckConflicts PROVE ValidatorInv'
  OBVIOUS
<1> DEFINE n == Cardinality(ConflictPairs)
<1>1. Reading'
  BY DEF ValidatorInv, Reading, CheckConflicts, FromSolution
<1>2. /\ (CleanUpTo(check_pos - 1))' <=> CleanUpTo(check_pos - 1)
      /\ ConflictPairs' = ConflictPairs
  BY DEF CheckConflicts, CleanUpTo, ConflictPairs
<1>3. /\ Reporting /\ report \in ReportType
      /\ report.failures \in Nat /\ report.conflict_pair_count = 0
      /\ report.failures = report.invalid_index_count + report.duplicate_item_count
                             + (IF report.capacity_violated THEN 1 ELSE 0)
      /\ report.invalid_index_count \in Nat /\ report.duplicate_item_count \in Nat
  BY DEF ValidatorInv, Reporting, CheckConflicts, ReportType
<1>4. /\ n \in Nat /\ IsFiniteSet(ConflictPairs) /\ report.failures + n \in Nat
      /\ n = 0 <=> ConflictPairs = {}
  <2>1. n \in Nat /\ IsFiniteSet(ConflictPairs)
    BY SelectedFinite DEF ValidatorInv
  <2> QED BY <1>3, <2>1, FS_EmptySet
<1>5. /\ check_phase = "conflicts" /\ check_phase' = "verdict"
      /\ selected' = selected /\ check_pos' = check_pos
  BY DEF CheckConflicts
<1>6. CASE ConflictPairs # {}
  <2>1. report' = [report EXCEPT !.feasible = FALSE, !.failures = report.failures + n,
                                 !.conflict_pair_count = n]
    BY <1>3, <1>6 DEF CheckConflicts, Fail, ReportType
  <2> HIDE DEF n
  <2>2. report' \in ReportType
    BY <1>3, <1>4, <2>1, ReportChanges
  <2>3. /\ report'.feasible = FALSE /\ report'.failures = report.failures + n
        /\ report'.conflict_pair_count = n
        /\ report'.total_profit = report.total_profit
        /\ report'.total_weight = report.total_weight
        /\ report'.invalid_index_count = report.invalid_index_count
        /\ report'.duplicate_item_count = report.duplicate_item_count
        /\ report'.capacity_violated = report.capacity_violated
    BY <1>3, <2>1 DEF ReportType
  <2>4. report.failures + n # 0 /\ n = Cardinality(ConflictPairs')
    BY <1>2, <1>3, <1>4, <1>6 DEF n
  <2>5. report'.failures = report'.invalid_index_count + report'.duplicate_item_count
                             + (IF report'.capacity_violated THEN 1 ELSE 0)
                             + report'.conflict_pair_count
    BY <1>3, <1>4, <2>3
  <2>6. Reporting'
    BY <1>2, <1>3, <1>5, <2>2, <2>3, <2>4, <2>5 DEF Reporting
  <2> QED BY <1>1, <2>6 DEF ValidatorInv
<1>7. CASE ConflictPairs = {}
  <2>1. report' = report /\ Cardinality(ConflictPairs') = 0
    BY <1>2, <1>4, <1>7 DEF CheckConflicts
  <2>2. Reporting'
    BY <1>2, <1>3, <1>5, <2>1 DEF Reporting
  <2> QED BY <1>1, <2>2 DEF ValidatorInv
<1> QED BY <1>6, <1>7

LEMMA DeliverKeeps == ValidatorInv /\ Deliver => ValidatorInv'
<1> SUFFICES ASSUME ValidatorInv, Deliver PROVE ValidatorInv'
  OBVIOUS
<1>1. is_feasible' \in BOOLEAN
  BY DEF ValidatorInv, Reading, Reporting, ReportType, Deliver
<1>2. Reading'
  BY <1>1 DEF ValidatorInv, Reading, Deliver, FromSolution
<1>3. /\ (CleanUpTo(check_pos - 1))' <=> CleanUpTo(check_pos - 1)
      /\ ConflictPairs' = ConflictPairs
  BY DEF Deliver, CleanUpTo, ConflictPairs
<1>4. Reporting'
  BY <1>3 DEF ValidatorInv, Reporting, Deliver
<1> QED BY <1>2, <1>4 DEF ValidatorInv

-----------------------------------------------------------------------------
(* What the validator promises.                                            *)

\* Every step keeps the invariant.
LEMMA ValidatorNextInv == ValidatorInv /\ [ValidatorNext]_validatorVars => ValidatorInv'
<1> SUFFICES ASSUME ValidatorInv, [ValidatorNext]_validatorVars PROVE ValidatorInv'
  OBVIOUS
<1>1. CASE ValidatorNext
  BY <1>1, InvalidKeeps, DuplicateKeeps, AcceptKeeps, EndOfItemsKeeps,
     CheckCapacityKeeps, CheckConflictsKeeps, DeliverKeeps DEF ValidatorNext
<1>2. CASE UNCHANGED validatorVars
  <2>1. /\ ConflictPairs' = ConflictPairs
        /\ (CleanUpTo(check_pos - 1))' <=> CleanUpTo(check_pos - 1)
    BY <1>2 DEF validatorVars, ConflictPairs, CleanUpTo
  <2> QED BY <1>2, <2>1 DEF validatorVars, ValidatorInv, Reading, Reporting, FromSolution
<1> QED BY <1>1, <1>2

\* It holds in every state of every analysis.
LEMMA ValidatorInvariance == ValidatorSpec => []ValidatorInv
<1>1. ValidatorInit => ValidatorInv
  BY FreshInv, SelectionsAssumption DEF ValidatorInit, Fresh
<1> QED BY <1>1, ValidatorNextInv, PTL DEF ValidatorSpec

\* Every field keeps its type, and the position stays within one id past the
\* list (the loop of Validator::analyze).
THEOREM ValidatorTypeCorrect == ValidatorSpec => []ValidatorTypeOK
<1>1. ValidatorInv => ValidatorTypeOK
  <2> SUFFICES ASSUME ValidatorInv PROVE ValidatorTypeOK
    OBVIOUS
  <2>1. selected \in SUBSET Items
    BY SelectedFinite DEF ValidatorInv
  <2> QED BY <2>1 DEF ValidatorInv, Reading, Reporting, ReportType, ValidatorTypeOK
<1> QED BY <1>1, ValidatorInvariance, PTL

\* No pair is reported exactly when no two flagged items are in conflict: the
\* pairs seen from the larger end only repeat those from the smaller one.
LEMMA NoPairs ==
  ASSUME selected \in SUBSET Items
  PROVE  ConflictPairs = {} <=> ConflictFree(selected)
<1>1. ASSUME ConflictPairs = {}, NEW i \in selected, NEW j \in Graph[i] \cap selected
      PROVE  FALSE
  <2>1. i \in Items /\ j \in Items /\ i # j /\ i \in Graph[j] /\ j \in Graph[i]
    BY <1>1, GraphAssumption
  <2>2. i < j \/ j < i
    BY <2>1, NAssumption DEF Items
  <2>3. <<i, j>> \in ConflictPairs \/ <<j, i>> \in ConflictPairs
    BY <1>1, <2>1, <2>2 DEF ConflictPairs
  <2> QED BY <1>1, <2>3
<1>2. ASSUME ConflictFree(selected), NEW p \in ConflictPairs PROVE FALSE
  BY <1>2 DEF ConflictFree, ConflictPairs
<1> QED BY <1>1, <1>2 DEF ConflictFree

\* A clean list has flagged all that it names.
LEMMA CleanRange ==
  ASSUME Reading, check_pos = Len(items) + 1
  PROVE  /\ CleanUpTo(check_pos - 1) <=>
              /\ \A p \in DOMAIN items : items[p] \in Items
              /\ \A p, q \in DOMAIN items : p # q => items[p] # items[q]
         /\ CleanUpTo(check_pos - 1) => Range(items) = selected
<1>1. DOMAIN items = 1 .. check_pos - 1
  BY DEF Reading
<1>2. CleanUpTo(check_pos - 1) => Range(items) = selected
  BY <1>1 DEF Range, Reading, CleanUpTo
<1> QED BY <1>1, <1>2 DEF CleanUpTo

\* The verdict, before and after it is delivered.
LEMMA Verdict ==
  ASSUME ValidatorInv, check_phase \in {"verdict", "done"}
  PROVE  /\ report.feasible <=> /\ \A p \in DOMAIN items : items[p] \in Items
                                /\ \A p, q \in DOMAIN items : p # q => items[p] # items[q]
                                /\ Feasible(Range(items))
         /\ report.feasible <=> report.failures = 0
<1>1. /\ Reading /\ Reporting /\ check_pos = Len(items) + 1 /\ selected \in SUBSET Items
      /\ IsFiniteSet(ConflictPairs) /\ Cardinality(ConflictPairs) \in Nat
      /\ TotalWeight(selected) \in Int
  BY SelectedFinite DEF ValidatorInv, Reading
<1>2. report.conflict_pair_count = 0 <=> ConflictFree(selected)
  BY <1>1, NoPairs, FS_EmptySet DEF Reporting
<1>3. report.capacity_violated = FALSE <=> TotalWeight(selected) <= Capacity
  BY <1>1, CapacityAssumption DEF Reporting, ReportType
<1>4. report.failures = 0 <=>
        /\ report.invalid_index_count + report.duplicate_item_count = 0
        /\ report.capacity_violated = FALSE
        /\ report.conflict_pair_count = 0
  BY <1>1 DEF Reporting, ReportType
<1>5. report.feasible <=> CleanUpTo(check_pos - 1) /\ Feasible(selected)
  BY <1>1, <1>2, <1>3, <1>4 DEF Reporting, Feasible
<1> QED BY <1>1, <1>5, CleanRange DEF Reporting

\* The verdict is the definition of the problem, whatever the list of ids
\* (Validator::analyze).
THEOREM VerdictIsRight == ValidatorSpec => []VerdictIsFeasibility
<1>1. ValidatorInv => VerdictIsFeasibility
  BY Verdict DEF VerdictIsFeasibility
<1> QED BY <1>1, ValidatorInvariance, PTL

\* The two-item subsets in conflict, each of them once.
Clashes == {e \in SUBSET selected : Cardinality(e) = 2 /\ \A i \in e : Graph[i] \cap e # {}}

\* The nested loops visit them one by one: the pair of the smaller and the
\* larger end stands for the set of both.
LEMMA PairsAreClashes ==
  ASSUME selected \in SUBSET Items
  PROVE  Cardinality(ConflictPairs) = Cardinality(Clashes)
<1> DEFINE Ends(p) == {p[1], p[2]}
<1>1. /\ IsFiniteSet(ConflictPairs) /\ ConflictPairs \subseteq selected \X selected
      /\ \A p \in ConflictPairs : p[1] < p[2] /\ p[2] \in Graph[p[1]]
  <2>1. IsFiniteSet(selected)
    BY ItemsFinite
  <2>2. IsFiniteSet(selected \X selected) /\ ConflictPairs \in SUBSET (selected \X selected)
    BY <2>1, FS_Product DEF ConflictPairs
  <2>3. \A p \in ConflictPairs : p[1] < p[2] /\ p[2] \in Graph[p[1]]
    <3> TAKE p \in ConflictPairs
    <3>1. p[1] \in Items /\ p[2] \in Items
      BY <2>2
    <3>2. Items \subseteq Int
      BY NAssumption DEF Items
    <3>3. p[2] > p[1] /\ p[2] \in Graph[p[1]]
      BY DEF ConflictPairs
    <3> QED BY <3>1, <3>2, <3>3
  <2> QED BY <2>2, <2>3, FS_Subset
<1>2. ASSUME NEW p \in ConflictPairs PROVE Ends(p) \in Clashes
  <2>1. /\ p[1] \in selected /\ p[2] \in selected /\ p[1] # p[2]
        /\ p[2] \in Graph[p[1]] /\ p[1] \in Graph[p[2]]
    <3>1. p[1] \in selected /\ p[2] \in selected /\ p[2] \in Graph[p[1]]
      BY <1>1
    <3> QED BY <3>1, GraphAssumption
  <2>2. Cardinality(Ends(p)) = 2
    <3>1. IsFiniteSet({p[1]}) /\ Cardinality({p[1]}) = 1 /\ p[2] \notin {p[1]}
      BY <2>1, FS_Singleton
    <3>2. Cardinality({p[1]} \cup {p[2]}) = 2 /\ Ends(p) = {p[1]} \cup {p[2]}
      BY <3>1, FS_AddElement
    <3> QED BY <3>2
  <2> QED BY <2>1, <2>2 DEF Clashes
<1>3. ASSUME NEW e \in Clashes PROVE \E p \in ConflictPairs : Ends(p) = e
  <2>1. e \in SUBSET selected /\ e \in SUBSET Items /\ Cardinality(e) = 2
    BY DEF Clashes
  <2>2. PICK i, j \in e : i < j /\ e = {i, j}
    BY <2>1, TwoItems
  <2>3. j \in Graph[i]
    BY <2>1, <2>2, GraphAssumption DEF Clashes
  <2>4. <<i, j>> \in ConflictPairs /\ Ends(<<i, j>>) = e
    BY <2>1, <2>2, <2>3 DEF ConflictPairs
  <2> QED BY <2>4
<1>4. Clashes = {Ends(p) : p \in ConflictPairs}
  <2> HIDE DEF Ends
  <2> QED BY <1>2, <1>3
<1>5. ConflictPairs \subseteq Int \X Int
  <2>1. Items \subseteq Int
    BY NAssumption DEF Items
  <2>2. selected \subseteq Int
    BY <2>1
  <2> QED BY <1>1, <2>2
<1> QED BY <1>1, <1>4, <1>5, AscendingPairs

\* Each id of the list is counted once, the totals are those of the items
\* kept, and a pair in conflict is one failure (Validator::analyze).
THEOREM EveryItemAccounted == ValidatorSpec => []AccountsForEveryItem
<1>1. ValidatorInv => AccountsForEveryItem
  <2> SUFFICES ASSUME ValidatorInv PROVE AccountsForEveryItem
    OBVIOUS
  <2>1. Reporting /\ selected \in SUBSET Items
    BY SelectedFinite DEF ValidatorInv
  <2>2. check_phase \in {"verdict", "done"} => report.conflict_pair_count = Cardinality(Clashes)
    BY <2>1, PairsAreClashes DEF Reporting
  <2> QED BY <2>1, <2>2 DEF Reporting, AccountsForEveryItem, Clashes
<1> QED BY <1>1, ValidatorInvariance, PTL

\* A list that comes from a solution is clean.
LEMMA SolutionIsClean ==
  ASSUME Reading, call = "validate"
  PROVE  /\ \A p \in DOMAIN items : items[p] \in Items
         /\ \A p, q \in DOMAIN items : p # q => items[p] # items[q]
<1>1. FromSolution(items) /\ DOMAIN items \subseteq Int
  BY DEF Reading
<1>2. ASSUME NEW p \in DOMAIN items, NEW q \in DOMAIN items, p # q
      PROVE  items[p] # items[q]
  <2>1. p < q \/ q < p
    BY <1>1, <1>2
  <2>2. items[p] \in Int /\ items[q] \in Int
    BY <1>1, NAssumption DEF FromSolution, Items
  <2> QED BY <1>1, <2>1, <2>2 DEF FromSolution
<1> QED BY <1>1, <1>2 DEF FromSolution

\* Whatever an earlier call left in the solution, validate overwrites it with
\* the feasibility of the solution, and analyze leaves it alone.
THEOREM ValidateRefreshes == ValidatorSpec => FlagIsFresh
<1> DEFINE fresh ==
      is_feasible' # is_feasible \/ check_phase' = "done"
        => IF call = "validate" THEN is_feasible' = Feasible(Range(items))
                                ELSE is_feasible' = is_feasible
<1>1. ASSUME ValidatorInv, ValidatorNext PROVE fresh
  <2> SUFFICES ASSUME is_feasible' # is_feasible \/ check_phase' = "done"
               PROVE  IF call = "validate" THEN is_feasible' = Feasible(Range(items))
                                           ELSE is_feasible' = is_feasible
    OBVIOUS
  <2>1. Deliver
    BY <1>1 DEF ValidatorNext, Invalid, Duplicate, Accept, AtItem, EndOfItems,
                CheckCapacity, CheckConflicts
  <2>2. CASE call = "validate"
    <3>1. report.feasible <=> Feasible(Range(items))
      BY <1>1, <2>1, <2>2, Verdict, SolutionIsClean DEF ValidatorInv, Deliver
    <3>2. is_feasible' = report.feasible /\ report.feasible \in BOOLEAN
      BY <1>1, <2>1, <2>2 DEF Deliver, ValidatorInv, Reporting, ReportType
    <3>3. Feasible(Range(items)) \in BOOLEAN
      BY DEF Feasible
    <3> QED BY <2>2, <3>1, <3>2, <3>3
  <2>3. CASE call # "validate"
    BY <2>1, <2>3 DEF Deliver
  <2> QED BY <2>2, <2>3
<1>2. ValidatorInv /\ [ValidatorNext]_validatorVars => [fresh]_validatorVars
  BY <1>1
<1> QED BY <1>2, ValidatorInvariance, PTL DEF ValidatorSpec, FlagIsFresh

-----------------------------------------------------------------------------
(* The two operators that the result of the normalization depends on.      *)

\* If some numbering fits all edges, the chosen one does.
LEMMA ChosenBaseFits ==
  ASSUME valid_zero_based \/ valid_one_based,
         file.n_items \in Nat, file.edges \subseteq Int \X Int,
         file.default_base \in {0, 1}
  PROVE  /\ ChosenBase \in {0, 1}
         /\ \A e \in file.edges :
              e[1] - ChosenBase \in ItemRange /\ e[2] - ChosenBase \in ItemRange
<1>1. ASSUME ChosenBase = 0, valid_zero_based
      PROVE  \A e \in file.edges :
               e[1] - ChosenBase \in ItemRange /\ e[2] - ChosenBase \in ItemRange
  BY <1>1 DEF valid_zero_based, ItemRange
<1>2. ASSUME ChosenBase = 1, valid_one_based
      PROVE  \A e \in file.edges :
               e[1] - ChosenBase \in ItemRange /\ e[2] - ChosenBase \in ItemRange
  BY <1>2 DEF valid_one_based
<1>3. CASE valid_zero_based /\ ~ valid_one_based
  <2>1. ~ (~ saw(0) /\ saw(file.n_items))
    BY <1>3 DEF valid_zero_based, saw, ItemRange
  <2>2. ChosenBase = 0
    BY <1>3, <2>1 DEF ChosenBase
  <2> QED BY <1>1, <1>3, <2>2
<1>4. CASE ~ valid_zero_based /\ valid_one_based
  <2>1. ~ (saw(0) /\ ~ saw(file.n_items))
    BY <1>4 DEF valid_one_based, saw, ItemRange
  <2>2. ChosenBase = 1
    BY <1>4, <2>1 DEF ChosenBase
  <2> QED BY <1>2, <1>4, <2>2
<1>5. CASE valid_zero_based /\ valid_one_based
  <2>1. ~ saw(0) /\ ~ saw(file.n_items)
    BY <1>5 DEF valid_zero_based, valid_one_based, saw, ItemRange
  <2>2. ChosenBase \in {0, 1}
    BY <1>5, <2>1 DEF ChosenBase
  <2> QED BY <1>1, <1>2, <1>5, <2>2
<1> QED BY <1>3, <1>4, <1>5

\* Pushing each edge at both its ends makes the lists symmetric.
LEMMA AdjacencyWellFormed ==
  ASSUME NEW edges
  PROVE  /\ Adjacency(edges) \in [ItemRange -> SUBSET ItemRange]
         /\ \A i, j \in ItemRange : j \in Adjacency(edges)[i] <=> i \in Adjacency(edges)[j]
         /\ \A i \in ItemRange : i \notin Adjacency(edges)[i]
BY DEF Adjacency

\* The numbering that the author of a list had in mind is the one chosen, if
\* the list or its format tells.
LEMMA NumberingFits ==
  ASSUME NEW written \in {0, 1}, file.n_items \in Nat, file.edges \subseteq Int \X Int,
         file.default_base \in {0, 1},
         \A e \in file.edges : e[1] - written \in ItemRange /\ e[2] - written \in ItemRange,
         \/ written = file.default_base
         \/ written = 0 /\ saw(0)
         \/ written = 1 /\ saw(file.n_items)
  PROVE  ChosenBase = written
<1>1. CASE written = 0
  <2>1. valid_zero_based
    BY <1>1 DEF valid_zero_based, ItemRange
  <2>2. valid_one_based => ~ saw(0)
    BY DEF valid_one_based, saw, ItemRange
  <2>3. ~ saw(file.n_items)
    BY <2>1 DEF valid_zero_based, saw, ItemRange
  <2>4. ~ valid_one_based => ChosenBase = 0
    BY <2>1, <2>3 DEF ChosenBase
  <2>5. valid_one_based => ChosenBase = file.default_base
    BY <2>1, <2>2, <2>3 DEF ChosenBase
  <2> QED BY <1>1, <2>2, <2>4, <2>5
<1>2. CASE written = 1
  <2>1. valid_one_based
    BY <1>2 DEF valid_one_based
  <2>2. ~ saw(0)
    BY <2>1 DEF valid_one_based, saw, ItemRange
  <2>3. valid_zero_based => ~ saw(file.n_items)
    BY DEF valid_zero_based, saw, ItemRange
  <2>4. ~ valid_zero_based => ChosenBase = 1
    BY <2>1, <2>2 DEF ChosenBase
  <2>5. valid_zero_based => ChosenBase = file.default_base
    BY <2>1, <2>2, <2>3 DEF ChosenBase
  <2> QED BY <1>2, <2>3, <2>4, <2>5
<1> QED BY <1>1, <1>2

-----------------------------------------------------------------------------
(* Its inductive invariant: every variable is a function of the file and   *)
(* of the passes that have been made over its edges.                       *)

NumEntries == SumFunction([i \in ItemRange |-> Cardinality(conflict_graph[i])])

ConflictInv ==
  /\ file \in Files
  /\ pass \in {"scan", "build", "count", "ok", "error"}
  /\ base \in {0, 1}
  /\ pass \in {"build", "count", "ok"} =>
       base = ChosenBase /\ (valid_zero_based \/ valid_one_based)
  /\ pass = "error" => ~ valid_zero_based /\ ~ valid_one_based
  /\ conflict_graph = IF pass \in {"count", "ok"} THEN Adjacency(Normalized) ELSE <<>>
  /\ n_conflicts = IF pass = "ok" THEN NumEntries \div 2 ELSE 0

\* The items are finitely many numbers.
LEMMA RangeFinite ==
  ASSUME ConflictInv
  PROVE  file.n_items \in Nat /\ ItemRange \in SUBSET Int /\ IsFiniteSet(ItemRange)
<1>1. file.n_items \in Nat
  BY FilesAssumption DEF ConflictInv
<1> QED BY <1>1, FS_Interval DEF ItemRange

\* The empty lists of clear_data.
LEMMA ConflictInitInv == ConflictInit => ConflictInv
BY FilesAssumption DEF ConflictInit, ConflictInv

\* Under the invariant the range check of the second pass finds nothing.
LEMMA NormalizedInRange ==
  ASSUME ConflictInv, pass \in {"build", "count", "ok"}
  PROVE  \A e \in Normalized : e[1] \in ItemRange /\ e[2] \in ItemRange
<1>1. \A e \in file.edges : e[1] - base \in ItemRange /\ e[2] - base \in ItemRange
  BY ChosenBaseFits, FilesAssumption DEF ConflictInv
<1> QED BY <1>1 DEF Normalized

\* Each of the three passes over the edges preserves the invariant.
LEMMA ConflictNextInv == ConflictInv /\ [ConflictNext]_conflictVars => ConflictInv'
<1> SUFFICES ASSUME ConflictInv, [ConflictNext]_conflictVars PROVE ConflictInv'
  OBVIOUS
<1>1. file' = file
  BY DEF ConflictNext, Scan, Build, Count, conflictVars
<1>2. /\ ItemRange' = ItemRange /\ ChosenBase' = ChosenBase
      /\ valid_zero_based' <=> valid_zero_based
      /\ valid_one_based' <=> valid_one_based
  BY <1>1 DEF ItemRange, ChosenBase, valid_zero_based, valid_one_based, saw
<1>3. CASE Scan
  <2>1. conflict_graph' = <<>> /\ n_conflicts' = 0 /\ pass = "scan"
    BY <1>3 DEF Scan, ConflictInv
  <2>2. CASE valid_zero_based \/ valid_one_based
    <3>1. base' = ChosenBase /\ pass' = "build" /\ ChosenBase \in {0, 1}
      BY <1>3, <2>2, ChosenBaseFits, FilesAssumption DEF Scan, ConflictInv
    <3> QED BY <1>1, <1>2, <2>1, <2>2, <3>1 DEF ConflictInv
  <2>3. CASE ~ valid_zero_based /\ ~ valid_one_based
    <3>1. base' = base /\ pass' = "error"
      BY <1>3, <2>3 DEF Scan
    <3> QED BY <1>1, <1>2, <2>1, <2>3, <3>1 DEF ConflictInv
  <2> QED BY <2>2, <2>3
<1>4. CASE Build
  <2>1. /\ pass = "build" /\ pass' = "count" /\ base' = base
        /\ conflict_graph' = Adjacency(Normalized) /\ n_conflicts' = 0
    BY <1>4, NormalizedInRange DEF Build, ConflictInv
  <2>2. (Adjacency(Normalized))' = Adjacency(Normalized)
    BY <1>1, <1>2, <2>1 DEF Adjacency, Normalized
  <2> QED BY <1>1, <1>2, <2>1, <2>2 DEF ConflictInv
<1>5. CASE Count
  <2>1. /\ pass = "count" /\ pass' = "ok" /\ base' = base
        /\ conflict_graph' = conflict_graph /\ n_conflicts' = NumEntries \div 2
    BY <1>5 DEF Count, NumEntries
  <2>2. (Adjacency(Normalized))' = Adjacency(Normalized) /\ NumEntries' = NumEntries
    BY <1>1, <1>2, <2>1 DEF Adjacency, Normalized, NumEntries
  <2> QED BY <1>1, <1>2, <2>1, <2>2 DEF ConflictInv
<1>6. CASE UNCHANGED conflictVars
  <2>1. (Adjacency(Normalized))' = Adjacency(Normalized) /\ NumEntries' = NumEntries
    BY <1>1, <1>2, <1>6 DEF Adjacency, Normalized, NumEntries, conflictVars
  <2> QED BY <1>1, <1>2, <1>6, <2>1 DEF ConflictInv, conflictVars
<1> QED BY <1>3, <1>4, <1>5, <1>6 DEF ConflictNext

\* The invariant of every step.
LEMMA ConflictInvariance == ConflictSpec => []ConflictInv
BY ConflictInitInv, ConflictNextInv, PTL DEF ConflictSpec

-----------------------------------------------------------------------------
(* What the normalization promises.                                        *)

\* What the solver assumes of its instance holds of every graph that the
\* reader leaves after success.
THEOREM GraphAlwaysWellFormed == ConflictSpec => []GraphIsWellFormed
<1>1. ConflictInv => GraphIsWellFormed
  BY AdjacencyWellFormed DEF ConflictInv, GraphIsWellFormed
<1> QED BY ConflictInvariance, <1>1, PTL

\* The second range check never fails: whatever passes the scan is built.
THEOREM RefusalIsJustified == ConflictSpec => []RefusesWhatNoBaseFits
<1>1. ConflictInv => RefusesWhatNoBaseFits
  BY NormalizedInRange DEF ConflictInv, RefusesWhatNoBaseFits
<1> QED BY ConflictInvariance, <1>1, PTL

\* Half the entries of all lists: each distinct pair that the list names, in
\* whichever directions and however often, is one conflict.
LEMMA HalfTheEntries ==
  ASSUME ConflictInv, pass = "ok"
  PROVE  n_conflicts = Cardinality({{e[1], e[2]} : e \in {d \in Normalized : d[1] # d[2]}})
<1> DEFINE G == Adjacency(Normalized)
           A == Arcs(G, ItemRange)
           pairs == {{a[1], a[2]} : a \in A}
           named == {{e[1], e[2]} : e \in {d \in Normalized : d[1] # d[2]}}
<1>1. /\ conflict_graph = G /\ n_conflicts = NumEntries \div 2
      /\ \A e \in Normalized : e[1] \in ItemRange /\ e[2] \in ItemRange
  BY NormalizedInRange DEF ConflictInv
<1>2. ItemRange \in SUBSET Int /\ IsFiniteSet(ItemRange)
  BY RangeFinite
<1>3. /\ G \in [ItemRange -> SUBSET ItemRange]
      /\ \A i, j \in ItemRange : j \in G[i] <=> i \in G[j]
      /\ \A i \in ItemRange : i \notin G[i]
  BY AdjacencyWellFormed
<1>4. Cardinality(pairs) \in Nat /\ NumEntries = 2 * Cardinality(pairs)
  <2>1. NumEntries = SumFunctionOnSet([i \in ItemRange |-> Cardinality(G[i])], ItemRange)
    BY <1>1 DEF NumEntries, SumFunction
  <2> HIDE DEF G
  <2> QED BY <1>2, <1>3, <2>1, SizesCountPairsTwice
<1>5. \A i, j \in ItemRange :
        j \in G[i] <=> i # j /\ (<<i, j>> \in Normalized \/ <<j, i>> \in Normalized)
  BY DEF Adjacency
<1> HIDE DEF G
<1>6. \A e \in Normalized : e = <<e[1], e[2]>>
  BY DEF Normalized
<1>7. ASSUME NEW e \in Normalized, e[1] # e[2]
      PROVE  \E a \in A : {a[1], a[2]} = {e[1], e[2]}
  <2>1. e[1] \in ItemRange /\ e[2] \in ItemRange /\ e[2] \in G[e[1]]
    BY <1>1, <1>5, <1>6, <1>7
  <2>2. e[2] \in UNION {G[i] : i \in ItemRange}
    BY <2>1
  <2>3. e \in A
    BY <1>6, <2>1, <2>2 DEF Arcs
  <2> QED BY <2>3
<1>8. ASSUME NEW a \in A
      PROVE  \E e \in Normalized : e[1] # e[2] /\ {a[1], a[2]} = {e[1], e[2]}
  <2>1. a[1] \in ItemRange /\ a[2] \in G[a[1]]
    BY DEF Arcs
  <2>2. a[2] \in ItemRange
    BY <1>3, <2>1
  <2>3. a[1] # a[2] /\ (<<a[1], a[2]>> \in Normalized \/ <<a[2], a[1]>> \in Normalized)
    BY <1>5, <2>1, <2>2
  <2> QED BY <2>3
<1>9. pairs = named
  <2> HIDE DEF A
  <2>1. \A x \in pairs : x \in named
    BY <1>8
  <2>2. \A x \in named : x \in pairs
    BY <1>7
  <2> QED BY <2>1, <2>2
<1> HIDE DEF pairs, named
<1>10. (2 * Cardinality(pairs)) \div 2 = Cardinality(pairs)
  BY <1>4
<1> QED BY <1>1, <1>4, <1>9, <1>10 DEF named

\* An edge list gives the graph it was written for, whichever numbering its
\* author had in mind, if that is the one its format expects or if an edge
\* ends at the first or the last item; and n_conflicts counts its pairs.
THEOREM NumberingRecovered == ConflictSpec => []RecoversNumbering
<1>1. ConflictInv => RecoversNumbering
  <2> SUFFICES ASSUME ConflictInv, NEW written \in {0, 1}, pass \in {"count", "ok"}
               PROVE  LET meant == {<<e[1] - written, e[2] - written>> : e \in file.edges}
                      IN  /\ \A e \in meant : e[1] \in ItemRange /\ e[2] \in ItemRange
                          /\ \/ written = file.default_base
                             \/ written = 0 /\ \E e \in meant : 0 \in {e[1], e[2]}
                             \/ written = 1 /\ \E e \in meant : file.n_items - 1 \in {e[1], e[2]}
                          => /\ \A i, j \in ItemRange :
                                  j \in conflict_graph[i]
                                    <=> i # j /\ (<<i, j>> \in meant \/ <<j, i>> \in meant)
                             /\ pass = "ok" =>
                                  n_conflicts = Cardinality(
                                    {{e[1], e[2]} : e \in {d \in meant : d[1] # d[2]}})
    BY DEF RecoversNumbering
  <2> DEFINE meant == {<<e[1] - written, e[2] - written>> : e \in file.edges}
  <2> SUFFICES ASSUME \A e \in meant : e[1] \in ItemRange /\ e[2] \in ItemRange,
                      \/ written = file.default_base
                      \/ written = 0 /\ \E e \in meant : 0 \in {e[1], e[2]}
                      \/ written = 1 /\ \E e \in meant : file.n_items - 1 \in {e[1], e[2]}
               PROVE  /\ \A i, j \in ItemRange :
                           j \in conflict_graph[i]
                             <=> i # j /\ (<<i, j>> \in meant \/ <<j, i>> \in meant)
                      /\ pass = "ok" =>
                           n_conflicts =
                             Cardinality({{e[1], e[2]} : e \in {d \in meant : d[1] # d[2]}})
    OBVIOUS
  <2>1. /\ file.n_items \in Nat /\ file.edges \subseteq Int \X Int
        /\ file.default_base \in {0, 1}
    BY FilesAssumption DEF ConflictInv
  <2>2. \A e \in file.edges : e[1] \in Int /\ e[2] \in Int
    BY <2>1
  <2>3. ASSUME NEW e \in file.edges
        PROVE  e[1] - written \in ItemRange /\ e[2] - written \in ItemRange
    <3>1. <<e[1] - written, e[2] - written>> \in meant
      OBVIOUS
    <3> HIDE DEF meant
    <3> QED BY <3>1
  <2>4. \/ written = file.default_base
        \/ written = 0 /\ saw(0)
        \/ written = 1 /\ saw(file.n_items)
    BY <2>1, <2>2 DEF saw
  <2>5. ChosenBase = written
    BY <2>1, <2>3, <2>4, NumberingFits
  <2>6. Normalized = meant /\ conflict_graph = Adjacency(Normalized)
    BY <2>5 DEF Normalized, ConflictInv
  <2> HIDE DEF meant
  <2>7. pass = "ok" =>
          n_conflicts = Cardinality({{e[1], e[2]} : e \in {d \in meant : d[1] # d[2]}})
    BY <2>6, HalfTheEntries
  <2> QED BY <2>6, <2>7 DEF Adjacency
<1> QED BY ConflictInvariance, <1>1, PTL

\* n_conflicts stays a natural number, whatever the file lists.
THEOREM ConflictTypeCorrect == ConflictSpec => []ConflictTypeOK
<1>1. ConflictInv => ConflictTypeOK
  <2> SUFFICES ASSUME ConflictInv PROVE ConflictTypeOK
    OBVIOUS
  <2>1. conflict_graph = <<>> \/ conflict_graph \in [ItemRange -> SUBSET ItemRange]
    BY AdjacencyWellFormed DEF ConflictInv
  <2>2. n_conflicts \in Nat
    <3>1. CASE pass = "ok"
      <4> DEFINE E == {{e[1], e[2]} : e \in {d \in Normalized : d[1] # d[2]}}
      <4>1. IsFiniteSet(SUBSET ItemRange)
        BY RangeFinite, FS_SUBSET
      <4>2. E \subseteq SUBSET ItemRange
        BY <3>1, NormalizedInRange
      <4>3. Cardinality(E) \in Nat
        BY <4>1, <4>2, FS_Subset, FS_CardinalityType
      <4> QED BY <3>1, <4>3, HalfTheEntries
    <3>2. CASE pass # "ok"
      BY <3>2 DEF ConflictInv
    <3> QED BY <3>1, <3>2
  <2> QED BY <2>1, <2>2 DEF ConflictInv, ConflictTypeOK
<1> QED BY ConflictInvariance, <1>1, PTL

-----------------------------------------------------------------------------
(* The algorithms are instances on the variables of the Runner, and have   *)
(* instances of the construction and the descent of their own: all of them *)
(* compute with the same operators.                                        *)

\* What they take from the library.
LEMMA CountsAgree ==
  \A S : /\ Greedy!Cardinality(S) = Cardinality(S)
         /\ Local!Cardinality(S) = Cardinality(S)
         /\ Iterated!Cardinality(S) = Cardinality(S)
         /\ Iterated!Local!Cardinality(S) = Cardinality(S)
         /\ Variable!Cardinality(S) = Cardinality(S)
         /\ Variable!Local!Cardinality(S) = Cardinality(S)
BY DEF Greedy!Cardinality, Local!Cardinality, Iterated!Cardinality, Cardinality,
       Iterated!Local!Cardinality, Variable!Cardinality, Variable!Local!Cardinality

\* The methods of the criterion.
LEMMA CriteriaAgree ==
  \A s :
    /\ /\ Iterated!ShouldStop(s) <=> ShouldStop(s)
       /\ Iterated!Greedy!ShouldStop(s) <=> ShouldStop(s)
       /\ Iterated!Local!ShouldStop(s) <=> ShouldStop(s)
       /\ Variable!ShouldStop(s) <=> ShouldStop(s)
       /\ Variable!Greedy!ShouldStop(s) <=> ShouldStop(s)
       /\ Variable!Local!ShouldStop(s) <=> ShouldStop(s)
    /\ /\ Iterated!Tick(s) = Tick(s)
       /\ Iterated!Greedy!Tick(s) = Tick(s)
       /\ Iterated!Local!Tick(s) = Tick(s)
       /\ Variable!Tick(s) = Tick(s)
       /\ Variable!Greedy!Tick(s) = Tick(s)
       /\ Variable!Local!Tick(s) = Tick(s)
    /\ /\ Iterated!RegisterImprovement(s) = RegisterImprovement(s)
       /\ Iterated!Greedy!RegisterImprovement(s) = RegisterImprovement(s)
       /\ Iterated!Local!RegisterImprovement(s) = RegisterImprovement(s)
       /\ Variable!RegisterImprovement(s) = RegisterImprovement(s)
       /\ Variable!Greedy!RegisterImprovement(s) = RegisterImprovement(s)
       /\ Variable!Local!RegisterImprovement(s) = RegisterImprovement(s)
    /\ /\ Iterated!Expire(s) = Expire(s)
       /\ Iterated!Local!Expire(s) = Expire(s)
       /\ Variable!Local!Expire(s) = Expire(s)
<1> TAKE s
<1>1. /\ Iterated!ShouldStop(s) <=> ShouldStop(s)
      /\ Iterated!Greedy!ShouldStop(s) <=> ShouldStop(s)
      /\ Iterated!Local!ShouldStop(s) <=> ShouldStop(s)
      /\ Variable!ShouldStop(s) <=> ShouldStop(s)
      /\ Variable!Greedy!ShouldStop(s) <=> ShouldStop(s)
      /\ Variable!Local!ShouldStop(s) <=> ShouldStop(s)
  BY DEF Iterated!ShouldStop, Iterated!Greedy!ShouldStop, Iterated!Local!ShouldStop,
         Variable!ShouldStop, Variable!Greedy!ShouldStop, Variable!Local!ShouldStop,
         Iterated!Inactive, Iterated!Greedy!Inactive, Iterated!Local!Inactive,
         Variable!Inactive, Variable!Greedy!Inactive, Variable!Local!Inactive,
         ShouldStop, Inactive
<1>2. /\ Iterated!Tick(s) = Tick(s)
      /\ Iterated!Greedy!Tick(s) = Tick(s)
      /\ Iterated!Local!Tick(s) = Tick(s)
      /\ Variable!Tick(s) = Tick(s)
      /\ Variable!Greedy!Tick(s) = Tick(s)
      /\ Variable!Local!Tick(s) = Tick(s)
  BY DEF Iterated!Tick, Iterated!Greedy!Tick, Iterated!Local!Tick,
         Variable!Tick, Variable!Greedy!Tick, Variable!Local!Tick, Tick
<1>3. /\ Iterated!RegisterImprovement(s) = RegisterImprovement(s)
      /\ Iterated!Greedy!RegisterImprovement(s) = RegisterImprovement(s)
      /\ Iterated!Local!RegisterImprovement(s) = RegisterImprovement(s)
      /\ Variable!RegisterImprovement(s) = RegisterImprovement(s)
      /\ Variable!Greedy!RegisterImprovement(s) = RegisterImprovement(s)
      /\ Variable!Local!RegisterImprovement(s) = RegisterImprovement(s)
  BY DEF Iterated!RegisterImprovement, Iterated!Greedy!RegisterImprovement,
         Iterated!Local!RegisterImprovement, Variable!RegisterImprovement,
         Variable!Greedy!RegisterImprovement, Variable!Local!RegisterImprovement,
         RegisterImprovement
<1>4. /\ Iterated!Expire(s) = Expire(s)
      /\ Iterated!Local!Expire(s) = Expire(s)
      /\ Variable!Local!Expire(s) = Expire(s)
  BY DEF Iterated!Expire, Iterated!Local!Expire, Variable!Local!Expire, Expire
<1> QED BY <1>1, <1>2, <1>3, <1>4

\* Solutions and states.
LEMMA StatesAgree ==
  /\ Greedy!EmptySolution = EmptySolution
  /\ Variable!EmptySolution = EmptySolution
  /\ Greedy!Items = Items /\ Variable!Items = Items
  /\ \A s, i : /\ Iterated!Greedy!AddItem(s, i) = AddItem(s, i)
               /\ Variable!Greedy!AddItem(s, i) = AddItem(s, i)
  /\ \A s : /\ Iterated!NewState(s) = NewState(s)
            /\ Iterated!Local!NewState(s) = NewState(s)
            /\ Variable!NewState(s) = NewState(s)
            /\ Variable!Local!NewState(s) = NewState(s)
  /\ \A st, i : /\ Iterated!ApplyAdd(st, i) = ApplyAdd(st, i)
                /\ Iterated!ApplyRemove(st, i) = ApplyRemove(st, i)
                /\ Variable!ApplyAdd(st, i) = ApplyAdd(st, i)
                /\ Variable!ApplyRemove(st, i) = ApplyRemove(st, i)
  /\ Iterated!NoState = NewState(EmptySolution)
  /\ Variable!NoState = NewState(EmptySolution)
<1>1. /\ Greedy!EmptySolution = EmptySolution
      /\ Iterated!EmptySolution = EmptySolution
      /\ Variable!EmptySolution = EmptySolution
  BY DEF Greedy!EmptySolution, Iterated!EmptySolution, Variable!EmptySolution, EmptySolution
<1>2. /\ Greedy!Items = Items /\ Variable!Items = Items /\ Iterated!Items = Items
      /\ Iterated!Greedy!Items = Items /\ Variable!Greedy!Items = Items
      /\ Iterated!Local!Items = Items /\ Variable!Local!Items = Items
  BY DEF Greedy!Items, Variable!Items, Iterated!Items, Iterated!Greedy!Items,
         Variable!Greedy!Items, Iterated!Local!Items, Variable!Local!Items, Items
<1>3. \A s, i : /\ Iterated!Greedy!AddItem(s, i) = AddItem(s, i)
                /\ Variable!Greedy!AddItem(s, i) = AddItem(s, i)
                /\ Iterated!AddItem(s, i) = AddItem(s, i)
                /\ Variable!AddItem(s, i) = AddItem(s, i)
                /\ Iterated!RemoveItem(s, i) = RemoveItem(s, i)
                /\ Variable!RemoveItem(s, i) = RemoveItem(s, i)
  BY <1>2 DEF Iterated!Greedy!AddItem, Variable!Greedy!AddItem, Iterated!AddItem,
              Variable!AddItem, AddItem, Iterated!RemoveItem, Variable!RemoveItem, RemoveItem
<1>4. \A s : /\ Iterated!NewState(s) = NewState(s)
             /\ Iterated!Local!NewState(s) = NewState(s)
             /\ Variable!NewState(s) = NewState(s)
             /\ Variable!Local!NewState(s) = NewState(s)
  BY <1>2, CountsAgree DEF Iterated!NewState, Iterated!Local!NewState, Variable!NewState,
                           Variable!Local!NewState, NewState
<1>5. \A c, i, d : /\ Iterated!Bump(c, i, d) = Bump(c, i, d)
                   /\ Variable!Bump(c, i, d) = Bump(c, i, d)
  BY <1>2 DEF Iterated!Bump, Variable!Bump, Bump
<1>6. \A st, i : /\ Iterated!ApplyAdd(st, i) = ApplyAdd(st, i)
                 /\ Iterated!ApplyRemove(st, i) = ApplyRemove(st, i)
                 /\ Variable!ApplyAdd(st, i) = ApplyAdd(st, i)
                 /\ Variable!ApplyRemove(st, i) = ApplyRemove(st, i)
  BY <1>3, <1>5 DEF Iterated!ApplyAdd, Iterated!ApplyRemove, Variable!ApplyAdd,
                    Variable!ApplyRemove, ApplyAdd, ApplyRemove
<1>7. /\ Iterated!NoState = NewState(EmptySolution)
      /\ Variable!NoState = NewState(EmptySolution)
  BY <1>1, <1>4 DEF Iterated!NoState, Variable!NoState
<1> QED BY <1>1, <1>2, <1>3, <1>4, <1>6, <1>7

\* The moves of the descents, and what they do.
LEMMA MovesAgree ==
  \A name, st :
    /\ Iterated!Local!Moves(name, st) = Moves(name, st)
    /\ Variable!Local!Moves(name, st) = Moves(name, st)
<1>1. Iterated!Local!Items = Items /\ Variable!Local!Items = Items
  BY DEF Iterated!Local!Items, Variable!Local!Items, Items
<1>2. \A i, u : /\ Iterated!Local!HasConflict(i, u) <=> HasConflict(i, u)
                /\ Variable!Local!HasConflict(i, u) <=> HasConflict(i, u)
  BY <1>1, CountsAgree
     DEF Iterated!Local!HasConflict, Variable!Local!HasConflict, HasConflict
<1>3. \A i, u : Iterated!Local!C(i, u) = C(i, u) /\ Variable!Local!C(i, u) = C(i, u)
  BY <1>2 DEF Iterated!Local!C, Variable!Local!C, C
<1>4. \A st : /\ Iterated!Local!AddMoves(st) = AddMoves(st)
              /\ Variable!Local!AddMoves(st) = AddMoves(st)
  BY <1>1 DEF Iterated!Local!AddMoves, Variable!Local!AddMoves, AddMoves
<1>5. \A st : /\ Iterated!Local!Swap11Moves(st) = Swap11Moves(st)
              /\ Variable!Local!Swap11Moves(st) = Swap11Moves(st)
  BY <1>1, <1>3 DEF Iterated!Local!Swap11Moves, Variable!Local!Swap11Moves, Swap11Moves
<1>6. \A st : /\ Iterated!Local!Swap21Moves(st) = Swap21Moves(st)
              /\ Variable!Local!Swap21Moves(st) = Swap21Moves(st)
  BY <1>1, <1>3 DEF Iterated!Local!Swap21Moves, Variable!Local!Swap21Moves, Swap21Moves
<1>7. \A st, i : /\ Iterated!Local!Candidates(st, i) = Candidates(st, i)
                 /\ Variable!Local!Candidates(st, i) = Candidates(st, i)
  BY <1>1, <1>3 DEF Iterated!Local!Candidates, Variable!Local!Candidates, Candidates
<1>8. \A st : /\ Iterated!Local!Swap12Moves(st) = Swap12Moves(st)
              /\ Variable!Local!Swap12Moves(st) = Swap12Moves(st)
  BY <1>1, <1>2, <1>7
     DEF Iterated!Local!Swap12Moves, Variable!Local!Swap12Moves, Swap12Moves
<1> QED BY <1>4, <1>5, <1>6, <1>8 DEF Iterated!Local!Moves, Variable!Local!Moves, Moves

\* And what a move leaves.
LEMMA ResultsAgree ==
  \A name, st, m :
    /\ Iterated!Local!Result(name, st, m) = Result(name, st, m)
    /\ Variable!Local!Result(name, st, m) = Result(name, st, m)
<1>1. Iterated!Local!Items = Items /\ Variable!Local!Items = Items
  BY DEF Iterated!Local!Items, Variable!Local!Items, Items
<1>2. \A s, i : /\ Iterated!Local!AddItem(s, i) = AddItem(s, i)
                /\ Variable!Local!AddItem(s, i) = AddItem(s, i)
                /\ Iterated!Local!RemoveItem(s, i) = RemoveItem(s, i)
                /\ Variable!Local!RemoveItem(s, i) = RemoveItem(s, i)
  BY <1>1 DEF Iterated!Local!AddItem, Variable!Local!AddItem, AddItem,
              Iterated!Local!RemoveItem, Variable!Local!RemoveItem, RemoveItem
<1>3. \A c, i, d : /\ Iterated!Local!Bump(c, i, d) = Bump(c, i, d)
                   /\ Variable!Local!Bump(c, i, d) = Bump(c, i, d)
  BY <1>1 DEF Iterated!Local!Bump, Variable!Local!Bump, Bump
<1>4. \A st, i : /\ Iterated!Local!ApplyAdd(st, i) = ApplyAdd(st, i)
                 /\ Variable!Local!ApplyAdd(st, i) = ApplyAdd(st, i)
                 /\ Iterated!Local!ApplyRemove(st, i) = ApplyRemove(st, i)
                 /\ Variable!Local!ApplyRemove(st, i) = ApplyRemove(st, i)
  BY <1>2, <1>3 DEF Iterated!Local!ApplyAdd, Variable!Local!ApplyAdd, ApplyAdd,
                    Iterated!Local!ApplyRemove, Variable!Local!ApplyRemove, ApplyRemove
<1>5. ASSUME NEW name, NEW st, NEW m
      PROVE  /\ Iterated!Local!Result(name, st, m) = Result(name, st, m)
             /\ Variable!Local!Result(name, st, m) = Result(name, st, m)
  <2>1. Iterated!Local!Result(name, st, m) = Result(name, st, m)
    BY <1>4, Zenon DEF Iterated!Local!Result, Result
  <2>2. Variable!Local!Result(name, st, m) = Result(name, st, m)
    BY <1>4, Zenon DEF Variable!Local!Result, Result
  <2> QED BY <2>1, <2>2
<1> QED BY <1>5

-----------------------------------------------------------------------------
(* The criterion that one run shares between its loops.                    *)

\* Its methods are all that changes it, and a tick follows a test.
CriterionStep(stop, stop2) ==
  \/ stop2 \in {stop, RegisterImprovement(stop), Expire(stop)}
  \/ /\ ~ ShouldStop(stop)
     /\ stop2 \in {Tick(stop), RegisterImprovement(Tick(stop)), Expire(Tick(stop))}

Within(stop) == stop.limits.iter # Inactive => stop.iterations <= stop.limits.iter

\* That is why one tick never passes the limit.
LEMMA CriterionKeeps ==
  ASSUME NEW stop \in StoppingType, NEW stop2, Within(stop), CriterionStep(stop, stop2)
  PROVE  /\ stop2 \in StoppingType /\ stop2.limits = stop.limits /\ Within(stop2)
         /\ stop.iterations <= stop2.iterations
<1>1. stop2 \in StoppingType /\ stop2.limits = stop.limits
  BY StoppingTypes, LimitsStay DEF CriterionStep
<1>2. /\ stop.iterations \in Nat
      /\ stop.limits \in LimitsType /\ stop.limits.iter \in Nat \cup {Inactive}
  BY DEF StoppingType, LimitsType
<1>3. Tick(stop).iterations = stop.iterations + 1 /\ Tick(stop) \in StoppingType
  BY StoppingTypes DEF StoppingType, Tick
<1>4. \A s \in StoppingType : /\ Expire(s).iterations = s.iterations
                              /\ RegisterImprovement(s).iterations = s.iterations
  BY DEF StoppingType, Expire, RegisterImprovement
<1>5. CASE stop2 \in {stop, RegisterImprovement(stop), Expire(stop)}
  <2>1. stop2.iterations = stop.iterations
    BY <1>4, <1>5
  <2> QED BY <1>1, <1>2, <2>1 DEF Within
<1>6. CASE /\ ~ ShouldStop(stop)
           /\ stop2 \in {Tick(stop), RegisterImprovement(Tick(stop)), Expire(Tick(stop))}
  <2>1. stop.limits.iter # Inactive => stop.iterations < stop.limits.iter
    BY <1>2, <1>6 DEF ShouldStop, Inactive
  <2>2. stop2.iterations = stop.iterations + 1
    BY <1>3, <1>4, <1>6
  <2> QED BY <1>1, <1>2, <2>1, <2>2 DEF Within, Inactive
<1> QED BY <1>1, <1>5, <1>6 DEF CriterionStep

-----------------------------------------------------------------------------
(* The steps of the construction and of the descents, whoever runs them.   *)

\* A run begins with an order of the profitable items, at its first place.
LEMMA OrderIsProfitOrder ==
  ASSUME Greedy!Begin
  PROVE  Constructing(order, pos, solution, forbidden, remaining) /\ building = TRUE
<1>1. order \in Greedy!ProfitOrders
  BY DEF Greedy!Begin
<1> DEFINE profitable == {i \in Items : Profit[i] > 0}
<1>2. /\ order \in [1 .. Cardinality(profitable) -> profitable]
      /\ \A p, q \in 1 .. Cardinality(profitable) : p < q => order[p] # order[q]
  BY <1>1, CountsAgree, StatesAgree DEF Greedy!ProfitOrders
<1>3. IsOrder(order)
  BY <1>2, SortIsOrder
<1> QED BY <1>3, ConstructionBegins, StatesAgree DEF Greedy!Begin

\* A step of the construction within a search is a step of the construction,
\* and treats the shared criterion as every loop does.
LEMMA BuildSteps ==
  ASSUME Iterated!Greedy!Build \/ Variable!Greedy!Build
  PROVE  /\ ConstructionStep(order, pos, solution, forbidden, remaining, stopping,
                             pos', solution', forbidden', remaining', stopping')
         /\ CriterionStep(stopping, stopping')
         /\ order' = order /\ building
         /\ \/ building' = building
            \/ /\ building' = FALSE /\ pos' = pos /\ stopping' = stopping
               /\ pos > Len(order) \/ ShouldStop(stopping)
<1>1. CASE Iterated!Greedy!Take
  BY <1>1, CriteriaAgree, StatesAgree
     DEF Iterated!Greedy!Take, Iterated!Greedy!Turn, Iterated!Greedy!Accepts,
         ConstructionStep, CriterionStep
<1>2. CASE Variable!Greedy!Take
  BY <1>2, CriteriaAgree, StatesAgree
     DEF Variable!Greedy!Take, Variable!Greedy!Turn, Variable!Greedy!Accepts,
         ConstructionStep, CriterionStep
<1>3. CASE Iterated!Greedy!Skip
  BY <1>3, CriteriaAgree
     DEF Iterated!Greedy!Skip, Iterated!Greedy!Turn, ConstructionStep, CriterionStep
<1>4. CASE Variable!Greedy!Skip
  BY <1>4, CriteriaAgree
     DEF Variable!Greedy!Skip, Variable!Greedy!Turn, ConstructionStep, CriterionStep
<1>5. CASE Iterated!Greedy!Finish
  BY <1>5, CriteriaAgree DEF Iterated!Greedy!Finish, ConstructionStep, CriterionStep
<1>6. CASE Variable!Greedy!Finish
  BY <1>6, CriteriaAgree DEF Variable!Greedy!Finish, ConstructionStep, CriterionStep
<1> QED BY <1>1, <1>2, <1>3, <1>4, <1>5, <1>6 DEF Iterated!Greedy!Build, Variable!Greedy!Build

\* So is a step of the descent.
LEMMA DescendSteps ==
  ASSUME Iterated!Local!Descend \/ Variable!Local!Descend
  PROVE  /\ DescentStep(schedule, state, k, mode, stopping, state', k', mode', stopping')
         /\ CriterionStep(stopping, stopping')
         /\ schedule' = schedule
<1>1. CASE Iterated!Local!Move
  BY <1>1, CriteriaAgree, MovesAgree, ResultsAgree
     DEF Iterated!Local!Move, Iterated!Local!Turn, DescentStep, CriterionStep
<1>2. CASE Variable!Local!Move
  BY <1>2, CriteriaAgree, MovesAgree, ResultsAgree
     DEF Variable!Local!Move, Variable!Local!Turn, DescentStep, CriterionStep
<1>3. CASE Iterated!Local!NoMove
  BY <1>3, CriteriaAgree, MovesAgree
     DEF Iterated!Local!NoMove, Iterated!Local!Turn, DescentStep, CriterionStep
<1>4. CASE Variable!Local!NoMove
  BY <1>4, CriteriaAgree, MovesAgree
     DEF Variable!Local!NoMove, Variable!Local!Turn, DescentStep, CriterionStep
<1>5. CASE Iterated!Local!Interrupted
  BY <1>5, CriteriaAgree
     DEF Iterated!Local!Interrupted, Iterated!Local!Turn, DescentStep, CriterionStep
<1>6. CASE Variable!Local!Interrupted
  BY <1>6, CriteriaAgree
     DEF Variable!Local!Interrupted, Variable!Local!Turn, DescentStep, CriterionStep
<1>7. CASE Iterated!Local!Return
  BY <1>7, CriteriaAgree DEF Iterated!Local!Return, DescentStep, CriterionStep
<1>8. CASE Variable!Local!Return
  BY <1>8, CriteriaAgree DEF Variable!Local!Return, DescentStep, CriterionStep
<1> QED BY <1>1, <1>2, <1>3, <1>4, <1>5, <1>6, <1>7, <1>8
        DEF Iterated!Local!Descend, Variable!Local!Descend

\* improve starts a descent from the solution that it is given.
LEMMA ImproveSteps ==
  ASSUME NEW s, Iterated!Local!Improve(s) \/ Variable!Local!Improve(s)
  PROVE  /\ state' = NewState(s) /\ k' = 1
         /\ mode' = IF N = 0 \/ schedule = <<>> THEN "returned" ELSE "descend"
         /\ UNCHANGED <<schedule, stopping>>
BY StatesAgree DEF Iterated!Local!Improve, Variable!Local!Improve

-----------------------------------------------------------------------------
(* The inductive invariant of a run.                                       *)

Exactly(st) == st = StateOf(st.solution.items) /\ Feasible(st.solution.items)

\* The call and its criterion.
Called ==
  /\ algorithm \in {"Greedy", "VND", "ILS", "VNS"}
  /\ config \in RunnerConfigType
  /\ stopping \in StoppingType
  /\ stopping.limits = Activate(config)
  /\ Within(stopping)

\* The books of the construction and of the descent, and every solution and
\* state that a search keeps beside them.
Books ==
  /\ Constructing(order, pos, solution, forbidden, remaining)
  /\ Descending(schedule, state, k, mode, stopping)
  /\ Exactly(kick) /\ Held(shaken) /\ Held(incumbent) /\ Held(best)

Counters ==
  /\ strength \in Int /\ fill \in 1 .. Len(order) + 1
  /\ k_max = 3 /\ level \in 1 .. 3 /\ best_at \in Nat

\* Where the run stands, and what has ended by then.
Control ==
  /\ phase \in {"idle", "construct", "first", "loop", "destroy", "repair", "kicked",
                "shaken", "improve", "done"}
  /\ mode # "idle" => phase \in {"first", "improve", "done"}
  /\ building \in BOOLEAN
  /\ phase \notin {"idle", "construct"} => building = FALSE
  /\ building = FALSE /\ NoneReached => pos > Len(order)
  /\ phase = "done" => algorithm \in {"Greedy", "VND"} \/ ShouldStop(stopping)
  /\ phase = "done" /\ algorithm = "VND" => mode = "returned" /\ best = state.solution

RunInv == Called /\ Books /\ Counters /\ Control

\* The limits that execute activates are limits.
LEMMA ActivateType ==
  ASSUME NEW c \in RunnerConfigType
  PROVE  /\ Activate(c) \in LimitsType
         /\ Activate(c).iter = IF c.iteration_limit > 0 THEN c.iteration_limit ELSE Inactive
<1>1. /\ (c.time_limit > 0) \in BOOLEAN
      /\ c.iteration_limit \in Nat /\ c.no_improvement_limit \in Nat
  BY DEF RunnerConfigType
<1> QED BY <1>1 DEF Activate, LimitsType

\* Where no limit has been reached, nothing stops a loop.
LEMMA NothingStops ==
  ASSUME Called, NoneReached
  PROVE  ~ ShouldStop(stopping)
<1>1. /\ config.time_limit \in Int /\ config.iteration_limit \in Nat
      /\ config \in RunnerConfigType /\ stopping.limits = Activate(config)
      /\ stopping.iterations \in Nat
  BY DEF Called, RunnerConfigType, StoppingType
<1>2. (config.time_limit > 0) = FALSE /\ ~ (config.no_improvement_limit > 0)
  BY <1>1 DEF NoneReached
<1>3. stopping.limits.time = FALSE /\ stopping.limits.no_improve = Inactive
  <2>1. Activate(config) =
          [time       |-> FALSE,
           iter       |-> IF config.iteration_limit > 0 THEN config.iteration_limit ELSE Inactive,
           no_improve |-> Inactive]
    BY <1>2, Zenon DEF Activate
  <2> QED BY <1>1, <2>1
<1>4. stopping.limits.iter = IF config.iteration_limit > 0 THEN config.iteration_limit ELSE Inactive
  BY <1>1, ActivateType
<1>5. stopping.limits.iter # Inactive => ~ (stopping.iterations >= stopping.limits.iter)
  BY <1>1, <1>4 DEF NoneReached
<1> QED BY <1>3, <1>5 DEF ShouldStop

\* A limit that has been reached stays so.
LEMMA ReachedStays ==
  ASSUME Called, CriterionStep(stopping, stopping'), config' = config, NoneReached'
  PROVE  NoneReached
<1>1. /\ config.iteration_limit \in Nat
      /\ stopping.iterations \in Nat /\ stopping'.iterations \in Nat
      /\ stopping.iterations <= stopping'.iterations
  BY CriterionKeeps DEF Called, RunnerConfigType, StoppingType
<1> QED BY <1>1 DEF NoneReached

\* The empty solution is held from the start.
LEMMA EmptyHeld ==
  /\ Held(EmptySolution) /\ EmptySolution.items = {}
  /\ NewState(EmptySolution) = StateOf({})
  /\ Exactly(NewState(EmptySolution))
<1>1. EmptySolution = SolutionOf({}) /\ EmptySolution.items = {}
  BY TotalsType DEF EmptySolution, SolutionOf
<1>2. NewState(EmptySolution) = StateOf({}) /\ {} \in SUBSET Items
  BY <1>1 DEF StateOf
<1> QED BY <1>1, <1>2, StateOfFields, EmptyFeasible DEF Held, Exactly

\* execute is called.
LEMMA BeginRunInv ==
  ASSUME Begin, phase \in {"idle", "construct"}
  PROVE  RunInv
<1>1. Constructing(order, pos, solution, forbidden, remaining) /\ building = TRUE
  BY OrderIsProfitOrder DEF Begin
<1>2. /\ config \in RunnerConfigType /\ Activate(config) \in LimitsType
      /\ stopping = Start(Activate(config))
  BY RunnerAssumption, ActivateType DEF Begin
<1>3. Called
  <2>1. /\ stopping \in StoppingType /\ stopping.limits = Activate(config)
        /\ stopping.iterations = 0
    BY <1>2 DEF Start, StoppingType
  <2>2. stopping.limits.iter \in Nat \cup {Inactive}
    BY <2>1 DEF StoppingType, LimitsType
  <2>3. Within(stopping)
    BY <2>1, <2>2 DEF Within
  <2> QED BY <1>2, <2>1, <2>3 DEF Called, Begin
<1>4. state = StateOf({}) /\ Exactly(kick)
  BY StatesAgree, EmptyHeld DEF Begin
<1>5. Descending(schedule, state, k, mode, stopping)
  <2>1. schedule \in Seq(NeighborhoodNames)
    BY ScheduleType DEF Begin
  <2>2. 1 \in 1 .. Len(schedule) + 1
    BY <2>1
  <2> QED BY <1>3, <1>4, <2>1, <2>2, DescentIdle, EmptyFeasible DEF Begin, Called
<1>6. fill \in 1 .. Len(order) + 1
  BY <1>1, ConstructingTypes DEF Begin
<1>7. Counters
  BY <1>6, RunnerAssumption DEF Begin, Counters
<1>8. Books
  BY <1>1, <1>4, <1>5, EmptyHeld DEF Begin, Books
<1>9. Control
  BY <1>1 DEF Begin, Control
<1> QED BY <1>3, <1>7, <1>8, <1>9 DEF RunInv

-----------------------------------------------------------------------------
(* One lemma per kind of step.                                             *)

\* A step of the criterion alone, at a place where no descent is under way.
LEMMA CalledStays ==
  ASSUME Called, CriterionStep(stopping, stopping'), UNCHANGED <<algorithm, config>>
  PROVE  Called'
BY CriterionKeeps DEF Called

\* A turn of the construction.
LEMMA ConstructKeeps ==
  ASSUME RunInv, phase = "construct", Iterated!Greedy!Build \/ Variable!Greedy!Build,
         UNCHANGED <<algorithm, config, vndVars, ilsOnly, vnsOnly, incumbent, best, phase>>
  PROVE  RunInv'
<1> USE DEF vndVars, ilsOnly, vnsOnly
<1>1. /\ ConstructionStep(order, pos, solution, forbidden, remaining, stopping,
                          pos', solution', forbidden', remaining', stopping')
      /\ CriterionStep(stopping, stopping') /\ order' = order
      /\ building = TRUE
      /\ \/ building' = building
         \/ /\ building' = FALSE /\ pos' = pos /\ stopping' = stopping
            /\ pos > Len(order) \/ ShouldStop(stopping)
  BY BuildSteps DEF RunInv, Control
<1>2. Called'
  BY <1>1, CalledStays DEF RunInv
<1>3. Constructing(order, pos, solution, forbidden, remaining)'
  BY <1>1, ConstructionStepKeeps DEF RunInv, Called, Books
<1>4. mode = "idle"
  BY DEF RunInv, Control
<1>5. Descending(schedule, state, k, mode, stopping)'
  BY <1>2, <1>4, DescentWaits DEF RunInv, Books, Called
<1>6. Books' /\ Counters'
  BY <1>1, <1>3, <1>5 DEF RunInv, Books, Counters
<1>7. building' = FALSE /\ NoneReached' => pos' > Len(order)
  BY <1>1, NothingStops DEF RunInv, NoneReached
<1>8. Control'
  BY <1>1, <1>4, <1>7 DEF RunInv, Control
<1> QED BY <1>2, <1>6, <1>8 DEF RunInv

\* A call of improve on a held solution.
LEMMA ImproveKeeps ==
  ASSUME RunInv, NEW s, Held(s), Iterated!Local!Improve(s) \/ Variable!Local!Improve(s),
         phase \in {"construct", "kicked", "shaken"}, building = FALSE,
         phase' \in {"first", "improve"}, Exactly(kick)', Held(shaken)',
         UNCHANGED <<algorithm, config, greedyVars, strength, fill, k_max, level, best_at,
                     incumbent, best>>
  PROVE  RunInv'
<1> USE DEF greedyVars
<1>1. /\ state' = StateOf(s.items) /\ Feasible(s.items) /\ k' = 1
      /\ mode' = IF N = 0 \/ schedule = <<>> THEN "returned" ELSE "descend"
      /\ UNCHANGED <<schedule, stopping>>
  BY ImproveSteps, HeldFields DEF Held
<1>2. schedule \in Seq(NeighborhoodNames) /\ stopping \in StoppingType
  BY DEF RunInv, Books, Descending
<1>3. Descending(schedule, state, k, mode, stopping)'
  BY <1>1, <1>2, DescentBegins
<1>4. Books' /\ Counters'
  BY <1>3 DEF RunInv, Books, Counters
<1>5. Called' /\ Control'
  BY <1>1 DEF RunInv, Called, Control, NoneReached
<1> QED BY <1>4, <1>5 DEF RunInv

\* A step of a descent.
LEMMA DescendKeeps ==
  ASSUME RunInv, phase \in {"first", "improve"},
         Iterated!Local!Descend \/ Variable!Local!Descend,
         UNCHANGED <<algorithm, config, greedyVars, ilsOnly, vnsOnly, incumbent, best, phase>>
  PROVE  RunInv'
<1> USE DEF greedyVars, ilsOnly, vnsOnly
<1>1. /\ DescentStep(schedule, state, k, mode, stopping, state', k', mode', stopping')
      /\ CriterionStep(stopping, stopping') /\ schedule' = schedule
  BY DescendSteps
<1>2. Called'
  BY <1>1, CalledStays DEF RunInv
<1>3. Descending(schedule, state, k, mode, stopping)'
  BY <1>1, DescentStepKeeps DEF RunInv, Books
<1>4. Books' /\ Counters'
  BY <1>3 DEF RunInv, Books, Counters
<1>5. Control'
  BY <1>1, ReachedStays DEF RunInv, Control
<1> QED BY <1>2, <1>4, <1>5 DEF RunInv

\* The state of a descent that has returned is dropped, and its solution is
\* taken, or not.
LEMMA TakeKeeps ==
  ASSUME RunInv, phase \in {"first", "improve"}, mode = "returned",
         CriterionStep(stopping, stopping'),
         mode' = "idle", state' = NewState(EmptySolution), phase' = "loop",
         incumbent' \in {incumbent, state.solution}, best' \in {best, state.solution},
         level' \in 1 .. 3, best_at' \in Nat,
         UNCHANGED <<algorithm, config, greedyVars, schedule, k, ilsOnly, k_max, shaken>>
  PROVE  RunInv'
<1> USE DEF greedyVars, ilsOnly
<1>1. Called'
  BY CalledStays DEF RunInv
<1>2. Held(state.solution)
  BY StatesHold DEF RunInv, Books, Descending
<1>3. Held(incumbent)' /\ Held(best)'
  BY <1>2 DEF RunInv, Books
<1>4. /\ schedule \in Seq(NeighborhoodNames) /\ k \in 1 .. Len(schedule) + 1
      /\ stopping' \in StoppingType
  BY <1>1 DEF RunInv, Books, Descending, Called
<1>5. Descending(schedule, state, k, mode, stopping)'
  BY <1>4, EmptyHeld, EmptyFeasible, DescentIdle
<1>6. Books'
  BY <1>3, <1>5 DEF RunInv, Books
<1>7. Counters'
  BY DEF RunInv, Counters
<1>8. Control'
  BY ReachedStays DEF RunInv, Control
<1> QED BY <1>1, <1>6, <1>7, <1>8 DEF RunInv

\* A step of a search between two descents.
LEMMA SearchKeeps ==
  ASSUME RunInv, CriterionStep(stopping, stopping'),
         phase \in {"loop", "destroy", "repair"}, Exactly(kick)', Held(shaken)',
         fill' \in 1 .. Len(order) + 1,
         phase' \in {"loop", "destroy", "repair", "kicked", "shaken"},
         UNCHANGED <<algorithm, config, greedyVars, vndVars, strength, k_max, level, best_at,
                     incumbent, best>>
  PROVE  RunInv'
<1> USE DEF greedyVars, vndVars
<1>1. Called'
  BY CalledStays DEF RunInv
<1>2. mode = "idle" /\ building = FALSE
  BY DEF RunInv, Control
<1>3. Descending(schedule, state, k, mode, stopping)'
  BY <1>1, <1>2, DescentWaits DEF RunInv, Books, Called
<1>4. Books'
  BY <1>3 DEF RunInv, Books
<1>5. Counters'
  BY DEF RunInv, Counters
<1>6. Control'
  BY <1>2, ReachedStays DEF RunInv, Control
<1> QED BY <1>1, <1>4, <1>5, <1>6 DEF RunInv

\* The end of a run.
LEMMA EndKeeps ==
  ASSUME RunInv, building = FALSE, phase' = "done", Held(best)',
         algorithm \in {"Greedy", "VND"} \/ ShouldStop(stopping),
         algorithm = "VND" => mode = "returned" /\ best' = state.solution,
         UNCHANGED <<algorithm, config, greedyVars, vndVars, stopping, ilsOnly, vnsOnly,
                     incumbent>>
  PROVE  RunInv'
<1> USE DEF greedyVars, vndVars, ilsOnly, vnsOnly
<1>1. Called' /\ Books' /\ Counters'
  BY DEF RunInv, Called, Books, Counters
<1>2. Control'
  BY DEF RunInv, Control, NoneReached
<1> QED BY <1>1, <1>2 DEF RunInv

-----------------------------------------------------------------------------
(* The shakes.                                                             *)

\* What may enter once out has left leaves the selection feasible.
LEMMA EntersFeasibly ==
  ASSUME NEW S, Feasible(S), NEW out \in SUBSET S, NEW u \in Items,
         Variable!Enters(StateOf(S), out, u)
  PROVE  u \notin S /\ Feasible((S \ out) \cup {u})
<1>1. S \in SUBSET Items
  BY DEF Feasible
<1>2. Variable!SumFunctionOnSet(Weight, out) = SumFunctionOnSet(Weight, out)
  BY DEF Variable!SumFunctionOnSet, Variable!FoldFunctionOnSet, Variable!MapThenFoldSet,
         SumFunctionOnSet, FoldFunctionOnSet, MapThenFoldSet
<1>3. {i \in out : Variable!HasConflict(i, u)} = Graph[u] \cap out
  <2>1. \A i \in out : Variable!HasConflict(i, u) <=> HasConflict(i, u)
    BY CountsAgree, StatesAgree DEF Variable!HasConflict, HasConflict
  <2> QED BY <1>1, <2>1, HasConflictIsAdjacency, GraphAssumption
<1>4. /\ u \notin S
      /\ Cardinality(Graph[u] \cap S) = Cardinality(Graph[u] \cap out)
      /\ TotalWeight(S) - SumFunctionOnSet(Weight, out) + Weight[u] <= Capacity
  BY <1>1, <1>2, <1>3, StateOfFields, CountsAgree DEF Variable!Enters, Variable!Room
<1> QED BY <1>3, <1>4, ExchangeFeasible

\* Whatever is drawn, a shake of a feasible selection gives the exact state of
\* a feasible one.
LEMMA ShakesFeasible ==
  ASSUME NEW S, Feasible(S), NEW lev \in Int, NEW st \in Variable!Shakes(StateOf(S), lev)
  PROVE  \E T : Feasible(T) /\ st = StateOf(T)
<1> DEFINE goal == \E T : Feasible(T) /\ st = StateOf(T)
<1>1. S \in SUBSET Items /\ StateOf(S).solution.items = S
  BY StateOfFields DEF Feasible
<1>2. ASSUME st = StateOf(S) PROVE goal
  BY <1>2
<1>3. ASSUME NEW u \in Items, Variable!Enters(StateOf(S), {}, u), st = ApplyAdd(StateOf(S), u)
      PROVE  goal
  <2>1. u \notin S /\ Feasible((S \ {}) \cup {u})
    BY <1>3, EntersFeasibly, {} \in SUBSET S
  <2>2. st = StateOf(S \cup {u}) /\ (S \ {}) \cup {u} = S \cup {u}
    BY <1>1, <1>3, <2>1, ApplyAddExact
  <2> QED BY <2>1, <2>2
<1>4. ASSUME NEW i \in S, st = ApplyRemove(StateOf(S), i) PROVE goal
  BY <1>1, <1>4, ApplyRemoveExact, FeasibleRemove
<1>5. ASSUME NEW i \in S, NEW u \in Items, Variable!Enters(StateOf(S), {i}, u),
             st = ApplyAdd(ApplyRemove(StateOf(S), i), u)
      PROVE  goal
  <2>1. u \notin S /\ Feasible((S \ {i}) \cup {u})
    BY <1>5, EntersFeasibly, {i} \in SUBSET S
  <2>2. st = StateOf((S \ {i}) \cup {u})
    BY <1>1, <1>5, <2>1, ApplyRemoveExact, ApplyAddExact
  <2> QED BY <2>1, <2>2
<1>6. ASSUME NEW i \in S, NEW j \in S, i # j, NEW u \in Items,
             Variable!Enters(StateOf(S), {i, j}, u),
             st = ApplyAdd(ApplyRemove(ApplyRemove(StateOf(S), i), j), u)
      PROVE  goal
  <2>1. u \notin S /\ Feasible((S \ {i, j}) \cup {u})
    BY <1>6, EntersFeasibly, {i, j} \in SUBSET S
  <2>2. ApplyRemove(StateOf(S), i) = StateOf(S \ {i})
    BY <1>1, ApplyRemoveExact
  <2>3. ApplyRemove(StateOf(S \ {i}), j) = StateOf(S \ {i, j})
    <3>1. (S \ {i}) \ {j} = S \ {i, j} /\ j \in S \ {i} /\ S \ {i} \in SUBSET Items
      BY <1>1, <1>6
    <3> QED BY <3>1, ApplyRemoveExact
  <2>4. ApplyAdd(StateOf(S \ {i, j}), u) = StateOf((S \ {i, j}) \cup {u})
    BY <1>1, <2>1, ApplyAddExact
  <2> QED BY <1>6, <2>1, <2>2, <2>3, <2>4
<1>7. ASSUME st \in Variable!ShakeAddDrop(StateOf(S)) PROVE goal
  BY <1>1, <1>2, <1>3, <1>4, <1>7, StatesAgree DEF Variable!ShakeAddDrop
<1>8. ASSUME st \in Variable!ShakeSwap11(StateOf(S)) PROVE goal
  BY <1>1, <1>2, <1>5, <1>8, StatesAgree DEF Variable!ShakeSwap11
<1>9. ASSUME st \in Variable!ShakeSwap21(StateOf(S)) PROVE goal
  BY <1>1, <1>2, <1>6, <1>9, StatesAgree DEF Variable!ShakeSwap21
<1> DEFINE move == ((Variable!Max({1, lev}) - 1) % 3) + 1
<1>10. move \in 1 .. 3
  <2>1. \E x \in {1, lev} : \A y \in {1, lev} : x >= y
    OBVIOUS
  <2>2. Variable!Max({1, lev}) \in {1, lev}
    BY <2>1 DEF Variable!Max
  <2> QED BY <2>2
<1>11. st \in CASE N = 0 -> {StateOf(S)}
                [] N > 0 /\ move = 1 -> Variable!ShakeAddDrop(StateOf(S))
                [] N > 0 /\ move = 2 -> Variable!ShakeSwap11(StateOf(S))
                [] N > 0 /\ move = 3 -> Variable!ShakeSwap21(StateOf(S))
  BY DEF Variable!Shakes
<1> HIDE DEF move
<1>12. CASE N = 0
  BY <1>2, <1>11, <1>12
<1>13. CASE N > 0
  BY <1>7, <1>8, <1>9, <1>10, <1>11, <1>13
<1> QED BY <1>12, <1>13, NAssumption

-----------------------------------------------------------------------------
(* The algorithms.                                                         *)

\* A kick of ILS takes items from a copy of the incumbent and repairs it.
LEMMA KickSteps ==
  ASSUME RunInv, Iterated!Destroy \/ Iterated!Repair
  PROVE  Exactly(kick)'
<1> DEFINE S == kick.solution.items
<1>1. kick = StateOf(S) /\ Feasible(S) /\ S \in SUBSET Items /\ ConflictFree(S)
  BY DEF RunInv, Books, Exactly, Feasible
<1>2. CASE Iterated!Destroy
  <2>1. PICK i \in S : kick' = ApplyRemove(kick, i)
    BY <1>2, StatesAgree DEF Iterated!Destroy
  <2>2. kick' = StateOf(S \ {i}) /\ Feasible(S \ {i})
    BY <1>1, <2>1, ApplyRemoveExact, FeasibleRemove
  <2> QED BY <2>2, FeasibleStateOf DEF Exactly
<1>3. CASE Iterated!Repair
  <2> DEFINE u == order[fill]
  <2>1. u \in Items
    BY <1>3 DEF Iterated!Repair, RunInv, Books, Counters, Constructing, IsOrder
  <2>2. CASE Iterated!Insertable(kick, u)
    <3>1. u \notin S /\ Cardinality(Graph[u] \cap S) = 0 /\ TotalWeight(S) + Weight[u] <= Capacity
      <4>1. /\ kick.in_solution[u] = (u \in S)
            /\ kick.conflict_count[u] = Cardinality(Graph[u] \cap S)
            /\ kick.solution.weight = TotalWeight(S)
        BY <1>1, <2>1, StateOfFields
      <4> QED BY <2>2, <4>1 DEF Iterated!Insertable
    <3>2. Feasible(S \cup {u})
      BY <1>1, <2>1, <3>1, NoNeighbour, EnterFeasible
    <3>3. kick' = StateOf(S \cup {u})
      BY <1>1, <1>3, <2>1, <2>2, <3>1, StatesAgree, ApplyAddExact DEF Iterated!Repair
    <3> QED BY <3>2, <3>3, FeasibleStateOf DEF Exactly
  <2>3. CASE ~ Iterated!Insertable(kick, u)
    BY <1>1, <1>3, <2>3 DEF Iterated!Repair, Exactly
  <2> QED BY <2>2, <2>3
<1> QED BY <1>2, <1>3

\* The construction and the descent before the search.
LEMMA CommonSteps ==
  ASSUME RunInv, UNCHANGED <<algorithm, config>>, Construct \/ FirstDescent \/ Descend
  PROVE  RunInv'
<1> USE DEF Iterated!greedyVars, Iterated!vndVars, Iterated!ilsVars, vndVars, greedyVars, ilsOnly,
            vnsOnly
<1>1. CASE Construct
  BY <1>1, ConstructKeeps DEF Construct, Iterated!Construct
<1>2. CASE FirstDescent
  <2>1. Held(solution) /\ Exactly(kick) /\ Held(shaken)
    BY DEF RunInv, Books, Constructing, Held
  <2>2. Exactly(kick)' /\ Held(shaken)' /\ building = FALSE
    BY <1>2, <2>1 DEF FirstDescent, Iterated!FirstDescent, Exactly, Held, RunInv, Control
  <2> QED BY <1>2, <2>1, <2>2, ImproveKeeps DEF FirstDescent, Iterated!FirstDescent
<1>3. CASE Descend
  BY <1>3, DescendKeeps DEF Descend, Iterated!Descend
<1> QED BY <1>1, <1>2, <1>3

\* ILS.
LEMMA ILSKeeps ==
  ASSUME RunInv, Iterated!Run, UNCHANGED <<algorithm, config, vnsOnly>>, algorithm = "ILS"
  PROVE  RunInv'
<1> USE DEF Iterated!greedyVars, Iterated!vndVars, Iterated!ilsVars, vndVars, greedyVars, ilsOnly,
            vnsOnly
<1>0. CriterionStep(stopping, stopping) /\ Exactly(kick) /\ Held(shaken) /\ Held(incumbent)
  BY DEF CriterionStep, RunInv, Books
<1>1. CASE Iterated!Construct \/ Iterated!FirstDescent \/ Iterated!Descend
  BY <1>1, CommonSteps DEF Construct, FirstDescent, Descend
<1>2. CASE Iterated!TakeFirst
  <2>1. level' \in 1 .. 3 /\ best_at' \in Nat
    BY DEF RunInv, Counters
  <2> QED BY <1>0, <1>2, <2>1, TakeKeeps, StatesAgree DEF Iterated!TakeFirst
<1>3. CASE Iterated!Perturb
  <2>1. kick' = StateOf(incumbent.items) /\ Feasible(incumbent.items)
    BY <1>0, <1>3, HeldFields, StatesAgree DEF Iterated!Perturb, Held
  <2>2. Exactly(kick)' /\ Held(shaken)'
    BY <1>0, <2>1, FeasibleStateOf DEF Exactly, Held
  <2>3. CriterionStep(stopping, stopping')
    BY <1>3, CriteriaAgree DEF Iterated!Perturb, CriterionStep
  <2>4. fill' \in 1 .. Len(order) + 1
    BY <1>3 DEF Iterated!Perturb, RunInv, Counters
  <2> QED BY <1>3, <2>2, <2>3, <2>4, SearchKeeps DEF Iterated!Perturb
<1>4. CASE Iterated!Destroy \/ Iterated!Repair
  <2>1. Exactly(kick)' /\ Held(shaken)'
    BY <1>0, <1>4, KickSteps DEF Held
  <2>2. CASE Iterated!Destroy
    <3>1. fill' \in 1 .. Len(order) + 1
      BY <2>2 DEF Iterated!Destroy, RunInv, Counters
    <3> QED BY <1>0, <2>1, <2>2, <3>1, SearchKeeps DEF Iterated!Destroy
  <2>3. CASE Iterated!Repair
    <3>1. fill' \in 1 .. Len(order) + 1
      BY <2>3 DEF Iterated!Repair, RunInv, Counters, Books, Constructing, IsOrder
    <3> QED BY <1>0, <2>1, <2>3, <3>1, SearchKeeps DEF Iterated!Repair
  <2> QED BY <1>4, <2>2, <2>3
<1>5. CASE Iterated!Destroyed \/ Iterated!Repaired
  <2>1. Exactly(kick)' /\ Held(shaken)'
    BY <1>0, <1>5 DEF Iterated!Destroyed, Iterated!Repaired, Exactly, Held
  <2>2. fill' \in 1 .. Len(order) + 1
    BY <1>5 DEF Iterated!Destroyed, Iterated!Repaired, RunInv, Counters
  <2> QED BY <1>0, <1>5, <2>1, <2>2, SearchKeeps DEF Iterated!Destroyed, Iterated!Repaired
<1>6. CASE Iterated!NextDescent
  <2>1. Held(kick.solution)
    BY <1>0, StatesHold DEF Exactly
  <2>2. Exactly(kick)' /\ Held(shaken)'
    BY <1>0, <1>6, EmptyHeld, StatesAgree DEF Iterated!NextDescent, Held
  <2>3. building = FALSE
    BY <1>6 DEF Iterated!NextDescent, RunInv, Control
  <2> QED BY <1>6, <2>1, <2>2, <2>3, ImproveKeeps DEF Iterated!NextDescent
<1>7. CASE Iterated!Accept
  <2>1. /\ CriterionStep(stopping, stopping')
        /\ incumbent' \in {incumbent, state.solution} /\ best' \in {best, state.solution}
    BY <1>7, CriteriaAgree DEF Iterated!Accept, CriterionStep
  <2>2. level' \in 1 .. 3 /\ best_at' \in Nat
    BY DEF RunInv, Counters
  <2> QED BY <1>7, <2>1, <2>2, TakeKeeps, StatesAgree DEF Iterated!Accept
<1>8. CASE Iterated!Finish
  <2>1. Held(best)' /\ building = FALSE
    BY <1>8 DEF Iterated!Finish, RunInv, Books, Control, Held
  <2> QED BY <1>8, <2>1, EndKeeps, CriteriaAgree DEF Iterated!Finish
<1> QED BY <1>1, <1>2, <1>3, <1>4, <1>5, <1>6, <1>7, <1>8 DEF Iterated!Run

\* VNS.
LEMMA VNSKeeps ==
  ASSUME RunInv, Variable!Run, UNCHANGED <<algorithm, config, ilsOnly>>, algorithm = "VNS"
  PROVE  RunInv'
<1> USE DEF Variable!greedyVars, Variable!vndVars, Variable!vnsVars, vndVars, greedyVars, ilsOnly,
            vnsOnly
<1>0. CriterionStep(stopping, stopping) /\ Exactly(kick) /\ Held(shaken) /\ Held(incumbent)
  BY DEF CriterionStep, RunInv, Books
<1>1. CASE Variable!Construct
  BY <1>1, ConstructKeeps DEF Variable!Construct
<1>2. CASE Variable!FirstDescent
  <2>1. Held(solution)
    BY DEF RunInv, Books, Constructing, Held
  <2>2. Exactly(kick)' /\ Held(shaken)' /\ building = FALSE
    BY <1>0, <1>2 DEF Variable!FirstDescent, Exactly, Held, RunInv, Control
  <2> QED BY <1>2, <2>1, <2>2, ImproveKeeps DEF Variable!FirstDescent
<1>3. CASE Variable!Descend
  BY <1>3, DescendKeeps DEF Variable!Descend
<1>4. CASE Variable!TakeFirst
  <2>1. level' \in 1 .. 3 /\ best_at' \in Nat
    BY <1>4 DEF Variable!TakeFirst, RunInv, Counters, Called, StoppingType
  <2> QED BY <1>0, <1>4, <2>1, TakeKeeps, StatesAgree DEF Variable!TakeFirst
<1>5. CASE Variable!Shake
  <2>1. level \in Int /\ NewState(incumbent) = StateOf(incumbent.items)
    BY <1>0, HeldFields DEF RunInv, Counters
  <2>2. PICK st \in Variable!Shakes(StateOf(incumbent.items), level) : shaken' = st.solution
    BY <1>5, <2>1, StatesAgree DEF Variable!Shake
  <2>3. Held(shaken)'
    <3>1. PICK T : Feasible(T) /\ st = StateOf(T)
      BY <1>0, <2>1, ShakesFeasible DEF Held
    <3> QED BY <2>2, <3>1, FeasibleStateOf DEF Held
  <2>4. CriterionStep(stopping, stopping')
    BY <1>5, CriteriaAgree DEF Variable!Shake, CriterionStep
  <2>5. Exactly(kick)' /\ fill' \in 1 .. Len(order) + 1
    BY <1>0 DEF Exactly, RunInv, Counters
  <2> QED BY <1>5, <2>3, <2>4, <2>5, SearchKeeps DEF Variable!Shake
<1>6. CASE Variable!NextDescent
  <2>1. Exactly(kick)' /\ Held(shaken)'
    BY <1>0, <1>6, EmptyHeld, StatesAgree DEF Variable!NextDescent, Exactly
  <2>2. building = FALSE
    BY <1>6 DEF Variable!NextDescent, RunInv, Control
  <2> QED BY <1>0, <1>6, <2>1, <2>2, ImproveKeeps DEF Variable!NextDescent
<1>7. CASE Variable!Change
  <2>1. /\ CriterionStep(stopping, stopping')
        /\ incumbent' \in {incumbent, state.solution} /\ best' \in {best, state.solution}
    BY <1>7, CriteriaAgree DEF Variable!Change, CriterionStep
  <2>2. level' \in 1 .. 3
    <3>1. k_max = 3 /\ level \in 1 .. 3 /\ level' \in {1, Variable!NextLevel}
      BY <1>7 DEF Variable!Change, RunInv, Counters
    <3> QED BY <3>1 DEF Variable!NextLevel
  <2>3. best_at' \in Nat
    BY <1>7 DEF Variable!Change, RunInv, Counters, Called, StoppingType
  <2> QED BY <1>7, <2>1, <2>2, <2>3, TakeKeeps, StatesAgree DEF Variable!Change
<1>8. CASE Variable!Finish
  <2>1. Held(best)' /\ building = FALSE
    BY <1>8 DEF Variable!Finish, RunInv, Books, Control, Held
  <2> QED BY <1>8, <2>1, EndKeeps, CriteriaAgree DEF Variable!Finish
<1> QED BY <1>1, <1>2, <1>3, <1>4, <1>5, <1>6, <1>7, <1>8 DEF Variable!Run

\* Whatever the algorithm is.
LEMMA RunKeeps == RunInv /\ Run => RunInv'
<1> SUFFICES ASSUME RunInv, Run PROVE RunInv'
  OBVIOUS
<1>1. UNCHANGED <<algorithm, config>>
  BY DEF Run
<1>2. CASE RunGreedy
  <2>1. CASE Construct
    BY <1>1, <2>1, CommonSteps
  <2>2. CASE phase = "construct" /\ ~ building /\ ReturnSolution(solution)
    <3>1. Held(solution) /\ building = FALSE /\ algorithm = "Greedy"
      BY <1>2, <2>2 DEF RunGreedy, RunInv, Books, Constructing, Held, Control
    <3>2. Held(best)'
      BY <2>2, <3>1 DEF ReturnSolution, Held
    <3> QED BY <1>1, <2>2, <3>1, <3>2, EndKeeps DEF ReturnSolution
  <2> QED BY <1>2, <2>1, <2>2 DEF RunGreedy
<1>3. CASE RunVND
  <2>1. CASE Construct \/ FirstDescent \/ Descend
    BY <1>1, <2>1, CommonSteps
  <2>2. CASE phase = "first" /\ mode = "returned" /\ ReturnSolution(state.solution)
    <3>1. Held(state.solution) /\ building = FALSE /\ algorithm = "VND"
      BY <1>3, <2>2, StatesHold DEF RunVND, RunInv, Books, Descending, Control
    <3>2. Held(best)'
      BY <2>2, <3>1 DEF ReturnSolution, Held
    <3> QED BY <1>1, <2>2, <3>1, <3>2, EndKeeps DEF ReturnSolution
  <2> QED BY <1>3, <2>1, <2>2 DEF RunVND
<1>4. CASE RunILS
  BY <1>1, <1>4, ILSKeeps DEF RunILS
<1>5. CASE RunVNS
  BY <1>1, <1>5, VNSKeeps DEF RunVNS
<1> QED BY <1>2, <1>3, <1>4, <1>5 DEF Run

\* The clock runs out between two steps.
LEMMA TimeOutKeeps == RunInv /\ TimeOut => RunInv'
<1> SUFFICES ASSUME RunInv, TimeOut PROVE RunInv'
  OBVIOUS
<1>1. /\ stopping.limits.time /\ stopping' = Expire(stopping)
      /\ UNCHANGED <<algorithm, config, greedyVars, vndVars, ilsOnly, vnsOnly, incumbent, best,
                     phase>>
  BY CriteriaAgree DEF TimeOut, Iterated!TimeOut, Iterated!greedyVars, Iterated!vndVars,
                       Iterated!ilsVars, greedyVars, vndVars, ilsOnly
<1> USE DEF greedyVars, vndVars, ilsOnly, vnsOnly
<1>2. Called'
  BY <1>1, CalledStays DEF RunInv, CriterionStep
<1>3. Descending(schedule, state, k, mode, stopping)'
  BY <1>1, DescentTimesOut DEF RunInv, Books
<1>4. Books' /\ Counters'
  BY <1>1, <1>3 DEF RunInv, Books, Counters
<1>5. Control'
  <2>1. NoneReached' => NoneReached
    BY <1>1, ReachedStays DEF RunInv, CriterionStep
  <2>2. phase' # "done"
    BY <1>1 DEF TimeOut, Iterated!TimeOut
  <2> QED BY <1>1, <2>1, <2>2 DEF RunInv, Control
<1> QED BY <1>2, <1>4, <1>5 DEF RunInv

-----------------------------------------------------------------------------
(* The items of a solution, in the order of its std::set.                  *)

\* Every selection can be listed in ascending order: of the selections that
\* could not, a minimal one would be one item more than one that can.
LEMMA AscendingExists ==
  ASSUME NEW S \in SUBSET Items
  PROVE  \E s \in [1 .. Cardinality(S) -> S] :
           \A p, q \in DOMAIN s : p < q => s[p] < s[q]
<1> DEFINE Lists(s, T) == /\ s \in [1 .. Cardinality(T) -> T]
                          /\ \A p, q \in 1 .. Cardinality(T) : p < q => s[p] < s[q]
           B == {T \in SUBSET S : ~ \E s : Lists(s, T)}
<1>1. ASSUME B # {} PROVE FALSE
  <2>1. IsFiniteSet(S) /\ B \subseteq SUBSET S
    BY ItemsFinite
  <2>2. PICK U \in B : \A V \in B : V \subseteq U => V = U
    <3> HIDE DEF B
    <3> QED BY <1>1, <2>1, MinimalSubset
  <2>3. U \in SUBSET Items /\ U \in SUBSET S /\ ~ \E s : Lists(s, U)
    OBVIOUS
  <2>4. U # {}
    <3>1. Cardinality({}) = 0 /\ 1 .. 0 = {}
      BY FS_EmptySet
    <3>2. Lists(<<>>, {})
      BY <3>1
    <3> QED BY <2>3, <3>2
  <2>5. PICK d \in U : \A x \in U : d <= x
    BY <2>3, <2>4, SmallestItem
  <2> DEFINE T == U \ {d}
             n == Cardinality(T)
  <2>6. PICK s : Lists(s, T)
    <3>1. T \subseteq U /\ T # U /\ T \in SUBSET S
      BY <2>3
    <3>2. T \notin B
      BY <2>2, <3>1
    <3> QED BY <3>1, <3>2
  <2>7. n \in Nat /\ Cardinality(U) = n + 1
    BY <2>3, ItemsFinite, FS_RemoveElement, FS_CardinalityType
  <2>8. s \in [1 .. n -> T] /\ \A p, q \in 1 .. n : p < q => s[p] < s[q]
    BY <2>6
  <2> DEFINE r == [p \in 1 .. n + 1 |-> IF p = 1 THEN d ELSE s[p - 1]]
  <2>9. T \subseteq Int /\ d \in Int /\ \A x \in T : d < x
    BY <2>3, <2>5, NAssumption DEF Items
  <2>10. U = T \cup {d}
    OBVIOUS
  <2> HIDE DEF Lists, B, n, T
  <2>11. \A p \in 1 .. n + 1 : p # 1 => p - 1 \in 1 .. n
    BY <2>7
  <2>12. r \in [1 .. n + 1 -> U]
    BY <2>8, <2>10, <2>11
  <2>13. ASSUME NEW p \in 1 .. n + 1, NEW q \in 1 .. n + 1, p < q PROVE r[p] < r[q]
    <3>1. q # 1 /\ q - 1 \in 1 .. n /\ r[q] = s[q - 1] /\ s[q - 1] \in T
      BY <2>7, <2>8, <2>13
    <3>2. CASE p = 1
      BY <2>9, <3>1, <3>2
    <3>3. CASE p # 1
      <4>1. p - 1 \in 1 .. n /\ p - 1 < q - 1 /\ r[p] = s[p - 1]
        BY <2>7, <2>13, <3>3
      <4> QED BY <2>8, <3>1, <4>1
    <3> QED BY <3>2, <3>3
  <2>14. Lists(r, U)
    BY <2>7, <2>12, <2>13 DEF Lists
  <2> QED BY <2>3, <2>14
<1>2. PICK s : Lists(s, S)
  BY <1>1
<1>3. DOMAIN s = 1 .. Cardinality(S)
  BY <1>2
<1> QED BY <1>2, <1>3

\* It names items only, each once, and all of the selection.
LEMMA AscendingLists ==
  ASSUME NEW S \in SUBSET Items
  PROVE  /\ Ascending(S) \in Seq(Items)
         /\ FromSolution(Ascending(S))
         /\ Range(Ascending(S)) = S
<1> DEFINE s == Ascending(S)
           n == Cardinality(S)
<1>1. s \in [1 .. n -> S] /\ \A p, q \in DOMAIN s : p < q => s[p] < s[q]
  BY AscendingExists DEF Ascending
<1>2. IsFiniteSet(S) /\ n \in Nat /\ n = Cardinality(S)
  BY ItemsFinite, FS_CardinalityType
<1> HIDE DEF s, n
<1>3. s \in Seq(Items) /\ DOMAIN s = 1 .. n
  BY <1>1, <1>2
<1>4. FromSolution(s)
  BY <1>1, <1>3 DEF FromSolution
<1>5. ASSUME NEW p \in 1 .. n, NEW q \in 1 .. n, s[p] = s[q] PROVE p = q
  <2>1. ~ (p < q) /\ ~ (q < p)
    <3>1. s[p] \in S /\ s[q] \in S
      BY <1>1
    <3>2. s[p] \in Int /\ s[q] \in Int
      <4>1. S \subseteq Int
        BY NAssumption DEF Items
      <4> QED BY <3>1, <4>1
    <3>3. p \in DOMAIN s /\ q \in DOMAIN s
      BY <1>3
    <3>4. ~ (s[p] < s[q]) /\ ~ (s[q] < s[p])
      BY <1>5, <3>2
    <3> QED BY <1>1, <3>3, <3>4
  <2> QED BY <1>2, <2>1
<1>6. s \in Injection(1 .. n, S)
  BY <1>1, <1>5 DEF Injection, IsInjective
<1>7. Cardinality(1 .. n) = n
  BY <1>2, FS_Interval
<1>8. s \in Surjection(1 .. n, S)
  BY <1>2, <1>6, <1>7, FS_Injection
<1>9. Range(s) = S
  BY <1>1, <1>8 DEF Surjection, Range
<1> QED BY <1>3, <1>4, <1>9 DEF s

-----------------------------------------------------------------------------
(* The inductive invariant of main.                                        *)

\* The Validator before its call.
Unexamined ==
  /\ items = <<>> /\ check_pos = 1 /\ selected = {} /\ report = NewReport
  /\ is_feasible = TRUE
  /\ check_phase = "idle"

\* It has been handed the items of the solution that the run has returned.
Examined ==
  /\ ValidatorInv
  /\ items \in Seq(Items) /\ Range(items) = best.items
  /\ check_phase = "done" => is_feasible = report.feasible

MainInv ==
  /\ RunInv
  /\ call = "validate"
  /\ \/ step = "read" /\ phase = "idle" /\ Unexamined /\ exit = -1
     \/ step = "execute" /\ Unexamined /\ exit = -1
     \/ step = "validate" /\ phase = "done" /\ Examined /\ check_phase # "done" /\ exit = -1
     \/ step = "print" /\ phase = "done" /\ Examined /\ check_phase = "done" /\ exit = -1
     \/ step = "exit" /\ phase = "done" /\ Examined /\ check_phase = "done" /\ exit = 0
     \/ step = "exit" /\ phase = "idle" /\ Unexamined /\ exit = 1

\* What the Validator has found by its end.
LEMMA NothingFound ==
  ASSUME RunInv, call = "validate", Examined, check_phase = "done"
  PROVE  /\ is_feasible = TRUE /\ report.failures = 0
         /\ best.profit = report.total_profit /\ best.weight = report.total_weight
         /\ best.items = selected
<1>1. /\ best = SolutionOf(best.items) /\ Feasible(best.items)
      /\ Reading /\ Reporting /\ check_pos = Len(items) + 1
  BY DEF RunInv, Books, Held, Examined, ValidatorInv, Reading
<1>2. /\ \A p \in DOMAIN items : items[p] \in Items
      /\ \A p, q \in DOMAIN items : p # q => items[p] # items[q]
  BY <1>1, SolutionIsClean
<1>3. /\ report.feasible <=> /\ \A p \in DOMAIN items : items[p] \in Items
                             /\ \A p, q \in DOMAIN items : p # q => items[p] # items[q]
                             /\ Feasible(Range(items))
      /\ report.feasible <=> report.failures = 0
  BY Verdict DEF Examined
<1>4. Range(items) = best.items
  BY DEF Examined
<1>5. is_feasible = TRUE /\ report.failures = 0
  <2>1. report.feasible /\ report.feasible \in BOOLEAN
    BY <1>1, <1>2, <1>3, <1>4 DEF Reporting, ReportType
  <2> QED BY <1>3, <2>1 DEF Examined
<1>6. best.items = selected
  BY <1>1, <1>2, <1>4, CleanRange
<1>7. best.profit = TotalProfit(selected) /\ best.weight = TotalWeight(selected)
  BY <1>1, <1>6 DEF SolutionOf
<1> QED BY <1>1, <1>5, <1>6, <1>7 DEF Reporting

\* main begins, or a test calls execute itself.
LEMMA MainInitInv == MainInit => MainInv
BY BeginRunInv DEF MainInit, MainInv, Unexamined

\* Where nothing of the run changes, its invariant stays.
LEMMA RunInvStays == RunInv /\ UNCHANGED runnerVars => RunInv'
BY DEF RunInv, runnerVars, greedyVars, vndVars, ilsOnly, vnsOnly, Called, Books, Counters,
       Control, NoneReached, Exactly, Held


\* Every step of main.
LEMMA MainNextInv == MainInv /\ [MainNext]_vars => MainInv'
<1> SUFFICES ASSUME MainInv, [MainNext]_vars PROVE MainInv'
  OBVIOUS
<1>0. RunInv /\ call = "validate"
  BY DEF MainInv
<1> USE DEF validatorVars
<1>1. CASE Unreadable
  <2>1. RunInv'
    BY <1>0, <1>1, RunInvStays DEF Unreadable, Leave
  <2>2. phase = "idle" /\ Unexamined
    BY <1>1 DEF MainInv, Unreadable
  <2>3. /\ step' = "exit" /\ exit' = 1
        /\ UNCHANGED <<phase, call, items, check_pos, selected, report, is_feasible, check_phase>>
    BY <1>1 DEF Unreadable, Leave, runnerVars
  <2>4. Unexamined'
    BY <2>2, <2>3 DEF Unexamined
  <2> QED BY <1>0, <2>1, <2>2, <2>3, <2>4 DEF MainInv
<1>2. CASE Execute
  <2>1. /\ phase = "idle" /\ Unexamined /\ exit = -1
        /\ phase' = "construct" /\ step' = "execute" /\ exit' = exit
    BY <1>2 DEF MainInv, Execute
  <2>2. Called' /\ Books' /\ Counters'
    BY <1>0, <1>2 DEF Execute, greedyVars, vndVars, ilsOnly, vnsOnly, RunInv, Called, Books,
                      Counters, Exactly, Held
  <2>3. Control'
    BY <1>0, <1>2, <2>1 DEF Execute, greedyVars, vndVars, RunInv, Control, NoneReached
  <2>4. Unexamined' /\ call' = call
    BY <1>2, <2>1 DEF Execute, Unexamined
  <2> QED BY <1>0, <2>1, <2>2, <2>3, <2>4 DEF MainInv, RunInv
<1>3. CASE RunAlgorithm \/ ClockRunsOut
  <2>1. RunInv'
    BY <1>0, <1>3, RunKeeps, TimeOutKeeps DEF RunAlgorithm, ClockRunsOut
  <2>2. step = "execute" /\ UNCHANGED <<validatorVars, step, exit>>
    BY <1>3 DEF RunAlgorithm, ClockRunsOut
  <2>3. Unexamined /\ exit = -1
    BY <2>2 DEF MainInv
  <2>4. Unexamined' /\ call' = call
    BY <2>2, <2>3 DEF Unexamined
  <2> QED BY <1>0, <2>1, <2>2, <2>3, <2>4 DEF MainInv
<1>4. CASE Validate
  <2>1. RunInv' /\ best' = best /\ phase' = phase
    BY <1>0, <1>4, RunInvStays DEF Validate, runnerVars
  <2>2. /\ step = "execute" /\ phase = "done" /\ step' = "validate"
        /\ items' = Ascending(best.items) /\ check_phase' = "items"
        /\ UNCHANGED <<call, check_pos, selected, report, is_feasible, exit>>
    BY <1>4 DEF Validate
  <2>3. Unexamined /\ exit = -1
    BY <2>2 DEF MainInv
  <2>4. best.items \in SUBSET Items
    BY <1>0 DEF RunInv, Books, Held, Feasible
  <2>5. items' \in Seq(Items) /\ FromSolution(items') /\ Range(items') = best.items
    BY <2>2, <2>4, AscendingLists
  <2>6. Fresh'
    <3>1. Items \subseteq Int
      BY NAssumption DEF Items
    <3>2. items' \in Seq(Int)
      <4>1. /\ Len(items') \in Nat
            /\ items' \in [1 .. Len(items') -> Items]
        BY <2>5
      <4>2. items' \in [1 .. Len(items') -> Int]
        BY <3>1, <4>1
      <4> QED BY <4>1, <4>2
    <3> QED BY <1>0, <2>2, <2>3, <2>5, <3>2 DEF Fresh, Unexamined, FromSolution
  <2>7. ValidatorInv'
    BY <2>6, FreshInv, PTL
  <2>8. Examined'
    BY <2>1, <2>2, <2>5, <2>7 DEF Examined, Range
  <2> QED BY <1>0, <2>1, <2>2, <2>3, <2>8 DEF MainInv
<1>5. CASE Analyze
  <2>1. RunInv' /\ best' = best /\ phase' = phase
    BY <1>0, <1>5, RunInvStays DEF Analyze, runnerVars
  <2>2. /\ step = "validate" /\ ValidatorNext /\ exit' = exit
        /\ step' = IF check_phase' = "done" THEN "print" ELSE step
    BY <1>5 DEF Analyze
  <2>3. phase = "done" /\ Examined /\ check_phase # "done" /\ exit = -1
    BY <2>2 DEF MainInv
  <2>4. ValidatorInv'
    BY <2>2, <2>3, ValidatorNextInv DEF Examined
  <2>5. call' = call /\ items' = items
    BY <2>2 DEF ValidatorNext, Invalid, Duplicate, Accept, AtItem, EndOfItems, CheckCapacity,
                CheckConflicts, Deliver
  <2>6. ASSUME check_phase' = "done" PROVE is_feasible' = report'.feasible
    <3>1. Deliver
      BY <2>2, <2>3, <2>6 DEF ValidatorNext, Invalid, Duplicate, Accept, AtItem, EndOfItems,
                              CheckCapacity, CheckConflicts
    <3> QED BY <1>0, <3>1 DEF Deliver
  <2>7. Examined'
    BY <2>1, <2>3, <2>4, <2>5, <2>6 DEF Examined, Range
  <2>8. CASE check_phase' = "done"
    BY <1>0, <2>1, <2>2, <2>3, <2>5, <2>7, <2>8 DEF MainInv
  <2>9. CASE check_phase' # "done"
    BY <1>0, <2>1, <2>2, <2>3, <2>5, <2>7, <2>9 DEF MainInv
  <2> QED BY <2>8, <2>9
<1>6. CASE PrintLine
  <2>1. RunInv' /\ best' = best /\ phase' = phase
    BY <1>0, <1>6, RunInvStays DEF PrintLine, Leave, runnerVars
  <2>2. /\ step = "print" /\ step' = "exit" /\ exit' = IF is_feasible THEN 0 ELSE 1
        /\ UNCHANGED validatorVars
    BY <1>6 DEF PrintLine, Leave
  <2>3. phase = "done" /\ Examined /\ check_phase = "done"
    BY <2>2 DEF MainInv
  <2>4. exit' = 0
    BY <1>0, <2>2, <2>3, NothingFound
  <2>5. [ValidatorNext]_validatorVars
    BY <2>2
  <2>6. ValidatorInv'
    BY <2>3, <2>5, ValidatorNextInv DEF Examined
  <2>7. Examined' /\ check_phase' = "done" /\ call' = call
    BY <2>1, <2>2, <2>3, <2>6 DEF Examined, Range
  <2> QED BY <1>0, <2>1, <2>2, <2>3, <2>4, <2>7 DEF MainInv
<1>7. CASE UNCHANGED vars
  <2>1. RunInv' /\ best' = best /\ phase' = phase
    BY <1>0, <1>7, RunInvStays DEF vars, runnerVars
  <2>2. UNCHANGED <<validatorVars, step, exit>>
    BY <1>7 DEF vars
  <2>3. Unexamined' <=> Unexamined
    BY <2>2 DEF Unexamined
  <2>4. Examined => Examined'
    <3>1. ValidatorInv => ValidatorInv'
      BY <2>2, ValidatorNextInv
    <3> QED BY <2>1, <2>2, <3>1 DEF Examined, Range
  <2> QED BY <2>1, <2>2, <2>3, <2>4 DEF MainInv
<1> QED BY <1>1, <1>2, <1>3, <1>4, <1>5, <1>6, <1>7 DEF MainNext, Main

\* The invariant holds from main's entry to its exit.
THEOREM MainInvariance == MainSpec => []MainInv
BY MainInitInv, MainNextInv, PTL DEF MainSpec

-----------------------------------------------------------------------------
(* The theorems about main.                                                *)

\* The variables keep their types, from the command line to the exit code.
THEOREM ProgramTypeCorrect == MainSpec => []TypeOK
<1>1. MainInv => TypeOK
  <2> SUFFICES ASSUME MainInv PROVE TypeOK
    OBVIOUS
  <2>1. Called /\ Books /\ Counters /\ Control
    BY DEF MainInv, RunInv
  <2>2. Greedy!TypeOK
    <3>1. /\ order \in Seq(Items) /\ pos \in 1 .. Len(order) + 1
          /\ solution \in SolutionType /\ forbidden \in SUBSET Items /\ remaining \in Int
      BY <2>1, ConstructingTypes DEF Books
    <3>2. /\ Greedy!SolutionType = SolutionType /\ Greedy!StoppingType = StoppingType
      BY DEF Greedy!SolutionType, SolutionType, Greedy!Items, Items, Greedy!StoppingType,
             StoppingType, Greedy!LimitsType, LimitsType, Greedy!Inactive, Inactive
    <3> QED BY <2>1, <3>1, <3>2, StatesAgree DEF Greedy!TypeOK, Called, Control
  <2>3. state \in StateType /\ kick \in StateType
    BY <2>1, FeasibleStateOf DEF Books, Descending, Exactly
  <2>4. Local!TypeOK
    <3>1. Local!StateType = StateType
      BY DEF Local!StateType, StateType, Local!SolutionType, SolutionType, Local!Items, Items
    <3>2. /\ Local!StoppingType = StoppingType
          /\ Local!NeighborhoodNames = NeighborhoodNames
      BY DEF Local!StoppingType, StoppingType, Local!LimitsType, LimitsType, Local!Inactive,
             Inactive, Local!NeighborhoodNames, NeighborhoodNames
    <3> QED BY <2>1, <2>3, <3>1, <3>2 DEF Local!TypeOK, Books, Descending
  <2>5. shaken \in SolutionType /\ incumbent \in SolutionType /\ best \in SolutionType
    BY <2>1, HeldFields DEF Books
  <2>6. RunnerTypeOK
    BY <2>1, <2>2, <2>3, <2>4, <2>5 DEF RunnerTypeOK, Called, Counters, Control
  <2>7. /\ items \in Seq(Items) /\ selected \in SUBSET Items /\ is_feasible \in BOOLEAN
        /\ check_pos \in 1 .. Len(items) + 1
        /\ check_phase \in {"idle", "items", "capacity", "conflicts", "verdict", "done"}
    <3>1. CASE Unexamined
      BY <3>1 DEF Unexamined
    <3>2. CASE Examined
      BY <3>2, SelectedFinite DEF Examined, ValidatorInv, Reading
    <3> QED BY <3>1, <3>2 DEF MainInv
  <2>8. step \in {"read", "execute", "validate", "print", "exit"} /\ exit \in {-1, 0, 1}
    BY DEF MainInv
  <2> QED BY <2>6, <2>7, <2>8 DEF TypeOK
<1> QED BY <1>1, MainInvariance, PTL

\* Once the instance is read, main prints valid=true and exits with 0,
\* whatever the algorithm, its schedule and its limits, and the printed totals
\* are those of the printed selection (main.cpp, Runner::execute, Validator).
THEOREM LineIsTrue == MainSpec => []PrintedLineIsTrue
<1>1. MainInv => PrintedLineIsTrue
  BY NothingFound DEF MainInv, PrintedLineIsTrue
<1> QED BY <1>1, MainInvariance, PTL

\* No run passes the iteration limit of its configuration, and one that ends
\* without having reached a limit has come to its own end: construction and
\* descent do, neither search does (runner.cpp, runner.h).
THEOREM LimitsAreMeant == MainSpec => []LimitsMeanWhatTheConfigSays
<1>1. MainInv => LimitsMeanWhatTheConfigSays
  <2> SUFFICES ASSUME MainInv PROVE LimitsMeanWhatTheConfigSays
    OBVIOUS
  <2>1. Called /\ Books /\ Control
    BY DEF MainInv, RunInv
  <2>2. config.iteration_limit > 0 => stopping.iterations <= config.iteration_limit
    <3>1. config.iteration_limit \in Nat
      BY <2>1 DEF Called, RunnerConfigType
    <3>2. config.iteration_limit > 0 => stopping.limits.iter = config.iteration_limit
      BY <2>1, ActivateType DEF Called
    <3> QED BY <2>1, <3>1, <3>2 DEF Called, Within, Inactive
  <2>3. ASSUME phase = "done", NoneReached
        PROVE  /\ algorithm \in {"Greedy", "VND"}
               /\ pos > Len(order)
               /\ algorithm = "VND" =>
                    \A p \in DOMAIN schedule : LocallyOptimal(schedule[p], best.items)
    <3>1. ~ ShouldStop(stopping)
      BY <2>1, <2>3, NothingStops
    <3>2. algorithm \in {"Greedy", "VND"} /\ pos > Len(order)
      BY <2>1, <2>3, <3>1 DEF Control
    <3>3. ASSUME algorithm = "VND", NEW p \in DOMAIN schedule
          PROVE  LocallyOptimal(schedule[p], best.items)
      <4>1. mode = "returned" /\ best = state.solution
        BY <2>1, <2>3, <3>3 DEF Control
      <4> QED BY <2>1, <3>1, <3>3, <4>1 DEF Books, Descending, OptimalFor
    <3> QED BY <3>2, <3>3
  <2> QED BY <2>2, <2>3 DEF LimitsMeanWhatTheConfigSays
<1> QED BY <1>1, MainInvariance, PTL

=============================================================================
