----------------------------- MODULE Validator ------------------------------
(***************************************************************************)
(* The Validator: analyze walks over a list of item ids that may come from *)
(* anywhere, collects every reason why it is not a feasible selection, and *)
(* leaves a report; validate also stores the verdict in the solution.      *)
(***************************************************************************)
EXTENDS Solution, Sequences

\* The lists of ids that are analysed.
CONSTANT Selections
ASSUME SelectionsAssumption == Selections \subseteq Seq(Int)

VARIABLES
  call,          \* "analyze" of a list, or "validate" of a solution
  items,         \* the ids, those of a solution in ascending order
  check_pos,     \* the position in items, from 1
  selected,      \* the items flagged so far, which are also valid_items
  report,        \* the ValidationReport; failures is the number of reasons
  is_feasible,   \* is_feasible_ of the solution, left by an earlier call
  check_phase    \* "items", "capacity", "conflicts", "verdict", "done"

validatorVars == <<call, items, check_pos, selected, report, is_feasible, check_phase>>

NewReport ==
  [feasible |-> TRUE, total_profit |-> 0, total_weight |-> 0,
   invalid_index_count |-> 0, duplicate_item_count |-> 0,
   conflict_pair_count |-> 0, capacity_violated |-> FALSE, failures |-> 0]

\* feasible = false, with one reason or several.
Fail(r, reasons) ==
  [r EXCEPT !.feasible = FALSE, !.failures = @ + reasons]

-----------------------------------------------------------------------------
(* The loop over the ids.                                                  *)

AtItem ==
  /\ check_phase = "items"
  /\ check_pos <= Len(items)
  /\ check_pos' = check_pos + 1
  /\ UNCHANGED <<call, items, is_feasible, check_phase>>

Invalid ==
  /\ AtItem
  /\ items[check_pos] \notin Items
  /\ report' = [Fail(report, 1) EXCEPT !.invalid_index_count = @ + 1]
  /\ UNCHANGED selected

Duplicate ==
  /\ AtItem
  /\ items[check_pos] \in selected
  /\ report' = [Fail(report, 1) EXCEPT !.duplicate_item_count = @ + 1]
  /\ UNCHANGED selected

Accept ==
  /\ AtItem
  /\ items[check_pos] \in Items \ selected
  /\ selected' = selected \cup {items[check_pos]}
  /\ report' = [report EXCEPT !.total_profit = @ + Profit[items[check_pos]],
                              !.total_weight = @ + Weight[items[check_pos]]]

EndOfItems ==
  /\ check_phase = "items"
  /\ check_pos > Len(items)
  /\ check_phase' = "capacity"
  /\ UNCHANGED <<call, items, check_pos, selected, report, is_feasible>>

-----------------------------------------------------------------------------
(* The checks of the whole selection, and the verdict.                     *)

FaultFullIsTooMuch == report.total_weight >= Capacity

Overweight == report.total_weight > Capacity

CheckCapacity ==
  /\ check_phase = "capacity"
  /\ report' = IF Overweight
               THEN [Fail(report, 1) EXCEPT !.capacity_violated = TRUE]
               ELSE report
  /\ check_phase' = "conflicts"
  /\ UNCHANGED <<call, items, check_pos, selected, is_feasible>>

FaultBothEnds == {p \in selected \X selected : p[2] \in Graph[p[1]]}

\* The pairs that the two nested loops report, from their smaller end.
ConflictPairs == {p \in selected \X selected : p[2] \in Graph[p[1]] /\ p[2] > p[1]}

CheckConflicts ==
  /\ check_phase = "conflicts"
  /\ report' = IF ConflictPairs = {} THEN report
               ELSE [Fail(report, Cardinality(ConflictPairs))
                       EXCEPT !.conflict_pair_count = Cardinality(ConflictPairs)]
  /\ check_phase' = "verdict"
  /\ UNCHANGED <<call, items, check_pos, selected, is_feasible>>

FaultOnlyLowers ==
  /\ check_phase = "verdict"
  /\ is_feasible' = IF call = "validate" /\ ~ report.feasible THEN FALSE ELSE is_feasible
  /\ check_phase' = "done"
  /\ UNCHANGED <<call, items, check_pos, selected, report>>

\* analyze returns the report; validate sets the flag of the solution too.
Deliver ==
  /\ check_phase = "verdict"
  /\ is_feasible' = IF call = "validate" THEN report.feasible ELSE is_feasible
  /\ check_phase' = "done"
  /\ UNCHANGED <<call, items, check_pos, selected, report>>

\* A solution holds its items in a std::set and lets no other number in.
FromSolution(s) ==
  /\ \A p \in DOMAIN s : s[p] \in Items
  /\ \A p, q \in DOMAIN s : p < q => s[p] < s[q]

ValidatorInit ==
  /\ call \in {"analyze", "validate"}
  /\ items \in Selections
  /\ call = "validate" => FromSolution(items)
  /\ check_pos = 1
  /\ selected = {}
  /\ report = NewReport
  /\ is_feasible \in BOOLEAN
  /\ check_phase = "items"

ValidatorNext ==
  \/ Invalid \/ Duplicate \/ Accept \/ EndOfItems
  \/ CheckCapacity \/ CheckConflicts \/ Deliver

ValidatorSpec ==
  ValidatorInit /\ [][ValidatorNext]_validatorVars /\ WF_validatorVars(ValidatorNext)

-----------------------------------------------------------------------------
(* Properties.                                                             *)

ValidatorTypeOK ==
  /\ call \in {"analyze", "validate"}
  /\ items \in Seq(Int)
  /\ check_pos \in 1 .. Len(items) + 1
  /\ selected \in SUBSET Items
  /\ report \in [feasible : BOOLEAN, total_profit : Int, total_weight : Int,
                 invalid_index_count : Nat, duplicate_item_count : Nat,
                 conflict_pair_count : Nat, capacity_violated : BOOLEAN, failures : Nat]
  /\ is_feasible \in BOOLEAN
  /\ check_phase \in {"items", "capacity", "conflicts", "verdict", "done"}

\* The verdict is the definition of the problem: the list names items only,
\* none twice, and they fit and are free of conflicts.  The list of failures
\* "is empty when the solution is feasible" (validator.h), and only then.
VerdictIsFeasibility ==
  check_phase = "done" =>
    /\ report.feasible <=> /\ \A p \in DOMAIN items : items[p] \in Items
                           /\ \A p, q \in DOMAIN items : p # q => items[p] # items[q]
                           /\ Feasible(Range(items))
    /\ report.feasible <=> report.failures = 0

\* "It never silently ignores invalid indices" (validator.h): each id of the
\* list is accounted for once, the totals are those of the items kept, and a
\* pair in conflict is one failure although both its ends list it.
AccountsForEveryItem ==
  /\ check_pos - 1 = report.invalid_index_count + report.duplicate_item_count
                 + Cardinality(selected)
  /\ report.total_profit = TotalProfit(selected)
  /\ report.total_weight = TotalWeight(selected)
  /\ check_phase \in {"verdict", "done"} =>
       report.conflict_pair_count =
         Cardinality({e \in SUBSET selected :
                        Cardinality(e) = 2 /\ \A i \in e : Graph[i] \cap e # {}})

\* validate overwrites whatever an earlier call left in the solution, in both
\* directions; analyze leaves the solution alone.
FlagIsFresh ==
  [][ is_feasible' # is_feasible \/ check_phase' = "done"
        => IF call = "validate" THEN is_feasible' = Feasible(Range(items))
                                ELSE is_feasible' = is_feasible ]_validatorVars

=============================================================================
