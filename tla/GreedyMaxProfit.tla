-------------------------- MODULE GreedyMaxProfit ---------------------------
(***************************************************************************)
(* The constructive heuristic: GreedyMaxProfit::run over the order that    *)
(* makeProfitOrder computes.  One step is one turn of the loop over the    *)
(* order.                                                                  *)
(***************************************************************************)
EXTENDS Solution, StoppingCriteria, Sequences

VARIABLES
  order,      \* the items of positive profit, as makeProfitOrder sorts them
  pos,        \* the position in the order, from 1
  solution,   \* sol
  forbidden,  \* the items flagged in the vector of the same name
  remaining,  \* remaining_capacity
  building,   \* the loop is running
  stopping    \* ctx.stopping

greedyVars == <<order, pos, solution, forbidden, remaining, building>>
vars == <<order, pos, solution, forbidden, remaining, building, stopping>>

-----------------------------------------------------------------------------
(* makeProfitOrder: greater profit first, then lighter first.  std::sort   *)
(* leaves items that agree in both in an unspecified order.                *)

ComesBefore(a, b) ==
  \/ Profit[a] > Profit[b]
  \/ Profit[a] = Profit[b] /\ Weight[a] < Weight[b]

FaultAllItems ==
  LET places == 1 .. N
  IN  {f \in [places -> Items] :
         \A p, q \in places : p < q => f[p] # f[q] /\ ~ ComesBefore(f[q], f[p])}

ProfitOrders ==
  LET profitable == {i \in Items : Profit[i] > 0}
      places     == 1 .. Cardinality(profitable)
  IN  {f \in [places -> profitable] :
         \A p, q \in places : p < q => f[p] # f[q] /\ ~ ComesBefore(f[q], f[p])}

-----------------------------------------------------------------------------
(* GreedyMaxProfit::run.                                                   *)

FaultFitsStrictly(i) == Weight[i] < remaining /\ i \notin forbidden

Accepts(i) == Weight[i] <= remaining /\ i \notin forbidden

\* One turn of the loop: not stopped, tick, then the item at hand.
Turn ==
  /\ building
  /\ pos <= Len(order)
  /\ ~ ShouldStop(stopping)
  /\ pos' = pos + 1
  /\ UNCHANGED <<order, building>>

FaultCapacityKept ==
  /\ Turn
  /\ Accepts(order[pos])
  /\ solution' = AddItem(solution, order[pos])
  /\ forbidden' = forbidden \cup Graph[order[pos]]
  /\ stopping' = RegisterImprovement(Tick(stopping))
  /\ UNCHANGED remaining

Take ==
  /\ Turn
  /\ Accepts(order[pos])
  /\ solution' = AddItem(solution, order[pos])
  /\ remaining' = remaining - Weight[order[pos]]
  /\ forbidden' = forbidden \cup Graph[order[pos]]
  /\ stopping' = RegisterImprovement(Tick(stopping))

Skip ==
  /\ Turn
  /\ ~ Accepts(order[pos])
  /\ stopping' = Tick(stopping)
  /\ UNCHANGED <<solution, remaining, forbidden>>

Finish ==
  /\ building
  /\ pos > Len(order) \/ ShouldStop(stopping)
  /\ building' = FALSE
  /\ UNCHANGED <<order, pos, solution, forbidden, remaining, stopping>>

Build == Take \/ Skip \/ Finish

\* The clock runs out between two steps.
TimeOut ==
  /\ stopping.limits.time /\ ~ stopping.expired
  /\ stopping' = Expire(stopping)
  /\ UNCHANGED greedyVars

\* What run() sets up before its loop.
Begin ==
  /\ order \in ProfitOrders
  /\ pos = 1
  /\ solution = EmptySolution
  /\ forbidden = {}
  /\ remaining = Capacity
  /\ building = TRUE

Init == Begin /\ stopping \in {Start(l) : l \in Limits}

Next == Build \/ TimeOut

\* The thread runs on until the loop ends; the clock owes it nothing.
Spec == Init /\ [][Next]_vars /\ WF_vars(Build)

-----------------------------------------------------------------------------
(* Properties.                                                             *)

TypeOK ==
  /\ order \in Seq(Items)
  /\ pos \in 1 .. Len(order) + 1
  /\ solution \in SolutionType
  /\ forbidden \in SUBSET Items
  /\ remaining \in Int
  /\ building \in BOOLEAN
  /\ stopping \in StoppingType

\* The two private books of the loop agree with the solution at every turn:
\* the capacity left, and the items that a selected one excludes.
Bookkeeping ==
  /\ solution = SolutionOf(solution.items)
  /\ remaining = Capacity - solution.weight
  /\ forbidden = UNION {Graph[i] : i \in solution.items}

\* Stopped at any turn, the partial selection is feasible.
StaysFeasible == Feasible(solution.items)

\* Not stopped by a limit, the selection is greedy in the sense of the order:
\* each profitable item that is left out conflicts with, or no longer fits
\* beside, selected items that come no later in the order.
LeavesOutForAReason ==
  ~ building /\ pos > Len(order)
    => \A p \in DOMAIN order :
         LET earlier == {order[q] : q \in 1 .. p - 1} \cap solution.items
         IN  order[p] \notin solution.items
               => ~ Feasible(earlier \cup {order[p]})

Anytime == INSTANCE AnytimeSearch
             WITH best <- solution.items, done <- ~ building

\* The construction is an anytime search from the empty selection: every item
\* it takes is a strict gain of profit, and it ends under any limits.
ImplementsAnytimeSearch == Anytime!Spec

=============================================================================
