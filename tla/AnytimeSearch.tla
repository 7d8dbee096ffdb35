---------------------------- MODULE AnytimeSearch ----------------------------
(***************************************************************************)
(* What every algorithm of the solver promises, whatever its strategy: it  *)
(* holds a feasible selection, replaces it only by a feasible selection    *)
(* with a strictly greater profit, and returns; what it returns does not   *)
(* change any more.  It may be stopped after any step, which is what makes *)
(* the wall-clock limit safe.                                              *)
(***************************************************************************)
EXTENDS DCKPInstance

VARIABLES
  best,   \* the selection that would be returned if the search stopped now
  done    \* the search has returned it

Init ==
  /\ best \in {S \in SUBSET Items : Feasible(S)}
  /\ done = FALSE

Improve ==
  /\ ~done
  /\ \E S \in SUBSET Items :
       /\ Feasible(S)
       /\ TotalProfit(S) > TotalProfit(best)
       /\ best' = S
  /\ UNCHANGED done

Return ==
  /\ ~done
  /\ done' = TRUE
  /\ UNCHANGED best

Next == Improve \/ Return

vars == <<best, done>>

\* Safety alone, and with the promise that the search ends.
Safe == Init /\ [][Next]_vars
Spec == Safe /\ <>done

=============================================================================
