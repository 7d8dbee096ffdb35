------------------------------- MODULE MCVND --------------------------------
(***************************************************************************)
(* Six items on which every  neighbourhood has moves of its own, one item  *)
(* without profit and one with a negative one, limits of every kind.       *)
(***************************************************************************)
EXTENDS VND, TLC

MCProfit == 0 :> 6 @@ 1 :> 5 @@ 2 :> 4 @@ 3 :> 9 @@ 4 :> 0 @@ 5 :> -1
MCWeight == 0 :> 3 @@ 1 :> 2 @@ 2 :> 2 @@ 3 :> 4 @@ 4 :> 1 @@ 5 :> 1
MCGraph  == 0 :> {2, 3} @@ 1 :> {3} @@ 2 :> {0, 5} @@ 3 :> {0, 1} @@ 4 :> {} @@ 5 :> {2} 
MCConfigs == SUBSET NeighborhoodNames
MCLimits ==
  {[time |-> TRUE, iter |-> Inactive, no_improve |-> Inactive],
   [time |-> FALSE, iter |-> 3, no_improve |-> Inactive],
   [time |-> FALSE, iter |-> 7, no_improve |-> 2],
   [time |-> FALSE, iter |-> Inactive, no_improve |-> Inactive]}

=============================================================================
