------------------------------- MODULE MCVNS --------------------------------
(***************************************************************************)
(* Seven items on which, with all neighbourhoods, the first descent ends   *)
(* in a local optimum that is not the best selection.                      *)
(***************************************************************************)
EXTENDS VNS, TLC

MCProfit == 0 :> 3 @@ 1 :> 3 @@ 2 :> 6 @@ 3 :> 4 @@ 4 :> 2 @@ 5 :> 5 @@ 6 :> 4
MCWeight == 0 :> 1 @@ 1 :> 1 @@ 2 :> 4 @@ 3 :> 3 @@ 4 :> 4 @@ 5 :> 4 @@ 6 :> 1
MCGraph  == 0 :> {1, 2, 6} @@ 1 :> {0, 4, 5} @@ 2 :> {0, 4} @@ 3 :> {6}
            @@ 4 :> {1, 2} @@ 5 :> {1, 6} @@ 6 :> {0, 3, 5}
MCConfigs == {{}, {"add"}, {"add", "swap_1_1", "swap_2_1", "swap_1_2"}}
MCKMaxes == {-1, 2, 4}
MCLimits ==
  {[time |-> TRUE, iter |-> 24, no_improve |-> Inactive],
   [time |-> FALSE, iter |-> 40, no_improve |-> Inactive],
   [time |-> FALSE, iter |-> 40, no_improve |-> 12]}

=============================================================================
