------------------------------- MODULE MCILS --------------------------------
(***************************************************************************)
(* Seven items, two of which share profit and weight.  With all            *)
(* neighbourhoods some kicks lead back to the first local optimum, some to *)
(* a worse one and some to another of the same profit.  The descent by     *)
(* swap_1_2 alone ends lower: some kicks gain at once and open another     *)
(* swap, and the low no-improvement limits may cut the descent before it.  *)
(***************************************************************************)
EXTENDS ILS, TLC

MCProfit == 0 :> 9 @@ 1 :> 2 @@ 2 :> 6 @@ 3 :> 8 @@ 4 :> 9 @@ 5 :> 9 @@ 6 :> 6
MCWeight == 0 :> 3 @@ 1 :> 2 @@ 2 :> 3 @@ 3 :> 2 @@ 4 :> 4 @@ 5 :> 4 @@ 6 :> 1
MCGraph  == 0 :> {1, 2, 3, 5, 6} @@ 1 :> {0, 3, 6} @@ 2 :> {0} @@ 3 :> {0, 1, 4, 5}
            @@ 4 :> {3, 5} @@ 5 :> {0, 3, 4, 6} @@ 6 :> {0, 1, 5}
MCConfigs ==
  {{}, {"add"}, {"swap_1_2"}, {"add", "swap_1_1", "swap_2_1", "swap_1_2"}}
MCStrengths == {-1, 1, 2, 8}
MCLimits ==
  {[time |-> TRUE, iter |-> 24, no_improve |-> Inactive],
   [time |-> FALSE, iter |-> 40, no_improve |-> Inactive]}
  \cup {[time |-> FALSE, iter |-> 40, no_improve |-> n] : n \in {6, 7, 8, 12}}

=============================================================================
