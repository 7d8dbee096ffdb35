------------------------- MODULE MCGreedyMaxProfit --------------------------
(***************************************************************************)
(* Seven items: two pairs agree in profit and weight and one pair in profit*)
(* only; some that would fit are excluded by a conflict, one that is free  *)
(* does not fit, one fits exactly, and one has neither profit nor weight.  *)
(***************************************************************************)
EXTENDS GreedyMaxProfit, TLC

MCProfit == 0 :> 6 @@ 1 :> 5 @@ 2 :> 5 @@ 3 :> 6 @@ 4 :> 0 @@ 5 :> 2 @@ 6 :> 2
MCWeight == 0 :> 3 @@ 1 :> 2 @@ 2 :> 2 @@ 3 :> 4 @@ 4 :> 0 @@ 5 :> 1 @@ 6 :> 1
MCGraph  == 0 :> {2} @@ 1 :> {5} @@ 2 :> {0} @@ 3 :> {6} @@ 4 :> {} @@ 5 :> {1} @@ 6 :> {3}
MCLimits ==
  [time : BOOLEAN, iter : {Inactive, 0, 1, 4, 6}, no_improve : {Inactive, 0, 1, 2, 3}]

=============================================================================
