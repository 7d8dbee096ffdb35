----------------------------- MODULE MCProgram ------------------------------
(***************************************************************************)
(* Seven items on which the construction, the descent with all             *)
(* neighbourhoods and the two searches end in selections of greater and    *)
(* greater profit, under main's only kind of limit and those of tests.     *)
(***************************************************************************)
EXTENDS Program, TLC

MCProfit == 0 :> 3 @@ 1 :> 3 @@ 2 :> 6 @@ 3 :> 4 @@ 4 :> 2 @@ 5 :> 5 @@ 6 :> 4
MCWeight == 0 :> 1 @@ 1 :> 1 @@ 2 :> 4 @@ 3 :> 3 @@ 4 :> 4 @@ 5 :> 4 @@ 6 :> 1
MCGraph  == 0 :> {1, 2, 6} @@ 1 :> {0, 4, 5} @@ 2 :> {0, 4} @@ 3 :> {6}
            @@ 4 :> {1, 2} @@ 5 :> {1, 6} @@ 6 :> {0, 3, 5}

Time == [time_limit |-> 1, iteration_limit |-> 0, no_improvement_limit |-> 0]
MCRunnerConfigs ==
  {Time,
   [Time EXCEPT !.time_limit = 0],
   [Time EXCEPT !.time_limit = 0, !.iteration_limit = 5],
   [Time EXCEPT !.time_limit = 0, !.iteration_limit = 9],
   [Time EXCEPT !.time_limit = -1, !.iteration_limit = 22],
   [Time EXCEPT !.time_limit = 0, !.iteration_limit = 22, !.no_improvement_limit = 9]}
MCLimits == {Activate(c) : c \in MCRunnerConfigs}
MCConfigs == {{"add", "swap_1_1", "swap_2_1", "swap_1_2"}, {"add"}, {"swap_1_2"}}
MCStrengths == {1, 2, 8}

=============================================================================
