---------------------------- MODULE MCValidator -----------------------------
(***************************************************************************)
(* All lists of up to four ids, from one below to one above the items, on  *)
(* an instance where selections fill the capacity exactly, exceed it, hold *)
(* one conflict and hold two.                                              *)
(***************************************************************************)
EXTENDS Validator, SequencesExt

MCProfit == 0 :> 3 @@ 1 :> 2 @@ 2 :> -1 @@ 3 :> 4
MCWeight == 0 :> 2 @@ 1 :> 2 @@ 2 :> 0 @@ 3 :> 3
MCGraph  == 0 :> {1} @@ 1 :> {0, 2} @@ 2 :> {1} @@ 3 :> {}
MCSelections == BoundedSeq(-1 .. N, 4)

=============================================================================
