---------------------- MODULE MCConflictNormalization -----------------------
(***************************************************************************)
(* All lists of at most two edges between numbers around the range of up   *)
(* to three items, with loops, with edges given in both directions, and    *)
(* with ends below and above every item.                                   *)
(***************************************************************************)
EXTENDS ConflictNormalization

Pairs(n) == (-1 .. n + 1) \X (-1 .. n + 1)

MCFiles ==
  UNION {[n_items : {n},
          edges : {{}} \cup {{d, e} : d, e \in Pairs(n)},
          default_base : {0, 1}] : n \in 0 .. 3}

=============================================================================
