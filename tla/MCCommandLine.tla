--------------------------- MODULE MCCommandLine ----------------------------
(***************************************************************************)
(* Lines of up to three pieces, one of them perhaps with all four          *)
(* neighbourhoods disabled, with a path before, behind or nowhere.         *)
(* Numerals stand for themselves up to the small widths given in the       *)
(* configuration, so that each type has a numeral that is too large.       *)
(***************************************************************************)
EXTENDS CommandLine, TLC

MCWords == STRING
MCDashed == Switches \cup ValueFlags \cup {"-1", "--fast"}
MCIntegerOf == "-1" :> -1 @@ "0" :> 0 @@ "1" :> 1 @@ "8" :> 8 @@ "9" :> 9
                 @@ "25" :> 25 @@ "35" :> 35 @@ "45" :> 45
MCLower == "GREEDY" :> "greedy" @@ "Greedy_MaxProfit" :> "greedy_maxprofit"
             @@ "VND" :> "vnd" @@ "ILS" :> "ils" @@ "VNS" :> "vns"

NoSwaps == <<"--vnd-swap-1-1", "0", "--vnd-swap-2-1", "0", "--vnd-swap-1-2", "0">>

Pieces ==
  {<<"--help">>, <<"-v">>, <<"--csv">>, <<"--fast">>, <<"">>, <<"other">>, <<"8">>,
   NoSwaps, <<"--vnd-add", "0">>, <<"--vnd-add", "1">>, <<"--vnd-add", "9">>,
   <<"--vnd-swap-1-1", "1">>, <<"--algo", "GREEDY">>, <<"--algo", "--csv">>,
   <<"--algo", "ILS">>, <<"--algo">>}
  \cup {<<"--time-limit", w>> : w \in {"-1", "0", "1", "25", "35", "10ms", "-h"}}
  \cup {<<"--seed", w>> : w \in {"-1", "0", "35", "45", "--verbose"}}
  \cup {<<"--ils-perturbation-strength", w>> : w \in {"0", "1", "8", "9"}}

LastPieces ==
  {NoSwaps, <<"--help">>, <<"--csv">>, <<"--vnd-add", "0">>, <<"--vnd-add", "1">>,
   <<"8">>, <<"--seed", "35">>, <<"--time-limit", "25">>}

MCLines ==
  LET bodies == {<<>>} \cup Pieces \cup {p \o q : p, q \in Pieces}
                  \cup {p \o q \o r : p, q \in Pieces, r \in LastPieces}
  IN  bodies \cup {<<"file">> \o b : b \in bodies} \cup {b \o <<"file">> : b \in bodies}

=============================================================================
