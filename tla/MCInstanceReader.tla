--------------------------- MODULE MCInstanceReader -------------------------
(***************************************************************************)
(* An object reads one of many files and then some of fifteen others.      *)
(* Int32 is made small so that numbers leave its range while they still    *)
(* fit in 64 bits.                                                         *)
(***************************************************************************)
EXTENDS InstanceReader

MCInt32Min == -3
MCInt32Max == 3

L(head, nums, semi) == [head |-> head, nums |-> nums, semi |-> semi, note |-> FALSE]
Comment == [head |-> "", nums |-> <<>>, semi |-> FALSE, note |-> TRUE]

-----------------------------------------------------------------------------
(* Compact files written for one or two items with up to two conflicts,    *)
(* the header in both orders, then damaged: cut after any token, with one  *)
(* token replaced or added.                                                *)

Written ==
  UNION {{<<n>> \o header \o values \o edges :
            header \in {<<c, m>> : c \in {-1, 0, 1, 2, 5}} \cup {<<m, c>> : c \in {-1, 0, 1, 2, 5}},
            values \in IF n = 1 THEN {<<p, u>> : p \in {-4, -3, 2, 4}, u \in {-1, 0, 3, 4}}
                       ELSE {<<2, p, u, 1>> : p \in {-4, 3}, u \in {-1, 2}},
            edges \in IF m = 0 THEN {<<>>}
                      ELSE IF m = 1 THEN {<<1, 2>>, <<4, 1>>, <<1, -4>>}
                      ELSE {<<1, 2, 0, 1>>, <<2, 2, 1, 4>>}} :
           n \in 1 .. 2, m \in 0 .. 2}

Damaged(t) ==
  {t} \cup {SubSeq(t, 1, k) : k \in 0 .. Len(t)}
      \cup {ReplaceAt(t, k, x) : k \in 1 .. Len(t), x \in {Word, -1, 0, 1, 2, 4}}
      \cup {Append(t, x) : x \in {1, 2}} \cup {t \o <<1, 2>>}

OnOneLine(t) ==
  <<[head |-> "", nums |-> t, semi |-> FALSE, note |-> FALSE]>>

\* The same numbers on two lines, with a comment or a semicolon.
OnTwoLines(t) ==
  {<<[head |-> "", nums |-> SubSeq(t, 1, 3), semi |-> s, note |-> FALSE],
     [head |-> "", nums |-> SubSeq(t, 4, Len(t)), semi |-> FALSE, note |-> c]>> :
     s, c \in BOOLEAN}

-----------------------------------------------------------------------------
(* One well-formed AMPL file for two items, whose blocks have records on   *)
(* the lines of their headers and of their semicolons, and all files that  *)
(* two changes make of it: a line lost, repeated, put in, exchanged for    *)
(* another one or for its neighbour, and the file cut off.                 *)

WrittenFile ==
  <<L("n", <<2>>, TRUE), L("c", <<5>>, TRUE),
    L("values", <<0, 3, 1>>, FALSE), L("", <<1, -3, 2>>, TRUE),
    L("edges", <<0, 1>>, FALSE), L("", <<1, 1>>, TRUE)>>

OtherLines ==
  {L("n", <<1>>, FALSE), L("n", <<4>>, TRUE), L("n", <<1, 2>>, FALSE),
   L("c", <<Word>>, TRUE), L("c", <<-1>>, TRUE), L("values", <<>>, FALSE),
   L("edges", <<>>, FALSE), L("edges", <<1, 0>>, TRUE), L("odd", <<1>>, TRUE),
   L("", <<>>, FALSE), L("", <<>>, TRUE), L("", <<2, 1, 1>>, FALSE),
   L("", <<1, 2, -1>>, FALSE), L("", <<0, 4>>, FALSE)}

Changed(c) ==
  {SubSeq(c, 1, k) : k \in 0 .. Len(c)}
    \cup {RemoveAt(c, k) : k \in DOMAIN c}
    \cup {InsertAt(c, k, c[k]) : k \in DOMAIN c}
    \cup {[c EXCEPT ![k] = c[k + 1], ![k + 1] = c[k]] : k \in 1 .. Len(c) - 1}
    \cup {InsertAt(c, k, l) : k \in 1 .. Len(c) + 1, l \in OtherLines}
    \cup {ReplaceAt(c, k, l) : k \in DOMAIN c, l \in OtherLines}

-----------------------------------------------------------------------------
(* Good files of both formats and of different sizes, files that fail at   *)
(* each stage of either parser or in the normalization, and an AMPL file   *)
(* whose lines are too far down for the detection.                         *)

N2 == <<L("n", <<2>>, TRUE), L("c", <<5>>, TRUE)>>
Values2 == <<L("values", <<1, 3, 1>>, FALSE), L("", <<0, -3, 2>>, TRUE)>>

MCRereads ==
  {<<L("", <<1, 2, 0>>, FALSE), L("", <<3, 1>>, FALSE)>>,
   <<L("", <<2, 1, 4>>, FALSE), L("", <<3, 2, 1, 0>>, FALSE), L("", <<1, 2>>, FALSE)>>,
   <<L("", <<2, 4, 1, 3, 2, 1, 0, 0, 1>>, FALSE)>>,
   <<L("", <<2, 1, 4, 3, 2, 1, -1, 1, 2>>, FALSE)>>,
   <<L("", <<2, 1, 4, 3, 2, 1, 1, 0, 2>>, FALSE)>>,
   <<L("", <<2, 2, 4, 3, 2, 1, 1, 1, 2>>, FALSE)>>,
   N2 \o Values2 \o <<L("edges", <<1, 0>>, FALSE), L("", <<1, 1>>, TRUE)>>,
   <<Comment>> \o N2 \o Values2 \o <<L("edges", <<1, 2>>, TRUE)>>,
   <<L("n", <<1>>, FALSE), L("c", <<0>>, FALSE), L("values", <<0, 2, 0>>, TRUE),
     L("edges", <<>>, TRUE)>>,
   N2 \o Values2 \o <<L("edges", <<0, 2>>, TRUE)>>,
   N2 \o Values2,
   N2 \o <<L("values", <<0, 1, 1>>, FALSE), L("", <<0, 1, 1>>, TRUE)>>,
   N2 \o <<L("values", <<0, 1, 1>>, TRUE), L("edges", <<>>, TRUE)>>,
   <<L("", <<Word>>, FALSE)>> \o N2 \o Values2 \o <<L("edges", <<0, 1>>, TRUE)>>,
   <<L("", <<Word>>, FALSE), L("", <<Word>>, FALSE)>>
     \o N2 \o Values2 \o <<L("edges", <<0, 1>>, TRUE)>>}

MCContents ==
  MCRereads
    \cup {OnOneLine(t) : t \in UNION {Damaged(u) : u \in Written}}
    \cup UNION {OnTwoLines(t) : t \in {u \in Written : u[1] = 2}}
    \cup UNION {Changed(c) : c \in Changed(WrittenFile)}

=============================================================================
