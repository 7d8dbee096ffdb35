---------------------------- MODULE CompactFormat ---------------------------
(***************************************************************************)
(* DCKPInstance::parse_numeric_compact: a file of nothing but numbers.     *)
(* The number of items, the capacity and the number of conflicts, the last *)
(* two in either order, then all profits, all weights and the ends of all  *)
(* conflicts.  The order of the header is inferred from the number of      *)
(* tokens.  The fields of the object are written as they are read, before  *)
(* later tokens can refuse the file.  InstanceReader calls the parser.     *)
(***************************************************************************)
EXTENDS InputFile

VARIABLES
  content,                              \* the lines of the file
  state,                                \* the section that is read next
  cursor,                               \* index of the next item
  n_items, capacity, profits, weights,  \* fields of the object
  raw_conflicts,                        \* the edges read; their order is lost
  last_error                            \* the reason of a refusal, or ""

fields == <<n_items, capacity, profits, weights>>

tokens == Tokens(content)

Refuse(reason) == state' = "refused" /\ last_error' = reason

Proceed(next) == state' = next /\ UNCHANGED last_error

-----------------------------------------------------------------------------
(* The sections.                                                           *)

ReadTokens ==
  /\ state = "tokens"
  /\ IF Word \in ToSet(tokens)
     THEN Refuse("token is not numeric")
     ELSE Proceed("header")
  /\ UNCHANGED <<content, cursor, fields, raw_conflicts>>

ReadHeader ==
  /\ state = "header"
  /\ IF Len(tokens) < 3 \/ tokens[1] \notin 1 .. Int32Max
     THEN Refuse("bad header") /\ UNCHANGED n_items
     ELSE /\ n_items' = tokens[1]
          /\ IF Len(tokens) < 3 + 2 * tokens[1]
             THEN Refuse("missing profits or weights")
             ELSE Proceed("layout")
  /\ UNCHANGED <<content, cursor, capacity, profits, weights, raw_conflicts>>

weights_start == 3 + n_items

conflicts_start == 3 + 2 * n_items

remaining_tokens == Len(tokens) - conflicts_start

FaultIncompleteFits(m) == m >= 0 /\ remaining_tokens <= 2 * m

layout_matches(m) == m >= 0 /\ remaining_tokens = 2 * m

FaultThirdIsCapacity ==
  IF layout_matches(tokens[3]) THEN tokens[3] ELSE tokens[2]

\* The number of the header that is left when the other counts the conflicts.
parsed_capacity == IF layout_matches(tokens[2]) THEN tokens[3] ELSE tokens[2]

InferLayout ==
  /\ state = "layout"
  /\ IF ~ (layout_matches(tokens[2]) \/ layout_matches(tokens[3]))
     THEN Refuse("inconsistent header") /\ UNCHANGED fields
     ELSE IF parsed_capacity < 0
     THEN Refuse("negative capacity") /\ UNCHANGED fields
     ELSE /\ capacity' = parsed_capacity
          /\ profits' = [i \in 0 .. n_items - 1 |-> 0]
          /\ weights' = [i \in 0 .. n_items - 1 |-> 0]
          /\ Proceed("items")
          /\ UNCHANGED n_items
  /\ UNCHANGED <<content, cursor, raw_conflicts>>

\* Tokens count from 1 here and from 0 in the code.
ReadItem ==
  /\ state = "items" /\ cursor < n_items
  /\ LET profit == tokens[4 + cursor]
         weight == tokens[weights_start + 1 + cursor]
     IN  IF profit \in int32 /\ weight \in 0 .. Int32Max
         THEN /\ profits' = [profits EXCEPT ![cursor] = profit]
              /\ weights' = [weights EXCEPT ![cursor] = weight]
              /\ cursor' = cursor + 1
              /\ Proceed("items")
         ELSE Refuse("profit or weight out of range") /\ UNCHANGED <<profits, weights, cursor>>
  /\ UNCHANGED <<content, n_items, capacity, raw_conflicts>>

Edges ==
  {<<tokens[conflicts_start + 2 * e - 1], tokens[conflicts_start + 2 * e]>> :
     e \in 1 .. remaining_tokens \div 2}

ReadEdges ==
  /\ state = "items" /\ cursor = n_items
  /\ IF \A e \in Edges : e[1] \in int32 /\ e[2] \in int32
     THEN raw_conflicts' = Edges /\ Proceed("parsed")
     ELSE Refuse("edge out of range") /\ UNCHANGED raw_conflicts
  /\ UNCHANGED <<content, cursor, fields>>

ReadSection == ReadTokens \/ ReadHeader \/ InferLayout \/ ReadItem \/ ReadEdges

-----------------------------------------------------------------------------
(* What the parser promises.                                               *)

\* The file is complete if the o-th number is the number of its conflicts.
CompleteIf(o) == tokens[o] >= 0 /\ Len(tokens) = 3 + 2 * tokens[1] + 2 * tokens[o]

\* The format: the header in one of its two orders, and every number in range.
WellFormed ==
  /\ Word \notin ToSet(tokens)
  /\ Len(tokens) >= 3
  /\ tokens[1] \in 1 .. Int32Max
  /\ \E o \in {2, 3} : CompleteIf(o) /\ tokens[5 - o] >= 0
  /\ \A i \in 4 .. Len(tokens) : tokens[i] \in int32
  /\ \A i \in 1 .. tokens[1] : tokens[3 + tokens[1] + i] >= 0

\* Whichever order the author of an accepted file had in mind, the object
\* holds the file as it was meant: where both orders are complete they agree.
LayoutIsRecovered ==
  state = "parsed" =>
    \A o \in {2, 3} : CompleteIf(o) =>
      /\ capacity = tokens[5 - o]
      /\ n_items = tokens[1]
      /\ \A i \in 0 .. n_items - 1 :
           profits[i] = tokens[4 + i] /\ weights[i] = tokens[4 + n_items + i]
      /\ raw_conflicts = {<<tokens[4 + 2 * (n_items + e)], tokens[5 + 2 * (n_items + e)]>> :
                            e \in 0 .. tokens[o] - 1}

=============================================================================
