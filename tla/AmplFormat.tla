----------------------------- MODULE AmplFormat -----------------------------
(***************************************************************************)
(* DCKPInstance::parse_ampl_like: parameters n and c, a block of items and *)
(* a block of edges, each ended by a semicolon.  One line per step.  A     *)
(* line may hold the header of a block, its first record and its end.  The *)
(* object learns n and c from the header of the items, and their values    *)
(* once the file has ended well.                                           *)
(***************************************************************************)
EXTENDS InputFile

VARIABLES
  content,                              \* the lines of the file
  state,                                \* state, then "parsed", "refused", "thrown"
  cursor,                               \* line_number: how many lines were read
  parsed_n_items, parsed_capacity,      \* optional: a set of at most one number
  loaded,                               \* profit and weight of each item in seen_items
  n_items, capacity, profits, weights,  \* fields of the object
  raw_conflicts,                        \* the edges read; their order is lost
  last_error                            \* the reason of a refusal, or ""

parsed == <<parsed_n_items, parsed_capacity>>
fields == <<n_items, capacity, profits, weights>>

seen_items == DOMAIN loaded

Refuse(reason) == state' = "refused" /\ last_error' = reason

Proceed(next) == state' = next /\ UNCHANGED last_error

\* The line that the loop looks at, if the file has one left.
line == content[cursor + 1]

NextLine(s) ==
  /\ state = s /\ cursor < Len(content)
  /\ cursor' = cursor + 1
  /\ UNCHANGED content

-----------------------------------------------------------------------------
(* Records.  An empty one is none; a semicolon after it ends its block.    *)

IsValueRecord(nums, n, seen) ==
  /\ IsRecord(nums, 3)
  /\ nums[1] \in 0 .. n - 1
  /\ nums[3] >= 0
  /\ nums[1] \notin seen

\* What is loaded before, with the profit and the weight of one more item.
WithRecord(before, nums) ==
  [item \in DOMAIN before \cup {nums[1]} |->
     IF item = nums[1] THEN <<nums[2], nums[3]>> ELSE before[item]]

parse_value_record(n, before) ==
  IF line.nums = <<>> \/ IsValueRecord(line.nums, n, DOMAIN before)
  THEN /\ loaded' = IF line.nums = <<>> THEN before
                    ELSE WithRecord(before, line.nums)
       /\ Proceed(IF line.semi THEN "WaitingEdges" ELSE "Values")
  ELSE Refuse("bad record of an item") /\ loaded' = before

parse_edge_record ==
  IF line.nums = <<>> \/ IsRecord(line.nums, 2)
  THEN /\ raw_conflicts' = raw_conflicts \cup
            IF line.nums = <<>> THEN {} ELSE {<<line.nums[1], line.nums[2]>>}
       /\ Proceed(IF line.semi THEN "Done" ELSE "Edges")
  ELSE Refuse("bad record of an edge") /\ UNCHANGED raw_conflicts

-----------------------------------------------------------------------------
(* Lines.                                                                  *)

\* A parameter line gives a value only if a single number follows.
Gives(l, name) == l.head = name /\ Len(l.nums) = 1 /\ l.nums[1] \in Int

\* The lines before the header of the items: of repeated parameters the last
\* one counts, and every other line is passed over.
ReadParameter ==
  /\ NextLine("Header")
  /\ line.head # "values"
  /\ parsed_n_items' = IF Gives(line, "n") THEN {line.nums[1]} ELSE parsed_n_items
  /\ parsed_capacity' = IF Gives(line, "c") THEN {line.nums[1]} ELSE parsed_capacity
  /\ UNCHANGED <<state, loaded, fields, raw_conflicts, last_error>>

HeaderIsValid ==
  /\ parsed_n_items # {} /\ parsed_n_items \subseteq 1 .. Int32Max
  /\ parsed_capacity # {} /\ parsed_capacity \subseteq Nat

ReadValuesHeader ==
  /\ NextLine("Header")
  /\ line.head = "values"
  /\ IF HeaderIsValid
     THEN \E n \in parsed_n_items, c \in parsed_capacity :
            /\ n_items' = n
            /\ capacity' = c
            /\ parse_value_record(n, <<>>)
     ELSE Refuse("bad parameters") /\ UNCHANGED <<n_items, capacity, loaded>>
  /\ UNCHANGED <<parsed, profits, weights, raw_conflicts>>

\* The vectors are made for the number of items that the file announces: the
\* allocation may throw, which leaves n and c in the object.
OutOfMemory ==
  /\ NextLine("Header")
  /\ line.head = "values"
  /\ HeaderIsValid
  /\ \E n \in parsed_n_items, c \in parsed_capacity : n_items' = n /\ capacity' = c
  /\ Proceed("thrown")
  /\ UNCHANGED <<parsed, loaded, profits, weights, raw_conflicts>>

ReadValue ==
  /\ NextLine("Values")
  /\ IF line.head = "" THEN parse_value_record(n_items, loaded)
     ELSE Refuse("bad record of an item") /\ UNCHANGED loaded
  /\ UNCHANGED <<parsed, fields, raw_conflicts>>

\* Between the blocks every line but the header of the edges is passed over.
AwaitEdges ==
  /\ NextLine("WaitingEdges")
  /\ IF line.head = "edges" THEN parse_edge_record
     ELSE UNCHANGED <<state, raw_conflicts, last_error>>
  /\ UNCHANGED <<parsed, loaded, fields>>

ReadEdge ==
  /\ NextLine("Edges")
  /\ IF line.head = "" THEN parse_edge_record
     ELSE Refuse("bad record of an edge") /\ UNCHANGED raw_conflicts
  /\ UNCHANGED <<parsed, loaded, fields>>

EndOfFile ==
  /\ state \in {"Header", "Values", "WaitingEdges", "Edges"}
  /\ cursor = Len(content)
  /\ Refuse("unexpected end of file")
  /\ UNCHANGED <<content, cursor, parsed, loaded, fields, raw_conflicts>>

ValueOf(item, k) == IF item \in seen_items THEN loaded[item][k] ELSE 0

\* Lines after the end of the edges are not looked at.
Finish ==
  /\ state = "Done"
  /\ IF Cardinality(seen_items) = n_items
     THEN /\ profits' = [i \in 0 .. n_items - 1 |-> ValueOf(i, 1)]
          /\ weights' = [i \in 0 .. n_items - 1 |-> ValueOf(i, 2)]
          /\ Proceed("parsed")
     ELSE Refuse("items are missing") /\ UNCHANGED <<profits, weights>>
  /\ UNCHANGED <<content, cursor, parsed, loaded, n_items, capacity, raw_conflicts>>

ReadLine ==
  \/ ReadParameter \/ ReadValuesHeader \/ OutOfMemory \/ ReadValue
  \/ AwaitEdges \/ ReadEdge \/ EndOfFile \/ Finish

-----------------------------------------------------------------------------
(* What the parser promises.                                               *)

\* Lines h to v are the block of the items, lines e to d that of the edges:
\* each from the first header that is looked for to the first semicolon, and
\* with nothing but records in between.
AreBlocks(h, v, e, d) ==
  /\ h <= v /\ v < e /\ e <= d
  /\ content[h].head = "values" /\ \A i \in 1 .. h - 1 : content[i].head # "values"
  /\ content[e].head = "edges" /\ \A i \in v + 1 .. e - 1 : content[i].head # "edges"
  /\ content[v].semi /\ \A i \in h .. v - 1 : ~ content[i].semi
  /\ content[d].semi /\ \A i \in e .. d - 1 : ~ content[i].semi
  /\ \A i \in (h + 1 .. v) \cup (e + 1 .. d) : content[i].head = ""

Records(first, last) ==
  {content[i].nums : i \in {k \in first .. last : content[k].nums # <<>>}}

\* x is the value of a parameter at the line h.
IsParameter(name, x, h) ==
  \E i \in 1 .. h - 1 :
    /\ Gives(content[i], name) /\ content[i].nums[1] = x
    /\ \A k \in i + 1 .. h - 1 : ~ Gives(content[k], name)

Numbers(name) ==
  UNION {ToSet(content[i].nums) : i \in {k \in DOMAIN content : content[k].head = name}}

\* The format: each item once, and nothing out of range.
WellFormed ==
  \E h, v, e, d \in DOMAIN content :
    /\ AreBlocks(h, v, e, d)
    /\ \E n \in Numbers("n"), c \in Numbers("c") :
         /\ IsParameter("n", n, h) /\ n \in 1 .. Int32Max
         /\ IsParameter("c", c, h) /\ c >= 0
         /\ {r[1] : r \in Records(h, v)} = 0 .. n - 1
         /\ Cardinality({k \in h .. v : content[k].nums # <<>>}) = n
    /\ \A r \in Records(h, v) : IsRecord(r, 3) /\ r[3] >= 0
    /\ \A r \in Records(e, d) : IsRecord(r, 2)

\* After an accepted file the object holds what it says: the last value of each parameter
\* before the items, and each record of both blocks, the ones on the lines of
\* the headers and of the semicolons included.
HoldsWhatIsWritten ==
  state = "parsed" =>
    \A h, v, e, d \in DOMAIN content : AreBlocks(h, v, e, d) =>
      /\ IsParameter("n", n_items, h) /\ IsParameter("c", capacity, h)
      /\ \A r \in Records(h, v) : profits[r[1]] = r[2] /\ weights[r[1]] = r[3]
      /\ raw_conflicts = {<<r[1], r[2]>> : r \in Records(e, d)}

=============================================================================
