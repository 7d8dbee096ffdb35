--------------------------- MODULE InstanceReader ---------------------------
(***************************************************************************)
(* DCKPInstance::read_from_file on one object that is read again and       *)
(* again: the fields are cleared, the file is opened, its format detected, *)
(* one of the two parsers runs, and then the conflicts are normalized.     *)
(* The parsers and the normalization are the actions of their modules; all *)
(* of them write the fields of this object.                                *)
(***************************************************************************)
EXTENDS InputFile

CONSTANTS
  Contents,   \* the files that a new object reads
  Rereads,    \* the files among them that it reads later
  Reads       \* bound: how often the object is read
ASSUME ReaderAssumption ==
  /\ \A c \in Contents \cup Rereads : c \in Seq(Line)
  /\ Reads \in Nat

VARIABLES
  content, state, cursor,                     \* of the parser that runs
  parsed_n_items, parsed_capacity, loaded,    \* of the AMPL parser
  raw_conflicts,
  pass, base,                                \* of the normalization
  n_items, capacity, profits, weights,        \* the fields
  conflict_graph, n_conflicts, last_error,
  answer,   \* of read_from_file: "never" called, "pending", "true", "false", "thrown"
  reads     \* number of calls so far

parsed == <<parsed_n_items, parsed_capacity, loaded>>
graph == <<conflict_graph, n_conflicts>>
fields == <<n_items, capacity, profits, weights, conflict_graph, n_conflicts>>
vars == <<content, state, cursor, parsed, raw_conflicts, pass, base, fields,
          last_error, answer, reads>>

default_base == IF detect_format(content) = "ampl" THEN 0 ELSE 1

Compact == INSTANCE CompactFormat
Ampl == INSTANCE AmplFormat

\* Only its steps are taken, from the edges that a parser has read.
Normalization == INSTANCE ConflictNormalization
  WITH Files <- {},
       file <- [n_items |-> n_items, edges |-> raw_conflicts, default_base |-> default_base]

\* The object as the solver sees it.
Loaded == INSTANCE DCKPInstance
  WITH N <- n_items, Profit <- profits, Weight <- weights, Capacity <- capacity,
       Graph <- conflict_graph

-----------------------------------------------------------------------------
(* read_from_file.                                                         *)

clear_data ==
  /\ n_items' = 0 /\ capacity' = 0 /\ n_conflicts' = 0
  /\ profits' = <<>> /\ weights' = <<>> /\ conflict_graph' = <<>>

FaultEarlyReturnKeepsFields ==
  /\ answer # "pending" /\ reads < Reads
  /\ reads' = reads + 1
  /\ content' = <<>>
  /\ last_error' = "no content"
  /\ answer' = "false"
  /\ UNCHANGED <<state, cursor, parsed, raw_conflicts, pass, base, fields>>

\* The file is missing or cannot be read, or it is empty.
CannotRead ==
  /\ answer # "pending" /\ reads < Reads
  /\ reads' = reads + 1
  /\ clear_data
  /\ content' = <<>>
  /\ last_error' = "no content"
  /\ answer' = "false"
  /\ UNCHANGED <<state, cursor, parsed, raw_conflicts, pass, base>>

Open(c) ==
  /\ answer # "pending" /\ reads < Reads
  /\ c # <<>>
  /\ reads' = reads + 1
  /\ clear_data
  /\ last_error' = ""
  /\ content' = c
  /\ state' = IF detect_format(c) = "ampl" THEN "Header" ELSE "tokens"
  /\ cursor' = 0
  /\ parsed_n_items' = {} /\ parsed_capacity' = {} /\ loaded' = <<>>
  /\ raw_conflicts' = {}
  /\ pass' = "idle" /\ base' = 0
  /\ answer' = "pending"

parse_numeric_compact ==
  /\ answer = "pending"
  /\ Compact!ReadSection
  /\ UNCHANGED <<parsed, pass, base, graph, answer, reads>>

parse_ampl_like ==
  /\ answer = "pending"
  /\ Ampl!ReadLine
  /\ UNCHANGED <<pass, base, graph, answer, reads>>

BeginNormalization ==
  /\ answer = "pending" /\ state = "parsed" /\ pass = "idle"
  /\ pass' = "scan"
  /\ base' = default_base
  /\ UNCHANGED <<content, state, cursor, parsed, raw_conflicts, fields, last_error,
                 answer, reads>>

normalize_conflicts ==
  /\ UNCHANGED <<content, state, cursor, parsed, raw_conflicts, n_items, capacity,
                 profits, weights, last_error, answer, reads>>
  /\ answer = "pending"
  /\ Normalization!ConflictNext

ReturnFalse ==
  /\ answer = "pending"
  /\ state = "refused" \/ pass = "error"
  /\ clear_data
  /\ last_error' = IF pass = "error" THEN "conflict out of range" ELSE last_error
  /\ answer' = "false"
  /\ UNCHANGED <<content, state, cursor, parsed, raw_conflicts, pass, base, reads>>

ReturnTrue ==
  /\ answer = "pending" /\ pass = "ok"
  /\ answer' = "true"
  /\ UNCHANGED <<content, state, cursor, parsed, raw_conflicts, pass, base, fields,
                 last_error, reads>>

\* Nobody catches the exception: the fields stay as they are.
Throw ==
  /\ answer = "pending" /\ state = "thrown"
  /\ answer' = "thrown"
  /\ UNCHANGED <<content, state, cursor, parsed, raw_conflicts, pass, base, fields,
                 last_error, reads>>

Init ==
  /\ content = <<>> /\ state = "parsed" /\ cursor = 0
  /\ parsed_n_items = {} /\ parsed_capacity = {} /\ loaded = <<>>
  /\ raw_conflicts = {} /\ pass = "idle" /\ base = 0
  /\ n_items = 0 /\ capacity = 0 /\ profits = <<>> /\ weights = <<>>
  /\ conflict_graph = <<>> /\ n_conflicts = 0 /\ last_error = ""
  /\ answer = "never"
  /\ reads = 0

Step ==
  \/ parse_numeric_compact \/ parse_ampl_like
  \/ BeginNormalization \/ normalize_conflicts
  \/ ReturnFalse \/ ReturnTrue \/ Throw

Files == IF reads = 0 THEN Contents ELSE Rereads

Next == CannotRead \/ (\E c \in Files : Open(c)) \/ Step

Spec == Init /\ [][Next]_vars

-----------------------------------------------------------------------------
(* Properties.                                                             *)

\* A read that reports failure leaves an empty object and a reason, at
\* whatever point of the file it failed and whatever was read before.  One
\* that reports success leaves what the solver takes for granted of an
\* instance, and no reason.
ObjectIsEmptyOrAnInstance ==
  /\ answer = "false" =>
       /\ n_items = 0 /\ capacity = 0 /\ n_conflicts = 0
       /\ profits = <<>> /\ weights = <<>> /\ conflict_graph = <<>>
       /\ last_error # ""
  /\ answer = "true" =>
       /\ last_error = ""
       /\ n_items > 0 /\ capacity >= 0
       /\ profits \in [Loaded!Items -> int32]
       /\ weights \in [Loaded!Items -> 0 .. Int32Max]
       /\ conflict_graph \in [Loaded!Items -> SUBSET Loaded!Items]
       /\ \A i, j \in Loaded!Items : i \in conflict_graph[j] <=> j \in conflict_graph[i]
       /\ \A i \in Loaded!Items : i \notin conflict_graph[i]

\* A file is accepted only if it is in the format that was detected, although
\* the parsers decide section by section, or line by line, on what they have
\* read so far.  It is refused only if it is in neither format, its conflicts
\* fit no base, or its AMPL lines all come after those the detection looks at.
AcceptsTheFormats ==
  /\ answer = "true" =>
       IF detect_format(content) = "ampl" THEN Ampl!WellFormed ELSE Compact!WellFormed
  /\ answer = "false" /\ content # <<>> /\ pass # "error" =>
       /\ ~ Compact!WellFormed
       /\ Ampl!WellFormed =>
            \A k \in DOMAIN content : IsAmplLine(content[k]) =>
              Cardinality({i \in 1 .. k : ~ IsBlank(content[i])}) > Inspected

\* The object after a successful read is that of the file read last, with no
\* trace of earlier ones: the fields as the file states them, and a conflict
\* for every pair that it lists, counted from one of the two bases.
LoadedObjectIsTheFile ==
  answer = "true" =>
    /\ IF detect_format(content) = "ampl" THEN Ampl!HoldsWhatIsWritten
       ELSE Compact!LayoutIsRecovered
    /\ \E b \in {0, 1} : \A i, j \in Loaded!Items :
         Loaded!HasConflict(i, j) <=>
           i # j /\ {<<i + b, j + b>>, <<j + b, i + b>>} \cap raw_conflicts # {}
    /\ 2 * n_conflicts = Cardinality({p \in Loaded!Items \X Loaded!Items :
                                        Loaded!HasConflict(p[1], p[2])})

=============================================================================
