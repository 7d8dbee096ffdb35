----------------------- MODULE ConflictNormalization ------------------------
(***************************************************************************)
(* DCKPInstance::normalize_conflicts: from the conflict edges as a file    *)
(* lists them to the conflict graph over items numbered from 0.  Files     *)
(* count items from 0 or from 1 without saying which; the two formats have *)
(* different defaults.  The adjacency lists, which the code keeps sorted   *)
(* and without repetitions, are sets.                                      *)
(***************************************************************************)
EXTENDS Integers, FiniteSets, Functions

\* The files: n_items, the raw edges, and the default_base of their format.
CONSTANT Files
ASSUME FilesAssumption ==
  \A f \in Files :
    /\ f.n_items \in Nat
    /\ IsFiniteSet(f.edges) /\ f.edges \subseteq Int \X Int
    /\ f.default_base \in {0, 1}

VARIABLES
  file,             \* the file being read
  pass,            \* "scan", "build", "count"; then "ok" or "error"
  base,             \* base
  conflict_graph,   \* conflict_graph_, from the empty lists of clear_data()
  n_conflicts       \* n_conflicts_

conflictVars == <<file, pass, base, conflict_graph, n_conflicts>>

ItemRange == 0 .. file.n_items - 1

-----------------------------------------------------------------------------
(* The scan for the base.                                                  *)

valid_zero_based == \A e \in file.edges : e[1] \in ItemRange /\ e[2] \in ItemRange

valid_one_based ==
  \A e \in file.edges : e[1] - 1 \in ItemRange /\ e[2] - 1 \in ItemRange

saw(item) == \E e \in file.edges : e[1] = item \/ e[2] = item

FaultZeroFirst == IF valid_zero_based THEN 0 ELSE 1

ChosenBase ==
  CASE valid_zero_based /\ ~ valid_one_based -> 0
    [] ~ valid_zero_based /\ valid_one_based -> 1
    [] saw(0) /\ ~ saw(file.n_items)         -> 0
    [] ~ saw(0) /\ saw(file.n_items)         -> 1
    [] OTHER                                 -> file.default_base

FaultScanAcceptsAll ==
  /\ pass = "scan"
  /\ base' = ChosenBase
  /\ pass' = "build"
  /\ UNCHANGED <<file, conflict_graph, n_conflicts>>

Scan ==
  /\ pass = "scan"
  /\ IF valid_zero_based \/ valid_one_based
     THEN base' = ChosenBase /\ pass' = "build"
     ELSE pass' = "error" /\ UNCHANGED base
  /\ UNCHANGED <<file, conflict_graph, n_conflicts>>

-----------------------------------------------------------------------------
(* The adjacency lists.  A loop is passed over, a repeated edge in either  *)
(* direction leaves one entry at each of its ends.                         *)

Normalized == {<<e[1] - base, e[2] - base>> : e \in file.edges}

FaultLoopsKept(edges) ==
  [i \in ItemRange |-> {j \in ItemRange : <<i, j>> \in edges \/ <<j, i>> \in edges}]

Adjacency(edges) ==
  [i \in ItemRange |-> {j \in ItemRange : i # j /\ (<<i, j>> \in edges \/ <<j, i>> \in edges)}]

\* The second range check comes before the first list is touched.
Build ==
  /\ pass = "build"
  /\ IF \A e \in Normalized : e[1] \in ItemRange /\ e[2] \in ItemRange
     THEN conflict_graph' = Adjacency(Normalized) /\ pass' = "count"
     ELSE pass' = "error" /\ UNCHANGED conflict_graph
  /\ UNCHANGED <<file, base, n_conflicts>>

\* Every entry is counted, and each conflict has two.
Count ==
  /\ pass = "count"
  /\ n_conflicts' = SumFunction([i \in ItemRange |-> Cardinality(conflict_graph[i])]) \div 2
  /\ pass' = "ok"
  /\ UNCHANGED <<file, base, conflict_graph>>

ConflictInit ==
  /\ file \in Files
  /\ pass = "scan"
  /\ base = file.default_base
  /\ conflict_graph = <<>>
  /\ n_conflicts = 0

ConflictNext == Scan \/ Build \/ Count

ConflictSpec == ConflictInit /\ [][ConflictNext]_conflictVars /\ WF_conflictVars(ConflictNext)

-----------------------------------------------------------------------------
(* Properties.                                                             *)

ConflictTypeOK ==
  /\ pass \in {"scan", "build", "count", "ok", "error"}
  /\ base \in {0, 1}
  /\ conflict_graph = <<>> \/ conflict_graph \in [ItemRange -> SUBSET ItemRange]
  /\ n_conflicts \in Nat

\* What the solver takes for granted (GraphAssumption of DCKPInstance): the
\* graph that an accepted file leaves has a list for each item, is symmetric
\* and has no loops, whatever the file repeats or loops.
GraphIsWellFormed ==
  pass \in {"count", "ok"} =>
    /\ conflict_graph \in [ItemRange -> SUBSET ItemRange]
    /\ \A i, j \in ItemRange : j \in conflict_graph[i] <=> i \in conflict_graph[j]
    /\ \A i \in ItemRange : i \notin conflict_graph[i]

\* A file is refused exactly when no numbering makes items of all its edges,
\* and then before the graph is touched: the check after the choice of the
\* base never fails.
RefusesWhatNoBaseFits ==
  /\ pass = "error" => /\ ~ valid_zero_based /\ ~ valid_one_based
                        /\ conflict_graph = <<>>
  /\ pass \in {"build", "count", "ok"} =>
       \A e \in Normalized : e[1] \in ItemRange /\ e[2] \in ItemRange

\* An edge list that someone wrote with either numbering gives the graph it
\* was written for if it has the numbering its format expects, or has an edge
\* at the first item (counted from 0) or at the last (counted from 1); and
\* n_conflicts is then the number of distinct pairs, in whichever directions
\* and however often the file lists them.
RecoversNumbering ==
  \A written \in {0, 1} :
    LET meant == {<<e[1] - written, e[2] - written>> : e \in file.edges}
    IN  /\ pass \in {"count", "ok"}
        /\ \A e \in meant : e[1] \in ItemRange /\ e[2] \in ItemRange
        /\ \/ written = file.default_base
           \/ written = 0 /\ \E e \in meant : 0 \in {e[1], e[2]}
           \/ written = 1 /\ \E e \in meant : file.n_items - 1 \in {e[1], e[2]}
        => /\ \A i, j \in ItemRange :
                j \in conflict_graph[i] <=> i # j /\ (<<i, j>> \in meant \/ <<j, i>> \in meant)
           /\ pass = "ok" =>
                n_conflicts = Cardinality({{e[1], e[2]} : e \in {d \in meant : d[1] # d[2]}})

=============================================================================
