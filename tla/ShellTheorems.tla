---------------------------- MODULE ShellTheorems ---------------------------
(***************************************************************************)
(* Theorems about what stands around the solver.  The experiment scripts,  *)
(* for every list of files, every number of runs and every answer of the   *)
(* program: the place of a row in the file tells the call that wrote it,   *)
(* however the script ended, and the statistics below the rows are those   *)
(* of the rows.  The command line, for every line: what runs is what the   *)
(* line says as a whole, every other line ends with the exit code of its   *)
(* mistake, and the short forms of the wrapper go by position.             *)
(***************************************************************************)
EXTENDS Battery, PairedTest, CommandLine, FiniteSetTheorems, SequenceTheorems,
        WellFoundedInduction, TLAPS

-----------------------------------------------------------------------------
(* Counting by rounds of n.                                                *)

Before(i, n) == (i - 1) * n

\* The rounds follow one another.
LEMMA RoundsAccumulate ==
  ASSUME NEW n \in Nat \ {0}
  PROVE  /\ \A i \in Nat \ {0} : Before(i, n) \in Nat
         /\ \A i \in Nat \ {0} : Before(i + 1, n) = Before(i, n) + n
         /\ \A i, j \in Nat \ {0} : i < j => Before(i, n) + n <= Before(j, n)
<1>1. \A i \in Nat \ {0} : Before(i, n) \in Nat
  BY DEF Before
<1>2. \A i \in Nat \ {0} : Before(i + 1, n) = Before(i, n) + n
  BY DEF Before
<1>3. ASSUME NEW i \in Nat \ {0}, NEW j \in Nat \ {0}, i < j
      PROVE  Before(i, n) + n <= Before(j, n)
  <2>1. PICK d \in Nat : j = i + 1 + d
    <3>1. j - i - 1 \in Nat /\ j = i + 1 + (j - i - 1)
      BY <1>3
    <3> QED BY <3>1
  <2>2. Before(j, n) = Before(i, n) + n + d * n
    BY <2>1 DEF Before
  <2>3. d * n \in Nat
    OBVIOUS
  <2> QED BY <1>1, <2>2, <2>3
<1> QED BY <1>1, <1>2, <1>3

\* Quotient and remainder tell the round and the place in it.
LEMMA RoundOfPlace ==
  ASSUME NEW n \in Nat \ {0}, NEW i \in Nat \ {0}, NEW r \in 1 .. n
  PROVE  /\ (Before(i, n) + r - 1) \div n = i - 1
         /\ (Before(i, n) + r - 1) % n = r - 1
<1> DEFINE x == Before(i, n) + r - 1
           q == x \div n
           m == x % n
<1>1. x \in Nat /\ x = (i - 1) * n + (r - 1)
  BY RoundsAccumulate DEF Before
<1>2. q \in Int /\ m \in 0 .. n - 1 /\ x = n * q + m
  BY <1>1
<1> HIDE DEF x, q, m
<1>3. n * (q - (i - 1)) = (r - 1) - m
  BY <1>1, <1>2
<1>4. PICK d \in Int : d = q - (i - 1)
  BY <1>2
<1>5. n * d = (r - 1) - m /\ -n < n * d /\ n * d < n
  BY <1>2, <1>3, <1>4
<1>6. d >= 1 => n * d >= n
  BY <1>4
<1>7. d <= -1 => n * d <= -n
  BY <1>4
<1>8. d = 0
  <2>1. n * d \in Int
    OBVIOUS
  <2> QED BY <1>5, <1>6, <1>7, <2>1
<1>9. q = i - 1 /\ m = r - 1
  BY <1>2, <1>4, <1>5, <1>8
<1> QED BY <1>9 DEF x, q, m

-----------------------------------------------------------------------------
(* The schedule of the comparison: the runs of the instances before the    *)
(* i-th, the row of a turn, and the configuration that is called in it.    *)

RunsBefore(i) == Before(i, Runs)

Place(i, r, t) == 2 * (RunsBefore(i) + r - 1) + t

Turn(r, t) == IF (r + t) % 2 = 0 THEN "baseline" ELSE "tuned"

\* The runs of one instance follow those of another.
LEMMA RunsAccumulate ==
  /\ \A i \in Nat \ {0} : RunsBefore(i) \in Nat
  /\ \A i \in Nat \ {0} : RunsBefore(i + 1) = RunsBefore(i) + Runs
  /\ \A i, j \in Nat \ {0} : i < j => RunsBefore(i) + Runs <= RunsBefore(j)
BY RoundsAccumulate, PairedTestAssumption DEF RunsBefore

\* No two turns have the same place.
LEMMA PlacesDiffer ==
  ASSUME NEW i \in Nat \ {0}, NEW j \in Nat \ {0}, NEW r \in 1 .. Runs, NEW s \in 1 .. Runs,
         NEW t \in {1, 2}, NEW u \in {1, 2}, Place(i, r, t) = Place(j, s, u)
  PROVE  i = j /\ r = s /\ t = u
<1>1. Runs \in Nat /\ RunsBefore(i) \in Nat /\ RunsBefore(j) \in Nat
  BY RunsAccumulate, PairedTestAssumption
<1>2. RunsBefore(i) + r = RunsBefore(j) + s /\ t = u
  BY <1>1 DEF Place
<1>3. ~ i < j
  <2>1. i < j => RunsBefore(i) + Runs <= RunsBefore(j)
    BY RunsAccumulate
  <2> QED BY <1>1, <1>2, <2>1
<1>4. ~ j < i
  <2>1. j < i => RunsBefore(j) + Runs <= RunsBefore(i)
    BY RunsAccumulate
  <2> QED BY <1>1, <1>2, <2>1
<1>5. i = j
  BY <1>3, <1>4
<1> QED BY <1>1, <1>2, <1>5

\* The turns of an instance fill the places between those of its neighbours.
LEMMA PlacesFollow ==
  ASSUME NEW n \in Nat \ {0}, run_number \in 1 .. Runs, turn \in {1, 2}, stage = "run",
         NextTurn
  PROVE  /\ turn' \in {1, 2} /\ run_number' \in 1 .. Runs /\ stage' \in {"read", "run"}
         /\ stage' = "run" =>
              Place(n, run_number', turn') = Place(n, run_number, turn) + 1
         /\ stage' = "read" =>
              Place(n, run_number, turn) = 2 * (RunsBefore(n) + Runs)
<1>1. Runs \in Nat /\ RunsBefore(n) \in Nat
  BY RunsAccumulate, PairedTestAssumption
<1>2. CASE turn = 1
  BY <1>1, <1>2 DEF NextTurn, Place
<1>3. CASE turn = 2 /\ run_number < Runs
  BY <1>1, <1>3 DEF NextTurn, Place
<1>4. CASE turn = 2 /\ run_number = Runs
  BY <1>1, <1>4 DEF NextTurn, Place
<1>5. run_number < Runs \/ run_number = Runs
  BY <1>1
<1> QED BY <1>2, <1>3, <1>4, <1>5

-----------------------------------------------------------------------------
(* The inductive invariant of the comparison.                              *)

\* Row p, given by its contents, is what the t-th call of the r-th run of the i-th instance has left.
RowOf(row, p, i, r, t) ==
  /\ p = Place(i, r, t)
  /\ row.run = r
  /\ row.seed = 42 + RunsBefore(i) + r - 1
  /\ row.configuration = Turn(r, t)

PairedType ==
  /\ file \in Files \cup {Blank}
  /\ lines \in Seq(Files \cup {Blank})
  /\ instance_index \in Nat /\ run_number \in 1 .. Runs /\ turn \in {1, 2}
  /\ stage \in {"read", "run", "analyzed", "failed"}
  /\ rows \in Seq([configuration : {"baseline", "tuned"}, instance : Names,
                   run : 1 .. Runs, seed : Nat])

\* The counters tell how many rows there are.
Counted ==
  /\ completed = Len(rows)
  /\ stage = "read" => Len(rows) = 2 * RunsBefore(instance_index + 1)
  /\ stage = "run" => /\ instance_index >= 1 /\ file \in Files
                      /\ Len(rows) + 1 = Place(instance_index, run_number, turn)

\* Every row is that of its turn, and those of one instance name it.
Scheduled ==
  /\ \A p \in 1 .. Len(rows) :
       \E i \in 1 .. instance_index, r \in 1 .. Runs, t \in {1, 2} : RowOf(rows[p], p, i, r, t)
  /\ \A i \in 1 .. instance_index, r, s \in 1 .. Runs, t, u \in {1, 2} :
       Place(i, r, t) \in 1 .. Len(rows) /\ Place(i, s, u) \in 1 .. Len(rows) =>
         rows[Place(i, r, t)].instance = rows[Place(i, s, u)].instance
  /\ stage = "run" =>
       \A r \in 1 .. Runs, t \in {1, 2} :
         Place(instance_index, r, t) \in 1 .. Len(rows) =>
           rows[Place(instance_index, r, t)].instance = BinaryName(file)

PairedInv ==
  /\ PairedType
  /\ Counted
  /\ Scheduled
  /\ stage = "analyzed" => AllCounted /\ Analyzable

\* An empty file, no instance read.
LEMMA PairedInitInv == PairedInit => PairedInv
<1> SUFFICES ASSUME PairedInit PROVE PairedInv
  OBVIOUS
<1>1. RunsBefore(1) = 0 /\ 1 \in 1 .. Runs
  BY PairedTestAssumption DEF RunsBefore, Before
<1>2. lines \in Seq(Files \cup {Blank})
  BY PairedTestAssumption DEF PairedInit
<1>3. PairedType
  BY <1>1, <1>2 DEF PairedInit, PairedType
<1> QED BY <1>1, <1>3 DEF PairedInit, PairedInv, Counted, Scheduled

\* The next line of the list, empty or not.
LEMMA ReadKeeps == PairedInv /\ (SkipEmptyLine \/ ReadInstance) => PairedInv'
<1> SUFFICES ASSUME PairedInv, SkipEmptyLine \/ ReadInstance PROVE PairedInv'
  OBVIOUS
<1>1. /\ lines \in Seq(Files \cup {Blank}) /\ lines # <<>> /\ lines' = Tail(lines)
      /\ stage = "read" /\ rows' = rows /\ completed' = completed
  BY DEF SkipEmptyLine, ReadInstance, PairedInv, PairedType
<1>2. lines' \in Seq(Files \cup {Blank}) /\ Head(lines) \in Files \cup {Blank}
  BY <1>1, HeadTailProperties
<1>3. Runs \in Nat /\ 1 \in 1 .. Runs /\ Len(rows) \in Nat
  BY PairedTestAssumption DEF PairedInv, PairedType
<1>4. CASE SkipEmptyLine
  <2>1. UNCHANGED <<file, instance_index, run_number, turn, stage>>
    BY <1>4 DEF SkipEmptyLine
  <2>2. PairedType'
    BY <1>1, <1>2, <2>1 DEF PairedInv, PairedType
  <2>3. Counted' /\ Scheduled'
    BY <1>1, <2>1 DEF PairedInv, Counted, Scheduled, RowOf
  <2> QED BY <1>1, <2>1, <2>2, <2>3 DEF PairedInv
<1>5. CASE ReadInstance
  <2> DEFINE n == instance_index
  <2>1. /\ n \in Nat /\ instance_index' = n + 1 /\ run_number' = 1 /\ turn' = 1
        /\ file' \in Files /\ stage' \in {"run", "failed"}
    BY <1>2, <1>5 DEF ReadInstance, PairedInv, PairedType
  <2>2. PairedType'
    BY <1>1, <1>2, <1>3, <2>1 DEF PairedInv, PairedType
  <2>3. Len(rows) = 2 * RunsBefore(n + 1) /\ RunsBefore(n + 1) \in Nat
    <3>1. n + 1 \in Nat \ {0}
      BY <2>1
    <3> QED BY <1>1, <3>1, RunsAccumulate DEF PairedInv, Counted
  <2>4. Counted'
    BY <1>1, <1>3, <2>1, <2>3 DEF PairedInv, Counted, Place
  <2>5. \A r \in 1 .. Runs, t \in {1, 2} : Place(n + 1, r, t) \notin 1 .. Len(rows)
    BY <1>3, <2>3 DEF Place
  <2>6. \A i \in 1 .. n + 1 : i \in 1 .. n \/ i = n + 1
    BY <2>1
  <2>7. \A p \in 1 .. Len(rows) :
          \E i \in 1 .. n + 1, r \in 1 .. Runs, t \in {1, 2} : RowOf(rows[p], p, i, r, t)
    <3>1. 1 .. n \subseteq 1 .. n + 1
      BY <2>1
    <3> QED BY <3>1 DEF PairedInv, Scheduled
  <2>8. \A i \in 1 .. n + 1, r, s \in 1 .. Runs, t, u \in {1, 2} :
          Place(i, r, t) \in 1 .. Len(rows) /\ Place(i, s, u) \in 1 .. Len(rows) =>
            rows[Place(i, r, t)].instance = rows[Place(i, s, u)].instance
    BY <2>5, <2>6 DEF PairedInv, Scheduled
  <2>9. Scheduled'
    <3>1. rows' = rows /\ instance_index' = n + 1
      BY <1>1, <2>1
    <3>2. \A q, i, r, t : RowOf(rows'[q], q, i, r, t) <=> RowOf(rows[q], q, i, r, t)
      BY <3>1 DEF RowOf
    <3>3. \A p \in 1 .. Len(rows') : \E i \in 1 .. instance_index', r \in 1 .. Runs, t \in {1, 2} :
            RowOf(rows'[p], p, i, r, t)
      BY <2>7, <3>1, <3>2
    <3>4. \A i \in 1 .. instance_index', r, s \in 1 .. Runs, t, u \in {1, 2} :
            Place(i, r, t) \in 1 .. Len(rows') /\ Place(i, s, u) \in 1 .. Len(rows') =>
              rows'[Place(i, r, t)].instance = rows'[Place(i, s, u)].instance
      BY <2>8, <3>1
    <3>5. \A r \in 1 .. Runs, t \in {1, 2} :
            Place(instance_index', r, t) \notin 1 .. Len(rows')
      BY <2>5, <3>1, Zenon
    <3> QED BY <3>3, <3>4, <3>5 DEF Scheduled, RowOf
  <2> QED BY <2>1, <2>2, <2>4, <2>9 DEF PairedInv
<1> QED BY <1>4, <1>5

\* A call that fails, or the analysis, stops the script and leaves the rows.
LEMMA StopKeeps ==
  ASSUME PairedInv, NEW p \in {"analyzed", "failed"}, Stop(p),
         p = "analyzed" => AllCounted /\ Analyzable
  PROVE  PairedInv'
<1>1. /\ stage' = p
      /\ UNCHANGED <<lines, file, instance_index, run_number, turn, completed, rows>>
  BY DEF Stop
<1>2. PairedType'
  BY <1>1 DEF PairedInv, PairedType
<1>3. Counted' /\ Scheduled'
  BY <1>1 DEF PairedInv, Counted, Scheduled, RowOf
<1>4. AllCounted /\ Analyzable => AllCounted' /\ Analyzable'
  BY <1>1 DEF AllCounted, Analyzable, Instances, total_runs
<1> QED BY <1>1, <1>2, <1>3, <1>4 DEF PairedInv

\* The row that a good answer leaves.
LEMMA RowKeeps ==
  ASSUME PairedInv, stage = "run",
         NEW answer \in Answers(file, pair_seed), Succeeds(answer),
         Matches(answer, file, pair_seed),
         rows' = Append(rows, [configuration |-> configuration,
                               instance |-> answer.line.instance,
                               run |-> run_number, seed |-> answer.line.seed]),
         completed' = completed + 1, NextTurn,
         UNCHANGED <<lines, file, instance_index>>
  PROVE  PairedInv'
<1> DEFINE n == instance_index
           R == [configuration : {"baseline", "tuned"}, instance : Names,
                 run : 1 .. Runs, seed : Nat]
           row == [configuration |-> configuration, instance |-> answer.line.instance,
                   run |-> run_number, seed |-> answer.line.seed]
           L == Len(rows)
<1>1. /\ Runs \in Nat /\ n \in Nat \ {0} /\ n >= 1 /\ file \in Files
      /\ run_number \in 1 .. Runs /\ turn \in {1, 2} /\ rows \in Seq(R) /\ L \in Nat
      /\ L + 1 = Place(n, run_number, turn) /\ RunsBefore(n) \in Nat
  <2>1. n \in Nat \ {0} /\ n >= 1
    BY DEF PairedInv, PairedType, Counted
  <2>2. RunsBefore(n) \in Nat
    BY <2>1, RunsAccumulate
  <2> QED BY <2>1, <2>2, PairedTestAssumption DEF PairedInv, PairedType, Counted
<1>2. answer.line.instance = BinaryName(file) /\ BinaryName(file) \in Names
  <2>1. answer # Failure
    BY DEF Succeeds, Failure
  <2>2. answer.line.instance = BinaryName(file)
    BY <2>1 DEF Answers, LineOf
  <2> QED BY <1>1, <2>2 DEF BinaryName, Files, Names
<1>3. answer.line.seed = 42 + RunsBefore(n) + run_number - 1
  BY DEF Matches, pair_seed, RunsBefore, Before
<1>4. configuration = Turn(run_number, turn) /\ configuration \in {"baseline", "tuned"}
  BY DEF configuration, Turn
<1>5. row \in R
  BY <1>1, <1>2, <1>3, <1>4
<1>6. /\ rows' \in Seq(R) /\ Len(rows') = L + 1 /\ rows'[L + 1] = row
      /\ \A p \in 1 .. L : rows'[p] = rows[p]
  BY <1>1, <1>5, AppendProperties
<1>7. /\ turn' \in {1, 2} /\ run_number' \in 1 .. Runs /\ stage' \in {"read", "run"}
      /\ stage' = "run" => L + 2 = Place(n, run_number', turn')
      /\ stage' = "read" => L + 1 = 2 * (RunsBefore(n) + Runs)
  BY <1>1, PlacesFollow
<1>8. PairedType'
  BY <1>1, <1>6, <1>7 DEF PairedInv, PairedType
<1>9. Counted'
  <2>1. RunsBefore(n + 1) = RunsBefore(n) + Runs
    BY <1>1, RunsAccumulate
  <2>2. completed' = L + 1
    BY DEF PairedInv, Counted
  <2> QED BY <1>1, <1>6, <1>7, <2>1, <2>2 DEF Counted
<1>10. \A p \in 1 .. L + 1 : p \in 1 .. L \/ p = L + 1
  BY <1>1
<1>11. \A p \in 1 .. L + 1 :
         \E i \in 1 .. n, r \in 1 .. Runs, t \in {1, 2} : RowOf(rows'[p], p, i, r, t)
  <2>1. \A p \in 1 .. L : \E i \in 1 .. n, r \in 1 .. Runs, t \in {1, 2} : RowOf(rows'[p], p, i, r, t)
    BY <1>6 DEF PairedInv, Scheduled, RowOf
  <2>2. RowOf(rows'[L + 1], L + 1, n, run_number, turn)
    BY <1>1, <1>3, <1>4, <1>5, <1>6 DEF RowOf
  <2>3. n \in 1 .. n
    BY <1>1
  <2> QED BY <1>1, <1>10, <2>1, <2>2, <2>3
<1>12. \A i \in 1 .. n, r \in 1 .. Runs, t \in {1, 2} :
         Place(i, r, t) = L + 1 => i = n
  <2> TAKE i \in 1 .. n, r \in 1 .. Runs, t \in {1, 2}
  <2> HAVE Place(i, r, t) = L + 1
  <2>1. i \in Nat \ {0}
    BY <1>1
  <2>2. Place(i, r, t) = Place(n, run_number, turn)
    BY <1>1
  <2> QED BY <1>1, <2>1, <2>2, PlacesDiffer
<1>13. \A r \in 1 .. Runs, t \in {1, 2} :
         Place(n, r, t) \in 1 .. L + 1 =>
           rows'[Place(n, r, t)].instance = BinaryName(file)
  <2>1. \A r \in 1 .. Runs, t \in {1, 2} :
          Place(n, r, t) \in 1 .. L => rows[Place(n, r, t)].instance = BinaryName(file)
    BY DEF PairedInv, Scheduled
  <2>2. row.instance = BinaryName(file)
    BY <1>2
  <2> QED BY <1>6, <1>10, <2>1, <2>2
<1>14. \A i \in 1 .. n, r, s \in 1 .. Runs, t, u \in {1, 2} :
         Place(i, r, t) \in 1 .. L + 1 /\ Place(i, s, u) \in 1 .. L + 1 =>
           rows'[Place(i, r, t)].instance = rows'[Place(i, s, u)].instance
  <2> TAKE i \in 1 .. n, r, s \in 1 .. Runs, t, u \in {1, 2}
  <2> HAVE Place(i, r, t) \in 1 .. L + 1 /\ Place(i, s, u) \in 1 .. L + 1
  <2>1. CASE i = n
    BY <1>13, <2>1
  <2>2. CASE i # n
    <3>1. Place(i, r, t) \in 1 .. L /\ Place(i, s, u) \in 1 .. L
      BY <1>10, <1>12, <2>2
    <3>2. rows[Place(i, r, t)].instance = rows[Place(i, s, u)].instance
      BY <3>1 DEF PairedInv, Scheduled
    <3> QED BY <1>6, <3>1, <3>2
  <2> QED BY <2>1, <2>2
<1>15. Scheduled'
  <2>1. instance_index' = n /\ BinaryName(file') = BinaryName(file)
    OBVIOUS
  <2>2. \A p \in 1 .. Len(rows') :
          \E i \in 1 .. instance_index', r \in 1 .. Runs, t \in {1, 2} :
            RowOf(rows'[p], p, i, r, t)
    BY <1>6, <1>11, <2>1
  <2>3. \A i \in 1 .. instance_index', r, s \in 1 .. Runs, t, u \in {1, 2} :
          Place(i, r, t) \in 1 .. Len(rows') /\ Place(i, s, u) \in 1 .. Len(rows') =>
            rows'[Place(i, r, t)].instance = rows'[Place(i, s, u)].instance
    <3>1. Len(rows') = L + 1
      BY <1>6
    <3> QED BY <1>14, <2>1, <3>1
  <2>4. \A r \in 1 .. Runs, t \in {1, 2} :
          Place(instance_index', r, t) \in 1 .. Len(rows') =>
            rows'[Place(instance_index', r, t)].instance = BinaryName(file')
    <3>1. Len(rows') = L + 1
      BY <1>6
    <3> HIDE DEF n, R, row
    <3> QED BY <1>13, <2>1, <3>1
  <2> HIDE DEF n, R, row, L
  <2> QED BY <2>2, <2>3, <2>4 DEF Scheduled
<1> QED BY <1>7, <1>8, <1>9, <1>15 DEF PairedInv

\* One call of the program.
LEMMA CallKeeps == PairedInv /\ RunConfiguration => PairedInv'
<1> SUFFICES ASSUME PairedInv, RunConfiguration PROVE PairedInv'
  OBVIOUS
<1>1. PICK answer \in Answers(file, pair_seed) :
        IF Succeeds(answer) /\ Matches(answer, file, pair_seed)
        THEN /\ rows' = Append(rows, [configuration |-> configuration,
                                      instance |-> answer.line.instance,
                                      run |-> run_number, seed |-> answer.line.seed])
             /\ completed' = completed + 1
             /\ NextTurn
             /\ UNCHANGED <<lines, file, instance_index>>
        ELSE Stop("failed")
  BY DEF RunConfiguration
<1>2. CASE Succeeds(answer) /\ Matches(answer, file, pair_seed)
  BY <1>1, <1>2, RowKeeps DEF RunConfiguration
<1>3. CASE ~ (Succeeds(answer) /\ Matches(answer, file, pair_seed))
  BY <1>1, <1>3, StopKeeps
<1> QED BY <1>2, <1>3

LEMMA PairedNextInv == PairedInv /\ [PairedNext]_pairedVars => PairedInv'
<1> SUFFICES ASSUME PairedInv, [PairedNext]_pairedVars PROVE PairedInv'
  OBVIOUS
<1>1. CASE SkipEmptyLine \/ ReadInstance
  BY <1>1, ReadKeeps
<1>2. CASE RunConfiguration
  BY <1>2, CallKeeps
<1>3. CASE Analyze
  BY <1>3, StopKeeps DEF Analyze
<1>4. CASE UNCHANGED pairedVars
  <2>1. PairedType' /\ Counted' /\ Scheduled'
    BY <1>4 DEF pairedVars, PairedInv, PairedType, Counted, Scheduled, RowOf
  <2>2. AllCounted /\ Analyzable => AllCounted' /\ Analyzable'
    BY <1>4 DEF pairedVars, AllCounted, Analyzable, Instances, total_runs
  <2> QED BY <1>4, <2>1, <2>2 DEF pairedVars, PairedInv
<1> QED BY <1>1, <1>2, <1>3, <1>4 DEF PairedNext

LEMMA PairedInvariance == PairedSpec => []PairedInv
BY PairedInitInv, PairedNextInv, PTL DEF PairedSpec

-----------------------------------------------------------------------------
(* What the comparison promises.                                           *)

\* The other turn, and the next run, are the other configuration's.
LEMMA TurnsAlternate ==
  /\ \A r \in Nat, t, u \in {1, 2} : t # u => Turn(r, t) # Turn(r, u)
  /\ \A r \in Nat, t \in {1, 2} : Turn(r, t) # Turn(r + 1, t)
BY DEF Turn

\* Each row has a turn of its own.
LEMMA RowTurns ==
  ASSUME PairedInv
  PROVE  \A p \in DOMAIN rows :
           \E i \in 1 .. instance_index, r \in 1 .. Runs, t \in {1, 2} :
             /\ p \in 1 .. Len(rows) /\ i \in Nat \ {0} /\ RunsBefore(i) \in Nat
             /\ RowOf(rows[p], p, i, r, t)
<1>1. DOMAIN rows = 1 .. Len(rows)
  BY LenProperties DEF PairedInv, PairedType
<1>2. \A i \in 1 .. instance_index : i \in Nat \ {0} /\ RunsBefore(i) \in Nat
  <2>1. \A i \in 1 .. instance_index : i \in Nat \ {0}
    BY DEF PairedInv, PairedType
  <2> QED BY <2>1, RunsAccumulate
<1> QED BY <1>1, <1>2 DEF PairedInv, Scheduled

\* Two rows have the same seed if they are the turns of one run.
LEMMA SeedsTellRuns ==
  ASSUME PairedInv, NEW p \in DOMAIN rows, NEW q \in DOMAIN rows, p < q
  PROVE  /\ rows[p].seed = rows[q].seed <=> p % 2 = 1 /\ q = p + 1
         /\ rows[p].seed = rows[q].seed =>
              /\ rows[p].instance = rows[q].instance /\ rows[p].run = rows[q].run
              /\ rows[p].configuration # rows[q].configuration
<1>1. Runs \in Nat
  BY PairedTestAssumption
<1>2. PICK i \in 1 .. instance_index, r \in 1 .. Runs, t \in {1, 2} :
        /\ p \in 1 .. Len(rows) /\ i \in Nat \ {0} /\ RunsBefore(i) \in Nat
        /\ RowOf(rows[p], p, i, r, t)
  BY RowTurns
<1>3. PICK j \in 1 .. instance_index, s \in 1 .. Runs, u \in {1, 2} :
        /\ q \in 1 .. Len(rows) /\ j \in Nat \ {0} /\ RunsBefore(j) \in Nat
        /\ RowOf(rows[q], q, j, s, u)
  BY RowTurns
<1>4. /\ p = 2 * (RunsBefore(i) + r - 1) + t /\ rows[p].seed = 42 + RunsBefore(i) + r - 1
      /\ q = 2 * (RunsBefore(j) + s - 1) + u /\ rows[q].seed = 42 + RunsBefore(j) + s - 1
  BY <1>2, <1>3 DEF RowOf, Place
<1>5. r \in Nat /\ s \in Nat
  BY <1>1
<1>6. PICK a, b \in Int : a = RunsBefore(i) + r - 1 /\ b = RunsBefore(j) + s - 1
  BY <1>2, <1>3, <1>5
<1>7. /\ p = 2 * a + t /\ rows[p].seed = 42 + a
      /\ q = 2 * b + u /\ rows[q].seed = 42 + b
  <2>1. RunsBefore(i) \in Int /\ RunsBefore(j) \in Int
    BY <1>2, <1>3
  <2>2. 42 + RunsBefore(i) + r - 1 = 42 + a /\ 42 + RunsBefore(j) + s - 1 = 42 + b
    BY <1>5, <1>6, <2>1
  <2> QED BY <1>4, <1>6, <2>2
<1>8. rows[p].seed = rows[q].seed <=> a = b
  BY <1>7
<1>9. a = b <=> p % 2 = 1 /\ q = p + 1
  BY <1>7
<1>10. ASSUME rows[p].seed = rows[q].seed
      PROVE  /\ rows[p].instance = rows[q].instance /\ rows[p].run = rows[q].run
             /\ rows[p].configuration # rows[q].configuration
  <2>1. RunsBefore(i) + r - 1 = RunsBefore(j) + s - 1
    BY <1>6, <1>8, <1>10
  <2>2. Place(i, r, t) = Place(j, s, t)
    BY <2>1 DEF Place
  <2>3. i = j /\ r = s
    BY <1>2, <1>3, <2>2, PlacesDiffer
  <2>4. t # u
    BY <1>7, <1>8, <1>10
  <2>5. rows[p].run = rows[q].run /\ rows[p].configuration # rows[q].configuration
    BY <1>2, <1>3, <1>5, <2>3, <2>4, TurnsAlternate DEF RowOf
  <2>6. p = Place(i, r, t) /\ q = Place(i, r, u)
    BY <1>2, <1>3, <2>3 DEF RowOf
  <2>7. rows[p].instance = rows[q].instance
    BY <1>2, <1>3, <2>6 DEF PairedInv, Scheduled
  <2> QED BY <2>5, <2>7
<1> QED BY <1>8, <1>9, <1>10

\* The same seed for both configurations, and the first one in turn
\* (evaluate_test.sh, its two inner loops): also in the file that an aborted
\* comparison leaves.
THEOREM SeedsAlwaysPair == PairedSpec => []SeedsPairTheRows
<1>1. ASSUME PairedInv PROVE SeedsPairTheRows
  <2>1. \A p, q \in DOMAIN rows : p < q =>
          /\ rows[p].seed = rows[q].seed <=> p % 2 = 1 /\ q = p + 1
          /\ rows[p].seed = rows[q].seed =>
               /\ rows[p].instance = rows[q].instance /\ rows[p].run = rows[q].run
               /\ rows[p].configuration # rows[q].configuration
    BY <1>1, SeedsTellRuns
  <2>2. ASSUME NEW p \in DOMAIN rows, p % 2 = 1, p + 2 \in DOMAIN rows, rows[p].run < Runs
        PROVE  rows[p].configuration # rows[p + 2].configuration
    <3>1. Runs \in Nat
      BY PairedTestAssumption
    <3>2. PICK i \in 1 .. instance_index, r \in 1 .. Runs, t \in {1, 2} :
            /\ p \in 1 .. Len(rows) /\ i \in Nat \ {0} /\ RunsBefore(i) \in Nat
            /\ RowOf(rows[p], p, i, r, t)
      BY <1>1, RowTurns
    <3>3. PICK j \in 1 .. instance_index, s \in 1 .. Runs, u \in {1, 2} :
            /\ p + 2 \in 1 .. Len(rows) /\ j \in Nat \ {0} /\ RunsBefore(j) \in Nat
            /\ RowOf(rows[p + 2], p + 2, j, s, u)
      BY <1>1, <2>2, RowTurns
    <3>4. p + 2 = Place(i, r + 1, t) /\ r + 1 \in 1 .. Runs
      <4>1. p = Place(i, r, t) /\ r < Runs
        BY <2>2, <3>2 DEF RowOf
      <4>2. RunsBefore(i) \in Nat /\ r \in Nat \ {0} /\ t \in Nat
        BY <3>1, <3>2
      <4>3. Place(i, r + 1, t) = Place(i, r, t) + 2
        BY <4>2 DEF Place
      <4>4. r + 1 \in 1 .. Runs
        BY <3>1, <4>1, <4>2
      <4> QED BY <4>1, <4>3, <4>4
    <3>5. Place(i, r + 1, t) = Place(j, s, u)
      BY <3>3, <3>4 DEF RowOf
    <3>6. s = r + 1 /\ u = t
      BY <3>2, <3>3, <3>4, <3>5, PlacesDiffer
    <3>7. Turn(r, t) # Turn(r + 1, t)
      <4>1. r \in Nat
        BY <3>1
      <4> QED BY <4>1, TurnsAlternate
    <3> QED BY <3>2, <3>3, <3>6, <3>7 DEF RowOf
  <2> QED BY <2>1, <2>2 DEF SeedsPairTheRows
<1> QED BY <1>1, PairedInvariance, PTL

\* A complete comparison has a row for every turn of every instance.
LEMMA PlacesInside ==
  ASSUME NEW n \in Nat, NEW i \in 1 .. n, NEW r \in 1 .. Runs, NEW t \in {1, 2}
  PROVE  Place(i, r, t) \in 1 .. 2 * RunsBefore(n + 1)
<1>1. Runs \in Nat /\ i \in Nat \ {0} /\ n + 1 \in Nat \ {0} /\ i < n + 1
  BY PairedTestAssumption
<1>2. /\ RunsBefore(i) \in Nat /\ RunsBefore(n + 1) \in Nat
      /\ RunsBefore(i) + Runs <= RunsBefore(n + 1)
  BY <1>1, RunsAccumulate
<1> QED BY <1>1, <1>2 DEF Place

\* The instances of a complete comparison have different names: otherwise
\* analyze_test.R would have counted fewer.
LEMMA NamesDiffer ==
  ASSUME PairedInv, stage = "analyzed"
  PROVE  LET named == [i \in 1 .. Expected |-> rows[Place(i, 1, 1)].instance]
             seen  == {rows[p].instance : p \in DOMAIN rows}
         IN  /\ instance_index = Expected /\ Expected \in Nat
             /\ DOMAIN rows = 1 .. 2 * RunsBefore(Expected + 1)
             /\ Cardinality(seen) = Expected
             /\ named \in Injection(1 .. Expected, seen)
             /\ \A i \in 1 .. Expected, r \in 1 .. Runs, t \in {1, 2} :
                  /\ Place(i, r, t) \in DOMAIN rows
                  /\ rows[Place(i, r, t)].instance = named[i]
<1> DEFINE named == [i \in 1 .. Expected |-> rows[Place(i, 1, 1)].instance]
           seen == {rows[p].instance : p \in DOMAIN rows}
           common == Instances("baseline") \cap Instances("tuned")
<1>1. /\ instance_index = Expected /\ Expected \in Nat /\ Runs \in Nat /\ 1 \in 1 .. Runs
      /\ Len(rows) = 2 * Runs * Expected /\ Cardinality(common) = Expected
  BY PairedTestAssumption DEF PairedInv, AllCounted, Analyzable, total_runs
<1>2. DOMAIN rows = 1 .. 2 * RunsBefore(Expected + 1)
  <2>1. DOMAIN rows = 1 .. Len(rows)
    BY LenProperties DEF PairedInv, PairedType
  <2>2. 2 * RunsBefore(Expected + 1) = 2 * Runs * Expected
    BY <1>1 DEF RunsBefore, Before
  <2> QED BY <1>1, <2>1, <2>2
<1>3. \A i \in 1 .. Expected, r \in 1 .. Runs, t \in {1, 2} : Place(i, r, t) \in DOMAIN rows
  BY <1>1, <1>2, PlacesInside
<1>4. \A i \in 1 .. Expected, r \in 1 .. Runs, t \in {1, 2} :
        rows[Place(i, r, t)].instance = named[i]
  <2>1. DOMAIN rows = 1 .. Len(rows)
    BY LenProperties DEF PairedInv, PairedType
  <2> QED BY <1>1, <1>3, <2>1 DEF PairedInv, Scheduled
<1>5. named \in Surjection(1 .. Expected, seen)
  <2>1. \A i \in 1 .. Expected : named[i] \in seen
    BY <1>1, <1>3
  <2>2. \A p \in DOMAIN rows : \E i \in 1 .. Expected : named[i] = rows[p].instance
    <3> HIDE DEF named
    <3> TAKE p \in DOMAIN rows
    <3>1. PICK i \in 1 .. instance_index, r \in 1 .. Runs, t \in {1, 2} :
            RowOf(rows[p], p, i, r, t)
      BY RowTurns
    <3>2. p = Place(i, r, t)
      BY <3>1 DEF RowOf
    <3> QED BY <1>1, <1>4, <3>2
  <2>3. \A y \in seen : \E i \in 1 .. Expected : named[i] = y
    BY <2>2
  <2>4. named \in [1 .. Expected -> seen]
    BY <2>1
  <2> HIDE DEF named, seen
  <2> QED BY <2>3, <2>4 DEF Surjection
<1>6. IsFiniteSet(1 .. Expected) /\ Cardinality(1 .. Expected) = Expected
  BY <1>1, FS_Interval
<1>7. IsFiniteSet(seen) /\ Cardinality(seen) <= Expected
  <2> HIDE DEF named, seen
  <2> QED BY <1>5, <1>6, FS_Surjection
<1>8. common \subseteq seen
  BY DEF Instances
<1>9. Cardinality(seen) = Expected
  <2> HIDE DEF seen, common
  <2>1. Cardinality(common) <= Cardinality(seen)
    BY <1>7, <1>8, FS_Subset
  <2>2. Cardinality(seen) \in Nat
    BY <1>7, FS_CardinalityType
  <2> QED BY <1>1, <1>7, <2>1, <2>2
<1>10. named \in Injection(1 .. Expected, seen)
  <2> HIDE DEF named, seen
  <2> QED BY <1>5, <1>6, <1>9, FS_Surjection
<1> QED BY <1>1, <1>2, <1>3, <1>4, <1>9, <1>10

\* What the analysis is started on: every expected instance, every run, every
\* configuration, once (evaluate_test.sh's count of the results together with
\* the count of instances in analyze_test.R).
THEOREM AnalysisIsComplete == PairedSpec => []AnalysisSeesTheProtocol
<1>1. ASSUME PairedInv PROVE AnalysisSeesTheProtocol
  <2> SUFFICES ASSUME stage = "analyzed"
               PROVE  /\ Cardinality({rows[p].instance : p \in DOMAIN rows}) = Expected
                      /\ \A p \in DOMAIN rows, r \in 1 .. Runs, c \in {"baseline", "tuned"} :
                           Cardinality({q \in DOMAIN rows :
                                          /\ rows[q].instance = rows[p].instance
                                          /\ rows[q].run = r
                                          /\ rows[q].configuration = c}) = 1
    BY DEF AnalysisSeesTheProtocol
  <2> DEFINE named == [i \in 1 .. Expected |-> rows[Place(i, 1, 1)].instance]
             seen == {rows[p].instance : p \in DOMAIN rows}
  <2>1. /\ instance_index = Expected /\ Expected \in Nat
        /\ Cardinality(seen) = Expected
        /\ named \in Injection(1 .. Expected, seen)
        /\ \A i \in 1 .. Expected, r \in 1 .. Runs, t \in {1, 2} :
             /\ Place(i, r, t) \in DOMAIN rows
             /\ rows[Place(i, r, t)].instance = named[i]
    BY <1>1, NamesDiffer
  <2>2. \A i, j \in 1 .. Expected : named[i] = named[j] => i = j
    <3> HIDE DEF named, seen
    <3> QED BY <2>1 DEF Injection, IsInjective
  <2>3. ASSUME NEW p \in DOMAIN rows, NEW r \in 1 .. Runs, NEW c \in {"baseline", "tuned"}
        PROVE  Cardinality({q \in DOMAIN rows : /\ rows[q].instance = rows[p].instance
                                                /\ rows[q].run = r
                                                /\ rows[q].configuration = c}) = 1
    <3> DEFINE same == {q \in DOMAIN rows : /\ rows[q].instance = rows[p].instance
                                            /\ rows[q].run = r
                                            /\ rows[q].configuration = c}
    <3>1. r \in Nat
      BY PairedTestAssumption
    <3>2. PICK i \in 1 .. Expected : rows[p].instance = named[i]
      <4> HIDE DEF named
      <4>1. PICK i \in 1 .. instance_index, s \in 1 .. Runs, u \in {1, 2} :
              RowOf(rows[p], p, i, s, u)
        BY <1>1, RowTurns
      <4>2. p = Place(i, s, u)
        BY <4>1 DEF RowOf
      <4> QED BY <2>1, <4>2
    <3>3. PICK t \in {1, 2} : Turn(r, t) = c
      BY <3>1 DEF Turn
    <3>4. Place(i, r, t) \in same
      <4>1. PICK j \in 1 .. instance_index, s \in 1 .. Runs, u \in {1, 2} :
              /\ j \in Nat \ {0} /\ RowOf(rows[Place(i, r, t)], Place(i, r, t), j, s, u)
        <5>1. Place(i, r, t) \in DOMAIN rows
          BY <2>1
        <5> QED BY <1>1, <5>1, RowTurns
      <4>2. i \in Nat \ {0} /\ Place(i, r, t) = Place(j, s, u)
        BY <2>1, <4>1 DEF RowOf
      <4>3. s = r /\ u = t
        BY <4>1, <4>2, PlacesDiffer
      <4> QED BY <2>1, <3>2, <3>3, <4>1, <4>3 DEF RowOf
    <3>5. ASSUME NEW q \in same PROVE q = Place(i, r, t)
      <4>1. PICK j \in 1 .. instance_index, s \in 1 .. Runs, u \in {1, 2} :
              RowOf(rows[q], q, j, s, u)
        BY <1>1, RowTurns
      <4>2. named[j] = named[i]
        BY <2>1, <3>2, <4>1 DEF RowOf
      <4>3. j = i /\ s = r
        BY <2>1, <2>2, <4>1, <4>2 DEF RowOf
      <4>4. Turn(r, u) = Turn(r, t)
        BY <3>3, <4>1, <4>3 DEF RowOf
      <4>5. u = t
        BY <3>1, <4>4, TurnsAlternate
      <4> QED BY <4>1, <4>3, <4>5 DEF RowOf
    <3>6. same = {Place(i, r, t)}
      BY <3>4, <3>5
    <3> QED BY <3>6, FS_Singleton
  <2> QED BY <2>1, <2>3
<1> QED BY <1>1, PairedInvariance, PTL

-----------------------------------------------------------------------------
(* The inductive invariant of the battery.                                 *)

KnownExtensions == {"", ".txt"}

\* Row p, given by its contents, is that of the r-th run of the i-th instance.
RunOf(row, p, i, r) ==
  /\ p = Before(i, runs) + r
  /\ row.run = r
  /\ row.instance = BinaryName(instances[i])
  /\ row.seed = base_seed + p - 1
  /\ instances[i].ext \in KnownExtensions

BatteryType ==
  /\ instances \in Seq(Files)
  /\ runs \in RunCounts /\ base_seed \in BaseSeeds
  /\ csv \in [rows : Seq([run : Nat, instance : Names, seed : Nat, profit : Profits]),
              notes : {"none", "part", "all"}]
  /\ idx \in 1 .. Len(instances) + 1 /\ run \in 1 .. runs
  /\ phase \in {"idle", "loop", "report"}

\* The counters tell how many rows there are, and point at the next call.
BatteryCounted ==
  /\ Len(csv.rows) = Before(idx, runs) + run - 1
  /\ idx = Len(instances) + 1 => run = 1

\* An extension that is not the script's ends a battery where it is met.
BatteryInv ==
  /\ BatteryType
  /\ BatteryCounted
  /\ \A p \in 1 .. Len(csv.rows) :
       \E i \in 1 .. Len(instances), r \in 1 .. runs : RunOf(csv.rows[p], p, i, r)
  /\ reason = "mismatched" =>
       idx <= Len(instances) /\ instances[idx].ext \notin KnownExtensions
  /\ phase # "idle" => reason = "none"

\* The counters before the first call.
LEMMA FirstCall ==
  /\ \A n \in RunCounts : n \in Nat \ {0} /\ Before(1, n) = 0 /\ 1 \in 1 .. n
  /\ \A s \in BaseSeeds : s \in Nat
BY BatteryAssumption DEF Before

LEMMA BatteryInitInv == BatteryInit => BatteryInv
<1> SUFFICES ASSUME BatteryInit PROVE BatteryInv
  OBVIOUS
<1>1. /\ instances \in Seq(Files) /\ instances # <<>>
      /\ runs \in RunCounts /\ base_seed \in BaseSeeds
  BY BatteryAssumption DEF BatteryInit, Listings
<1>2. Len(instances) \in Nat /\ 1 \in 1 .. Len(instances) + 1
  BY <1>1, LenProperties
<1>3. csv.rows = <<>> /\ csv.notes = "none" /\ Len(csv.rows) = 0 /\ idx = 1 /\ run = 1
  BY DEF BatteryInit, EmptyCsv
<1>4. BatteryType
  BY <1>1, <1>2, <1>3, FirstCall DEF BatteryInit, BatteryType, EmptyCsv
<1>5. BatteryCounted
  BY <1>1, <1>3, FirstCall DEF BatteryCounted
<1> QED BY <1>3, <1>4, <1>5 DEF BatteryInit, BatteryInv

\* A battery that is started overwrites the rows of the last one, with other
\* values of the options.
LEMMA StartKeeps == BatteryInv /\ Start => BatteryInv'
<1> SUFFICES ASSUME BatteryInv, Start PROVE BatteryInv'
  OBVIOUS
<1>1. /\ instances' = instances /\ runs' \in RunCounts /\ base_seed' \in BaseSeeds
      /\ csv'.rows = <<>> /\ csv'.notes = "none" /\ csv' = EmptyCsv
      /\ idx' = 1 /\ run' = 1
      /\ phase' \in {"idle", "loop"} /\ reason' # "mismatched"
      /\ phase' # "idle" => reason' = "none"
  BY DEF Start, WriteHeader, EmptyCsv
<1>2. Len(csv'.rows) = 0 /\ 1 \in 1 .. Len(instances) + 1
  BY <1>1, LenProperties DEF BatteryInv, BatteryType
<1>3. BatteryType'
  BY <1>1, <1>2, FirstCall DEF BatteryInv, BatteryType, EmptyCsv
<1>4. BatteryCounted'
  BY <1>1, <1>2, FirstCall DEF BatteryCounted
<1> QED BY <1>1, <1>2, <1>3, <1>4 DEF BatteryInv

\* Whatever leaves the rows and the counters alone preserves the invariant:
\* an end of the battery, and the statistics.
LEMMA RowsStay ==
  ASSUME BatteryInv, UNCHANGED <<instances, runs, base_seed, idx, run>>,
         csv'.rows = csv.rows,
         csv' \in [rows : Seq([run : Nat, instance : Names, seed : Nat, profit : Profits]),
                   notes : {"none", "part", "all"}],
         phase' \in {"idle", "loop", "report"},
         reason' = "mismatched" =>
           idx <= Len(instances) /\ instances[idx].ext \notin KnownExtensions,
         phase' # "idle" => reason' = "none"
  PROVE  BatteryInv'
<1>1. BatteryType'
  BY DEF BatteryInv, BatteryType
<1>2. BatteryCounted'
  BY DEF BatteryInv, BatteryCounted
<1>3. \A p \in 1 .. Len(csv.rows) :
        \E i \in 1 .. Len(instances), r \in 1 .. runs : RunOf(csv.rows[p], p, i, r)
  BY DEF BatteryInv
<1> QED BY <1>1, <1>2, <1>3 DEF BatteryInv, RunOf

\* What a successful answer says.
LEMMA AnswerIsLine ==
  ASSUME NEW f \in Files, NEW s, NEW answer \in Answers(f, s), Succeeds(answer)
  PROVE  /\ answer.line.instance = BinaryName(f) /\ BinaryName(f) \in Names
         /\ answer.line.seed = s
         /\ answer.line.profit \in Profits
         /\ Matches(answer, f, s) <=> f.ext \in KnownExtensions
<1>1. answer # Failure
  BY DEF Succeeds, Failure
<1>2. PICK profit \in Profits, valid \in BOOLEAN :
        answer = [status |-> IF valid THEN 0 ELSE 1, line |-> LineOf(f, s, profit, valid)]
  BY <1>1 DEF Answers
<1>3. /\ answer.line.instance = BinaryName(f) /\ answer.line.seed = s
      /\ answer.line.profit \in Profits
  BY <1>2 DEF LineOf
<1>4. BinaryName(f) \in Names /\ BinaryName(f).ext = ""
  BY DEF BinaryName, Files, Names
<1>5. BinaryName(f) = ScriptName(f) <=> f.ext \in KnownExtensions
  <2>1. CASE f.ext = ".txt"
    BY <2>1 DEF BinaryName, ScriptName, KnownExtensions
  <2>2. CASE f.ext # ".txt"
    <3>1. ScriptName(f) = f
      BY <2>2 DEF ScriptName
    <3>2. f.ext = "" => BinaryName(f) = f
      BY DEF BinaryName, Files
    <3>3. BinaryName(f) = f => f.ext = ""
      BY <1>4
    <3>4. f.ext \in KnownExtensions <=> f.ext = ""
      BY <2>2 DEF KnownExtensions
    <3> QED BY <3>1, <3>2, <3>3, <3>4
  <2> QED BY <2>1, <2>2
<1> QED BY <1>3, <1>4, <1>5 DEF Matches

\* The next call stands at the next place.
LEMMA CallsFollow ==
  ASSUME NEW m \in Nat, runs \in Nat \ {0}, idx \in 1 .. m, run \in 1 .. runs,
         Advance
  PROVE  /\ idx' \in 1 .. m + 1 /\ run' \in 1 .. runs
         /\ idx' = m + 1 => run' = 1
         /\ Before(idx', runs) + run' = Before(idx, runs) + run + 1
<1>1. idx \in Nat \ {0} /\ Before(idx, runs) \in Nat
  BY RoundsAccumulate
<1>2. CASE run < runs
  BY <1>1, <1>2 DEF Advance
<1>3. CASE run = runs
  <2>1. Before(idx + 1, runs) = Before(idx, runs) + runs
    BY <1>1, RoundsAccumulate
  <2> QED BY <1>1, <1>3, <2>1 DEF Advance
<1> QED BY <1>2, <1>3

\* The row of a call.
LEMMA RecordKeeps ==
  ASSUME BatteryInv, phase = "loop", idx <= Len(instances),
         NEW answer \in Answers(instances[idx], seed), Succeeds(answer), Record(answer)
  PROVE  BatteryInv'
<1> DEFINE B == [run : Nat, instance : Names, seed : Nat, profit : Profits]
           row == [run |-> run, instance |-> answer.line.instance,
                   seed |-> answer.line.seed, profit |-> answer.line.profit]
           rs == csv.rows
           L == Len(csv.rows)
<1>1. /\ runs \in Nat \ {0} /\ base_seed \in Nat
      /\ instances \in Seq(Files) /\ Len(instances) \in Nat
      /\ idx \in 1 .. Len(instances) /\ idx \in Nat \ {0} /\ run \in 1 .. runs
      /\ rs \in Seq(B) /\ L \in Nat
  BY FirstCall, LenProperties DEF BatteryInv, BatteryType
<1>2. L + 1 = Before(idx, runs) + run /\ Before(idx, runs) \in Nat
  <2>1. Before(idx, runs) \in Nat
    BY <1>1, RoundsAccumulate
  <2> QED BY <1>1, <2>1 DEF BatteryInv, BatteryCounted
<1>3. instances[idx] \in Files
  BY <1>1, ElementOfSeq
<1>4. /\ answer.line.instance = BinaryName(instances[idx]) /\ BinaryName(instances[idx]) \in Names
      /\ answer.line.seed = seed /\ answer.line.profit \in Profits
      /\ instances[idx].ext \in KnownExtensions
  BY <1>3, AnswerIsLine DEF Record
<1>5. seed = base_seed + L /\ seed \in Nat
  <2>1. seed = base_seed + Before(idx, runs) + run - 1
    BY DEF seed, Before
  <2>2. run \in Nat /\ base_seed \in Nat /\ L \in Nat
    BY <1>1
  <2> HIDE DEF L
  <2>3. L = Before(idx, runs) + run - 1
    BY <1>2, <2>2
  <2> QED BY <1>2, <2>1, <2>2, <2>3
<1>6. row \in B /\ row.run = run /\ row.instance = BinaryName(instances[idx]) /\ row.seed = seed
  BY <1>1, <1>4, <1>5
<1>7. /\ csv'.rows = Append(rs, row) /\ csv'.notes = csv.notes
      /\ csv' = [csv EXCEPT !.rows = Append(rs, row)]
      /\ UNCHANGED <<instances, runs, base_seed, phase, reason>>
  BY DEF Record, BatteryInv, BatteryType
<1>8. /\ csv'.rows \in Seq(B) /\ Len(csv'.rows) = L + 1 /\ csv'.rows[L + 1] = row
      /\ \A p \in 1 .. L : csv'.rows[p] = rs[p]
  <2> HIDE DEF row, B, rs
  <2> QED BY <1>1, <1>6, <1>7, AppendProperties DEF rs
<1>9. /\ idx' \in 1 .. Len(instances) + 1 /\ run' \in 1 .. runs
      /\ idx' = Len(instances) + 1 => run' = 1
      /\ Before(idx', runs) + run' = L + 2
  <2>1. Advance
    BY DEF Record
  <2>2. Before(idx', runs) + run' = Before(idx, runs) + run + 1
    BY <1>1, <2>1, CallsFollow
  <2> QED BY <1>1, <1>2, <2>1, <2>2, CallsFollow
<1>10. BatteryType'
  <2>1. csv' \in [rows : Seq(B), notes : {"none", "part", "all"}]
    BY <1>7, <1>8 DEF BatteryInv, BatteryType
  <2> QED BY <1>7, <1>9, <2>1 DEF BatteryInv, BatteryType
<1>11. BatteryCounted'
  <2>1. idx' \in Nat \ {0} /\ run' \in Nat
    BY <1>1, <1>9
  <2>2. Before(idx', runs) \in Nat
    BY <1>1, <2>1, RoundsAccumulate
  <2>3. Len(csv'.rows) = Before(idx', runs) + run' - 1
    <3>1. Len(csv'.rows) = L + 1 /\ L \in Nat
      BY <1>1, <1>8
    <3> QED BY <1>9, <2>1, <2>2, <3>1
  <2> QED BY <1>7, <1>9, <2>3 DEF BatteryCounted
<1>12. ASSUME NEW p \in 1 .. L + 1
       PROVE  \E i \in 1 .. Len(instances), r \in 1 .. runs : RunOf(csv'.rows[p], p, i, r)
  <2>1. CASE p = L + 1
    <3>1. row.seed = base_seed + p - 1
      BY <1>1, <1>5, <1>6, <2>1
    <3>2. RunOf(csv'.rows[p], p, idx, run)
      BY <1>2, <1>4, <1>6, <1>8, <2>1, <3>1 DEF RunOf
    <3> QED BY <1>1, <3>2
  <2>2. CASE p # L + 1
    <3>1. p \in 1 .. L
      BY <1>1, <2>2
    <3> QED BY <1>8, <3>1 DEF BatteryInv
  <2> QED BY <2>1, <2>2
<1>13. /\ BatteryType' /\ BatteryCounted' /\ instances' = instances /\ reason' = reason
       /\ idx' \in 1 .. Len(instances) + 1 /\ runs' = runs /\ base_seed' = base_seed
       /\ Len(csv'.rows) = L + 1
  BY <1>7, <1>8, <1>9, <1>10, <1>11
<1>14. phase' = phase /\ reason = "none"
  BY <1>7 DEF BatteryInv
<1> QED BY <1>12, <1>13, <1>14 DEF BatteryInv, RunOf

\* One call of the program: its row, or the end of the battery.
LEMMA RunOnceKeeps == BatteryInv /\ RunOnce => BatteryInv'
<1> SUFFICES ASSUME BatteryInv, RunOnce PROVE BatteryInv'
  OBVIOUS
<1>1. PICK answer \in Answers(instances[idx], seed) :
        \/ ~ Succeeds(answer) /\ Abort("failed")
        \/ Succeeds(answer) /\ ~ Matches(answer, instances[idx], seed) /\ Abort("mismatched")
        \/ Succeeds(answer) /\ Record(answer)
  BY DEF RunOnce
<1>2. phase = "loop" /\ idx <= Len(instances)
  BY DEF RunOnce
<1>3. CASE Succeeds(answer) /\ Record(answer)
  BY <1>1, <1>2, <1>3, RecordKeeps
<1>4. CASE ~ Succeeds(answer) /\ Abort("failed")
  BY <1>4, RowsStay DEF Abort, BatteryInv, BatteryType
<1>5. CASE Succeeds(answer) /\ ~ Matches(answer, instances[idx], seed) /\ Abort("mismatched")
  <2>1. instances[idx] \in Files
    <3>1. instances \in Seq(Files) /\ idx \in 1 .. Len(instances)
      BY <1>2 DEF BatteryInv, BatteryType
    <3> QED BY <3>1, ElementOfSeq
  <2>2. instances[idx].ext \notin KnownExtensions
    BY <1>5, <2>1, AnswerIsLine
  <2> QED BY <1>2, <1>5, <2>2, RowsStay DEF Abort, BatteryInv, BatteryType
<1> QED BY <1>1, <1>3, <1>4, <1>5

LEMMA BatteryNextInv == BatteryInv /\ [BatteryNext]_batteryVars => BatteryInv'
<1> SUFFICES ASSUME BatteryInv, [BatteryNext]_batteryVars PROVE BatteryInv'
  OBVIOUS
<1>1. CASE Start
  BY <1>1, StartKeeps
<1>2. CASE RunOnce
  BY <1>2, RunOnceKeeps
<1>3. CASE Compute
  BY <1>3, RowsStay DEF Compute, BatteryInv, BatteryType
<1>4. CASE WriteNotes
  BY <1>4, RowsStay DEF WriteNotes, BatteryInv, BatteryType
<1>5. CASE Killed
  BY <1>5, RowsStay DEF Killed, Abort, BatteryInv, BatteryType
<1>6. CASE UNCHANGED batteryVars
  BY <1>6, RowsStay DEF batteryVars, BatteryInv, BatteryType
<1> QED BY <1>1, <1>2, <1>3, <1>4, <1>5, <1>6 DEF BatteryNext

LEMMA BatteryInvariance == BatterySpec => []BatteryInv
BY BatteryInitInv, BatteryNextInv, PTL DEF BatterySpec

-----------------------------------------------------------------------------
(* What the battery promises.                                              *)

\* The instance and the run of a row, from its place.
LEMMA PlaceTellsRun ==
  ASSUME BatteryInv, NEW p \in DOMAIN csv.rows
  PROVE  LET i == (p - 1) \div runs + 1
             r == ((p - 1) % runs) + 1
         IN  i \in 1 .. Len(instances) /\ RunOf(csv.rows[p], p, i, r)
<1>1. PICK i \in 1 .. Len(instances), r \in 1 .. runs : RunOf(csv.rows[p], p, i, r)
  BY LenProperties DEF BatteryInv, BatteryType
<1>2. runs \in Nat \ {0} /\ i \in Nat \ {0}
  BY FirstCall DEF BatteryInv, BatteryType
<1>3. p - 1 = Before(i, runs) + r - 1
  <2>1. Before(i, runs) \in Nat
    BY <1>2, RoundsAccumulate
  <2>2. r \in Nat
    BY <1>2
  <2> QED BY <1>1, <2>1, <2>2 DEF RunOf
<1>4. (p - 1) \div runs = i - 1 /\ (p - 1) % runs = r - 1
  BY <1>2, <1>3, RoundOfPlace
<1>5. (p - 1) \div runs + 1 = i /\ ((p - 1) % runs) + 1 = r
  BY <1>2, <1>4
<1> QED BY <1>1, <1>5

\* The rows of a battery, complete or interrupted, are a beginning of its
\* schedule (run_experiments.sh, the two loops): instance, run and seed follow
\* from the place in the file.
THEOREM RowsAreScheduled == BatterySpec => []RowsFollowTheSchedule
<1>1. ASSUME BatteryInv PROVE RowsFollowTheSchedule
  <2>1. /\ runs \in Nat \ {0} /\ Len(instances) \in Nat
        /\ idx \in 1 .. Len(instances) + 1 /\ idx \in Nat \ {0} /\ run \in 1 .. runs
    BY <1>1, FirstCall, LenProperties DEF BatteryInv, BatteryType
  <2>2. Len(csv.rows) = (idx - 1) * runs + run - 1
    BY <1>1 DEF BatteryInv, BatteryCounted, Before
  <2>3. Len(csv.rows) <= Len(instances) * runs
    <3> DEFINE n == Len(instances)
    <3>1. /\ Before(idx, runs) \in Nat /\ Before(n + 1, runs) \in Nat
          /\ idx < n + 1 => Before(idx, runs) + runs <= Before(n + 1, runs)
      <4>1. n + 1 \in Nat \ {0}
        BY <2>1
      <4> QED BY <2>1, <4>1, RoundsAccumulate
    <3>2. Before(n + 1, runs) = n * runs
      BY <2>1 DEF Before
    <3>3. Len(csv.rows) = Before(idx, runs) + run - 1 /\ (idx = n + 1 => run = 1)
      BY <1>1 DEF BatteryInv, BatteryCounted
    <3>4. Len(csv.rows) <= Before(n + 1, runs)
      BY <2>1, <3>1, <3>3
    <3> QED BY <3>2, <3>4
  <2>4. ASSUME NEW p \in DOMAIN csv.rows
        PROVE  /\ csv.rows[p].instance.stem = instances[(p - 1) \div runs + 1].stem
               /\ csv.rows[p].run = ((p - 1) % runs) + 1
               /\ csv.rows[p].seed = base_seed + p - 1
    <3> DEFINE i == (p - 1) \div runs + 1
    <3>1. i \in 1 .. Len(instances) /\ RunOf(csv.rows[p], p, i, ((p - 1) % runs) + 1)
      BY <1>1, PlaceTellsRun
    <3>2. instances[i] \in Files
      <4> HIDE DEF i
      <4> QED BY <1>1, <3>1, ElementOfSeq DEF BatteryInv, BatteryType
    <3>3. BinaryName(instances[i]).stem = instances[i].stem
      <4> HIDE DEF i
      <4> QED BY <3>2 DEF BinaryName, Files
    <3> QED BY <3>1, <3>3 DEF RunOf
  <2> QED BY <2>2, <2>3, <2>4 DEF RowsFollowTheSchedule
<1> QED BY <1>1, BatteryInvariance, PTL

\* A file whose extension the script does not strip ends the battery, and only
\* such a file does (the comparison of the names in run_experiments.sh).
THEOREM OnlyForeignFilesMismatch == BatterySpec => []NamesDisagreeOnForeignFiles
<1>1. ASSUME BatteryInv PROVE NamesDisagreeOnForeignFiles
  <2>1. reason = "mismatched" => instances[idx].ext \notin {"", ".txt"}
    BY <1>1 DEF BatteryInv, KnownExtensions
  <2>2. \A p \in DOMAIN csv.rows : instances[(p - 1) \div runs + 1].ext \in {"", ".txt"}
    BY <1>1, PlaceTellsRun DEF RunOf, KnownExtensions
  <2> QED BY <2>1, <2>2 DEF NamesDisagreeOnForeignFiles
<1> QED BY <1>1, BatteryInvariance, PTL

-----------------------------------------------------------------------------
(* The statistics of a battery.                                            *)

\* Sets of numbers have a least one; it stands in for induction.
LEMMA LeastNumber ==
  ASSUME NEW S, S \subseteq Nat, S # {}
  PROVE  \E n \in S : \A m \in S : n <= m
<1>1. PICK n \in S : \A m \in S : <<m, n>> \notin OpToRel(<, Nat)
  <2>1. IsWellFoundedOn(OpToRel(<, Nat), Nat)
    BY NatLessThanWellFounded
  <2> QED BY <2>1, WFMin
<1>2. ASSUME NEW m \in S PROVE n <= m
  <2>1. m \in Nat /\ n \in Nat
    OBVIOUS
  <2>2. ~ (m < n)
    BY <1>1, <2>1 DEF OpToRel
  <2> QED BY <2>1, <2>2
<1> QED BY <1>2

\* A row as the tallies see it.
TallyRow(row) == row.profit \in Nat \ {0} /\ row.instance.stem \in Nat

NoTally == [n |-> 0, best |-> 0, sum |-> 0]

TallyStep(t, row, g) ==
  IF InGroup(row, g)
  THEN [n |-> t.n + 1, best |-> IF row.profit > t.best THEN row.profit ELSE t.best,
        sum |-> t.sum + row.profit]
  ELSE t

\* The value of a function that is defined as that of Tally is.
TallyRule(rs, g, after, n) ==
  after = [m \in 0 .. n |-> IF m = 0 THEN NoTally ELSE TallyStep(after[m - 1], rs[m], g)]

\* There is such a function on the rows up to any place.
LEMMA TallyRuleExists ==
  ASSUME NEW rs, NEW g
  PROVE  \A n \in Nat : \E after : TallyRule(rs, g, after, n)
<1> DEFINE S == {n \in Nat : ~ \E after : TallyRule(rs, g, after, n)}
<1> SUFFICES ASSUME S # {} PROVE FALSE
  OBVIOUS
<1>1. PICK n \in S : \A m \in S : n <= m
  <2>1. S \subseteq Nat
    OBVIOUS
  <2> HIDE DEF S
  <2> QED BY <2>1, LeastNumber
<1>2. n \in Nat /\ ~ \E after : TallyRule(rs, g, after, n)
  OBVIOUS
<1>3. n # 0
  <2> DEFINE none == [m \in 0 .. 0 |-> NoTally]
  <2>1. none = [m \in 0 .. 0 |-> IF m = 0 THEN NoTally ELSE TallyStep(none[m - 1], rs[m], g)]
    OBVIOUS
  <2> HIDE DEF none
  <2>2. TallyRule(rs, g, none, 0)
    BY <2>1 DEF TallyRule
  <2> QED BY <1>2, <2>2
<1>4. n - 1 \in Nat /\ ~ (n <= n - 1)
  BY <1>2, <1>3
<1>5. PICK after : TallyRule(rs, g, after, n - 1)
  BY <1>1, <1>4
<1> DEFINE more == [m \in 0 .. n |-> IF m = n THEN TallyStep(after[n - 1], rs[n], g)
                                              ELSE after[m]]
           rule == [m \in 0 .. n |-> IF m = 0 THEN NoTally
                                     ELSE TallyStep(more[m - 1], rs[m], g)]
<1>6. ASSUME NEW m \in 0 .. n PROVE more[m] = rule[m]
  <2>1. CASE m = n
    <3>1. n - 1 \in 0 .. n /\ n - 1 # n /\ m # 0
      BY <1>2, <1>3, <2>1
    <3>2. more[n - 1] = after[n - 1]
      BY <3>1
    <3> QED BY <2>1, <3>1, <3>2
  <2>2. CASE m # n /\ m = 0
    <3>1. 0 \in 0 .. n - 1
      BY <1>4
    <3>2. after[0] = NoTally
      BY <1>5, <3>1 DEF TallyRule
    <3> QED BY <2>2, <3>2
  <2>3. CASE m # n /\ m # 0
    <3>1. m \in 0 .. n - 1 /\ m - 1 \in 0 .. n /\ m - 1 # n
      BY <1>2, <2>3
    <3>2. after[m] = TallyStep(after[m - 1], rs[m], g)
      BY <1>5, <2>3, <3>1 DEF TallyRule
    <3>3. more[m - 1] = after[m - 1] /\ more[m] = after[m]
      BY <2>3, <3>1
    <3> QED BY <2>3, <3>2, <3>3
  <2> QED BY <2>1, <2>2, <2>3
<1>7. more = rule
  <2>1. DOMAIN more = 0 .. n /\ DOMAIN rule = 0 .. n
    OBVIOUS
  <2>2. more = [m \in 0 .. n |-> more[m]] /\ rule = [m \in 0 .. n |-> rule[m]]
    OBVIOUS
  <2> HIDE DEF more, rule
  <2> QED BY <1>6, <2>2
<1>8. TallyRule(rs, g, more, n)
  <2> HIDE DEF more
  <2> QED BY <1>7 DEF TallyRule
<1> QED BY <1>2, <1>8

\* Hence Tally is the last value of one.
LEMMA TallyFollowsRule ==
  ASSUME NEW rs, Len(rs) \in Nat, NEW g
  PROVE  \E after : TallyRule(rs, g, after, Len(rs)) /\ Tally(rs, g) = after[Len(rs)]
<1> DEFINE n == Len(rs)
           body(v) == [m \in 0 .. n |-> IF m = 0 THEN NoTally
                                        ELSE TallyStep(v[m - 1], rs[m], g)]
           after == CHOOSE v : v = body(v)
<1>1. PICK v : v = body(v)
  <2>1. \E v : TallyRule(rs, g, v, n)
    BY TallyRuleExists
  <2> QED BY <2>1 DEF TallyRule
<1>2. after = body(after)
  <2> HIDE DEF body
  <2> QED BY <1>1
<1>3. Tally(rs, g) = after[n]
  BY DEF Tally, NoTally, TallyStep
<1> HIDE DEF after
<1> QED BY <1>2, <1>3 DEF TallyRule

\* The rows of a group up to the m-th.
GroupUpTo(rs, g, m) == {p \in 1 .. m : InGroup(rs[p], g)}

\* What one tally says after m rows.
Tallied(rs, g, t, m) ==
  /\ t.n \in Nat /\ t.best \in Nat /\ t.sum \in Nat
  /\ \A p \in GroupUpTo(rs, g, m) : rs[p].profit \in Nat /\ rs[p].profit <= t.best
  /\ IF GroupUpTo(rs, g, m) = {} THEN t.best = 0
     ELSE \E p \in GroupUpTo(rs, g, m) : rs[p].profit = t.best

\* A row more.
LEMMA TallyOneMore ==
  ASSUME NEW rs, NEW g, NEW t, NEW m \in Nat \ {0}, Tallied(rs, g, t, m - 1), TallyRow(rs[m])
  PROVE  Tallied(rs, g, TallyStep(t, rs[m], g), m)
<1> DEFINE u == TallyStep(t, rs[m], g)
           G == GroupUpTo(rs, g, m - 1)
           H == GroupUpTo(rs, g, m)
<1>1. \A p : p \in 1 .. m <=> p \in 1 .. m - 1 \/ p = m
  OBVIOUS
<1>2. rs[m].profit \in Nat \ {0}
  BY DEF TallyRow
<1>3. CASE InGroup(rs[m], g)
  <2>1. \A p : p \in H <=> p \in G \/ p = m
    BY <1>1, <1>3 DEF GroupUpTo
  <2>2. /\ u.n = t.n + 1 /\ u.sum = t.sum + rs[m].profit
        /\ u.best = IF rs[m].profit > t.best THEN rs[m].profit ELSE t.best
    BY <1>3 DEF TallyStep
  <2>3. /\ t.n \in Nat /\ t.best \in Nat /\ t.sum \in Nat
        /\ \A p \in G : rs[p].profit \in Nat /\ rs[p].profit <= t.best
        /\ G = {} => t.best = 0
        /\ G # {} => \E p \in G : rs[p].profit = t.best
    BY DEF Tallied
  <2> HIDE DEF u, G, H
  <2>4. u.n \in Nat /\ u.best \in Nat /\ u.sum \in Nat
    BY <1>2, <2>2, <2>3
  <2>5. t.best <= u.best /\ rs[m].profit <= u.best
    BY <1>2, <2>2, <2>3
  <2>6. ASSUME NEW p \in H PROVE rs[p].profit \in Nat /\ rs[p].profit <= u.best
    <3>1. CASE p = m
      BY <1>2, <2>5, <3>1
    <3>2. CASE p \in G
      BY <2>3, <2>4, <2>5, <3>2
    <3> QED BY <2>1, <3>1, <3>2
  <2>7. \E p \in H : rs[p].profit = u.best
    <3>1. CASE rs[m].profit > t.best
      BY <2>1, <2>2, <3>1
    <3>2. CASE ~ (rs[m].profit > t.best)
      <4>1. t.best # 0
        BY <1>2, <2>3, <3>2
      <4> QED BY <2>1, <2>2, <2>3, <3>2, <4>1
    <3> QED BY <3>1, <3>2
  <2>8. H # {}
    BY <2>1
  <2> QED BY <2>4, <2>6, <2>7, <2>8 DEF Tallied, u, H
<1>4. CASE ~ InGroup(rs[m], g)
  <2>1. H = G
    BY <1>1, <1>4 DEF GroupUpTo
  <2>2. u = t
    BY <1>4 DEF TallyStep
  <2> QED BY <2>1, <2>2 DEF Tallied
<1> QED BY <1>3, <1>4

\* The groups by their numbers.
LEMMA GroupsOfStems ==
  ASSUME NEW row, TallyRow(row)
  PROVE  /\ InGroup(row, 0)
         /\ InGroup(row, 1) <=> row.instance.stem \in 1 .. 50
         /\ InGroup(row, 2) <=> row.instance.stem \in 51 .. 100
<1> DEFINE stem == row.instance.stem
<1>1. stem \in Nat
  BY DEF TallyRow
<1>2. /\ stem \in 1 .. 50 => group_of(row.instance) = 1
      /\ stem \in 51 .. 100 => group_of(row.instance) = 2
      /\ stem \notin 1 .. 50 /\ stem \notin 51 .. 100 => group_of(row.instance) = 0
  BY <1>1 DEF group_of
<1> QED BY <1>2 DEF InGroup

\* The tallies of the two groups and of all rows, after m rows.
AllTallied(rs, t, m) ==
  /\ \A g \in 0 .. 2 : Tallied(rs, g, t[g], m)
  /\ t[0].n = m
  /\ (\A p \in 1 .. m : rs[p].instance.stem \in 1 .. 100) =>
       t[0].n = t[1].n + t[2].n /\ t[0].sum = t[1].sum + t[2].sum

\* They stay so with a row more.
LEMMA AllTalliedOneMore ==
  ASSUME NEW rs, NEW m \in Nat \ {0}, TallyRow(rs[m]), NEW t, AllTallied(rs, t, m - 1)
  PROVE  AllTallied(rs, [g \in 0 .. 2 |-> TallyStep(t[g], rs[m], g)], m)
<1> DEFINE u == [g \in 0 .. 2 |-> TallyStep(t[g], rs[m], g)]
<1>1. \A g \in 0 .. 2 : u[g] = TallyStep(t[g], rs[m], g) /\ Tallied(rs, g, t[g], m - 1)
  BY DEF AllTallied
<1>2. \A g \in 0 .. 2 : Tallied(rs, g, u[g], m)
  BY <1>1, TallyOneMore
<1>3. 0 \in 0 .. 2 /\ 1 \in 0 .. 2 /\ 2 \in 0 .. 2
  OBVIOUS
<1>4. /\ InGroup(rs[m], 0)
      /\ InGroup(rs[m], 1) <=> rs[m].instance.stem \in 1 .. 50
      /\ InGroup(rs[m], 2) <=> rs[m].instance.stem \in 51 .. 100
      /\ rs[m].instance.stem \in Nat /\ rs[m].profit \in Nat
  BY GroupsOfStems DEF TallyRow
<1> HIDE DEF u
<1>5. \A g \in 0 .. 2 :
        /\ InGroup(rs[m], g) =>
             u[g].n = t[g].n + 1 /\ u[g].sum = t[g].sum + rs[m].profit
        /\ ~ InGroup(rs[m], g) => u[g].n = t[g].n /\ u[g].sum = t[g].sum
  BY <1>1 DEF TallyStep
<1>6. /\ t[1].n \in Nat /\ t[1].sum \in Nat
      /\ t[2].n \in Nat /\ t[2].sum \in Nat
  BY <1>1, <1>3 DEF Tallied
<1>7. u[0].n = m
  BY <1>3, <1>4, <1>5 DEF AllTallied
<1>8. ASSUME \A p \in 1 .. m : rs[p].instance.stem \in 1 .. 100
      PROVE  u[0].n = u[1].n + u[2].n /\ u[0].sum = u[1].sum + u[2].sum
  <2>1. t[0].n = t[1].n + t[2].n /\ t[0].sum = t[1].sum + t[2].sum
    <3>1. 1 .. m - 1 \subseteq 1 .. m
      OBVIOUS
    <3> QED BY <1>8, <3>1 DEF AllTallied
  <2>2. rs[m].instance.stem \in 1 .. 100
    BY <1>8
  <2>3. InGroup(rs[m], 1) <=> ~ InGroup(rs[m], 2)
    BY <1>4, <2>2
  <2>4. u[0].n = t[0].n + 1 /\ u[0].sum = t[0].sum + rs[m].profit
    BY <1>3, <1>4, <1>5
  <2>5. CASE InGroup(rs[m], 1)
    <3>1. /\ u[1].n = t[1].n + 1 /\ u[1].sum = t[1].sum + rs[m].profit
          /\ u[2].n = t[2].n /\ u[2].sum = t[2].sum
      BY <1>3, <1>5, <2>3, <2>5
    <3>2. u[0].n = u[1].n + u[2].n
      BY <1>6, <2>1, <2>4, <3>1
    <3> QED BY <1>4, <1>6, <2>1, <2>4, <3>1, <3>2
  <2>6. CASE InGroup(rs[m], 2)
    <3>1. /\ u[2].n = t[2].n + 1 /\ u[2].sum = t[2].sum + rs[m].profit
          /\ u[1].n = t[1].n /\ u[1].sum = t[1].sum
      BY <1>3, <1>5, <2>3, <2>6
    <3>2. u[0].n = u[1].n + u[2].n
      BY <1>6, <2>1, <2>4, <3>1
    <3> QED BY <1>4, <1>6, <2>1, <2>4, <3>1, <3>2
  <2> QED BY <2>3, <2>5, <2>6
<1>9. AllTallied(rs, u, m)
  BY <1>2, <1>7, <1>8 DEF AllTallied
<1> QED BY <1>9 DEF u

\* So are the tallies of all rows.
LEMMA TalliesDescribe ==
  ASSUME NEW rs, Len(rs) \in Nat, \A p \in 1 .. Len(rs) : TallyRow(rs[p])
  PROVE  AllTallied(rs, [g \in 0 .. 2 |-> Tally(rs, g)], Len(rs))
<1> DEFINE L == Len(rs)
           after == [g \in 0 .. 2 |->
                       CHOOSE a : TallyRule(rs, g, a, L) /\ Tally(rs, g) = a[L]]
           t(m) == [g \in 0 .. 2 |-> after[g][m]]
           B == {m \in 0 .. L : ~ AllTallied(rs, t(m), m)}
<1>1. \A g \in 0 .. 2 : TallyRule(rs, g, after[g], L) /\ Tally(rs, g) = after[g][L]
  BY TallyFollowsRule
<1> HIDE DEF after
<1>2. t(L) = [g \in 0 .. 2 |-> Tally(rs, g)]
  BY <1>1
<1>3. ASSUME B # {} PROVE FALSE
  <2>1. PICK m \in B : \A l \in B : m <= l
    <3>1. B \subseteq Nat
      OBVIOUS
    <3> HIDE DEF B
    <3> QED BY <1>3, <3>1, LeastNumber
  <2>2. m \in 0 .. L /\ ~ AllTallied(rs, t(m), m)
    OBVIOUS
  <2>3. CASE m = 0
    <3>1. \A g \in 0 .. 2 : t(0)[g] = NoTally
      BY <1>1, 0 \in 0 .. L DEF TallyRule
    <3>2. 1 .. 0 = {} /\ 0 \in 0 .. 2 /\ 1 \in 0 .. 2 /\ 2 \in 0 .. 2
      OBVIOUS
    <3>3. NoTally.n = 0 /\ NoTally.best = 0 /\ NoTally.sum = 0
      BY DEF NoTally
    <3> HIDE DEF t, B
    <3>4. \A g \in 0 .. 2 : Tallied(rs, g, t(0)[g], 0)
      BY <3>1, <3>2, <3>3 DEF Tallied, GroupUpTo
    <3>5. AllTallied(rs, t(0), 0)
      BY <3>1, <3>2, <3>3, <3>4 DEF AllTallied
    <3> QED BY <2>2, <2>3, <3>5
  <2>4. CASE m # 0
    <3>1. m \in Nat \ {0} /\ m - 1 \in 0 .. L /\ ~ (m <= m - 1) /\ m \in 1 .. L
      BY <2>2, <2>4
    <3>2. AllTallied(rs, t(m - 1), m - 1)
      BY <2>1, <3>1
    <3>3. \A g \in 0 .. 2 : after[g][m] = TallyStep(after[g][m - 1], rs[m], g)
      BY <1>1, <2>2, <2>4 DEF TallyRule
    <3>4. t(m) = [g \in 0 .. 2 |-> TallyStep(t(m - 1)[g], rs[m], g)]
      BY <3>3
    <3> HIDE DEF t, B
    <3>5. AllTallied(rs, t(m), m)
      BY <3>1, <3>2, <3>4, AllTalliedOneMore
    <3> QED BY <2>2, <3>5
  <2> QED BY <2>3, <2>4
<1>4. AllTallied(rs, t(L), L)
  BY <1>3, L \in 0 .. L
<1> QED BY <1>2, <1>4

-----------------------------------------------------------------------------
(* The median.                                                             *)

\* A list of the places of, by their profits.
SortOf(rs, of, arr) ==
  /\ arr \in [1 .. Cardinality(of) -> of]
  /\ \A i, j \in 1 .. Cardinality(of) :
       i < j => arr[i] # arr[j] /\ rs[arr[i]].profit <= rs[arr[j]].profit

\* One of the least profit comes first.
LEMMA LeastProfit ==
  ASSUME NEW rs, NEW of, of # {}, \A p \in of : rs[p].profit \in Nat
  PROVE  \E d \in of : \A p \in of : rs[d].profit <= rs[p].profit
<1> DEFINE V == {rs[p].profit : p \in of}
<1>1. V \subseteq Nat /\ V # {}
  OBVIOUS
<1>2. PICK v \in V : \A w \in V : v <= w
  <2> HIDE DEF V
  <2> QED BY <1>1, LeastNumber
<1>3. PICK d \in of : rs[d].profit = v
  OBVIOUS
<1> QED BY <1>2, <1>3

\* What the insertion sort leaves, one more in front.
LEMMA SortOneMore ==
  ASSUME NEW rs, NEW of, IsFiniteSet(of), \A p \in of : rs[p].profit \in Nat,
         NEW d \in of, \A p \in of : rs[d].profit <= rs[p].profit,
         NEW arr, SortOf(rs, of \ {d}, arr)
  PROVE  \E more : SortOf(rs, of, more)
<1> DEFINE n == Cardinality(of \ {d})
           more == [i \in 1 .. n + 1 |-> IF i = 1 THEN d ELSE arr[i - 1]]
<1>1. n \in Nat /\ Cardinality(of) = n + 1
  <2>1. IsFiniteSet(of \ {d}) /\ Cardinality(of \ {d}) = Cardinality(of) - 1
    BY FS_RemoveElement
  <2>2. Cardinality(of \ {d}) \in Nat /\ Cardinality(of) \in Nat
    BY <2>1, FS_CardinalityType
  <2> QED BY <2>1, <2>2
<1>2. /\ arr \in [1 .. n -> of \ {d}]
      /\ \A i, j \in 1 .. n : i < j => arr[i] # arr[j] /\ rs[arr[i]].profit <= rs[arr[j]].profit
  BY DEF SortOf
<1> HIDE DEF n
<1>3. \A i \in 1 .. n + 1 : i # 1 => i - 1 \in 1 .. n
  BY <1>1
<1>4. more \in [1 .. n + 1 -> of]
  BY <1>2, <1>3
<1>5. ASSUME NEW i \in 1 .. n + 1, NEW j \in 1 .. n + 1, i < j
      PROVE  more[i] # more[j] /\ rs[more[i]].profit <= rs[more[j]].profit
  <2>1. j # 1 /\ j - 1 \in 1 .. n /\ more[j] = arr[j - 1] /\ arr[j - 1] \in of \ {d}
    BY <1>1, <1>2, <1>5
  <2>2. CASE i = 1
    BY <2>1, <2>2
  <2>3. CASE i # 1
    <3>1. i - 1 \in 1 .. n /\ i - 1 < j - 1 /\ more[i] = arr[i - 1]
      BY <1>1, <1>5, <2>3
    <3> QED BY <1>2, <2>1, <3>1
  <2> QED BY <2>2, <2>3
<1> HIDE DEF more
<1> QED BY <1>1, <1>4, <1>5 DEF SortOf

\* Any finite set of rows can be sorted.
LEMMA SortExists ==
  ASSUME NEW rs, NEW of, IsFiniteSet(of), \A p \in of : rs[p].profit \in Nat
  PROVE  \E arr : SortOf(rs, of, arr)
<1> DEFINE Bad == {S \in SUBSET of : ~ \E arr : SortOf(rs, S, arr)}
           sizes == {Cardinality(S) : S \in Bad}
<1>1. ASSUME Bad # {} PROVE FALSE
  <2>1. \A S \in Bad : IsFiniteSet(S) /\ S \subseteq of
    BY FS_Subset
  <2>2. \A S \in Bad : ~ \E arr : SortOf(rs, S, arr)
    OBVIOUS
  <2>3. \A S \in SUBSET of : S \notin Bad => \E arr : SortOf(rs, S, arr)
    OBVIOUS
  <2> HIDE DEF Bad
  <2>4. sizes \subseteq Nat /\ sizes # {}
    BY <1>1, <2>1, FS_CardinalityType
  <2>5. PICK n \in sizes : \A m \in sizes : n <= m
    <3> HIDE DEF sizes
    <3> QED BY <2>4, LeastNumber
  <2>6. PICK S \in Bad : Cardinality(S) = n
    OBVIOUS
  <2>7. S # {}
    <3>1. Cardinality({}) = 0 /\ 1 .. 0 = {}
      BY FS_EmptySet
    <3>2. SortOf(rs, {}, <<>>)
      BY <3>1 DEF SortOf
    <3> QED BY <2>2, <3>2
  <2>8. PICK d \in S : \A p \in S : rs[d].profit <= rs[p].profit
    BY <2>1, <2>7, LeastProfit
  <2>9. S \ {d} \notin Bad
    <3>1. n \in Nat /\ Cardinality(S \ {d}) = n - 1
      BY <2>1, <2>4, <2>6, FS_RemoveElement
    <3>2. Cardinality(S \ {d}) \notin sizes
      BY <2>5, <3>1
    <3> QED BY <3>2
  <2>10. PICK arr : SortOf(rs, S \ {d}, arr)
    BY <2>1, <2>3, <2>9
  <2>11. \E more : SortOf(rs, S, more)
    BY <2>1, <2>8, <2>10, SortOneMore
  <2> QED BY <2>2, <2>11
<1> QED BY <1>1

\* What the sort leaves is therefore such a list.
LEMMA SortedIsSort ==
  ASSUME NEW rs, NEW of, IsFiniteSet(of), \A p \in of : rs[p].profit \in Nat
  PROVE  SortOf(rs, of, Sorted(rs, of))
<1>1. PICK arr : SortOf(rs, of, arr)
  BY SortExists
<1>2. \E x \in [1 .. Cardinality(of) -> of] :
        \A i, j \in DOMAIN x : i < j => x[i] # x[j] /\ rs[x[i]].profit <= rs[x[j]].profit
  <2>1. DOMAIN arr = 1 .. Cardinality(of)
    BY <1>1 DEF SortOf
  <2> QED BY <1>1, <2>1 DEF SortOf
<1>3. /\ Sorted(rs, of) \in [1 .. Cardinality(of) -> of]
      /\ \A i, j \in DOMAIN Sorted(rs, of) :
           i < j => /\ Sorted(rs, of)[i] # Sorted(rs, of)[j]
                    /\ rs[Sorted(rs, of)[i]].profit <= rs[Sorted(rs, of)[j]].profit
  BY <1>2 DEF Sorted
<1> QED BY <1>3 DEF SortOf

\* A stretch of the list holds as many rows as it is long.
LEMMA StretchCounts ==
  ASSUME NEW rs, NEW of, IsFiniteSet(of), NEW arr, SortOf(rs, of, arr), NEW T \in SUBSET of,
         NEW i \in 1 .. Cardinality(of), NEW j \in 1 .. Cardinality(of),
         \A l \in i .. j : arr[l] \in T
  PROVE  Cardinality(T) \in Nat /\ Cardinality(T) >= j - i + 1
<1> DEFINE f == [l \in i .. j |-> arr[l]]
           n == Cardinality(of)
<1>1. IsFiniteSet(T) /\ Cardinality(T) \in Nat /\ n \in Nat
  BY FS_Subset, FS_CardinalityType
<1>2. /\ \A l \in i .. j : f[l] = arr[l] /\ f[l] \in T /\ l \in 1 .. n /\ l \in Int
      /\ f \in [i .. j -> T]
  BY <1>1
<1>3. \A l, m \in 1 .. n : l < m => arr[l] # arr[m]
  BY DEF SortOf
<1>4. i \in Int /\ j \in Int
  BY <1>1
<1> HIDE DEF f, n
<1>5. \A l, m \in i .. j : f[l] = f[m] => l = m
  <2> SUFFICES ASSUME NEW l \in i .. j, NEW m \in i .. j, l # m PROVE f[l] # f[m]
    OBVIOUS
  <2>1. l < m \/ m < l
    BY <1>2
  <2> QED BY <1>2, <1>3, <2>1
<1>6. f \in Injection(i .. j, T)
  BY <1>2, <1>5 DEF Injection, IsInjective
<1>7. Cardinality(i .. j) <= Cardinality(T)
  BY <1>1, <1>6, FS_Injection
<1>8. Cardinality(i .. j) = IF i > j THEN 0 ELSE j - i + 1
  BY <1>4, FS_Interval
<1> QED BY <1>1, <1>4, <1>7, <1>8

\* Half of the rows lie on each side of their median.
LEMMA MedianHalves ==
  ASSUME NEW rs, NEW of, IsFiniteSet(of), of # {}, \A p \in of : rs[p].profit \in Nat
  PROVE  /\ 2 * Cardinality({p \in of : 2 * rs[p].profit <= median(rs, of)}) >= Cardinality(of)
         /\ 2 * Cardinality({p \in of : 2 * rs[p].profit >= median(rs, of)}) >= Cardinality(of)
<1> DEFINE n == Cardinality(of)
           arr == Sorted(rs, of)
           a(i) == rs[arr[i]].profit
           mid == median(rs, of)
           low == {p \in of : 2 * rs[p].profit <= mid}
           high == {p \in of : 2 * rs[p].profit >= mid}
<1>1. n \in Nat /\ n # 0
  BY FS_CardinalityType, FS_EmptySet
<1>2. SortOf(rs, of, arr)
  BY SortedIsSort
<1>3. /\ \A i \in 1 .. n : arr[i] \in of /\ a(i) \in Nat
      /\ \A i, j \in 1 .. n : i < j => a(i) <= a(j)
  BY <1>2 DEF SortOf
<1>4. \A i, j \in 1 .. n : i <= j => a(i) <= a(j)
  <2> SUFFICES ASSUME NEW i \in 1 .. n, NEW j \in 1 .. n, i <= j PROVE a(i) <= a(j)
    OBVIOUS
  <2>1. i = j \/ i < j
    BY <1>1
  <2>2. CASE i = j
    BY <1>3, <2>2
  <2>3. CASE i < j
    BY <1>3, <2>3
  <2> QED BY <2>1, <2>2, <2>3
<1>5. low \in SUBSET of /\ high \in SUBSET of
  OBVIOUS
<1>6. CASE n % 2 = 1
  <2> DEFINE h == (n + 1) \div 2
  <2>1. h \in 1 .. n /\ 2 * h = n + 1
    BY <1>1, <1>6
  <2>2. mid = 2 * a(h)
    BY <1>1, <1>6 DEF median
  <2> HIDE DEF n, arr, h, mid
  <2>3. \A l \in 1 .. h : arr[l] \in low
    BY <1>1, <1>3, <1>4, <2>1, <2>2
  <2>4. \A l \in h .. n : arr[l] \in high
    BY <1>1, <1>3, <1>4, <2>1, <2>2
  <2>5. 1 \in 1 .. n /\ n \in 1 .. n
    BY <1>1
  <2> HIDE DEF low, high
  <2>6. Cardinality(low) \in Nat /\ Cardinality(low) >= h - 1 + 1
    BY <1>2, <1>5, <2>1, <2>3, <2>5, StretchCounts DEF n
  <2>7. Cardinality(high) \in Nat /\ Cardinality(high) >= n - h + 1
    BY <1>2, <1>5, <2>1, <2>4, <2>5, StretchCounts DEF n
  <2>8. h \in Int
    BY <2>1
  <2>9. 2 * Cardinality(low) >= n /\ 2 * Cardinality(high) >= n
    BY <1>1, <2>1, <2>6, <2>7, <2>8
  <2> QED BY <2>9 DEF low, high, n, mid
<1>7. CASE n % 2 # 1
  <2> DEFINE h == n \div 2
  <2>1. h \in 1 .. n /\ h + 1 \in 1 .. n /\ 2 * h = n
    BY <1>1, <1>7
  <2>2. mid = a(h) + a(h + 1)
    BY <1>1, <1>7 DEF median
  <2> HIDE DEF n, arr, h, mid
  <2>3. a(h) \in Nat /\ a(h + 1) \in Nat /\ a(h) <= a(h + 1)
    BY <1>1, <1>3, <1>4, <2>1
  <2>4. \A l \in 1 .. h : arr[l] \in low
    <3> SUFFICES ASSUME NEW l \in 1 .. h PROVE arr[l] \in low
      OBVIOUS
    <3>1. l \in 1 .. n /\ l <= h
      BY <1>1, <2>1
    <3>2. a(l) \in Nat /\ a(l) <= a(h) /\ arr[l] \in of
      BY <1>3, <1>4, <2>1, <3>1
    <3>3. 2 * a(l) <= mid
      BY <2>2, <2>3, <3>2
    <3> QED BY <3>2, <3>3
  <2>5. \A l \in h + 1 .. n : arr[l] \in high
    <3> SUFFICES ASSUME NEW l \in h + 1 .. n PROVE arr[l] \in high
      OBVIOUS
    <3>1. l \in 1 .. n /\ h + 1 <= l
      BY <1>1, <2>1
    <3>2. a(l) \in Nat /\ a(h + 1) <= a(l) /\ arr[l] \in of
      BY <1>3, <1>4, <2>1, <3>1
    <3>3. 2 * a(l) >= mid
      BY <2>2, <2>3, <3>2
    <3> QED BY <3>2, <3>3
  <2>6. 1 \in 1 .. n /\ n \in 1 .. n
    BY <1>1
  <2> HIDE DEF low, high
  <2>7. Cardinality(low) \in Nat /\ Cardinality(low) >= h - 1 + 1
    BY <1>2, <1>5, <2>1, <2>4, <2>6, StretchCounts DEF n
  <2>8. Cardinality(high) \in Nat /\ Cardinality(high) >= n - (h + 1) + 1
    BY <1>2, <1>5, <2>1, <2>5, <2>6, StretchCounts DEF n
  <2>9. h \in Int
    BY <2>1
  <2>10. 2 * Cardinality(low) >= n /\ 2 * Cardinality(high) >= n
    BY <1>1, <2>1, <2>7, <2>8, <2>9
  <2> QED BY <2>10 DEF low, high, n, mid
<1> QED BY <1>6, <1>7

-----------------------------------------------------------------------------
(* When the statistics stand in the file.                                  *)

\* Notes stand below all rows only, and are those of these rows; a battery
\* that is killed among its notes leaves both.
Noted ==
  /\ phase = "loop" => csv.notes = "none"
  /\ csv.notes # "none" \/ phase = "report" =>
       idx = Len(instances) + 1 /\ stats = Statistics(csv.rows)

\* A battery starts without notes,
LEMMA NotedInit == BatteryInit => Noted
BY DEF BatteryInit, EmptyCsv, Noted

\* and no step of the script, a kill neither, puts them anywhere else.
LEMMA NotedNext == BatteryInv /\ Noted /\ [BatteryNext]_batteryVars => Noted'
<1> SUFFICES ASSUME BatteryInv, Noted, [BatteryNext]_batteryVars PROVE Noted'
  OBVIOUS
<1>0. csv \in [rows : Seq([run : Nat, instance : Names, seed : Nat, profit : Profits]),
               notes : {"none", "part", "all"}]
  BY DEF BatteryInv, BatteryType
<1>1. CASE Start
  BY <1>1 DEF Start, WriteHeader, EmptyCsv, Noted
<1>2. CASE RunOnce
  <2>1. phase = "loop" /\ csv.notes = "none"
    BY <1>2 DEF RunOnce, Noted
  <2>2. csv'.notes = csv.notes /\ phase' \in {"loop", "idle"}
    BY <1>0, <1>2, <2>1 DEF RunOnce, Abort, Record
  <2> QED BY <2>1, <2>2 DEF Noted
<1>3. CASE Compute
  <2>1. idx = Len(instances) + 1
    <3>1. idx \in 1 .. Len(instances) + 1 /\ Len(instances) \in Nat
      BY LenProperties DEF BatteryInv, BatteryType
    <3> QED BY <1>3, <3>1 DEF Compute
  <2> QED BY <1>3, <2>1 DEF Compute, Noted
<1>4. CASE WriteNotes
  <2>1. /\ csv'.rows = csv.rows /\ phase = "report" /\ phase' # "loop"
        /\ UNCHANGED <<instances, idx, stats>>
    BY <1>0, <1>4 DEF WriteNotes
  <2>2. idx' = Len(instances') + 1 /\ stats' = Statistics(csv'.rows)
    BY <2>1 DEF Noted
  <2> QED BY <2>1, <2>2 DEF Noted
<1>5. CASE Killed
  BY <1>5 DEF Killed, Abort, Noted
<1>6. CASE UNCHANGED batteryVars
  BY <1>6 DEF batteryVars, Noted
<1> QED BY <1>1, <1>2, <1>3, <1>4, <1>5, <1>6 DEF BatteryNext

\* The numbers printed below the rows of a battery (run_experiments.sh, its
\* awk program) are those of the rows: a best profit that is attained, a
\* median between two halves, groups that add up; and no number stands below
\* a part of the rows, wherever the script is killed.
THEOREM StatisticsAreTheRows == BatterySpec => []StatisticsDescribeTheRows
<1>1. ASSUME BatteryInv, Noted PROVE StatisticsDescribeTheRows
  <2> SUFFICES ASSUME csv.notes # "none" PROVE StatisticsDescribeTheRows
    BY DEF StatisticsDescribeTheRows
  <2> DEFINE rs == csv.rows
             L == Len(csv.rows)
             t == [g \in 0 .. 2 |-> Tally(rs, g)]
             of(g) == {p \in DOMAIN csv.rows : InGroup(rs[p], g)}
             group(g) == IF g = 0 THEN Nat ELSE 50 * g - 49 .. 50 * g
             B == [run : Nat, instance : Names, seed : Nat, profit : Profits]
  <2>1. rs \in Seq(B) /\ L \in Nat /\ DOMAIN csv.rows = 1 .. L
    <3>1. csv \in [rows : Seq(B), notes : {"none", "part", "all"}]
      BY <1>1 DEF BatteryInv, BatteryType
    <3> HIDE DEF B
    <3>2. csv.rows \in Seq(B)
      BY <3>1
    <3> QED BY <3>2, LenProperties
  <2>2. \A p \in 1 .. L : TallyRow(rs[p]) /\ rs[p].instance.stem \in Stems
    <3> SUFFICES ASSUME NEW p \in 1 .. L
                 PROVE  TallyRow(rs[p]) /\ rs[p].instance.stem \in Stems
      OBVIOUS
    <3>1. rs[p] \in B
      <4> HIDE DEF B
      <4> QED BY <2>1, ElementOfSeq
    <3>2. rs[p].profit \in Profits /\ rs[p].instance \in Names
      BY <3>1
    <3>3. rs[p].instance.stem \in Stems
      BY <3>2 DEF Names
    <3> QED BY <3>2, <3>3, FilesAssumption, ProfitsAssumption DEF TallyRow
  <2>3. AllTallied(rs, t, L)
    BY <2>1, <2>2, TalliesDescribe
  <2>4. L = Len(instances) * runs
    <3>1. idx = Len(instances) + 1 /\ Len(instances) \in Nat /\ runs \in Nat
      <4>1. instances \in Seq(Files) /\ runs \in RunCounts
        BY <1>1 DEF BatteryInv, BatteryType
      <4>2. idx = Len(instances) + 1
        BY <1>1 DEF Noted
      <4> QED BY <4>1, <4>2, FirstCall, LenProperties
    <3>2. L = Before(idx, runs) + 1 - 1
      <4>1. Len(csv.rows) = Before(idx, runs) + run - 1 /\ run = 1
        BY <1>1, <3>1 DEF BatteryInv, BatteryCounted
      <4> QED BY <4>1
    <3>3. Before(idx, runs) = Len(instances) * runs
      BY <3>1 DEF Before
    <3>4. Len(instances) * runs \in Nat
      BY <3>1
    <3> HIDE DEF L
    <3> QED BY <3>2, <3>3, <3>4
  <2>5. /\ DOMAIN stats = 0 .. 2
        /\ \A g \in 0 .. 2 : /\ stats[g].n = t[g].n /\ stats[g].best = t[g].best
                             /\ stats[g].sum = t[g].sum
                             /\ stats[g].median = median(rs, of(g))
    <3>1. stats = [g \in 0 .. 2 |-> Summary(rs, g)]
      BY <1>1 DEF Noted, Statistics
    <3>2. ASSUME NEW g \in 0 .. 2
          PROVE  /\ stats[g].n = t[g].n /\ stats[g].best = t[g].best
                 /\ stats[g].sum = t[g].sum
                 /\ stats[g].median = median(rs, of(g))
      <4>1. stats[g] = Summary(rs, g) /\ t[g] = Tally(rs, g)
        BY <3>1
      <4>2. /\ Summary(rs, g).n = Tally(rs, g).n /\ Summary(rs, g).best = Tally(rs, g).best
            /\ Summary(rs, g).sum = Tally(rs, g).sum
            /\ Summary(rs, g).median = median(rs, of(g))
        BY DEF Summary
      <4> QED BY <4>1, <4>2
    <3>3. DOMAIN stats = 0 .. 2
      BY <3>1
    <3> QED BY <3>2, <3>3
  <2>6. ASSUME NEW g \in 0 .. 2
        PROVE  of(g) = {p \in DOMAIN csv.rows : csv.rows[p].instance.stem \in group(g)}
    <3>1. ASSUME NEW p \in 1 .. L
          PROVE  InGroup(rs[p], g) <=> rs[p].instance.stem \in group(g)
      <4>1. /\ TallyRow(rs[p]) /\ rs[p].instance.stem \in Nat
        BY <2>2 DEF TallyRow
      <4>2. CASE g = 0
        BY <4>1, <4>2, GroupsOfStems
      <4>3. CASE g = 1
        <5>1. group(g) = 1 .. 50
          BY <4>3
        <5> QED BY <4>1, <4>3, <5>1, GroupsOfStems
      <4>4. CASE g = 2
        <5>1. group(g) = 51 .. 100
          BY <4>4
        <5> QED BY <4>1, <4>4, <5>1, GroupsOfStems
      <4> QED BY <4>2, <4>3, <4>4
    <3> QED BY <2>1, <3>1
  <2>7. ASSUME NEW g \in 0 .. 2, of(g) # {}
        PROVE  /\ \E p \in of(g) : rs[p].profit = stats[g].best
               /\ \A p \in of(g) : rs[p].profit <= stats[g].best
               /\ 2 * Cardinality({p \in of(g) : 2 * rs[p].profit <= stats[g].median})
                    >= Cardinality(of(g))
               /\ 2 * Cardinality({p \in of(g) : 2 * rs[p].profit >= stats[g].median})
                    >= Cardinality(of(g))
    <3>1. of(g) = GroupUpTo(rs, g, L)
      BY <2>1 DEF GroupUpTo
    <3>2. Tallied(rs, g, t[g], L) /\ stats[g].best = t[g].best
      BY <2>3, <2>5 DEF AllTallied
    <3>3. /\ \E p \in of(g) : rs[p].profit = stats[g].best
          /\ \A p \in of(g) : rs[p].profit <= stats[g].best
      BY <2>7, <3>1, <3>2 DEF Tallied
    <3>4. IsFiniteSet(of(g)) /\ \A p \in of(g) : rs[p].profit \in Nat
      <4>1. IsFiniteSet(1 .. L) /\ of(g) \subseteq 1 .. L
        BY <2>1, FS_Interval
      <4>2. IsFiniteSet(of(g))
        BY <4>1, FS_Subset
      <4> QED BY <2>2, <4>1, <4>2 DEF TallyRow
    <3>5. stats[g].median = median(rs, of(g))
      BY <2>5
    <3>6. /\ 2 * Cardinality({p \in of(g) : 2 * rs[p].profit <= median(rs, of(g))})
               >= Cardinality(of(g))
          /\ 2 * Cardinality({p \in of(g) : 2 * rs[p].profit >= median(rs, of(g))})
               >= Cardinality(of(g))
      <4> HIDE DEF of, rs
      <4> QED BY <2>7, <3>4, MedianHalves
    <3> HIDE DEF of, rs
    <3> QED BY <3>3, <3>5, <3>6
  <2>8. /\ stats[0].n = L
        /\ Stems \subseteq 1 .. 100 => /\ stats[0].n = stats[1].n + stats[2].n
                                       /\ stats[0].sum = stats[1].sum + stats[2].sum
    <3>1. 0 \in 0 .. 2 /\ 1 \in 0 .. 2 /\ 2 \in 0 .. 2
      OBVIOUS
    <3>2. Stems \subseteq 1 .. 100 => \A p \in 1 .. L : rs[p].instance.stem \in 1 .. 100
      BY <2>2
    <3> HIDE DEF t
    <3> QED BY <2>3, <2>5, <3>1, <3>2 DEF AllTallied
  <2> QED BY <2>4, <2>5, <2>6, <2>7, <2>8 DEF StatisticsDescribeTheRows
<1>2. BatterySpec => [](BatteryInv /\ Noted)
  <2>1. BatteryInit => BatteryInv /\ Noted
    BY BatteryInitInv, NotedInit
  <2>2. BatteryInv /\ Noted /\ [BatteryNext]_batteryVars => (BatteryInv /\ Noted)'
    BY BatteryNextInv, NotedNext
  <2> QED BY <2>1, <2>2, PTL DEF BatterySpec
<1> QED BY <1>1, <1>2, PTL

-----------------------------------------------------------------------------
(* Which words are values.                                                 *)

\* The value of a function that is defined as IsValue is.
ValueRule(value, n) ==
  /\ value \in [0 .. n -> BOOLEAN]
  /\ \A p \in 0 .. n :
       value[p] <=> p > 1 /\ ~ value[p - 1] /\ argv[p - 1] \in ValueFlags

\* There is such a function on the words up to any place: the first place
\* without one would be behind a place with one.
LEMMA ValueRuleExists == \A n \in Nat : \E value : ValueRule(value, n)
<1> DEFINE S == {n \in Nat : ~ \E value : ValueRule(value, n)}
<1> SUFFICES ASSUME S # {} PROVE FALSE
  OBVIOUS
<1>1. PICK n \in S : \A m \in S : <<m, n>> \notin OpToRel(<, Nat)
  <2>1. IsWellFoundedOn(OpToRel(<, Nat), Nat)
    BY NatLessThanWellFounded
  <2> HIDE DEF S
  <2>2. S \subseteq Nat
    BY DEF S
  <2> QED BY <2>1, <2>2, WFMin
<1>2. n \in Nat /\ ~ \E value : ValueRule(value, n)
  BY <1>1
<1>3. CASE n = 0
  <2> DEFINE none == [p \in 0 .. 0 |-> FALSE]
  <2>1. none \in [0 .. 0 -> BOOLEAN] /\ ~ none[0]
    OBVIOUS
  <2>2. \A p \in 0 .. 0 : p = 0
    OBVIOUS
  <2> HIDE DEF none
  <2>3. ValueRule(none, 0)
    BY <2>1, <2>2 DEF ValueRule
  <2> QED BY <1>2, <1>3, <2>3
<1>4. CASE n # 0
  <2>1. n - 1 \in Nat /\ n - 1 < n
    BY <1>2, <1>4
  <2>2. PICK value : ValueRule(value, n - 1)
    <3>1. <<n - 1, n>> \in OpToRel(<, Nat)
      BY <1>2, <2>1 DEF OpToRel
    <3> QED BY <1>1, <2>1, <3>1
  <2> DEFINE last == n > 1 /\ ~ value[n - 1] /\ argv[n - 1] \in ValueFlags
             more == [p \in 0 .. n |-> IF p = n THEN last ELSE value[p]]
  <2>3. /\ more \in [0 .. n -> BOOLEAN]
        /\ more[n] <=> last
        /\ \A p \in 0 .. n - 1 : more[p] <=> value[p]
    <3>1. value \in [0 .. n - 1 -> BOOLEAN] /\ last \in BOOLEAN
      BY <2>2 DEF ValueRule
    <3>2. n \in 0 .. n /\ \A p \in 0 .. n : p # n => p \in 0 .. n - 1
      BY <1>2
    <3>3. 0 .. n - 1 \subseteq 0 .. n /\ n \notin 0 .. n - 1
      BY <1>2
    <3> HIDE DEF last
    <3> QED BY <3>1, <3>2, <3>3
  <2> HIDE DEF more
  <2>4. ASSUME NEW p \in 0 .. n
        PROVE  more[p] <=> p > 1 /\ ~ more[p - 1] /\ argv[p - 1] \in ValueFlags
    <3>1. CASE p = n
      <4>1. n - 1 \in 0 .. n - 1
        BY <1>2, <1>4
      <4> QED BY <2>3, <3>1, <4>1
    <3>2. CASE p # n
      <4>1. p \in 0 .. n - 1 /\ (p > 1 => p - 1 \in 0 .. n - 1)
        BY <1>2, <3>2
      <4> QED BY <2>2, <2>3, <4>1 DEF ValueRule
    <3> QED BY <3>1, <3>2
  <2>5. ValueRule(more, n)
    BY <2>3, <2>4 DEF ValueRule
  <2> QED BY <1>2, <2>5
<1> QED BY <1>3, <1>4

\* Hence IsValue is one.
LEMMA IsValueFollowsRule == ASSUME Len(argv) \in Nat PROVE ValueRule(IsValue, Len(argv))
<1> DEFINE n == Len(argv)
           body(v) == [p \in 0 .. n |-> p > 1 /\ ~ v[p - 1] /\ argv[p - 1] \in ValueFlags]
<1>1. PICK value : ValueRule(value, n)
  BY ValueRuleExists
<1>2. value = body(value)
  BY <1>1 DEF ValueRule
<1>3. IsValue = CHOOSE v : v = body(v)
  BY DEF IsValue
<1>4. IsValue = body(IsValue)
  <2> HIDE DEF body
  <2> QED BY <1>2, <1>3
<1> QED BY <1>4 DEF ValueRule

\* A place is followed by a place, or by a value and then a place.
LEMMA NextPlaces ==
  ASSUME Len(argv) \in Nat, DOMAIN argv = 1 .. Len(argv), NEW n \in Places
  PROVE  /\ Places \subseteq 1 .. Len(argv)
         /\ argv[n] \notin ValueFlags =>
              /\ n + 1 \in Places \cup {Len(argv) + 1}
              /\ \A p \in Places : p < n + 1 <=> p < n \/ p = n
         /\ argv[n] \in ValueFlags /\ n < Len(argv) =>
              /\ n + 2 \in Places \cup {Len(argv) + 1}
              /\ \A p \in Places : p < n + 2 <=> p < n \/ p = n
<1>1. n \in 1 .. Len(argv) /\ ~ IsValue[n] /\ Places \subseteq 1 .. Len(argv)
  BY DEF Places
<1>2. ValueRule(IsValue, Len(argv))
  BY IsValueFollowsRule
<1>3. ASSUME argv[n] \notin ValueFlags
      PROVE  /\ n + 1 \in Places \cup {Len(argv) + 1}
             /\ \A p \in Places : p < n + 1 <=> p < n \/ p = n
  <2>1. n < Len(argv) => ~ IsValue[n + 1]
    BY <1>1, <1>2, <1>3 DEF ValueRule
  <2>2. n + 1 \in Places \cup {Len(argv) + 1}
    BY <1>1, <2>1 DEF Places
  <2> QED BY <1>1, <2>2
<1>4. ASSUME argv[n] \in ValueFlags, n < Len(argv)
      PROVE  /\ n + 2 \in Places \cup {Len(argv) + 1}
             /\ \A p \in Places : p < n + 2 <=> p < n \/ p = n
  <2>1. IsValue[n + 1]
    BY <1>1, <1>2, <1>4 DEF ValueRule
  <2>2. n + 1 < Len(argv) => ~ IsValue[n + 2]
    <3> SUFFICES ASSUME n + 1 < Len(argv) PROVE ~ IsValue[n + 2]
      OBVIOUS
    <3>1. n + 2 \in 0 .. Len(argv) /\ (n + 2) - 1 = n + 1
      BY <1>1
    <3> QED BY <1>2, <2>1, <3>1 DEF ValueRule
  <2>3. n + 2 \in Places \cup {Len(argv) + 1}
    BY <1>1, <1>4, <2>2 DEF Places
  <2>4. n + 1 \notin Places
    BY <2>1 DEF Places
  <2> QED BY <1>1, <2>3, <2>4
<1> QED BY <1>1, <1>3, <1>4

-----------------------------------------------------------------------------
(* What the line says up to a place, and what the options hold.            *)

Absent(n, flag) == \A p \in Places : p < n => argv[p] # flag

LastPlace(n, flag, p) ==
  /\ p \in Places /\ p < n /\ argv[p] = flag
  /\ \A q \in Places : q < n /\ argv[q] = flag => q <= p

SaysWord(n, flag, default, w) ==
  \/ Absent(n, flag) /\ w = default
  \/ \E p : LastPlace(n, flag, p) /\ w = argv[p + 1]

SaysNumber(n, flag, default, x) ==
  \/ Absent(n, flag) /\ x = default
  \/ \E p : /\ LastPlace(n, flag, p)
            /\ argv[p + 1] \in DOMAIN IntegerOf /\ x = IntegerOf[argv[p + 1]]

SaysPath(n, path) ==
  /\ path # "" => \E p \in Places : p < n /\ Plain(argv[p]) /\ argv[p] = path
  /\ \A p \in Places : p < n /\ Plain(argv[p]) => argv[p] \in {"", path}

Enabled(o, flag) == IF NeighborhoodOf[flag] \in o.enabled THEN 1 ELSE 0

Understood(n, o) ==
  /\ SaysWord(n, "--algo", "VNS", o.algo)
  /\ SaysNumber(n, "--time-limit", DefaultTimeLimit, o.time_limit_ms)
  /\ SaysNumber(n, "--seed", 42, o.seed)
  /\ SaysNumber(n, "--ils-perturbation-strength", 4, o.strength)
  /\ \A f \in DOMAIN NeighborhoodOf : SaysNumber(n, f, 1, Enabled(o, f))
  /\ SaysPath(n, o.instance_path)
  /\ o.csv <=> \E p \in Places : p < n /\ argv[p] = "--csv"
  /\ o.verbose <=> \E p \in Places : p < n /\ argv[p] \in {"--verbose", "-v"}

\* The options of a line as far as it has been read: always such that the
\* search has a limit and the kick a strength.
OptionsType ==
  [instance_path : Words, algo : Words, time_limit_ms : Nat \ {0}, seed : Int,
   strength : 1 .. 8, enabled : SUBSET {"add", "swap_1_1", "swap_2_1", "swap_1_2"},
   csv : BOOLEAN, verbose : BOOLEAN, help : BOOLEAN]

\* A word that takes no value leaves what the line says of every flag.
LEMMA OtherWords ==
  ASSUME Len(argv) \in Nat, DOMAIN argv = 1 .. Len(argv),
         NEW n \in Places, argv[n] \notin ValueFlags,
         NEW flag \in ValueFlags, NEW default, NEW x
  PROVE  /\ SaysWord(n, flag, default, x) => SaysWord(n + 1, flag, default, x)
         /\ SaysNumber(n, flag, default, x) => SaysNumber(n + 1, flag, default, x)
<1>1. \A p \in Places : p < n + 1 <=> p < n \/ p = n
  BY NextPlaces
<1>2. Absent(n, flag) => Absent(n + 1, flag)
  BY <1>1 DEF Absent
<1>3. \A p : LastPlace(n, flag, p) => LastPlace(n + 1, flag, p)
  BY <1>1 DEF LastPlace
<1> QED BY <1>2, <1>3 DEF SaysWord, SaysNumber

\* A flag with its value says something of itself and nothing of the others.
LEMMA FlagAndValue ==
  ASSUME Len(argv) \in Nat, DOMAIN argv = 1 .. Len(argv),
         NEW n \in Places, argv[n] \in ValueFlags, n < Len(argv),
         NEW flag, NEW default, NEW x
  PROVE  /\ argv[n] # flag =>
              /\ SaysWord(n, flag, default, x) => SaysWord(n + 2, flag, default, x)
              /\ SaysNumber(n, flag, default, x) => SaysNumber(n + 2, flag, default, x)
         /\ argv[n] = flag =>
              /\ SaysWord(n + 2, flag, default, argv[n + 1])
              /\ argv[n + 1] \in DOMAIN IntegerOf =>
                   SaysNumber(n + 2, flag, default, IntegerOf[argv[n + 1]])
<1>1. /\ \A p \in Places : p < n + 2 <=> p < n \/ p = n
      /\ Places \subseteq 1 .. Len(argv)
  BY NextPlaces
<1>2. ASSUME argv[n] # flag
      PROVE  /\ Absent(n, flag) => Absent(n + 2, flag)
             /\ \A p : LastPlace(n, flag, p) => LastPlace(n + 2, flag, p)
  <2>1. \A p \in Places : argv[p] = flag => (p < n + 2 <=> p < n)
    BY <1>1, <1>2
  <2>2. Absent(n, flag) => Absent(n + 2, flag)
    BY <2>1 DEF Absent
  <2>3. \A p : LastPlace(n, flag, p) => LastPlace(n + 2, flag, p)
    BY <2>1 DEF LastPlace
  <2> QED BY <2>2, <2>3
<1>3. ASSUME argv[n] = flag PROVE LastPlace(n + 2, flag, n)
  <2>1. n < n + 2 /\ \A q \in Places : q < n + 2 => q <= n
    BY <1>1
  <2> QED BY <1>3, <2>1 DEF LastPlace
<1> QED BY <1>2, <1>3 DEF SaysWord, SaysNumber

\* A word without a value, other than a path, adds what the switches say.
LEMMA UnderstandSwitch ==
  ASSUME Len(argv) \in Nat, DOMAIN argv = 1 .. Len(argv), NEW n \in Places,
         argv[n] \in {"--verbose", "-v", "--csv"}, NEW o \in OptionsType, Understood(n, o),
         NEW more, more = IF argv[n] = "--csv" THEN [o EXCEPT !.csv = TRUE]
                          ELSE [o EXCEPT !.verbose = TRUE]
  PROVE  Understood(n + 1, more) /\ more \in OptionsType
<1>1. argv[n] \notin ValueFlags /\ ~ Plain(argv[n])
  BY CommandLineAssumption DEF ValueFlags, NeighborhoodOf, Switches, Plain
<1>2. /\ \A p \in Places : p < n + 1 <=> p < n \/ p = n
  BY <1>1, NextPlaces
<1>3. /\ more \in OptionsType
      /\ more.algo = o.algo /\ more.time_limit_ms = o.time_limit_ms /\ more.seed = o.seed
      /\ more.strength = o.strength /\ more.enabled = o.enabled
      /\ more.instance_path = o.instance_path
      /\ more.csv <=> o.csv \/ argv[n] = "--csv"
      /\ more.verbose <=> o.verbose \/ argv[n] \in {"--verbose", "-v"}
  BY DEF OptionsType
<1>4. /\ {"--algo", "--time-limit", "--seed", "--ils-perturbation-strength"} \subseteq ValueFlags
      /\ DOMAIN NeighborhoodOf \subseteq ValueFlags
  BY DEF ValueFlags
<1>5. /\ SaysWord(n + 1, "--algo", "VNS", more.algo)
      /\ SaysNumber(n + 1, "--time-limit", DefaultTimeLimit, more.time_limit_ms)
      /\ SaysNumber(n + 1, "--seed", 42, more.seed)
      /\ SaysNumber(n + 1, "--ils-perturbation-strength", 4, more.strength)
  BY <1>1, <1>3, <1>4, OtherWords DEF Understood
<1>6. \A f \in DOMAIN NeighborhoodOf : SaysNumber(n + 1, f, 1, Enabled(more, f))
  BY <1>1, <1>3, <1>4, OtherWords DEF Understood, Enabled
<1>7. SaysPath(n + 1, more.instance_path)
  BY <1>1, <1>2, <1>3 DEF Understood, SaysPath
<1>8. /\ more.csv <=> \E p \in Places : p < n + 1 /\ argv[p] = "--csv"
      /\ more.verbose <=> \E p \in Places : p < n + 1 /\ argv[p] \in {"--verbose", "-v"}
  BY <1>2, <1>3 DEF Understood
<1> QED BY <1>3, <1>5, <1>6, <1>7, <1>8 DEF Understood

\* So does a path.
LEMMA UnderstandPath ==
  ASSUME Len(argv) \in Nat, DOMAIN argv = 1 .. Len(argv), NEW n \in Places,
         Plain(argv[n]), argv[n] \in Words,
         NEW o \in OptionsType, Understood(n, o), o.instance_path = "",
         NEW more, more = [o EXCEPT !.instance_path = argv[n]]
  PROVE  Understood(n + 1, more) /\ more \in OptionsType
<1>1. argv[n] \notin ValueFlags \cup Switches
  BY CommandLineAssumption DEF Plain
<1>2. /\ \A p \in Places : p < n + 1 <=> p < n \/ p = n
  BY <1>1, NextPlaces
<1>3. /\ more \in OptionsType
      /\ more.algo = o.algo /\ more.time_limit_ms = o.time_limit_ms /\ more.seed = o.seed
      /\ more.strength = o.strength /\ more.enabled = o.enabled
      /\ more.instance_path = argv[n]
      /\ more.csv = o.csv /\ more.verbose = o.verbose
  BY DEF OptionsType
<1>4. /\ {"--algo", "--time-limit", "--seed", "--ils-perturbation-strength"} \subseteq ValueFlags
      /\ DOMAIN NeighborhoodOf \subseteq ValueFlags
      /\ {"--csv", "--verbose", "-v"} \subseteq Switches
  BY DEF ValueFlags, Switches
<1>5. /\ SaysWord(n + 1, "--algo", "VNS", more.algo)
      /\ SaysNumber(n + 1, "--time-limit", DefaultTimeLimit, more.time_limit_ms)
      /\ SaysNumber(n + 1, "--seed", 42, more.seed)
      /\ SaysNumber(n + 1, "--ils-perturbation-strength", 4, more.strength)
  BY <1>1, <1>3, <1>4, OtherWords DEF Understood
<1>6. \A f \in DOMAIN NeighborhoodOf : SaysNumber(n + 1, f, 1, Enabled(more, f))
  BY <1>1, <1>3, <1>4, OtherWords DEF Understood, Enabled
<1>7. SaysPath(n + 1, more.instance_path)
  BY <1>2, <1>3 DEF Understood, SaysPath
<1>8. /\ more.csv <=> \E p \in Places : p < n + 1 /\ argv[p] = "--csv"
      /\ more.verbose <=> \E p \in Places : p < n + 1 /\ argv[p] \in {"--verbose", "-v"}
  BY <1>1, <1>2, <1>3, <1>4 DEF Understood
<1> QED BY <1>3, <1>5, <1>6, <1>7, <1>8 DEF Understood

\* What a flag with a value that suits it changes.
LEMMA SetChanges ==
  ASSUME NEW o \in OptionsType, NEW flag \in ValueFlags, NEW w \in Words, Suits(flag, w)
  PROVE  LET more == Set(o, flag, w) IN
         /\ more \in OptionsType
         /\ more.instance_path = o.instance_path /\ more.csv = o.csv
         /\ more.verbose = o.verbose /\ more.help = o.help
         /\ more.algo = IF flag = "--algo" THEN w ELSE o.algo
         /\ more.time_limit_ms =
              IF flag = "--time-limit" THEN IntegerOf[w] ELSE o.time_limit_ms
         /\ more.seed = IF flag = "--seed" THEN IntegerOf[w] ELSE o.seed
         /\ more.strength =
              IF flag = "--ils-perturbation-strength" THEN IntegerOf[w] ELSE o.strength
         /\ flag # "--algo" => w \in DOMAIN IntegerOf
         /\ \A f \in DOMAIN NeighborhoodOf :
              Enabled(more, f) = IF flag = f THEN IntegerOf[w] ELSE Enabled(o, f)
<1> DEFINE more == Set(o, flag, w)
<1>1. CASE flag = "--algo"
  <2>1. more = [o EXCEPT !.algo = w] /\ flag \notin DOMAIN NeighborhoodOf
    BY <1>1 DEF Set, NeighborhoodOf
  <2> QED BY <1>1, <2>1 DEF OptionsType, Enabled
<1>2. CASE flag = "--time-limit"
  <2>1. /\ more = [o EXCEPT !.time_limit_ms = IntegerOf[w]]
        /\ flag \notin DOMAIN NeighborhoodOf
    BY <1>2 DEF Set, NeighborhoodOf
  <2>2. w \in DOMAIN IntegerOf /\ IntegerOf[w] \in Nat \ {0}
    <3>1. Parses(w, 1, Int64Max)
      BY <1>2 DEF Suits
    <3>2. w \in DOMAIN IntegerOf /\ IntegerOf[w] \in 1 .. Int64Max
      BY <3>1 DEF Parses
    <3>3. \A x \in 1 .. Int64Max : x \in Nat \ {0}
      OBVIOUS
    <3> QED BY <3>2, <3>3, Zenon
  <2> QED BY <1>2, <2>1, <2>2 DEF OptionsType, Enabled
<1>3. CASE flag = "--seed"
  <2>1. more = [o EXCEPT !.seed = IntegerOf[w]] /\ flag \notin DOMAIN NeighborhoodOf
    BY <1>3 DEF Set, NeighborhoodOf
  <2>2. w \in DOMAIN IntegerOf /\ IntegerOf[w] \in Int
    BY <1>3, CommandLineAssumption DEF Suits, ParsesSeed, Parses
  <2> QED BY <1>3, <2>1, <2>2 DEF OptionsType, Enabled
<1>4. CASE flag = "--ils-perturbation-strength"
  <2>1. /\ more = [o EXCEPT !.strength = IntegerOf[w]]
        /\ flag \notin DOMAIN NeighborhoodOf
    BY <1>4 DEF Set, NeighborhoodOf
  <2>2. w \in DOMAIN IntegerOf /\ IntegerOf[w] \in 1 .. 8
    BY <1>4, CommandLineAssumption DEF Suits, Parses
  <2> QED BY <1>4, <2>1, <2>2 DEF OptionsType, Enabled
<1>5. CASE flag \in DOMAIN NeighborhoodOf
  <2>1. flag \notin {"--algo", "--time-limit", "--seed", "--ils-perturbation-strength"}
    BY <1>5 DEF NeighborhoodOf
  <2> DEFINE on == IF IntegerOf[w] = 1 THEN o.enabled \cup {NeighborhoodOf[flag]}
                                       ELSE o.enabled \ {NeighborhoodOf[flag]}
  <2>2. more = [o EXCEPT !.enabled = on]
    BY <2>1 DEF Set
  <2>3. w \in DOMAIN IntegerOf /\ IntegerOf[w] \in {0, 1}
    BY <2>1 DEF Suits, Parses
  <2>4. /\ \A f \in DOMAIN NeighborhoodOf :
             /\ NeighborhoodOf[f] \in {"add", "swap_1_1", "swap_2_1", "swap_1_2"}
             /\ NeighborhoodOf[f] = NeighborhoodOf[flag] => f = flag
    BY <1>5 DEF NeighborhoodOf
  <2>5. on \subseteq {"add", "swap_1_1", "swap_2_1", "swap_1_2"}
    BY <1>5, <2>4 DEF OptionsType
  <2>6. more.enabled = on /\ more \in OptionsType
    <3> HIDE DEF on, more
    <3> QED BY <2>2, <2>5 DEF OptionsType
  <2>7. ASSUME NEW f \in DOMAIN NeighborhoodOf
        PROVE  Enabled(more, f) = IF flag = f THEN IntegerOf[w] ELSE Enabled(o, f)
    <3>1. flag = f => (NeighborhoodOf[f] \in on <=> IntegerOf[w] = 1)
      OBVIOUS
    <3>2. flag # f => (NeighborhoodOf[f] \in on <=> NeighborhoodOf[f] \in o.enabled)
      BY <1>5, <2>4
    <3> HIDE DEF on, more
    <3> QED BY <2>3, <2>6, <3>1, <3>2 DEF Enabled
  <2>8. /\ more.instance_path = o.instance_path /\ more.csv = o.csv
        /\ more.verbose = o.verbose /\ more.help = o.help /\ more.algo = o.algo
        /\ more.time_limit_ms = o.time_limit_ms /\ more.seed = o.seed
        /\ more.strength = o.strength
    <3> HIDE DEF on, more
    <3> QED BY <2>2 DEF OptionsType
  <2> HIDE DEF on, more
  <2> QED BY <2>1, <2>3, <2>6, <2>7, <2>8 DEF more
<1> QED BY <1>1, <1>2, <1>3, <1>4, <1>5 DEF ValueFlags

\* Of a flag that is repeated the last value holds.
LEMMA UnderstandValue ==
  ASSUME Len(argv) \in Nat, DOMAIN argv = 1 .. Len(argv), NEW n \in Places,
         argv[n] \in ValueFlags, n < Len(argv), argv[n + 1] \in Words,
         Suits(argv[n], argv[n + 1]),
         NEW o \in OptionsType, Understood(n, o),
         NEW more, more = Set(o, argv[n], argv[n + 1])
  PROVE  Understood(n + 2, more) /\ more \in OptionsType /\ more.help = o.help
<1> DEFINE flag == argv[n]
           w == argv[n + 1]
<1>1. /\ more \in OptionsType
      /\ more.instance_path = o.instance_path /\ more.csv = o.csv
      /\ more.verbose = o.verbose /\ more.help = o.help
      /\ more.algo = IF flag = "--algo" THEN w ELSE o.algo
      /\ more.time_limit_ms =
           IF flag = "--time-limit" THEN IntegerOf[w] ELSE o.time_limit_ms
      /\ more.seed = IF flag = "--seed" THEN IntegerOf[w] ELSE o.seed
      /\ more.strength =
           IF flag = "--ils-perturbation-strength" THEN IntegerOf[w] ELSE o.strength
      /\ flag # "--algo" => w \in DOMAIN IntegerOf
      /\ \A f \in DOMAIN NeighborhoodOf :
           Enabled(more, f) = IF flag = f THEN IntegerOf[w] ELSE Enabled(o, f)
  BY SetChanges
<1>2. \A p \in Places : p < n + 2 <=> p < n \/ p = n
  BY NextPlaces
<1>3. flag \notin Switches /\ ~ Plain(flag)
  BY CommandLineAssumption DEF ValueFlags, NeighborhoodOf, Switches, Plain
<1>4. SaysWord(n + 2, "--algo", "VNS", more.algo)
  BY <1>1, FlagAndValue DEF Understood
<1>5. SaysNumber(n + 2, "--time-limit", DefaultTimeLimit, more.time_limit_ms)
  BY <1>1, FlagAndValue DEF Understood
<1>6. SaysNumber(n + 2, "--seed", 42, more.seed)
  BY <1>1, FlagAndValue DEF Understood
<1>7. SaysNumber(n + 2, "--ils-perturbation-strength", 4, more.strength)
  BY <1>1, FlagAndValue DEF Understood
<1>8. ASSUME NEW f \in DOMAIN NeighborhoodOf PROVE SaysNumber(n + 2, f, 1, Enabled(more, f))
  <2>1. f # "--algo"
    BY DEF NeighborhoodOf
  <2> QED BY <1>1, <2>1, FlagAndValue DEF Understood
<1>9. SaysPath(n + 2, more.instance_path)
  BY <1>1, <1>2, <1>3 DEF Understood, SaysPath
<1>10. /\ more.csv <=> \E p \in Places : p < n + 2 /\ argv[p] = "--csv"
       /\ more.verbose <=> \E p \in Places : p < n + 2 /\ argv[p] \in {"--verbose", "-v"}
  BY <1>1, <1>2, <1>3 DEF Understood, Switches
<1> QED BY <1>1, <1>4, <1>5, <1>6, <1>7, <1>8, <1>9, <1>10 DEF Understood

-----------------------------------------------------------------------------
(* The inductive invariant of the command line.                            *)

\* Nothing before the position is a mistake or asks for help.
Clean(n) == \A p \in Places : p < n => p \notin BadPlaces \cup HelpPlaces

\* The reasons for a refusal: a mistake where the loop stands, or what the
\* whole line leaves out.
Mistaken ==
  \/ at \in BadPlaces
  \/ at = Len(argv) + 1 /\ (opts.enabled = {} \/ opts.instance_path = "")

Accepted == at = Len(argv) + 1 /\ opts.enabled # {} /\ opts.instance_path # ""

\* Where each phase stands.
Standing ==
  /\ progress \in {"shell", "parse", "parsed", "refused", "run", "exit"}
  /\ progress = "shell" => at = 1 /\ opts = DefaultOptions
  /\ progress \in {"shell", "parse"} => ~ opts.help
  /\ opts.help => at \in HelpPlaces
  /\ progress = "parsed" => opts.help \/ Accepted
  /\ progress = "refused" => ~ opts.help /\ Mistaken
  /\ progress = "run" =>
       ~ opts.help /\ Accepted /\ algorithm = Made(opts.algo) /\ algorithm # "none"
  /\ progress = "exit" =>
       \/ exit = 0 /\ opts.help
       \/ /\ exit = 2 /\ ~ opts.help
          /\ Mistaken \/ (Accepted /\ Made(opts.algo) = "none")

CliInv ==
  /\ argv \in Seq(Words)
  /\ typed \in Seq(Words)
  /\ typed # <<>> => argv = IF progress = "shell" THEN typed ELSE Wrapped(typed)
  /\ at \in Places \cup {Len(argv) + 1}
  /\ opts \in OptionsType
  /\ Understood(at, opts)
  /\ Clean(at)
  /\ Standing

\* The first word is no value.
LEMMA FirstPlace ==
  ASSUME argv \in Seq(Words)
  PROVE  1 \in Places \cup {Len(argv) + 1} /\ \A p \in Places : ~ (p < 1)
<1>1. Len(argv) \in Nat /\ DOMAIN argv = 1 .. Len(argv)
  BY LenProperties
<1>2. 1 \in DOMAIN argv => ~ IsValue[1]
  BY <1>1, IsValueFollowsRule DEF ValueRule
<1> QED BY <1>1, <1>2 DEF Places

\* Before the first word nothing is said, and the defaults hold.
LEMMA NothingSaid ==
  ASSUME argv \in Seq(Words)
  PROVE  /\ DefaultOptions \in OptionsType /\ ~ DefaultOptions.help
         /\ Understood(1, DefaultOptions) /\ Clean(1)
<1>1. \A flag : Absent(1, flag)
  BY FirstPlace DEF Absent
<1>2. DefaultTimeLimit \in Nat \ {0}
  BY SMT DEF DefaultTimeLimit
<1>3. DefaultOptions \in OptionsType
  <2>1. {"", "VNS"} \subseteq Words
    BY CommandLineAssumption
  <2>2. 4 \in 1 .. 8 /\ 42 \in Int /\ FALSE \in BOOLEAN
    OBVIOUS
  <2> DEFINE E == {"add", "swap_1_1", "swap_2_1", "swap_1_2"}
  <2>3. E \in SUBSET E
    OBVIOUS
  <2> HIDE DEF E
  <2>4. [instance_path |-> "", algo |-> "VNS", time_limit_ms |-> DefaultTimeLimit,
         seed |-> 42, strength |-> 4, enabled |-> E,
         csv |-> FALSE, verbose |-> FALSE, help |-> FALSE]
          \in [instance_path : Words, algo : Words, time_limit_ms : Nat \ {0}, seed : Int,
              strength : 1 .. 8, enabled : SUBSET E,
              csv : BOOLEAN, verbose : BOOLEAN, help : BOOLEAN]
    BY <1>2, <2>1, <2>2, <2>3
  <2> QED BY <2>4 DEF DefaultOptions, OptionsType, E
<1>4. \A f \in DOMAIN NeighborhoodOf : Enabled(DefaultOptions, f) = 1
  BY DEF DefaultOptions, Enabled, NeighborhoodOf
<1> QED BY <1>1, <1>3, <1>4, FirstPlace
        DEF DefaultOptions, Understood, SaysWord, SaysNumber, SaysPath, Clean

\* The initial states.
LEMMA CliInitInv == CliInit => CliInv
<1> SUFFICES ASSUME CliInit PROVE CliInv
  OBVIOUS
<1>1. argv \in Seq(Words)
  BY CommandLineAssumption DEF CliInit
<1>2. typed \in Seq(Words) /\ (typed # <<>> => progress = "shell" /\ argv = typed)
  <2>1. typed = argv \/ typed = <<>>
    BY DEF CliInit
  <2>2. typed \in Seq(Words)
    BY <1>1, <2>1, EmptySeq
  <2>3. typed # <<>> => progress = "shell" /\ argv = typed
    BY DEF CliInit
  <2> QED BY <2>2, <2>3
<1>3. at = 1 /\ opts = DefaultOptions /\ progress \in {"shell", "parse"}
  BY DEF CliInit
<1> QED BY <1>1, <1>2, <1>3, FirstPlace, NothingSaid DEF CliInv, Standing

\* The wrapper makes a line of a line.
LEMMA WrappedIsLine == ASSUME NEW line \in Seq(Words) PROVE Wrapped(line) \in Seq(Words)
<1>1. ASSUME Len(line) \in 1 .. 3
      PROVE  /\ line[1] \in Words
             /\ Len(line) > 1 => line[2] \in Words
             /\ Len(line) > 2 => line[3] \in Words
  BY <1>1, ElementOfSeq
<1>2. ASSUME Len(line) \in 1 .. 3, \A p \in DOMAIN line : Plain(line[p])
      PROVE  Wrapped(line) =
               <<line[1]>>
                 \o (IF Len(line) > 1 THEN <<"--seed", line[2]>> ELSE <<>>)
                 \o (IF Len(line) > 2 THEN <<"--time-limit", line[3]>> ELSE <<>>)
                 \o <<"--csv">>
  BY <1>2 DEF Wrapped
<1>3. ASSUME ~ (Len(line) \in 1 .. 3 /\ \A p \in DOMAIN line : Plain(line[p]))
      PROVE  Wrapped(line) = line
  BY <1>3 DEF Wrapped
<1>4. {"--seed", "--time-limit", "--csv"} \subseteq Words
  BY CommandLineAssumption DEF Switches, ValueFlags
<1>5. ASSUME Len(line) \in 1 .. 3 PROVE
        /\ <<line[1]>> \in Seq(Words) /\ <<"--csv">> \in Seq(Words)
        /\ (IF Len(line) > 1 THEN <<"--seed", line[2]>> ELSE <<>>) \in Seq(Words)
        /\ (IF Len(line) > 2 THEN <<"--time-limit", line[3]>> ELSE <<>>) \in Seq(Words)
  <2>1. <<line[1]>> \in Seq(Words) /\ <<"--csv">> \in Seq(Words)
    BY <1>1, <1>4, <1>5
  <2>2. Len(line) > 1 => <<"--seed", line[2]>> \in Seq(Words)
    BY <1>1, <1>4, <1>5
  <2>3. Len(line) > 2 => <<"--time-limit", line[3]>> \in Seq(Words)
    BY <1>1, <1>4, <1>5
  <2> QED BY <2>1, <2>2, <2>3, EmptySeq
<1> QED BY <1>2, <1>3, <1>5, ConcatProperties

\* What is defined by the words changes with the words only.
LEMMA WordsStay ==
  ASSUME argv' = argv
  PROVE  /\ Places' = Places /\ BadPlaces' = BadPlaces /\ HelpPlaces' = HelpPlaces
         /\ (Understood(at, opts))' <=> Understood(at', opts')
         /\ (Clean(at))' <=> Clean(at')
<1>1. IsValue' = IsValue
  BY DEF IsValue
<1>2. Places' = Places
  BY <1>1 DEF Places
<1>3. BadPlaces' = BadPlaces /\ HelpPlaces' = HelpPlaces
  BY <1>2 DEF BadPlaces, HelpPlaces
<1> QED BY <1>2, <1>3
        DEF Understood, SaysWord, SaysNumber, SaysPath, LastPlace, Absent, Clean

\* The wrapper hands its line over before a word of it is read.
LEMMA ShellKeeps == CliInv /\ Shell => CliInv'
<1> SUFFICES ASSUME CliInv, Shell PROVE CliInv'
  OBVIOUS
<1>1. /\ at' = 1 /\ opts' = DefaultOptions /\ progress' = "parse" /\ typed' = typed
      /\ argv' = Wrapped(argv)
  BY DEF Shell, CliInv, Standing
<1>2. argv' \in Seq(Words) /\ typed' \in Seq(Words)
  BY <1>1, WrappedIsLine DEF CliInv
<1>3. (typed # <<>> => argv = Wrapped(typed))'
  BY <1>1 DEF Shell, CliInv
<1>4. (argv \in Seq(Words) =>
         /\ 1 \in Places \cup {Len(argv) + 1}
         /\ DefaultOptions \in OptionsType /\ ~ DefaultOptions.help
         /\ Understood(1, DefaultOptions) /\ Clean(1))'
  BY FirstPlace, NothingSaid, PTL
<1> QED BY <1>1, <1>2, <1>3, <1>4 DEF CliInv, Standing

\* The line under the invariant.
LEMMA LineType ==
  ASSUME CliInv
  PROVE  /\ Len(argv) \in Nat /\ DOMAIN argv = 1 .. Len(argv)
         /\ \A p \in DOMAIN argv : argv[p] \in Words
         /\ Places \subseteq 1 .. Len(argv)
         /\ at \in 1 .. Len(argv) + 1
<1>1. Len(argv) \in Nat /\ DOMAIN argv = 1 .. Len(argv)
  BY LenProperties DEF CliInv
<1>2. \A p \in DOMAIN argv : argv[p] \in Words
  BY <1>1, ElementOfSeq DEF CliInv
<1>3. Places \subseteq 1 .. Len(argv)
  BY <1>1 DEF Places
<1> QED BY <1>1, <1>2, <1>3 DEF CliInv

\* The loop moves on from a place that is neither a mistake nor help.
LEMMA MoveOn ==
  ASSUME CliInv, AtWord, progress' = progress, opts' \in OptionsType, ~ opts'.help,
         at \notin BadPlaces \cup HelpPlaces,
         NEW d \in {1, 2}, at' = at + d, at + d \in Places \cup {Len(argv) + 1},
         \A p \in Places : p < at + d <=> p < at \/ p = at,
         Understood(at + d, opts')
  PROVE  CliInv'
<1>1. argv' = argv /\ typed' = typed /\ progress = "parse"
  BY DEF AtWord
<1>2. Clean(at + d)
  BY DEF Clean, CliInv
<1>3. Places' = Places /\ (Understood(at, opts))' /\ (Clean(at))'
  BY <1>1, <1>2, WordsStay
<1> QED BY <1>1, <1>3 DEF CliInv, Standing

\* The loop stops where it stands.
LEMMA StopHere ==
  ASSUME CliInv, argv' = argv, typed' = typed, at' = at,
         opts' \in OptionsType, Understood(at, opts'),
         progress # "shell", progress' # "shell", Standing'
  PROVE  CliInv'
<1>1. Places' = Places /\ (Understood(at, opts))' /\ (Clean(at))'
  BY WordsStay DEF CliInv
<1>2. (typed # <<>> => argv = Wrapped(typed))'
  BY DEF CliInv
<1> QED BY <1>1, <1>2 DEF CliInv

\* The loop stands at a place of the line.
LEMMA AtPlace ==
  ASSUME CliInv, AtWord
  PROVE  /\ at \in Places /\ progress = "parse" /\ ~ opts.help
         /\ opts \in OptionsType /\ Understood(at, opts)
<1>1. at <= Len(argv) /\ progress = "parse"
  BY DEF AtWord
<1>2. at \in Places
  BY <1>1, LineType DEF CliInv
<1> QED BY <1>1, <1>2 DEF CliInv, Standing

\* A switch goes on, and help ends the loop where it is found.
LEMMA SwitchKeeps == CliInv /\ (Switch \/ Help) => CliInv'
<1> SUFFICES ASSUME CliInv, Switch \/ Help PROVE CliInv'
  OBVIOUS
<1>1. /\ AtWord /\ at \in Places /\ progress = "parse" /\ ~ opts.help
      /\ opts \in OptionsType /\ Understood(at, opts)
  BY AtPlace DEF Switch, Help
<1>2. CASE Switch
  <2>1. Word \in {"--verbose", "-v", "--csv"} /\ Word \notin ValueFlags
    BY <1>2 DEF Switch, ValueFlags, NeighborhoodOf
  <2>2. at \notin BadPlaces \cup HelpPlaces
    BY <2>1, CommandLineAssumption DEF BadPlaces, HelpPlaces, Word, Plain, Switches
  <2>3. Understood(at + 1, opts') /\ opts' \in OptionsType /\ ~ opts'.help
    <3>1. opts' = IF Word = "--csv" THEN [opts EXCEPT !.csv = TRUE]
                  ELSE [opts EXCEPT !.verbose = TRUE]
      BY <1>2 DEF Switch
    <3>2. Understood(at + 1, opts') /\ opts' \in OptionsType
      BY <1>1, <2>1, <3>1, LineType, UnderstandSwitch DEF Word
    <3>3. opts'.help = opts.help
      BY <1>1, <3>1 DEF OptionsType
    <3> QED BY <1>1, <3>2, <3>3
  <2>4. /\ at + 1 \in Places \cup {Len(argv) + 1}
        /\ \A p \in Places : p < at + 1 <=> p < at \/ p = at
    BY <1>1, <2>1, LineType, NextPlaces DEF Word
  <2> QED BY <1>1, <1>2, <2>2, <2>3, <2>4, MoveOn DEF Switch
<1>3. CASE Help
  <2>1. opts' = [opts EXCEPT !.help = TRUE] /\ at' = at /\ progress' = "parsed"
    BY <1>3 DEF Help
  <2>2. argv' = argv /\ typed' = typed
    BY <1>1 DEF AtWord
  <2>3. opts' \in OptionsType
    BY <1>1, <2>1 DEF OptionsType
  <2>4. Understood(at, opts')
    <3>1. /\ opts'.algo = opts.algo /\ opts'.time_limit_ms = opts.time_limit_ms
          /\ opts'.seed = opts.seed /\ opts'.strength = opts.strength
          /\ opts'.enabled = opts.enabled /\ opts'.instance_path = opts.instance_path
          /\ opts'.csv = opts.csv /\ opts'.verbose = opts.verbose
      BY <1>1, <2>1 DEF OptionsType
    <3> QED BY <1>1, <3>1 DEF Understood, Enabled
  <2>5. at \in HelpPlaces /\ HelpPlaces' = HelpPlaces
    BY <1>1, <1>3, <2>2, WordsStay DEF HelpPlaces, Help, Word
  <2>6. opts'.help
    BY <1>1, <2>1 DEF OptionsType
  <2>7. Standing'
    BY <2>1, <2>5, <2>6 DEF Standing
  <2> QED BY <1>1, <2>1, <2>2, <2>3, <2>4, <2>7, StopHere
<1> QED BY <1>2, <1>3

\* So does a flag with a value that suits it, and the first path.
LEMMA TakeKeeps == CliInv /\ (TakeValue \/ TakePath) => CliInv'
<1> SUFFICES ASSUME CliInv, TakeValue \/ TakePath PROVE CliInv'
  OBVIOUS
<1>1. /\ AtWord /\ at \in Places /\ progress = "parse" /\ ~ opts.help
      /\ opts \in OptionsType /\ Understood(at, opts)
  BY AtPlace DEF TakeValue, TakePath
<1>2. CASE TakeValue
  <2>1. Word \in ValueFlags /\ Word \notin Switches /\ Word \in Dashed
    BY <1>2, CommandLineAssumption DEF TakeValue, ValueFlags, NeighborhoodOf, Switches
  <2>2. at < Len(argv) /\ Suits(argv[at], argv[at + 1]) /\ argv[at + 1] \in Words
    BY <1>2, LineType DEF TakeValue, Word
  <2>3. at \notin BadPlaces \cup HelpPlaces
    <3>1. at # Len(argv) /\ ~ Plain(argv[at])
      BY <2>1, <2>2, LineType DEF Plain, Word
    <3> QED BY <2>1, <2>2, <3>1 DEF BadPlaces, HelpPlaces, Word, Switches
  <2>4. Understood(at + 2, opts') /\ opts' \in OptionsType /\ ~ opts'.help
    <3>1. opts' = Set(opts, argv[at], argv[at + 1])
      BY <1>2 DEF TakeValue, Word
    <3> QED BY <1>1, <2>1, <2>2, <3>1, LineType, UnderstandValue DEF Word
  <2>5. /\ at + 2 \in Places \cup {Len(argv) + 1}
        /\ \A p \in Places : p < at + 2 <=> p < at \/ p = at
    BY <1>1, <2>1, <2>2, LineType, NextPlaces DEF Word
  <2> QED BY <1>1, <1>2, <2>3, <2>4, <2>5, MoveOn DEF TakeValue
<1>3. CASE TakePath
  <2>1. Plain(Word) /\ Word \notin ValueFlags \cup Switches /\ opts.instance_path = ""
    BY <1>3, CommandLineAssumption DEF TakePath, Plain
  <2>2. \A q \in Places : q < at /\ Plain(argv[q]) => argv[q] = ""
    BY <1>1, <2>1 DEF Understood, SaysPath
  <2>3. at \notin BadPlaces \cup HelpPlaces
    BY <2>1, <2>2 DEF BadPlaces, HelpPlaces, Word, Plain, Switches
  <2>4. Understood(at + 1, opts') /\ opts' \in OptionsType /\ ~ opts'.help
    <3>1. opts' = [opts EXCEPT !.instance_path = argv[at]]
      BY <1>3 DEF TakePath, Word
    <3>2. Understood(at + 1, opts') /\ opts' \in OptionsType
      BY <1>1, <2>1, <3>1, LineType, UnderstandPath DEF Word
    <3>3. opts'.help = opts.help
      BY <1>1, <3>1 DEF OptionsType
    <3> QED BY <1>1, <3>2, <3>3
  <2>5. /\ at + 1 \in Places \cup {Len(argv) + 1}
        /\ \A p \in Places : p < at + 1 <=> p < at \/ p = at
    BY <1>1, <2>1, LineType, NextPlaces DEF Word
  <2> QED BY <1>1, <1>3, <2>3, <2>4, <2>5, MoveOn DEF TakePath
<1> QED BY <1>2, <1>3

\* A mistake ends the loop where it is found.
LEMMA RefuseKeeps ==
  CliInv /\ (MissingValue \/ BadValue \/ UnknownOption \/ ExtraArgument) => CliInv'
<1> SUFFICES ASSUME CliInv, MissingValue \/ BadValue \/ UnknownOption \/ ExtraArgument
             PROVE  CliInv'
  OBVIOUS
<1>1. /\ AtWord /\ Refuse /\ at \in Places /\ progress = "parse" /\ ~ opts.help
      /\ opts \in OptionsType /\ Understood(at, opts)
  BY AtPlace DEF MissingValue, BadValue, UnknownOption, ExtraArgument
<1>2. at \in BadPlaces
  <2>1. CASE MissingValue
    BY <1>1, <2>1 DEF MissingValue, BadPlaces, Word
  <2>2. CASE BadValue
    BY <1>1, <2>2 DEF BadValue, BadPlaces, Word
  <2>3. CASE UnknownOption
    BY <1>1, <2>3 DEF UnknownOption, BadPlaces, Word
  <2>4. CASE ExtraArgument
    <3>1. PICK p \in Places : p < at /\ Plain(argv[p]) /\ argv[p] = opts.instance_path
      BY <1>1, <2>4 DEF ExtraArgument, Understood, SaysPath
    <3> QED BY <1>1, <2>4, <3>1 DEF ExtraArgument, BadPlaces, Word
  <2> QED BY <2>1, <2>2, <2>3, <2>4
<1>3. argv' = argv /\ typed' = typed /\ at' = at /\ opts' = opts /\ progress' = "refused"
  BY <1>1 DEF AtWord, Refuse
<1>4. Standing'
  BY <1>1, <1>2, <1>3, WordsStay DEF Standing, Mistaken
<1> QED BY <1>1, <1>3, <1>4, StopHere

\* The checks behind the loop, and the ends of main.
LEMMA EndKeeps ==
  CliInv /\ (EndOfLine \/ UsageError \/ ShowHelp \/ makeAlgorithm) => CliInv'
<1> SUFFICES ASSUME CliInv, EndOfLine \/ UsageError \/ ShowHelp \/ makeAlgorithm
             PROVE  CliInv'
  OBVIOUS
<1>1. /\ argv' = argv /\ typed' = typed /\ at' = at /\ opts' = opts
      /\ progress # "shell" /\ progress' # "shell"
  BY DEF EndOfLine, UsageError, ShowHelp, makeAlgorithm, Leave
<1>2. BadPlaces' = BadPlaces /\ HelpPlaces' = HelpPlaces
  BY <1>1, WordsStay
<1>3. Standing'
  <2>1. CASE EndOfLine
    <3>1. at = Len(argv) + 1
      <4>1. at > Len(argv)
        BY <2>1 DEF EndOfLine
      <4>2. at \in 1 .. Len(argv) + 1 /\ Len(argv) \in Nat
        BY LineType
      <4> QED BY <4>1, <4>2
    <3>2. ~ opts.help
      BY <2>1 DEF EndOfLine, CliInv, Standing
    <3> QED BY <1>1, <1>2, <2>1, <3>1, <3>2 DEF EndOfLine, Standing, Mistaken, Accepted
  <2>2. CASE UsageError
    BY <1>1, <1>2, <2>2 DEF UsageError, Leave, CliInv, Standing, Mistaken, Accepted
  <2>3. CASE ShowHelp
    BY <1>1, <1>2, <2>3 DEF ShowHelp, Leave, CliInv, Standing, Mistaken, Accepted
  <2>4. CASE makeAlgorithm
    BY <1>1, <1>2, <2>4 DEF makeAlgorithm, Leave, CliInv, Standing, Mistaken, Accepted
  <2> QED BY <2>1, <2>2, <2>3, <2>4
<1> QED BY <1>1, <1>3, StopHere DEF CliInv

\* Each step of wrapper and main preserves the invariant.
LEMMA CliNextInv == CliInv /\ [CliNext]_cliVars => CliInv'
<1> SUFFICES ASSUME CliInv, [CliNext]_cliVars PROVE CliInv'
  OBVIOUS
<1>1. CASE UNCHANGED cliVars
  <2>1. /\ argv' = argv /\ typed' = typed /\ at' = at /\ opts' = opts
        /\ progress' = progress /\ algorithm' = algorithm /\ exit' = exit
    BY <1>1 DEF cliVars
  <2>2. /\ Places' = Places /\ BadPlaces' = BadPlaces /\ HelpPlaces' = HelpPlaces
        /\ (Understood(at, opts))' /\ (Clean(at))'
    BY <2>1, WordsStay DEF CliInv
  <2>3. Standing'
    BY <2>1, <2>2 DEF CliInv, Standing, Mistaken, Accepted
  <2> QED BY <2>1, <2>2, <2>3 DEF CliInv
<1>2. CASE CliNext
  BY <1>2, ShellKeeps, SwitchKeeps, TakeKeeps, RefuseKeeps, EndKeeps DEF CliNext, parseCli
<1> QED BY <1>1, <1>2

\* The invariant of every line.
LEMMA CliInvariance == CliSpec => []CliInv
BY CliInitInv, CliNextInv, PTL DEF CliSpec

-----------------------------------------------------------------------------
(* What the command line promises.                                         *)

\* At the end of the line every place of it has been read.
LEMMA AllRead ==
  ASSUME CliInv, at = Len(argv) + 1
  PROVE  \A p \in Places : p < at /\ p \in Int
BY LineType

\* There, what has been said is what the line says.
LEMMA WholeLine ==
  ASSUME CliInv, at = Len(argv) + 1, NEW flag, NEW default, NEW x
  PROVE  /\ SaysWord(at, flag, default, x) => LastOf(flag, default) = x
         /\ SaysNumber(at, flag, default, x) => Number(flag, default) = x
<1> DEFINE places == {p \in Places : argv[p] = flag}
<1>1. \A p \in Places : p < at /\ p \in Int
  BY AllRead
<1>2. Absent(at, flag) => places = {}
  BY <1>1 DEF Absent
<1>3. ASSUME NEW p, LastPlace(at, flag, p)
      PROVE  p \in places /\ (CHOOSE q \in places : \A r \in places : r <= q) = p
  <2>1. p \in places /\ \A r \in places : r <= p
    BY <1>1, <1>3 DEF LastPlace
  <2>2. ASSUME NEW q \in places, \A r \in places : r <= q PROVE q = p
    <3>1. p <= q /\ q <= p /\ p \in Int /\ q \in Int
      BY <1>1, <2>1, <2>2
    <3> QED BY <3>1
  <2> HIDE DEF places
  <2> QED BY <2>1, <2>2
<1>4. \A d : Absent(at, flag) => LastOf(flag, d) = d
  BY <1>2 DEF LastOf
<1>5. \A d, p : LastPlace(at, flag, p) => LastOf(flag, d) = argv[p + 1]
  <2> SUFFICES ASSUME NEW d, NEW p, LastPlace(at, flag, p) PROVE LastOf(flag, d) = argv[p + 1]
    OBVIOUS
  <2>1. places # {} /\ (CHOOSE q \in places : \A r \in places : r <= q) = p
    BY <1>3
  <2>2. LastOf(flag, d) = IF places = {} THEN d
                          ELSE argv[(CHOOSE q \in places : \A r \in places : r <= q) + 1]
    BY DEF LastOf
  <2> HIDE DEF places
  <2> QED BY <2>1, <2>2
<1>6. SaysWord(at, flag, default, x) => LastOf(flag, default) = x
  BY <1>4, <1>5 DEF SaysWord
<1>7. SaysNumber(at, flag, default, x) => Number(flag, default) = x
  <2>1. Absent(at, flag) => Number(flag, default) = default
    BY <1>4 DEF Number
  <2>2. ASSUME NEW p, LastPlace(at, flag, p), argv[p + 1] \in DOMAIN IntegerOf
        PROVE  Number(flag, default) = IntegerOf[argv[p + 1]]
    <3>1. LastOf(flag, "") = argv[p + 1]
      BY <1>5, <2>2
    <3>2. argv[p + 1] # ""
      BY <2>2, CommandLineAssumption
    <3> QED BY <3>1, <3>2 DEF Number
  <2> QED BY <2>1, <2>2 DEF SaysNumber
<1> QED BY <1>6, <1>7

\* What runs is what the line says as a whole: each option has its last value
\* or its default, whatever stands around it, also where a value looks like
\* an option (parseCli and makeAlgorithm in main.cpp).
THEOREM LineIsRun == CliSpec => []RunsWhatTheLineSays
<1>1. ASSUME CliInv PROVE RunsWhatTheLineSays
  <2> SUFFICES ASSUME progress = "run"
               PROVE  /\ opts.instance_path # "" /\ algorithm # "none"
                      /\ opts.time_limit_ms > 0 /\ opts.strength \in 1 .. 8
                      /\ opts.enabled # {}
                      /\ opts.time_limit_ms = Number("--time-limit", DefaultTimeLimit)
                      /\ opts.seed = Number("--seed", 42)
                      /\ opts.strength = Number("--ils-perturbation-strength", 4)
                      /\ opts.enabled = EnabledByLine
                      /\ algorithm = Made(LastOf("--algo", "VNS"))
                      /\ opts.csv <=> \E p \in Places : argv[p] = "--csv"
                      /\ \E p \in Places : argv[p] = opts.instance_path
    BY DEF RunsWhatTheLineSays
  <2>1. /\ at = Len(argv) + 1 /\ opts.enabled # {} /\ opts.instance_path # ""
        /\ algorithm = Made(opts.algo) /\ algorithm # "none"
    BY <1>1 DEF CliInv, Standing, Accepted
  <2>2. Understood(at, opts) /\ opts \in OptionsType
    BY <1>1 DEF CliInv
  <2>3. opts.time_limit_ms > 0 /\ opts.strength \in 1 .. 8
    BY <2>2 DEF OptionsType
  <2>4. /\ opts.time_limit_ms = Number("--time-limit", DefaultTimeLimit)
        /\ opts.seed = Number("--seed", 42)
        /\ opts.strength = Number("--ils-perturbation-strength", 4)
        /\ opts.algo = LastOf("--algo", "VNS")
    BY <1>1, <2>1, <2>2, WholeLine DEF Understood
  <2>5. opts.enabled = EnabledByLine
    <3>1. \A f \in DOMAIN NeighborhoodOf : Number(f, 1) = Enabled(opts, f)
      BY <1>1, <2>1, <2>2, WholeLine DEF Understood
    <3>2. \A f \in DOMAIN NeighborhoodOf : Number(f, 1) = 1 <=> NeighborhoodOf[f] \in opts.enabled
      BY <3>1 DEF Enabled
    <3>3. \A e \in opts.enabled : \E f \in DOMAIN NeighborhoodOf : e = NeighborhoodOf[f]
      BY <2>2 DEF OptionsType, NeighborhoodOf
    <3> QED BY <3>2, <3>3 DEF EnabledByLine
  <2>6. \A p \in Places : p < at
    BY <1>1, <2>1, AllRead
  <2>7. /\ opts.csv <=> \E p \in Places : argv[p] = "--csv"
        /\ \E p \in Places : argv[p] = opts.instance_path
    BY <2>1, <2>2, <2>6 DEF Understood, SaysPath
  <2> QED BY <2>1, <2>3, <2>4, <2>5, <2>7
<1> QED BY <1>1, CliInvariance, PTL

\* The line has no mistake and asks for no help where all of it was read.
LEMMA CleanLine ==
  ASSUME CliInv, at = Len(argv) + 1
  PROVE  BadPlaces = {} /\ ~ AsksForHelp
<1>1. \A p \in Places : p < at
  BY LineType
<1>2. BadPlaces \subseteq Places /\ HelpPlaces \subseteq Places
  BY DEF BadPlaces, HelpPlaces
<1> QED BY <1>1, <1>2 DEF CliInv, Clean, AsksForHelp

\* The exit code tells why the program did not run, and the first of help and
\* mistake decides (main and parseCli in main.cpp).
THEOREM ExitsAreJustified == CliSpec => []ExitsForAReason
<1>1. ASSUME CliInv PROVE ExitsForAReason
  <2>1. \A p \in Places : p \in Int
    BY <1>1, LineType
  <2>2. BadPlaces \subseteq Places /\ HelpPlaces \subseteq Places
    BY DEF BadPlaces, HelpPlaces
  <2>3. \A p \in HelpPlaces : p \notin BadPlaces
    BY CommandLineAssumption
       DEF HelpPlaces, BadPlaces, Switches, ValueFlags, NeighborhoodOf, Plain
  <2>4. at \in Int
    BY <1>1, LineType
  <2>5. opts.help => AsksForHelp
    <3> SUFFICES ASSUME opts.help PROVE AsksForHelp
      OBVIOUS
    <3>1. at \in HelpPlaces
      BY <1>1 DEF CliInv, Standing
    <3>2. ASSUME NEW q \in BadPlaces PROVE at < q
      <4>1. ~ (q < at) /\ q # at /\ q \in Int
        BY <1>1, <2>1, <2>2, <2>3, <3>1 DEF CliInv, Clean
      <4> QED BY <2>4, <4>1
    <3> QED BY <3>1, <3>2 DEF AsksForHelp
  <2>6. at \in BadPlaces => ~ AsksForHelp
    <3> SUFFICES ASSUME at \in BadPlaces, NEW p \in HelpPlaces, p < at PROVE FALSE
      BY DEF AsksForHelp
    <3> QED BY <1>1, <2>2 DEF CliInv, Clean
  <2>7. at = Len(argv) + 1 =>
          /\ ~ AsksForHelp
          /\ opts.enabled = {} => EnabledByLine = {}
          /\ opts.instance_path = "" => \A p \in Places : Plain(argv[p]) => argv[p] = ""
          /\ opts.algo = LastOf("--algo", "VNS")
    <3> SUFFICES ASSUME at = Len(argv) + 1
                 PROVE  /\ ~ AsksForHelp
                        /\ opts.enabled = {} => EnabledByLine = {}
                        /\ opts.instance_path = "" =>
                             \A p \in Places : Plain(argv[p]) => argv[p] = ""
                        /\ opts.algo = LastOf("--algo", "VNS")
      OBVIOUS
    <3>1. Understood(at, opts)
      BY <1>1 DEF CliInv
    <3>2. \A f \in DOMAIN NeighborhoodOf : Number(f, 1) = Enabled(opts, f)
      BY <1>1, <3>1, WholeLine DEF Understood
    <3>3. opts.enabled = {} => EnabledByLine = {}
      BY <3>2 DEF Enabled, EnabledByLine
    <3>4. \A p \in Places : p < at
      BY <1>1, LineType
    <3>5. opts.instance_path = "" => \A p \in Places : Plain(argv[p]) => argv[p] = ""
      BY <3>1, <3>4 DEF Understood, SaysPath
    <3>6. opts.algo = LastOf("--algo", "VNS")
      BY <1>1, <3>1, WholeLine DEF Understood
    <3> QED BY <1>1, <3>3, <3>5, <3>6, CleanLine
  <2>8. progress = "run" => ~ AsksForHelp /\ BadPlaces = {}
    BY <1>1, CleanLine DEF CliInv, Standing, Accepted
  <2>9. /\ progress = "exit" /\ exit = 0 => opts.help
        /\ progress = "exit" /\ exit = 2 =>
             Mistaken \/ (Accepted /\ Made(opts.algo) = "none")
    BY <1>1 DEF CliInv, Standing
  <2> QED BY <2>5, <2>6, <2>7, <2>8, <2>9 DEF ExitsForAReason, Mistaken, Accepted
<1> QED BY <1>1, CliInvariance, PTL

\* The places of a line that the wrapper has made, and the words there.
LEMMA ShortLine ==
  ASSUME CliInv, progress = "run", Len(typed) \in 1 .. 3,
         \A p \in DOMAIN typed : Plain(typed[p])
  PROVE  /\ 1 \in Places /\ argv[1] = typed[1]
         /\ \E p \in Places : argv[p] = "--csv"
         /\ \A p \in Places : argv[p] \in {typed[1], "--seed", "--time-limit", "--csv"}
         /\ Len(typed) > 1 => LastPlace(at, "--seed", 2) /\ argv[3] = typed[2]
         /\ Len(typed) > 2 => LastPlace(at, "--time-limit", 4) /\ argv[5] = typed[3]
         /\ Len(typed) <= 1 => Absent(at, "--seed")
         /\ Len(typed) <= 2 => Absent(at, "--time-limit")
<1>1. /\ argv = Wrapped(typed) /\ typed \in Seq(Words)
      /\ at = Len(argv) + 1 /\ Len(argv) \in Nat /\ DOMAIN argv = 1 .. Len(argv)
      /\ argv \in Seq(Words)
  <2>1. typed # <<>>
    <3>1. Len(<<>>) \notin 1 .. 3
      BY Len(<<>>) = 0
    <3> QED BY <3>1, Zenon
  <2> QED BY <2>1, LineType DEF CliInv, Standing, Accepted
<1>2. 1 \in DOMAIN typed
  BY <1>1, LenProperties
<1>3. Plain(typed[1]) /\ typed[1] \notin ValueFlags \cup {"--csv"}
  BY <1>2, CommandLineAssumption DEF Plain, Switches
<1>4. {"--seed", "--time-limit"} \subseteq ValueFlags /\ "--csv" \notin ValueFlags
  BY DEF ValueFlags, NeighborhoodOf
<1>5. 1 \in Places \cup {Len(argv) + 1}
  BY <1>1, FirstPlace
<1>6. \A p \in Places : p < at /\ p \in 1 .. Len(argv)
  BY <1>1, LineType
<1>7. argv = <<typed[1]>>
               \o (IF Len(typed) > 1 THEN <<"--seed", typed[2]>> ELSE <<>>)
               \o (IF Len(typed) > 2 THEN <<"--time-limit", typed[3]>> ELSE <<>>)
               \o <<"--csv">>
  BY <1>1 DEF Wrapped
<1>8. CASE Len(typed) = 1
  <2>1. Len(argv) = 2 /\ argv[1] = typed[1] /\ argv[2] = "--csv"
    BY <1>7, <1>8
  <2>2. 1 \in Places /\ 2 \in Places
    BY <1>1, <1>3, <1>5, <2>1, NextPlaces
  <2>3. \A p \in Places : p \in {1, 2}
    BY <1>6, <2>1
  <2> QED BY <1>3, <1>4, <1>8, <2>1, <2>2, <2>3 DEF Absent
<1>9. CASE Len(typed) = 2
  <2>1. /\ Len(argv) = 4 /\ argv[1] = typed[1] /\ argv[2] = "--seed"
        /\ argv[3] = typed[2] /\ argv[4] = "--csv"
    BY <1>7, <1>9
  <2>2. 1 \in Places /\ 2 \in Places /\ \A p \in Places : p < 4 <=> p < 2 \/ p = 2
    BY <1>1, <1>3, <1>4, <1>5, <2>1, NextPlaces
  <2>3. 4 \in Places
    BY <1>1, <1>4, <2>1, <2>2, NextPlaces
  <2>4. \A p \in Places : p \in {1, 2, 4}
    BY <1>6, <2>1, <2>2
  <2> QED BY <1>1, <1>3, <1>4, <1>9, <2>1, <2>2, <2>3, <2>4 DEF Absent, LastPlace
<1>10. CASE Len(typed) = 3
  <2>1. /\ Len(argv) = 6 /\ argv[1] = typed[1] /\ argv[2] = "--seed"
        /\ argv[3] = typed[2] /\ argv[4] = "--time-limit" /\ argv[5] = typed[3]
        /\ argv[6] = "--csv"
    BY <1>7, <1>10
  <2>2. 1 \in Places /\ 2 \in Places /\ \A p \in Places : p < 4 <=> p < 2 \/ p = 2
    BY <1>1, <1>3, <1>4, <1>5, <2>1, NextPlaces
  <2>3. 4 \in Places /\ \A p \in Places : p < 6 <=> p < 4 \/ p = 4
    BY <1>1, <1>4, <2>1, <2>2, NextPlaces
  <2>4. 6 \in Places
    BY <1>1, <1>4, <2>1, <2>3, NextPlaces
  <2>5. \A p \in Places : p \in {1, 2, 4, 6}
    BY <1>6, <2>1, <2>2, <2>3
  <2> QED BY <1>1, <1>3, <1>4, <1>10, <2>1, <2>2, <2>3, <2>4, <2>5 DEF Absent, LastPlace
<1> QED BY <1>8, <1>9, <1>10

StartsWithPath == typed[1] # ""

\* More than three undashed words are no short form, and no line.
LEMMA ShortLinesOnly ==
  ASSUME CliInv, progress = "run", typed # <<>>,
         \A p \in DOMAIN typed : Plain(typed[p]), StartsWithPath
  PROVE  Len(typed) \in 1 .. 3
<1>1. typed \in Seq(Words) /\ argv = Wrapped(typed)
  BY DEF CliInv, Standing
<1>2. Len(typed) \in Nat \ {0} /\ DOMAIN typed = 1 .. Len(typed)
  BY <1>1, LenProperties, EmptySeq
<1>3. ASSUME Len(typed) > 3 PROVE FALSE
  <2>1. Len(typed) \notin 1 .. 3
    BY <1>2, <1>3
  <2>2. argv = typed
    BY <1>1, <2>1 DEF Wrapped
  <2>3. BadPlaces = {}
    BY CleanLine DEF CliInv, Standing, Accepted
  <2>4. 1 \in DOMAIN typed /\ 2 \in DOMAIN typed /\ Len(typed) # 1 - 1
    BY <1>2, <1>3
  <2>5. 1 \in Places
    <3>1. 1 # Len(argv) + 1
      BY <1>2, <2>2
    <3> QED BY <1>1, <2>2, <3>1, FirstPlace
  <2>6. Plain(argv[1]) /\ Plain(argv[2])
    BY <2>2, <2>4
  <2>7. argv[1] \notin ValueFlags
    BY <2>6, CommandLineAssumption DEF Plain
  <2>8. 2 \in Places
    <3>1. 1 + 1 \in Places \cup {Len(argv) + 1}
      BY <1>2, <2>2, <2>5, <2>7, NextPlaces
    <3> QED BY <1>2, <1>3, <2>2, <3>1
  <2>9. 1 < 2
    OBVIOUS
  <2>10. argv[1] # ""
    BY <2>2, Zenon DEF StartsWithPath
  <2> QED BY <2>3, <2>5, <2>6, <2>8, <2>9, <2>10, Zenon DEF BadPlaces
<1> QED BY <1>2, <1>3

\* What a number of the options is, from where its flag stands.
LEMMA SaidThere ==
  ASSUME Places \subseteq Int, NEW n, NEW flag, NEW default, NEW x,
         SaysNumber(n, flag, default, x)
  PROVE  /\ Absent(n, flag) => x = default
         /\ \A p : LastPlace(n, flag, p) => x = IntegerOf[argv[p + 1]]
<1>1. Absent(n, flag) => x = default
  BY DEF SaysNumber, Absent, LastPlace
<1>2. ASSUME NEW p, LastPlace(n, flag, p) PROVE x = IntegerOf[argv[p + 1]]
  <2>1. ~ Absent(n, flag)
    BY <1>2 DEF Absent, LastPlace
  <2>2. PICK q : LastPlace(n, flag, q) /\ x = IntegerOf[argv[q + 1]]
    BY <2>1 DEF SaysNumber
  <2>3. p \in Int /\ q \in Int /\ p <= q /\ q <= p
    BY <1>2, <2>2 DEF LastPlace
  <2>4. p = q
    BY <2>3
  <2> QED BY <2>2, <2>4
<1> QED BY <1>1, <1>2

\* The short forms of the wrapper reach the solver as path, seed and time
\* limit by position, with every other option at its default (dckp_sbpo).
THEOREM ShortFormsAreMeant == CliSpec => []ShortFormsGoByPosition
<1>1. ASSUME CliInv PROVE ShortFormsGoByPosition
  <2> DEFINE meant == [DefaultOptions EXCEPT
                         !.instance_path = typed[1],
                         !.seed = IF Len(typed) > 1 THEN IntegerOf[typed[2]] ELSE @,
                         !.time_limit_ms = IF Len(typed) > 2 THEN IntegerOf[typed[3]] ELSE @,
                         !.csv = TRUE]
  <2> SUFFICES ASSUME progress = "run", typed # <<>>,
                      \A p \in DOMAIN typed : Plain(typed[p]), StartsWithPath
               PROVE  Len(typed) <= 3 /\ opts = meant
    BY DEF ShortFormsGoByPosition, StartsWithPath
  <2> HIDE DEF meant
  <2>1. Len(typed) \in 1 .. 3
    BY <1>1, ShortLinesOnly
  <2>2. /\ 1 \in Places /\ argv[1] = typed[1]
        /\ \E p \in Places : argv[p] = "--csv"
        /\ \A p \in Places : argv[p] \in {typed[1], "--seed", "--time-limit", "--csv"}
        /\ Len(typed) > 1 => LastPlace(at, "--seed", 2) /\ argv[3] = typed[2]
        /\ Len(typed) > 2 => LastPlace(at, "--time-limit", 4) /\ argv[5] = typed[3]
        /\ Len(typed) <= 1 => Absent(at, "--seed")
        /\ Len(typed) <= 2 => Absent(at, "--time-limit")
    BY <1>1, <2>1, ShortLine
  <2>3. /\ at = Len(argv) + 1 /\ ~ opts.help /\ opts \in OptionsType /\ Understood(at, opts)
    BY <1>1 DEF CliInv, Standing, Accepted
  <2>4. \A p \in Places : /\ argv[p] \notin DOMAIN NeighborhoodOf
                          /\ argv[p] \notin {"--algo", "--ils-perturbation-strength",
                                             "--verbose", "-v"}
    <3>1. typed[1] \notin Dashed
      BY <2>1, <1>1, LenProperties DEF Plain, CliInv
    <3>2. \A p \in Places : argv[p] # typed[1] => argv[p] \in {"--seed", "--time-limit", "--csv"}
      BY <2>2
    <3> QED BY <3>1, <3>2, CommandLineAssumption DEF Switches, ValueFlags, NeighborhoodOf
  <2>5. Places \subseteq Int
    BY <1>1, LineType
  <2>6. opts.algo = "VNS" /\ opts.strength = 4
    <3>1. Absent(at, "--algo") /\ Absent(at, "--ils-perturbation-strength")
      BY <2>4 DEF Absent
    <3>2. opts.algo = "VNS"
      BY <2>3, <3>1 DEF Understood, SaysWord, Absent, LastPlace
    <3>3. opts.strength = 4
      BY <2>3, <2>5, <3>1, SaidThere DEF Understood
    <3> QED BY <3>2, <3>3
  <2>7. opts.enabled = {"add", "swap_1_1", "swap_2_1", "swap_1_2"}
    <3>1. \A f \in DOMAIN NeighborhoodOf : Absent(at, f)
      BY <2>4 DEF Absent
    <3>2. \A f \in DOMAIN NeighborhoodOf : Enabled(opts, f) = 1
      BY <2>3, <2>5, <3>1, SaidThere DEF Understood
    <3>3. \A f \in DOMAIN NeighborhoodOf : NeighborhoodOf[f] \in opts.enabled
      BY <3>2 DEF Enabled
    <3> QED BY <2>3, <3>3 DEF NeighborhoodOf, OptionsType
  <2>8. opts.seed = IF Len(typed) > 1 THEN IntegerOf[typed[2]] ELSE 42
    <3>1. SaysNumber(at, "--seed", 42, opts.seed)
      BY <2>3 DEF Understood
    <3>2. Len(typed) > 1 => opts.seed = IntegerOf[argv[2 + 1]]
      BY <2>2, <2>5, <3>1, SaidThere
    <3>3. Len(typed) <= 1 => opts.seed = 42
      BY <2>2, <2>5, <3>1, SaidThere
    <3> QED BY <2>1, <2>2, <3>2, <3>3
  <2>9. opts.time_limit_ms =
          IF Len(typed) > 2 THEN IntegerOf[typed[3]] ELSE DefaultTimeLimit
    <3>1. SaysNumber(at, "--time-limit", DefaultTimeLimit, opts.time_limit_ms)
      BY <2>3 DEF Understood
    <3>2. Len(typed) > 2 => opts.time_limit_ms = IntegerOf[argv[4 + 1]]
      BY <2>2, <2>5, <3>1, SaidThere
    <3>3. Len(typed) <= 2 => opts.time_limit_ms = DefaultTimeLimit
      BY <2>2, <2>5, <3>1, SaidThere
    <3> QED BY <2>1, <2>2, <3>2, <3>3
  <2>10. \A p \in Places : p < at
    BY <1>1, <2>3, AllRead
  <2>11. opts.instance_path = typed[1]
    <3>1. 1 \in DOMAIN typed
      BY <1>1, <2>1, LenProperties DEF CliInv
    <3>2. Plain(argv[1])
      BY <2>2, <3>1
    <3>3. argv[1] # ""
      BY <2>2, Zenon DEF StartsWithPath
    <3> QED BY <2>2, <2>3, <2>10, <3>2, <3>3 DEF Understood, SaysPath
  <2>12. opts.csv /\ ~ opts.verbose
    BY <2>2, <2>3, <2>4, <2>10 DEF Understood
  <2>13. opts = meant
    <3> DEFINE s == IF Len(typed) > 1 THEN IntegerOf[typed[2]] ELSE 42
               t == IF Len(typed) > 2 THEN IntegerOf[typed[3]] ELSE DefaultTimeLimit
    <3>1. meant = [instance_path |-> typed[1], algo |-> "VNS", time_limit_ms |-> t,
                   seed |-> s, strength |-> 4,
                   enabled |-> {"add", "swap_1_1", "swap_2_1", "swap_1_2"},
                   csv |-> TRUE, verbose |-> FALSE, help |-> FALSE]
      <4> DEFINE path == typed[1]
      <4>1. DefaultOptions.seed = 42 /\ DefaultOptions.time_limit_ms = DefaultTimeLimit
        BY DEF DefaultOptions
      <4>2. meant = [DefaultOptions EXCEPT !.instance_path = path, !.seed = s,
                                           !.time_limit_ms = t, !.csv = TRUE]
        BY <4>1, Zenon DEF meant
      <4> HIDE DEF path, s, t
      <4>3. meant = [instance_path |-> path, algo |-> "VNS", time_limit_ms |-> t,
                     seed |-> s, strength |-> 4,
                     enabled |-> {"add", "swap_1_1", "swap_2_1", "swap_1_2"},
                     csv |-> TRUE, verbose |-> FALSE, help |-> FALSE]
        BY <4>2 DEF DefaultOptions
      <4> QED BY <4>3 DEF path
    <3>2. opts = [instance_path |-> opts.instance_path, algo |-> opts.algo,
                  time_limit_ms |-> opts.time_limit_ms, seed |-> opts.seed,
                  strength |-> opts.strength, enabled |-> opts.enabled,
                  csv |-> opts.csv, verbose |-> opts.verbose, help |-> opts.help]
      BY <2>3 DEF OptionsType
    <3>3. opts.csv = TRUE /\ opts.verbose = FALSE /\ opts.help = FALSE
      BY <2>3, <2>12 DEF OptionsType
    <3>4. opts.seed = s /\ opts.time_limit_ms = t
      BY <2>8, <2>9
    <3> HIDE DEF s, t
    <3> QED BY <2>6, <2>7, <2>11, <3>1, <3>2, <3>3, <3>4
  <2>14. Len(typed) <= 3
    <3> \A n \in 1 .. 3 : n <= 3
      OBVIOUS
    <3> QED BY <2>1
  <2> QED BY <2>13, <2>14
<1> QED BY <1>1, CliInvariance, PTL

=============================================================================
