---------------------------- MODULE ProgramCall -----------------------------
(***************************************************************************)
(* One call of dckp_sbpo by an experiment script: what a file is called on *)
(* both sides, and the line that a call with --csv may answer.  The files  *)
(* of the benchmark are numbered from 1 to 100, five to each family: file  *)
(* 33 is "7I3", whatever its extension.                                    *)
(***************************************************************************)
EXTENDS Integers, Sequences

CONSTANTS
  Stems,       \* the files there are, by their numbers
  Extensions,  \* their extensions, "" for none
  Profits      \* the profits that solutions may have

ASSUME FilesAssumption == Stems \subseteq Nat /\ Extensions \subseteq STRING

\* The instances that the scripts run over have positive profits.
ASSUME ProfitsAssumption == Profits \subseteq Nat \ {0}

Files == [stem : Stems, ext : Extensions]
Names == [stem : Stems, ext : Extensions \cup {""}]

\* The lists of up to n files.
Listings(n) == UNION {[1 .. m -> Files] : m \in 0 .. n}

\* instanceBaseName: path::stem drops the extension, whatever it is.
BinaryName(file) == [file EXCEPT !.ext = ""]

FaultKeepsExtension(file) == file

\* ${base%.txt} drops no other.
ScriptName(file) == IF file.ext = ".txt" THEN [file EXCEPT !.ext = ""] ELSE file

\* The call may fail, or print a line; it then returns valid ? 0 : 1.
Failure == [status |-> 1, line |-> <<>>]
LineOf(file, seed, profit, valid) ==
  [instance |-> BinaryName(file), seed |-> seed, profit |-> profit, valid |-> valid]
Answers(file, seed) ==
  {Failure} \cup
  {[status |-> IF valid THEN 0 ELSE 1, line |-> LineOf(file, seed, profit, valid)] :
     profit \in Profits, valid \in BOOLEAN}

Succeeds(answer) == answer.status = 0 /\ answer.line.valid

\* The line must be about the instance and the seed that were asked for.
Matches(answer, file, seed) ==
  answer.line.instance = ScriptName(file) /\ answer.line.seed = seed

=============================================================================
