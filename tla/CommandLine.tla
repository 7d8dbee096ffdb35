---------------------------- MODULE CommandLine -----------------------------
(***************************************************************************)
(* From the arguments to the algorithm: the wrapper script dckp_sbpo,      *)
(* parseCli of main.cpp, and main up to the call of makeAlgorithm.  One    *)
(* step is one turn of the loop over argv.  What the code asks of a word   *)
(* beyond equality is given by constants.                                  *)
(***************************************************************************)
EXTENDS Integers, Sequences

CONSTANTS
  Words,       \* what a shell can pass as a word
  Lines,       \* the command lines: the words after the name of the program
  Dashed,      \* the words whose first character is a dash
  IntegerOf,   \* the words that std::from_chars takes whole, with their value
  Lower,       \* the words of another capitalization, with their lower case
  Int32Max, Int64Max, Uint64Max   \* the widths of the integers

Switches == {"--help", "-h", "--verbose", "-v", "--csv"}

NeighborhoodOf ==
  [f \in {"--vnd-add", "--vnd-swap-1-1", "--vnd-swap-2-1", "--vnd-swap-1-2"} |->
     CASE f = "--vnd-add"      -> "add"
       [] f = "--vnd-swap-1-1" -> "swap_1_1"
       [] f = "--vnd-swap-2-1" -> "swap_2_1"
       [] f = "--vnd-swap-1-2" -> "swap_1_2"]

\* needsValue.
ValueFlags ==
  {"--algo", "--time-limit", "--seed", "--ils-perturbation-strength"}
    \cup DOMAIN NeighborhoodOf

ASSUME CommandLineAssumption ==
  /\ Lines \subseteq Seq(Words)
  /\ Switches \cup ValueFlags \subseteq Dashed /\ Dashed \subseteq Words
  /\ {"", "VNS"} \subseteq Words   \* the defaults of path and algorithm
  /\ \A w \in DOMAIN IntegerOf : IntegerOf[w] \in Int
  /\ "" \notin Dashed \cup DOMAIN IntegerOf
  /\ {Int32Max, Int64Max, Uint64Max} \subseteq Nat
  /\ 8 < Int32Max /\ Int32Max < Int64Max /\ Int64Max < Uint64Max

VARIABLES
  typed,      \* history: the words given to the wrapper, if it was used
  argv,       \* the words that reach the binary
  at,          \* the position of the loop, from 1
  opts,       \* the CliOptions; the four VND flags are the set "enabled"
  progress,      \* "shell", "parse", "parsed", "refused", "run", "exit"
  algorithm,  \* what makeAlgorithm has made
  exit        \* the exit code

cliVars == <<typed, argv, at, opts, progress, algorithm, exit>>

DefaultTimeLimit == 1000000

DefaultOptions ==
  [instance_path |-> "", algo |-> "VNS", time_limit_ms |-> DefaultTimeLimit, seed |-> 42,
   strength |-> 4, enabled |-> {"add", "swap_1_1", "swap_2_1", "swap_1_2"},
   csv |-> FALSE, verbose |-> FALSE, help |-> FALSE]

-----------------------------------------------------------------------------
(* The wrapper: undashed words after the path are seed and time limit.     *)

Plain(w) == w \notin Dashed

FaultLimitFirst(line) ==
  IF Len(line) = 3 /\ \A p \in 1 .. 3 : Plain(line[p])
  THEN <<line[1], "--seed", line[3], "--time-limit", line[2], "--csv">>
  ELSE line

Wrapped(line) ==
  CASE Len(line) \in 1 .. 3 /\ \A p \in DOMAIN line : Plain(line[p]) ->
         <<line[1]>>
           \o (IF Len(line) > 1 THEN <<"--seed", line[2]>> ELSE <<>>)
           \o (IF Len(line) > 2 THEN <<"--time-limit", line[3]>> ELSE <<>>)
           \o <<"--csv">>
    [] OTHER -> line

Shell ==
  /\ progress = "shell"
  /\ argv' = Wrapped(argv)
  /\ progress' = "parse"
  /\ UNCHANGED <<typed, at, opts, algorithm, exit>>

-----------------------------------------------------------------------------
(* parseCli.  The options of a refused line are read by no one.            *)

Word == argv[at]

AtWord ==
  /\ progress = "parse" /\ at <= Len(argv)
  /\ UNCHANGED <<typed, argv, algorithm, exit>>

Refuse == progress' = "refused" /\ UNCHANGED <<at, opts>>

FaultHelpGoesOn ==
  /\ AtWord /\ Word \in {"--help", "-h"}
  /\ opts' = [opts EXCEPT !.help = TRUE]
  /\ at' = at + 1
  /\ UNCHANGED progress

Help ==
  /\ AtWord /\ Word \in {"--help", "-h"}
  /\ opts' = [opts EXCEPT !.help = TRUE]
  /\ progress' = "parsed"
  /\ UNCHANGED at

Switch ==
  /\ AtWord /\ Word \in {"--verbose", "-v", "--csv"}
  /\ opts' = IF Word = "--csv" THEN [opts EXCEPT !.csv = TRUE]
             ELSE [opts EXCEPT !.verbose = TRUE]
  /\ at' = at + 1
  /\ UNCHANGED progress

MissingValue == AtWord /\ Word \in ValueFlags /\ at = Len(argv) /\ Refuse

\* parseInteger into a signed, and into the unsigned type: from_chars takes a
\* minus sign for the former only.
Parses(w, low, high) == w \in DOMAIN IntegerOf /\ IntegerOf[w] \in low .. high

ParsesSeed(w) == Plain(w) /\ Parses(w, 0, Uint64Max)

Suits(flag, w) ==
  CASE flag = "--algo"       -> TRUE
    [] flag = "--time-limit" -> Parses(w, 1, Int64Max)
    [] flag = "--seed"       -> ParsesSeed(w)
    [] flag = "--ils-perturbation-strength" -> Parses(w, 1, 8)
    [] OTHER                 -> Parses(w, 0, 1)

FaultFlagsOnlyDisable(o, flag, w) ==
  CASE flag = "--algo"       -> [o EXCEPT !.algo = w]
    [] flag = "--time-limit" -> [o EXCEPT !.time_limit_ms = IntegerOf[w]]
    [] flag = "--seed"       -> [o EXCEPT !.seed = IntegerOf[w]]
    [] flag = "--ils-perturbation-strength" -> [o EXCEPT !.strength = IntegerOf[w]]
    [] OTHER -> IF IntegerOf[w] = 1 THEN o
                ELSE [o EXCEPT !.enabled = @ \ {NeighborhoodOf[flag]}]

Set(o, flag, w) ==
  CASE flag = "--algo"       -> [o EXCEPT !.algo = w]
    [] flag = "--time-limit" -> [o EXCEPT !.time_limit_ms = IntegerOf[w]]
    [] flag = "--seed"       -> [o EXCEPT !.seed = IntegerOf[w]]
    [] flag = "--ils-perturbation-strength" -> [o EXCEPT !.strength = IntegerOf[w]]
    [] OTHER -> [o EXCEPT !.enabled = IF IntegerOf[w] = 1
                                      THEN @ \cup {NeighborhoodOf[flag]}
                                      ELSE @ \ {NeighborhoodOf[flag]}]

\* The flag takes the next word as its value, whatever that looks like.
TakeValue ==
  /\ AtWord /\ Word \in ValueFlags /\ at < Len(argv)
  /\ Suits(Word, argv[at + 1])
  /\ opts' = Set(opts, Word, argv[at + 1])
  /\ at' = at + 2
  /\ UNCHANGED progress

BadValue ==
  /\ AtWord /\ Word \in ValueFlags /\ at < Len(argv)
  /\ ~ Suits(Word, argv[at + 1])
  /\ Refuse

UnknownOption == AtWord /\ Word \in Dashed \ (Switches \cup ValueFlags) /\ Refuse

TakePath ==
  /\ AtWord /\ Plain(Word) /\ opts.instance_path = ""
  /\ opts' = [opts EXCEPT !.instance_path = Word]
  /\ at' = at + 1
  /\ UNCHANGED progress

ExtraArgument == AtWord /\ Plain(Word) /\ opts.instance_path # "" /\ Refuse

\* The checks behind the loop.
EndOfLine ==
  /\ progress = "parse" /\ at > Len(argv)
  /\ progress' = IF opts.enabled # {} /\ opts.instance_path # "" THEN "parsed"
              ELSE "refused"
  /\ UNCHANGED <<typed, argv, at, opts, algorithm, exit>>

parseCli ==
  \/ Help \/ Switch \/ MissingValue \/ TakeValue \/ BadValue \/ UnknownOption
  \/ TakePath \/ ExtraArgument \/ EndOfLine

-----------------------------------------------------------------------------
(* main, up to makeAlgorithm.                                              *)

LowerOf(w) == IF w \in DOMAIN Lower THEN Lower[w] ELSE w

Made(name) ==
  LET lower == LowerOf(name)
  IN  CASE lower \in {"greedy_maxprofit", "greedy"} -> "Greedy"
        [] lower = "vnd" -> "VND"
        [] lower = "ils" -> "ILS"
        [] lower = "vns" -> "VNS"
        [] OTHER         -> "none"

Leave(code) ==
  /\ progress' = "exit"
  /\ exit' = code
  /\ UNCHANGED <<typed, argv, at, opts>>

UsageError == progress = "refused" /\ Leave(2) /\ UNCHANGED algorithm

ShowHelp == progress = "parsed" /\ opts.help /\ Leave(0) /\ UNCHANGED algorithm

makeAlgorithm ==
  /\ progress = "parsed" /\ ~ opts.help
  /\ algorithm' = Made(opts.algo)
  /\ IF Made(opts.algo) = "none" THEN Leave(2)
     ELSE progress' = "run" /\ UNCHANGED <<typed, argv, at, opts, exit>>

CliInit ==
  /\ argv \in Lines
  /\ progress \in {"shell", "parse"}   \* through the wrapper, or directly
  /\ typed = IF progress = "shell" THEN argv ELSE <<>>
  /\ at = 1
  /\ opts = DefaultOptions
  /\ algorithm = "none"
  /\ exit = -1

CliNext == Shell \/ parseCli \/ UsageError \/ ShowHelp \/ makeAlgorithm

CliSpec == CliInit /\ [][CliNext]_cliVars /\ WF_cliVars(CliNext)

-----------------------------------------------------------------------------
(* The line as its usage text describes it, read as a whole.               *)

\* The positions that hold the value of the flag before them.
IsValue ==
  LET value[p \in 0 .. Len(argv)] ==
        p > 1 /\ ~ value[p - 1] /\ argv[p - 1] \in ValueFlags
  IN  value

Places == {p \in DOMAIN argv : ~ IsValue[p]}

HelpPlaces == {p \in Places : argv[p] \in {"--help", "-h"}}

BadPlaces ==
  {p \in Places :
     \/ argv[p] \in ValueFlags /\ (p = Len(argv) \/ ~ Suits(argv[p], argv[p + 1]))
     \/ argv[p] \in Dashed \ (Switches \cup ValueFlags)
     \/ Plain(argv[p]) /\ \E q \in Places : q < p /\ Plain(argv[q]) /\ argv[q] # ""}

AsksForHelp == \E p \in HelpPlaces : \A q \in BadPlaces : p < q

\* The value of the last occurrence of a flag.
LastOf(flag, default) ==
  LET places == {p \in Places : argv[p] = flag}
  IN  IF places = {} THEN default
      ELSE argv[(CHOOSE p \in places : \A q \in places : q <= p) + 1]

Number(flag, default) ==
  LET w == LastOf(flag, "")
  IN  IF w = "" THEN default ELSE IntegerOf[w]

EnabledByLine ==
  {NeighborhoodOf[f] : f \in {g \in DOMAIN NeighborhoodOf : Number(g, 1) = 1}}

-----------------------------------------------------------------------------
(* Properties.                                                             *)

\* Started, the program runs what the line says as a whole: each option has
\* its last value or its default, independently of the others and of their
\* order, also where a value looks like an option.  And what the line says
\* can be run: a limit that ends the search, a kick within the tuned range, a
\* schedule that is not empty (main.cpp).
RunsWhatTheLineSays ==
  progress = "run" =>
    /\ opts.instance_path # "" /\ algorithm # "none"
    /\ opts.time_limit_ms > 0 /\ opts.strength \in 1 .. 8 /\ opts.enabled # {}
    /\ opts.time_limit_ms = Number("--time-limit", DefaultTimeLimit)
    /\ opts.seed = Number("--seed", 42)
    /\ opts.strength = Number("--ils-perturbation-strength", 4)
    /\ opts.enabled = EnabledByLine
    /\ algorithm = Made(LastOf("--algo", "VNS"))
    /\ opts.csv <=> \E p \in Places : argv[p] = "--csv"
    /\ \E p \in Places : argv[p] = opts.instance_path

\* The exit codes: 0 for help that is asked for before the first mistake, 2
\* for a line with a mistake, without a path, without a neighbourhood or with
\* an unknown algorithm, and no exit otherwise.
ExitsForAReason ==
  /\ progress = "exit" /\ exit = 0 => AsksForHelp
  /\ progress = "exit" /\ exit = 2 =>
       /\ ~ AsksForHelp
       /\ \/ BadPlaces # {}
          \/ \A p \in Places : Plain(argv[p]) => argv[p] = ""
          \/ EnabledByLine = {}
          \/ Made(LastOf("--algo", "VNS")) = "none"
  /\ progress = "run" => ~ AsksForHelp /\ BadPlaces = {}

\* The short forms of the wrapper reach the solver as they are meant: path,
\* seed and time limit by position, and CSV output.  (An empty word is no
\* path to parseCli, so that a line which starts with one is left out.)
ShortFormsGoByPosition ==
  progress = "run" /\ typed # <<>> /\ (\A p \in DOMAIN typed : Plain(typed[p]))
  /\ typed[1] # "" =>
    /\ Len(typed) <= 3
    /\ opts = [DefaultOptions EXCEPT
                 !.instance_path = typed[1],
                 !.seed = IF Len(typed) > 1 THEN IntegerOf[typed[2]] ELSE @,
                 !.time_limit_ms = IF Len(typed) > 2 THEN IntegerOf[typed[3]] ELSE @,
                 !.csv = TRUE]

=============================================================================
