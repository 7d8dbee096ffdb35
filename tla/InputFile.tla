----------------------------- MODULE InputFile ------------------------------
(***************************************************************************)
(* The text of an instance file, as far as DCKPInstance::read_from_file    *)
(* can tell two texts apart.  A file is a sequence of lines.  A line is a  *)
(* record of                                                               *)
(*   head  the keywords that it starts with: those of one of the four      *)
(*         lines that the AMPL parser looks for, "odd" for any other line  *)
(*         of parameters or sets, "" for none                              *)
(*   nums  the tokens that follow, each an integer or Word, which stands   *)
(*         for text and for a number too long for 64 bits                  *)
(*   semi  whether a semicolon ends the line                               *)
(*   note  whether a comment follows                                       *)
(* White space, and with it empty lines at the end, carries no meaning     *)
(* here; an empty line is one with nothing in it.                          *)
(***************************************************************************)
EXTENDS Integers, SequencesExt

CONSTANTS
  Word,       \* a token that is not a number of 64 bits
  Int32Min,   \* numeric_limits<int32_t>::min()
  Int32Max,   \* numeric_limits<int32_t>::max()
  Inspected   \* how many lines detect_format looks at, 16 in the code

ASSUME WordAssumption      == Word \notin Int
ASSUME Int32Assumption     == Int32Min \in Int /\ Int32Max \in Nat \ {0} /\ Int32Min <= 0
ASSUME InspectedAssumption == Inspected \in Nat \ {0}

Token == Int \cup {Word}

Line == [head : {"", "n", "c", "values", "edges", "odd"},
         nums : Seq(Token), semi : BOOLEAN, note : BOOLEAN]

int32 == Int32Min .. Int32Max

\* What the AMPL parser and the detection see of a line: its comment is cut.
IsBlank(line) == line.head = "" /\ line.nums = <<>> /\ ~ line.semi

IsAmplLine(line) == line.head # ""

\* try_read_i32 once for each of k values, and nothing after them.
IsRecord(nums, k) == Len(nums) = k /\ \A i \in 1 .. k : nums[i] \in int32

-----------------------------------------------------------------------------
(* The choice of the format, and the tokens of the compact format, which   *)
(* takes keywords, semicolons and comments for text.                       *)

\* AMPL if a line that looks like it comes before the scan has met as many
\* lines with text as it inspects.
detect_format(lines) ==
  IF \E k \in DOMAIN lines :
       /\ IsAmplLine(lines[k])
       /\ Cardinality({i \in 1 .. k - 1 : ~ IsBlank(lines[i])}) < Inspected
  THEN "ampl" ELSE "compact"

LineTokens(line) ==
  (IF line.head = "" THEN <<>> ELSE <<Word>>)
  \o line.nums
  \o (IF line.semi \/ line.note THEN <<Word>> ELSE <<>>)

Tokens(lines) == FlattenSeq([i \in DOMAIN lines |-> LineTokens(lines[i])])

=============================================================================
