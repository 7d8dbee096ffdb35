--------------------------- MODULE ReaderTheorems ---------------------------
(***************************************************************************)
(* Theorems about read_from_file, for every sequence of files that one     *)
(* object reads: the parsers, which decide line by line or section by      *)
(* section, accept exactly the files of their format; the object then      *)
(* holds what the file says, and nothing after a failure.                  *)
(***************************************************************************)
EXTENDS InstanceReader, SelectionTheorems, SequenceTheorems, WellFoundedInduction

-----------------------------------------------------------------------------
(* The tokens of a file.  FlattenSeq joins the lines by a recursive        *)
(* function, which is shown to exist, as are its types, by minimal         *)
(* counterexample.                                                         *)

JoinRule(s, n, f) == f = [i \in 1 .. n |-> IF i = 1 THEN s[i] ELSE f[i - 1] \o s[i]]

\* There is such a function for the lines up to any place.
LEMMA JoinExists == ASSUME NEW s PROVE \A n \in Nat : \E f : JoinRule(s, n, f)
<1> DEFINE S == {n \in Nat : ~ \E f : JoinRule(s, n, f)}
<1> SUFFICES ASSUME S # {} PROVE FALSE
  OBVIOUS
<1>1. PICK n \in S : \A m \in S : <<m, n>> \notin OpToRel(<, Nat)
  <2>1. IsWellFoundedOn(OpToRel(<, Nat), Nat)
    BY NatLessThanWellFounded
  <2> HIDE DEF S
  <2>2. S \subseteq Nat
    BY DEF S
  <2> QED BY <2>1, <2>2, WFMin
<1>2. n \in Nat /\ ~ \E f : JoinRule(s, n, f)
  BY <1>1
<1>3. n # 0
  <2>1. \A i \in 1 .. 0 : FALSE
    OBVIOUS
  <2> DEFINE none == [i \in 1 .. 0 |-> 0]
  <2>2. JoinRule(s, 0, none)
    BY <2>1 DEF JoinRule
  <2> HIDE DEF none
  <2> QED BY <1>2, <2>2
<1>4. n - 1 \in Nat /\ n - 1 < n
  BY <1>2, <1>3
<1>5. PICK f : JoinRule(s, n - 1, f)
  <2>1. <<n - 1, n>> \in OpToRel(<, Nat)
    BY <1>2, <1>4 DEF OpToRel
  <2> QED BY <1>1, <1>4, <2>1
<1> DEFINE Longer(g, i) == IF i = 1 THEN s[i] ELSE g[i - 1] \o s[i]
           more == [i \in 1 .. n |-> IF i = n THEN Longer(f, n) ELSE f[i]]
<1>6. \A i \in 1 .. n - 1 : f[i] = Longer(f, i)
  BY <1>5 DEF JoinRule
<1>7. \A i \in 1 .. n : more[i] = Longer(more, i)
  <2> TAKE i \in 1 .. n
  <2>1. i > 1 => i - 1 \in 1 .. n /\ i - 1 # n
    BY <1>2
  <2>2. i > 1 => more[i - 1] = f[i - 1]
    BY <2>1
  <2>3. i = 1 \/ i > 1
    BY <1>2
  <2>4. Longer(more, i) = Longer(f, i)
    BY <2>2, <2>3
  <2>5. i # n => i \in 1 .. n - 1
    BY <1>2
  <2> HIDE DEF Longer
  <2> QED BY <1>6, <2>4, <2>5
<1>8. JoinRule(s, n, more)
  <2>1. more = [i \in 1 .. n |-> more[i]]
    OBVIOUS
  <2> HIDE DEF more
  <2> QED BY <1>7, <2>1 DEF JoinRule
<1> QED BY <1>2, <1>8

\* Every such function joins sequences to sequences, and drops nothing.
LEMMA JoinType ==
  ASSUME NEW T, NEW s \in Seq(Seq(T)), NEW f, JoinRule(s, Len(s), f), NEW n \in 1 .. Len(s)
  PROVE  /\ f[n] \in Seq(T)
         /\ \A k \in 1 .. n : \A p \in DOMAIN s[k] : \E q \in DOMAIN f[n] : f[n][q] = s[k][p]
<1> DEFINE P(i) == /\ f[i] \in Seq(T)
                   /\ \A k \in 1 .. i : \A p \in DOMAIN s[k] :
                        \E q \in DOMAIN f[i] : f[i][q] = s[k][p]
           S == {i \in 1 .. Len(s) : ~ P(i)}
<1> SUFFICES ASSUME S # {} PROVE FALSE
  OBVIOUS
<1>1. PICK i \in S : \A m \in S : <<m, i>> \notin OpToRel(<, Nat)
  <2>1. IsWellFoundedOn(OpToRel(<, Nat), Nat)
    BY NatLessThanWellFounded
  <2>2. S \subseteq Nat
    OBVIOUS
  <2> HIDE DEF S
  <2> QED BY <2>1, <2>2, WFMin
<1>2. i \in 1 .. Len(s) /\ ~ P(i) /\ Len(s) \in Nat
  <2>1. Len(s) \in Nat
    OBVIOUS
  <2> HIDE DEF P
  <2> QED BY <1>1, <2>1
<1>3. s[i] \in Seq(T) /\ f[i] = IF i = 1 THEN s[i] ELSE f[i - 1] \o s[i]
  BY <1>2, ElementOfSeq DEF JoinRule
<1> HIDE DEF P
<1>4. CASE i = 1
  <2>1. f[1] = s[1] /\ s[1] \in Seq(T) /\ \A k \in 1 .. 1 : k = 1
    BY <1>3, <1>4
  <2> QED BY <1>2, <1>4, <2>1 DEF P
<1>5. CASE i # 1
  <2>1. i - 1 \in 1 .. Len(s) /\ i - 1 \in Nat /\ i \in Nat /\ i - 1 < i
    BY <1>2, <1>5
  <2>2. P(i - 1)
    <3>1. <<i - 1, i>> \in OpToRel(<, Nat)
      BY <2>1 DEF OpToRel
    <3> QED BY <1>1, <2>1, <3>1
  <2> DEFINE a == f[i - 1]
             b == s[i]
  <2>3. a \in Seq(T) /\ b \in Seq(T) /\ f[i] = a \o b
    BY <1>3, <1>5, <2>2 DEF P
  <2>4. /\ f[i] \in Seq(T)
        /\ \A q \in DOMAIN a : q \in DOMAIN (a \o b) /\ (a \o b)[q] = a[q]
        /\ \A p \in DOMAIN b : Len(a) + p \in DOMAIN (a \o b) /\ (a \o b)[Len(a) + p] = b[p]
    <3> HIDE DEF a, b
    <3>1. a \o b \in Seq(T) /\ Len(a \o b) = Len(a) + Len(b)
      BY <2>3
    <3> QED BY <2>3, <3>1
  <2>5. ASSUME NEW k \in 1 .. i, NEW p \in DOMAIN s[k]
        PROVE  \E q \in DOMAIN f[i] : f[i][q] = s[k][p]
    <3>1. CASE k = i
      BY <2>3, <2>4, <2>5, <3>1
    <3>2. CASE k # i
      <4>1. k \in 1 .. i - 1
        BY <1>2, <3>2
      <4>2. PICK q \in DOMAIN a : a[q] = s[k][p]
        BY <2>2, <4>1 DEF P
      <4> QED BY <2>3, <2>4, <4>2
    <3> QED BY <3>1, <3>2
  <2> QED BY <1>2, <2>4, <2>5 DEF P
<1> QED BY <1>4, <1>5

LEMMA LineTokensType ==
  ASSUME NEW l \in Line
  PROVE  /\ LineTokens(l) \in Seq(Token)
         /\ l.head # "" => Word \in {LineTokens(l)[p] : p \in DOMAIN LineTokens(l)}
<1>1. l.nums \in Seq(Token) /\ <<Word>> \in Seq(Token) /\ <<>> \in Seq(Token)
  <2>1. Word \in Token
    BY DEF Token
  <2>2. l.nums \in Seq(Token)
    BY DEF Line
  <2> QED BY <2>1, <2>2
<1> DEFINE a == IF l.head = "" THEN <<>> ELSE <<Word>>
           b == IF l.semi \/ l.note THEN <<Word>> ELSE <<>>
<1>2. a \in Seq(Token) /\ b \in Seq(Token)
  BY <1>1
<1>3. l.head # "" => a = <<Word>>
  OBVIOUS
<1>4. LineTokens(l) = (a \o l.nums) \o b
  BY DEF LineTokens
<1> HIDE DEF a, b
<1>5. a \o l.nums \in Seq(Token) /\ (a \o l.nums) \o b \in Seq(Token)
  BY <1>1, <1>2
<1>6. \A u, w \in Seq(Token) : Len(u) >= 1 => Len(u \o w) >= 1 /\ (u \o w)[1] = u[1]
  OBVIOUS
<1>7. LineTokens(l) \in Seq(Token)
  BY <1>4, <1>5
<1>8. ASSUME l.head # ""
      PROVE  Word \in {LineTokens(l)[p] : p \in DOMAIN LineTokens(l)}
  <2>1. Len(a) >= 1 /\ a[1] = Word
    <3>1. a = <<Word>>
      BY <1>3, <1>8
    <3> QED BY <3>1
  <2>2. Len(a \o l.nums) >= 1 /\ (a \o l.nums)[1] = Word
    BY <1>1, <1>2, <1>6, <2>1
  <2>3. Len(LineTokens(l)) >= 1 /\ LineTokens(l)[1] = Word
    BY <1>2, <1>4, <1>5, <1>6, <2>2
  <2> DEFINE t == LineTokens(l)
  <2> HIDE DEF t
  <2>4. 1 \in DOMAIN t /\ t[1] = Word
    BY <1>7, <2>3 DEF t
  <2> QED BY <2>4 DEF t
<1> QED BY <1>7, <1>8

\* The tokens of a file are tokens, and a keyword is one that is no number.
LEMMA TokensType ==
  ASSUME NEW c \in Seq(Line), c # <<>>
  PROVE  /\ Tokens(c) \in Seq(Token)
         /\ \A k \in DOMAIN c : c[k].head # "" => Word \in ToSet(Tokens(c))
<1> DEFINE s == [i \in DOMAIN c |-> LineTokens(c[i])]
           n == Len(s)
           body(f) == [i \in 1 .. n |-> IF i = 1 THEN s[i] ELSE f[i - 1] \o s[i]]
           g == CHOOSE f : f = body(f)
<1>0. \A i \in DOMAIN c : c[i] \in Line
  BY ElementOfSeq
<1>1. /\ s \in Seq(Seq(Token)) /\ Len(s) = Len(c) /\ Len(c) \in Nat \ {0}
      /\ DOMAIN s = 1 .. n /\ DOMAIN c = 1 .. n
  <2>1. \A i \in DOMAIN c : LineTokens(c[i]) \in Seq(Token)
    BY <1>0, LineTokensType
  <2> QED BY <2>1
<1>2. JoinRule(s, n, g)
  <2>1. PICK f : JoinRule(s, n, f)
    BY <1>1, JoinExists
  <2>2. f = body(f)
    BY <2>1 DEF JoinRule
  <2>3. g = body(g)
    <3> HIDE DEF body
    <3> QED BY <2>2
  <2> HIDE DEF g
  <2> QED BY <2>3 DEF JoinRule
<1>3. Tokens(c) = g[n]
  BY <1>1 DEF Tokens, FlattenSeq
<1> HIDE DEF g
<1>4. n \in 1 .. n
  BY <1>1
<1>5. /\ g[n] \in Seq(Token)
      /\ \A k \in 1 .. n : \A p \in DOMAIN s[k] : \E q \in DOMAIN g[n] : g[n][q] = s[k][p]
  <2> HIDE DEF s
  <2> QED BY <1>1, <1>2, <1>4, JoinType
<1>6. ASSUME NEW k \in DOMAIN c, c[k].head # "" PROVE Word \in ToSet(Tokens(c))
  <2>1. PICK p \in DOMAIN LineTokens(c[k]) : LineTokens(c[k])[p] = Word
    BY <1>0, <1>6, LineTokensType
  <2>2. k \in 1 .. n /\ s[k] = LineTokens(c[k])
    BY <1>1
  <2>3. PICK q \in DOMAIN g[n] : g[n][q] = Word
    BY <1>5, <2>1, <2>2
  <2> QED BY <1>3, <2>3 DEF ToSet
<1> QED BY <1>3, <1>5, <1>6

\* Each parser sees these tokens, and the same numbers of 32 bits.
LEMMA SameViews ==
  /\ Compact!tokens = Tokens(content)
  /\ Compact!int32 = int32 /\ Ampl!int32 = int32
  /\ \A s : Compact!ToSet(s) = ToSet(s) /\ Ampl!ToSet(s) = ToSet(s)
  /\ \A s, k : Ampl!IsRecord(s, k) <=> IsRecord(s, k)
  /\ \A s : Ampl!Cardinality(s) = Cardinality(s)
<1>1. Compact!int32 = int32 /\ Ampl!int32 = int32
  BY DEF Compact!int32, Ampl!int32, int32
<1>2. \A s : Compact!FlattenSeq(s) = FlattenSeq(s)
  BY DEF Compact!FlattenSeq, FlattenSeq
<1>3. \A l : Compact!LineTokens(l) = LineTokens(l)
  BY DEF Compact!LineTokens, LineTokens
<1>4. Compact!tokens = Tokens(content)
  BY <1>2, <1>3 DEF Compact!tokens, Compact!Tokens, Tokens
<1>5. \A s : Compact!ToSet(s) = ToSet(s) /\ Ampl!ToSet(s) = ToSet(s)
  BY DEF Compact!ToSet, Ampl!ToSet, ToSet
<1>6. \A s, k : Ampl!IsRecord(s, k) <=> IsRecord(s, k)
  BY <1>1 DEF Ampl!IsRecord, IsRecord
<1>7. \A s : Ampl!Cardinality(s) = Cardinality(s)
  BY DEF Ampl!Cardinality, Cardinality
<1> QED BY <1>1, <1>4, <1>5, <1>6, <1>7
-----------------------------------------------------------------------------
(* What has been read, as a function of the lines read so far.             *)

\* The lines h to l of a file c are a block, or the beginning of one: h is
\* the first line with its header from the given one on, there is no other
\* keyword, and no semicolon before the line l.
BlockUpTo(c, header, from, h, l) ==
  /\ from <= h /\ h <= l /\ l <= Len(c)
  /\ c[h].head = header /\ \A i \in from .. h - 1 : c[i].head # header
  /\ \A i \in h .. l - 1 : ~ c[i].semi
  /\ \A i \in h + 1 .. l : c[i].head = ""

\* Its lines that hold a record.
Filled(c, h, l) == {k \in h .. l : c[k].nums # <<>>}

\* A line that gives the parameter a value, see Gives.
Giving(l, name) == l.head = name /\ Len(l.nums) = 1 /\ l.nums[1] \in Int

\* The value that the lines before h give a parameter last.
LastGiven(c, name, h) ==
  {c[i].nums[1] : i \in {k \in 1 .. h - 1 :
                           Giving(c[k], name) /\ \A m \in k + 1 .. h - 1 : ~ Giving(c[m], name)}}

IsItemRecord(nums, n) == IsRecord(nums, 3) /\ nums[1] \in 0 .. n - 1 /\ nums[3] >= 0

\* The records on the lines h to l, of n items, are the ones loaded, each once.
Learned(c, n, items, h, l) ==
  /\ \A k \in Filled(c, h, l) : IsItemRecord(c[k].nums, n)
  /\ DOMAIN items = {c[k].nums[1] : k \in Filled(c, h, l)}
  /\ \A k \in Filled(c, h, l) : items[c[k].nums[1]] = <<c[k].nums[2], c[k].nums[3]>>
  /\ Cardinality(DOMAIN items) = Cardinality(Filled(c, h, l))

\* The header at the line h is behind the parameters n and c.
ParametersRead(c, n, room, h) ==
  /\ n \in 1 .. Int32Max /\ n \in LastGiven(c, "n", h)
  /\ room \in Nat /\ room \in LastGiven(c, "c", h)

\* The block of the items is read up to the line l.
ItemsRead(c, n, room, items, h, l) ==
  /\ BlockUpTo(c, "values", 1, h, l)
  /\ ParametersRead(c, n, room, h)
  /\ Learned(c, n, items, h, l)

\* The block of the items is complete: it ends at the line v.
ItemsDone(c, n, room, items, h, v) == ItemsRead(c, n, room, items, h, v) /\ c[v].semi

\* The records on the lines e to l are the edges read.
Listed(c, edges, e, l) ==
  /\ \A k \in Filled(c, e, l) : IsRecord(c[k].nums, 2)
  /\ edges = {<<c[k].nums[1], c[k].nums[2]>> : k \in Filled(c, e, l)}

\* The block of the edges, behind the line v, is read up to the line l.
EdgesRead(c, edges, v, e, l) == BlockUpTo(c, "edges", v + 1, e, l) /\ Listed(c, edges, e, l)

\* While the AMPL parser runs, and when it has accepted the file.
AmplTrack ==
  /\ cursor \in 0 .. Len(content)
  /\ state \in {"Header", "Values", "WaitingEdges", "Edges", "Done", "parsed", "refused", "thrown"}
  /\ state = "Header" =>
       /\ \A i \in 1 .. cursor : content[i].head # "values"
       /\ parsed_n_items = LastGiven(content, "n", cursor + 1)
       /\ parsed_capacity = LastGiven(content, "c", cursor + 1)
  /\ state \in {"Header", "Values", "WaitingEdges"} => raw_conflicts = {}
  /\ state = "Values" =>
       \E h \in DOMAIN content :
         /\ ItemsRead(content, n_items, capacity, loaded, h, cursor)
         /\ ~ content[cursor].semi
  /\ state = "WaitingEdges" =>
       \E h, v \in DOMAIN content :
         /\ ItemsDone(content, n_items, capacity, loaded, h, v)
         /\ v <= cursor /\ \A i \in v + 1 .. cursor : content[i].head # "edges"
  /\ state \in {"Edges", "Done", "parsed"} =>
       \E h, v, e \in DOMAIN content :
         /\ ItemsDone(content, n_items, capacity, loaded, h, v)
         /\ EdgesRead(content, raw_conflicts, v, e, cursor)
         /\ content[cursor].semi <=> state # "Edges"
  /\ state = "parsed" =>
       /\ Cardinality(DOMAIN loaded) = n_items
       /\ profits = [i \in 0 .. n_items - 1 |-> IF i \in DOMAIN loaded THEN loaded[i][1] ELSE 0]
       /\ weights = [i \in 0 .. n_items - 1 |-> IF i \in DOMAIN loaded THEN loaded[i][2] ELSE 0]

\* The header and the values of n items leave m edges of the tokens t.
LeavesEdges(t, n, m) == m >= 0 /\ Len(t) = 3 + 2 * n + 2 * m

\* The m edges behind n items.
EdgesOf(t, n, m) == {<<t[4 + 2 * (n + e)], t[5 + 2 * (n + e)]>> : e \in 0 .. m - 1}

\* While the other parser runs on the tokens t, and when it has accepted them.
CompactTrack(t) ==
  /\ state \in {"tokens", "header", "layout", "items", "parsed", "refused"}
  /\ state \in {"tokens", "header", "layout"} => cursor = 0
  /\ state \in {"header", "layout", "items", "parsed"} => t \in Seq(Int)
  /\ state \in {"layout", "items", "parsed"} =>
       /\ n_items \in 1 .. Int32Max /\ n_items = t[1]
       /\ Len(t) >= 3 + 2 * n_items
  /\ state \in {"items", "parsed"} =>
       /\ LeavesEdges(t, n_items, t[2]) \/ LeavesEdges(t, n_items, t[3])
       /\ capacity \in Nat
       /\ capacity = IF LeavesEdges(t, n_items, t[2]) THEN t[3] ELSE t[2]
       /\ cursor \in 0 .. n_items
       /\ profits \in [0 .. n_items - 1 -> int32]
       /\ weights \in [0 .. n_items - 1 -> 0 .. Int32Max]
       /\ \A i \in 0 .. cursor - 1 :
            profits[i] = t[4 + i] /\ weights[i] = t[4 + n_items + i]
  /\ state = "parsed" =>
       /\ cursor = n_items
       /\ \A m \in {t[2], t[3]} :
            LeavesEdges(t, n_items, m) => raw_conflicts = EdgesOf(t, n_items, m)
       /\ raw_conflicts \subseteq int32 \X int32

-----------------------------------------------------------------------------
(* The inductive invariant of the reader.                                  *)

\* What clear_data leaves.
Cleared ==
  /\ n_items = 0 /\ capacity = 0 /\ n_conflicts = 0
  /\ profits = <<>> /\ weights = <<>> /\ conflict_graph = <<>>

\* The items hold after either parser.
ItemsLoaded ==
  /\ n_items \in Nat \ {0} /\ capacity \in Nat
  /\ profits \in [0 .. n_items - 1 -> int32]
  /\ weights \in [0 .. n_items - 1 -> 0 .. Int32Max]
  /\ raw_conflicts \subseteq Int \X Int

\* The lists of the items 0 to n - 1 that the normalization makes of edges from a base.
ListsOf(n, edges, b) ==
  [i \in 0 .. n - 1 |->
     {j \in 0 .. n - 1 : i # j /\ (<<i + b, j + b>> \in edges \/ <<j + b, i + b>> \in edges)}]

\* The passes of the normalization.
GraphTrack ==
  /\ pass \in {"idle", "scan", "build", "count", "ok", "error"}
  /\ pass # "idle" => state = "parsed"
  /\ base \in {0, 1}
  /\ pass \in {"count", "ok"} => conflict_graph = ListsOf(n_items, raw_conflicts, base)
  /\ pass = "ok" =>
       n_conflicts = SumFunction([i \in 0 .. n_items - 1 |-> Cardinality(conflict_graph[i])]) \div 2

\* While a call runs and after one that has reported success.
Reading ==
  /\ last_error = "" <=> state # "refused"
  /\ IF detect_format(content) = "ampl" THEN AmplTrack ELSE CompactTrack(Tokens(content))
  /\ state = "parsed" => ItemsLoaded
  /\ GraphTrack

ReaderInv ==
  /\ content \in Seq(Line)
  /\ answer \in {"never", "pending", "true", "false", "thrown"}
  /\ answer = "never" => content = <<>>
  /\ answer = "false" => Cleared /\ last_error # ""
  /\ answer \in {"pending", "true"} => content # <<>> /\ Reading
  /\ answer = "true" => state = "parsed" /\ pass = "ok"
  /\ answer = "false" /\ content # <<>> => state = "refused" \/ pass = "error"
  /\ state = "refused" /\ content # <<>> =>
       IF detect_format(content) = "ampl" THEN ~ Ampl!WellFormed ELSE ~ Compact!WellFormed

-----------------------------------------------------------------------------
(* Texts: what they are does not depend on how far they are read.          *)

\* The same text is in the same format.
LEMMA SameText ==
  ASSUME content' = content
  PROVE  /\ Ampl!WellFormed' <=> Ampl!WellFormed
         /\ Compact!WellFormed' <=> Compact!WellFormed
<1>1. Ampl!WellFormed' <=> Ampl!WellFormed
  BY DEF Ampl!WellFormed, Ampl!AreBlocks, Ampl!Numbers, Ampl!IsParameter, Ampl!Records
<1>2. Compact!tokens' = Compact!tokens
  BY DEF Compact!tokens
<1>3. Compact!WellFormed' <=> Compact!WellFormed
  BY <1>2 DEF Compact!WellFormed, Compact!CompleteIf
<1> QED BY <1>1, <1>3

\* What the detection says of the other format.
LEMMA DetectionTells ==
  ASSUME content \in Seq(Line), content # <<>>
  PROVE  IF detect_format(content) = "ampl" THEN ~ Compact!WellFormed
         ELSE \A k \in DOMAIN content : IsAmplLine(content[k]) =>
                Cardinality({i \in 1 .. k : ~ IsBlank(content[i])}) > Inspected
<1> DEFINE Text(k) == {i \in 1 .. k : ~ IsBlank(content[i])}
<1>1. CASE detect_format(content) = "ampl"
  <2>1. PICK k \in DOMAIN content : IsAmplLine(content[k])
    BY <1>1 DEF detect_format
  <2>2. Word \in Compact!ToSet(Compact!tokens)
    BY <2>1, TokensType, SameViews DEF IsAmplLine
  <2> QED BY <1>1, <2>2 DEF Compact!WellFormed
<1>2. CASE detect_format(content) # "ampl"
  <2>1. ASSUME NEW k \in DOMAIN content, IsAmplLine(content[k])
        PROVE  Cardinality(Text(k)) > Inspected
    <3>1. k \in Nat \ {0}
      OBVIOUS
    <3>2. ~ Cardinality(Text(k - 1)) < Inspected
      BY <1>2, <2>1 DEF detect_format
    <3>3. IsFiniteSet(1 .. k - 1)
      BY <3>1, FS_Interval
    <3>4. IsFiniteSet(Text(k - 1))
      <4>1. Text(k - 1) \subseteq 1 .. k - 1
        OBVIOUS
      <4> QED BY <3>3, <4>1, FS_Subset
    <3>5. k \notin Text(k - 1) /\ Text(k) = Text(k - 1) \cup {k}
      <4>1. ~ IsBlank(content[k])
        BY <2>1 DEF IsBlank, IsAmplLine
      <4>2. k \notin 1 .. k - 1 /\ 1 .. k = (1 .. k - 1) \cup {k}
        BY <3>1
      <4> QED BY <4>1, <4>2
    <3>6. Cardinality(Text(k)) = Cardinality(Text(k - 1)) + 1
      <4> HIDE DEF Text
      <4> QED BY <3>4, <3>5, FS_AddElement
    <3>7. Cardinality(Text(k - 1)) \in Nat
      <4> HIDE DEF Text
      <4> QED BY <3>4, FS_CardinalityType
    <3> HIDE DEF Text
    <3> QED BY <3>2, <3>6, <3>7, InspectedAssumption
  <2> QED BY <1>2, <2>1
<1> QED BY <1>1, <1>2

\* A step of a parser: what has to be shown of it.
LEMMA ParserStep ==
  ASSUME ReaderInv, answer = "pending", pass = "idle",
         UNCHANGED <<content, pass, base, answer>>,
         last_error' = "" <=> state' # "refused",
         IF detect_format(content) = "ampl" THEN AmplTrack' ELSE CompactTrack(Tokens(content))',
         state' = "parsed" => ItemsLoaded',
         state' = "refused" =>
           IF detect_format(content) = "ampl" THEN ~ Ampl!WellFormed ELSE ~ Compact!WellFormed
  PROVE  ReaderInv'
<1>1. base' \in {0, 1} /\ content' = content /\ answer' = "pending" /\ pass' = "idle"
  BY DEF ReaderInv, Reading, GraphTrack
<1>2. GraphTrack'
  BY <1>1 DEF GraphTrack
<1>3. detect_format(content)' = detect_format(content)
  BY <1>1
<1>4. Reading'
  BY <1>2, <1>3 DEF Reading
<1>5. content \in Seq(Line) /\ content # <<>>
  BY DEF ReaderInv
<1> QED BY <1>1, <1>3, <1>4, <1>5, SameText DEF ReaderInv

-----------------------------------------------------------------------------
(* The compact format: one lemma per section.                              *)

\* No reason for a refusal has been noted.
NoReason == last_error = ""

\* What a section leaves of the tokens t.
SectionRead(t) ==
  /\ CompactTrack(t)'
  /\ last_error' = "" <=> state' # "refused"
  /\ state' = "parsed" => ItemsLoaded'
  /\ state' = "refused" => ~ Compact!WellFormed

\* Tokens that are no words are numbers.
LEMMA NumbersOnly ==
  ASSUME NEW t \in Seq(Token), Word \notin ToSet(t)
  PROVE  t \in Seq(Int)
<1>1. \A i \in 1 .. Len(t) : t[i] \in Int
  <2> TAKE i \in 1 .. Len(t)
  <2>1. t[i] \in Token
    BY ElementOfSeq
  <2>2. t[i] # Word
    BY DEF ToSet
  <2> QED BY <2>1, <2>2 DEF Token
<1> QED BY <1>1

LEMMA ReadTokensKeeps ==
  ASSUME NEW CONSTANT t, t = Compact!tokens, t \in Seq(Token), CompactTrack(t),
         NoReason, Compact!ReadTokens
  PROVE  SectionRead(t)
<1>1. CASE Word \in ToSet(t)
  <2>1. state' = "refused" /\ last_error' # ""
    BY <1>1, SameViews DEF Compact!ReadTokens, Compact!Refuse
  <2>2. CompactTrack(t)'
    BY <2>1 DEF CompactTrack
  <2>3. ~ Compact!WellFormed
    BY <1>1, SameViews DEF Compact!WellFormed
  <2> QED BY <2>1, <2>2, <2>3 DEF SectionRead
<1>2. CASE Word \notin ToSet(t)
  <2>1. state = "tokens" /\ state' = "header" /\ last_error' = "" /\ cursor' = cursor
    BY <1>2, SameViews DEF Compact!ReadTokens, Compact!Proceed, NoReason
  <2>2. t \in Seq(Int)
    BY <1>2, NumbersOnly
  <2>3. CompactTrack(t)'
    BY <2>1, <2>2 DEF CompactTrack
  <2> QED BY <2>1, <2>3 DEF SectionRead
<1> QED BY <1>1, <1>2

LEMMA ReadHeaderKeeps ==
  ASSUME NEW CONSTANT t, t = Compact!tokens, CompactTrack(t), NoReason,
         Compact!ReadHeader
  PROVE  SectionRead(t)
<1>1. state = "header" /\ t \in Seq(Int) /\ cursor = 0 /\ cursor' = 0
  BY DEF Compact!ReadHeader, CompactTrack
<1>2. CASE Len(t) < 3 \/ t[1] \notin 1 .. Int32Max
  <2>1. state' = "refused" /\ last_error' # ""
    BY <1>2 DEF Compact!ReadHeader, Compact!Refuse
  <2>2. CompactTrack(t)'
    BY <2>1 DEF CompactTrack
  <2>3. ~ Compact!WellFormed
    BY <1>1, <1>2 DEF Compact!WellFormed
  <2> QED BY <2>1, <2>2, <2>3 DEF SectionRead
<1>3. CASE ~ (Len(t) < 3 \/ t[1] \notin 1 .. Int32Max) /\ Len(t) < 3 + 2 * t[1]
  <2>1. state' = "refused" /\ last_error' # ""
    BY <1>3 DEF Compact!ReadHeader, Compact!Refuse
  <2>2. CompactTrack(t)'
    BY <2>1 DEF CompactTrack
  <2>3. ~ Compact!WellFormed
    <3>1. t[1] \in Int /\ t[2] \in Int /\ t[3] \in Int /\ Len(t) \in Nat
      BY <1>1, <1>3
    <3>2. \A m \in Int : m >= 0 => Len(t) # 3 + 2 * t[1] + 2 * m
      BY <1>3, <3>1
    <3> QED BY <3>1, <3>2 DEF Compact!WellFormed, Compact!CompleteIf
  <2> QED BY <2>1, <2>2, <2>3 DEF SectionRead
<1>4. CASE ~ (Len(t) < 3 \/ t[1] \notin 1 .. Int32Max) /\ ~ (Len(t) < 3 + 2 * t[1])
  <2>1. n_items' = t[1] /\ state' = "layout" /\ last_error' = ""
    BY <1>4 DEF Compact!ReadHeader, Compact!Proceed, NoReason
  <2>2. t[1] \in 1 .. Int32Max /\ Len(t) >= 3 + 2 * t[1]
    BY <1>1, <1>4, Int32Assumption
  <2>3. CompactTrack(t)'
    BY <1>1, <2>1, <2>2 DEF CompactTrack
  <2> QED BY <2>1, <2>3 DEF SectionRead
<1> QED BY <1>2, <1>3, <1>4

\* The numbers of the header and what is left behind the values.
LEMMA LayoutOf ==
  ASSUME NEW CONSTANT t, t = Compact!tokens, CompactTrack(t),
         state \in {"layout", "items", "parsed"}
  PROVE  /\ t \in Seq(Int) /\ Len(t) \in Nat /\ t[2] \in Int /\ t[3] \in Int
         /\ n_items \in Nat \ {0} /\ n_items = t[1] /\ n_items \in 1 .. Int32Max
         /\ Len(t) >= 3 + 2 * n_items
         /\ \A m \in Int : Compact!layout_matches(m) <=> LeavesEdges(t, n_items, m)
         /\ \A o \in {2, 3} : Compact!CompleteIf(o) <=> LeavesEdges(t, n_items, t[o])
         /\ Compact!parsed_capacity = IF LeavesEdges(t, n_items, t[2]) THEN t[3] ELSE t[2]
<1>1. /\ t \in Seq(Int) /\ n_items \in 1 .. Int32Max /\ n_items = t[1]
      /\ Len(t) >= 3 + 2 * n_items
  BY DEF CompactTrack
<1>2. n_items \in Nat \ {0} /\ Len(t) \in Nat
  BY <1>1, Int32Assumption
<1>3. t[2] \in Int /\ t[3] \in Int
  <2>1. 2 \in 1 .. Len(t) /\ 3 \in 1 .. Len(t)
    BY <1>1, <1>2
  <2> QED BY <1>1, <2>1
<1>4. \A m \in Int : Compact!layout_matches(m) <=> LeavesEdges(t, n_items, m)
  <2> TAKE m \in Int
  <2>1. Len(t) - (3 + 2 * n_items) = 2 * m <=> Len(t) = 3 + 2 * n_items + 2 * m
    BY <1>2
  <2> QED BY <2>1 DEF Compact!layout_matches, Compact!remaining_tokens,
                      Compact!conflicts_start, LeavesEdges
<1>5. \A o \in {2, 3} : Compact!CompleteIf(o) <=> LeavesEdges(t, n_items, t[o])
  BY <1>1 DEF Compact!CompleteIf, LeavesEdges
<1>6. Compact!parsed_capacity = IF LeavesEdges(t, n_items, t[2]) THEN t[3] ELSE t[2]
  BY <1>3, <1>4 DEF Compact!parsed_capacity
<1> QED BY <1>1, <1>2, <1>3, <1>4, <1>5, <1>6

LEMMA InferLayoutKeeps ==
  ASSUME NEW CONSTANT t, t = Compact!tokens, CompactTrack(t), NoReason,
         Compact!InferLayout
  PROVE  SectionRead(t)
<1>1. state = "layout" /\ cursor = 0 /\ cursor' = 0 /\ t \in Seq(Int)
  BY DEF Compact!InferLayout, CompactTrack
<1>2. /\ t[2] \in Int /\ t[3] \in Int
      /\ \A m \in Int : Compact!layout_matches(m) <=> LeavesEdges(t, n_items, m)
      /\ \A o \in {2, 3} : Compact!CompleteIf(o) <=> LeavesEdges(t, n_items, t[o])
      /\ Compact!parsed_capacity = IF LeavesEdges(t, n_items, t[2]) THEN t[3] ELSE t[2]
  BY <1>1, LayoutOf
<1> DEFINE second == LeavesEdges(t, n_items, t[2])
           third == LeavesEdges(t, n_items, t[3])
           room == Compact!parsed_capacity
<1>3. Compact!WellFormed => (second \/ third) /\ (second => t[3] >= 0) /\ (~ second => t[2] >= 0)
  <2> SUFFICES ASSUME Compact!WellFormed
               PROVE  (second \/ third) /\ (second => t[3] >= 0) /\ (~ second => t[2] >= 0)
    OBVIOUS
  <2>1. PICK o \in {2, 3} : Compact!CompleteIf(o) /\ t[5 - o] >= 0
    BY DEF Compact!WellFormed
  <2>2. CASE o = 2
    BY <1>2, <2>1, <2>2
  <2>3. CASE o = 3
    BY <1>2, <2>1, <2>3 DEF LeavesEdges
  <2> QED BY <2>2, <2>3
<1>4. CASE ~ (second \/ third)
  <2>1. state' = "refused" /\ last_error' # ""
    BY <1>2, <1>4 DEF Compact!InferLayout, Compact!Refuse
  <2>2. CompactTrack(t)'
    BY <2>1 DEF CompactTrack
  <2> QED BY <1>3, <1>4, <2>1, <2>2 DEF SectionRead
<1>5. CASE (second \/ third) /\ room < 0
  <2>1. state' = "refused" /\ last_error' # ""
    BY <1>2, <1>5 DEF Compact!InferLayout, Compact!Refuse
  <2>2. CompactTrack(t)'
    BY <2>1 DEF CompactTrack
  <2>3. ~ (second /\ t[3] >= 0) /\ ~ (~ second /\ t[2] >= 0)
    BY <1>2, <1>5
  <2> QED BY <1>3, <2>1, <2>2, <2>3 DEF SectionRead
<1>6. CASE (second \/ third) /\ ~ (room < 0)
  <2>1. /\ state' = "items" /\ last_error' = "" /\ n_items' = n_items /\ capacity' = room
        /\ profits' = [i \in 0 .. n_items - 1 |-> 0]
        /\ weights' = [i \in 0 .. n_items - 1 |-> 0]
    BY <1>2, <1>6 DEF Compact!InferLayout, Compact!Proceed, NoReason
  <2>2. room \in Nat /\ room = IF second THEN t[3] ELSE t[2]
    BY <1>2, <1>6
  <2>3. 0 \in int32 /\ 0 \in 0 .. Int32Max
    BY Int32Assumption DEF int32
  <2>4. profits' \in [0 .. n_items - 1 -> int32] /\ weights' \in [0 .. n_items - 1 -> 0 .. Int32Max]
    BY <2>1, <2>3
  <2>5. 0 \in 0 .. n_items /\ \A i \in 0 .. 0 - 1 : FALSE
    BY <1>1, LayoutOf
  <2>6. n_items \in 1 .. Int32Max /\ n_items = t[1] /\ Len(t) >= 3 + 2 * n_items
    BY <1>1, LayoutOf
  <2> HIDE DEF room, second, third
  <2>7. CompactTrack(t)'
    BY <1>1, <1>6, <2>1, <2>2, <2>4, <2>5, <2>6 DEF CompactTrack, second, third
  <2> QED BY <2>1, <2>7 DEF SectionRead
<1> QED BY <1>4, <1>5, <1>6

\* Zero is a number of 32 bits, and these are integers.
LEMMA NumbersOf32Bits == 0 \in int32 /\ int32 \subseteq Int /\ 0 .. Int32Max = {x \in int32 : x >= 0}
BY Int32Assumption DEF int32

\* The values of the next item, if every number of the file fits.
LEMMA NextValuesFit ==
  ASSUME NEW CONSTANT t, t = Compact!tokens, CompactTrack(t), state = "items",
         cursor < n_items
  PROVE  Compact!WellFormed =>
           t[4 + cursor] \in int32 /\ t[4 + n_items + cursor] \in 0 .. Int32Max
<1> SUFFICES ASSUME Compact!WellFormed
             PROVE  t[4 + cursor] \in int32 /\ t[4 + n_items + cursor] \in 0 .. Int32Max
  OBVIOUS
<1>1. /\ n_items \in Nat \ {0} /\ n_items = t[1] /\ Len(t) \in Nat
      /\ Len(t) >= 3 + 2 * n_items
  BY LayoutOf
<1>2. cursor \in 0 .. n_items - 1
  <2>1. cursor \in 0 .. n_items /\ cursor < n_items
    BY DEF CompactTrack
  <2> QED BY <1>1, <2>1
<1>3. \A i \in 4 .. Len(t) : t[i] \in int32
  BY DEF Compact!WellFormed, SameViews, Compact!int32, int32
<1>4. \A i \in 1 .. n_items : t[3 + n_items + i] >= 0
  BY <1>1 DEF Compact!WellFormed
<1>5. 4 + cursor \in 4 .. Len(t) /\ 4 + n_items + cursor \in 4 .. Len(t)
  BY <1>1, <1>2
<1>6. cursor + 1 \in 1 .. n_items /\ 3 + n_items + (cursor + 1) = 4 + n_items + cursor
  BY <1>1, <1>2
<1> QED BY <1>3, <1>4, <1>5, <1>6, NumbersOf32Bits

LEMMA ReadItemKeeps ==
  ASSUME NEW CONSTANT t, t = Compact!tokens, CompactTrack(t), NoReason, Compact!ReadItem
  PROVE  SectionRead(t)
<1>1. state = "items" /\ cursor < n_items /\ n_items' = n_items /\ capacity' = capacity
  BY DEF Compact!ReadItem
<1>2. /\ n_items \in Nat \ {0} /\ n_items = t[1] /\ Len(t) \in Nat
      /\ n_items \in 1 .. Int32Max /\ Len(t) >= 3 + 2 * n_items /\ t \in Seq(Int)
  BY <1>1, LayoutOf
<1>3. /\ LeavesEdges(t, n_items, t[2]) \/ LeavesEdges(t, n_items, t[3])
      /\ capacity \in Nat
      /\ capacity = IF LeavesEdges(t, n_items, t[2]) THEN t[3] ELSE t[2]
      /\ cursor \in 0 .. n_items
      /\ profits \in [0 .. n_items - 1 -> int32]
      /\ weights \in [0 .. n_items - 1 -> 0 .. Int32Max]
      /\ \A i \in 0 .. cursor - 1 :
           profits[i] = t[4 + i] /\ weights[i] = t[4 + n_items + i]
  BY <1>1 DEF CompactTrack
<1> DEFINE p == t[4 + cursor]
           w == t[4 + n_items + cursor]
<1>4. Compact!weights_start + 1 + cursor = 4 + n_items + cursor
  BY <1>2, <1>3 DEF Compact!weights_start
<1>5. CASE p \in int32 /\ w \in 0 .. Int32Max
  <2>1. /\ profits' = [profits EXCEPT ![cursor] = p]
        /\ weights' = [weights EXCEPT ![cursor] = w]
        /\ cursor' = cursor + 1 /\ state' = "items" /\ last_error' = ""
    BY <1>4, <1>5 DEF Compact!ReadItem, Compact!Proceed, NoReason, Compact!int32, int32
  <2>2. /\ cursor \in 0 .. n_items - 1 /\ cursor' \in 0 .. n_items
        /\ \A i \in 0 .. cursor' - 1 :
             i \in 0 .. n_items - 1 /\ (i = cursor \/ i \in 0 .. cursor - 1)
    <3>1. cursor \in 0 .. n_items /\ cursor < n_items /\ n_items \in Nat
      BY <1>1, <1>2, <1>3
    <3>2. cursor' = cursor + 1
      BY <2>1
    <3> QED BY <3>1, <3>2
  <2>3. /\ profits' \in [0 .. n_items - 1 -> int32]
        /\ weights' \in [0 .. n_items - 1 -> 0 .. Int32Max]
    BY <1>3, <1>5, <2>1
  <2>4. \A i \in 0 .. cursor' - 1 :
          profits'[i] = t[4 + i] /\ weights'[i] = t[4 + n_items + i]
    <3> TAKE i \in 0 .. cursor' - 1
    <3>1. i \in 0 .. n_items - 1 /\ (i = cursor \/ i \in 0 .. cursor - 1)
      BY <2>2
    <3>2. CASE i = cursor
      BY <1>3, <2>1, <2>2, <3>2
    <3>3. CASE i # cursor
      <4>1. i \in 0 .. cursor - 1 /\ i \in 0 .. n_items - 1
        BY <3>1, <3>3
      <4>2. profits'[i] = profits[i] /\ weights'[i] = weights[i]
        BY <1>3, <2>1, <3>3, <4>1
      <4> QED BY <1>3, <4>1, <4>2
    <3> QED BY <3>2, <3>3
  <2>5. CompactTrack(t)'
    BY <1>1, <1>2, <1>3, <2>1, <2>2, <2>3, <2>4 DEF CompactTrack
  <2> QED BY <2>1, <2>5 DEF SectionRead
<1>6. CASE ~ (p \in int32 /\ w \in 0 .. Int32Max)
  <2>1. state' = "refused" /\ last_error' # ""
    BY <1>4, <1>6 DEF Compact!ReadItem, Compact!Refuse, Compact!int32, int32
  <2>2. CompactTrack(t)'
    BY <2>1 DEF CompactTrack
  <2>3. ~ Compact!WellFormed
    BY <1>1, <1>6, NextValuesFit
  <2> QED BY <2>1, <2>2, <2>3 DEF SectionRead
<1> QED BY <1>5, <1>6

\* The numbers that are left, in pairs.
LEMMA EdgesAre ==
  ASSUME NEW CONSTANT t, t = Compact!tokens, CompactTrack(t),
         state \in {"items", "parsed"}, NEW m \in Int, LeavesEdges(t, n_items, m)
  PROVE  /\ Compact!Edges = EdgesOf(t, n_items, m)
         /\ \A e \in EdgesOf(t, n_items, m) :
              \E i, j \in 4 .. Len(t) : e = <<t[i], t[j]>>
<1>1. n_items \in Nat /\ Len(t) \in Nat /\ m \in Nat /\ Len(t) = 3 + 2 * n_items + 2 * m
  BY LayoutOf DEF LeavesEdges
<1> DEFINE start == 3 + 2 * n_items
           Edge(e) == <<t[start + 2 * e - 1], t[start + 2 * e]>>
<1>2. Compact!Edges = {Edge(e) : e \in 1 .. m}
  <2>1. Compact!conflicts_start = start /\ Compact!remaining_tokens = Len(t) - start
    BY DEF Compact!conflicts_start, Compact!remaining_tokens
  <2>2. (Len(t) - start) \div 2 = m
    BY <1>1
  <2> HIDE DEF start
  <2> QED BY <2>1, <2>2 DEF Compact!Edges
<1>3. \A e \in 1 .. m : /\ start + 2 * e - 1 = 4 + 2 * (n_items + (e - 1))
                        /\ start + 2 * e = 5 + 2 * (n_items + (e - 1))
                        /\ e - 1 \in 0 .. m - 1
  BY <1>1
<1>4. \A e \in 0 .. m - 1 : /\ 4 + 2 * (n_items + e) = start + 2 * (e + 1) - 1
                            /\ 5 + 2 * (n_items + e) = start + 2 * (e + 1)
                            /\ e + 1 \in 1 .. m
                            /\ 4 + 2 * (n_items + e) \in 4 .. Len(t)
                            /\ 5 + 2 * (n_items + e) \in 4 .. Len(t)
  BY <1>1
<1>5. {Edge(e) : e \in 1 .. m} = EdgesOf(t, n_items, m)
  <2>1. ASSUME NEW e \in 1 .. m PROVE Edge(e) \in EdgesOf(t, n_items, m)
    <3> DEFINE f == e - 1
    <3>1. f \in 0 .. m - 1 /\ Edge(e) = <<t[4 + 2 * (n_items + f)], t[5 + 2 * (n_items + f)]>>
      BY <1>3
    <3> HIDE DEF f, Edge
    <3> QED BY <3>1 DEF EdgesOf
  <2>2. ASSUME NEW e \in 0 .. m - 1
        PROVE  <<t[4 + 2 * (n_items + e)], t[5 + 2 * (n_items + e)]>> \in {Edge(d) : d \in 1 .. m}
    <3> DEFINE f == e + 1
    <3>1. f \in 1 .. m /\ Edge(f) = <<t[4 + 2 * (n_items + e)], t[5 + 2 * (n_items + e)]>>
      BY <1>4
    <3> HIDE DEF f, Edge
    <3> QED BY <3>1
  <2> HIDE DEF Edge
  <2> QED BY <2>1, <2>2 DEF EdgesOf
<1>6. \A e \in EdgesOf(t, n_items, m) : \E i, j \in 4 .. Len(t) : e = <<t[i], t[j]>>
  <2> TAKE e \in EdgesOf(t, n_items, m)
  <2>1. PICK k \in 0 .. m - 1 : e = <<t[4 + 2 * (n_items + k)], t[5 + 2 * (n_items + k)]>>
    BY DEF EdgesOf
  <2> QED BY <1>4, <2>1
<1> QED BY <1>2, <1>5, <1>6

LEMMA ReadEdgesKeeps ==
  ASSUME NEW CONSTANT t, t = Compact!tokens, CompactTrack(t), NoReason, Compact!ReadEdges
  PROVE  SectionRead(t)
<1>1. /\ state = "items" /\ cursor = n_items /\ cursor' = cursor
      /\ UNCHANGED <<n_items, capacity, profits, weights>>
  BY DEF Compact!ReadEdges, Compact!fields
<1>2. /\ n_items \in Nat \ {0} /\ n_items = t[1] /\ Len(t) \in Nat
      /\ n_items \in 1 .. Int32Max /\ Len(t) >= 3 + 2 * n_items /\ t \in Seq(Int)
      /\ t[2] \in Int /\ t[3] \in Int
  BY <1>1, LayoutOf
<1>3. /\ LeavesEdges(t, n_items, t[2]) \/ LeavesEdges(t, n_items, t[3])
      /\ capacity \in Nat
      /\ capacity = IF LeavesEdges(t, n_items, t[2]) THEN t[3] ELSE t[2]
      /\ cursor \in 0 .. n_items
      /\ profits \in [0 .. n_items - 1 -> int32]
      /\ weights \in [0 .. n_items - 1 -> 0 .. Int32Max]
      /\ \A i \in 0 .. cursor - 1 :
           profits[i] = t[4 + i] /\ weights[i] = t[4 + n_items + i]
  BY <1>1 DEF CompactTrack
<1>4. \A m \in {t[2], t[3]} : LeavesEdges(t, n_items, m) => Compact!Edges = EdgesOf(t, n_items, m)
  BY <1>1, <1>2, EdgesAre
<1>5. \A e \in Compact!Edges : \E i, j \in 4 .. Len(t) : e = <<t[i], t[j]>>
  BY <1>1, <1>2, <1>3, EdgesAre
<1>6. CASE \A e \in Compact!Edges : e[1] \in int32 /\ e[2] \in int32
  <2>1. raw_conflicts' = Compact!Edges /\ state' = "parsed" /\ last_error' = ""
    BY <1>6 DEF Compact!ReadEdges, Compact!Proceed, NoReason, Compact!int32, int32
  <2>2. raw_conflicts' \subseteq int32 \X int32
    <3>1. \A e \in Compact!Edges : e \in int32 \X int32
      <4> TAKE e \in Compact!Edges
      <4>1. PICK i, j \in 4 .. Len(t) : e = <<t[i], t[j]>>
        BY <1>5
      <4>2. e[1] \in int32 /\ e[2] \in int32
        BY <1>6
      <4> QED BY <4>1, <4>2
    <3> QED BY <2>1, <3>1
  <2>3. CompactTrack(t)'
    BY <1>1, <1>2, <1>3, <1>4, <2>1, <2>2 DEF CompactTrack
  <2>4. ItemsLoaded'
    BY <1>1, <1>2, <1>3, <2>2, NumbersOf32Bits DEF ItemsLoaded
  <2> QED BY <2>1, <2>3, <2>4 DEF SectionRead
<1>7. CASE ~ \A e \in Compact!Edges : e[1] \in int32 /\ e[2] \in int32
  <2>1. state' = "refused" /\ last_error' # ""
    BY <1>7 DEF Compact!ReadEdges, Compact!Refuse, Compact!int32, int32
  <2>2. CompactTrack(t)'
    BY <2>1 DEF CompactTrack
  <2>3. ~ Compact!WellFormed
    <3>1. Compact!WellFormed => \A i \in 4 .. Len(t) : t[i] \in int32
      BY DEF Compact!WellFormed, Compact!int32, int32
    <3>2. (\A i \in 4 .. Len(t) : t[i] \in int32)
            => \A e \in Compact!Edges : e[1] \in int32 /\ e[2] \in int32
      BY <1>5
    <3> QED BY <1>7, <3>1, <3>2
  <2> QED BY <2>1, <2>2, <2>3 DEF SectionRead
<1> QED BY <1>6, <1>7

\* Every section of a compact file keeps the invariant.
LEMMA CompactKeeps == ReaderInv /\ parse_numeric_compact => ReaderInv'
<1> SUFFICES ASSUME ReaderInv, parse_numeric_compact PROVE ReaderInv'
  OBVIOUS
<1>1. /\ answer = "pending" /\ Compact!ReadSection
      /\ UNCHANGED <<pass, base, answer>>
  BY DEF parse_numeric_compact
<1>2. /\ content' = content
      /\ state \in {"tokens", "header", "layout", "items"}
  BY <1>1 DEF Compact!ReadSection, Compact!ReadTokens, Compact!ReadHeader,
              Compact!InferLayout, Compact!ReadItem, Compact!ReadEdges
<1>3. content \in Seq(Line) /\ content # <<>> /\ Reading
  BY <1>1 DEF ReaderInv
<1>4. detect_format(content) # "ampl" /\ pass = "idle" /\ last_error = ""
  BY <1>2, <1>3 DEF Reading, AmplTrack, GraphTrack
<1>5. PICK t : t = Tokens(content)
  OBVIOUS
<1>6. t = Compact!tokens /\ t \in Seq(Token) /\ CompactTrack(t) /\ NoReason
  BY <1>3, <1>4, <1>5, SameViews, TokensType DEF Reading, NoReason
<1>7. SectionRead(t)
  BY <1>1, <1>6, ReadTokensKeeps, ReadHeaderKeeps, InferLayoutKeeps, ReadItemKeeps,
     ReadEdgesKeeps DEF Compact!ReadSection
<1>8. CompactTrack(Tokens(content))'
  BY <1>2, <1>5, <1>7 DEF SectionRead, CompactTrack
<1> QED BY <1>1, <1>2, <1>4, <1>7, <1>8, ParserStep DEF SectionRead

-----------------------------------------------------------------------------
(* The AMPL format: facts about the text.                                  *)

\* A line of a file, and the numbers that a record of it holds.
LEMMA LinesType ==
  ASSUME NEW c \in Seq(Line)
  PROVE  /\ Len(c) \in Nat /\ DOMAIN c = 1 .. Len(c)
         /\ \A k \in DOMAIN c : c[k].nums \in Seq(Token) /\ c[k].semi \in BOOLEAN
<1>1. \A k \in DOMAIN c : c[k] \in Line
  BY ElementOfSeq
<1>2. \A l \in Line : l.nums \in Seq(Token) /\ l.semi \in BOOLEAN
  BY DEF Line
<1> QED BY <1>1, <1>2

\* The header of a block is the first of its kind, its end the first semicolon.
LEMMA BlocksAreUnique ==
  ASSUME NEW c, NEW w, NEW from \in Nat, NEW h \in Nat, NEW l \in Nat, NEW g \in Nat, NEW m \in Nat,
         BlockUpTo(c, w, from, h, l), BlockUpTo(c, w, from, g, m)
  PROVE  /\ h = g
         /\ c[l].semi /\ c[m].semi => l = m
         /\ ~ c[l].semi /\ c[m].semi => l < m
<1>0. from <= h /\ h <= l /\ from <= g /\ g <= m
  BY DEF BlockUpTo
<1>1. ~ h < g
  <2> SUFFICES ASSUME h < g PROVE FALSE
    OBVIOUS
  <2>1. h \in from .. g - 1
    BY <1>0
  <2> QED BY <2>1 DEF BlockUpTo
<1>2. ~ g < h
  <2> SUFFICES ASSUME g < h PROVE FALSE
    OBVIOUS
  <2>1. g \in from .. h - 1
    BY <1>0
  <2> QED BY <2>1 DEF BlockUpTo
<1>3. h = g
  BY <1>1, <1>2
<1>4. c[l].semi => ~ l < m
  <2>1. l < m => l \in g .. m - 1
    BY <1>0, <1>3
  <2> QED BY <2>1 DEF BlockUpTo
<1>5. c[m].semi => ~ m < l
  <2>1. m < l => m \in h .. l - 1
    BY <1>0, <1>3
  <2> QED BY <2>1 DEF BlockUpTo
<1>6. ~ c[l].semi /\ c[m].semi => l # m
  OBVIOUS
<1> QED BY <1>3, <1>4, <1>5, <1>6

\* A block begins with its header and goes on with lines that have no keyword.
LEMMA BlockGrows ==
  ASSUME NEW c, Len(c) \in Nat, NEW w, NEW from \in Nat, NEW k \in Nat, k + 1 <= Len(c)
  PROVE  /\ from <= k + 1 /\ c[k + 1].head = w /\ (\A i \in from .. k : c[i].head # w)
              => BlockUpTo(c, w, from, k + 1, k + 1)
         /\ \A h \in Nat : BlockUpTo(c, w, from, h, k) /\ ~ c[k].semi /\ c[k + 1].head = ""
              => BlockUpTo(c, w, from, h, k + 1)
<1>1. ASSUME from <= k + 1, c[k + 1].head = w, \A i \in from .. k : c[i].head # w
      PROVE  BlockUpTo(c, w, from, k + 1, k + 1)
  <2>1. /\ \A i \in from .. (k + 1) - 1 : i \in from .. k
        /\ \A i \in k + 1 .. (k + 1) - 1 : FALSE
        /\ \A i \in (k + 1) + 1 .. k + 1 : FALSE
    OBVIOUS
  <2>2. k + 1 <= k + 1 /\ (k + 1) - 1 = k
    OBVIOUS
  <2> QED BY <1>1, <2>1, <2>2 DEF BlockUpTo
<1>2. ASSUME NEW h \in Nat, BlockUpTo(c, w, from, h, k), ~ c[k].semi, c[k + 1].head = ""
      PROVE  BlockUpTo(c, w, from, h, k + 1)
  <2>1. /\ from <= h /\ h <= k /\ c[h].head = w /\ \A i \in from .. h - 1 : c[i].head # w
        /\ \A i \in h .. k - 1 : ~ c[i].semi
        /\ \A i \in h + 1 .. k : c[i].head = ""
    BY <1>2 DEF BlockUpTo
  <2>2. h <= k + 1 /\ \A i \in h .. (k + 1) - 1 : i = k \/ i \in h .. k - 1
    <3>1. h <= k
      BY <2>1
    <3> QED BY <3>1
  <2>3. \A i \in h + 1 .. k + 1 : i = k + 1 \/ i \in h + 1 .. k
    OBVIOUS
  <2> QED BY <1>2, <2>1, <2>2, <2>3 DEF BlockUpTo
<1> QED BY <1>1, <1>2

\* The lines with a record are finitely many, and the next line may be one.
LEMMA FilledGrows ==
  ASSUME NEW c, NEW h \in Nat, NEW k \in Nat, h <= k + 1
  PROVE  /\ IsFiniteSet(Filled(c, h, k)) /\ k + 1 \notin Filled(c, h, k)
         /\ Filled(c, h, k + 1)
              = Filled(c, h, k) \cup (IF c[k + 1].nums = <<>> THEN {} ELSE {k + 1})
         /\ h = k + 1 => Filled(c, h, k) = {}
<1>1. IsFiniteSet(h .. k)
  BY FS_Interval
<1>2. IsFiniteSet(Filled(c, h, k))
  BY <1>1, FS_Subset DEF Filled
<1>3. h .. k + 1 = (h .. k) \cup {k + 1} /\ k + 1 \notin h .. k
  OBVIOUS
<1>4. h = k + 1 => h .. k = {}
  OBVIOUS
<1> QED BY <1>2, <1>3, <1>4 DEF Filled

\* A parameter has one value, which the next line may replace.
LEMMA ParametersGrow ==
  ASSUME NEW c, NEW name, NEW k \in Nat
  PROVE  /\ \A x, y \in LastGiven(c, name, k) : x = y
         /\ LastGiven(c, name, (k + 1) + 1)
              = IF Giving(c[k + 1], name) THEN {c[k + 1].nums[1]} ELSE LastGiven(c, name, k + 1)
<1> DEFINE At(h) == {i \in 1 .. h - 1 :
                       Giving(c[i], name) /\ \A m \in i + 1 .. h - 1 : ~ Giving(c[m], name)}
<1>0. \A h : LastGiven(c, name, h) = {c[i].nums[1] : i \in At(h)}
  BY DEF LastGiven
<1>1. \A i, j \in At(k) : i = j
  <2> TAKE i, j \in At(k)
  <2>1. ~ i < j /\ ~ j < i
    OBVIOUS
  <2> QED BY <2>1
<1>2. ASSUME Giving(c[k + 1], name)
      PROVE  LastGiven(c, name, (k + 1) + 1) = {c[k + 1].nums[1]}
  <2>1. k + 1 \in At((k + 1) + 1)
    BY <1>2
  <2>2. ASSUME NEW i \in At((k + 1) + 1) PROVE i = k + 1
    <3>1. i \in 1 .. k + 1 /\ ~ k + 1 \in i + 1 .. k + 1
      BY <1>2
    <3> QED BY <3>1
  <2>3. At((k + 1) + 1) = {k + 1}
    BY <2>1, <2>2
  <2> HIDE DEF At
  <2> QED BY <1>0, <2>3
<1>3. ASSUME ~ Giving(c[k + 1], name)
      PROVE  LastGiven(c, name, (k + 1) + 1) = LastGiven(c, name, k + 1)
  <2>1. ASSUME NEW i \in At((k + 1) + 1) PROVE i \in At(k + 1)
    <3>1. i \in 1 .. k + 1 /\ i # k + 1
      BY <1>3
    <3> QED BY <3>1
  <2>2. ASSUME NEW i \in At(k + 1) PROVE i \in At((k + 1) + 1)
    <3>1. \A m \in i + 1 .. ((k + 1) + 1) - 1 : m = k + 1 \/ m \in i + 1 .. (k + 1) - 1
      OBVIOUS
    <3> QED BY <1>3, <3>1
  <2>3. At((k + 1) + 1) = At(k + 1)
    BY <2>1, <2>2
  <2> HIDE DEF At
  <2> QED BY <1>0, <2>3
<1>4. \A x, y \in LastGiven(c, name, k) : x = y
  <2> HIDE DEF At
  <2> QED BY <1>0, <1>1
<1> QED BY <1>2, <1>3, <1>4

\* The record of the next line is learned, unless it is none or repeats an item.
LEMMA LearnedGrows ==
  ASSUME NEW c, NEW n, NEW items, NEW h \in Nat, NEW k \in Nat, h <= k + 1,
         Learned(c, n, items, h, k)
  PROVE  /\ c[k + 1].nums = <<>> => Learned(c, n, items, h, k + 1)
         /\ c[k + 1].nums # <<>> /\ IsItemRecord(c[k + 1].nums, n)
            /\ c[k + 1].nums[1] \notin DOMAIN items
              => Learned(c, n, Ampl!WithRecord(items, c[k + 1].nums), h, k + 1)
<1> DEFINE F == Filled(c, h, k)
           r == c[k + 1].nums
<1>1. /\ IsFiniteSet(F) /\ k + 1 \notin F
      /\ Filled(c, h, k + 1) = F \cup (IF r = <<>> THEN {} ELSE {k + 1})
  BY FilledGrows
<1>2. CASE r = <<>>
  <2>1. Filled(c, h, k + 1) = F
    BY <1>1, <1>2
  <2> QED BY <1>2, <2>1 DEF Learned
<1>3. CASE r # <<>> /\ IsItemRecord(r, n) /\ r[1] \notin DOMAIN items
  <2> DEFINE x == r[1]
             more == Ampl!WithRecord(items, r)
  <2>1. Filled(c, h, k + 1) = F \cup {k + 1}
    BY <1>1, <1>3
  <2>2. /\ DOMAIN more = DOMAIN items \cup {x}
        /\ more[x] = <<r[2], r[3]>>
        /\ \A y \in DOMAIN items : more[y] = items[y]
    <3>1. x \notin DOMAIN items
      BY <1>3
    <3> HIDE DEF x, r
    <3> QED BY <3>1 DEF Ampl!WithRecord, x
  <2> HIDE DEF F, more, r
  <2>3. \A j \in F : IsItemRecord(c[j].nums, n) /\ c[j].nums[1] \in DOMAIN items
                     /\ items[c[j].nums[1]] = <<c[j].nums[2], c[j].nums[3]>>
    BY DEF Learned, F
  <2>4. DOMAIN items = {c[j].nums[1] : j \in F}
    BY DEF Learned, F
  <2>5. \A j \in F \cup {k + 1} : IsItemRecord(c[j].nums, n)
    BY <1>3, <2>3 DEF r
  <2>6. DOMAIN more = {c[j].nums[1] : j \in F \cup {k + 1}}
    BY <2>2, <2>4 DEF r
  <2>7. \A j \in F \cup {k + 1} : more[c[j].nums[1]] = <<c[j].nums[2], c[j].nums[3]>>
    BY <2>2, <2>3 DEF r
  <2>8. Cardinality(DOMAIN more) = Cardinality(F \cup {k + 1})
    <3>1. IsFiniteSet(DOMAIN items)
      <4> DEFINE id == [j \in F |-> c[j].nums[1]]
      <4>1. \A y \in DOMAIN items : \E j \in F : id[j] = y
        BY <2>4
      <4>2. id \in [F -> DOMAIN items]
        BY <2>4
      <4> HIDE DEF id
      <4>3. id \in Surjection(F, DOMAIN items)
        BY <4>1, <4>2 DEF Surjection
      <4> QED BY <1>1, <4>3, FS_Surjection
    <3>2. Cardinality(DOMAIN items \cup {x}) = Cardinality(DOMAIN items) + 1
      BY <1>3, <3>1, FS_AddElement DEF r
    <3>3. Cardinality(F \cup {k + 1}) = Cardinality(F) + 1
      BY <1>1, FS_AddElement
    <3>4. Cardinality(DOMAIN items) = Cardinality(F)
      BY DEF Learned, F
    <3> QED BY <2>2, <3>2, <3>3, <3>4
  <2>9. Learned(c, n, more, h, k + 1)
    BY <2>1, <2>5, <2>6, <2>7, <2>8 DEF Learned
  <2> QED BY <1>3, <2>9 DEF more, r
<1> QED BY <1>2, <1>3

\* Before the first record nothing is learned.
LEMMA LearnedBegins ==
  ASSUME NEW c, NEW n, NEW k \in Nat
  PROVE  Learned(c, n, <<>>, k + 1, k)
<1>1. Filled(c, k + 1, k) = {}
  <2>1. k + 1 \in Nat /\ k + 1 <= k + 1
    OBVIOUS
  <2> QED BY <2>1, FilledGrows
<1>2. DOMAIN <<>> = {} /\ {c[j].nums[1] : j \in {}} = {}
  OBVIOUS
<1> QED BY <1>1, <1>2 DEF Learned

\* A file of n items with n records for them repeats none.
LEMMA NoneRepeated ==
  ASSUME NEW c, NEW h \in Nat, NEW v \in Nat, NEW n \in Nat,
         {c[k].nums[1] : k \in Filled(c, h, v)} = 0 .. n - 1,
         Cardinality(Filled(c, h, v)) = n,
         NEW j \in Filled(c, h, v), NEW k \in Filled(c, h, v), c[j].nums[1] = c[k].nums[1]
  PROVE  j = k
<1> DEFINE F == Filled(c, h, v)
           f == [i \in F |-> c[i].nums[1]]
<1>1. IsFiniteSet(F)
  <2>1. IsFiniteSet(h .. v)
    BY FS_Interval
  <2> QED BY <2>1, FS_Subset DEF Filled
<1>2. Cardinality(0 .. n - 1) = n /\ IsFiniteSet(0 .. n - 1)
  <2>1. (n - 1) - 0 + 1 = n /\ (n = 0 => 0 > n - 1)
    OBVIOUS
  <2> QED BY <2>1, FS_Interval
<1>3. f \in Surjection(F, 0 .. n - 1)
  <2> HIDE DEF F
  <2>1. {f[i] : i \in F} = 0 .. n - 1
    BY DEF F
  <2>2. f \in [F -> 0 .. n - 1]
    BY <2>1
  <2> HIDE DEF f
  <2> QED BY <2>1, <2>2 DEF Surjection
<1> HIDE DEF F
<1>4. IsInjective(f)
  <2>1. f \in Injection(F, 0 .. n - 1)
    <3> HIDE DEF f
    <3>1. Cardinality(F) = Cardinality(0 .. n - 1)
      BY <1>2 DEF F
    <3> QED BY <1>1, <1>2, <1>3, <3>1, FS_SurjSameCardinalityImpliesInj
  <2> HIDE DEF f
  <2> QED BY <2>1 DEF Injection
<1>5. j \in F /\ k \in F /\ f[j] = f[k] /\ DOMAIN f = F
  BY DEF F
<1> HIDE DEF f
<1> QED BY <1>4, <1>5 DEF IsInjective

\* The format, in these terms: the block of the items, that of the edges, n and c.
Written(c, h, v, e, d, n, room) ==
  /\ BlockUpTo(c, "values", 1, h, v) /\ c[v].semi
  /\ BlockUpTo(c, "edges", v + 1, e, d) /\ c[d].semi
  /\ ParametersRead(c, n, room, h)
  /\ {c[k].nums[1] : k \in Filled(c, h, v)} = 0 .. n - 1
  /\ Cardinality(Filled(c, h, v)) = n
  /\ \A k \in Filled(c, h, v) : IsItemRecord(c[k].nums, n)
  /\ \A k \in Filled(c, e, d) : IsRecord(c[k].nums, 2)

\* Blocks and parameters are those of AmplFormat.
LEMMA SameBlocks ==
  ASSUME content \in Seq(Line)
  PROVE  /\ \A h, v, e, d \in DOMAIN content :
              Ampl!AreBlocks(h, v, e, d) <=>
                /\ BlockUpTo(content, "values", 1, h, v) /\ content[v].semi
                /\ BlockUpTo(content, "edges", v + 1, e, d) /\ content[d].semi
         /\ \A name, x, h : Ampl!IsParameter(name, x, h) <=> x \in LastGiven(content, name, h)
         /\ \A h, v : Ampl!Records(h, v) = {content[k].nums : k \in Filled(content, h, v)}
<1>1. ASSUME NEW h \in DOMAIN content, NEW v \in DOMAIN content, NEW e \in DOMAIN content,
             NEW d \in DOMAIN content
      PROVE  Ampl!AreBlocks(h, v, e, d) <=>
               /\ BlockUpTo(content, "values", 1, h, v) /\ content[v].semi
               /\ BlockUpTo(content, "edges", v + 1, e, d) /\ content[d].semi
  <2>1. 1 <= h /\ v <= Len(content) /\ d <= Len(content) /\ (v < e <=> v + 1 <= e)
    BY LinesType
  <2> QED BY <2>1 DEF Ampl!AreBlocks, BlockUpTo
<1>2. \A name, x, h : Ampl!IsParameter(name, x, h) <=> x \in LastGiven(content, name, h)
  BY DEF Ampl!IsParameter, LastGiven, Ampl!Gives, Giving
<1>3. \A h, v : Ampl!Records(h, v) = {content[k].nums : k \in Filled(content, h, v)}
  BY DEF Ampl!Records, Filled
<1> QED BY <1>1, <1>2, <1>3

\* The format is what AmplFormat says it is.
LEMMA FormatIsWritten ==
  ASSUME content \in Seq(Line)
  PROVE  /\ Ampl!WellFormed =>
              \E h, v, e, d \in DOMAIN content : \E n, room \in Nat :
                Written(content, h, v, e, d, n, room)
         /\ \A h, v, e, d \in DOMAIN content : \A n, room \in Nat :
              Written(content, h, v, e, d, n, room) => Ampl!WellFormed
<1>1. ASSUME Ampl!WellFormed
      PROVE  \E h, v, e, d \in DOMAIN content : \E n, room \in Nat :
               Written(content, h, v, e, d, n, room)
  <2>1. PICK h, v, e, d \in DOMAIN content :
          /\ Ampl!AreBlocks(h, v, e, d)
          /\ \E n \in Ampl!Numbers("n"), c \in Ampl!Numbers("c") :
               /\ Ampl!IsParameter("n", n, h) /\ n \in 1 .. Int32Max
               /\ Ampl!IsParameter("c", c, h) /\ c >= 0
               /\ {r[1] : r \in Ampl!Records(h, v)} = 0 .. n - 1
               /\ Ampl!Cardinality({k \in h .. v : content[k].nums # <<>>}) = n
          /\ \A r \in Ampl!Records(h, v) : Ampl!IsRecord(r, 3) /\ r[3] >= 0
          /\ \A r \in Ampl!Records(e, d) : Ampl!IsRecord(r, 2)
    BY <1>1 DEF Ampl!WellFormed
  <2>2. PICK n \in Ampl!Numbers("n"), c \in Ampl!Numbers("c") :
          /\ Ampl!IsParameter("n", n, h) /\ n \in 1 .. Int32Max
          /\ Ampl!IsParameter("c", c, h) /\ c >= 0
          /\ {r[1] : r \in Ampl!Records(h, v)} = 0 .. n - 1
          /\ Ampl!Cardinality({k \in h .. v : content[k].nums # <<>>}) = n
    BY <2>1
  <2>3. n \in LastGiven(content, "n", h) /\ c \in LastGiven(content, "c", h)
    BY <2>2, SameBlocks
  <2>4. n \in Nat /\ c \in Nat
    <3>1. c \in Int
      BY <2>3 DEF LastGiven, Giving
    <3> QED BY <2>2, <3>1, Int32Assumption
  <2>5. ParametersRead(content, n, c, h)
    BY <2>2, <2>3, <2>4 DEF ParametersRead
  <2>6. {content[k].nums[1] : k \in Filled(content, h, v)} = 0 .. n - 1
    BY <2>2, SameBlocks
  <2>7. Cardinality(Filled(content, h, v)) = n
    BY <2>2, SameViews DEF Filled
  <2>8. \A k \in Filled(content, h, v) : IsItemRecord(content[k].nums, n)
    <3> TAKE k \in Filled(content, h, v)
    <3>1. content[k].nums \in Ampl!Records(h, v)
      BY SameBlocks
    <3>2. IsRecord(content[k].nums, 3) /\ content[k].nums[3] >= 0
      BY <2>1, <3>1, SameViews
    <3> QED BY <2>6, <3>2 DEF IsItemRecord
  <2>9. \A k \in Filled(content, e, d) : IsRecord(content[k].nums, 2)
    BY <2>1, SameBlocks, SameViews
  <2>10. /\ BlockUpTo(content, "values", 1, h, v) /\ content[v].semi
         /\ BlockUpTo(content, "edges", v + 1, e, d) /\ content[d].semi
    BY <2>1, SameBlocks
  <2>11. Written(content, h, v, e, d, n, c)
    BY <2>5, <2>6, <2>7, <2>8, <2>9, <2>10 DEF Written
  <2> QED BY <2>1, <2>4, <2>11
<1>2. ASSUME NEW h \in DOMAIN content, NEW v \in DOMAIN content, NEW e \in DOMAIN content,
             NEW d \in DOMAIN content, NEW n \in Nat, NEW room \in Nat,
             Written(content, h, v, e, d, n, room)
      PROVE  Ampl!WellFormed
  <2>1. /\ BlockUpTo(content, "values", 1, h, v) /\ content[v].semi
        /\ BlockUpTo(content, "edges", v + 1, e, d) /\ content[d].semi
        /\ n \in 1 .. Int32Max /\ n \in LastGiven(content, "n", h)
        /\ room \in LastGiven(content, "c", h)
        /\ {content[k].nums[1] : k \in Filled(content, h, v)} = 0 .. n - 1
        /\ Cardinality(Filled(content, h, v)) = n
        /\ \A k \in Filled(content, h, v) : IsItemRecord(content[k].nums, n)
        /\ \A k \in Filled(content, e, d) : IsRecord(content[k].nums, 2)
    BY <1>2 DEF Written, ParametersRead
  <2>2. Ampl!AreBlocks(h, v, e, d)
    BY <2>1, SameBlocks
  <2>3. ASSUME NEW name, NEW x \in LastGiven(content, name, h)
        PROVE  x \in Ampl!Numbers(name) /\ Ampl!IsParameter(name, x, h)
    <3>1. PICK i \in 1 .. h - 1 : Giving(content[i], name) /\ content[i].nums[1] = x
      BY <2>3 DEF LastGiven
    <3>2. i \in DOMAIN content /\ content[i].nums \in Seq(Token)
      BY <3>1, LinesType
    <3>3. content[i].head = name /\ Len(content[i].nums) = 1
      BY <3>1 DEF Giving
    <3>4. 1 \in DOMAIN content[i].nums
      BY <3>2, <3>3
    <3>5. x \in Ampl!ToSet(content[i].nums)
      BY <3>1, <3>4 DEF Ampl!ToSet
    <3> QED BY <3>2, <3>3, <3>5, SameBlocks DEF Ampl!Numbers
  <2>4. {r[1] : r \in Ampl!Records(h, v)} = 0 .. n - 1
    BY <2>1, SameBlocks
  <2>5. Ampl!Cardinality({k \in h .. v : content[k].nums # <<>>}) = n
    BY <2>1, SameViews DEF Filled
  <2>6. \A r \in Ampl!Records(h, v) : Ampl!IsRecord(r, 3) /\ r[3] >= 0
    BY <2>1, SameBlocks, SameViews DEF IsItemRecord
  <2>7. \A r \in Ampl!Records(e, d) : Ampl!IsRecord(r, 2)
    BY <2>1, SameBlocks, SameViews
  <2>8. n \in Ampl!Numbers("n") /\ Ampl!IsParameter("n", n, h)
        /\ room \in Ampl!Numbers("c") /\ Ampl!IsParameter("c", room, h)
    BY <2>1, <2>3
  <2>9. room >= 0
    OBVIOUS
  <2> QED BY <2>1, <2>2, <2>4, <2>5, <2>6, <2>7, <2>8, <2>9 DEF Ampl!WellFormed
<1> QED BY <1>1, <1>2

\* A file of the format has no other beginning of a block of items, and no
\* other parameters.
LEMMA ItemsAreMeant ==
  ASSUME content \in Seq(Line), NEW h \in DOMAIN content, NEW v \in DOMAIN content,
         NEW e \in DOMAIN content, NEW d \in DOMAIN content, NEW n, NEW room,
         Written(content, h, v, e, d, n, room),
         NEW g \in DOMAIN content, NEW k \in DOMAIN content,
         BlockUpTo(content, "values", 1, g, k)
  PROVE  /\ g = h
         /\ content[k].semi => k = v
         /\ ~ content[k].semi => k < v
         /\ \A m, space : ParametersRead(content, m, space, g) => m = n /\ space = room
<1>1. g \in Nat /\ k \in Nat /\ h \in Nat /\ v \in Nat /\ 1 \in Nat
  BY LinesType
<1>2. BlockUpTo(content, "values", 1, h, v) /\ content[v].semi /\ ParametersRead(content, n, room, h)
  BY DEF Written
<1>3. g = h /\ (content[k].semi => k = v) /\ (~ content[k].semi => k < v)
  BY <1>1, <1>2, BlocksAreUnique
<1>4. ASSUME NEW m, NEW space, ParametersRead(content, m, space, h) PROVE m = n /\ space = room
  BY <1>1, <1>2, <1>4, ParametersGrow DEF ParametersRead
<1> QED BY <1>3, <1>4

-----------------------------------------------------------------------------
(* The AMPL format: one lemma per line that the parser can meet.           *)

\* What a line leaves.
LineRead ==
  /\ AmplTrack'
  /\ last_error' = "" <=> state' # "refused"
  /\ state' = "parsed" => ItemsLoaded'
  /\ state' = "refused" => ~ Ampl!WellFormed

\* The next line is one of the file.
LEMMA NextLineIs ==
  ASSUME content \in Seq(Line), AmplTrack, NEW s, Ampl!NextLine(s)
  PROVE  /\ state = s /\ content' = content /\ cursor' = cursor + 1
         /\ cursor \in Nat /\ cursor + 1 \in Nat /\ cursor + 1 <= Len(content)
         /\ cursor + 1 \in DOMAIN content
         /\ Ampl!line = content[cursor + 1]
<1>1. state = s /\ content' = content /\ cursor' = cursor + 1 /\ cursor < Len(content)
  BY DEF Ampl!NextLine
<1>2. cursor \in 0 .. Len(content) /\ Len(content) \in Nat /\ DOMAIN content = 1 .. Len(content)
  BY LinesType DEF AmplTrack
<1>3. cursor \in Nat /\ cursor + 1 \in Nat /\ cursor + 1 <= Len(content)
      /\ cursor + 1 \in 1 .. Len(content)
  BY <1>1, <1>2
<1> QED BY <1>1, <1>2, <1>3 DEF Ampl!line

\* A file of the format has no record of an item but good ones of new items.
LEMMA BadItem ==
  ASSUME content \in Seq(Line), NEW h \in DOMAIN content, NEW k \in Nat, k + 1 \in DOMAIN content,
         NEW n, NEW room, NEW before,
         BlockUpTo(content, "values", 1, h, k + 1), ParametersRead(content, n, room, h),
         Learned(content, n, before, h, k), content[k + 1].nums # <<>>,
         ~ (IsItemRecord(content[k + 1].nums, n) /\ content[k + 1].nums[1] \notin DOMAIN before)
  PROVE  ~ Ampl!WellFormed
<1> SUFFICES ASSUME Ampl!WellFormed PROVE FALSE
  OBVIOUS
<1>1. PICK g, v, e, d \in DOMAIN content : \E m, space \in Nat :
        Written(content, g, v, e, d, m, space)
  BY FormatIsWritten
<1>2. PICK m, space \in Nat : Written(content, g, v, e, d, m, space)
  BY <1>1
<1>3. g = h /\ n = m /\ (k + 1 = v \/ k + 1 < v)
  BY <1>2, ItemsAreMeant
<1>4. h \in Nat /\ v \in Nat /\ h <= k + 1
  <2>1. h <= k + 1
    BY DEF BlockUpTo
  <2> QED BY <2>1, LinesType
<1>5. k + 1 \in Filled(content, h, v)
  <2>1. k + 1 \in h .. v
    BY <1>3, <1>4
  <2> QED BY <2>1 DEF Filled
<1>6. IsItemRecord(content[k + 1].nums, n)
  BY <1>2, <1>3, <1>5 DEF Written
<1>7. content[k + 1].nums[1] \in DOMAIN before
  BY <1>6
<1>8. PICK j \in Filled(content, h, k) : content[j].nums[1] = content[k + 1].nums[1]
  BY <1>7 DEF Learned
<1>9. j \in Filled(content, h, v) /\ j # k + 1
  <2>1. j \in h .. k /\ content[j].nums # <<>>
    BY <1>8 DEF Filled
  <2>2. j \in h .. v /\ j # k + 1
    BY <1>3, <1>4, <2>1
  <2> QED BY <2>1, <2>2 DEF Filled
<1>10. /\ {content[i].nums[1] : i \in Filled(content, h, v)} = 0 .. n - 1
       /\ Cardinality(Filled(content, h, v)) = n /\ n \in Nat
  BY <1>2, <1>3 DEF Written
<1> QED BY <1>4, <1>5, <1>8, <1>9, <1>10, NoneRepeated

\* A line of the block of the items.
LEMMA ItemLine ==
  ASSUME content \in Seq(Line), content' = content, cursor \in Nat,
         cursor + 1 \in DOMAIN content, cursor' = cursor + 1, NoReason,
         NEW CONSTANT h, h \in DOMAIN content, NEW CONSTANT n, NEW CONSTANT room,
         NEW CONSTANT before,
         BlockUpTo(content, "values", 1, h, cursor + 1), ParametersRead(content, n, room, h),
         Learned(content, n, before, h, cursor), raw_conflicts' = {},
         n_items' = n, capacity' = room, Ampl!line = content[cursor + 1],
         Ampl!parse_value_record(n, before)
  PROVE  LineRead
<1> DEFINE r == content[cursor + 1].nums
<1>1. h \in Nat /\ h <= cursor + 1 /\ cursor + 1 \in 0 .. Len(content) /\ cursor + 1 \in Nat
  <2>1. h <= cursor + 1
    BY DEF BlockUpTo
  <2>2. h \in Nat /\ cursor + 1 \in 1 .. Len(content) /\ Len(content) \in Nat
    BY LinesType
  <2> QED BY <2>1, <2>2
<1>2. CASE r = <<>> \/ Ampl!IsValueRecord(r, n, DOMAIN before)
  <2>1. /\ loaded' = IF r = <<>> THEN before ELSE Ampl!WithRecord(before, r)
        /\ state' = IF content[cursor + 1].semi THEN "WaitingEdges" ELSE "Values"
        /\ last_error' = ""
    BY <1>2 DEF Ampl!parse_value_record, Ampl!Proceed, NoReason
  <2>2. Ampl!IsValueRecord(r, n, DOMAIN before)
          => IsItemRecord(r, n) /\ r[1] \notin DOMAIN before
    BY SameViews DEF Ampl!IsValueRecord, IsItemRecord
  <2>3. Learned(content, n, loaded', h, cursor + 1)
    BY <1>1, <1>2, <2>1, <2>2, LearnedGrows
  <2>4. ItemsRead(content, n, room, loaded', h, cursor + 1)
    BY <2>3 DEF ItemsRead
  <2>5. CASE content[cursor + 1].semi
    <3>1. state' = "WaitingEdges"
      BY <2>1, <2>5
    <3>2. cursor + 1 <= cursor + 1 /\ \A i \in (cursor + 1) + 1 .. cursor + 1 : FALSE
      OBVIOUS
    <3>3. ItemsDone(content, n, room, loaded', h, cursor + 1)
      BY <2>4, <2>5 DEF ItemsDone
    <3>4. \E g, v \in DOMAIN content :
            /\ ItemsDone(content, n, room, loaded', g, v)
            /\ v <= cursor + 1 /\ \A i \in v + 1 .. cursor + 1 : content[i].head # "edges"
      BY <3>2, <3>3
    <3>5. AmplTrack'
      BY <1>1, <3>1, <3>4 DEF AmplTrack
    <3> QED BY <2>1, <3>1, <3>5 DEF LineRead
  <2>6. CASE ~ content[cursor + 1].semi
    <3>1. state' = "Values"
      BY <2>1, <2>6
    <3>2. AmplTrack'
      BY <1>1, <2>4, <2>6, <3>1 DEF AmplTrack
    <3> QED BY <2>1, <3>1, <3>2 DEF LineRead
  <2> QED BY <2>5, <2>6
<1>3. CASE ~ (r = <<>> \/ Ampl!IsValueRecord(r, n, DOMAIN before))
  <2>1. state' = "refused" /\ last_error' # ""
    BY <1>3 DEF Ampl!parse_value_record, Ampl!Refuse
  <2>2. AmplTrack'
    BY <1>1, <2>1 DEF AmplTrack
  <2>3. ~ (IsItemRecord(r, n) /\ r[1] \notin DOMAIN before)
    BY <1>3, SameViews DEF Ampl!IsValueRecord, IsItemRecord
  <2>4. ~ Ampl!WellFormed
    BY <1>3, <2>3, BadItem
  <2> QED BY <2>1, <2>2, <2>4 DEF LineRead
<1> QED BY <1>2, <1>3

\* A line before the items may replace a parameter.
LEMMA ReadParameterKeeps ==
  ASSUME content \in Seq(Line), AmplTrack, NoReason, Ampl!ReadParameter
  PROVE  LineRead
<1>1. /\ state = "Header" /\ content' = content /\ cursor' = cursor + 1
      /\ cursor \in Nat /\ cursor + 1 \in Nat /\ cursor + 1 <= Len(content)
      /\ Ampl!line = content[cursor + 1]
  BY NextLineIs DEF Ampl!ReadParameter
<1>2. /\ state' = "Header" /\ raw_conflicts' = raw_conflicts /\ last_error' = ""
      /\ content[cursor + 1].head # "values"
      /\ parsed_n_items' = IF Giving(content[cursor + 1], "n") THEN {content[cursor + 1].nums[1]}
                           ELSE parsed_n_items
      /\ parsed_capacity' = IF Giving(content[cursor + 1], "c") THEN {content[cursor + 1].nums[1]}
                            ELSE parsed_capacity
  BY <1>1 DEF Ampl!ReadParameter, Ampl!Gives, Giving, NoReason
<1>3. /\ \A i \in 1 .. cursor : content[i].head # "values"
      /\ parsed_n_items = LastGiven(content, "n", cursor + 1)
      /\ parsed_capacity = LastGiven(content, "c", cursor + 1)
      /\ raw_conflicts = {}
  BY <1>1 DEF AmplTrack
<1>4. \A i \in 1 .. cursor + 1 : i = cursor + 1 \/ i \in 1 .. cursor
  BY <1>1
<1>5. \A i \in 1 .. cursor + 1 : content[i].head # "values"
  BY <1>2, <1>3, <1>4
<1>6. /\ parsed_n_items' = LastGiven(content, "n", (cursor + 1) + 1)
      /\ parsed_capacity' = LastGiven(content, "c", (cursor + 1) + 1)
  BY <1>1, <1>2, <1>3, ParametersGrow
<1>7. cursor + 1 \in 0 .. Len(content)
  <2>1. Len(content) \in Nat
    BY LinesType
  <2> QED BY <1>1, <2>1
<1>8. AmplTrack'
  BY <1>1, <1>2, <1>3, <1>5, <1>6, <1>7 DEF AmplTrack
<1> QED BY <1>2, <1>8 DEF LineRead

\* What is known at the header of the items.
LEMMA AtHeader ==
  ASSUME content \in Seq(Line), AmplTrack, state = "Header", cursor \in Nat,
         cursor + 1 \in DOMAIN content, content[cursor + 1].head = "values"
  PROVE  /\ BlockUpTo(content, "values", 1, cursor + 1, cursor + 1)
         /\ \A n, room : ParametersRead(content, n, room, cursor + 1) <=>
              /\ n \in parsed_n_items /\ n \in 1 .. Int32Max
              /\ room \in parsed_capacity /\ room \in Nat
<1>1. /\ \A i \in 1 .. cursor : content[i].head # "values"
      /\ parsed_n_items = LastGiven(content, "n", cursor + 1)
      /\ parsed_capacity = LastGiven(content, "c", cursor + 1)
  BY DEF AmplTrack
<1>2. Len(content) \in Nat /\ cursor + 1 <= Len(content) /\ 1 <= cursor + 1 /\ 1 \in Nat
  <2>1. Len(content) \in Nat /\ cursor + 1 \in 1 .. Len(content)
    BY LinesType
  <2> QED BY <2>1
<1>3. BlockUpTo(content, "values", 1, cursor + 1, cursor + 1)
  BY <1>1, <1>2, BlockGrows
<1> QED BY <1>1, <1>3 DEF ParametersRead

LEMMA ReadValuesHeaderKeeps ==
  ASSUME content \in Seq(Line), AmplTrack, NoReason, Ampl!ReadValuesHeader
  PROVE  LineRead
<1>1. /\ state = "Header" /\ content' = content /\ cursor' = cursor + 1
      /\ cursor \in Nat /\ cursor + 1 \in Nat /\ cursor + 1 <= Len(content)
      /\ cursor + 1 \in DOMAIN content /\ Ampl!line = content[cursor + 1]
  BY NextLineIs DEF Ampl!ReadValuesHeader
<1>2. content[cursor + 1].head = "values" /\ raw_conflicts' = {}
  <2>1. raw_conflicts = {}
    BY <1>1 DEF AmplTrack
  <2> QED BY <1>1, <2>1 DEF Ampl!ReadValuesHeader
<1>3. BlockUpTo(content, "values", 1, cursor + 1, cursor + 1)
  BY <1>1, <1>2, AtHeader
<1>4. CASE Ampl!HeaderIsValid
  <2>1. PICK n \in parsed_n_items, c \in parsed_capacity :
          n_items' = n /\ capacity' = c /\ Ampl!parse_value_record(n, <<>>)
    BY <1>4 DEF Ampl!ReadValuesHeader
  <2>2. ParametersRead(content, n, c, cursor + 1)
    BY <1>1, <1>2, <1>4, AtHeader DEF Ampl!HeaderIsValid
  <2>3. Learned(content, n, <<>>, cursor + 1, cursor)
    BY <1>1, LearnedBegins
  <2>4. \E m, room, k : m = n /\ room = c /\ k = cursor + 1
    OBVIOUS
  <2>5. PICK m, room, k : m = n /\ room = c /\ k = cursor + 1
    BY <2>4
  <2> QED BY <1>1, <1>2, <1>3, <2>1, <2>2, <2>3, <2>5, ItemLine
<1>5. CASE ~ Ampl!HeaderIsValid
  <2>1. state' = "refused" /\ last_error' # ""
    BY <1>5 DEF Ampl!ReadValuesHeader, Ampl!Refuse
  <2>2. AmplTrack'
    <3>1. cursor + 1 \in 0 .. Len(content)
      BY <1>1, LinesType
    <3> QED BY <1>1, <2>1, <3>1 DEF AmplTrack
  <2>3. ASSUME Ampl!WellFormed PROVE FALSE
    <3>1. PICK g, v, e, d \in DOMAIN content : \E m, space \in Nat :
            Written(content, g, v, e, d, m, space)
      BY <2>3, FormatIsWritten
    <3>2. PICK m, space \in Nat : Written(content, g, v, e, d, m, space)
      BY <3>1
    <3>3. g = cursor + 1
      BY <1>1, <1>3, <3>2, ItemsAreMeant
    <3>4. ParametersRead(content, m, space, cursor + 1)
      BY <3>2, <3>3 DEF Written
    <3>5. /\ m \in parsed_n_items /\ m \in 1 .. Int32Max
          /\ space \in parsed_capacity /\ space \in Nat
      BY <1>1, <1>2, <3>4, AtHeader
    <3>6. (\A x \in parsed_n_items : x = m) /\ (\A x \in parsed_capacity : x = space)
      <4>1. /\ parsed_n_items = LastGiven(content, "n", cursor + 1)
            /\ parsed_capacity = LastGiven(content, "c", cursor + 1)
        BY <1>1 DEF AmplTrack
      <4> QED BY <1>1, <3>5, <4>1, ParametersGrow
    <3> QED BY <1>5, <3>5, <3>6 DEF Ampl!HeaderIsValid
  <2> QED BY <2>1, <2>2, <2>3 DEF LineRead
<1> QED BY <1>4, <1>5

LEMMA OutOfMemoryKeeps ==
  ASSUME content \in Seq(Line), AmplTrack, NoReason, Ampl!OutOfMemory
  PROVE  LineRead
<1>1. content' = content /\ cursor' = cursor + 1 /\ cursor + 1 \in 0 .. Len(content)
  <2>1. /\ content' = content /\ cursor' = cursor + 1
        /\ cursor \in Nat /\ cursor + 1 <= Len(content)
    BY NextLineIs DEF Ampl!OutOfMemory
  <2>2. Len(content) \in Nat
    BY LinesType
  <2> QED BY <2>1, <2>2
<1>2. state' = "thrown" /\ last_error' = ""
  BY DEF Ampl!OutOfMemory, Ampl!Proceed, NoReason
<1>3. AmplTrack'
  BY <1>1, <1>2 DEF AmplTrack
<1> QED BY <1>2, <1>3 DEF LineRead

\* A block that goes on at the next line goes on with a line without keyword.
LEMMA BadHead ==
  ASSUME NEW c, NEW w, NEW from, NEW h \in Nat, NEW k \in Nat, NEW v \in Nat,
         BlockUpTo(c, w, from, h, v), h <= k, k < v
  PROVE  c[k + 1].head = ""
<1>1. k + 1 \in h + 1 .. v
  OBVIOUS
<1> QED BY <1>1 DEF BlockUpTo

LEMMA ReadValueKeeps ==
  ASSUME content \in Seq(Line), AmplTrack, NoReason, Ampl!ReadValue
  PROVE  LineRead
<1>1. /\ state = "Values" /\ content' = content /\ cursor' = cursor + 1
      /\ cursor \in Nat /\ cursor + 1 \in Nat /\ cursor + 1 <= Len(content)
      /\ cursor + 1 \in DOMAIN content /\ Ampl!line = content[cursor + 1]
  BY NextLineIs DEF Ampl!ReadValue
<1>2. PICK h \in DOMAIN content :
        /\ ItemsRead(content, n_items, capacity, loaded, h, cursor)
        /\ ~ content[cursor].semi
  BY <1>1 DEF AmplTrack
<1>3. /\ BlockUpTo(content, "values", 1, h, cursor)
      /\ ParametersRead(content, n_items, capacity, h)
      /\ Learned(content, n_items, loaded, h, cursor)
  BY <1>2 DEF ItemsRead
<1>4. raw_conflicts' = {} /\ n_items' = n_items /\ capacity' = capacity
  <2>1. raw_conflicts = {}
    BY <1>1 DEF AmplTrack
  <2> QED BY <2>1 DEF Ampl!ReadValue, Ampl!fields
<1>5. h \in Nat /\ Len(content) \in Nat /\ 1 \in Nat /\ h <= cursor
  <2>1. h <= cursor
    BY <1>3 DEF BlockUpTo
  <2> QED BY <2>1, LinesType
<1>6. CASE content[cursor + 1].head = ""
  <2>1. BlockUpTo(content, "values", 1, h, cursor + 1)
    BY <1>1, <1>2, <1>3, <1>5, <1>6, BlockGrows
  <2>2. Ampl!parse_value_record(n_items, loaded)
    BY <1>1, <1>6 DEF Ampl!ReadValue
  <2>3. PICK g, n, room, before :
          g = h /\ n = n_items /\ room = capacity /\ before = loaded
    OBVIOUS
  <2> QED BY <1>1, <1>3, <1>4, <2>1, <2>2, <2>3, ItemLine
<1>7. CASE content[cursor + 1].head # ""
  <2>1. state' = "refused" /\ last_error' # ""
    BY <1>1, <1>7 DEF Ampl!ReadValue, Ampl!Refuse
  <2>2. AmplTrack'
    <3>1. cursor + 1 \in 0 .. Len(content)
      BY <1>1, <1>5
    <3> QED BY <1>1, <2>1, <3>1 DEF AmplTrack
  <2>3. ASSUME Ampl!WellFormed PROVE FALSE
    <3>1. PICK g, v, e, d \in DOMAIN content : \E m, space \in Nat :
            Written(content, g, v, e, d, m, space)
      BY <2>3, FormatIsWritten
    <3>2. PICK m, space \in Nat : Written(content, g, v, e, d, m, space)
      BY <3>1
    <3>3. cursor \in DOMAIN content
      BY <1>1, <1>5, LinesType
    <3>4. g = h /\ cursor < v
      BY <1>2, <1>3, <3>2, <3>3, ItemsAreMeant
    <3>5. BlockUpTo(content, "values", 1, h, v) /\ v \in Nat
      BY <3>2, <3>4, LinesType DEF Written
    <3> QED BY <1>1, <1>5, <1>7, <3>4, <3>5, BadHead
  <2> QED BY <2>1, <2>2, <2>3 DEF LineRead
<1> QED BY <1>6, <1>7

\* A file of the format has its block of edges where the parser has found one.
LEMMA EdgesAreMeant ==
  ASSUME content \in Seq(Line), NEW h \in DOMAIN content, NEW v \in DOMAIN content,
         NEW n, NEW room, NEW items, ItemsDone(content, n, room, items, h, v),
         Ampl!WellFormed
  PROVE  \E e, d \in DOMAIN content :
           /\ Written(content, h, v, e, d, n, room)
           /\ n \in Nat
           /\ \A f, k \in DOMAIN content : BlockUpTo(content, "edges", v + 1, f, k) =>
                /\ f = e
                /\ content[k].semi => k = d
                /\ ~ content[k].semi => k < d
<1>1. PICK g, u, e, d \in DOMAIN content : \E m, space \in Nat :
        Written(content, g, u, e, d, m, space)
  BY FormatIsWritten
<1>2. PICK m, space \in Nat : Written(content, g, u, e, d, m, space)
  BY <1>1
<1>3. /\ BlockUpTo(content, "values", 1, h, v) /\ content[v].semi
      /\ ParametersRead(content, n, room, h)
  BY DEF ItemsDone, ItemsRead
<1>4. g = h /\ u = v /\ m = n /\ space = room
  BY <1>2, <1>3, ItemsAreMeant
<1>5. Written(content, h, v, e, d, n, room) /\ n \in Nat
  BY <1>2, <1>4
<1>6. BlockUpTo(content, "edges", v + 1, e, d) /\ content[d].semi
  BY <1>5 DEF Written
<1>7. e \in Nat /\ d \in Nat /\ v + 1 \in Nat /\ \A f \in DOMAIN content : f \in Nat
  BY LinesType
<1>8. \A f, k \in DOMAIN content : BlockUpTo(content, "edges", v + 1, f, k) =>
        /\ f = e
        /\ content[k].semi => k = d
        /\ ~ content[k].semi => k < d
  BY <1>6, <1>7, BlocksAreUnique
<1> QED BY <1>5, <1>8

\* A line of the block of the edges.
LEMMA EdgeLine ==
  ASSUME content \in Seq(Line), content' = content, cursor \in Nat,
         cursor + 1 \in DOMAIN content, cursor' = cursor + 1, NoReason,
         NEW CONSTANT h, h \in DOMAIN content, NEW CONSTANT v, v \in DOMAIN content,
         NEW CONSTANT e, e \in DOMAIN content,
         ItemsDone(content, n_items, capacity, loaded, h, v),
         BlockUpTo(content, "edges", v + 1, e, cursor + 1),
         Listed(content, raw_conflicts, e, cursor),
         UNCHANGED <<n_items, capacity, loaded>>, Ampl!line = content[cursor + 1],
         Ampl!parse_edge_record
  PROVE  LineRead
<1> DEFINE r == content[cursor + 1].nums
<1>1. e \in Nat /\ e <= cursor + 1 /\ cursor + 1 \in 0 .. Len(content) /\ cursor + 1 \in Nat
  <2>1. e <= cursor + 1
    BY DEF BlockUpTo
  <2>2. e \in Nat /\ cursor + 1 \in 1 .. Len(content) /\ Len(content) \in Nat
    BY LinesType
  <2> QED BY <2>1, <2>2
<1>2. /\ cursor + 1 \notin Filled(content, e, cursor)
      /\ Filled(content, e, cursor + 1)
           = Filled(content, e, cursor) \cup (IF r = <<>> THEN {} ELSE {cursor + 1})
  BY <1>1, FilledGrows
<1>3. CASE r = <<>> \/ IsRecord(r, 2)
  <2>1. /\ raw_conflicts' = raw_conflicts \cup IF r = <<>> THEN {} ELSE {<<r[1], r[2]>>}
        /\ state' = IF content[cursor + 1].semi THEN "Done" ELSE "Edges"
        /\ last_error' = ""
    BY <1>3, SameViews DEF Ampl!parse_edge_record, Ampl!Proceed, NoReason
  <2>2. Listed(content, raw_conflicts', e, cursor + 1)
    <3>1. /\ \A k \in Filled(content, e, cursor) : IsRecord(content[k].nums, 2)
          /\ raw_conflicts = {<<content[k].nums[1], content[k].nums[2]>> :
                                k \in Filled(content, e, cursor)}
      BY DEF Listed
    <3>2. \A k \in Filled(content, e, cursor + 1) : IsRecord(content[k].nums, 2)
      BY <1>2, <1>3, <3>1
    <3>3. raw_conflicts' = {<<content[k].nums[1], content[k].nums[2]>> :
                              k \in Filled(content, e, cursor + 1)}
      BY <1>2, <2>1, <3>1
    <3> QED BY <3>2, <3>3 DEF Listed
  <2>3. EdgesRead(content, raw_conflicts', v, e, cursor + 1)
    BY <2>2 DEF EdgesRead
  <2>4. state' \in {"Edges", "Done"} /\ (content[cursor + 1].semi <=> state' # "Edges")
    BY <2>1
  <2>5. AmplTrack'
    BY <1>1, <2>3, <2>4 DEF AmplTrack
  <2> QED BY <2>1, <2>4, <2>5 DEF LineRead
<1>4. CASE ~ (r = <<>> \/ IsRecord(r, 2))
  <2>1. state' = "refused" /\ last_error' # ""
    BY <1>4, SameViews DEF Ampl!parse_edge_record, Ampl!Refuse
  <2>2. AmplTrack'
    BY <1>1, <2>1 DEF AmplTrack
  <2>3. ASSUME Ampl!WellFormed PROVE FALSE
    <3>1. PICK f, d \in DOMAIN content :
            /\ Written(content, h, v, f, d, n_items, capacity)
            /\ \A g, k \in DOMAIN content : BlockUpTo(content, "edges", v + 1, g, k) =>
                 /\ g = f
                 /\ content[k].semi => k = d
                 /\ ~ content[k].semi => k < d
      BY <2>3, EdgesAreMeant
    <3>2. f = e /\ (cursor + 1 = d \/ cursor + 1 < d)
      BY <3>1
    <3>3. cursor + 1 \in Filled(content, e, d)
      <4>1. d \in Nat
        BY LinesType
      <4>2. cursor + 1 \in e .. d
        BY <1>1, <3>2, <4>1
      <4> QED BY <1>4, <4>2 DEF Filled
    <3> QED BY <1>4, <3>1, <3>2, <3>3 DEF Written
  <2> QED BY <2>1, <2>2, <2>3 DEF LineRead
<1> QED BY <1>3, <1>4

LEMMA AwaitEdgesKeeps ==
  ASSUME content \in Seq(Line), AmplTrack, NoReason, Ampl!AwaitEdges
  PROVE  LineRead
<1>1. /\ state = "WaitingEdges" /\ content' = content /\ cursor' = cursor + 1
      /\ cursor \in Nat /\ cursor + 1 \in Nat /\ cursor + 1 <= Len(content)
      /\ cursor + 1 \in DOMAIN content /\ Ampl!line = content[cursor + 1]
  BY NextLineIs DEF Ampl!AwaitEdges
<1>2. PICK h, v \in DOMAIN content :
        /\ ItemsDone(content, n_items, capacity, loaded, h, v)
        /\ v <= cursor /\ \A i \in v + 1 .. cursor : content[i].head # "edges"
  BY <1>1 DEF AmplTrack
<1>3. raw_conflicts = {} /\ UNCHANGED <<n_items, capacity, loaded>>
  BY <1>1 DEF AmplTrack, Ampl!AwaitEdges, Ampl!fields
<1>4. /\ v + 1 \in Nat /\ v + 1 <= cursor + 1 /\ Len(content) \in Nat
      /\ \A i \in v + 1 .. cursor + 1 : i = cursor + 1 \/ i \in v + 1 .. cursor
      /\ cursor + 1 \in 0 .. Len(content) /\ v <= cursor + 1
  <2>1. v \in Nat /\ Len(content) \in Nat
    BY LinesType
  <2>2. v <= cursor
    BY <1>2
  <2> QED BY <1>1, <2>1, <2>2
<1>5. CASE content[cursor + 1].head = "edges"
  <2>1. BlockUpTo(content, "edges", v + 1, cursor + 1, cursor + 1)
    BY <1>1, <1>2, <1>4, <1>5, BlockGrows
  <2>2. Listed(content, raw_conflicts, cursor + 1, cursor)
    <3>1. Filled(content, cursor + 1, cursor) = {}
      <4>1. cursor + 1 <= cursor + 1
        BY <1>1
      <4> QED BY <1>1, <4>1, FilledGrows
    <3> QED BY <1>3, <3>1 DEF Listed
  <2>3. Ampl!parse_edge_record
    BY <1>1, <1>5 DEF Ampl!AwaitEdges
  <2>4. PICK g, u, e : g = h /\ u = v /\ e = cursor + 1
    OBVIOUS
  <2> QED BY <1>1, <1>2, <1>3, <2>1, <2>2, <2>3, <2>4, EdgeLine
<1>6. CASE content[cursor + 1].head # "edges"
  <2>1. state' = "WaitingEdges" /\ raw_conflicts' = {} /\ last_error' = ""
    BY <1>1, <1>3, <1>6 DEF Ampl!AwaitEdges, NoReason
  <2>2. \A i \in v + 1 .. cursor + 1 : content[i].head # "edges"
    BY <1>2, <1>4, <1>6
  <2>3. AmplTrack'
    BY <1>1, <1>2, <1>3, <1>4, <2>1, <2>2 DEF AmplTrack
  <2> QED BY <2>1, <2>3 DEF LineRead
<1> QED BY <1>5, <1>6

LEMMA ReadEdgeKeeps ==
  ASSUME content \in Seq(Line), AmplTrack, NoReason, Ampl!ReadEdge
  PROVE  LineRead
<1>1. /\ state = "Edges" /\ content' = content /\ cursor' = cursor + 1
      /\ cursor \in Nat /\ cursor + 1 \in Nat /\ cursor + 1 <= Len(content)
      /\ cursor + 1 \in DOMAIN content /\ Ampl!line = content[cursor + 1]
  BY NextLineIs DEF Ampl!ReadEdge
<1>2. PICK h, v, e \in DOMAIN content :
        /\ ItemsDone(content, n_items, capacity, loaded, h, v)
        /\ EdgesRead(content, raw_conflicts, v, e, cursor)
        /\ ~ content[cursor].semi
  BY <1>1 DEF AmplTrack
<1>3. BlockUpTo(content, "edges", v + 1, e, cursor) /\ Listed(content, raw_conflicts, e, cursor)
  BY <1>2 DEF EdgesRead
<1>4. UNCHANGED <<n_items, capacity, loaded>>
  BY DEF Ampl!ReadEdge, Ampl!fields
<1>5. e \in Nat /\ Len(content) \in Nat /\ v + 1 \in Nat /\ e <= cursor
  <2>1. e <= cursor
    BY <1>3 DEF BlockUpTo
  <2>2. e \in Nat /\ Len(content) \in Nat /\ v \in Nat
    BY LinesType
  <2> QED BY <2>1, <2>2
<1>6. CASE content[cursor + 1].head = ""
  <2>1. BlockUpTo(content, "edges", v + 1, e, cursor + 1)
    BY <1>1, <1>2, <1>3, <1>5, <1>6, BlockGrows
  <2>2. Ampl!parse_edge_record
    BY <1>1, <1>6 DEF Ampl!ReadEdge
  <2>3. PICK g, u, f : g = h /\ u = v /\ f = e
    OBVIOUS
  <2> QED BY <1>1, <1>2, <1>3, <1>4, <2>1, <2>2, <2>3, EdgeLine
<1>7. CASE content[cursor + 1].head # ""
  <2>1. state' = "refused" /\ last_error' # ""
    BY <1>1, <1>7 DEF Ampl!ReadEdge, Ampl!Refuse
  <2>2. AmplTrack'
    <3>1. cursor + 1 \in 0 .. Len(content)
      BY <1>1, <1>5
    <3> QED BY <1>1, <2>1, <3>1 DEF AmplTrack
  <2>3. ASSUME Ampl!WellFormed PROVE FALSE
    <3>1. PICK f, d \in DOMAIN content :
            /\ Written(content, h, v, f, d, n_items, capacity)
            /\ \A g, k \in DOMAIN content : BlockUpTo(content, "edges", v + 1, g, k) =>
                 /\ g = f
                 /\ content[k].semi => k = d
                 /\ ~ content[k].semi => k < d
      BY <1>2, <2>3, EdgesAreMeant
    <3>2. cursor \in DOMAIN content
      BY <1>1, <1>5, LinesType
    <3>3. f = e /\ cursor < d
      BY <1>2, <1>3, <3>1, <3>2
    <3>4. BlockUpTo(content, "edges", v + 1, e, d) /\ d \in Nat
      BY <3>1, <3>3, LinesType DEF Written
    <3> QED BY <1>1, <1>5, <1>7, <3>3, <3>4, BadHead
  <2> QED BY <2>1, <2>2, <2>3 DEF LineRead
<1> QED BY <1>6, <1>7

\* A file that ends before its last block does is not of the format.
LEMMA EndOfFileKeeps ==
  ASSUME content \in Seq(Line), AmplTrack, Ampl!EndOfFile
  PROVE  LineRead
<1>1. cursor = Len(content) /\ content' = content /\ cursor' = cursor
  BY DEF Ampl!EndOfFile
<1>0. /\ state \in {"Header", "Values", "WaitingEdges", "Edges"}
      /\ state' = "refused" /\ last_error' # ""
  BY DEF Ampl!EndOfFile, Ampl!Refuse
<1>2. AmplTrack'
  BY <1>0, <1>1 DEF AmplTrack
<1>3. Len(content) \in Nat /\ DOMAIN content = 1 .. Len(content)
  BY LinesType
<1>4. ASSUME Ampl!WellFormed, state \in {"Header", "Values"} PROVE FALSE
  <2>1. PICK g, u, f, d \in DOMAIN content : \E m, space \in Nat :
          Written(content, g, u, f, d, m, space)
    BY <1>4, FormatIsWritten
  <2>2. PICK m, space \in Nat : Written(content, g, u, f, d, m, space)
    BY <2>1
  <2>3. CASE state = "Header"
    <3>1. content[g].head = "values"
      BY <2>2 DEF Written, BlockUpTo
    <3>2. g \in 1 .. cursor
      BY <1>1, <1>3
    <3> QED BY <2>3, <3>1, <3>2 DEF AmplTrack
  <2>4. CASE state = "Values"
    <3>1. PICK h \in DOMAIN content :
            /\ ItemsRead(content, n_items, capacity, loaded, h, cursor)
            /\ ~ content[cursor].semi
      BY <2>4 DEF AmplTrack
    <3>2. BlockUpTo(content, "values", 1, h, cursor)
      BY <3>1 DEF ItemsRead
    <3>3. cursor \in DOMAIN content
      <4>1. h <= cursor
        BY <3>2 DEF BlockUpTo
      <4> QED BY <1>1, <1>3, <4>1
    <3>4. cursor < u
      BY <2>2, <3>1, <3>2, <3>3, ItemsAreMeant
    <3> QED BY <1>1, <1>3, <3>4
  <2> QED BY <1>4, <2>3, <2>4
<1>5. ASSUME Ampl!WellFormed, state = "WaitingEdges" PROVE FALSE
  <2>1. PICK h, v \in DOMAIN content :
          /\ ItemsDone(content, n_items, capacity, loaded, h, v)
          /\ v <= cursor /\ \A i \in v + 1 .. cursor : content[i].head # "edges"
    BY <1>5 DEF AmplTrack
  <2>2. PICK f, d \in DOMAIN content : Written(content, h, v, f, d, n_items, capacity)
    BY <1>5, <2>1, EdgesAreMeant
  <2>3. content[f].head = "edges" /\ v + 1 <= f
    BY <2>2 DEF Written, BlockUpTo
  <2>4. f \in v + 1 .. cursor
    <3>1. v + 1 <= f
      BY <2>3
    <3> QED BY <1>1, <1>3, <3>1
  <2> QED BY <2>1, <2>3, <2>4
<1>6. ASSUME Ampl!WellFormed, state = "Edges" PROVE FALSE
  <2>1. PICK h, v, e \in DOMAIN content :
          /\ ItemsDone(content, n_items, capacity, loaded, h, v)
          /\ EdgesRead(content, raw_conflicts, v, e, cursor)
          /\ ~ content[cursor].semi
    BY <1>6 DEF AmplTrack
  <2>2. PICK f, d \in DOMAIN content :
          /\ Written(content, h, v, f, d, n_items, capacity)
          /\ \A g, k \in DOMAIN content : BlockUpTo(content, "edges", v + 1, g, k) =>
               /\ g = f
               /\ content[k].semi => k = d
               /\ ~ content[k].semi => k < d
    BY <1>6, <2>1, EdgesAreMeant
  <2>3. BlockUpTo(content, "edges", v + 1, e, cursor)
    BY <2>1 DEF EdgesRead
  <2>4. cursor \in DOMAIN content
    <3>1. e <= cursor
      BY <2>3 DEF BlockUpTo
    <3> QED BY <1>1, <1>3, <3>1
  <2>5. cursor < d
    BY <2>1, <2>2, <2>3, <2>4
  <2> QED BY <1>1, <1>3, <2>5
<1> QED BY <1>0, <1>2, <1>4, <1>5, <1>6 DEF LineRead

\* What the records say of one item.
LEMMA LearnedType ==
  ASSUME NEW c, NEW n, NEW items, NEW h, NEW v, Learned(c, n, items, h, v), NEW i \in DOMAIN items
  PROVE  i \in 0 .. n - 1 /\ items[i][1] \in int32 /\ items[i][2] \in 0 .. Int32Max
<1>1. PICK k \in Filled(c, h, v) : i = c[k].nums[1]
  BY DEF Learned
<1> DEFINE r == c[k].nums
<1>2. items[i] = <<r[2], r[3]>> /\ IsItemRecord(r, n)
  BY <1>1 DEF Learned
<1>3. IsRecord(r, 3) /\ r[1] \in 0 .. n - 1 /\ r[3] >= 0
  BY <1>2 DEF IsItemRecord
<1>4. r[2] \in int32 /\ r[3] \in int32
  <2>1. 2 \in 1 .. 3 /\ 3 \in 1 .. 3
    OBVIOUS
  <2> QED BY <1>3, <2>1 DEF IsRecord
<1> QED BY <1>1, <1>2, <1>3, <1>4, NumbersOf32Bits

\* What the code calls value_or_zero of the k-th number of each item.
ValuesOf(n, items, k) == [i \in 0 .. n - 1 |-> IF i \in DOMAIN items THEN items[i][k] ELSE 0]

\* At the end the items are counted.
LEMMA FinishKeeps ==
  ASSUME content \in Seq(Line), AmplTrack, NoReason, Ampl!Finish
  PROVE  LineRead
<1>1. /\ state = "Done" /\ content' = content /\ cursor' = cursor
      /\ UNCHANGED <<n_items, capacity, loaded, raw_conflicts>>
  BY DEF Ampl!Finish
<1>2. PICK h, v, e \in DOMAIN content :
        /\ ItemsDone(content, n_items, capacity, loaded, h, v)
        /\ EdgesRead(content, raw_conflicts, v, e, cursor)
        /\ content[cursor].semi
  BY <1>1 DEF AmplTrack
<1>3. cursor \in 0 .. Len(content)
  BY DEF AmplTrack
<1>4. /\ ParametersRead(content, n_items, capacity, h)
      /\ Learned(content, n_items, loaded, h, v)
  BY <1>2 DEF ItemsDone, ItemsRead
<1>5. Listed(content, raw_conflicts, e, cursor)
  BY <1>2 DEF EdgesRead
<1>6. CASE Cardinality(DOMAIN loaded) = n_items
  <2>1. state' = "parsed" /\ last_error' = ""
    BY <1>6, SameViews DEF Ampl!Finish, Ampl!Proceed, Ampl!seen_items, NoReason
  <2>2. profits' = ValuesOf(n_items, loaded, 1) /\ weights' = ValuesOf(n_items, loaded, 2)
    BY <1>6, SameViews DEF Ampl!Finish, Ampl!ValueOf, Ampl!seen_items, ValuesOf
  <2>3. AmplTrack'
    <3>1. \E g, u, f \in DOMAIN content :
            /\ ItemsDone(content, n_items, capacity, loaded, g, u)
            /\ EdgesRead(content, raw_conflicts, u, f, cursor)
            /\ content[cursor].semi <=> state' # "Edges"
      BY <1>2, <2>1
    <3> QED BY <1>1, <1>3, <1>6, <2>1, <2>2, <3>1 DEF AmplTrack, ValuesOf
  <2>4. n_items \in Nat \ {0} /\ capacity \in Nat
    BY <1>4, Int32Assumption DEF ParametersRead
  <2>5. /\ ValuesOf(n_items, loaded, 1) \in [0 .. n_items - 1 -> int32]
        /\ ValuesOf(n_items, loaded, 2) \in [0 .. n_items - 1 -> 0 .. Int32Max]
    BY <1>4, LearnedType, NumbersOf32Bits DEF ValuesOf
  <2>6. raw_conflicts \subseteq Int \X Int
    <3>1. ASSUME NEW k \in Filled(content, e, cursor)
          PROVE  content[k].nums[1] \in Int /\ content[k].nums[2] \in Int
      <4>1. IsRecord(content[k].nums, 2)
        BY <1>5, <3>1 DEF Listed
      <4>2. 1 \in 1 .. 2 /\ 2 \in 1 .. 2
        OBVIOUS
      <4> QED BY <4>1, <4>2, NumbersOf32Bits DEF IsRecord
    <3> QED BY <1>5, <3>1 DEF Listed
  <2>7. ItemsLoaded'
    BY <1>1, <2>2, <2>4, <2>5, <2>6 DEF ItemsLoaded
  <2> QED BY <2>1, <2>3, <2>7 DEF LineRead
<1>7. CASE Cardinality(DOMAIN loaded) # n_items
  <2>1. state' = "refused" /\ last_error' # ""
    BY <1>7, SameViews DEF Ampl!Finish, Ampl!Refuse, Ampl!seen_items
  <2>2. AmplTrack'
    BY <1>1, <1>3, <2>1 DEF AmplTrack
  <2>3. ASSUME Ampl!WellFormed PROVE FALSE
    <3>1. PICK f, d \in DOMAIN content : Written(content, h, v, f, d, n_items, capacity)
      BY <1>2, <2>3, EdgesAreMeant
    <3>2. Cardinality(Filled(content, h, v)) = n_items
      BY <3>1 DEF Written
    <3> QED BY <1>4, <1>7, <3>2 DEF Learned
  <2> QED BY <2>1, <2>2, <2>3 DEF LineRead
<1> QED BY <1>6, <1>7

\* Every line of an AMPL file keeps the invariant.
LEMMA AmplKeeps == ReaderInv /\ parse_ampl_like => ReaderInv'
<1> SUFFICES ASSUME ReaderInv, parse_ampl_like PROVE ReaderInv'
  OBVIOUS
<1>1. answer = "pending" /\ Ampl!ReadLine /\ UNCHANGED <<pass, base, answer>>
  BY DEF parse_ampl_like
<1>2. /\ content' = content
      /\ state \in {"Header", "Values", "WaitingEdges", "Edges", "Done"}
  BY <1>1 DEF Ampl!ReadLine, Ampl!ReadParameter, Ampl!ReadValuesHeader, Ampl!OutOfMemory,
              Ampl!ReadValue, Ampl!AwaitEdges, Ampl!ReadEdge, Ampl!EndOfFile, Ampl!Finish,
              Ampl!NextLine
<1>3. content \in Seq(Line) /\ content # <<>> /\ Reading
  BY <1>1 DEF ReaderInv
<1>4. detect_format(content) = "ampl" /\ pass = "idle" /\ last_error = "" /\ AmplTrack
  BY <1>2, <1>3 DEF Reading, CompactTrack, GraphTrack
<1>5. NoReason
  BY <1>4 DEF NoReason
<1>6. LineRead
  BY <1>1, <1>3, <1>4, <1>5, ReadParameterKeeps, ReadValuesHeaderKeeps, OutOfMemoryKeeps,
     ReadValueKeeps, AwaitEdgesKeeps, ReadEdgeKeeps, EndOfFileKeeps, FinishKeeps
     DEF Ampl!ReadLine
<1> QED BY <1>1, <1>2, <1>4, <1>6, ParserStep DEF LineRead

-----------------------------------------------------------------------------
(* The rest of read_from_file.                                             *)

\* A step that leaves the fields of the items alone, and the text.
LEMMA FrameKeeps ==
  ASSUME ReaderInv, answer = "pending",
         UNCHANGED <<content, state, cursor, parsed, raw_conflicts, n_items, capacity,
                     profits, weights, last_error>>,
         GraphTrack', answer' \in {"pending", "true", "thrown"},
         answer' = "true" => state = "parsed" /\ pass' = "ok"
  PROVE  ReaderInv'
<1>1. content \in Seq(Line) /\ content # <<>> /\ Reading
  BY DEF ReaderInv
<1>2. UNCHANGED <<content, state, cursor, parsed_n_items, parsed_capacity, loaded,
                  raw_conflicts, n_items, capacity, profits, weights, last_error>>
  BY DEF parsed
<1>3. AmplTrack => AmplTrack'
  BY <1>2 DEF AmplTrack
<1>4. CompactTrack(Tokens(content)) => CompactTrack(Tokens(content))'
  BY <1>2 DEF CompactTrack
<1>5. ItemsLoaded => ItemsLoaded'
  BY <1>2 DEF ItemsLoaded
<1>6. Reading'
  BY <1>1, <1>2, <1>3, <1>4, <1>5 DEF Reading
<1>7. state' = "refused" =>
        IF detect_format(content) = "ampl" THEN ~ Ampl!WellFormed ELSE ~ Compact!WellFormed
  BY <1>1, <1>2 DEF ReaderInv
<1> QED BY <1>1, <1>2, <1>6, <1>7, SameText DEF ReaderInv

LEMMA BeginNormalizationKeeps == ReaderInv /\ BeginNormalization => ReaderInv'
<1> SUFFICES ASSUME ReaderInv, BeginNormalization PROVE ReaderInv'
  OBVIOUS
<1>1. /\ answer = "pending" /\ answer' = answer /\ state = "parsed"
      /\ pass' = "scan" /\ base' \in {0, 1}
      /\ UNCHANGED <<content, state, cursor, parsed, raw_conflicts, fields, last_error>>
  BY DEF BeginNormalization, default_base
<1>2. GraphTrack'
  BY <1>1 DEF GraphTrack
<1> QED BY <1>1, <1>2, FrameKeeps DEF fields

\* The chosen base is one of the two.
LEMMA BaseIsOne == Normalization!ChosenBase \in {0, 1}
<1>1. default_base \in {0, 1}
  BY DEF default_base
<1> QED BY <1>1 DEF Normalization!ChosenBase

\* The lists that the second pass builds.
LEMMA ListsAreBuilt ==
  ASSUME base \in {0, 1}, n_items \in Nat, raw_conflicts \subseteq Int \X Int
  PROVE  Normalization!Adjacency(Normalization!Normalized) = ListsOf(n_items, raw_conflicts, base)
<1> DEFINE edges == Normalization!Normalized
<1>1. edges = {<<e[1] - base, e[2] - base>> : e \in raw_conflicts}
  BY DEF Normalization!Normalized
<1>2. ASSUME NEW i \in 0 .. n_items - 1, NEW j \in 0 .. n_items - 1
      PROVE  <<i, j>> \in edges <=> <<i + base, j + base>> \in raw_conflicts
  <2>1. ASSUME <<i, j>> \in edges PROVE <<i + base, j + base>> \in raw_conflicts
    <3>1. PICK e \in raw_conflicts : <<i, j>> = <<e[1] - base, e[2] - base>>
      BY <1>1, <2>1
    <3>2. e = <<e[1], e[2]>> /\ e[1] \in Int /\ e[2] \in Int
      OBVIOUS
    <3>3. i = e[1] - base /\ j = e[2] - base
      BY <3>1
    <3>4. i + base = e[1] /\ j + base = e[2]
      BY <3>2, <3>3
    <3> QED BY <3>2, <3>4
  <2>2. ASSUME <<i + base, j + base>> \in raw_conflicts PROVE <<i, j>> \in edges
    <3>1. (i + base) - base = i /\ (j + base) - base = j
      OBVIOUS
    <3> DEFINE e == <<i + base, j + base>>
    <3>2. e[1] - base = i /\ e[2] - base = j /\ e \in raw_conflicts
      BY <2>2, <3>1
    <3> HIDE DEF e
    <3> QED BY <1>1, <3>2
  <2> QED BY <2>1, <2>2
<1>3. Normalization!ItemRange = 0 .. n_items - 1
  BY DEF Normalization!ItemRange
<1> HIDE DEF edges
<1>4. Normalization!Adjacency(edges) = ListsOf(n_items, raw_conflicts, base)
  BY <1>2, <1>3 DEF Normalization!Adjacency, ListsOf
<1> QED BY <1>4 DEF edges

\* The normalization adds up the same sizes.
LEMMA SameSums ==
  /\ \A s : Normalization!Cardinality(s) = Cardinality(s)
  /\ \A f : Normalization!SumFunction(f) = SumFunction(f)
<1>1. \A s : Normalization!Cardinality(s) = Cardinality(s)
  BY DEF Normalization!Cardinality, Cardinality
<1>2. \A f : Normalization!SumFunction(f) = SumFunction(f)
  BY DEF Normalization!SumFunction, SumFunction, Normalization!SumFunctionOnSet,
         SumFunctionOnSet, Normalization!FoldFunctionOnSet, FoldFunctionOnSet,
         Normalization!MapThenFoldSet, MapThenFoldSet
<1> QED BY <1>1, <1>2

LEMMA NormalizeKeeps == ReaderInv /\ normalize_conflicts => ReaderInv'
<1> SUFFICES ASSUME ReaderInv, normalize_conflicts PROVE ReaderInv'
  OBVIOUS
<1>1. /\ answer = "pending" /\ answer' = answer
      /\ UNCHANGED <<content, state, cursor, parsed, raw_conflicts, n_items, capacity,
                     profits, weights, last_error>>
  BY DEF normalize_conflicts
<1>2. Normalization!Scan \/ Normalization!Build \/ Normalization!Count
  BY DEF normalize_conflicts, Normalization!ConflictNext
<1>3. Reading
  BY <1>1 DEF ReaderInv
<1>4. GraphTrack
  BY <1>3 DEF Reading
<1>5. pass # "idle"
  BY <1>2 DEF Normalization!Scan, Normalization!Build, Normalization!Count
<1>6. state' = "parsed" /\ base \in {0, 1} /\ ItemsLoaded
  BY <1>1, <1>3, <1>4, <1>5 DEF GraphTrack, Reading
<1>7. GraphTrack'
  <2>1. CASE Normalization!Scan
    <3>1. pass' \in {"build", "error"} /\ base' \in {0, 1}
      BY <1>6, <2>1, BaseIsOne DEF Normalization!Scan
    <3> QED BY <1>6, <3>1 DEF GraphTrack
  <2>2. CASE Normalization!Build
    <3>1. base' = base /\ pass' \in {"count", "error"}
      BY <2>2 DEF Normalization!Build
    <3>2. n_items \in Nat /\ raw_conflicts \subseteq Int \X Int
      BY <1>6 DEF ItemsLoaded
    <3>3. pass' = "count" => conflict_graph' = ListsOf(n_items, raw_conflicts, base)
      BY <1>6, <2>2, <3>2, ListsAreBuilt DEF Normalization!Build
    <3> QED BY <1>1, <1>6, <3>1, <3>3 DEF GraphTrack
  <2>3. CASE Normalization!Count
    <3>1. /\ base' = base /\ pass = "count" /\ pass' = "ok"
          /\ conflict_graph' = conflict_graph
      BY <2>3 DEF Normalization!Count
    <3>2. n_conflicts' =
            SumFunction([i \in 0 .. n_items - 1 |-> Cardinality(conflict_graph[i])]) \div 2
      BY <2>3, SameSums DEF Normalization!Count, Normalization!ItemRange
    <3> QED BY <1>1, <1>4, <1>6, <3>1, <3>2 DEF GraphTrack
  <2> QED BY <1>2, <2>1, <2>2, <2>3
<1> QED BY <1>1, <1>7, FrameKeeps

LEMMA ReturnTrueKeeps == ReaderInv /\ ReturnTrue => ReaderInv'
<1> SUFFICES ASSUME ReaderInv, ReturnTrue PROVE ReaderInv'
  OBVIOUS
<1>1. /\ answer = "pending" /\ answer' = "true" /\ pass = "ok"
      /\ UNCHANGED <<content, state, cursor, parsed, raw_conflicts, pass, base, fields, last_error>>
  BY DEF ReturnTrue
<1>2. GraphTrack
  BY <1>1 DEF ReaderInv, Reading
<1>3. GraphTrack' /\ state = "parsed"
  BY <1>1, <1>2 DEF GraphTrack, fields
<1> QED BY <1>1, <1>3, FrameKeeps DEF fields

LEMMA ThrowKeeps == ReaderInv /\ Throw => ReaderInv'
<1> SUFFICES ASSUME ReaderInv, Throw PROVE ReaderInv'
  OBVIOUS
<1>1. /\ answer = "pending" /\ answer' = "thrown"
      /\ UNCHANGED <<content, state, cursor, parsed, raw_conflicts, pass, base, fields, last_error>>
  BY DEF Throw
<1>2. GraphTrack
  BY <1>1 DEF ReaderInv, Reading
<1>3. GraphTrack'
  BY <1>1, <1>2 DEF GraphTrack, fields
<1> QED BY <1>1, <1>3, FrameKeeps DEF fields

LEMMA ReturnFalseKeeps == ReaderInv /\ ReturnFalse => ReaderInv'
<1> SUFFICES ASSUME ReaderInv, ReturnFalse PROVE ReaderInv'
  OBVIOUS
<1>1. /\ answer = "pending" /\ answer' = "false"
      /\ state = "refused" \/ pass = "error"
      /\ content' = content /\ state' = state /\ pass' = pass
  BY DEF ReturnFalse
<1>2. Reading
  BY <1>1 DEF ReaderInv
<1>3. last_error' # ""
  BY <1>1, <1>2 DEF ReturnFalse, Reading
<1>4. Cleared'
  BY DEF ReturnFalse, clear_data, Cleared
<1> QED BY <1>1, <1>3, <1>4, SameText DEF ReaderInv

LEMMA CannotReadKeeps == ReaderInv /\ CannotRead => ReaderInv'
<1> SUFFICES ASSUME CannotRead PROVE ReaderInv'
  OBVIOUS
<1>1. content' = <<>> /\ answer' = "false" /\ last_error' # ""
  BY DEF CannotRead
<1>2. Cleared'
  BY DEF CannotRead, clear_data, Cleared
<1>3. <<>> \in Seq(Line)
  OBVIOUS
<1> QED BY <1>1, <1>2, <1>3 DEF ReaderInv

\* Every file begins with nothing read of it.
LEMMA OpenKeeps ==
  ASSUME NEW c \in Files, Open(c)
  PROVE  ReaderInv'
<1>1. c \in Seq(Line) /\ c # <<>>
  BY ReaderAssumption DEF Files, Open
<1>2. /\ content' = c /\ answer' = "pending" /\ last_error' = "" /\ cursor' = 0
      /\ pass' = "idle" /\ base' = 0 /\ raw_conflicts' = {}
      /\ parsed_n_items' = {} /\ parsed_capacity' = {}
      /\ state' = IF detect_format(content') = "ampl" THEN "Header" ELSE "tokens"
  BY DEF Open
<1>3. ASSUME NEW name PROVE LastGiven(c, name, 0 + 1) = {}
  BY DEF LastGiven
<1>4. Len(c) \in Nat /\ 0 \in 0 .. Len(c) /\ \A i \in 1 .. 0 : FALSE
  BY <1>1
<1>5. CASE detect_format(content') = "ampl"
  <2>1. state' = "Header"
    BY <1>2, <1>5
  <2>2. AmplTrack'
    BY <1>2, <1>3, <1>4, <2>1 DEF AmplTrack
  <2>3. GraphTrack'
    BY <1>2 DEF GraphTrack
  <2>4. Reading'
    BY <1>2, <1>5, <2>1, <2>2, <2>3 DEF Reading
  <2> QED BY <1>1, <1>2, <2>1, <2>4 DEF ReaderInv
<1>6. CASE detect_format(content') # "ampl"
  <2>1. state' = "tokens"
    BY <1>2, <1>6
  <2>2. CompactTrack(Tokens(content))'
    BY <1>2, <2>1 DEF CompactTrack
  <2>3. GraphTrack'
    BY <1>2 DEF GraphTrack
  <2>4. Reading'
    BY <1>2, <1>6, <2>1, <2>2, <2>3 DEF Reading
  <2> QED BY <1>1, <1>2, <2>1, <2>4 DEF ReaderInv
<1> QED BY <1>5, <1>6

\* Every call keeps the invariant, and so does every sequence of calls.
LEMMA ReaderInvariance == Spec => []ReaderInv
<1>1. Init => ReaderInv
  <2>1. <<>> \in Seq(Line)
    OBVIOUS
  <2> QED BY <2>1 DEF Init, ReaderInv
<1>2. ReaderInv /\ [Next]_vars => ReaderInv'
  <2> SUFFICES ASSUME ReaderInv, [Next]_vars PROVE ReaderInv'
    OBVIOUS
  <2>1. CASE Next
    BY <2>1, CannotReadKeeps, OpenKeeps, CompactKeeps, AmplKeeps, BeginNormalizationKeeps,
       NormalizeKeeps, ReturnFalseKeeps, ReturnTrueKeeps, ThrowKeeps DEF Next, Step
  <2>2. CASE UNCHANGED vars
    <3>1. UNCHANGED <<content, state, cursor, parsed_n_items, parsed_capacity, loaded,
                      raw_conflicts, pass, base, n_items, capacity, profits, weights,
                      conflict_graph, n_conflicts, last_error, answer>>
      BY <2>2 DEF vars, parsed, fields
    <3>2. CASE answer \in {"pending", "true"}
      <4>1. Reading
        BY <3>2 DEF ReaderInv
      <4>2. GraphTrack'
        BY <3>1, <4>1 DEF Reading, GraphTrack
      <4>3. AmplTrack => AmplTrack'
        BY <3>1 DEF AmplTrack
      <4>4. CompactTrack(Tokens(content)) => CompactTrack(Tokens(content))'
        BY <3>1 DEF CompactTrack
      <4>5. ItemsLoaded => ItemsLoaded'
        BY <3>1 DEF ItemsLoaded
      <4>6. Reading'
        BY <3>1, <4>1, <4>2, <4>3, <4>4, <4>5 DEF Reading
      <4> QED BY <3>1, <3>2, <4>6, SameText DEF ReaderInv
    <3>3. CASE answer \notin {"pending", "true"}
      <4>1. Cleared => Cleared'
        BY <3>1 DEF Cleared
      <4> QED BY <3>1, <3>3, <4>1, SameText DEF ReaderInv
    <3> QED BY <3>2, <3>3
  <2> QED BY <2>1, <2>2
<1> QED BY <1>1, <1>2, PTL DEF Spec

-----------------------------------------------------------------------------
(* What read_from_file promises.                                           *)

\* The lists of the normalization are symmetric and without loops, whatever
\* the edges; and there is an entry for each pair that the edges name.
LEMMA ListsType ==
  ASSUME NEW n, NEW edges, NEW b, NEW G, G = ListsOf(n, edges, b)
  PROVE  /\ G \in [0 .. n - 1 -> SUBSET (0 .. n - 1)]
         /\ \A i, j \in 0 .. n - 1 : i \in G[j] <=> j \in G[i]
         /\ \A i \in 0 .. n - 1 : i \notin G[i]
         /\ \A i, j \in 0 .. n - 1 :
              j \in G[i] <=>
                i # j /\ (<<i + b, j + b>> \in edges \/ <<j + b, i + b>> \in edges)
BY DEF ListsOf

\* A call that reports failure leaves an empty object and a reason, at
\* whatever line or token it failed; one that reports success leaves an
\* object with what the solver assumes of an instance.
THEOREM ObjectEmptyOrInstance == Spec => []ObjectIsEmptyOrAnInstance
<1>1. ReaderInv => ObjectIsEmptyOrAnInstance
  <2> SUFFICES ASSUME ReaderInv PROVE ObjectIsEmptyOrAnInstance
    OBVIOUS
  <2>1. CASE answer = "true"
    <3>1. Reading /\ state = "parsed" /\ pass = "ok"
      BY <2>1 DEF ReaderInv
    <3>2. ItemsLoaded /\ last_error = "" /\ conflict_graph = ListsOf(n_items, raw_conflicts, base)
      BY <3>1 DEF Reading, GraphTrack
    <3>3. Loaded!Items = 0 .. n_items - 1
      BY DEF Loaded!Items
    <3>4. /\ conflict_graph \in [Loaded!Items -> SUBSET Loaded!Items]
          /\ \A i, j \in Loaded!Items : i \in conflict_graph[j] <=> j \in conflict_graph[i]
          /\ \A i \in Loaded!Items : i \notin conflict_graph[i]
      BY <3>2, <3>3, ListsType
    <3>5. n_items > 0 /\ capacity >= 0
      <4>1. n_items \in Nat \ {0} /\ capacity \in Nat
        BY <3>2 DEF ItemsLoaded
      <4> QED BY <4>1
    <3>6. profits \in [Loaded!Items -> int32] /\ weights \in [Loaded!Items -> 0 .. Int32Max]
      BY <3>2, <3>3 DEF ItemsLoaded
    <3> QED BY <2>1, <3>2, <3>4, <3>5, <3>6 DEF ObjectIsEmptyOrAnInstance
  <2>2. CASE answer # "true"
    BY <2>2 DEF ReaderInv, Cleared, ObjectIsEmptyOrAnInstance
  <2> QED BY <2>1, <2>2
<1> QED BY <1>1, ReaderInvariance, PTL

\* An AMPL file that the parser has accepted is one of the format: the items
\* it has counted are all of them.
LEMMA AcceptedAmpl ==
  ASSUME content \in Seq(Line), AmplTrack, state = "parsed"
  PROVE  \E h, v, e, d \in DOMAIN content :
           /\ Written(content, h, v, e, d, n_items, capacity)
           /\ Learned(content, n_items, loaded, h, v)
           /\ Listed(content, raw_conflicts, e, d)
<1>1. PICK h, v, e \in DOMAIN content :
        /\ ItemsDone(content, n_items, capacity, loaded, h, v)
        /\ EdgesRead(content, raw_conflicts, v, e, cursor)
        /\ content[cursor].semi
  BY DEF AmplTrack
<1>2. /\ BlockUpTo(content, "values", 1, h, v) /\ content[v].semi
      /\ ParametersRead(content, n_items, capacity, h)
      /\ Learned(content, n_items, loaded, h, v)
      /\ BlockUpTo(content, "edges", v + 1, e, cursor)
      /\ Listed(content, raw_conflicts, e, cursor)
  BY <1>1 DEF ItemsDone, ItemsRead, EdgesRead
<1>3. cursor \in DOMAIN content
  <2>1. e <= cursor
    BY <1>2 DEF BlockUpTo
  <2>2. cursor \in 0 .. Len(content)
    BY DEF AmplTrack
  <2> QED BY <2>1, <2>2, LinesType
<1>4. Cardinality(DOMAIN loaded) = n_items /\ n_items \in Nat
  BY <1>2, Int32Assumption DEF AmplTrack, ParametersRead
<1>5. DOMAIN loaded = 0 .. n_items - 1
  <2>1. DOMAIN loaded \subseteq 0 .. n_items - 1
    BY <1>2, LearnedType
  <2>2. IsFiniteSet(0 .. n_items - 1) /\ Cardinality(0 .. n_items - 1) = n_items
    <3>1. n_items \in Nat
      BY <1>4
    <3>2. (n_items - 1) - 0 + 1 = n_items /\ (n_items = 0 => 0 > n_items - 1)
      BY <3>1
    <3> QED BY <3>1, <3>2, FS_Interval
  <2> QED BY <1>4, <2>1, <2>2, FS_Subset
<1>6. /\ {content[k].nums[1] : k \in Filled(content, h, v)} = 0 .. n_items - 1
      /\ Cardinality(Filled(content, h, v)) = n_items
      /\ \A k \in Filled(content, h, v) : IsItemRecord(content[k].nums, n_items)
      /\ \A k \in Filled(content, e, cursor) : IsRecord(content[k].nums, 2)
  BY <1>2, <1>4, <1>5 DEF Learned, Listed
<1>7. Written(content, h, v, e, cursor, n_items, capacity)
  BY <1>1, <1>2, <1>6 DEF Written
<1> QED BY <1>2, <1>3, <1>7

\* Behind the header: n profits, n weights, and the ends of m edges in pairs.
LEMMA Places ==
  ASSUME NEW n \in Nat, NEW m \in Nat, NEW i \in 4 .. 3 + 2 * n + 2 * m
  PROVE  \/ \E k \in 0 .. n - 1 : i = 4 + k
         \/ \E k \in 0 .. n - 1 : i = 4 + n + k
         \/ \E e \in 0 .. m - 1 : i = 4 + 2 * (n + e) \/ i = 5 + 2 * (n + e)
<1>1. CASE i <= 3 + n
  <2>1. i - 4 \in 0 .. n - 1 /\ i = 4 + (i - 4)
    BY <1>1
  <2> QED BY <2>1
<1>2. CASE 3 + n < i /\ i <= 3 + 2 * n
  <2>1. i - (4 + n) \in 0 .. n - 1 /\ i = 4 + n + (i - (4 + n))
    BY <1>2
  <2> QED BY <2>1
<1>3. CASE 3 + 2 * n < i
  <2>1. PICK q \in Nat : q < 2 * m /\ i = q + 4 + 2 * n
    <3>1. i - (4 + 2 * n) \in Nat /\ i - (4 + 2 * n) < 2 * m
      BY <1>3
    <3> QED BY <3>1
  <2>2. PICK e \in Nat : q = 2 * e \/ q = 2 * e + 1
    <3>1. q \div 2 \in Nat /\ (q = 2 * (q \div 2) \/ q = 2 * (q \div 2) + 1)
      OBVIOUS
    <3> QED BY <3>1
  <2>3. e \in 0 .. m - 1
    BY <2>1, <2>2
  <2>4. i = 4 + 2 * (n + e) \/ i = 5 + 2 * (n + e)
    BY <2>1, <2>2
  <2> QED BY <2>3, <2>4
<1> QED BY <1>1, <1>2, <1>3

\* A compact file that the parser has accepted is one of the format.
LEMMA AcceptedCompact ==
  ASSUME CompactTrack(Compact!tokens), state = "parsed"
  PROVE  Compact!WellFormed
<1> DEFINE t == Compact!tokens
<1>1. /\ t \in Seq(Int) /\ Len(t) \in Nat /\ t[2] \in Int /\ t[3] \in Int
      /\ n_items \in Nat \ {0} /\ n_items = t[1] /\ n_items \in 1 .. Int32Max
      /\ Len(t) >= 3 + 2 * n_items
      /\ \A o \in {2, 3} : Compact!CompleteIf(o) <=> LeavesEdges(t, n_items, t[o])
  BY LayoutOf
<1>2. /\ LeavesEdges(t, n_items, t[2]) \/ LeavesEdges(t, n_items, t[3])
      /\ capacity \in Nat
      /\ capacity = IF LeavesEdges(t, n_items, t[2]) THEN t[3] ELSE t[2]
      /\ cursor = n_items
      /\ profits \in [0 .. n_items - 1 -> int32]
      /\ weights \in [0 .. n_items - 1 -> 0 .. Int32Max]
      /\ \A i \in 0 .. cursor - 1 :
           profits[i] = t[4 + i] /\ weights[i] = t[4 + n_items + i]
      /\ \A m \in {t[2], t[3]} :
           LeavesEdges(t, n_items, m) => raw_conflicts = EdgesOf(t, n_items, m)
      /\ raw_conflicts \subseteq int32 \X int32
  BY DEF CompactTrack
<1> HIDE DEF t
<1>3. Word \notin Compact!ToSet(t)
  <2>1. \A i \in DOMAIN t : t[i] \in Int
    BY <1>1
  <2> QED BY <2>1, WordAssumption DEF Compact!ToSet
<1>4. \E o \in {2, 3} : LeavesEdges(t, n_items, t[o]) /\ t[5 - o] >= 0
  <2>1. capacity >= 0
    BY <1>2
  <2>2. 5 - 2 = 3 /\ 5 - 3 = 2
    OBVIOUS
  <2> QED BY <1>2, <2>1, <2>2
<1>5. \A i \in 4 .. Len(t) : t[i] \in int32
  <2> SUFFICES ASSUME NEW i \in 4 .. Len(t) PROVE t[i] \in int32
    OBVIOUS
  <2>1. PICK m \in {t[2], t[3]} : LeavesEdges(t, n_items, m)
    BY <1>2
  <2>2. n_items \in Nat /\ m \in Nat /\ i \in 4 .. 3 + 2 * n_items + 2 * m
    <3>1. m \in Int /\ m >= 0 /\ Len(t) = 3 + 2 * n_items + 2 * m
      BY <1>1, <2>1 DEF LeavesEdges
    <3> QED BY <1>1, <3>1
  <2>3. CASE \E k \in 0 .. n_items - 1 : i = 4 + k
    BY <1>2, <2>3
  <2>4. CASE \E k \in 0 .. n_items - 1 : i = 4 + n_items + k
    <3>1. PICK k \in 0 .. n_items - 1 : i = 4 + n_items + k
      BY <2>4
    <3>2. weights[k] = t[4 + n_items + k] /\ weights[k] \in 0 .. Int32Max
      BY <1>2, <3>1
    <3> QED BY <3>1, <3>2, NumbersOf32Bits
  <2>5. CASE \E e \in 0 .. m - 1 : i = 4 + 2 * (n_items + e) \/ i = 5 + 2 * (n_items + e)
    <3>1. PICK e \in 0 .. m - 1 : i = 4 + 2 * (n_items + e) \/ i = 5 + 2 * (n_items + e)
      BY <2>5
    <3>2. <<t[4 + 2 * (n_items + e)], t[5 + 2 * (n_items + e)]>> \in raw_conflicts
      BY <1>2, <2>1 DEF EdgesOf
    <3>3. t[4 + 2 * (n_items + e)] \in int32 /\ t[5 + 2 * (n_items + e)] \in int32
      BY <1>2, <3>2
    <3> QED BY <3>1, <3>3
  <2> QED BY <2>2, <2>3, <2>4, <2>5, Places
<1>6. \A i \in 1 .. n_items : t[3 + n_items + i] >= 0
  <2> TAKE i \in 1 .. n_items
  <2> DEFINE k == i - 1
  <2>1. k \in 0 .. n_items - 1 /\ 4 + n_items + k = 3 + n_items + i
    <3>1. n_items \in Nat
      BY <1>1
    <3> QED BY <3>1
  <2> HIDE DEF k
  <2>2. weights[k] = t[4 + n_items + k] /\ weights[k] \in 0 .. Int32Max
    BY <1>2, <2>1
  <2>3. weights[k] >= 0
    BY <2>2, NumbersOf32Bits
  <2> QED BY <2>1, <2>2, <2>3
<1>7. Len(t) >= 3
  BY <1>1
<1> QED BY <1>1, <1>3, <1>4, <1>5, <1>6, <1>7, SameViews DEF Compact!WellFormed, t

\* The verdict on a file is that of the format that was detected, although
\* the parsers decide on what they have read so far: what is accepted is of
\* that format, and what is refused is of neither, unless its conflicts fit
\* no base or the detection has not looked far enough.
THEOREM FormatsAccepted == Spec => []AcceptsTheFormats
<1>1. ReaderInv => AcceptsTheFormats
  <2> SUFFICES ASSUME ReaderInv PROVE AcceptsTheFormats
    OBVIOUS
  <2>0. content \in Seq(Line)
    BY DEF ReaderInv
  <2>1. ASSUME answer = "true"
        PROVE  IF detect_format(content) = "ampl" THEN Ampl!WellFormed ELSE Compact!WellFormed
    <3>1. Reading /\ state = "parsed"
      BY <2>1 DEF ReaderInv
    <3>2. CASE detect_format(content) = "ampl"
      <4>1. AmplTrack
        BY <3>1, <3>2 DEF Reading
      <4>2. PICK h, v, e, d \in DOMAIN content :
              Written(content, h, v, e, d, n_items, capacity)
        BY <2>0, <3>1, <4>1, AcceptedAmpl
      <4>3. n_items \in Nat /\ capacity \in Nat
        BY <4>2, Int32Assumption DEF Written, ParametersRead
      <4>4. Ampl!WellFormed
        BY <2>0, <4>2, <4>3, FormatIsWritten
      <4> QED BY <3>2, <4>4
    <3>3. CASE detect_format(content) # "ampl"
      <4>1. CompactTrack(Tokens(content))
        BY <3>1, <3>3 DEF Reading
      <4>2. CompactTrack(Compact!tokens)
        BY <4>1, SameViews
      <4>3. Compact!WellFormed
        BY <3>1, <4>2, AcceptedCompact
      <4> QED BY <3>3, <4>3
    <3> QED BY <3>2, <3>3
  <2>2. ASSUME answer = "false", content # <<>>, pass # "error"
        PROVE  /\ ~ Compact!WellFormed
               /\ Ampl!WellFormed =>
                    \A k \in DOMAIN content : IsAmplLine(content[k]) =>
                      Cardinality({i \in 1 .. k : ~ IsBlank(content[i])}) > Inspected
    <3>1. IF detect_format(content) = "ampl" THEN ~ Ampl!WellFormed ELSE ~ Compact!WellFormed
      BY <2>2 DEF ReaderInv
    <3> QED BY <2>0, <2>2, <3>1, DetectionTells
  <2> QED BY <2>1, <2>2 DEF AcceptsTheFormats
<1> QED BY <1>1, ReaderInvariance, PTL

\* The object holds what an accepted AMPL file says.
LEMMA AmplObject ==
  ASSUME content \in Seq(Line), AmplTrack, state = "parsed"
  PROVE  Ampl!HoldsWhatIsWritten
<1>1. PICK h, v, e, d \in DOMAIN content :
        /\ Written(content, h, v, e, d, n_items, capacity)
        /\ Learned(content, n_items, loaded, h, v)
        /\ Listed(content, raw_conflicts, e, d)
  BY AcceptedAmpl
<1>2. /\ profits = ValuesOf(n_items, loaded, 1)
      /\ weights = ValuesOf(n_items, loaded, 2)
  BY DEF AmplTrack, ValuesOf
<1>3. /\ BlockUpTo(content, "edges", v + 1, e, d) /\ content[d].semi
      /\ ParametersRead(content, n_items, capacity, h)
  BY <1>1 DEF Written
<1>4. \A i \in DOMAIN content : i \in Nat /\ i + 1 \in Nat
  BY LinesType
<1>5. ASSUME NEW g \in DOMAIN content, NEW u \in DOMAIN content,
             NEW f \in DOMAIN content, NEW k \in DOMAIN content, Ampl!AreBlocks(g, u, f, k)
      PROVE  g = h /\ u = v /\ f = e /\ k = d
  <2>1. /\ BlockUpTo(content, "values", 1, g, u) /\ content[u].semi
        /\ BlockUpTo(content, "edges", u + 1, f, k) /\ content[k].semi
    BY <1>5, SameBlocks
  <2>2. g = h /\ u = v
    BY <1>1, <2>1, ItemsAreMeant
  <2>3. f = e /\ k = d
    <3>1. v + 1 \in Nat /\ e \in Nat /\ d \in Nat /\ f \in Nat /\ k \in Nat
      BY <1>4
    <3>2. /\ BlockUpTo(content, "edges", v + 1, f, k) /\ content[k].semi
          /\ BlockUpTo(content, "edges", v + 1, e, d) /\ content[d].semi
      BY <1>3, <2>1, <2>2
    <3>3. f = e
      BY <3>1, <3>2, BlocksAreUnique
    <3>4. k = d
      BY <3>1, <3>2, BlocksAreUnique
    <3> QED BY <3>3, <3>4
  <2> QED BY <2>2, <2>3
<1>6. Ampl!IsParameter("n", n_items, h) /\ Ampl!IsParameter("c", capacity, h)
  BY <1>3, SameBlocks DEF ParametersRead
<1>7. ASSUME NEW r \in Ampl!Records(h, v) PROVE profits[r[1]] = r[2] /\ weights[r[1]] = r[3]
  <2>1. PICK k \in Filled(content, h, v) : r = content[k].nums
    BY SameBlocks
  <2>2. r[1] \in DOMAIN loaded /\ loaded[r[1]] = <<r[2], r[3]>>
    BY <1>1, <2>1 DEF Learned
  <2>3. r[1] \in 0 .. n_items - 1
    BY <1>1, <2>2, LearnedType
  <2>4. profits[r[1]] = loaded[r[1]][1] /\ weights[r[1]] = loaded[r[1]][2]
    BY <1>2, <2>2, <2>3 DEF ValuesOf
  <2> QED BY <2>2, <2>4
<1>8. raw_conflicts = {<<r[1], r[2]>> : r \in Ampl!Records(e, d)}
  <2>1. raw_conflicts = {<<content[k].nums[1], content[k].nums[2]>> :
                           k \in Filled(content, e, d)}
    BY <1>1 DEF Listed
  <2>2. Ampl!Records(e, d) = {content[k].nums : k \in Filled(content, e, d)}
    BY SameBlocks
  <2> QED BY <2>1, <2>2
<1> QED BY <1>5, <1>6, <1>7, <1>8 DEF Ampl!HoldsWhatIsWritten

\* It holds a compact file in whichever order its header was meant.
LEMMA CompactObject ==
  ASSUME NEW CONSTANT t, t = Compact!tokens, CompactTrack(t), state = "parsed"
  PROVE  Compact!LayoutIsRecovered
<1>1. /\ Len(t) \in Nat /\ t[2] \in Int /\ t[3] \in Int
      /\ n_items \in Nat \ {0} /\ n_items = t[1]
      /\ \A o \in {2, 3} : Compact!CompleteIf(o) <=> LeavesEdges(t, n_items, t[o])
  BY LayoutOf
<1>2. /\ capacity = IF LeavesEdges(t, n_items, t[2]) THEN t[3] ELSE t[2]
      /\ cursor = n_items
      /\ \A i \in 0 .. cursor - 1 :
           profits[i] = t[4 + i] /\ weights[i] = t[4 + n_items + i]
      /\ \A m \in {t[2], t[3]} :
           LeavesEdges(t, n_items, m) => raw_conflicts = EdgesOf(t, n_items, m)
  BY DEF CompactTrack
<1>3. ASSUME NEW o \in {2, 3}, Compact!CompleteIf(o)
      PROVE  capacity = t[5 - o] /\ raw_conflicts = EdgesOf(t, n_items, t[o])
  <2>1. LeavesEdges(t, n_items, t[o])
    BY <1>1, <1>3
  <2>2. 5 - 2 = 3 /\ 5 - 3 = 2
    OBVIOUS
  <2>3. LeavesEdges(t, n_items, t[2]) /\ LeavesEdges(t, n_items, t[3]) => t[2] = t[3]
    <3> SUFFICES ASSUME LeavesEdges(t, n_items, t[2]), LeavesEdges(t, n_items, t[3])
                 PROVE  t[2] = t[3]
      OBVIOUS
    <3>1. Len(t) = 3 + 2 * n_items + 2 * t[2] /\ Len(t) = 3 + 2 * n_items + 2 * t[3]
      BY DEF LeavesEdges
    <3>2. n_items \in Int /\ t[2] \in Int /\ t[3] \in Int
      BY <1>1
    <3>3. \A n, x, y \in Int : 3 + 2 * n + 2 * x = 3 + 2 * n + 2 * y => x = y
      OBVIOUS
    <3>4. 3 + 2 * n_items + 2 * t[2] = 3 + 2 * n_items + 2 * t[3]
      BY <3>1
    <3> QED BY <3>2, <3>3, <3>4
  <2>4. capacity = t[5 - o]
    BY <1>2, <2>1, <2>2, <2>3
  <2>5. raw_conflicts = EdgesOf(t, n_items, t[o])
    BY <1>2, <2>1
  <2> QED BY <2>4, <2>5
<1> QED BY <1>1, <1>2, <1>3 DEF Compact!LayoutIsRecovered, EdgesOf

\* The query of the object finds the pairs of the lists, and half their sizes
\* is the number of these.
LEMMA ConflictsAreCounted ==
  ASSUME n_items \in Nat, NEW edges, NEW b, conflict_graph = ListsOf(n_items, edges, b)
  PROVE  /\ \A i, j \in Loaded!Items :
              Loaded!HasConflict(i, j) <=>
                i # j /\ {<<i + b, j + b>>, <<j + b, i + b>>} \cap edges # {}
         /\ 2 * (SumFunction([i \in 0 .. n_items - 1 |-> Cardinality(conflict_graph[i])]) \div 2)
              = Cardinality({p \in Loaded!Items \X Loaded!Items : Loaded!HasConflict(p[1], p[2])})
<1> DEFINE S == 0 .. n_items - 1
           G == conflict_graph
           A == Arcs(G, S)
           pairs == {{a[1], a[2]} : a \in A}
           sizes == [i \in S |-> Cardinality(G[i])]
<1>1. Loaded!Items = S
  BY DEF Loaded!Items
<1>2. /\ G \in [S -> SUBSET S]
      /\ \A i, j \in S : i \in G[j] <=> j \in G[i]
      /\ \A i \in S : i \notin G[i]
      /\ \A i, j \in S :
           j \in G[i] <=> i # j /\ (<<i + b, j + b>> \in edges \/ <<j + b, i + b>> \in edges)
  BY ListsType
<1>3. S \in SUBSET Int /\ IsFiniteSet(S)
  BY FS_Interval
<1> HIDE DEF S, G
<1>4. \A i, j \in S : Loaded!HasConflict(i, j) <=> j \in G[i]
  BY <1>1, <1>2 DEF Loaded!HasConflict, G
<1>5. \A i, j \in S : Loaded!HasConflict(i, j) <=>
        i # j /\ {<<i + b, j + b>>, <<j + b, i + b>>} \cap edges # {}
  <2> TAKE i, j \in S
  <2> DEFINE p == <<i + b, j + b>>
             q == <<j + b, i + b>>
  <2>1. Loaded!HasConflict(i, j) <=> i # j /\ (p \in edges \/ q \in edges)
    BY <1>2, <1>4
  <2> HIDE DEF p, q
  <2>2. {p, q} \cap edges # {} <=> p \in edges \/ q \in edges
    OBVIOUS
  <2> QED BY <2>1, <2>2 DEF p, q
<1>6. SumFunctionOnSet(sizes, S) = Cardinality(A)
  <2>1. \A i \in S : IsFiniteSet(G[i])
    BY <1>2, <1>3, FS_Subset
  <2> QED BY <1>3, <2>1, SumOfSizes
<1>7. Cardinality(pairs) \in Nat /\ SumFunctionOnSet(sizes, S) = 2 * Cardinality(pairs)
  BY <1>2, <1>3, SizesCountPairsTwice
<1>8. SumFunction(sizes) = SumFunctionOnSet(sizes, S)
  BY DEF SumFunction
<1>9. A = {p \in S \X S : Loaded!HasConflict(p[1], p[2])}
  <2>1. UNION {G[i] : i \in S} \subseteq S
    BY <1>2
  <2>2. A = {p \in S \X S : p[2] \in G[p[1]]}
    BY <1>2, <2>1 DEF Arcs
  <2> HIDE DEF A
  <2> QED BY <1>4, <2>2
<1>10. 2 * (SumFunction(sizes) \div 2) = Cardinality(A)
  <2> HIDE DEF A, pairs, sizes
  <2>1. SumFunction(sizes) = 2 * Cardinality(pairs) /\ SumFunction(sizes) = Cardinality(A)
    BY <1>6, <1>7, <1>8
  <2>2. \A x \in Nat : (2 * x) \div 2 = x
    OBVIOUS
  <2> QED BY <1>7, <2>1, <2>2
<1> HIDE DEF A
<1> QED BY <1>1, <1>5, <1>9, <1>10 DEF S, G

\* After a success the object is that of the file read last: the fields as
\* the file states them, and the conflicts that it lists, of which the code
\* counts half the entries of its lists.
THEOREM ObjectIsLoaded == Spec => []LoadedObjectIsTheFile
<1>1. ReaderInv => LoadedObjectIsTheFile
  <2> SUFFICES ASSUME ReaderInv, answer = "true"
               PROVE  /\ IF detect_format(content) = "ampl" THEN Ampl!HoldsWhatIsWritten
                         ELSE Compact!LayoutIsRecovered
                      /\ \E b \in {0, 1} : \A i, j \in Loaded!Items :
                           Loaded!HasConflict(i, j) <=>
                             i # j /\ {<<i + b, j + b>>, <<j + b, i + b>>} \cap raw_conflicts # {}
                      /\ 2 * n_conflicts = Cardinality({p \in Loaded!Items \X Loaded!Items :
                                                          Loaded!HasConflict(p[1], p[2])})
    BY DEF LoadedObjectIsTheFile
  <2>1. content \in Seq(Line) /\ Reading /\ state = "parsed" /\ pass = "ok"
    BY DEF ReaderInv
  <2>2. ASSUME detect_format(content) = "ampl" PROVE Ampl!HoldsWhatIsWritten
    <3>1. AmplTrack
      BY <2>1, <2>2 DEF Reading
    <3> QED BY <2>1, <3>1, AmplObject
  <2>3. ASSUME detect_format(content) # "ampl" PROVE Compact!LayoutIsRecovered
    <3>1. PICK t : t = Compact!tokens
      OBVIOUS
    <3>2. CompactTrack(t)
      BY <2>1, <2>3, <3>1, SameViews DEF Reading
    <3> QED BY <2>1, <3>1, <3>2, CompactObject
  <2>4. /\ base \in {0, 1} /\ n_items \in Nat
        /\ conflict_graph = ListsOf(n_items, raw_conflicts, base)
        /\ n_conflicts = SumFunction([i \in 0 .. n_items - 1 |-> Cardinality(conflict_graph[i])]) \div 2
    BY <2>1 DEF Reading, GraphTrack, ItemsLoaded
  <2>5. \A i, j \in Loaded!Items :
          Loaded!HasConflict(i, j) <=>
            i # j /\ {<<i + base, j + base>>, <<j + base, i + base>>} \cap raw_conflicts # {}
    BY <2>4, ConflictsAreCounted
  <2>6. 2 * n_conflicts = Cardinality({p \in Loaded!Items \X Loaded!Items :
                                         Loaded!HasConflict(p[1], p[2])})
    BY <2>4, ConflictsAreCounted
  <2> QED BY <2>2, <2>3, <2>4, <2>5, <2>6
<1> QED BY <1>1, ReaderInvariance, PTL
=============================================================================
