-------------------------- MODULE SelectionTheorems --------------------------
(***************************************************************************)
(* What the components share.  First sums over finite sets.  Then the      *)
(* problem: totals, constraints and the order of solutions, where < is     *)
(* strict and total where == tells them apart.  Then the search: the       *)
(* incremental updates of SelectionState are exact, every move that a scan *)
(* finds is a gain to a feasible selection, and a scan that finds none has *)
(* found a local optimum.  At the end, one step of the construction and    *)
(* one of the descent, for whatever module runs it and whatever it calls   *)
(* the variables.                                                          *)
(***************************************************************************)
EXTENDS Neighborhoods, StoppingCriteria, FiniteSetTheorems, TLAPS

-----------------------------------------------------------------------------
(* Sums over finite sets and counts of pairs.  A sum loses exactly the     *)
(* value of a removed element, whichever order the fold takes; the sizes   *)
(* of the lists of a graph add up to twice its pairs.  The sums are        *)
(* recursive functions; the existence of such a function and its laws are  *)
(* proved from the well-foundedness of the strict subset ordering on       *)
(* finite sets, by minimal counterexample.                                 *)

(* The recursive function inside SumFunctionOnSet.                         *)

Pick(s) == CHOOSE x \in s : TRUE

IsIter(w, T, g) ==
  g = [s \in SUBSET T |-> IF s = {} THEN 0 ELSE w[Pick(s)] + g[s \ {Pick(s)}]]

Iter(w, T) == CHOOSE g : IsIter(w, T, g)

\* A nonempty family of subsets of a finite set has a minimal member.
LEMMA MinimalSubset ==
  ASSUME NEW T, IsFiniteSet(T), NEW B, B \subseteq SUBSET T, B # {}
  PROVE  \E U \in B : \A V \in B : V \subseteq U => V = U
<1>1. IsWellFoundedOn(StrictSubsetOrdering(T), FiniteSubsetsOf(T))
  BY FS_StrictSubsetOrderingWellFounded
<1>2. B \subseteq FiniteSubsetsOf(T)
  BY FS_Subset DEF FiniteSubsetsOf
<1>3. PICK U \in B : \A V \in B : ~(<<V, U>> \in StrictSubsetOrdering(T))
  BY <1>1, <1>2, WFMin
<1>4. \A V \in B : V \subseteq U => V = U
  BY <1>3 DEF StrictSubsetOrdering
<1> QED BY <1>4

\* The fold is the value at S of the recursive function on the subsets of S.
LEMMA SumIsIter ==
  ASSUME NEW w, NEW S
  PROVE  SumFunctionOnSet(w, S) = Iter(w, S)[S]
BY DEF SumFunctionOnSet, FoldFunctionOnSet, MapThenFoldSet, Iter, IsIter, Pick

\* Two such functions, on the subsets of S and of T, agree where both are
\* defined.
LEMMA IterAgree ==
  ASSUME NEW w, NEW S, NEW T, NEW U, IsFiniteSet(U), U \subseteq S, U \subseteq T,
         NEW g, IsIter(w, S, g), NEW h, IsIter(w, T, h)
  PROVE  g[U] = h[U]
<1> DEFINE B == {V \in SUBSET U : g[V] # h[V]}
<1> SUFFICES ASSUME B # {} PROVE FALSE
  OBVIOUS
<1>1. PICK V \in B : \A W \in B : W \subseteq V => W = V
  <2>1. B \subseteq SUBSET U
    OBVIOUS
  <2> HIDE DEF B
  <2> QED BY <2>1, MinimalSubset
<1>2. V \in SUBSET S /\ V \in SUBSET T /\ V \in SUBSET U
  BY <1>1
<1>3. /\ g[V] = IF V = {} THEN 0 ELSE w[Pick(V)] + g[V \ {Pick(V)}]
      /\ h[V] = IF V = {} THEN 0 ELSE w[Pick(V)] + h[V \ {Pick(V)}]
  BY <1>2 DEF IsIter
<1>4. CASE V = {}
  BY <1>1, <1>3, <1>4
<1>5. CASE V # {}
  <2>1. Pick(V) \in V
    BY <1>5 DEF Pick
  <2>2. V \ {Pick(V)} \notin B
    BY <1>1, <2>1
  <2>3. g[V \ {Pick(V)}] = h[V \ {Pick(V)}]
    BY <1>2, <2>2
  <2> QED BY <1>1, <1>3, <1>5, <2>3
<1> QED BY <1>4, <1>5

\* There is such a function for every finite set.
LEMMA IterExists ==
  ASSUME NEW w, NEW T, IsFiniteSet(T)
  PROVE  \E g : IsIter(w, T, g)
<1> DEFINE B == {U \in SUBSET T : ~ \E g : IsIter(w, U, g)}
<1> SUFFICES ASSUME B # {} PROVE FALSE
  OBVIOUS
<1>1. PICK U \in B : \A V \in B : V \subseteq U => V = U
  <2>1. B \subseteq SUBSET T
    OBVIOUS
  <2> HIDE DEF B
  <2> QED BY <2>1, MinimalSubset
<1>2. \A V \in SUBSET U : V # U => IsIter(w, V, Iter(w, V))
  <2> TAKE V \in SUBSET U
  <2> HAVE V # U
  <2>1. \E g : IsIter(w, V, g)
    BY <1>1
  <2> QED BY <2>1 DEF Iter
<1> DEFINE h == [s \in SUBSET U |->
                   IF s = {} THEN 0 ELSE w[Pick(s)] + Iter(w, s \ {Pick(s)})[s \ {Pick(s)}]]
<1>3. \A s \in SUBSET U : s # {} =>
        /\ s \ {Pick(s)} \in SUBSET U
        /\ s \ {Pick(s)} # U
  BY DEF Pick
<1>4. \A s \in SUBSET U : s # U => Iter(w, s)[s] = h[s]
  <2> TAKE s \in SUBSET U
  <2> HAVE s # U
  <2> DEFINE r == s \ {Pick(s)}
  <2>1. Iter(w, s)[s] = IF s = {} THEN 0 ELSE w[Pick(s)] + Iter(w, s)[r]
    BY <1>2 DEF IsIter
  <2>2. ASSUME s # {} PROVE Iter(w, s)[r] = Iter(w, r)[r]
    <3>1. IsFiniteSet(r)
      BY FS_Subset
    <3>2. IsIter(w, s, Iter(w, s)) /\ IsIter(w, r, Iter(w, r))
      BY <1>2, <1>3, <2>2
    <3> QED BY <3>1, <3>2, IterAgree
  <2> QED BY <2>1, <2>2
<1>5. \A s \in SUBSET U : h[s] = IF s = {} THEN 0 ELSE w[Pick(s)] + h[s \ {Pick(s)}]
  BY <1>3, <1>4
<1>6. IsIter(w, U, h)
  <2>1. h = [s \in SUBSET U |-> IF s = {} THEN 0 ELSE w[Pick(s)] + h[s \ {Pick(s)}]]
    BY <1>5
  <2> QED BY <2>1 DEF IsIter
<1> QED BY <1>1, <1>6

\* The recursion equation of the sum.
LEMMA SumStep ==
  ASSUME NEW w, NEW S, IsFiniteSet(S)
  PROVE  SumFunctionOnSet(w, S) =
           IF S = {} THEN 0 ELSE w[Pick(S)] + SumFunctionOnSet(w, S \ {Pick(S)})
<1> DEFINE r == S \ {Pick(S)}
<1>1. IsFiniteSet(r)
  BY FS_RemoveElement
<1>2. IsIter(w, S, Iter(w, S)) /\ IsIter(w, r, Iter(w, r))
  BY <1>1, IterExists DEF Iter
<1>3. Iter(w, S)[S] = IF S = {} THEN 0 ELSE w[Pick(S)] + Iter(w, S)[r]
  BY <1>2 DEF IsIter
<1>4. Iter(w, S)[r] = Iter(w, r)[r]
  BY <1>1, <1>2, IterAgree
<1> QED BY <1>3, <1>4, SumIsIter

\* A sum of integers is an integer.
LEMMA SumInt ==
  ASSUME NEW w, NEW S, IsFiniteSet(S), \A x \in S : w[x] \in Int
  PROVE  SumFunctionOnSet(w, S) \in Int
<1> DEFINE B == {V \in SUBSET S : SumFunctionOnSet(w, V) \notin Int}
<1> SUFFICES ASSUME B # {} PROVE FALSE
  OBVIOUS
<1>1. PICK V \in B : \A W \in B : W \subseteq V => W = V
  <2>1. B \subseteq SUBSET S
    OBVIOUS
  <2> HIDE DEF B
  <2> QED BY <2>1, MinimalSubset
<1>2. IsFiniteSet(V)
  BY FS_Subset
<1>3. CASE V = {}
  <2>1. SumFunctionOnSet(w, V) = 0
    BY <1>2, <1>3, SumStep
  <2> QED BY <1>1, <2>1
<1>4. CASE V # {}
  <2>1. Pick(V) \in V
    BY <1>4 DEF Pick
  <2>2. V \ {Pick(V)} \notin B
    BY <1>1, <2>1
  <2>3. SumFunctionOnSet(w, V \ {Pick(V)}) \in Int
    BY <2>2
  <2> QED BY <1>1, <1>2, <1>4, <2>1, <2>3, SumStep
<1> QED BY <1>3, <1>4

\* The sum loses the weight of any element that is removed, not only of the
\* one that the fold picks.
LEMMA SumRemove ==
  ASSUME NEW w, NEW S, IsFiniteSet(S), \A x \in S : w[x] \in Int, NEW e \in S
  PROVE  SumFunctionOnSet(w, S) = w[e] + SumFunctionOnSet(w, S \ {e})
<1> DEFINE Total(V) == SumFunctionOnSet(w, V)
           B == {V \in SUBSET S : \E d \in V : Total(V) # w[d] + Total(V \ {d})}
<1> SUFFICES ASSUME B # {} PROVE FALSE
  OBVIOUS
<1>1. PICK V \in B : \A W \in B : W \subseteq V => W = V
  <2>1. B \subseteq SUBSET S
    OBVIOUS
  <2> HIDE DEF B
  <2> QED BY <2>1, MinimalSubset
<1>2. PICK d \in V : Total(V) # w[d] + Total(V \ {d})
  BY <1>1
<1> DEFINE p == Pick(V)
<1>3. p \in V
  BY <1>2 DEF Pick
<1>4. \A W \in SUBSET S : IsFiniteSet(W) /\ Total(W) \in Int
  BY FS_Subset, SumInt
<1>5. Total(V) = w[p] + Total(V \ {p})
  BY <1>1, <1>2, <1>4, SumStep
<1>6. p # d
  BY <1>2, <1>5
<1>7. \A q \in V : V \ {q} \in SUBSET S /\ V \ {q} \notin B
  BY <1>1
<1>8. \A q \in V : \A c \in V \ {q} :
        Total(V \ {q}) = w[c] + Total((V \ {q}) \ {c})
  BY <1>7
<1> DEFINE r == (V \ {p}) \ {d}
<1>9. r = (V \ {d}) \ {p}
  OBVIOUS
<1>10. Total(V \ {p}) = w[d] + Total(r)
  BY <1>2, <1>3, <1>6, <1>8
<1>11. Total(V \ {d}) = w[p] + Total(r)
  BY <1>2, <1>3, <1>6, <1>8, <1>9
<1>12. w[p] \in Int /\ w[d] \in Int /\ Total(r) \in Int
  BY <1>1, <1>2, <1>3, <1>4
<1> HIDE DEF Total, p, r
<1>13. Total(V) = w[d] + Total(V \ {d})
  BY <1>5, <1>10, <1>11, <1>12
<1> QED BY <1>2, <1>13

\* The sum over what is left when a subset is taken away.
LEMMA SumDifference ==
  ASSUME NEW w, NEW S, IsFiniteSet(S), \A x \in S : w[x] \in Int, NEW R \in SUBSET S
  PROVE  SumFunctionOnSet(w, S \ R) = SumFunctionOnSet(w, S) - SumFunctionOnSet(w, R)
<1> DEFINE Total(V) == SumFunctionOnSet(w, V)
           B == {V \in SUBSET S : Total(S \ V) # Total(S) - Total(V)}
<1> SUFFICES ASSUME B # {} PROVE FALSE
  OBVIOUS
<1>1. PICK V \in B : \A W \in B : W \subseteq V => W = V
  <2>1. B \subseteq SUBSET S
    OBVIOUS
  <2> HIDE DEF B
  <2> QED BY <2>1, MinimalSubset
<1>2. \A W \in SUBSET S : IsFiniteSet(W) /\ Total(W) \in Int
  BY FS_Subset, SumInt
<1>3. Total({}) = 0
  BY SumStep, FS_EmptySet
<1>4. CASE V = {}
  <2>1. S \ V = S
    BY <1>4
  <2> QED BY <1>1, <1>2, <1>3, <1>4, <2>1
<1>5. CASE V # {}
  <2>1. PICK e \in V : TRUE
    BY <1>5
  <2> DEFINE W == V \ {e}
  <2>2. W \in SUBSET S /\ W \notin B /\ V \in SUBSET S /\ e \in S \ W
    BY <1>1, <2>1
  <2>3. Total(S \ W) = Total(S) - Total(W)
    BY <2>2
  <2>4. Total(V) = w[e] + Total(W)
    <3>1. IsFiniteSet(V) /\ \A x \in V : w[x] \in Int
      BY <1>2, <2>2
    <3> QED BY <2>1, <3>1, SumRemove
  <2>5. Total(S \ W) = w[e] + Total(S \ V)
    <3>1. (S \ W) \ {e} = S \ V
      BY <2>1
    <3>2. IsFiniteSet(S \ W) /\ \A x \in S \ W : w[x] \in Int
      BY <1>2
    <3> QED BY <2>2, <3>1, <3>2, SumRemove
  <2>6. w[e] \in Int /\ Total(S) \in Int /\ Total(V) \in Int /\ Total(W) \in Int
        /\ Total(S \ V) \in Int
    BY <1>2, <2>2
  <2> HIDE DEF Total, W
  <2>7. Total(S \ V) = Total(S) - Total(V)
    BY <2>3, <2>4, <2>5, <2>6
  <2> QED BY <1>1, <2>7
<1> QED BY <1>4, <1>5

-----------------------------------------------------------------------------
(* Pairs, counted once or from both ends.                                  *)

\* A set of pairs, each with its smaller end first, has as many members as
\* there are sets of two ends.
LEMMA AscendingPairs ==
  ASSUME NEW U, IsFiniteSet(U), U \subseteq Int \X Int, \A p \in U : p[1] < p[2]
  PROVE  Cardinality({{p[1], p[2]} : p \in U}) = Cardinality(U)
<1> DEFINE Ends(p) == {p[1], p[2]}
           E == {Ends(p) : p \in U}
           h == [p \in U |-> Ends(p)]
<1>1. \A p \in U : p = <<p[1], p[2]>> /\ p[1] \in Int /\ p[2] \in Int
  <2> TAKE p \in U
  <2> QED OBVIOUS
<1>2. ASSUME NEW p \in U, NEW q \in U, Ends(p) = Ends(q) PROVE p = q
  <2>1. /\ p[1] = q[1] \/ p[1] = q[2]
        /\ p[2] = q[1] \/ p[2] = q[2]
        /\ q[1] = p[1] \/ q[1] = p[2]
    BY <1>2
  <2>2. p[1] = q[1] /\ p[2] = q[2]
    BY <1>1, <2>1
  <2> QED BY <1>1, <2>2
<1>3. h \in Bijection(U, E)
  <2> HIDE DEF Ends
  <2>1. h \in [U -> E] /\ IsInjective(h) /\ \A e \in E : \E p \in U : h[p] = e
    BY <1>2 DEF IsInjective
  <2> QED BY <2>1 DEF Bijection, Injection, Surjection
<1>4. ExistsBijection(U, E)
  BY <1>3 DEF ExistsBijection
<1> QED BY <1>4, FS_Bijection

\* The arcs that leave the nodes of T.
Arcs(G, T) == {a \in T \X UNION {G[i] : i \in T} : a[2] \in G[a[1]]}

\* The sizes of the lists add up to the number of arcs.
LEMMA SumOfSizes ==
  ASSUME NEW S, IsFiniteSet(S), NEW G, \A i \in S : IsFiniteSet(G[i])
  PROVE  /\ IsFiniteSet(Arcs(G, S))
         /\ SumFunctionOnSet([i \in S |-> Cardinality(G[i])], S) = Cardinality(Arcs(G, S))
<1> DEFINE w == [i \in S |-> Cardinality(G[i])]
           Total(T) == SumFunctionOnSet(w, T)
           Counted(T) == IsFiniteSet(Arcs(G, T)) /\ Total(T) = Cardinality(Arcs(G, T))
           B == {T \in SUBSET S : ~ Counted(T)}
<1> SUFFICES ASSUME B # {} PROVE FALSE
  OBVIOUS
<1>1. PICK V \in B : \A W \in B : W \subseteq V => W = V
  <2>1. B \subseteq SUBSET S
    OBVIOUS
  <2> HIDE DEF B
  <2> QED BY <2>1, MinimalSubset
<1>2. IsFiniteSet(V) /\ V \in SUBSET S /\ ~ Counted(V)
  BY <1>1, FS_Subset
<1>3. \A i \in S : w[i] = Cardinality(G[i]) /\ w[i] \in Nat
  BY FS_CardinalityType
<1>4. CASE V = {}
  <2>1. Arcs(G, V) = {} /\ Total(V) = 0
    BY <1>2, <1>4, SumStep DEF Arcs
  <2> QED BY <1>2, <2>1, FS_EmptySet
<1>5. CASE V # {}
  <2>1. PICK e \in V : TRUE
    BY <1>5
  <2> DEFINE W == V \ {e}
             A == {e} \X G[e]
  <2>2. W \in SUBSET S /\ W \notin B
    BY <1>1, <2>1
  <2>3. IsFiniteSet(Arcs(G, W)) /\ Total(W) = Cardinality(Arcs(G, W))
    BY <2>2
  <2>4. Total(V) = w[e] + Total(W)
    <3>1. \A x \in V : w[x] \in Int
      BY <1>2, <1>3
    <3> HIDE DEF w
    <3> QED BY <1>2, <2>1, <3>1, SumRemove
  <2>5. IsFiniteSet(A) /\ Cardinality(A) = w[e]
    <3>1. IsFiniteSet({e}) /\ Cardinality({e}) = 1 /\ IsFiniteSet(G[e])
      BY <1>2, <2>1, FS_Singleton
    <3>2. IsFiniteSet(A) /\ Cardinality(A) = Cardinality({e}) * Cardinality(G[e])
      BY <3>1, FS_Product
    <3> QED BY <1>2, <1>3, <2>1, <3>1, <3>2
  <2>6. Arcs(G, V) = Arcs(G, W) \cup A
    BY <2>1 DEF Arcs
  <2>7. Arcs(G, W) \cap A = {}
    BY DEF Arcs
  <2>8. /\ IsFiniteSet(Arcs(G, V))
        /\ Cardinality(Arcs(G, V)) = Cardinality(Arcs(G, W)) + Cardinality(A)
    <3> HIDE DEF A, W
    <3>1. /\ IsFiniteSet(Arcs(G, W) \cup A)
          /\ Cardinality(Arcs(G, W) \cup A)
               = Cardinality(Arcs(G, W)) + Cardinality(A) - Cardinality(Arcs(G, W) \cap A)
      BY <2>3, <2>5, FS_Union
    <3>2. Cardinality(Arcs(G, W)) \in Nat /\ Cardinality(A) \in Nat
      BY <2>3, <2>5, FS_CardinalityType
    <3>3. Cardinality(Arcs(G, W) \cap A) = 0
      BY <2>7, FS_EmptySet
    <3>4. Cardinality(Arcs(G, W) \cup A) = Cardinality(Arcs(G, W)) + Cardinality(A)
      BY <3>1, <3>2, <3>3
    <3> QED BY <2>6, <3>1, <3>4
  <2> QED
    <3>1. Cardinality(Arcs(G, W)) \in Nat /\ w[e] \in Nat
      BY <1>2, <1>3, <2>1, <2>3, FS_CardinalityType
    <3> HIDE DEF w, W, A, Total
    <3> QED BY <1>2, <2>3, <2>4, <2>5, <2>8, <3>1
<1> QED BY <1>4, <1>5

\* In a symmetric graph without loops the sizes of the lists add up to twice
\* the number of its pairs.
LEMMA SizesCountPairsTwice ==
  ASSUME NEW S \in SUBSET Int, IsFiniteSet(S), NEW G \in [S -> SUBSET S],
         \A i, j \in S : j \in G[i] <=> i \in G[j],
         \A i \in S : i \notin G[i]
  PROVE  LET pairs == {{a[1], a[2]} : a \in Arcs(G, S)}
         IN  /\ Cardinality(pairs) \in Nat
             /\ SumFunctionOnSet([i \in S |-> Cardinality(G[i])], S) = 2 * Cardinality(pairs)
<1> DEFINE A == Arcs(G, S)
           Up == {a \in A : a[1] < a[2]}
           Down == {a \in A : a[2] < a[1]}
           h == [a \in Up |-> <<a[2], a[1]>>]
<1>1. \A i \in S : IsFiniteSet(G[i])
  BY FS_Subset
<1>2. IsFiniteSet(A) /\ SumFunctionOnSet([i \in S |-> Cardinality(G[i])], S) = Cardinality(A)
  BY <1>1, SumOfSizes
<1>3. A = {a \in S \X S : a[2] \in G[a[1]]}
  <2>1. UNION {G[i] : i \in S} \subseteq S
    OBVIOUS
  <2>2. \A i \in S : G[i] \subseteq UNION {G[k] : k \in S}
    OBVIOUS
  <2>3. A \subseteq {a \in S \X S : a[2] \in G[a[1]]}
    BY <2>1 DEF Arcs
  <2>4. ASSUME NEW a \in S \X S, a[2] \in G[a[1]] PROVE a \in A
    <3>1. a = <<a[1], a[2]>> /\ a[1] \in S
      OBVIOUS
    <3>2. a[2] \in UNION {G[k] : k \in S}
      BY <2>2, <2>4, <3>1, Zenon
    <3> QED BY <2>4, <3>1, <3>2 DEF Arcs
  <2> QED BY <2>3, <2>4
<1>4. \A a \in A : /\ a = <<a[1], a[2]>> /\ a[1] \in S /\ a[2] \in S
                   /\ a[1] < a[2] \/ a[2] < a[1]
                   /\ a[1] \in Int /\ a[2] \in Int
                   /\ <<a[2], a[1]>> \in A
  <2> TAKE a \in A
  <2>1. a = <<a[1], a[2]>> /\ a[1] \in S /\ a[2] \in S /\ a[2] \in G[a[1]]
    BY <1>3
  <2>2. a[1] \in Int /\ a[2] \in Int /\ a[1] # a[2]
    BY <2>1
  <2>3. a[1] < a[2] \/ a[2] < a[1]
    BY <2>2
  <2>4. <<a[2], a[1]>> \in S \X S /\ a[1] \in G[a[2]]
    BY <2>1
  <2>5. <<a[2], a[1]>> \in A
    BY <1>3, <2>4
  <2> QED BY <2>1, <2>2, <2>3, <2>5
<1> HIDE DEF A
<1>5. Up \cup Down = A /\ Up \cap Down = {}
  <2>1. \A a \in A : a \in Up \/ a \in Down
    BY <1>4
  <2>2. \A x, y \in Int : ~ (x < y /\ y < x)
    OBVIOUS
  <2>3. \A a \in A : ~ (a[1] < a[2] /\ a[2] < a[1])
    BY <1>4, <2>2, Zenon
  <2>4. Up \cap Down = {}
    BY <2>3
  <2> QED BY <2>1, <2>4
<1>6. IsFiniteSet(Up) /\ IsFiniteSet(Down)
  BY <1>2, FS_Subset
<1>7. Cardinality(Down) = Cardinality(Up)
  <2>1. h \in [Up -> Down]
    BY <1>4
  <2>2. IsInjective(h)
    BY <1>4 DEF IsInjective
  <2>3. \A d \in Down : \E u \in Up : h[u] = d
    <3> TAKE d \in Down
    <3>1. <<d[2], d[1]>> \in Up /\ h[<<d[2], d[1]>>] = d
      BY <1>4
    <3> QED BY <3>1
  <2>4. h \in Bijection(Up, Down)
    BY <2>1, <2>2, <2>3 DEF Bijection, Injection, Surjection
  <2>5. ExistsBijection(Up, Down)
    BY <2>4 DEF ExistsBijection
  <2> QED BY <1>6, <2>5, FS_Bijection
<1>8. Cardinality(A) = 2 * Cardinality(Up) /\ Cardinality(Up) \in Nat
  <2>1. Cardinality(Up \cup Down)
          = Cardinality(Up) + Cardinality(Down) - Cardinality(Up \cap Down)
    BY <1>6, FS_Union
  <2>2. Cardinality(Up) \in Nat
    BY <1>6, FS_CardinalityType
  <2>3. Cardinality(Up \cap Down) = 0
    BY <1>5, FS_EmptySet
  <2>4. Cardinality(Up \cup Down) = 2 * Cardinality(Up)
    BY <1>7, <2>1, <2>2, <2>3
  <2> QED BY <1>5, <2>2, <2>4
<1>9. {{a[1], a[2]} : a \in A} = {{a[1], a[2]} : a \in Up}
  <2>1. \A a \in A : \E u \in Up : {u[1], u[2]} = {a[1], a[2]}
    <3> TAKE a \in A
    <3>1. CASE a[1] < a[2]
      BY <3>1
    <3>2. CASE a[2] < a[1]
      <4>1. <<a[2], a[1]>> \in Up
        BY <1>4, <3>2
      <4>2. {<<a[2], a[1]>>[1], <<a[2], a[1]>>[2]} = {a[1], a[2]}
        OBVIOUS
      <4> QED BY <4>1, <4>2
    <3> QED BY <1>4, <3>1, <3>2
  <2> QED BY <2>1
<1>10. Cardinality({{a[1], a[2]} : a \in Up}) = Cardinality(Up)
  <2>1. Up \subseteq Int \X Int /\ \A a \in Up : a[1] < a[2]
    BY <1>3 DEF A
  <2> HIDE DEF Up
  <2> QED BY <1>6, <2>1, AscendingPairs
<1> QED BY <1>2, <1>8, <1>9, <1>10 DEF A

-----------------------------------------------------------------------------
(* The items, their totals and their conflicts.                            *)

\* Every set of items is finite.
LEMMA ItemsFinite ==
  ASSUME NEW S \in SUBSET Items
  PROVE  IsFiniteSet(S)
<1>1. IsFiniteSet(Items)
  BY FS_Interval, NAssumption DEF Items
<1> QED BY <1>1, FS_Subset

\* The totals of a selection are integers, and those of the empty one are zero
\* (Solution's constructor).
LEMMA TotalsType ==
  /\ \A S \in SUBSET Items : TotalProfit(S) \in Int /\ TotalWeight(S) \in Int
  /\ TotalProfit({}) = 0 /\ TotalWeight({}) = 0
<1>1. ASSUME NEW S \in SUBSET Items
      PROVE  TotalProfit(S) \in Int /\ TotalWeight(S) \in Int
  <2>1. \A x \in S : Profit[x] \in Int /\ Weight[x] \in Int
    BY ProfitAssumption, WeightAssumption
  <2> QED BY <2>1, ItemsFinite, SumInt DEF TotalProfit, TotalWeight
<1>2. TotalProfit({}) = 0 /\ TotalWeight({}) = 0
  BY SumStep, FS_EmptySet DEF TotalProfit, TotalWeight
<1> QED BY <1>1, <1>2

\* The totals of a selection and of the selection without one of its items
\* (Solution::removeItem).
LEMMA TotalsRemove ==
  ASSUME NEW S \in SUBSET Items, NEW i \in S
  PROVE  /\ TotalProfit(S \ {i}) = TotalProfit(S) - Profit[i]
         /\ TotalWeight(S \ {i}) = TotalWeight(S) - Weight[i]
<1>1. \A x \in S : Profit[x] \in Int /\ Weight[x] \in Int
  BY ProfitAssumption, WeightAssumption
<1>2. /\ TotalProfit(S) = Profit[i] + TotalProfit(S \ {i})
      /\ TotalWeight(S) = Weight[i] + TotalWeight(S \ {i})
  BY <1>1, ItemsFinite, SumRemove DEF TotalProfit, TotalWeight
<1>3. /\ TotalProfit(S) \in Int /\ TotalProfit(S \ {i}) \in Int
      /\ TotalWeight(S) \in Int /\ TotalWeight(S \ {i}) \in Int
  BY TotalsType
<1> QED BY <1>1, <1>2, <1>3

\* A set of two items, the smaller one first.
LEMMA TwoItems ==
  ASSUME NEW X \in SUBSET Items, Cardinality(X) = 2
  PROVE  \E i, j \in X : i < j /\ X = {i, j}
<1>1. IsFiniteSet(X)
  BY ItemsFinite
<1>2. PICK i \in X : TRUE
  BY FS_EmptySet
<1>3. Cardinality(X \ {i}) = 1 /\ IsFiniteSet(X \ {i})
  BY <1>1, FS_RemoveElement
<1>4. PICK j : X \ {i} = {j}
  BY <1>3, FS_Singleton
<1>5. X = {i, j} /\ i # j
  BY <1>4
<1>6. i < j \/ j < i
  BY <1>5, NAssumption DEF Items
<1> QED BY <1>5, <1>6

\* A set of one item.
LEMMA OneItem ==
  ASSUME NEW X \in SUBSET Items, Cardinality(X) = 1
  PROVE  \E i \in X : X = {i}
BY ItemsFinite, FS_Singleton

\* The totals of a selection and of the selection with one more item
\* (Solution::addItem).
LEMMA TotalsAdd ==
  ASSUME NEW S \in SUBSET Items, NEW i \in Items \ S
  PROVE  /\ TotalProfit(S \cup {i}) = TotalProfit(S) + Profit[i]
         /\ TotalWeight(S \cup {i}) = TotalWeight(S) + Weight[i]
<1> DEFINE T == S \cup {i}
<1>1. T \in SUBSET Items /\ i \in T /\ T \ {i} = S
  OBVIOUS
<1>2. /\ TotalProfit(S) = TotalProfit(T) - Profit[i]
      /\ TotalWeight(S) = TotalWeight(T) - Weight[i]
  BY <1>1, TotalsRemove
<1>3. /\ TotalProfit(T) \in Int /\ Profit[i] \in Int
      /\ TotalWeight(T) \in Int /\ Weight[i] \in Int
  BY <1>1, TotalsType, ProfitAssumption, WeightAssumption
<1> QED BY <1>2, <1>3

\* The binary search in the shorter of two adjacency lists answers whether
\* the items are neighbours (DCKPInstance::has_conflict).
LEMMA HasConflictIsAdjacency ==
  ASSUME NEW i \in Items, NEW j \in Items
  PROVE  HasConflict(i, j) <=> j \in Graph[i]
BY GraphAssumption DEF HasConflict

\* The empty selection is feasible.
LEMMA EmptyFeasible == Feasible({})
BY TotalsType, CapacityAssumption DEF Feasible, ConflictFree

\* A feasible selection stays feasible when an item leaves it.
LEMMA FeasibleRemove ==
  ASSUME NEW S, Feasible(S), NEW i \in S
  PROVE  Feasible(S \ {i})
<1>1. S \in SUBSET Items
  BY DEF Feasible
<1>2. TotalWeight(S \ {i}) = TotalWeight(S) - Weight[i]
  BY <1>1, TotalsRemove
<1>3. TotalWeight(S \ {i}) <= Capacity
  BY <1>1, <1>2, TotalsType, WeightAssumption, CapacityAssumption DEF Feasible
<1>4. ConflictFree(S \ {i})
  BY DEF Feasible, ConflictFree
<1> QED BY <1>1, <1>3, <1>4 DEF Feasible

\* A selection without conflicts stays so when an item enters that has no
\* neighbour in it.
LEMMA ConflictFreeAdd ==
  ASSUME NEW S \in SUBSET Items, ConflictFree(S),
         NEW u \in Items, Graph[u] \cap S = {}
  PROVE  ConflictFree(S \cup {u})
<1> SUFFICES ASSUME NEW i \in S \cup {u}, NEW j \in Graph[i] \cap (S \cup {u})
             PROVE  FALSE
  BY DEF ConflictFree
<1>1. CASE i = u
  BY <1>1, GraphAssumption
<1>2. CASE i \in S /\ j = u
  BY <1>2, GraphAssumption
<1>3. CASE i \in S /\ j \in S
  BY <1>3 DEF ConflictFree
<1> QED BY <1>1, <1>2, <1>3

-----------------------------------------------------------------------------
(* Solutions with exact totals.                                            *)

\* The totals of addItem and removeItem.
LEMMA SolutionAdd ==
  ASSUME NEW S \in SUBSET Items, NEW i \in Items \ S
  PROVE  AddItem(SolutionOf(S), i) = SolutionOf(S \cup {i})
BY TotalsAdd DEF AddItem, SolutionOf

\* Removal undoes what the addition did to both totals.
LEMMA SolutionRemove ==
  ASSUME NEW S \in SUBSET Items, NEW i \in S
  PROVE  RemoveItem(SolutionOf(S), i) = SolutionOf(S \ {i})
BY TotalsRemove DEF RemoveItem, SolutionOf

-----------------------------------------------------------------------------
(* The order of solutions.                                                 *)

\* A nonempty set of items has a smallest one.
LEMMA SmallestItem ==
  ASSUME NEW X \in SUBSET Items, X # {}
  PROVE  \E d \in X : \A x \in X : d <= x
<1> DEFINE B == {0 .. x : x \in X}
<1>1. B \subseteq SUBSET Items
  BY NAssumption DEF Items
<1>0. B # {} /\ IsFiniteSet(Items)
  BY ItemsFinite, Items \in SUBSET Items
<1> HIDE DEF B
<1>2. PICK U \in B : \A V \in B : V \subseteq U => V = U
  BY <1>0, <1>1, MinimalSubset
<1>3. PICK d \in X : U = 0 .. d
  BY <1>2 DEF B
<1>4. \A x \in X : x < d => 0 .. x \in B /\ 0 .. x \subseteq U /\ d \notin 0 .. x /\ d \in U
  BY <1>3, NAssumption DEF B, Items
<1>5. \A x \in X : ~ (x < d)
  BY <1>2, <1>4
<1> QED BY <1>5, NAssumption DEF Items

\* d is the smallest item that only one of the two selections holds.
Decides(d, S, T) ==
  /\ d \in Items
  /\ d \in S <=> d \notin T
  /\ \A x \in Items : x < d => (x \in S <=> x \in T)

\* Selections that differ have such an item.
LEMMA Differ ==
  ASSUME NEW S \in SUBSET Items, NEW T \in SUBSET Items, S # T
  PROVE  \E d : Decides(d, S, T)
<1> DEFINE X == (S \ T) \cup (T \ S)
<1>1. PICK d \in X : \A x \in X : d <= x
  BY SmallestItem, X \in SUBSET Items, X # {}
<1> QED BY <1>1, NAssumption DEF Decides, Items

\* It decides the comparison of the sorted ids.
LEMMA PrecedesAt ==
  ASSUME NEW S \in SUBSET Items, NEW T \in SUBSET Items, NEW d, Decides(d, S, T)
  PROVE  Precedes(S, T) <=> \/ d \in S /\ \E j \in T : d < j
                            \/ d \in T /\ \A j \in S : j < d
<1> USE NAssumption DEF Items
<1> DEFINE differ == (S \ T) \cup (T \ S)
<1>1. d \in differ /\ \A j \in differ : d <= j
  BY DEF Decides
<1>2. \A i \in differ : (\A j \in differ : i <= j) => i = d
  BY <1>1
<1>3. Precedes(S, T) <=> IF d \in S THEN \E j \in T : d < j ELSE \A j \in S : j < d
  BY <1>1, <1>2 DEF Precedes
<1> QED BY <1>1, <1>3

\* The comparison of the ids is irreflexive, asymmetric and total.
LEMMA PrecedesTotal ==
  ASSUME NEW S \in SUBSET Items, NEW T \in SUBSET Items
  PROVE  /\ ~ Precedes(S, S)
         /\ ~ (Precedes(S, T) /\ Precedes(T, S))
         /\ S # T => Precedes(S, T) \/ Precedes(T, S)
<1>1. ~ Precedes(S, S)
  BY DEF Precedes
<1>2. ASSUME S # T
      PROVE  /\ ~ (Precedes(S, T) /\ Precedes(T, S))
             /\ Precedes(S, T) \/ Precedes(T, S)
  <2>1. PICK d : Decides(d, S, T)
    BY <1>2, Differ
  <2>2. Decides(d, T, S)
    BY <2>1 DEF Decides
  <2>3. /\ Precedes(S, T) <=> \/ d \in S /\ \E j \in T : d < j
                              \/ d \in T /\ \A j \in S : j < d
        /\ Precedes(T, S) <=> \/ d \in T /\ \E j \in S : d < j
                              \/ d \in S /\ \A j \in T : j < d
    BY <2>1, <2>2, PrecedesAt
  <2>4. \A j \in S \cup T : j \in Int /\ d \in Int
    BY <2>1, NAssumption DEF Decides, Items
  <2> QED BY <2>1, <2>3, <2>4 DEF Decides
<1> QED BY <1>1, <1>2

\* It is transitive.
LEMMA PrecedesTransitive ==
  ASSUME NEW S \in SUBSET Items, NEW T \in SUBSET Items, NEW U \in SUBSET Items,
         Precedes(S, T), Precedes(T, U)
  PROVE  Precedes(S, U)
<1>1. S # T /\ T # U
  BY PrecedesTotal
<1>2. PICK d : Decides(d, S, T)
  BY <1>1, Differ
<1>3. PICK e : Decides(e, T, U)
  BY <1>1, Differ
<1>4. /\ \/ d \in S /\ \E j \in T : d < j
         \/ d \in T /\ \A j \in S : j < d
      /\ \/ e \in T /\ \E j \in U : e < j
         \/ e \in U /\ \A j \in T : j < e
  BY <1>2, <1>3, PrecedesAt
<1>5. d \in Int /\ e \in Int /\ \A j \in Items : j \in Int
  BY <1>2, <1>3, NAssumption DEF Decides, Items
<1>6. CASE d < e
  <2>1. Decides(d, S, U)
    BY <1>2, <1>3, <1>5, <1>6 DEF Decides
  <2>2. \E j \in U : d < j
    BY <1>3, <1>4, <1>5, <1>6 DEF Decides
  <2>3. d \in T => d \in U
    BY <1>2, <1>3, <1>6 DEF Decides
  <2> QED BY <1>4, <2>1, <2>2, <2>3, PrecedesAt
<1>7. CASE e < d
  <2>1. Decides(e, S, U)
    BY <1>2, <1>3, <1>5, <1>7 DEF Decides
  <2>2. ~ \A j \in T : j < e
    BY <1>2, <1>4, <1>5, <1>7 DEF Decides
  <2>3. e \in S /\ \E j \in U : e < j
    BY <1>2, <1>3, <1>4, <1>7, <2>2 DEF Decides
  <2> QED BY <2>1, <2>3, PrecedesAt
<1>8. CASE d = e
  <2>1. /\ d \in T /\ \A j \in S : j < d
        /\ \E j \in U : d < j
    BY <1>2, <1>3, <1>4, <1>5, <1>8 DEF Decides
  <2>2. S \ U = {} /\ \A x \in Items : x < d => (x \in S <=> x \in U)
    BY <1>2, <1>3, <1>8, <2>1 DEF Decides
  <2>3. S # U
    BY <1>5, <2>1
  <2>4. PICK g : Decides(g, S, U)
    BY <2>3, Differ
  <2>5. g \in U /\ g \in Items /\ ~ (g < d)
    BY <2>2, <2>4 DEF Decides
  <2>6. \A j \in S : j < g
    <3> TAKE j \in S
    <3>1. j < d /\ j \in Int /\ d \in Int /\ g \in Int
      BY <1>5, <2>1, <2>5
    <3> QED BY <2>5, <3>1
  <2> QED BY <2>4, <2>5, <2>6, PrecedesAt
<1> QED BY <1>5, <1>6, <1>7, <1>8

\* On solutions whose totals are those of their items, <=> and == describe one
\* strict total order (solution.h).
THEOREM LessOrdersSolutions ==
  /\ \A S, T \in SUBSET Items :
       LET x == SolutionOf(S)
           y == SolutionOf(T)
       IN  /\ Equal(x, y) <=> ~ Less(x, y) /\ ~ Less(y, x)
           /\ ~ (Less(x, y) /\ Less(y, x))
  /\ \A S, T, U \in SUBSET Items :
       Less(SolutionOf(S), SolutionOf(T)) /\ Less(SolutionOf(T), SolutionOf(U))
         => Less(SolutionOf(S), SolutionOf(U))
<1>1. \A S \in SUBSET Items :
        /\ SolutionOf(S).items = S
        /\ SolutionOf(S).profit \in Int /\ SolutionOf(S).weight \in Int
  BY TotalsType DEF SolutionOf
<1>2. ASSUME NEW S \in SUBSET Items, NEW T \in SUBSET Items
      PROVE  LET x == SolutionOf(S)
                 y == SolutionOf(T)
             IN  /\ Equal(x, y) <=> ~ Less(x, y) /\ ~ Less(y, x)
                 /\ ~ (Less(x, y) /\ Less(y, x))
  <2>1. /\ S = T => ~ Precedes(S, T) /\ ~ Precedes(T, S)
        /\ ~ (Precedes(S, T) /\ Precedes(T, S))
        /\ S # T => Precedes(S, T) \/ Precedes(T, S)
    BY PrecedesTotal
  <2> QED BY <1>1, <2>1 DEF Equal, Less
<1>3. ASSUME NEW S \in SUBSET Items, NEW T \in SUBSET Items, NEW U \in SUBSET Items,
             Less(SolutionOf(S), SolutionOf(T)), Less(SolutionOf(T), SolutionOf(U))
      PROVE  Less(SolutionOf(S), SolutionOf(U))
  BY <1>1, <1>3, PrecedesTransitive DEF Less
<1> QED BY <1>2, <1>3

-----------------------------------------------------------------------------
(* The exact state of a selection and its incremental updates.             *)

\* The exact state of a selection.
StateOf(S) == NewState(SolutionOf(S))

\* Its fields.
LEMMA StateOfFields ==
  ASSUME NEW S \in SUBSET Items
  PROVE  /\ StateOf(S).solution = SolutionOf(S)
         /\ StateOf(S).solution.items = S
         /\ StateOf(S).solution.profit = TotalProfit(S)
         /\ StateOf(S).solution.weight = TotalWeight(S)
         /\ \A u \in Items : StateOf(S).in_solution[u] = (u \in S)
         /\ \A u \in Items : StateOf(S).conflict_count[u] = Cardinality(Graph[u] \cap S)
BY DEF StateOf, NewState, SolutionOf

\* The type of the state.
LEMMA StateOfType ==
  ASSUME NEW S \in SUBSET Items
  PROVE  StateOf(S) \in StateType
<1>1. SolutionOf(S) \in SolutionType
  BY TotalsType DEF SolutionOf, SolutionType
<1>2. \A u \in Items : Cardinality(Graph[u] \cap S) \in Int
  <2> TAKE u \in Items
  <2>1. IsFiniteSet(Graph[u] \cap S)
    BY ItemsFinite, GraphAssumption
  <2> QED BY <2>1, FS_CardinalityType
<1>3. [u \in Items |-> u \in S] \in [Items -> BOOLEAN]
  OBVIOUS
<1> QED BY <1>1, <1>2, <1>3 DEF StateOf, NewState, SolutionOf, StateType

\* The number of selected neighbours of u after i has entered or left.
LEMMA CountAdd ==
  ASSUME NEW S \in SUBSET Items, NEW i \in Items \ S, NEW u \in Items
  PROVE  Cardinality(Graph[u] \cap (S \cup {i})) =
           IF u \in Graph[i] THEN Cardinality(Graph[u] \cap S) + 1
                             ELSE Cardinality(Graph[u] \cap S)
<1>1. IsFiniteSet(Graph[u] \cap S)
  BY ItemsFinite, GraphAssumption
<1>2. CASE u \in Graph[i]
  <2>1. Graph[u] \cap (S \cup {i}) = (Graph[u] \cap S) \cup {i}
    BY <1>2, GraphAssumption
  <2> QED BY <1>1, <1>2, <2>1, FS_AddElement
<1>3. CASE u \notin Graph[i]
  <2>1. Graph[u] \cap (S \cup {i}) = Graph[u] \cap S
    BY <1>3, GraphAssumption
  <2> QED BY <1>3, <2>1
<1> QED BY <1>2, <1>3

\* A departing neighbour of u is no longer counted.
LEMMA CountRemove ==
  ASSUME NEW S \in SUBSET Items, NEW i \in S, NEW u \in Items
  PROVE  Cardinality(Graph[u] \cap (S \ {i})) =
           IF u \in Graph[i] THEN Cardinality(Graph[u] \cap S) + (-1)
                             ELSE Cardinality(Graph[u] \cap S)
<1>1. IsFiniteSet(Graph[u] \cap S)
  BY ItemsFinite, GraphAssumption
<1>2. CASE u \in Graph[i]
  <2>1. Graph[u] \cap (S \ {i}) = (Graph[u] \cap S) \ {i} /\ i \in Graph[u] \cap S
    BY <1>2, GraphAssumption
  <2>2. Cardinality(Graph[u] \cap S) \in Nat
    BY <1>1, FS_CardinalityType
  <2> QED BY <1>1, <1>2, <2>1, <2>2, FS_RemoveElement
<1>3. CASE u \notin Graph[i]
  <2>1. Graph[u] \cap (S \ {i}) = Graph[u] \cap S
    BY <1>3, GraphAssumption
  <2> QED BY <1>3, <2>1
<1> QED BY <1>2, <1>3

\* The flags after one of them has been set or cleared.
LEMMA FlagsExcept ==
  ASSUME NEW S \in SUBSET Items, NEW T \in SUBSET Items, NEW i \in Items,
         NEW b \in BOOLEAN, b <=> i \in T, \A u \in Items \ {i} : u \in S <=> u \in T
  PROVE  [StateOf(S).in_solution EXCEPT ![i] = b] = [u \in Items |-> u \in T]
<1> DEFINE f == [u \in Items |-> u \in S]
           g == [f EXCEPT ![i] = b]
           h == [u \in Items |-> u \in T]
<1>1. StateOf(S).in_solution = f
  BY DEF StateOf, NewState, SolutionOf
<1>2. \A u \in Items : g[u] = h[u]
  OBVIOUS
<1>3. g = [u \in Items |-> g[u]] /\ h = [u \in Items |-> h[u]]
  OBVIOUS
<1> HIDE DEF g, h
<1>4. g = h
  BY <1>2, <1>3
<1> QED BY <1>1, <1>4 DEF g, h

\* applyAdd is exact for an item that is not selected.
THEOREM ApplyAddExact ==
  ASSUME NEW S \in SUBSET Items, NEW i \in Items \ S
  PROVE  ApplyAdd(StateOf(S), i) = StateOf(S \cup {i})
<1>1. AddItem(StateOf(S).solution, i) = SolutionOf(S \cup {i})
  BY StateOfFields, SolutionAdd
<1>2. [StateOf(S).in_solution EXCEPT ![i] = TRUE] = [u \in Items |-> u \in S \cup {i}]
  BY FlagsExcept, S \cup {i} \in SUBSET Items
<1>3. Bump(StateOf(S).conflict_count, i, 1)
        = [u \in Items |-> Cardinality(Graph[u] \cap (S \cup {i}))]
  <2> DEFINE count(u) == Cardinality(Graph[u] \cap S)
             new(u)   == Cardinality(Graph[u] \cap (S \cup {i}))
  <2>1. \A u \in Items : new(u) = IF u \in Graph[i] THEN count(u) + 1 ELSE count(u)
    BY CountAdd
  <2>2. Bump(StateOf(S).conflict_count, i, 1)
          = [u \in Items |-> IF u \in Graph[i] THEN count(u) + 1 ELSE count(u)]
    BY StateOfFields DEF Bump
  <2> HIDE DEF count, new
  <2>3. Bump(StateOf(S).conflict_count, i, 1) = [u \in Items |-> new(u)]
    BY <2>1, <2>2
  <2> QED BY <2>3 DEF new
<1> QED BY <1>1, <1>2, <1>3 DEF ApplyAdd, StateOf, NewState, SolutionOf

\* applyRemove is exact for a selected item.
THEOREM ApplyRemoveExact ==
  ASSUME NEW S \in SUBSET Items, NEW i \in S
  PROVE  ApplyRemove(StateOf(S), i) = StateOf(S \ {i})
<1>1. RemoveItem(StateOf(S).solution, i) = SolutionOf(S \ {i})
  BY StateOfFields, SolutionRemove
<1>2. [StateOf(S).in_solution EXCEPT ![i] = FALSE] = [u \in Items |-> u \in S \ {i}]
  BY FlagsExcept, S \ {i} \in SUBSET Items
<1>3. Bump(StateOf(S).conflict_count, i, -1)
        = [u \in Items |-> Cardinality(Graph[u] \cap (S \ {i}))]
  <2> DEFINE count(u) == Cardinality(Graph[u] \cap S)
             new(u)   == Cardinality(Graph[u] \cap (S \ {i}))
  <2>1. \A u \in Items : new(u) = IF u \in Graph[i] THEN count(u) + (-1) ELSE count(u)
    BY CountRemove
  <2>2. Bump(StateOf(S).conflict_count, i, -1)
          = [u \in Items |-> IF u \in Graph[i] THEN count(u) + (-1) ELSE count(u)]
    BY StateOfFields DEF Bump
  <2> HIDE DEF count, new
  <2>3. Bump(StateOf(S).conflict_count, i, -1) = [u \in Items |-> new(u)]
    BY <2>1, <2>2
  <2> QED BY <2>3 DEF new
<1> QED BY <1>1, <1>2, <1>3 DEF ApplyRemove, StateOf, NewState, SolutionOf

\* The exact state of a feasible selection satisfies the last two parts, and
\* the type of the state.
LEMMA FeasibleStateOf ==
  ASSUME NEW S, Feasible(S)
  PROVE  /\ StateOf(S) \in StateType
         /\ Exact(StateOf(S))
         /\ StateOf(S).solution = SolutionOf(S)
         /\ StateOf(S).solution.items = S
BY StateOfType, StateOfFields DEF Feasible, Exact, StateOf

\* A solution with the totals of its items, which are feasible.
Held(s) == s = SolutionOf(s.items) /\ Feasible(s.items)

\* The solution of an exact and feasible state is held.
LEMMA StatesHold ==
  ASSUME NEW st, st = StateOf(st.solution.items), Feasible(st.solution.items)
  PROVE  Held(st.solution)
BY FeasibleStateOf DEF Held

\* A held solution and its items name each other, and its profit is theirs.
LEMMA HeldFields ==
  ASSUME NEW s, Held(s)
  PROVE  /\ s.items \in SUBSET Items /\ s.profit = TotalProfit(s.items)
         /\ s \in SolutionType /\ s.profit \in Int
         /\ NewState(s) = StateOf(s.items)
         /\ StateOf(s.items).solution = s
<1>1. s.items \in SUBSET Items /\ s = SolutionOf(s.items)
  BY DEF Held, Feasible
<1>2. TotalProfit(s.items) \in Int /\ TotalWeight(s.items) \in Int
  BY <1>1, TotalsType
<1> QED BY <1>1, <1>2, StateOfFields DEF SolutionOf, SolutionType, StateOf

-----------------------------------------------------------------------------
(* What the tests of the scans establish.                                  *)

\* A selection without conflicts takes an item without a neighbour in it and
\* with room for its weight.
LEMMA EnterFeasible ==
  ASSUME NEW S \in SUBSET Items, ConflictFree(S), NEW u \in Items \ S,
         Graph[u] \cap S = {}, TotalWeight(S) + Weight[u] <= Capacity
  PROVE  Feasible(S \cup {u})
BY TotalsAdd, ConflictFreeAdd DEF Feasible

\* An item enters in exchange for a set of others if it has no more neighbours
\* in the selection than leave with them: none is left.
LEMMA ExchangeFeasible ==
  ASSUME NEW S, Feasible(S), NEW out \in SUBSET S, NEW u \in Items, u \notin S,
         Cardinality(Graph[u] \cap S) = Cardinality(Graph[u] \cap out),
         TotalWeight(S) - SumFunctionOnSet(Weight, out) + Weight[u] <= Capacity
  PROVE  Feasible((S \ out) \cup {u})
<1>1. S \in SUBSET Items /\ ConflictFree(S)
  BY DEF Feasible
<1>2. Graph[u] \cap S = Graph[u] \cap out
  <2>1. IsFiniteSet(Graph[u] \cap S) /\ Graph[u] \cap out \in SUBSET (Graph[u] \cap S)
    BY <1>1, ItemsFinite
  <2> QED BY <2>1, FS_Subset
<1>3. TotalWeight(S \ out) = TotalWeight(S) - SumFunctionOnSet(Weight, out)
  <2>1. IsFiniteSet(S) /\ \A i \in S : Weight[i] \in Int
    BY <1>1, ItemsFinite, WeightAssumption
  <2> QED BY <2>1, SumDifference DEF TotalWeight
<1>4. ConflictFree(S \ out) /\ S \ out \in SUBSET Items /\ u \in Items \ (S \ out)
  BY <1>1 DEF ConflictFree
<1>5. Graph[u] \cap (S \ out) = {}
  BY <1>2
<1> QED BY <1>3, <1>4, <1>5, EnterFeasible

\* "conflict_count[u] == 0".
LEMMA NoNeighbour ==
  ASSUME NEW S \in SUBSET Items, NEW u \in Items, Cardinality(Graph[u] \cap S) = 0
  PROVE  Graph[u] \cap S = {}
<1>1. IsFiniteSet(Graph[u] \cap S)
  BY ItemsFinite, GraphAssumption
<1> QED BY <1>1, FS_EmptySet

\* The count of neighbours after i has left, as the scans compute it.
LEMMA CountWithout ==
  ASSUME NEW S \in SUBSET Items, NEW i \in S, NEW u \in Items
  PROVE  Cardinality(Graph[u] \cap (S \ {i})) = Cardinality(Graph[u] \cap S) - C(i, u)
<1>1. Cardinality(Graph[u] \cap S) \in Nat
  BY ItemsFinite, GraphAssumption, FS_CardinalityType, Graph[u] \cap S \in SUBSET Items
<1>2. u \in Graph[i] <=> HasConflict(i, u)
  BY HasConflictIsAdjacency
<1> QED BY <1>1, <1>2, CountRemove DEF C

-----------------------------------------------------------------------------
(* Every move of a neighbourhood leads from a feasible selection to a      *)
(* feasible one of strictly greater profit, with exact books.              *)

Gain(S, st) ==
  \E T \in SUBSET Items :
    st = StateOf(T) /\ Feasible(T) /\ TotalProfit(T) > TotalProfit(S)

\* N1: the tests of tryAdd are enough for the item to enter.
LEMMA AddGains ==
  ASSUME NEW S, Feasible(S), NEW m \in AddMoves(StateOf(S))
  PROVE  Gain(S, Result("add", StateOf(S), m))
<1>1. S \in SUBSET Items /\ ConflictFree(S)
  BY DEF Feasible
<1>2. PICK u \in Items : m = <<u>>
  BY DEF AddMoves
<1>3. /\ u \notin S
      /\ Cardinality(Graph[u] \cap S) = 0
      /\ Profit[u] > 0
      /\ TotalWeight(S) + Weight[u] <= Capacity
  BY <1>1, <1>2, StateOfFields DEF AddMoves
<1>4. Feasible(S \cup {u})
  BY <1>1, <1>3, EnterFeasible, NoNeighbour
<1>5. TotalProfit(S \cup {u}) > TotalProfit(S)
  BY <1>1, <1>3, TotalsAdd, TotalsType, ProfitAssumption
<1>6. Result("add", StateOf(S), m) = StateOf(S \cup {u})
  BY <1>1, <1>2, <1>3, ApplyAddExact DEF Result
<1> QED BY <1>4, <1>5, <1>6 DEF Gain, Feasible

\* N2: one item leaves, and a more profitable one without other neighbours enters.
LEMMA Swap11Gains ==
  ASSUME NEW S, Feasible(S), NEW m \in Swap11Moves(StateOf(S))
  PROVE  Gain(S, Result("swap_1_1", StateOf(S), m))
<1>1. S \in SUBSET Items
  BY DEF Feasible
<1>2. PICK i \in S, u \in Items : m = <<i, u>>
  BY <1>1, StateOfFields DEF Swap11Moves
<1>3. /\ u \notin S
      /\ Profit[u] > Profit[i]
      /\ Cardinality(Graph[u] \cap S) - C(i, u) = 0
      /\ TotalWeight(S) - Weight[i] + Weight[u] <= Capacity
  BY <1>1, <1>2, StateOfFields DEF Swap11Moves
<1> DEFINE R == S \ {i}
<1>4. R \in SUBSET Items /\ ConflictFree(R) /\ u \in Items \ R
  BY <1>1, <1>2, <1>3, FeasibleRemove DEF Feasible
<1>5. Graph[u] \cap R = {}
  BY <1>1, <1>3, <1>4, CountWithout, NoNeighbour
<1>6. TotalWeight(R) = TotalWeight(S) - Weight[i] /\ TotalProfit(R) = TotalProfit(S) - Profit[i]
  BY <1>1, TotalsRemove
<1>7. Feasible(R \cup {u})
  BY <1>3, <1>4, <1>5, <1>6, EnterFeasible
<1>8. TotalProfit(R \cup {u}) > TotalProfit(S)
  <2>1. TotalProfit(R \cup {u}) = TotalProfit(S) - Profit[i] + Profit[u]
    BY <1>4, <1>6, TotalsAdd
  <2>2. TotalProfit(S) \in Int /\ Profit[i] \in Int /\ Profit[u] \in Int
    BY <1>1, TotalsType, ProfitAssumption
  <2> QED BY <1>3, <2>1, <2>2
<1>9. Result("swap_1_1", StateOf(S), m) = StateOf(R \cup {u})
  BY <1>1, <1>2, <1>4, ApplyRemoveExact, ApplyAddExact DEF Result
<1> QED BY <1>7, <1>8, <1>9 DEF Gain, Feasible

\* N3: two items leave for one that is worth more than both.
LEMMA Swap21Gains ==
  ASSUME NEW S, Feasible(S), NEW m \in Swap21Moves(StateOf(S))
  PROVE  Gain(S, Result("swap_2_1", StateOf(S), m))
<1>1. S \in SUBSET Items
  BY DEF Feasible
<1>2. PICK i \in S, j \in S, u \in Items : m = <<i, j, u>>
  BY <1>1, StateOfFields DEF Swap21Moves
<1>3. /\ i < j
      /\ u \notin S
      /\ Profit[u] > Profit[i] + Profit[j]
      /\ Cardinality(Graph[u] \cap S) - C(i, u) - C(j, u) = 0
      /\ TotalWeight(S) - Weight[i] - Weight[j] + Weight[u] <= Capacity
  BY <1>1, <1>2, StateOfFields DEF Swap21Moves
<1> DEFINE Q == S \ {i}
           R == Q \ {j}
<1>4. /\ Q \in SUBSET Items /\ j \in Q /\ R \in SUBSET Items /\ u \in Items \ R
  BY <1>1, <1>2, <1>3 DEF Items
<1>5. ConflictFree(R)
  BY <1>4, FeasibleRemove DEF Feasible
<1>6. Graph[u] \cap R = {}
  <2>1. Cardinality(Graph[u] \cap Q) = Cardinality(Graph[u] \cap S) - C(i, u)
    BY <1>1, CountWithout
  <2>2. Cardinality(Graph[u] \cap R) = Cardinality(Graph[u] \cap Q) - C(j, u)
    BY <1>4, CountWithout
  <2> QED BY <1>3, <1>4, <2>1, <2>2, NoNeighbour
<1>7. /\ TotalWeight(R) = TotalWeight(S) - Weight[i] - Weight[j]
      /\ TotalProfit(R) = TotalProfit(S) - Profit[i] - Profit[j]
  <2>1. TotalWeight(Q) = TotalWeight(S) - Weight[i] /\ TotalProfit(Q) = TotalProfit(S) - Profit[i]
    BY <1>1, TotalsRemove
  <2>2. TotalWeight(R) = TotalWeight(Q) - Weight[j] /\ TotalProfit(R) = TotalProfit(Q) - Profit[j]
    BY <1>4, TotalsRemove
  <2> QED BY <2>1, <2>2
<1>8. Feasible(R \cup {u})
  BY <1>3, <1>4, <1>5, <1>6, <1>7, EnterFeasible
<1>9. TotalProfit(R \cup {u}) > TotalProfit(S)
  <2>1. TotalProfit(R \cup {u}) = TotalProfit(S) - Profit[i] - Profit[j] + Profit[u]
    BY <1>4, <1>7, TotalsAdd
  <2>2. /\ TotalProfit(S) \in Int
        /\ Profit[i] \in Int /\ Profit[j] \in Int /\ Profit[u] \in Int
    BY <1>1, TotalsType, ProfitAssumption
  <2> QED BY <1>3, <2>1, <2>2
<1>10. Result("swap_2_1", StateOf(S), m) = StateOf(R \cup {u})
  <2>1. ApplyRemove(StateOf(S), i) = StateOf(Q)
    BY <1>1, ApplyRemoveExact
  <2>2. ApplyRemove(StateOf(Q), j) = StateOf(R)
    BY <1>4, ApplyRemoveExact
  <2>3. ApplyAdd(StateOf(R), u) = StateOf(R \cup {u})
    BY <1>4, ApplyAddExact
  <2> QED BY <1>2, <2>1, <2>2, <2>3 DEF Result
<1> QED BY <1>8, <1>9, <1>10 DEF Gain, Feasible

\* N4: the two that enter are tested alone against the selection, and against
\* each other.
LEMMA Swap12Gains ==
  ASSUME NEW S, Feasible(S), NEW m \in Swap12Moves(StateOf(S))
  PROVE  Gain(S, Result("swap_1_2", StateOf(S), m))
<1>1. S \in SUBSET Items
  BY DEF Feasible
<1>2. PICK i \in S, u \in Items, v \in Items : m = <<i, u, v>>
  BY <1>1, StateOfFields DEF Swap12Moves
<1>3. /\ u < v
      /\ u \in Candidates(StateOf(S), i) /\ v \in Candidates(StateOf(S), i)
      /\ Profit[u] + Profit[v] > Profit[i]
      /\ ~ HasConflict(u, v)
      /\ TotalWeight(S) - Weight[i] + Weight[u] + Weight[v] <= Capacity
  BY <1>1, <1>2, StateOfFields DEF Swap12Moves
<1>4. /\ u \notin S /\ Cardinality(Graph[u] \cap S) - C(i, u) = 0
      /\ v \notin S /\ Cardinality(Graph[v] \cap S) - C(i, v) = 0
      /\ TotalWeight(S) - Weight[i] + Weight[u] <= Capacity
  BY <1>1, <1>3, StateOfFields DEF Candidates
<1> DEFINE R == S \ {i}
           T == R \cup {u}
<1>5. R \in SUBSET Items /\ T \in SUBSET Items /\ u \in Items \ R /\ v \in Items \ T
  BY <1>1, <1>2, <1>3, <1>4 DEF Items
<1>6. ConflictFree(R)
  BY FeasibleRemove DEF Feasible
<1>7. Graph[u] \cap R = {} /\ Graph[v] \cap R = {}
  <2>1. /\ Cardinality(Graph[u] \cap R) = Cardinality(Graph[u] \cap S) - C(i, u)
        /\ Cardinality(Graph[v] \cap R) = Cardinality(Graph[v] \cap S) - C(i, v)
    BY <1>1, CountWithout
  <2> QED BY <1>4, <1>5, <2>1, NoNeighbour
<1>8. Graph[v] \cap T = {}
  BY <1>3, <1>7, HasConflictIsAdjacency, GraphAssumption
<1>9. TotalWeight(R) = TotalWeight(S) - Weight[i] /\ TotalProfit(R) = TotalProfit(S) - Profit[i]
  BY <1>1, TotalsRemove
<1>10. TotalWeight(T) = TotalWeight(R) + Weight[u] /\ TotalProfit(T) = TotalProfit(R) + Profit[u]
  BY <1>5, TotalsAdd
<1>11. ConflictFree(T)
  BY <1>5, <1>6, <1>7, ConflictFreeAdd
<1>12. Feasible(T \cup {v})
  BY <1>3, <1>5, <1>8, <1>9, <1>10, <1>11, EnterFeasible
<1>13. TotalProfit(T \cup {v}) > TotalProfit(S)
  <2>1. TotalProfit(T \cup {v}) = TotalProfit(S) - Profit[i] + Profit[u] + Profit[v]
    BY <1>5, <1>9, <1>10, TotalsAdd
  <2>2. /\ TotalProfit(S) \in Int
        /\ Profit[i] \in Int /\ Profit[u] \in Int /\ Profit[v] \in Int
    BY <1>1, TotalsType, ProfitAssumption
  <2> QED BY <1>3, <2>1, <2>2
<1>14. Result("swap_1_2", StateOf(S), m) = StateOf(T \cup {v})
  <2>1. ApplyRemove(StateOf(S), i) = StateOf(R)
    BY <1>1, ApplyRemoveExact
  <2>2. ApplyAdd(StateOf(R), u) = StateOf(T)
    BY <1>5, ApplyAddExact
  <2>3. ApplyAdd(StateOf(T), v) = StateOf(T \cup {v})
    BY <1>5, ApplyAddExact
  <2> QED BY <1>2, <2>1, <2>2, <2>3 DEF Result
<1> QED BY <1>12, <1>13, <1>14 DEF Gain, Feasible

\* So for every neighbourhood that the schedule can name.
LEMMA MoveGains ==
  ASSUME NEW S, Feasible(S), NEW name \in NeighborhoodNames, NEW m \in Moves(name, StateOf(S))
  PROVE  Gain(S, Result(name, StateOf(S), m))
BY AddGains, Swap11Gains, Swap21Gains, Swap12Gains DEF NeighborhoodNames, Moves

-----------------------------------------------------------------------------
(* A selection without eligible moves is a local optimum: whatever better  *)
(* feasible selection differs by the numbers of items that a neighbourhood *)
(* names, the scan of that neighbourhood has a move to it.                 *)

\* What it takes for an item to be in a feasible selection beside the others.
LEMMA EnteredFeasibly ==
  ASSUME NEW R \in SUBSET Items, NEW u \in Items \ R, Feasible(R \cup {u})
  PROVE  /\ Graph[u] \cap R = {}
         /\ Cardinality(Graph[u] \cap R) = 0
         /\ TotalWeight(R) + Weight[u] <= Capacity
<1>1. Graph[u] \cap R = {}
  BY DEF Feasible, ConflictFree
<1>2. Cardinality({}) = 0
  BY FS_EmptySet
<1> QED BY <1>1, <1>2, TotalsAdd DEF Feasible

\* N1.
LEMMA AddOptimal ==
  ASSUME NEW S, Feasible(S), AddMoves(StateOf(S)) = {}
  PROVE  LocallyOptimal("add", S)
<1> SUFFICES ASSUME NEW T \in SUBSET Items, Cardinality(S \ T) = 0, Cardinality(T \ S) = 1,
                    Feasible(T), TotalProfit(T) > TotalProfit(S)
             PROVE  FALSE
  BY DEF LocallyOptimal, Neighborhood
<1>1. S \in SUBSET Items
  BY DEF Feasible
<1>2. S \ T = {}
  BY <1>1, ItemsFinite, FS_EmptySet
<1>3. PICK u \in T : T \ S = {u}
  BY OneItem
<1>4. T = S \cup {u} /\ u \in Items \ S
  BY <1>2, <1>3
<1>5. Cardinality(Graph[u] \cap S) = 0 /\ TotalWeight(S) + Weight[u] <= Capacity
  BY <1>1, <1>4, EnteredFeasibly
<1>6. Profit[u] > 0
  BY <1>1, <1>4, TotalsAdd, TotalsType, ProfitAssumption
<1>7. <<u>> \in AddMoves(StateOf(S))
  BY <1>1, <1>4, <1>5, <1>6, StateOfFields DEF AddMoves
<1> QED BY <1>7

\* N2.
LEMMA Swap11Optimal ==
  ASSUME NEW S, Feasible(S), Swap11Moves(StateOf(S)) = {}
  PROVE  LocallyOptimal("swap_1_1", S)
<1> SUFFICES ASSUME NEW T \in SUBSET Items, Cardinality(S \ T) = 1, Cardinality(T \ S) = 1,
                    Feasible(T), TotalProfit(T) > TotalProfit(S)
             PROVE  FALSE
  BY DEF LocallyOptimal, Neighborhood
<1>1. S \in SUBSET Items
  BY DEF Feasible
<1>2. PICK i \in S : S \ T = {i}
  BY <1>1, OneItem, S \ T \in SUBSET Items
<1>3. PICK u \in T : T \ S = {u}
  BY OneItem
<1> DEFINE R == S \ {i}
<1>4. T = R \cup {u} /\ u \in Items \ S /\ R \in SUBSET Items
  BY <1>1, <1>2, <1>3
<1>5. Cardinality(Graph[u] \cap R) = 0 /\ TotalWeight(R) + Weight[u] <= Capacity
  BY <1>4, EnteredFeasibly
<1>6. Cardinality(Graph[u] \cap S) - C(i, u) = 0
  BY <1>1, <1>4, <1>5, CountWithout
<1>7. TotalWeight(R) = TotalWeight(S) - Weight[i] /\ TotalProfit(R) = TotalProfit(S) - Profit[i]
  BY <1>1, TotalsRemove
<1>8. Profit[u] > Profit[i]
  <2>1. TotalProfit(T) = TotalProfit(S) - Profit[i] + Profit[u]
    BY <1>4, <1>7, TotalsAdd
  <2>2. TotalProfit(S) \in Int /\ Profit[i] \in Int /\ Profit[u] \in Int
    BY <1>1, <1>4, TotalsType, ProfitAssumption
  <2> QED BY <2>1, <2>2
<1>9. <<i, u>> \in Swap11Moves(StateOf(S))
  BY <1>1, <1>4, <1>5, <1>6, <1>7, <1>8, StateOfFields DEF Swap11Moves
<1> QED BY <1>9

\* N3: the loops look at each pair in one order only.
LEMMA Swap21Optimal ==
  ASSUME NEW S, Feasible(S), Swap21Moves(StateOf(S)) = {}
  PROVE  LocallyOptimal("swap_2_1", S)
<1> SUFFICES ASSUME NEW T \in SUBSET Items, Cardinality(S \ T) = 2, Cardinality(T \ S) = 1,
                    Feasible(T), TotalProfit(T) > TotalProfit(S)
             PROVE  FALSE
  BY DEF LocallyOptimal, Neighborhood
<1>1. S \in SUBSET Items
  BY DEF Feasible
<1>2. PICK i \in S, j \in S : i < j /\ S \ T = {i, j}
  <2>1. \E i, j \in S \ T : i < j /\ S \ T = {i, j}
    BY <1>1, TwoItems, S \ T \in SUBSET Items
  <2> QED BY <2>1
<1>3. PICK u \in T : T \ S = {u}
  BY OneItem
<1> DEFINE Q == S \ {i}
           R == Q \ {j}
<1>4. /\ Q \in SUBSET Items /\ j \in Q /\ R \in SUBSET Items
      /\ T = R \cup {u} /\ u \in Items \ S
  BY <1>1, <1>2, <1>3 DEF Items
<1>5. Cardinality(Graph[u] \cap R) = 0 /\ TotalWeight(R) + Weight[u] <= Capacity
  BY <1>4, EnteredFeasibly
<1>6. Cardinality(Graph[u] \cap S) - C(i, u) - C(j, u) = 0
  <2>1. Cardinality(Graph[u] \cap Q) = Cardinality(Graph[u] \cap S) - C(i, u)
    BY <1>1, <1>4, CountWithout
  <2>2. Cardinality(Graph[u] \cap R) = Cardinality(Graph[u] \cap Q) - C(j, u)
    BY <1>4, CountWithout
  <2> QED BY <1>5, <2>1, <2>2
<1>7. /\ TotalWeight(R) = TotalWeight(S) - Weight[i] - Weight[j]
      /\ TotalProfit(R) = TotalProfit(S) - Profit[i] - Profit[j]
  <2>1. TotalWeight(Q) = TotalWeight(S) - Weight[i] /\ TotalProfit(Q) = TotalProfit(S) - Profit[i]
    BY <1>1, TotalsRemove
  <2>2. TotalWeight(R) = TotalWeight(Q) - Weight[j] /\ TotalProfit(R) = TotalProfit(Q) - Profit[j]
    BY <1>4, TotalsRemove
  <2> QED BY <2>1, <2>2
<1>8. Profit[u] > Profit[i] + Profit[j]
  <2>1. TotalProfit(T) = TotalProfit(S) - Profit[i] - Profit[j] + Profit[u]
    BY <1>4, <1>7, TotalsAdd
  <2>2. /\ TotalProfit(S) \in Int
        /\ Profit[i] \in Int /\ Profit[j] \in Int /\ Profit[u] \in Int
    BY <1>1, <1>4, TotalsType, ProfitAssumption
  <2> QED BY <2>1, <2>2
<1>9. <<i, j, u>> \in Swap21Moves(StateOf(S))
  BY <1>1, <1>2, <1>4, <1>5, <1>6, <1>7, <1>8, StateOfFields DEF Swap21Moves
<1> QED BY <1>9

\* N4: the pre-filter asks that each half fit on its own, which the pair implies.
LEMMA Swap12Optimal ==
  ASSUME NEW S, Feasible(S), Swap12Moves(StateOf(S)) = {}
  PROVE  LocallyOptimal("swap_1_2", S)
<1> SUFFICES ASSUME NEW T \in SUBSET Items, Cardinality(S \ T) = 1, Cardinality(T \ S) = 2,
                    Feasible(T), TotalProfit(T) > TotalProfit(S)
             PROVE  FALSE
  BY DEF LocallyOptimal, Neighborhood
<1>1. S \in SUBSET Items
  BY DEF Feasible
<1>2. PICK i \in S : S \ T = {i}
  BY <1>1, OneItem, S \ T \in SUBSET Items
<1>3. PICK u \in T, v \in T : u < v /\ T \ S = {u, v}
  <2>1. \E u, v \in T \ S : u < v /\ T \ S = {u, v}
    BY TwoItems, T \ S \in SUBSET Items
  <2> QED BY <2>1
<1> DEFINE R == S \ {i}
           U == R \cup {u}
           V == R \cup {v}
<1>4. /\ R \in SUBSET Items /\ U \in SUBSET Items /\ V \in SUBSET Items
      /\ u \in Items \ S /\ v \in Items \ S /\ v \notin U /\ u \notin V
      /\ T = U \cup {v} /\ U = T \ {v} /\ V = T \ {u} /\ v \in T /\ u \in T
  BY <1>1, <1>2, <1>3 DEF Items
<1>5. Feasible(U) /\ Feasible(V)
  BY <1>4, FeasibleRemove
<1>6. /\ Cardinality(Graph[u] \cap R) = 0 /\ TotalWeight(R) + Weight[u] <= Capacity
      /\ Cardinality(Graph[v] \cap R) = 0 /\ TotalWeight(R) + Weight[v] <= Capacity
  BY <1>4, <1>5, EnteredFeasibly
<1>7. Graph[v] \cap U = {} /\ TotalWeight(U) + Weight[v] <= Capacity
  BY <1>4, EnteredFeasibly
<1>8. ~ HasConflict(u, v)
  BY <1>4, <1>7, HasConflictIsAdjacency, GraphAssumption
<1>9. TotalWeight(R) = TotalWeight(S) - Weight[i] /\ TotalProfit(R) = TotalProfit(S) - Profit[i]
  BY <1>1, TotalsRemove
<1>10. TotalWeight(U) = TotalWeight(R) + Weight[u] /\ TotalProfit(U) = TotalProfit(R) + Profit[u]
  BY <1>4, TotalsAdd
<1>11. /\ Cardinality(Graph[u] \cap S) - C(i, u) = 0
       /\ Cardinality(Graph[v] \cap S) - C(i, v) = 0
  BY <1>1, <1>4, <1>6, CountWithout
<1>12. u \in Candidates(StateOf(S), i) /\ v \in Candidates(StateOf(S), i)
  BY <1>1, <1>4, <1>6, <1>9, <1>11, StateOfFields DEF Candidates
<1>13. Profit[u] + Profit[v] > Profit[i]
  <2>1. TotalProfit(T) = TotalProfit(S) - Profit[i] + Profit[u] + Profit[v]
    BY <1>4, <1>9, <1>10, TotalsAdd
  <2>2. /\ TotalProfit(S) \in Int
        /\ Profit[i] \in Int /\ Profit[u] \in Int /\ Profit[v] \in Int
    BY <1>1, <1>4, TotalsType, ProfitAssumption
  <2> QED BY <2>1, <2>2
<1>14. <<i, u, v>> \in Swap12Moves(StateOf(S))
  BY <1>1, <1>3, <1>4, <1>7, <1>8, <1>9, <1>10, <1>12, <1>13, StateOfFields DEF Swap12Moves
<1> QED BY <1>14

\* So for every neighbourhood that the schedule can name.
LEMMA NoMoveIsOptimal ==
  ASSUME NEW S, Feasible(S), NEW name \in NeighborhoodNames, Moves(name, StateOf(S)) = {}
  PROVE  LocallyOptimal(name, S)
BY AddOptimal, Swap11Optimal, Swap21Optimal, Swap12Optimal DEF NeighborhoodNames, Moves

-----------------------------------------------------------------------------
(* What the moves select.                                                  *)

\* What a move leaves selected.
LEMMA ResultItems ==
  ASSUME NEW S \in SUBSET Items, NEW m
  PROVE  /\ Result("add", StateOf(S), m).solution.items \subseteq S \cup {m[1]}
         /\ Result("swap_1_1", StateOf(S), m).solution.items \subseteq S \cup {m[2]}
         /\ Result("swap_2_1", StateOf(S), m).solution.items \subseteq S \cup {m[3]}
         /\ m[1] \in S /\ {m[2], m[3]} \subseteq Items \ S
              => Result("swap_1_2", StateOf(S), m).solution.items
                   = (S \ {m[1]}) \cup {m[2], m[3]}
<1>1. ASSUME NEW st, NEW i
      PROVE  /\ ApplyAdd(st, i).solution.items \subseteq st.solution.items \cup {i}
             /\ i \in Items
                  => ApplyAdd(st, i).solution.items = st.solution.items \cup {i}
             /\ ApplyRemove(st, i).solution.items = st.solution.items \ {i}
  <2>1. /\ ApplyAdd(st, i).solution = AddItem(st.solution, i)
        /\ ApplyRemove(st, i).solution = RemoveItem(st.solution, i)
    BY DEF ApplyAdd, ApplyRemove
  <2>2. /\ AddItem(st.solution, i).items \subseteq st.solution.items \cup {i}
        /\ i \in Items => AddItem(st.solution, i).items = st.solution.items \cup {i}
    BY DEF AddItem
  <2>3. RemoveItem(st.solution, i).items = st.solution.items \ {i}
    BY DEF RemoveItem
  <2> QED BY <2>1, <2>2, <2>3
<1>2. StateOf(S).solution.items = S
  BY StateOfFields
<1>3. ApplyAdd(StateOf(S), m[1]).solution.items \subseteq S \cup {m[1]}
  BY <1>1, <1>2
<1>4. ASSUME NEW st, NEW i, NEW u
      PROVE  ApplyAdd(ApplyRemove(st, i), u).solution.items \subseteq st.solution.items \cup {u}
  <2>1. /\ ApplyRemove(st, i).solution.items = st.solution.items \ {i}
        /\ ApplyAdd(ApplyRemove(st, i), u).solution.items
             \subseteq ApplyRemove(st, i).solution.items \cup {u}
    BY <1>1
  <2> QED BY <2>1
<1>5. ApplyAdd(ApplyRemove(StateOf(S), m[1]), m[2]).solution.items \subseteq S \cup {m[2]}
  BY <1>2, <1>4
<1>6. ApplyAdd(ApplyRemove(ApplyRemove(StateOf(S), m[1]), m[2]), m[3]).solution.items
        \subseteq S \cup {m[3]}
  <2> DEFINE st == ApplyRemove(StateOf(S), m[1])
  <2>1. st.solution.items = S \ {m[1]}
    BY <1>1, <1>2
  <2>2. ApplyAdd(ApplyRemove(st, m[2]), m[3]).solution.items
          \subseteq st.solution.items \cup {m[3]}
    BY <1>4
  <2> QED BY <2>1, <2>2
<1>7. ASSUME m[1] \in S, {m[2], m[3]} \subseteq Items \ S
      PROVE  ApplyAdd(ApplyAdd(ApplyRemove(StateOf(S), m[1]), m[2]), m[3]).solution.items
               = (S \ {m[1]}) \cup {m[2], m[3]}
  <2> DEFINE st == ApplyRemove(StateOf(S), m[1])
             tt == ApplyAdd(st, m[2])
  <2>1. st.solution.items = S \ {m[1]}
    BY <1>1, <1>2
  <2>2. tt.solution.items = st.solution.items \cup {m[2]}
    BY <1>1, <1>7
  <2>3. ApplyAdd(tt, m[3]).solution.items = tt.solution.items \cup {m[3]}
    BY <1>1, <1>7
  <2> HIDE DEF st, tt
  <2>4. ApplyAdd(tt, m[3]).solution.items = (S \ {m[1]}) \cup {m[2], m[3]}
    BY <2>1, <2>2, <2>3
  <2> QED BY <2>4 DEF tt, st
<1> QED BY <1>3, <1>5, <1>6, <1>7 DEF Result

\* An item that swaps alone for one of S, in a feasible way, is not worth more
\* than it where Swap-1-1 has nothing to gain.
LEMMA NoSingleGain ==
  ASSUME NEW S, Feasible(S), LocallyOptimal("swap_1_1", S),
         NEW i \in S, NEW v \in Items \ S, Feasible((S \ {i}) \cup {v})
  PROVE  Profit[v] <= Profit[i]
<1> DEFINE R == S \ {i}
           T == R \cup {v}
<1>1. S \in SUBSET Items /\ R \in SUBSET Items /\ T \in SUBSET Items /\ v \in Items \ R
  BY DEF Feasible
<1>2. S \ T = {i} /\ T \ S = {v}
  OBVIOUS
<1>3. T \in Neighborhood("swap_1_1", S)
  BY <1>1, <1>2, FS_Singleton DEF Neighborhood
<1>4. ~ (TotalProfit(T) > TotalProfit(S))
  BY <1>3 DEF LocallyOptimal
<1>5. TotalProfit(R) = TotalProfit(S) - Profit[i] /\ TotalProfit(T) = TotalProfit(R) + Profit[v]
  BY <1>1, TotalsRemove, TotalsAdd
<1>6. TotalProfit(S) \in Int /\ Profit[i] \in Int /\ Profit[v] \in Int
  BY <1>1, TotalsType, ProfitAssumption
<1> QED BY <1>4, <1>5, <1>6

\* A move from a selection of profitable items selects profitable items, a
\* Swap-1-2 because a better Swap-1-1 would have been found before it.
LEMMA MovesSelectProfitable ==
  ASSUME NEW S, Feasible(S), \A i \in S : Profit[i] > 0,
         NEW name \in NeighborhoodNames, NEW m \in Moves(name, StateOf(S)),
         name = "swap_1_2" => LocallyOptimal("swap_1_1", S)
  PROVE  \A x \in Result(name, StateOf(S), m).solution.items : Profit[x] > 0
<1>1. S \in SUBSET Items /\ \A i \in Items : Profit[i] \in Int
  BY ProfitAssumption DEF Feasible
<1>2. CASE name = "add"
  <2>1. m \in AddMoves(StateOf(S))
    BY <1>2 DEF Moves
  <2>2. Profit[m[1]] > 0
    BY <2>1 DEF AddMoves
  <2> QED BY <1>1, <1>2, <2>2, ResultItems
<1>3. CASE name = "swap_1_1"
  <2>1. m \in Swap11Moves(StateOf(S))
    BY <1>3 DEF Moves
  <2>2. m[1] \in S /\ m[2] \in Items /\ Profit[m[2]] > Profit[m[1]]
    BY <1>1, <2>1, StateOfFields DEF Swap11Moves
  <2> QED BY <1>1, <1>3, <2>2, ResultItems
<1>4. CASE name = "swap_2_1"
  <2>1. m \in Swap21Moves(StateOf(S))
    BY <1>4 DEF Moves
  <2>2. /\ m[1] \in S /\ m[2] \in S /\ m[3] \in Items
        /\ Profit[m[3]] > Profit[m[1]] + Profit[m[2]]
    BY <1>1, <2>1, StateOfFields DEF Swap21Moves
  <2> QED BY <1>1, <1>4, <2>2, ResultItems
<1>5. CASE name = "swap_1_2"
  <2>1. m \in Swap12Moves(StateOf(S))
    BY <1>5 DEF Moves
  <2>2. PICK i \in S, u \in Items, v \in Items : m = <<i, u, v>>
    BY <1>1, <2>1, StateOfFields DEF Swap12Moves
  <2>3. u \notin S /\ v \notin S /\ u # v /\ Profit[u] + Profit[v] > Profit[i]
    <3>1. /\ u \in Candidates(StateOf(S), i) /\ v \in Candidates(StateOf(S), i)
          /\ u < v /\ Profit[u] + Profit[v] > Profit[i]
      BY <2>1, <2>2 DEF Swap12Moves
    <3>2. u \notin S /\ v \notin S
      BY <1>1, <3>1, StateOfFields DEF Candidates
    <3> QED BY <3>1, <3>2, NAssumption DEF Items
  <2> DEFINE T == (S \ {i}) \cup {u, v}
  <2>4. Result("swap_1_2", StateOf(S), m).solution.items = T
    BY <1>1, <2>2, <2>3, ResultItems
  <2>5. Feasible(T)
    <3>1. PICK U \in SUBSET Items : Result("swap_1_2", StateOf(S), m) = StateOf(U) /\ Feasible(U)
      BY <2>1, Swap12Gains DEF Gain
    <3>2. StateOf(U).solution.items = U
      BY StateOfFields
    <3> HIDE DEF T
    <3> QED BY <2>4, <3>1, <3>2
  <2>6. T \ {u} = (S \ {i}) \cup {v} /\ T \ {v} = (S \ {i}) \cup {u}
    BY <2>3
  <2>7. Feasible((S \ {i}) \cup {v}) /\ Feasible((S \ {i}) \cup {u})
    <3>1. Feasible(T \ {u}) /\ Feasible(T \ {v})
      BY <2>5, FeasibleRemove
    <3> QED BY <2>6, <3>1
  <2>8. Profit[v] <= Profit[i] /\ Profit[u] <= Profit[i]
    BY <1>5, <2>3, <2>7, NoSingleGain
  <2>9. Profit[u] > 0 /\ Profit[v] > 0
    BY <1>1, <2>3, <2>8
  <2> QED BY <1>5, <2>4, <2>9
<1> QED BY <1>2, <1>3, <1>4, <1>5 DEF NeighborhoodNames

-----------------------------------------------------------------------------
(* Schedules and limits.                                                   *)

\* The schedules that VNDConfig allows are sequences of neighbourhoods.
LEMMA ScheduleType ==
  ASSUME NEW e
  PROVE  ScheduleOf(e) \in Seq(NeighborhoodNames)
<1> DEFINE push(name) == IF name \in e THEN <<name>> ELSE <<>>
<1>1. \A name \in NeighborhoodNames : push(name) \in Seq(NeighborhoodNames)
  OBVIOUS
<1>2. /\ push("add") \in Seq(NeighborhoodNames)
      /\ push("swap_1_1") \in Seq(NeighborhoodNames)
      /\ push("swap_2_1") \in Seq(NeighborhoodNames)
      /\ push("swap_1_2") \in Seq(NeighborhoodNames)
  BY <1>1 DEF NeighborhoodNames
<1>3. ScheduleOf(e) = push("add") \o push("swap_1_1") \o push("swap_2_1") \o push("swap_1_2")
  BY DEF ScheduleOf
<1> HIDE DEF push
<1> QED BY <1>2, <1>3

\* Whatever is enabled, Swap-1-2 comes after the neighbourhoods that are.
LEMMA PairsComeLast ==
  ASSUME NEW e, NEW p \in DOMAIN ScheduleOf(e), NEW q \in DOMAIN ScheduleOf(e),
         ScheduleOf(e)[p] # "swap_1_2", ScheduleOf(e)[q] = "swap_1_2"
  PROVE  p < q
<1> DEFINE push(name) == IF name \in e THEN <<name>> ELSE <<>>
           names == {"add", "swap_1_1", "swap_2_1"}
           front == push("add") \o push("swap_1_1") \o push("swap_2_1")
           back  == push("swap_1_2")
<1>0. \A X : \A name \in X : push(name) \in Seq(X)
  OBVIOUS
<1>1. /\ push("add") \in Seq(names) /\ push("swap_1_1") \in Seq(names)
      /\ push("swap_2_1") \in Seq(names)
      /\ back \in Seq({"swap_1_2"})
  BY <1>0
<1>2. ScheduleOf(e) = front \o back
  BY DEF ScheduleOf
<1> HIDE DEF push
<1>3. front \in Seq(names)
  BY <1>1
<1> HIDE DEF front, back
<1>4. /\ \A x \in 1 .. Len(front) : ScheduleOf(e)[x] \in names
      /\ \A x \in Len(front) + 1 .. Len(front) + Len(back) :
           ScheduleOf(e)[x] \in {"swap_1_2"}
      /\ DOMAIN ScheduleOf(e) = 1 .. Len(front) + Len(back)
      /\ Len(front) \in Nat /\ Len(back) \in Nat
  BY <1>1, <1>2, <1>3
<1>5. p \in 1 .. Len(front)
  BY <1>4
<1>6. q \notin 1 .. Len(front)
  BY <1>4
<1> QED BY <1>4, <1>5, <1>6

\* The methods of StoppingCriteria keep the type of the object.
LEMMA StoppingTypes ==
  /\ \A l \in Limits : Start(l) \in StoppingType
  /\ \A s \in StoppingType :
       /\ Tick(s) \in StoppingType
       /\ RegisterImprovement(s) \in StoppingType
       /\ Expire(s) \in StoppingType
<1>1. ASSUME NEW l \in Limits PROVE Start(l) \in StoppingType
  BY LimitsAssumption DEF StoppingType, Start
<1>2. ASSUME NEW s \in StoppingType
      PROVE  /\ Tick(s) \in StoppingType
             /\ RegisterImprovement(s) \in StoppingType
             /\ Expire(s) \in StoppingType
  <2>1. s.iterations \in Nat /\ s.iterations + 1 \in Nat
    BY DEF StoppingType
  <2>2. Tick(s) \in StoppingType
    BY <2>1 DEF StoppingType, Tick
  <2>3. RegisterImprovement(s) \in StoppingType
    BY <2>1 DEF StoppingType, RegisterImprovement
  <2>4. Expire(s) \in StoppingType
    BY DEF StoppingType, Expire
  <2> QED BY <2>2, <2>3, <2>4
<1> QED BY <1>1, <1>2

\* A time limit that the clock has reached stops the search, and no tick takes
\* a stop back.
LEMMA StopsStay ==
  ASSUME NEW s \in StoppingType
  PROVE  /\ s.limits.time => ShouldStop(Expire(s)) /\ ShouldStop(Expire(Tick(s)))
         /\ ShouldStop(s) => ShouldStop(Expire(s)) /\ ShouldStop(Tick(s))
<1>1. s.iterations \in Nat /\ s.last_improvement \in Nat /\ s.limits \in LimitsType
  BY DEF StoppingType
<1>2. s.limits.iter \in Nat \cup {Inactive} /\ s.limits.no_improve \in Nat \cup {Inactive}
  BY <1>1 DEF LimitsType
<1>3. /\ Expire(s).limits = s.limits /\ Expire(s).expired = TRUE
      /\ Expire(s).iterations = s.iterations
      /\ Expire(s).last_improvement = s.last_improvement
      /\ Tick(s).limits = s.limits /\ Tick(s).expired = s.expired
      /\ Tick(s).iterations = s.iterations + 1
      /\ Tick(s).last_improvement = s.last_improvement
      /\ Expire(Tick(s)).limits = s.limits /\ Expire(Tick(s)).expired = TRUE
  BY DEF StoppingType, Expire, Tick
<1> QED BY <1>1, <1>2, <1>3 DEF ShouldStop, Inactive

\* Without a no-improvement limit nothing takes a stop back.
LEMMA ImprovementsStop ==
  ASSUME NEW s \in StoppingType, s.limits.no_improve = Inactive
  PROVE  ShouldStop(s) => ShouldStop(RegisterImprovement(s))
BY DEF StoppingType, RegisterImprovement, ShouldStop

\* The limits themselves never change.
LEMMA LimitsStay ==
  ASSUME NEW s \in StoppingType
  PROVE  /\ Tick(s).limits = s.limits
         /\ Expire(s).limits = s.limits
         /\ RegisterImprovement(s).limits = s.limits
BY DEF StoppingType, Tick, Expire, RegisterImprovement

-----------------------------------------------------------------------------
(* One turn of the construction, for whatever module runs it.              *)

\* What a profit order is used for: its items are profitable and differ.
IsOrder(o) ==
  /\ o \in Seq(Items)
  /\ \A p \in 1 .. Len(o) : Profit[o[p]] > 0
  /\ \A p, q \in 1 .. Len(o) : p < q => o[p] # o[q]

\* makeProfitOrder lists profitable items, none twice.
LEMMA SortIsOrder ==
  ASSUME NEW o,
         o \in [1 .. Cardinality({i \in Items : Profit[i] > 0})
                  -> {i \in Items : Profit[i] > 0}],
         \A p, q \in DOMAIN o : p < q => o[p] # o[q]
  PROVE  IsOrder(o)
<1> DEFINE profitable == {i \in Items : Profit[i] > 0}
           n == Cardinality(profitable)
<1>1. n \in Nat
  BY ItemsFinite, FS_CardinalityType, profitable \in SUBSET Items
<1>2. o \in [1 .. n -> profitable] /\ \A p, q \in 1 .. n : p < q => o[p] # o[q]
  OBVIOUS
<1> HIDE DEF n
<1>3. o \in Seq(Items) /\ Len(o) = n
  BY <1>1, <1>2
<1>4. \A p \in 1 .. n : Profit[o[p]] > 0
  BY <1>2
<1> QED BY <1>2, <1>3, <1>4 DEF IsOrder

\* The books of the loop at position p: order, solution, forbidden items,
\* remaining capacity.
Constructing(o, p, s, f, r) ==
  /\ IsOrder(o)
  /\ p \in 1 .. Len(o) + 1
  /\ s = SolutionOf(s.items) /\ Feasible(s.items)
  /\ s.items \subseteq {o[q] : q \in 1 .. p - 1}
  /\ f = UNION {Graph[i] : i \in s.items}
  /\ r = Capacity - s.weight

\* The empty selection before the loop.
LEMMA ConstructionBegins ==
  ASSUME NEW o, IsOrder(o)
  PROVE  Constructing(o, 1, EmptySolution, {}, Capacity)
<1>1. EmptySolution = SolutionOf({}) /\ EmptySolution.items = {} /\ EmptySolution.weight = 0
  BY TotalsType DEF EmptySolution, SolutionOf
<1>2. 1 \in 1 .. Len(o) + 1
  BY DEF IsOrder
<1> QED BY <1>1, <1>2, EmptyFeasible, CapacityAssumption DEF Constructing

\* An item that is passed over.
LEMMA ConstructionSkips ==
  ASSUME NEW o, NEW p, NEW s, NEW f, NEW r, Constructing(o, p, s, f, r), p <= Len(o)
  PROVE  Constructing(o, p + 1, s, f, r)
<1>1. Len(o) \in Nat /\ p \in 1 .. Len(o)
  BY DEF Constructing, IsOrder
<1>2. \A q \in 1 .. p - 1 : q \in 1 .. (p + 1) - 1
  BY <1>1
<1>3. p + 1 \in 1 .. Len(o) + 1
  BY <1>1
<1> QED BY <1>2, <1>3 DEF Constructing

\* An item that is taken: the books stay exact, the selection stays feasible
\* and gains.
LEMMA ConstructionTakes ==
  ASSUME NEW o, NEW p, NEW s, NEW f, NEW r, Constructing(o, p, s, f, r), p <= Len(o),
         Weight[o[p]] <= r, o[p] \notin f
  PROVE  /\ Constructing(o, p + 1, AddItem(s, o[p]), f \cup Graph[o[p]], r - Weight[o[p]])
         /\ AddItem(s, o[p]).items = s.items \cup {o[p]}
         /\ TotalProfit(s.items \cup {o[p]}) > TotalProfit(s.items)
<1> DEFINE S == s.items
           i == o[p]
           T == S \cup {i}
<1>1. Len(o) \in Nat /\ p \in 1 .. Len(o) /\ i \in Items /\ Profit[i] > 0
  BY DEF Constructing, IsOrder
<1>2. S \in SUBSET Items /\ ConflictFree(S) /\ s = SolutionOf(S)
  BY DEF Constructing, Feasible
<1>3. i \notin S
  <2>1. \A q \in 1 .. p - 1 : q \in 1 .. Len(o) /\ q < p
    BY <1>1
  <2>2. \A q \in 1 .. p - 1 : o[q] # i
    BY <1>1, <2>1 DEF Constructing, IsOrder
  <2> QED BY <2>2 DEF Constructing
<1>4. T \in SUBSET Items /\ AddItem(s, i) = SolutionOf(T)
  BY <1>1, <1>2, <1>3, SolutionAdd
<1>5. SolutionOf(T).items = T /\ SolutionOf(T).weight = TotalWeight(T)
  BY DEF SolutionOf
<1>6. s.weight = TotalWeight(S)
  BY <1>2 DEF SolutionOf
<1>7. Graph[i] \cap S = {}
  <2>1. \A j \in S : i \notin Graph[j]
    BY DEF Constructing
  <2> QED BY <1>1, <1>2, <2>1, GraphAssumption
<1>8. TotalWeight(S) + Weight[i] <= Capacity
  BY <1>1, <1>2, <1>6, TotalsType, WeightAssumption, CapacityAssumption DEF Constructing
<1>9. Feasible(T)
  BY <1>1, <1>2, <1>3, <1>7, <1>8, EnterFeasible
<1>10. TotalProfit(T) > TotalProfit(S)
  BY <1>1, <1>2, <1>3, TotalsAdd, TotalsType, ProfitAssumption
<1>11. T \subseteq {o[q] : q \in 1 .. (p + 1) - 1}
  <2>1. \A q \in 1 .. p - 1 : q \in 1 .. (p + 1) - 1
    BY <1>1
  <2>2. p \in 1 .. (p + 1) - 1
    BY <1>1
  <2> QED BY <2>1, <2>2 DEF Constructing
<1>12. f \cup Graph[i] = UNION {Graph[j] : j \in T}
  BY DEF Constructing
<1>13. r - Weight[i] = Capacity - TotalWeight(T)
  <2>1. TotalWeight(T) = TotalWeight(S) + Weight[i]
    BY <1>1, <1>2, <1>3, TotalsAdd
  <2>2. TotalWeight(S) \in Int /\ Weight[i] \in Int
    BY <1>1, <1>2, TotalsType, WeightAssumption
  <2>3. r = Capacity - TotalWeight(S)
    BY <1>6 DEF Constructing
  <2> QED BY <2>1, <2>2, <2>3, CapacityAssumption
<1>14. p + 1 \in 1 .. Len(o) + 1
  BY <1>1
<1> HIDE DEF T, i
<1> QED BY <1>4, <1>5, <1>9, <1>10, <1>11, <1>12, <1>13, <1>14 DEF Constructing, T, i

-----------------------------------------------------------------------------
(* One step of a descent, for whatever module runs it.                     *)

OptimalFor(sch, positions, st) ==
  \A q \in positions : LocallyOptimal(sch[q], st.solution.items)

\* Schedule, state, position, mode and criterion of a descent: the books are
\* exact, the selection is feasible, and if nothing has stopped the descent the
\* neighbourhoods behind it are exhausted.
Descending(sch, st, p, md, stop) ==
  /\ sch \in Seq(NeighborhoodNames)
  /\ p \in 1 .. Len(sch) + 1
  /\ md \in {"idle", "descend", "returned"}
  /\ stop \in StoppingType
  /\ st = StateOf(st.solution.items) /\ Feasible(st.solution.items)
  /\ md = "descend" => ShouldStop(stop) \/ OptimalFor(sch, 1 .. p - 1, st)
  /\ md = "returned" => ShouldStop(stop) \/ OptimalFor(sch, DOMAIN sch, st)

\* Between two calls nothing is said of optimality: any criterion will do.
LEMMA DescentIdle ==
  ASSUME NEW sch \in Seq(NeighborhoodNames), NEW S, Feasible(S),
         NEW p \in 1 .. Len(sch) + 1, NEW stop \in StoppingType
  PROVE  Descending(sch, StateOf(S), p, "idle", stop)
BY FeasibleStateOf DEF Descending

\* The call on a feasible seed.  Over no items the empty selection is optimal.
LEMMA DescentBegins ==
  ASSUME NEW sch \in Seq(NeighborhoodNames), NEW S, Feasible(S), NEW stop \in StoppingType
  PROVE  Descending(sch, StateOf(S), 1,
                    IF N = 0 \/ sch = <<>> THEN "returned" ELSE "descend", stop)
<1>1. S \in SUBSET Items /\ StateOf(S).solution.items = S
  BY FeasibleStateOf DEF Feasible
<1>2. 1 \in 1 .. Len(sch) + 1 /\ 1 .. 1 - 1 = {}
  OBVIOUS
<1>3. ASSUME sch = <<>> PROVE DOMAIN sch = {}
  BY <1>3
<1>4. ASSUME N = 0 PROVE OptimalFor(sch, DOMAIN sch, StateOf(S))
  <2>1. Items = {}
    BY <1>4 DEF Items
  <2>2. ASSUME NEW name \in NeighborhoodNames PROVE LocallyOptimal(name, S)
    <3>1. \A T \in SUBSET Items : T = S
      BY <1>1, <2>1
    <3>2. Neighborhood(name, S) \subseteq SUBSET Items
      BY DEF Neighborhood, NeighborhoodNames
    <3>3. TotalProfit(S) \in Int
      BY <1>1, TotalsType
    <3> QED BY <3>1, <3>2, <3>3 DEF LocallyOptimal
  <2>3. \A q \in DOMAIN sch : sch[q] \in NeighborhoodNames
    OBVIOUS
  <2> QED BY <1>1, <2>2, <2>3 DEF OptimalFor
<1>5. /\ OptimalFor(sch, {}, StateOf(S))
      /\ N = 0 \/ sch = <<>> => OptimalFor(sch, DOMAIN sch, StateOf(S))
  BY <1>3, <1>4 DEF OptimalFor
<1> QED BY <1>1, <1>2, <1>5, FeasibleStateOf DEF Descending

\* A move: the next selection is feasible and better, its books are exact, and
\* the search of the schedule starts afresh.
LEMMA DescentMoves ==
  ASSUME NEW sch, NEW st, NEW p, NEW stop, Descending(sch, st, p, "descend", stop),
         p <= Len(sch), NEW m \in Moves(sch[p], st)
  PROVE  LET next == Result(sch[p], st, m)
         IN  /\ Descending(sch, next, 1, "descend", RegisterImprovement(Tick(stop)))
             /\ TotalProfit(next.solution.items) > TotalProfit(st.solution.items)
<1> DEFINE S == st.solution.items
           next == Result(sch[p], st, m)
<1>1. Feasible(S) /\ st = StateOf(S) /\ sch[p] \in NeighborhoodNames
  BY DEF Descending
<1>2. Gain(S, next)
  BY <1>1, MoveGains
<1>3. PICK T \in SUBSET Items :
        next = StateOf(T) /\ Feasible(T) /\ TotalProfit(T) > TotalProfit(S)
  BY <1>2 DEF Gain
<1>4. RegisterImprovement(Tick(stop)) \in StoppingType
  BY StoppingTypes DEF Descending
<1>5. next.solution.items = T
  BY <1>3, FeasibleStateOf
<1>6. 1 \in 1 .. Len(sch) + 1 /\ OptimalFor(sch, 1 .. 1 - 1, next)
  BY DEF OptimalFor, Descending
<1> HIDE DEF next
<1>7. Descending(sch, next, 1, "descend", RegisterImprovement(Tick(stop)))
  BY <1>3, <1>4, <1>5, <1>6 DEF Descending
<1> QED BY <1>3, <1>5, <1>7 DEF next

\* A scan that finds nothing, or is not carried out because the tick has
\* reached a limit.
LEMMA DescentPasses ==
  ASSUME NEW sch, NEW st, NEW p, NEW stop, Descending(sch, st, p, "descend", stop),
         p <= Len(sch), ~ ShouldStop(stop),
         Moves(sch[p], st) = {} \/ ShouldStop(Tick(stop))
  PROVE  Descending(sch, st, p + 1, "descend", Tick(stop))
<1>1. p \in 1 .. Len(sch) /\ p + 1 \in 1 .. Len(sch) + 1 /\ sch[p] \in NeighborhoodNames
  BY DEF Descending
<1>2. Tick(stop) \in StoppingType
  BY StoppingTypes DEF Descending
<1>3. ASSUME Moves(sch[p], st) = {} PROVE OptimalFor(sch, 1 .. (p + 1) - 1, st)
  <2>1. LocallyOptimal(sch[p], st.solution.items)
    BY <1>1, <1>3, NoMoveIsOptimal DEF Descending
  <2>2. \A q \in 1 .. (p + 1) - 1 : q = p \/ q \in 1 .. p - 1
    BY <1>1
  <2>3. OptimalFor(sch, 1 .. p - 1, st)
    BY DEF Descending
  <2> QED BY <2>1, <2>2, <2>3 DEF OptimalFor
<1> QED BY <1>1, <1>2, <1>3 DEF Descending

\* A scan that the clock interrupts.
LEMMA DescentInterrupted ==
  ASSUME NEW sch, NEW st, NEW p, NEW stop, Descending(sch, st, p, "descend", stop),
         p <= Len(sch), stop.limits.time
  PROVE  Descending(sch, st, p + 1, "descend", Expire(Tick(stop)))
<1>1. p + 1 \in 1 .. Len(sch) + 1
  BY DEF Descending
<1>2. Expire(Tick(stop)) \in StoppingType /\ ShouldStop(Expire(Tick(stop)))
  BY StoppingTypes, StopsStay DEF Descending
<1> QED BY <1>1, <1>2 DEF Descending

\* The loop is left at the end of the schedule or at a limit.
LEMMA DescentReturns ==
  ASSUME NEW sch, NEW st, NEW p, NEW stop, Descending(sch, st, p, "descend", stop),
         p > Len(sch) \/ ShouldStop(stop)
  PROVE  Descending(sch, st, p, "returned", stop)
<1>1. ASSUME p > Len(sch) PROVE DOMAIN sch = 1 .. p - 1
  BY <1>1 DEF Descending
<1> QED BY <1>1 DEF Descending

\* The clock runs out between two steps.
LEMMA DescentTimesOut ==
  ASSUME NEW sch, NEW st, NEW p, NEW md, NEW stop, Descending(sch, st, p, md, stop),
         stop.limits.time
  PROVE  Descending(sch, st, p, md, Expire(stop))
<1>1. Expire(stop) \in StoppingType /\ ShouldStop(Expire(stop))
  BY StoppingTypes, StopsStay DEF Descending
<1> QED BY <1>1 DEF Descending

-----------------------------------------------------------------------------
(* Both, as the algorithms that call them see them.                        *)

\* A step of the criterion: its limits stay, and only a no-improvement limit
\* lets a search go on that had been stopped.
KeepsStop(stop, stop2) ==
  /\ stop2 \in StoppingType
  /\ stop2.limits = stop.limits
  /\ stop.limits.no_improve = Inactive /\ ShouldStop(stop) => ShouldStop(stop2)

\* No method that is called between start() and the end of a run breaks that.
LEMMA MethodsKeepStop ==
  ASSUME NEW s \in StoppingType
  PROVE  /\ KeepsStop(s, s) /\ KeepsStop(s, Tick(s)) /\ KeepsStop(s, RegisterImprovement(s))
         /\ KeepsStop(s, Expire(s)) /\ KeepsStop(s, Expire(Tick(s)))
         /\ KeepsStop(s, RegisterImprovement(Tick(s)))
<1>1. Tick(s) \in StoppingType
  BY StoppingTypes
<1>2. \A t \in StoppingType : KeepsStop(t, RegisterImprovement(t))
  BY StoppingTypes, LimitsStay, ImprovementsStop DEF KeepsStop
<1>3. \A t \in StoppingType : KeepsStop(t, Tick(t)) /\ KeepsStop(t, Expire(t))
  BY StoppingTypes, LimitsStay, StopsStay DEF KeepsStop
<1> QED BY <1>1, <1>2, <1>3 DEF KeepsStop

\* One step of GreedyMaxProfit::run: an item taken, an item passed over, or
\* the end of the loop.
ConstructionStep(o, p, s, f, r, stop, p2, s2, f2, r2, stop2) ==
  \/ /\ p <= Len(o) /\ Weight[o[p]] <= r /\ o[p] \notin f
     /\ p2 = p + 1 /\ s2 = AddItem(s, o[p])
     /\ f2 = f \cup Graph[o[p]] /\ r2 = r - Weight[o[p]]
     /\ stop2 = RegisterImprovement(Tick(stop))
  \/ /\ p <= Len(o)
     /\ p2 = p + 1 /\ s2 = s /\ f2 = f /\ r2 = r /\ stop2 = Tick(stop)
  \/ p2 = p /\ s2 = s /\ f2 = f /\ r2 = r /\ stop2 = stop

\* It keeps the books and what the criterion has decided, and the selection
\* stays as it is or becomes a better one.
LEMMA ConstructionStepKeeps ==
  ASSUME NEW o, NEW p, NEW s, NEW f, NEW r, NEW stop \in StoppingType,
         NEW p2, NEW s2, NEW f2, NEW r2, NEW stop2,
         Constructing(o, p, s, f, r),
         ConstructionStep(o, p, s, f, r, stop, p2, s2, f2, r2, stop2)
  PROVE  /\ Constructing(o, p2, s2, f2, r2)
         /\ s2 = s \/ TotalProfit(s2.items) > TotalProfit(s.items)
         /\ KeepsStop(stop, stop2)
<1>1. CASE /\ p <= Len(o) /\ Weight[o[p]] <= r /\ o[p] \notin f
           /\ p2 = p + 1 /\ s2 = AddItem(s, o[p])
           /\ f2 = f \cup Graph[o[p]] /\ r2 = r - Weight[o[p]]
           /\ stop2 = RegisterImprovement(Tick(stop))
  <2>1. /\ Constructing(o, p + 1, AddItem(s, o[p]), f \cup Graph[o[p]], r - Weight[o[p]])
        /\ AddItem(s, o[p]).items = s.items \cup {o[p]}
        /\ TotalProfit(s.items \cup {o[p]}) > TotalProfit(s.items)
    BY <1>1, ConstructionTakes
  <2> QED BY <1>1, <2>1, MethodsKeepStop
<1>2. CASE p <= Len(o) /\ p2 = p + 1 /\ s2 = s /\ f2 = f /\ r2 = r /\ stop2 = Tick(stop)
  BY <1>2, ConstructionSkips, MethodsKeepStop
<1>3. CASE p2 = p /\ s2 = s /\ f2 = f /\ r2 = r /\ stop2 = stop
  BY <1>3, MethodsKeepStop
<1> QED BY <1>1, <1>2, <1>3 DEF ConstructionStep

\* The variables of the construction keep their types.
LEMMA ConstructingTypes ==
  ASSUME NEW o, NEW p, NEW s, NEW f, NEW r, Constructing(o, p, s, f, r)
  PROVE  /\ o \in Seq(Items) /\ p \in 1 .. Len(o) + 1
         /\ s \in SolutionType /\ f \in SUBSET Items /\ r \in Int
<1>1. s.items \in SUBSET Items /\ s = SolutionOf(s.items)
  BY DEF Constructing, Feasible
<1>2. TotalProfit(s.items) \in Int /\ TotalWeight(s.items) \in Int
  BY <1>1, TotalsType
<1>3. s \in SolutionType /\ s.weight \in Int
  BY <1>1, <1>2 DEF SolutionOf, SolutionType
<1>4. f \in SUBSET Items
  BY <1>1, GraphAssumption DEF Constructing
<1> QED BY <1>3, <1>4, CapacityAssumption DEF Constructing, IsOrder

\* One step of the loop of VND::improve: a move, a scan without one, a scan
\* that the clock interrupts, or the return.
DescentStep(sch, st, p, md, stop, st2, p2, md2, stop2) ==
  /\ md = "descend"
  /\ \/ /\ p <= Len(sch) /\ md2 = "descend"
        /\ \E m \in Moves(sch[p], st) : st2 = Result(sch[p], st, m)
        /\ p2 = 1 /\ stop2 = RegisterImprovement(Tick(stop))
     \/ /\ p <= Len(sch) /\ md2 = "descend" /\ ~ ShouldStop(stop)
        /\ Moves(sch[p], st) = {} \/ ShouldStop(Tick(stop))
        /\ st2 = st /\ p2 = p + 1 /\ stop2 = Tick(stop)
     \/ /\ p <= Len(sch) /\ md2 = "descend" /\ stop.limits.time
        /\ st2 = st /\ p2 = p + 1 /\ stop2 = Expire(Tick(stop))
     \/ /\ p > Len(sch) \/ ShouldStop(stop)
        /\ md2 = "returned" /\ st2 = st /\ p2 = p /\ stop2 = stop

\* It keeps the descent in order and what the criterion has decided, and the
\* selection stays as it is or becomes a better one.
LEMMA DescentStepKeeps ==
  ASSUME NEW sch, NEW st, NEW p, NEW md, NEW stop, NEW st2, NEW p2, NEW md2, NEW stop2,
         Descending(sch, st, p, md, stop),
         DescentStep(sch, st, p, md, stop, st2, p2, md2, stop2)
  PROVE  /\ Descending(sch, st2, p2, md2, stop2)
         /\ st2 = st \/ TotalProfit(st2.solution.items) > TotalProfit(st.solution.items)
         /\ KeepsStop(stop, stop2)
<1>1. stop \in StoppingType /\ Descending(sch, st, p, "descend", stop)
  BY DEF Descending, DescentStep
<1>2. KeepsStop(stop, stop2)
  BY <1>1, MethodsKeepStop DEF DescentStep
<1>3. CASE /\ p <= Len(sch) /\ md2 = "descend"
           /\ \E m \in Moves(sch[p], st) : st2 = Result(sch[p], st, m)
           /\ p2 = 1 /\ stop2 = RegisterImprovement(Tick(stop))
  BY <1>1, <1>2, <1>3, DescentMoves
<1>4. CASE /\ p <= Len(sch) /\ md2 = "descend" /\ ~ ShouldStop(stop)
           /\ Moves(sch[p], st) = {} \/ ShouldStop(Tick(stop))
           /\ st2 = st /\ p2 = p + 1 /\ stop2 = Tick(stop)
  BY <1>1, <1>2, <1>4, DescentPasses
<1>5. CASE /\ p <= Len(sch) /\ md2 = "descend" /\ stop.limits.time
           /\ st2 = st /\ p2 = p + 1 /\ stop2 = Expire(Tick(stop))
  BY <1>1, <1>2, <1>5, DescentInterrupted
<1>6. CASE /\ p > Len(sch) \/ ShouldStop(stop)
           /\ md2 = "returned" /\ st2 = st /\ p2 = p /\ stop2 = stop
  BY <1>1, <1>2, <1>6, DescentReturns
<1> QED BY <1>3, <1>4, <1>5, <1>6 DEF DescentStep

\* A step of the criterion alone keeps the descent in order, while it waits.
LEMMA DescentWaits ==
  ASSUME NEW sch, NEW st, NEW p, NEW stop, NEW stop2 \in StoppingType, NEW md,
         Descending(sch, st, p, md, stop)
  PROVE  Descending(sch, st, p, "idle", stop2)
BY DEF Descending

=============================================================================
