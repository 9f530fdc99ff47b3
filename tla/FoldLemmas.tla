----------------------------- MODULE FoldLemmas -----------------------------
(***************************************************************************)
(* A fold over a sequence of any length, step by step.  Op is the operator *)
(* of the fold, with a parameter c that stays the same throughout.         *)
(***************************************************************************)
EXTENDS SequenceLemmas

CONSTANT Op(_, _, _)

Folded(base, s, c) == FoldLeft(LAMBDA a, x : Op(a, x, c), base, s)

(* The recursive function behind FoldLeft, over the elements 1..n of s. *)
IsIter(g, base, s, c, n) ==
    g = [S \in SUBSET (1..n) |->
            IF S = {} THEN base ELSE Op(g[S \ {Max(S)}], s[Max(S)], c)]

LEMMA IterExists ==
    ASSUME NEW n \in Nat, NEW base, NEW s, NEW c
    PROVE  \E g : IsIter(g, base, s, c, n)
<1> DEFINE P == {k \in Nat : \E g : IsIter(g, base, s, c, k)}
<1>1. 0 \in P
  <2> DEFINE g == [S \in SUBSET (1..0) |-> base]
  <2>1. g = [S \in SUBSET (1..0) |-> IF S = {} THEN base ELSE Op(g[S \ {Max(S)}], s[Max(S)], c)]
    OBVIOUS
  <2>2. IsIter(g, base, s, c, 0)
    BY <2>1 DEF IsIter
  <2> QED BY <2>2
<1>2. ASSUME NEW k \in 0..(n - 1), k \in P PROVE k + 1 \in P
  <2>1. k \in Nat /\ k + 1 \in Nat
    BY <1>2
  <2>2. PICK f : IsIter(f, base, s, c, k)
    BY <1>2
  <2> DEFINE m == k + 1
             g == [S \in SUBSET (1..m) |-> IF m \in S THEN Op(f[S \ {m}], s[m], c) ELSE f[S]]
             h == [S \in SUBSET (1..m) |-> IF S = {} THEN base ELSE Op(g[S \ {Max(S)}], s[Max(S)], c)]
  <2>3. ASSUME NEW S \in SUBSET (1..m) PROVE g[S] = h[S]
    <3>1. ASSUME m \notin S PROVE S \in SUBSET (1..k)
      BY <2>1, <3>1
    <3>2. CASE S = {}
      <4>1. {} \in SUBSET (1..k) /\ m \notin {}
        OBVIOUS
      <4>2. f[{}] = base
        BY <2>2, <4>1 DEF IsIter
      <4> QED BY <3>2, <4>1, <4>2
    <3>3. CASE S # {} /\ m \in S
      <4>1. Max(S) \in S /\ \A i \in S : i <= Max(S)
        <5>1. m \in Nat /\ S \in SUBSET (0..m)
          BY <2>1
        <5> QED BY <3>3, <5>1, MaxIn
      <4>2. Max(S) = m
        <5>1. Max(S) \in 1..m /\ m <= Max(S)
          BY <3>3, <4>1
        <5> QED BY <2>1, <5>1
      <4>3. S \ {m} \in SUBSET (1..m) /\ m \notin S \ {m}
        OBVIOUS
      <4> HIDE DEF m
      <4>4. g[S \ {m}] = f[S \ {m}]
        BY <4>3
      <4> QED BY <3>3, <4>2, <4>4
    <3>4. CASE S # {} /\ m \notin S
      <4>1. S \in SUBSET (1..k)
        BY <3>1, <3>4
      <4>2. S \ {Max(S)} \in SUBSET (1..m) /\ m \notin S \ {Max(S)}
        BY <3>4
      <4>3. f[S] = Op(f[S \ {Max(S)}], s[Max(S)], c)
        BY <2>2, <3>4, <4>1 DEF IsIter
      <4> HIDE DEF m
      <4>4. g[S \ {Max(S)}] = f[S \ {Max(S)}]
        BY <4>2
      <4> QED BY <3>4, <4>3, <4>4
    <3> QED BY <3>2, <3>3, <3>4
  <2>4. g = h
    <3> HIDE DEF m
    <3> QED BY <2>3
  <2>5. IsIter(g, base, s, c, m)
    BY <2>4 DEF IsIter
  <2> QED BY <2>1, <2>5
<1> HIDE DEF P
<1>3. n \in P
  BY <1>1, <1>2, UpTo
<1> QED BY <1>3 DEF P

(* The first n steps of a fold: g[k] is the fold of the first k elements. *)
Steps(g, base, s, c, n) ==
    g[0] = base /\ \A k \in 1..n : g[k] = Op(g[k - 1], s[k], c)

LEMMA FoldSteps ==
    ASSUME NEW base, NEW s, NEW c, Len(s) \in Nat, DOMAIN s = 1..Len(s)
    PROVE  \E g : Steps(g, base, s, c, Len(s)) /\ Folded(base, s, c) = g[Len(s)]
<1> DEFINE n == Len(s)
           it == CHOOSE g : IsIter(g, base, s, c, n)
           g == [k \in 0..n |-> it[1..k]]
<1>0. n \in Nat
  OBVIOUS
<1>1. IsIter(it, base, s, c, n)
  BY IterExists
<1>2. Folded(base, s, c) = it[1..n]
  BY DEF Folded, FoldLeft, MapThenFoldSet, IsIter
<1> HIDE DEF it, n
<1>3. g[0] = base
  <2>1. 1..0 = {} /\ {} \in SUBSET (1..n) /\ 0 \in 0..n
    BY <1>0
  <2>2. it[{}] = base
    BY <1>1, <2>1 DEF IsIter
  <2> QED BY <2>1, <2>2
<1>4. ASSUME NEW k \in 1..n PROVE g[k] = Op(g[k - 1], s[k], c)
  <2>1. 1..k \in SUBSET (1..n) /\ 1..k # {} /\ k - 1 \in 0..n /\ k \in 0..n
    BY <1>0, <1>4, SMTT(30)
  <2>2. Max(1..k) = k
    <3>0. k \in Nat /\ k \in 1..k
      BY <1>0, <1>4
    <3>1. 1..k \in SUBSET (0..k)
      BY <3>0
    <3>2. Max(1..k) \in 1..k /\ \A i \in 1..k : i <= Max(1..k)
      BY <2>1, <3>0, <3>1, MaxIn
    <3> QED BY <3>0, <3>2
  <2>3. (1..k) \ {k} = 1..(k - 1)
    BY <1>4
  <2>4. it[1..k] = Op(it[(1..k) \ {Max(1..k)}], s[Max(1..k)], c)
    BY <1>1, <2>1 DEF IsIter
  <2> QED BY <2>1, <2>2, <2>3, <2>4
<1> HIDE DEF g
<1>5. Steps(g, base, s, c, n)
  BY <1>3, <1>4 DEF Steps
<1>6. g[n] = it[1..n]
  BY <1>0 DEF g
<1> QED BY <1>2, <1>5, <1>6 DEF n

(* The fold of nothing. *)
LEMMA FoldEmpty ==
    ASSUME NEW base, NEW c
    PROVE  Folded(base, <<>>, c) = base
<1>1. Len(<<>>) = 0 /\ DOMAIN <<>> = 1..0
  OBVIOUS
<1>2. PICK g : Steps(g, base, <<>>, c, Len(<<>>)) /\ Folded(base, <<>>, c) = g[Len(<<>>)]
  BY <1>1, FoldSteps
<1> QED BY <1>1, <1>2 DEF Steps

(* The values are determined. *)
LEMMA StepsAgree ==
    ASSUME NEW base, NEW s, NEW t, NEW c, NEW n \in Nat, NEW f, NEW g,
           Steps(f, base, s, c, n), Steps(g, base, t, c, n),
           \A k \in 1..n : s[k] = t[k]
    PROVE  f[n] = g[n]
<1> DEFINE P == {k \in 0..n : f[k] = g[k]}
<1>1. 0 \in P
  BY DEF Steps
<1>2. ASSUME NEW k \in 0..(n - 1), k \in P PROVE k + 1 \in P
  <2>1. k + 1 \in 1..n /\ k + 1 \in 0..n /\ (k + 1) - 1 = k
    BY <1>2
  <2> QED BY <1>2, <2>1 DEF Steps
<1> HIDE DEF P
<1>3. n \in P
  BY <1>1, <1>2, UpTo
<1> QED BY <1>3 DEF P

(* One element more is one step more. *)
LEMMA FoldAppend ==
    ASSUME NEW B, NEW base, NEW s \in Seq(B), NEW x \in B, NEW c
    PROVE  Folded(base, Append(s, x), c) = Op(Folded(base, s, c), x, c)
<1> DEFINE t == Append(s, x)
           n == Len(s)
<1>1. /\ n \in Nat /\ Len(t) = n + 1 /\ t[n + 1] = x /\ \A i \in 1..n : t[i] = s[i]
      /\ DOMAIN s = 1..n /\ DOMAIN t = 1..Len(t)
  OBVIOUS
<1> HIDE DEF t, n
<1>2. PICK f : Steps(f, base, s, c, n) /\ Folded(base, s, c) = f[n]
  BY <1>1, FoldSteps DEF n
<1>3. PICK g : Steps(g, base, t, c, n + 1) /\ Folded(base, t, c) = g[n + 1]
  BY <1>1, FoldSteps
<1>4. Steps(g, base, t, c, n)
  BY <1>1, <1>3 DEF Steps
<1>5. f[n] = g[n]
  <2>1. n \in Nat /\ \A k \in 1..n : s[k] = t[k]
    BY <1>1
  <2> QED BY <1>2, <1>4, <2>1, StepsAgree
<1>6. g[n + 1] = Op(g[n], x, c)
  <2>1. n + 1 \in 1..(n + 1) /\ (n + 1) - 1 = n
    BY <1>1
  <2> QED BY <1>1, <1>3, <2>1 DEF Steps
<1> QED BY <1>2, <1>3, <1>5, <1>6 DEF t
=============================================================================
