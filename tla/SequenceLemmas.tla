--------------------------- MODULE SequenceLemmas ---------------------------
(***************************************************************************)
(* What the proofs need to know of sequences of any length.  The induction *)
(* principles of the library are about an operator, which the provers      *)
(* cannot supply; the ones here are about a set of numbers.                *)
(***************************************************************************)
EXTENDS Integers, Sequences, SequencesExt, SequenceTheorems, WellFoundedInduction, TLAPS

(* A set of natural numbers that is not empty has a smallest one: what     *)
(* every induction below rests on.                                         *)
LEMMA Smallest ==
    ASSUME NEW T \in SUBSET Nat, T # {}
    PROVE  \E m \in T : \A i \in T : m <= i
<1> DEFINE R == OpToRel(<, Nat)
<1>1. R = {ss \in Nat \X Nat : ss[1] < ss[2]}
  BY DEF OpToRel
<1>2. IsWellFoundedOn(R, Nat)
  BY NatLessThanWellFounded
<1> HIDE DEF R
<1>3. PICK m \in T : \A i \in T : ~(<<i, m>> \in R)
  BY <1>2, WFMin, Zenon
<1>4. ASSUME NEW i \in T PROVE m <= i
  <2>1. ~(<<i, m>> \in R) /\ i \in Nat /\ m \in Nat
    BY <1>3
  <2> QED BY <1>1, <2>1
<1> QED BY <1>4

(* Induction up to n: a set that holds 0, and with a number below n the    *)
(* next one, holds all of them.                                            *)
LEMMA UpTo ==
    ASSUME NEW n \in Nat, NEW P, 0 \in P, \A k \in 0..(n - 1) : k \in P => k + 1 \in P
    PROVE  \A k \in 0..n : k \in P
<1> DEFINE T == {k \in 0..n : k \notin P}
<1>1. SUFFICES ASSUME T # {} PROVE FALSE
  OBVIOUS
<1>2. T \in SUBSET Nat
  OBVIOUS
<1>3. PICK m \in T : \A i \in T : m <= i
  <2> HIDE DEF T
  <2> QED BY <1>1, <1>2, Smallest
<1>4. m \in 0..n /\ m \notin P /\ m # 0
  OBVIOUS
<1>5. m - 1 \in 0..(n - 1) /\ m - 1 \in 0..n /\ (m - 1) + 1 = m /\ ~(m <= m - 1)
  BY <1>4
<1>6. m - 1 \notin T
  <2> HIDE DEF T
  <2> QED BY <1>3, <1>5
<1>7. m - 1 \in P
  BY <1>5, <1>6
<1> QED BY <1>4, <1>5, <1>7

(* The largest number of a set of numbers up to n. *)
LEMMA MaxIn ==
    ASSUME NEW n \in Nat, NEW S \in SUBSET (0..n), S # {}
    PROVE  Max(S) \in S /\ \A i \in S : i <= Max(S)
<1> DEFINE T == {n - i : i \in S}
<1>0. \A i \in S : i \in Int /\ n - i \in Nat
  OBVIOUS
<1>1. T \in SUBSET Nat /\ T # {}
  BY <1>0
<1>2. PICK m \in T : \A j \in T : m <= j
  <2> HIDE DEF T
  <2> QED BY <1>1, Smallest
<1>3. PICK x \in S : m = n - x
  BY <1>2
<1>4. ASSUME NEW y \in S PROVE x >= y
  <2>1. n - y \in T
    OBVIOUS
  <2>2. m <= n - y
    <3> HIDE DEF T
    <3> QED BY <1>2, <2>1
  <2>3. x \in Int /\ y \in Int
    OBVIOUS
  <2> QED BY <1>3, <2>2, <2>3
<1>5. Max(S) \in S /\ \A y \in S : Max(S) >= y
  BY <1>3, <1>4 DEF Max
<1> HIDE DEF T
<1>6. ASSUME NEW y \in S PROVE y <= Max(S)
  <2>1. y \in Int /\ Max(S) \in Int /\ Max(S) >= y
    BY <1>0, <1>5
  <2> QED BY <2>1
<1> QED BY <1>5, <1>6

-----------------------------------------------------------------------------
(* One element more *)

LEMMA AppendOf ==
    ASSUME NEW B, NEW s \in Seq(B), NEW t \in Seq(B), Len(t) = Len(s) + 1,
           \A i \in 1..Len(s) : t[i] = s[i]
    PROVE  t = Append(s, t[Len(s) + 1]) /\ t[Len(s) + 1] \in B
<1> DEFINE n == Len(s)
           x == t[n + 1]
           u == Append(s, x)
<1>1. n \in Nat /\ Len(t) = n + 1 /\ x \in B
  OBVIOUS
<1>2. u \in Seq(B) /\ Len(u) = n + 1 /\ u[n + 1] = x /\ \A i \in 1..n : u[i] = s[i]
  BY <1>1
<1>3. \A i \in 1..n : t[i] = s[i]
  OBVIOUS
<1> HIDE DEF u, n
<1>4. ASSUME NEW i \in 1..Len(t) PROVE t[i] = u[i]
  <2>1. i \in 1..n \/ i = n + 1
    BY <1>1
  <2> QED BY <1>2, <1>3, <2>1
<1>5. t = u
  BY <1>1, <1>2, <1>4, SeqEqual
<1> QED BY <1>1, <1>5 DEF u, n

(* A part that reaches to the end grows with the sequence. *)
LEMMA SubSeqAppend ==
    ASSUME NEW B, NEW s \in Seq(B), NEW x \in B, NEW b \in 1..(Len(s) + 1)
    PROVE  /\ SubSeq(s, b, Len(s)) \in Seq(B)
           /\ SubSeq(Append(s, x), b, Len(s) + 1) = Append(SubSeq(s, b, Len(s)), x)
<1> DEFINE n == Len(s)
           s1 == Append(s, x)
           p == SubSeq(s, b, n)
           q == SubSeq(s1, b, n + 1)
<1>1. /\ n \in Nat /\ s1 \in Seq(B) /\ Len(s1) = n + 1 /\ s1[n + 1] = x
      /\ \A i \in 1..n : s1[i] = s[i] /\ s[i] \in B
  OBVIOUS
<1> HIDE DEF s1, n
<1>2. b \in Int /\ 1 <= b /\ b <= n + 1
  BY <1>1 DEF n
<1>3. p \in Seq(B) /\ Len(p) = (n + 1) - b /\ \A i \in 1..((n + 1) - b) : p[i] = s[b + i - 1]
  <2>1. \A i \in b..n : s[i] \in B
    BY <1>1, <1>2
  <2>2. /\ p \in Seq(B) /\ Len(p) = IF b <= n THEN n - b + 1 ELSE 0
        /\ \A i \in 1..(n - b + 1) : p[i] = s[b + i - 1]
    BY <1>1, <1>2, <2>1, SubSeqProperties
  <2> QED BY <1>1, <1>2, <2>2
<1>4. q \in Seq(B) /\ Len(q) = (n + 2) - b /\ \A i \in 1..((n + 2) - b) : q[i] = s1[b + i - 1]
  <2>1. \A i \in b..(n + 1) : s1[i] \in B
    BY <1>1, <1>2
  <2>2. /\ q \in Seq(B) /\ Len(q) = IF b <= n + 1 THEN (n + 1) - b + 1 ELSE 0
        /\ \A i \in 1..((n + 1) - b + 1) : q[i] = s1[b + i - 1]
    BY <1>1, <1>2, <2>1, SubSeqProperties
  <2> QED BY <1>1, <1>2, <2>2
<1> HIDE DEF p, q
<1>5. Len(q) = Len(p) + 1
  BY <1>1, <1>2, <1>3, <1>4
<1>6. ASSUME NEW i \in 1..Len(p) PROVE q[i] = p[i]
  <2>1. i \in 1..((n + 1) - b) /\ i \in 1..((n + 2) - b) /\ b + i - 1 \in 1..n
    BY <1>1, <1>2, <1>3
  <2> QED BY <1>1, <1>3, <1>4, <2>1
<1>7. q[Len(p) + 1] = x
  <2>1. Len(p) + 1 \in 1..((n + 2) - b) /\ b + (Len(p) + 1) - 1 = n + 1
    BY <1>1, <1>2, <1>3
  <2> QED BY <1>1, <1>4, <2>1
<1>8. q = Append(p, q[Len(p) + 1])
  BY <1>3, <1>4, <1>5, <1>6, AppendOf
<1> QED BY <1>3, <1>7, <1>8 DEF p, q, s1, n

(* A part that does not reach to the end does not. *)
LEMMA SubSeqSame ==
    ASSUME NEW B, NEW s \in Seq(B), NEW x \in B, NEW b \in Nat \ {0}, NEW e \in 0..Len(s)
    PROVE  SubSeq(Append(s, x), b, e) = SubSeq(s, b, e)
<1> DEFINE s1 == Append(s, x)
           p == SubSeq(s, b, e)
           q == SubSeq(s1, b, e)
<1>1. s1 \in Seq(B) /\ Len(s) \in Nat /\ \A i \in 1..Len(s) : s1[i] = s[i] /\ s[i] \in B
  OBVIOUS
<1> HIDE DEF s1
<1>2. \A i \in b..e : i \in 1..Len(s) /\ s1[i] = s[i] /\ s[i] \in B
  BY <1>1
<1>3. \A i \in 1..(e - b + 1) : b + i - 1 \in b..e
  OBVIOUS
<1>4. /\ p \in Seq(B) /\ Len(p) = IF b <= e THEN e - b + 1 ELSE 0
      /\ \A i \in 1..(e - b + 1) : p[i] = s[b + i - 1]
  BY <1>2, SubSeqProperties
<1>5. /\ q \in Seq(B) /\ Len(q) = IF b <= e THEN e - b + 1 ELSE 0
      /\ \A i \in 1..(e - b + 1) : q[i] = s1[b + i - 1]
  BY <1>2, SubSeqProperties
<1> HIDE DEF p, q
<1>6. ASSUME NEW i \in 1..Len(p) PROVE p[i] = q[i]
  <2>1. i \in 1..(e - b + 1)
    BY <1>4
  <2>2. b + i - 1 \in b..e
    BY <1>3, <2>1
  <2> QED BY <1>2, <1>4, <1>5, <2>1, <2>2
<1>7. p = q
  BY <1>4, <1>5, <1>6, SeqEqual
<1> QED BY <1>7 DEF p, q, s1

-----------------------------------------------------------------------------
(* The place after the last x before place k *)

After(s, x, k) == Max({0} \union {j \in 1..(k - 1) : s[j] = x}) + 1

LEMMA AfterProperties ==
    ASSUME NEW s, NEW x, NEW k \in Nat \ {0}
    PROVE  /\ After(s, x, k) \in 1..k
           /\ After(s, x, k) # 1 => s[After(s, x, k) - 1] = x
           /\ \A j \in After(s, x, k)..(k - 1) : s[j] # x
<1> DEFINE S == {0} \union {j \in 1..(k - 1) : s[j] = x}
           m == Max(S)
<1>1. k - 1 \in Nat /\ S \in SUBSET (0..(k - 1)) /\ S # {}
  OBVIOUS
<1>2. m \in S /\ \A i \in S : i <= m
  <2> HIDE DEF S
  <2> QED BY <1>1, MaxIn
<1>3. m \in 0..(k - 1) /\ (m # 0 => s[m] = x)
  BY <1>2
<1>4. ASSUME NEW j \in (m + 1)..(k - 1) PROVE s[j] # x
  <2>1. j \in 1..(k - 1) /\ ~(j <= m)
    BY <1>3, <1>4
  <2>2. j \notin S
    BY <1>2, <2>1
  <2> QED BY <2>1, <2>2
<1>5. After(s, x, k) = m + 1
  BY DEF After
<1> HIDE DEF m
<1>6. After(s, x, k) \in 1..k /\ After(s, x, k) - 1 = m
  BY <1>3, <1>5
<1> QED BY <1>3, <1>4, <1>5, <1>6

(* These determine it. *)
LEMMA AfterUnique ==
    ASSUME NEW s, NEW x, NEW k \in Nat \ {0}, NEW b \in 1..k, b # 1 => s[b - 1] = x,
           \A j \in b..(k - 1) : s[j] # x
    PROVE  After(s, x, k) = b
<1> DEFINE c == After(s, x, k)
<1>1. c \in 1..k /\ (c # 1 => s[c - 1] = x) /\ \A j \in c..(k - 1) : s[j] # x
  BY AfterProperties
<1> HIDE DEF c
<1>2. CASE c < b
  <2>1. b # 1 /\ b - 1 \in c..(k - 1)
    BY <1>1, <1>2
  <2> QED BY <1>1, <2>1
<1>3. CASE b < c
  <2>1. c # 1 /\ c - 1 \in b..(k - 1)
    BY <1>1, <1>3
  <2> QED BY <1>1, <2>1
<1> QED BY <1>1, <1>2, <1>3 DEF c

(* With one element more: up to its place nothing changes, ... *)
LEMMA AfterStays ==
    ASSUME NEW B, NEW s \in Seq(B), NEW e \in B, NEW x, NEW k \in 1..(Len(s) + 1)
    PROVE  After(Append(s, e), x, k) = After(s, x, k)
<1> DEFINE t == Append(s, e)
           b == After(s, x, k)
<1>1. Len(s) \in Nat /\ k \in Nat \ {0} /\ \A j \in 1..Len(s) : t[j] = s[j]
  OBVIOUS
<1> HIDE DEF t
<1>2. b \in 1..k /\ (b # 1 => s[b - 1] = x) /\ \A j \in b..(k - 1) : s[j] # x
  BY <1>1, AfterProperties
<1> HIDE DEF b
<1>3. b # 1 => t[b - 1] = x
  BY <1>1, <1>2
<1>4. \A j \in b..(k - 1) : t[j] # x
  BY <1>1, <1>2
<1>5. After(t, x, k) = b
  BY <1>1, <1>2, <1>3, <1>4, AfterUnique
<1> QED BY <1>5 DEF t, b

(* ... and after it only if it is x. *)
LEMMA AfterAppend ==
    ASSUME NEW B, NEW s \in Seq(B), NEW e \in B, NEW x
    PROVE  After(Append(s, e), x, Len(s) + 2) =
               IF e = x THEN Len(s) + 2 ELSE After(s, x, Len(s) + 1)
<1> DEFINE t == Append(s, e)
           n == Len(s)
           k == n + 2
<1>1. n \in Nat /\ k \in Nat \ {0} /\ t[n + 1] = e /\ \A j \in 1..n : t[j] = s[j]
  OBVIOUS
<1> HIDE DEF t, n
<1>2. CASE e = x
  <2>1. k \in 1..k /\ k - 1 = n + 1 /\ k..(k - 1) = {}
    BY <1>1
  <2>2. t[k - 1] = x /\ \A j \in k..(k - 1) : t[j] # x
    BY <1>1, <1>2, <2>1
  <2> HIDE DEF k
  <2>3. After(t, x, k) = k
    BY <1>1, <2>1, <2>2, AfterUnique
  <2> QED BY <1>2, <2>3 DEF t, n, k
<1>3. CASE e # x
  <2> DEFINE b == After(s, x, n + 1)
  <2>1. n + 1 \in Nat \ {0} /\ (n + 1) - 1 = n
    BY <1>1
  <2>2. b \in 1..(n + 1) /\ (b # 1 => s[b - 1] = x) /\ \A j \in b..n : s[j] # x
    BY <2>1, AfterProperties
  <2> HIDE DEF b
  <2>3. b \in 1..k /\ (b # 1 => t[b - 1] = x)
    BY <1>1, <2>2
  <2>4. ASSUME NEW j \in b..(k - 1) PROVE t[j] # x
    <3>1. j = n + 1 \/ (j \in b..n /\ j \in 1..n)
      BY <1>1, <2>2
    <3> QED BY <1>1, <1>3, <2>2, <3>1
  <2>5. After(t, x, k) = b
    BY <1>1, <2>3, <2>4, AfterUnique
  <2> QED BY <1>3, <2>5 DEF b, t, n
<1> QED BY <1>2, <1>3

-----------------------------------------------------------------------------
(* FlattenSeq *)

(* The i-th value is the concatenation of the first i sequences. *)
Joins(s, f) ==
    \A i \in 1..Len(s) : f[i] = IF i = 1 THEN s[i] ELSE f[i - 1] \o s[i]

LEMMA JoinsExists ==
    ASSUME NEW s, Len(s) \in Nat
    PROVE  \E f : f = [i \in 1..Len(s) |-> IF i = 1 THEN s[i] ELSE f[i - 1] \o s[i]]
<1> DEFINE G(n) == \E f : f = [i \in 1..n |-> IF i = 1 THEN s[i] ELSE f[i - 1] \o s[i]]
           T == {n \in Nat : ~G(n)}
<1>1. SUFFICES T = {}
  BY <1>1
<1>2. SUFFICES ASSUME T # {} PROVE FALSE
  OBVIOUS
<1>3. PICK m \in T : \A n \in T : m <= n
  <2> HIDE DEF T
  <2>1. T \in SUBSET Nat
    BY DEF T
  <2> QED BY <1>2, <2>1, Smallest
<1>4. m \in Nat /\ ~G(m) /\ \A n \in Nat : n < m => G(n)
  <2>1. m \in Nat /\ ~G(m)
    OBVIOUS
  <2>2. ASSUME NEW n \in Nat, n < m PROVE G(n)
    <3>1. n \notin T
      <4> HIDE DEF T
      <4> QED BY <1>3, <2>1, <2>2
    <3> QED BY <3>1
  <2> QED BY <2>1, <2>2
<1>5. CASE m = 0
  <2> DEFINE g == [i \in 1..0 |-> 0]
  <2>1. g = [i \in 1..0 |-> IF i = 1 THEN s[i] ELSE g[i - 1] \o s[i]]
    OBVIOUS
  <2> QED BY <1>4, <1>5, <2>1
<1>6. CASE m > 0
  <2>1. m - 1 \in Nat /\ m - 1 < m
    BY <1>4, <1>6
  <2>2. G(m - 1)
    <3> HIDE DEF G
    <3> QED BY <1>4, <2>1
  <2>3. PICK f : f = [i \in 1..(m - 1) |-> IF i = 1 THEN s[i] ELSE f[i - 1] \o s[i]]
    BY <2>2
  <2>4. \A i \in 1..(m - 1) : f[i] = IF i = 1 THEN s[i] ELSE f[i - 1] \o s[i]
    BY <2>3
  <2> DEFINE g == [i \in 1..m |-> IF i = m THEN (IF m = 1 THEN s[m] ELSE f[m - 1] \o s[m]) ELSE f[i]]
             h == [i \in 1..m |-> IF i = 1 THEN s[i] ELSE g[i - 1] \o s[i]]
  <2>5. ASSUME NEW i \in 1..m PROVE g[i] = h[i]
    <3>1. CASE i = m
      <4>1. m # 1 => m - 1 \in 1..m /\ m - 1 # m
        BY <1>4, <1>6
      <4>2. m # 1 => g[m - 1] = f[m - 1]
        BY <4>1
      <4> QED BY <3>1, <4>2
    <3>2. CASE i # m
      <4>1. i \in 1..(m - 1) /\ (i # 1 => i - 1 \in 1..m /\ i - 1 # m)
        BY <1>4, <1>6, <2>5, <3>2
      <4>2. g[i] = f[i] /\ (i # 1 => g[i - 1] = f[i - 1])
        BY <3>2, <4>1
      <4> QED BY <2>4, <4>1, <4>2
    <3> QED BY <3>1, <3>2
  <2>6. g = h
    BY <2>5
  <2>7. G(m)
    BY <2>6
  <2> QED BY <1>4, <2>7
<1> QED BY <1>4, <1>5, <1>6

LEMMA FlattenJoins ==
    ASSUME NEW s, Len(s) \in Nat \ {0}
    PROVE  \E f : Joins(s, f) /\ FlattenSeq(s) = f[Len(s)]
<1> DEFINE fl == CHOOSE f : f = [i \in 1..Len(s) |-> IF i = 1 THEN s[i] ELSE f[i - 1] \o s[i]]
<1>1. fl = [i \in 1..Len(s) |-> IF i = 1 THEN s[i] ELSE fl[i - 1] \o s[i]]
  BY JoinsExists
<1>2. FlattenSeq(s) = fl[Len(s)]
  BY DEF FlattenSeq
<1> HIDE DEF fl
<1>3. Joins(s, fl)
  BY <1>1 DEF Joins
<1> QED BY <1>2, <1>3

(* They are sequences of the same elements. *)
LEMMA JoinsType ==
    ASSUME NEW B, NEW s \in Seq(Seq(B)), NEW f, Joins(s, f)
    PROVE  \A i \in 1..Len(s) : f[i] \in Seq(B)
<1> DEFINE T == {i \in 1..Len(s) : f[i] \notin Seq(B)}
<1>1. SUFFICES ASSUME T # {} PROVE FALSE
  OBVIOUS
<1>2. PICK m \in T : \A i \in T : m <= i
  <2>1. T \in SUBSET Nat
    OBVIOUS
  <2> HIDE DEF T
  <2> QED BY <1>1, <2>1, Smallest
<1>3. /\ m \in 1..Len(s) /\ f[m] \notin Seq(B) /\ Len(s) \in Nat
      /\ \A i \in 1..Len(s) : i < m => f[i] \in Seq(B)
  BY <1>2
<1>4. f[m] = IF m = 1 THEN s[m] ELSE f[m - 1] \o s[m]
  BY <1>3 DEF Joins
<1>5. s[m] \in Seq(B)
  BY <1>3
<1>6. m # 1 => f[m - 1] \in Seq(B)
  BY <1>3
<1>7. m # 1 => f[m - 1] \o s[m] \in Seq(B)
  BY <1>5, <1>6, ConcatProperties
<1> QED BY <1>3, <1>4, <1>5, <1>7

LEMMA FlattenType ==
    ASSUME NEW B, NEW s \in Seq(Seq(B))
    PROVE  FlattenSeq(s) \in Seq(B)
<1>1. CASE Len(s) = 0
  <2>1. FlattenSeq(s) = s /\ s = <<>>
    BY <1>1, EmptySeq DEF FlattenSeq
  <2> QED BY <2>1
<1>2. CASE Len(s) # 0
  <2>1. Len(s) \in Nat \ {0} /\ Len(s) \in 1..Len(s)
    BY <1>2
  <2>2. PICK f : Joins(s, f) /\ FlattenSeq(s) = f[Len(s)]
    BY <2>1, FlattenJoins
  <2> QED BY <2>1, <2>2, JoinsType
<1> QED BY <1>1, <1>2

LEMMA FlattenEmpty == FlattenSeq(<<>>) = <<>>
<1>1. Len(<<>>) = 0
  OBVIOUS
<1> QED BY <1>1 DEF FlattenSeq

LEMMA FlattenAppend ==
    ASSUME NEW B, NEW s \in Seq(Seq(B)), NEW x \in Seq(B)
    PROVE  FlattenSeq(Append(s, x)) = FlattenSeq(s) \o x
<1> DEFINE u == Append(s, x)
           n == Len(s)
<1>1. /\ n \in Nat /\ Len(u) = n + 1 /\ u[n + 1] = x /\ \A i \in 1..n : u[i] = s[i]
  OBVIOUS
<1> HIDE DEF u, n
<1>2. PICK g : Joins(u, g) /\ FlattenSeq(u) = g[n + 1]
  <2>1. Len(u) \in Nat \ {0}
    BY <1>1
  <2> QED BY <1>1, <2>1, FlattenJoins
<1>3. g[n + 1] = IF n + 1 = 1 THEN x ELSE g[n] \o x
  <2>1. n + 1 \in 1..Len(u) /\ (n + 1) - 1 = n
    BY <1>1
  <2>2. g[n + 1] = IF n + 1 = 1 THEN u[n + 1] ELSE g[(n + 1) - 1] \o u[n + 1]
    BY <1>2, <2>1 DEF Joins
  <2> QED BY <1>1, <2>1, <2>2
<1>4. CASE n = 0
  <2>1. s = <<>> /\ FlattenSeq(s) = <<>>
    BY <1>4, EmptySeq, FlattenEmpty DEF n
  <2>2. <<>> \o x = x
    BY ConcatEmptySeq
  <2> QED BY <1>2, <1>3, <1>4, <2>1, <2>2 DEF u
<1>5. CASE n # 0
  <2>1. n \in Nat \ {0} /\ n \in 1..n /\ n + 1 # 1
    BY <1>1, <1>5
  <2>2. PICK f : Joins(s, f) /\ FlattenSeq(s) = f[n]
    BY <2>1, FlattenJoins DEF n
  <2>3. \A i \in 1..n : f[i] = g[i]
    <3> DEFINE T == {i \in 1..n : f[i] # g[i]}
    <3>1. SUFFICES ASSUME T # {} PROVE FALSE
      OBVIOUS
    <3>2. PICK m \in T : \A i \in T : m <= i
      <4>1. T \in SUBSET Nat
        BY <1>1
      <4> HIDE DEF T
      <4> QED BY <3>1, <4>1, Smallest
    <3>3. m \in 1..n /\ f[m] # g[m] /\ \A i \in 1..n : i < m => f[i] = g[i]
      BY <1>1, <3>2
    <3> HIDE DEF T
    <3>4. m \in 1..Len(u) /\ s[m] = u[m] /\ (m # 1 => f[m - 1] = g[m - 1])
      BY <1>1, <3>3
    <3>5. /\ f[m] = IF m = 1 THEN s[m] ELSE f[m - 1] \o s[m]
          /\ g[m] = IF m = 1 THEN u[m] ELSE g[m - 1] \o u[m]
      BY <1>2, <2>2, <3>3, <3>4 DEF Joins, n
    <3> QED BY <3>3, <3>4, <3>5
  <2> QED BY <1>2, <1>3, <2>1, <2>2, <2>3 DEF u
<1> QED BY <1>4, <1>5

LEMMA FlattenHead ==
    ASSUME NEW B, NEW s \in Seq(Seq(B)), s # <<>>
    PROVE  FlattenSeq(s) = Head(s) \o FlattenSeq(Tail(s))
<1> DEFINE t == Tail(s)
           n == Len(t)
           h == Head(s)
<1>1. /\ t \in Seq(Seq(B)) /\ n \in Nat /\ Len(s) = n + 1 /\ h \in Seq(B) /\ h = s[1]
      /\ \A i \in 1..n : t[i] = s[i + 1]
  <2>1. t \in Seq(Seq(B)) /\ Len(s) \in Nat /\ Len(s) > 0 /\ n = Len(s) - 1 /\ h \in Seq(B)
    BY HeadTailProperties, EmptySeq
  <2>2. \A i \in 1..n : t[i] = s[i + 1]
    BY HeadTailProperties
  <2>3. h = s[1]
    OBVIOUS
  <2> HIDE DEF t, n, h
  <2> QED BY <2>1, <2>2, <2>3
<1> HIDE DEF t, n, h
<1>2. PICK f : Joins(s, f) /\ FlattenSeq(s) = f[n + 1]
  <2>1. Len(s) \in Nat \ {0}
    BY <1>1
  <2> QED BY <1>1, <2>1, FlattenJoins
<1>3. f[1] = h /\ \A i \in 1..n : f[i + 1] = f[i] \o t[i]
  <2>1. f[1] = h
    BY <1>1, <1>2 DEF Joins
  <2>2. ASSUME NEW i \in 1..n PROVE f[i + 1] = f[i] \o t[i]
    <3>1. i + 1 \in 1..Len(s) /\ i + 1 # 1 /\ (i + 1) - 1 = i
      BY <1>1
    <3>2. f[i + 1] = f[(i + 1) - 1] \o s[i + 1]
      BY <1>2, <3>1 DEF Joins
    <3> QED BY <1>1, <3>1, <3>2
  <2> QED BY <2>1, <2>2
<1>4. CASE n = 0
  <2>1. t = <<>> /\ FlattenSeq(t) = <<>>
    BY <1>1, <1>4, EmptySeq, FlattenEmpty DEF n
  <2>2. h \o <<>> = h
    BY <1>1, ConcatEmptySeq
  <2> QED BY <1>2, <1>3, <1>4, <2>1, <2>2 DEF t, h
<1>5. CASE n # 0
  <2>1. PICK g : Joins(t, g) /\ FlattenSeq(t) = g[n]
    <3>1. Len(t) \in Nat \ {0}
      BY <1>1, <1>5 DEF n
    <3> QED BY <3>1, FlattenJoins DEF n
  <2>2. \A i \in 1..n : g[i] \in Seq(B) /\ t[i] \in Seq(B)
    BY <1>1, <2>1, JoinsType DEF n
  <2>3. \A i \in 1..n : g[i] = IF i = 1 THEN t[i] ELSE g[i - 1] \o t[i]
    BY <2>1 DEF Joins, n
  <2> DEFINE T == {i \in 1..n : f[i + 1] # h \o g[i]}
  <2>4. ASSUME T # {} PROVE FALSE
    <3>1. PICK m \in T : \A i \in T : m <= i
      <4>1. T \subseteq 1..n
        BY Zenon
      <4> HIDE DEF T
      <4>2. T \in SUBSET Nat
        BY <1>1, <4>1
      <4> QED BY <2>4, <4>2, Smallest
    <3>2. m \in 1..n /\ f[m + 1] # h \o g[m] /\ \A i \in 1..n : i < m => f[i + 1] = h \o g[i]
      <4>1. m \in 1..n /\ f[m + 1] # h \o g[m]
        BY <3>1, Zenon
      <4>2. ASSUME NEW i \in 1..n, i < m PROVE i \notin T
        <5> HIDE DEF T
        <5> QED BY <1>1, <3>1, <4>1, <4>2
      <4> QED BY <4>1, <4>2, Zenon
    <3> HIDE DEF T
    <3>3. CASE m = 1
      BY <1>1, <1>3, <2>3, <3>2, <3>3
    <3>4. CASE m # 1
      <4>1. m - 1 \in 1..n /\ m - 1 < m /\ (m - 1) + 1 = m
        BY <1>1, <3>2, <3>4
      <4>2. f[m] = h \o g[m - 1]
        BY <3>2, <4>1
      <4>3. f[m + 1] = (h \o g[m - 1]) \o t[m]
        BY <1>3, <3>2, <4>2
      <4>4. (h \o g[m - 1]) \o t[m] = h \o (g[m - 1] \o t[m])
        <5>1. h \in Seq(B) /\ g[m - 1] \in Seq(B) /\ t[m] \in Seq(B)
          BY <1>1, <2>2, <3>2, <4>1
        <5>2. ASSUME NEW a \in Seq(B), NEW b \in Seq(B), NEW c \in Seq(B)
              PROVE  (a \o b) \o c = a \o (b \o c)
          BY ONLY ConcatAssociative, <5>2, SMTT(30)
        <5> QED BY <5>1, <5>2, Zenon
      <4>5. g[m] = g[m - 1] \o t[m]
        BY <2>3, <3>2, <3>4
      <4> QED BY <3>2, <4>3, <4>4, <4>5
    <3> QED BY <3>3, <3>4
  <2>5. n \in 1..n
    BY <1>1, <1>5
  <2>6. f[n + 1] = h \o g[n]
    BY <2>4, <2>5
  <2> QED BY <1>2, <2>1, <2>6 DEF t, h
<1> QED BY <1>4, <1>5

(* A sequence of parts with one part more. *)
LEMMA FlattenMore ==
    ASSUME NEW B, NEW n \in Nat, NEW p \in [1..n -> Seq(B)], NEW q \in [1..(n + 1) -> Seq(B)],
           \A i \in 1..n : q[i] = p[i]
    PROVE  FlattenSeq(p) \in Seq(B) /\ FlattenSeq(q) = FlattenSeq(p) \o q[n + 1]
<1>1. /\ p \in Seq(Seq(B)) /\ Len(p) = n
      /\ q \in Seq(Seq(B)) /\ Len(q) = n + 1
      /\ q[n + 1] \in Seq(B)
  OBVIOUS
<1>2. q = Append(p, q[n + 1])
  BY <1>1, AppendOf
<1>3. FlattenSeq(Append(p, q[n + 1])) = FlattenSeq(p) \o q[n + 1]
  BY <1>1, FlattenAppend
<1> QED BY <1>1, <1>2, <1>3, FlattenType

(* Empty sequences at the end add nothing. *)
LEMMA FlattenCut ==
    ASSUME NEW B, NEW p \in Seq(Seq(B)), NEW q \in Seq(Seq(B)), Len(p) <= Len(q),
           \A i \in 1..Len(p) : p[i] = q[i],
           \A i \in (Len(p) + 1)..Len(q) : q[i] = <<>>
    PROVE  FlattenSeq(p) \in Seq(B) /\ FlattenSeq(q) = FlattenSeq(p)
<1> DEFINE n == Len(q)
           k == Len(p)
           cut(m) == [i \in 1..m |-> q[i]]
           P == {d \in 0..(n - k) : FlattenSeq(cut(k + d)) = FlattenSeq(cut(k))}
<1>0. /\ n \in Nat /\ k \in 0..n /\ q \in [1..n -> Seq(B)] /\ p \in [1..k -> Seq(B)]
      /\ (\A i \in 1..k : p[i] = q[i]) /\ \A i \in (k + 1)..n : q[i] = <<>>
  OBVIOUS
<1> HIDE DEF n, k
<1>1. n - k \in Nat /\ 0 \in P
  <2>1. k + 0 = k /\ 0 \in 0..(n - k) /\ n - k \in Nat
    BY <1>0
  <2> QED BY <2>1, Zenon
<1>2. ASSUME NEW m \in 0..(n - 1)
      PROVE  FlattenSeq(cut(m)) \in Seq(B) /\ FlattenSeq(cut(m + 1)) = FlattenSeq(cut(m)) \o q[m + 1]
  <2>1. /\ m \in Nat /\ cut(m) \in [1..m -> Seq(B)] /\ cut(m + 1) \in [1..(m + 1) -> Seq(B)]
        /\ \A i \in 1..m : cut(m + 1)[i] = cut(m)[i]
        /\ cut(m + 1)[m + 1] = q[m + 1]
    BY <1>0
  <2> HIDE DEF cut
  <2>2. FlattenSeq(cut(m)) \in Seq(B) /\ FlattenSeq(cut(m + 1)) = FlattenSeq(cut(m)) \o cut(m + 1)[m + 1]
    BY ONLY <2>1, FlattenMore
  <2> QED BY <2>1, <2>2
<1> HIDE DEF cut
<1>3. ASSUME NEW d \in 0..((n - k) - 1), d \in P PROVE d + 1 \in P
  <2>1. /\ k + d \in 0..(n - 1) /\ (k + d) + 1 \in (k + 1)..n /\ k + (d + 1) = (k + d) + 1
        /\ d + 1 \in 0..(n - k)
    BY <1>0, <1>3
  <2>2. FlattenSeq(cut((k + d) + 1)) = FlattenSeq(cut(k + d)) \o <<>> /\ FlattenSeq(cut(k + d)) \in Seq(B)
    BY <1>0, <1>2, <2>1
  <2>3. FlattenSeq(cut((k + d) + 1)) = FlattenSeq(cut(k + d))
    BY <2>2, ConcatEmptySeq
  <2> QED BY <1>3, <2>1, <2>3
<1>4. n - k \in P
  <2> HIDE DEF P
  <2>1. \A d \in 0..(n - k) : d \in P
    BY <1>1, <1>3, UpTo
  <2>2. n - k \in 0..(n - k)
    BY <1>1
  <2> QED BY <2>1, <2>2
<1>5. k + (n - k) = n
  BY <1>0
<1>6. q = cut(n) /\ p = cut(k)
  BY <1>0 DEF cut
<1>7. FlattenSeq(q) \in Seq(B)
  BY FlattenType
<1>8. FlattenSeq(cut(n)) = FlattenSeq(cut(k))
  BY <1>4, <1>5
<1> QED BY <1>6, <1>7, <1>8

(* One of the sequences, behind which all are empty, is filled. *)
Fills(p, q, h) ==
    /\ h \in 1..Len(p) /\ h <= Len(q)
    /\ \A i \in 1..(h - 1) : q[i] = p[i]
    /\ \A i \in h..Len(p) : p[i] = <<>>
    /\ \A i \in (h + 1)..Len(q) : q[i] = <<>>

LEMMA FlattenOne ==
    ASSUME NEW B, NEW p \in Seq(Seq(B)), NEW q \in Seq(Seq(B)), NEW h, Fills(p, q, h)
    PROVE  FlattenSeq(p) \in Seq(B) /\ FlattenSeq(q) = FlattenSeq(p) \o q[h]
<1> DEFINE g == h - 1
           a == [i \in 1..g |-> p[i]]
<1>0. /\ h \in 1..Len(p) /\ h <= Len(q) /\ (\A i \in 1..(h - 1) : q[i] = p[i])
      /\ (\A i \in h..Len(p) : p[i] = <<>>) /\ \A i \in (h + 1)..Len(q) : q[i] = <<>>
  BY DEF Fills
<1>1. g \in Nat /\ g + 1 = h /\ h \in 1..Len(q)
  BY <1>0
<1>2. a \in Seq(Seq(B)) /\ Len(a) = g /\ Len(a) <= Len(p) /\ \A i \in 1..Len(a) : a[i] = p[i]
  BY <1>0
<1>3. \A i \in (Len(a) + 1)..Len(p) : p[i] = <<>>
  BY <1>0, <1>1, <1>2
<1>4. q[h] \in Seq(B)
  BY <1>1
<1> DEFINE b == Append(a, q[h])
<1>5. /\ b \in Seq(Seq(B)) /\ Len(b) = h /\ Len(b) <= Len(q)
      /\ \A i \in 1..Len(b) : b[i] = q[i]
  <2>1. \A i \in 1..g : a[i] = q[i]
    BY <1>0
  <2> HIDE DEF a, g
  <2> QED BY <1>1, <1>2, <1>4, <2>1
<1>6. \A i \in (Len(b) + 1)..Len(q) : q[i] = <<>>
  BY <1>0, <1>5
<1> HIDE DEF a, g
<1>7. FlattenSeq(b) = FlattenSeq(a) \o q[h]
  BY <1>2, <1>4, FlattenAppend
<1> HIDE DEF b
<1>8. FlattenSeq(a) \in Seq(B) /\ FlattenSeq(p) = FlattenSeq(a)
  BY ONLY <1>2, <1>3, p \in Seq(Seq(B)), FlattenCut
<1>9. FlattenSeq(q) = FlattenSeq(b)
  BY ONLY <1>5, <1>6, q \in Seq(Seq(B)), FlattenCut
<1> QED BY <1>7, <1>8, <1>9

(* The smallest of a set of natural numbers. *)
LEMMA MinIn ==
    ASSUME NEW S \in SUBSET Nat, S # {}
    PROVE  Min(S) \in S /\ \A i \in S : Min(S) <= i
BY Smallest DEF Min

LEMMA MinIs ==
    ASSUME NEW S \in SUBSET Nat, NEW m \in S, \A i \in S : m <= i
    PROVE  Min(S) = m
<1>1. Min(S) \in S /\ \A i \in S : Min(S) <= i
  BY MinIn
<1>2. Min(S) \in Nat /\ m \in Nat /\ Min(S) <= m /\ m <= Min(S)
  BY <1>1
<1> QED BY <1>2
=============================================================================
