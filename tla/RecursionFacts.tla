--------------------------- MODULE RecursionFacts ---------------------------
(***************************************************************************)
(* Lemmas about induction and recursion that the proofs of several modules *)
(* need.  The library's induction theorems take the property as an         *)
(* operator; these take the set of the numbers, or sequences, that have    *)
(* it, and a step as a function.                                           *)
(***************************************************************************)
EXTENDS Integers, Sequences, SequenceTheorems, WellFoundedInduction, TLAPS

LEMMA LeastNumber ==
  ASSUME NEW T, T \subseteq Nat, T # {}
  PROVE  \E m \in T : \A n \in T : m <= n
<1> DEFINE R == {p \in Nat \X Nat : p[1] < p[2]}
<1>1. IsWellFoundedOn(R, Nat)
  BY NatLessThanWellFounded DEF OpToRel
<1> HIDE DEF R
<1>2. PICK m \in T : \A n \in T : ~(<<n, m>> \in R)
  BY <1>1, WFMin
<1>3. \A n \in T : ~(n < m)
  BY <1>2 DEF R
<1> QED
  BY <1>3

LEMMA GreatestNumber ==
  ASSUME NEW n \in Nat, NEW T, T \subseteq 0..n, T # {}
  PROVE  \E m \in T : \A k \in T : k <= m
<1> DEFINE U == {n - k : k \in T}
<1>1. U \subseteq Nat /\ U # {} /\ T \subseteq Nat
  <2>1. \A k \in T : k \in Nat /\ n - k \in Nat
    OBVIOUS
  <2> QED
    BY <2>1
<1>2. PICK u \in U : \A v \in U : u <= v
  <2> HIDE DEF U
  <2> QED
    BY <1>1, LeastNumber
<1>3. PICK m \in T : u = n - m
  OBVIOUS
<1>4. \A k \in T : n - m <= n - k /\ k \in Nat
  BY <1>1, <1>2, <1>3
<1> QED
  BY <1>4

LEMMA InductionOnNat ==
  ASSUME NEW T, T \subseteq Nat, 0 \in T, \A n \in T : n + 1 \in T
  PROVE  T = Nat
<1> SUFFICES ASSUME Nat \ T # {} PROVE FALSE
  OBVIOUS
<1>1. Nat \ T \subseteq Nat
  OBVIOUS
<1>2. PICK m \in Nat \ T : \A n \in Nat \ T : m <= n
  BY LeastNumber, <1>1
<1>3. m # 0 /\ m - 1 \in Nat /\ m = (m - 1) + 1
  BY <1>2
<1>4. m - 1 \in T
  BY <1>2, <1>3
<1> QED
  BY <1>2, <1>3, <1>4

LEMMA InductionOnSeq ==
  ASSUME NEW S, NEW T, T \subseteq Seq(S), <<>> \in T,
         \A s \in T : \A x \in S : Append(s, x) \in T
  PROVE  T = Seq(S)
<1> DEFINE L == {n \in Nat : \A s \in Seq(S) : Len(s) = n => s \in T}
<1>1. 0 \in L
  BY EmptySeq
<1>2. ASSUME NEW n \in L PROVE n + 1 \in L
  <2> SUFFICES ASSUME NEW s \in Seq(S), Len(s) = n + 1 PROVE s \in T
    OBVIOUS
  <2>1. s # <<>>
    BY EmptySeq
  <2>2. PICK r \in Seq(S), x \in S : s = Append(r, x)
    BY <2>1, SequenceEmptyOrAppend
  <2>3. Len(r) = n
    BY <2>2, AppendProperties, LenProperties
  <2> QED
    BY <2>2, <2>3
<1>3. L \subseteq Nat
  OBVIOUS
<1>4. L = Nat
  <2> HIDE DEF L
  <2> QED
    BY <1>1, <1>2, <1>3, InductionOnNat
<1> QED
  BY <1>4, LenProperties

\* f starts with base and goes on by step; f[n + 1] may depend on n.
Iterates(f, S, base, step) ==
  f \in [Nat -> S] /\ f[0] = base /\ \A n \in Nat : f[n + 1] = step[n][f[n]]

\* A value for 0 and a step define a function on all the numbers: from one for
\* the numbers up to n, for every n, and their agreement.
LEMMA RecursionOnNat ==
  ASSUME NEW S, NEW base \in S, NEW step \in [Nat -> [S -> S]]
  PROVE  \E f : Iterates(f, S, base, step)
<1> DEFINE UpTo(f, n) == /\ f \in [0..n -> S] /\ f[0] = base
                         /\ \A i \in 0..(n - 1) : f[i + 1] = step[i][f[i]]
           T == {n \in Nat : \E f : UpTo(f, n)}
           U == {n \in Nat : \A m \in Nat : \A f, g :
                   n <= m /\ UpTo(f, n) /\ UpTo(g, m) => f[n] = g[n]}
<1>1. 0 \in T
  <2>1. UpTo([i \in 0..0 |-> base], 0)
    OBVIOUS
  <2> QED
    BY <2>1
<1>2. ASSUME NEW n \in T PROVE n + 1 \in T
  <2>1. n \in Nat /\ n \in 0..n
    OBVIOUS
  <2>2. PICK f : UpTo(f, n)
    OBVIOUS
  <2> DEFINE g == [i \in 0..(n + 1) |-> IF i = n + 1 THEN step[n][f[n]] ELSE f[i]]
  <2>3. step[n][f[n]] \in S
    BY <2>1, <2>2
  <2>4. g \in [0..(n + 1) -> S] /\ g[0] = base
    BY <2>1, <2>2, <2>3
  <2>5. ASSUME NEW i \in 0..n PROVE g[i + 1] = step[i][g[i]]
    <3>1. g[i] = f[i] /\ i + 1 \in 0..(n + 1)
      OBVIOUS
    <3>2. CASE i = n
      BY <3>1, <3>2
    <3>3. CASE i # n
      <4>1. i \in 0..(n - 1) /\ i + 1 # n + 1
        BY <3>3
      <4> QED
        BY <2>2, <3>1, <4>1
    <3> QED
      BY <3>2, <3>3
  <2>6. UpTo(g, n + 1)
    <3>1. (n + 1) - 1 = n
      BY <2>1
    <3> HIDE DEF g
    <3> QED
      BY <2>4, <2>5, <3>1
  <2> HIDE DEF g, UpTo
  <2> QED
    BY <2>1, <2>6
<1>3. \A n \in Nat : \E f : UpTo(f, n)
  <2> HIDE DEF UpTo
  <2>1. T \subseteq Nat
    OBVIOUS
  <2>2. T = Nat
    <3> HIDE DEF T
    <3> QED
      BY <1>1, <1>2, <2>1, InductionOnNat
  <2> QED
    BY <2>2
<1>4. 0 \in U
  OBVIOUS
<1>5. ASSUME NEW n \in U PROVE n + 1 \in U
  <2>1. n \in Nat
    OBVIOUS
  <2> SUFFICES ASSUME NEW m \in Nat, NEW f, NEW g, n + 1 <= m, UpTo(f, n + 1), UpTo(g, m)
               PROVE  f[n + 1] = g[n + 1]
    <3> HIDE DEF UpTo
    <3> QED
      BY <2>1
  <2> DEFINE h == [i \in 0..n |-> f[i]]
  <2>2. UpTo(h, n)
    <3>1. \A i \in 0..n : i \in 0..(n + 1)
      BY <2>1
    <3>2. h \in [0..n -> S] /\ h[0] = base
      BY <2>1, <3>1
    <3>3. ASSUME NEW i \in 0..(n - 1) PROVE h[i + 1] = step[i][h[i]]
      <4>1. i \in 0..n /\ i + 1 \in 0..n /\ i \in 0..((n + 1) - 1)
        BY <2>1
      <4> QED
        BY <4>1
    <3> HIDE DEF h
    <3> QED
      BY <3>2, <3>3
  <2>3. h[n] = f[n]
    BY <2>1
  <2>4. h[n] = g[n]
    <3>1. n <= m
      BY <2>1
    <3> HIDE DEF h, UpTo
    <3> QED
      BY <2>2, <3>1
  <2>5. n \in 0..((n + 1) - 1) /\ n \in 0..(m - 1)
    BY <2>1
  <2> QED
    BY <2>3, <2>4, <2>5
<1>6. \A n \in Nat : \A m \in Nat : \A f, g : n <= m /\ UpTo(f, n) /\ UpTo(g, m) => f[n] = g[n]
  <2> HIDE DEF UpTo
  <2>1. U \subseteq Nat
    OBVIOUS
  <2>2. U = Nat
    <3> HIDE DEF U
    <3> QED
      BY <1>4, <1>5, <2>1, InductionOnNat
  <2> QED
    BY <2>2
<1> HIDE DEF T, U
<1> DEFINE F(n) == CHOOSE f : UpTo(f, n)
           h == [n \in Nat |-> F(n)[n]]
<1>7. \A n \in Nat : UpTo(F(n), n)
  <2> HIDE DEF UpTo
  <2> QED
    BY <1>3
<1> HIDE DEF F
<1>8. h \in [Nat -> S] /\ h[0] = base
  BY <1>7
<1>9. ASSUME NEW n \in Nat PROVE h[n + 1] = step[n][h[n]]
  <2>1. n \in 0..((n + 1) - 1) /\ n + 1 \in Nat /\ n <= n + 1
    OBVIOUS
  <2>2. F(n + 1)[n + 1] = step[n][F(n + 1)[n]]
    BY <1>7, <2>1
  <2>3. F(n)[n] = F(n + 1)[n]
    <3> HIDE DEF UpTo
    <3> QED
      BY <1>6, <1>7, <2>1
  <2> QED
    BY <2>1, <2>2, <2>3
<1> HIDE DEF h, UpTo
<1> QED
  BY <1>8, <1>9 DEF Iterates

----------------------------------------------------------------------------
(* Folds: what step makes of base and the elements of a sequence, one after *)
(* the other.                                                              *)

\* f[n] is what is made of the first n of q.
Follows(f, S, base, step, q) ==
  /\ f \in [0..Len(q) -> S] /\ f[0] = base
  /\ \A n \in 1..Len(q) : f[n] = step[q[n]][f[n - 1]]

FoldOf(v, S, base, step, q) == \E f : Follows(f, S, base, step, q) /\ v = f[Len(q)]

\* A function that goes on by step, as long as it has gone on in S, does so to the end.
LEMMA FoldIs ==
  ASSUME NEW E, NEW q \in Seq(E), NEW S, NEW base \in S, NEW step \in [E -> [S -> S]],
         NEW f, f = [n \in 0..Len(q) |-> f[n]], f[0] = base,
         \A n \in 1..Len(q) : f[n - 1] \in S => f[n] = step[q[n]][f[n - 1]]
  PROVE  Follows(f, S, base, step, q)
<1> DEFINE m == Len(q)
           T == {n \in Nat : n <= m => f[n] \in S}
<1>1. m \in Nat /\ \A n \in 1..m : q[n] \in E
  OBVIOUS
<1>2. 0 \in T
  OBVIOUS
<1>3. ASSUME NEW n \in T PROVE n + 1 \in T
  <2> SUFFICES ASSUME n + 1 <= m PROVE f[n + 1] \in S
    OBVIOUS
  <2>1. n + 1 \in 1..m /\ (n + 1) - 1 = n /\ f[n] \in S
    BY <1>1
  <2>2. f[n + 1] = step[q[n + 1]][f[n]] /\ q[n + 1] \in E
    BY <1>1, <2>1
  <2> QED
    BY <2>1, <2>2
<1>4. T = Nat
  <2>1. T \subseteq Nat
    OBVIOUS
  <2> HIDE DEF T
  <2> QED
    BY <1>2, <1>3, <2>1, InductionOnNat
<1>5. ASSUME NEW n \in 0..m PROVE f[n] \in S
  <2>1. n \in Nat /\ n <= m
    BY <1>1
  <2>2. n \in T
    <3> HIDE DEF T
    <3> QED
      BY ONLY <1>4, <2>1
  <2> QED
    BY ONLY <2>1, <2>2
<1>6. f \in [0..m -> S]
  <2>1. f = [n \in 0..m |-> f[n]]
    OBVIOUS
  <2>2. [n \in 0..m |-> f[n]] \in [0..m -> S]
    BY ONLY <1>5
  <2> QED
    BY ONLY <2>1, <2>2
<1>7. \A n \in 1..m : n - 1 \in 0..m
  BY <1>1
<1> QED
  BY <1>5, <1>6, <1>7 DEF Follows

LEMMA FoldExists ==
  ASSUME NEW E, NEW q \in Seq(E), NEW S, NEW base \in S, NEW step \in [E -> [S -> S]]
  PROVE  \E f : Follows(f, S, base, step, q)
<1> DEFINE m == Len(q)
           go == [n \in Nat |-> [s \in S |-> IF n + 1 \in 1..m THEN step[q[n + 1]][s] ELSE s]]
<1>1. m \in Nat /\ \A n \in 1..m : q[n] \in E
  OBVIOUS
<1>2. go \in [Nat -> [S -> S]]
  BY <1>1
<1>3. PICK g : Iterates(g, S, base, go)
  <2> HIDE DEF go
  <2> QED
    BY <1>2, RecursionOnNat
<1> DEFINE f == [n \in 0..m |-> g[n]]
<1>4. ASSUME NEW n \in 1..m PROVE f[n] = step[q[n]][f[n - 1]]
  <2>1. n - 1 \in Nat /\ (n - 1) + 1 = n /\ n - 1 \in 0..m /\ n \in 0..m
    BY <1>1
  <2>2. g[n - 1] \in S /\ g[n] = go[n - 1][g[n - 1]]
    BY <1>3, <2>1 DEF Iterates
  <2> QED
    BY <2>1, <2>2
<1>5. f \in [0..m -> S] /\ f[0] = base
  BY <1>1, <1>3 DEF Iterates
<1> HIDE DEF f
<1> QED
  BY <1>4, <1>5 DEF Follows

LEMMA FoldType ==
  ASSUME NEW E, NEW q \in Seq(E), NEW S, NEW base, NEW step, NEW v, FoldOf(v, S, base, step, q)
  PROVE  v \in S
BY DEF FoldOf, Follows

LEMMA FoldEmpty ==
  ASSUME NEW S, NEW base, NEW step, NEW v, FoldOf(v, S, base, step, <<>>)
  PROVE  v = base
BY DEF FoldOf, Follows

\* One more element is one more step: the two folds agree up to there.
LEMMA FoldAppend ==
  ASSUME NEW E, NEW q \in Seq(E), NEW e \in E, NEW S, NEW base, NEW step,
         NEW v, FoldOf(v, S, base, step, q),
         NEW w, FoldOf(w, S, base, step, Append(q, e))
  PROVE  v \in S /\ w = step[e][v]
<1> DEFINE m == Len(q)
           r == Append(q, e)
<1>1. /\ m \in Nat /\ Len(r) = m + 1 /\ r[m + 1] = e
      /\ \A n \in 1..m : r[n] = q[n]
  OBVIOUS
<1> HIDE DEF r
<1>2. PICK f : Follows(f, S, base, step, q) /\ v = f[m]
  BY DEF FoldOf
<1>3. PICK g : Follows(g, S, base, step, r) /\ w = g[Len(r)]
  BY DEF FoldOf, r
<1> DEFINE T == {n \in Nat : n <= m => g[n] = f[n]}
<1>4. 0 \in T
  BY <1>2, <1>3 DEF Follows
<1>5. ASSUME NEW n \in T PROVE n + 1 \in T
  <2> SUFFICES ASSUME n + 1 <= m PROVE g[n + 1] = f[n + 1]
    OBVIOUS
  <2>1. n + 1 \in 1..m /\ n + 1 \in 1..Len(r) /\ (n + 1) - 1 = n /\ g[n] = f[n]
    BY <1>1
  <2> QED
    BY <1>1, <1>2, <1>3, <2>1 DEF Follows
<1>6. T = Nat
  <2>1. T \subseteq Nat
    OBVIOUS
  <2> HIDE DEF T
  <2> QED
    BY <1>4, <1>5, <2>1, InductionOnNat
<1>7. g[m] = f[m] /\ m \in 0..m /\ m + 1 \in 1..Len(r) /\ (m + 1) - 1 = m
  BY <1>1, <1>6
<1> QED
  BY <1>1, <1>2, <1>3, <1>7 DEF Follows
=============================================================================
