--------------------------- MODULE ScheduleProofs ---------------------------
(***************************************************************************)
(* The heap of prioq.c, squareroot() of qmail-send and what Schedule says  *)
(* of them: HeapRight, OnceMore and NotAtOnce, for any messages, a heap of *)
(* any size, any lifetime, chanskip and number of bits.                    *)
(*                                                                         *)
(* Insert, Delmin, shl and squareroot are recursive functions.  What they  *)
(* compute is proved in two steps: a function that satisfies the equations *)
(* exists, built up from its first or its last value (RaisedExists,        *)
(* SunkExists, RootedExists, ShlIs), so that the one chosen satisfies them;*)
(* and each of its values is right if the one it calls is (RiseOK, SinkOK, *)
(* BitPart).  Both inductions are over a set of numbers: Induct.           *)
(***************************************************************************)
EXTENDS Schedule, FiniteSetTheorems, SequenceTheorems, WellFoundedInduction, TLAPS

(* Induction over a set of naturals.                                       *)
LEMMA Induct ==
  ASSUME NEW T \in SUBSET Nat, 0 \in T, \A n \in T : n + 1 \in T
  PROVE  T = Nat
  <1> DEFINE R == {ss \in Nat \X Nat : ss[1] < ss[2]}
  <1>1. IsWellFoundedOn(R, Nat)  BY NatLessThanWellFounded, Zenon DEF OpToRel
  <1>2. SUFFICES ASSUME Nat \ T # {} PROVE FALSE  OBVIOUS
  <1>3. PICK m \in Nat \ T : \A k \in Nat \ T : <<k, m>> \notin R  BY <1>1, <1>2, WFMin, Zenon
  <1>4. m # 0 /\ m \in Nat  BY <1>3
  <1>5. m - 1 \in Nat /\ m - 1 < m /\ (m - 1) + 1 = m  BY <1>4
  <1>6. m - 1 \in T
    <2>1. SUFFICES ASSUME m - 1 \notin T PROVE FALSE  OBVIOUS
    <2>2. <<m - 1, m>> \notin R  BY <1>3, <1>5, <2>1
    <2> QED  BY <1>4, <1>5, <2>2
  <1> QED  BY <1>3, <1>5, <1>6

(* Entries of a heap; what is compared is a number.                        *)
Entries(E) == \A a \in E : a.dt \in Int

(* No entry is due before its parent, among the first n of s.              *)
Heap(s, n) == \A k \in 2 .. n : s[k \div 2].dt <= s[k].dt

(* How often i occurs.                                                     *)
At(e, i) == IF e.id = i THEN 1 ELSE 0
Tally(s, i) == Cardinality({k \in DOMAIN s : s[k].id = i})

(* t has b where s has a; t has one entry more, a.                         *)
Swapped(s, t, a, b, i) ==
  Tally(s, i) \in Nat /\ Tally(t, i) = Tally(s, i) - At(a, i) + At(b, i)
Added(s, t, a, i) == Tally(s, i) \in Nat /\ Tally(t, i) = Tally(s, i) + At(a, i)

LEMMA Half ==
  ASSUME NEW k \in Nat, k >= 2
  PROVE  k \div 2 \in Nat /\ k \div 2 >= 1 /\ k \div 2 < k
  OBVIOUS

LEMMA Children ==
  ASSUME NEW j \in Nat, NEW k \in Nat
  PROVE  k \div 2 = j <=> k = 2 * j \/ k = 2 * j + 1
  OBVIOUS

(* One entry is replaced.                                                  *)
LEMMA TallyPut ==
  ASSUME NEW E, NEW n \in Nat, NEW s \in [1 .. n -> E], NEW k \in 1 .. n, NEW v \in E, NEW i,
         NEW t, t = [s EXCEPT ![k] = v]
  PROVE  Swapped(s, t, s[k], v, i)
  <1> DEFINE K == {j \in 1 .. n : s[j].id = i}
             L == {j \in 1 .. n : t[j].id = i}
             M == K \ {k}
  <1>1. DOMAIN s = 1 .. n /\ DOMAIN t = 1 .. n  OBVIOUS
  <1>2. Tally(s, i) = Cardinality(K) /\ Tally(t, i) = Cardinality(L)  BY <1>1 DEF Tally
  <1>3. IsFiniteSet(K) /\ IsFiniteSet(M)
    <2>1. IsFiniteSet(1 .. n)  BY FS_Interval
    <2> QED  BY <2>1, FS_Subset
  <1>4. Cardinality(K) \in Nat /\ Cardinality(M) \in Nat  BY <1>3, FS_CardinalityType
  <1>5. Cardinality(K) = Cardinality(M) + At(s[k], i)
    <2>1. CASE s[k].id = i
      <3>1. k \in K  BY <2>1
      <3>2. Cardinality(M) = Cardinality(K) - 1  BY <1>3, <3>1, FS_RemoveElement
      <3> QED  BY <1>4, <2>1, <3>2 DEF At
    <2>2. CASE s[k].id # i
      <3>1. M = K  BY <2>2
      <3>2. At(s[k], i) = 0  BY <2>2 DEF At
      <3> HIDE DEF K, M
      <3> QED  BY <1>4, <3>1, <3>2
    <2> QED  BY <2>1, <2>2
  <1>6. \A j \in 1 .. n : t[j] = IF j = k THEN v ELSE s[j]  OBVIOUS
  <1>7. Cardinality(L) = Cardinality(M) + At(v, i)
    <2>1. CASE v.id = i
      <3>1. L = M \union {k} /\ k \notin M  BY <1>6, <2>1
      <3>2. Cardinality(L) = Cardinality(M) + 1  BY <1>3, <3>1, FS_AddElement
      <3> QED  BY <1>4, <2>1, <3>2 DEF At
    <2>2. CASE v.id # i
      <3>1. L = M  BY <1>6, <2>2
      <3>2. At(v, i) = 0  BY <2>2 DEF At
      <3> HIDE DEF L, M
      <3> QED  BY <1>4, <3>1, <3>2
    <2> QED  BY <2>1, <2>2
  <1>8. At(s[k], i) \in Nat /\ At(v, i) \in Nat  BY DEF At
  <1> HIDE DEF K, L, M
  <1> QED  BY <1>2, <1>4, <1>5, <1>7, <1>8 DEF Swapped

(* One entry more at the end, or the last one less.                        *)
LEMMA TallyLast ==
  ASSUME NEW E, NEW n \in Nat, NEW m \in Nat, m = n + 1, NEW s \in [1 .. n -> E],
         NEW t \in [1 .. m -> E], \A k \in 1 .. n : t[k] = s[k], NEW i
  PROVE  Added(s, t, t[m], i)
  <1> DEFINE K == {j \in 1 .. n : s[j].id = i}
             L == {j \in 1 .. m : t[j].id = i}
  <1>1. DOMAIN s = 1 .. n /\ DOMAIN t = 1 .. m  OBVIOUS
  <1>2. Tally(s, i) = Cardinality(K) /\ Tally(t, i) = Cardinality(L)  BY <1>1 DEF Tally
  <1>3. IsFiniteSet(K)
    <2>1. IsFiniteSet(1 .. n)  BY FS_Interval
    <2> QED  BY <2>1, FS_Subset
  <1>4. Cardinality(K) \in Nat  BY <1>3, FS_CardinalityType
  <1>5. \A j \in 1 .. m : j = m \/ j \in 1 .. n  OBVIOUS
  <1>6. m \in 1 .. m /\ m \notin 1 .. n /\ 1 .. n \subseteq 1 .. m  OBVIOUS
  <1>7. CASE t[m].id = i
    <2>1. L = K \union {m} /\ m \notin K  BY <1>5, <1>6, <1>7
    <2>2. Cardinality(L) = Cardinality(K) + 1  BY <1>3, <2>1, FS_AddElement
    <2> QED  BY <1>2, <1>4, <1>7, <2>2 DEF At, Added
  <1>8. CASE t[m].id # i
    <2>1. L = K  BY <1>5, <1>6, <1>8
    <2>2. At(t[m], i) = 0  BY <1>8 DEF At
    <2> HIDE DEF K, L
    <2> QED  BY <1>2, <1>4, <2>1, <2>2 DEF Added
  <1> QED  BY <1>7, <1>8

(* f[j] for j up to m, as prioq_insert raises the hole from j.             *)
Raised(q, e, f, m) ==
  \A j \in 1 .. m : f[j] = IF j = 1 \/ q[j \div 2].dt <= e.dt
                             THEN [Append(q, e) EXCEPT ![j] = e]
                             ELSE [f[j \div 2] EXCEPT ![j] = q[j \div 2]]

LEMMA AppendIs ==
  ASSUME NEW E, NEW q \in Seq(E), NEW e \in E
  PROVE  /\ Append(q, e) \in [1 .. Len(q) + 1 -> E] /\ Append(q, e)[Len(q) + 1] = e
         /\ \A k \in 1 .. Len(q) : Append(q, e)[k] = q[k]
  <1>1. Append(q, e) \in Seq(E) /\ Len(Append(q, e)) = Len(q) + 1 /\ Append(q, e)[Len(q) + 1] = e
        /\ \A k \in 1 .. Len(q) : Append(q, e)[k] = q[k]
    BY AppendProperties
  <1>2. PICK t \in Seq(E) : t = Append(q, e)  BY <1>1
  <1>3. t \in [1 .. Len(t) -> E]  OBVIOUS
  <1> QED  BY <1>1, <1>2, <1>3

LEMMA RaisedExists ==
  ASSUME NEW E, NEW q \in Seq(E), NEW e \in E
  PROVE  \E f \in [1 .. Len(q) + 1 -> [1 .. Len(q) + 1 -> E]] : Raised(q, e, f, Len(q) + 1)
  <1> DEFINE N == Len(q) + 1
             a == Append(q, e)
             T == {m \in Nat : m <= N => \E f \in [1 .. m -> [1 .. N -> E]] : Raised(q, e, f, m)}
  <1>1. a \in [1 .. N -> E] /\ N \in Nat /\ N >= 1  BY AppendIs
  <1>2. 0 \in T
    <2>1. [k \in 1 .. 0 |-> a] \in [1 .. 0 -> [1 .. N -> E]]  OBVIOUS
    <2>2. \A f : Raised(q, e, f, 0)  BY DEF Raised
    <2> QED  BY <2>1, <2>2
  <1>3. ASSUME NEW m \in T PROVE m + 1 \in T
    <2>1. SUFFICES ASSUME m + 1 <= N
                   PROVE  \E f \in [1 .. m + 1 -> [1 .. N -> E]] : Raised(q, e, f, m + 1)
      OBVIOUS
    <2>2. m \in Nat /\ m <= N /\ m + 1 \in 1 .. N  BY <1>1, <2>1
    <2>3. PICK f \in [1 .. m -> [1 .. N -> E]] : Raised(q, e, f, m)  BY <2>2
    <2> DEFINE v(h) == IF m + 1 = 1 \/ q[(m + 1) \div 2].dt <= e.dt
                         THEN [a EXCEPT ![m + 1] = e]
                         ELSE [h[(m + 1) \div 2] EXCEPT ![m + 1] = q[(m + 1) \div 2]]
               g == [j \in 1 .. m + 1 |-> IF j = m + 1 THEN v(f) ELSE f[j]]
    <2>4. m + 1 # 1 => (m + 1) \div 2 \in 1 .. m /\ (m + 1) \div 2 \in 1 .. Len(q)
      <3>1. SUFFICES ASSUME m + 1 # 1 PROVE (m + 1) \div 2 \in 1 .. m  BY <1>1, <2>2
      <3>2. m + 1 \in Nat /\ m + 1 >= 2  BY <2>2, <3>1
      <3>3. (m + 1) \div 2 >= 1 /\ (m + 1) \div 2 < m + 1 /\ (m + 1) \div 2 \in Nat  BY <3>2, Half
      <3> QED  BY <2>2, <3>3
    <2>5. v(f) \in [1 .. N -> E]
      <3> HIDE DEF a, N
      <3>1. [a EXCEPT ![m + 1] = e] \in [1 .. N -> E]  BY <1>1, <2>2
      <3>2. m + 1 # 1 => f[(m + 1) \div 2] \in [1 .. N -> E] /\ q[(m + 1) \div 2] \in E  BY <2>3, <2>4
      <3>3. m + 1 # 1 => [f[(m + 1) \div 2] EXCEPT ![m + 1] = q[(m + 1) \div 2]] \in [1 .. N -> E]
        BY <2>2, <3>2
      <3> QED  BY <3>1, <3>3
    <2>6. g[m + 1] = v(f) /\ \A j \in 1 .. m : g[j] = f[j]
      <3>1. \A j \in 1 .. m : j \in 1 .. m + 1 /\ j # m + 1  BY <2>2
      <3>2. m + 1 \in 1 .. m + 1  BY <2>2
      <3> HIDE DEF v
      <3> QED  BY <3>1, <3>2
    <2>7. \A j \in 1 .. m + 1 : j = m + 1 \/ j \in 1 .. m  BY <2>2
    <2>8. v(g) = v(f)
      <3>1. m + 1 # 1 => g[(m + 1) \div 2] = f[(m + 1) \div 2]  BY <2>4, <2>6
      <3> HIDE DEF g
      <3> QED  BY <3>1
    <2>9. g \in [1 .. m + 1 -> [1 .. N -> E]]
      <3>1. \A j \in 1 .. m + 1 : (IF j = m + 1 THEN v(f) ELSE f[j]) \in [1 .. N -> E]
        BY <2>3, <2>5, <2>7
      <3> HIDE DEF v
      <3> QED  BY <3>1
    <2>10. Raised(q, e, g, m + 1)
      <3> DEFINE F(h, j) == IF j = 1 \/ q[j \div 2].dt <= e.dt
                             THEN [Append(q, e) EXCEPT ![j] = e]
                             ELSE [h[j \div 2] EXCEPT ![j] = q[j \div 2]]
      <3>1. SUFFICES ASSUME NEW j \in 1 .. m + 1 PROVE g[j] = F(g, j)  BY DEF Raised
      <3>2. CASE j = m + 1
        <4>1. F(g, m + 1) = v(g)  OBVIOUS
        <4> HIDE DEF F, v, g
        <4> QED  BY <2>6, <2>8, <3>2, <4>1
      <3>3. CASE j # m + 1
        <4>1. j \in 1 .. m  BY <2>7, <3>3
        <4>2. f[j] = F(f, j)  BY <2>3, <4>1 DEF Raised
        <4>3. j # 1 => j \div 2 \in 1 .. m
          <5>1. SUFFICES ASSUME j # 1 PROVE j \div 2 \in 1 .. m  OBVIOUS
          <5>2. j \in Nat /\ j >= 2  BY <4>1, <5>1
          <5>3. j \div 2 >= 1 /\ j \div 2 < j /\ j \div 2 \in Nat  BY <5>2, Half
          <5> QED  BY <2>2, <4>1, <5>3
        <4> HIDE DEF g
        <4>4. F(g, j) = F(f, j)  BY <2>6, <4>3
        <4> HIDE DEF F
        <4> QED  BY <2>6, <4>1, <4>2, <4>4
      <3> QED  BY <3>2, <3>3
    <2> QED  BY <2>9, <2>10
  <1> HIDE DEF T
  <1>4. T = Nat
    <2>1. T \in SUBSET Nat  BY DEF T
    <2> QED  BY <1>2, <1>3, <2>1, Induct
  <1>5. N \in T  BY <1>1, <1>4
  <1> QED  BY <1>5 DEF T

LEMMA InsertIs ==
  ASSUME NEW E, NEW q \in Seq(E), NEW e \in E
  PROVE  \E f : Raised(q, e, f, Len(q) + 1) /\ Insert(q, e) = f[Len(q) + 1]
  <1> DEFINE N == Len(q) + 1
             F(h) == [j \in 1 .. N |-> IF j = 1 \/ q[j \div 2].dt <= e.dt
                                         THEN [Append(q, e) EXCEPT ![j] = e]
                                         ELSE [h[j \div 2] EXCEPT ![j] = q[j \div 2]]]
             c == CHOOSE h : h = F(h)
  <1>1. Insert(q, e) = c[N]  BY DEF Insert
  <1>2. PICK h \in [1 .. N -> [1 .. N -> E]] : Raised(q, e, h, N)  BY RaisedExists
  <1>3. h = F(h)
    <2>1. \A k \in 1 .. N : h[k] = F(h)[k]  BY <1>2 DEF Raised
    <2>2. h = [k \in 1 .. N |-> h[k]]  BY <1>2
    <2> QED  BY <2>1, <2>2
  <1>4. c = F(c)
    <2> HIDE DEF F
    <2> QED  BY <1>3
  <1> HIDE DEF c
  <1>5. Raised(q, e, c, N)
    <2>1. \A j \in 1 .. N : F(c)[j] = IF j = 1 \/ q[j \div 2].dt <= e.dt
                                         THEN [Append(q, e) EXCEPT ![j] = e]
                                         ELSE [c[j \div 2] EXCEPT ![j] = q[j \div 2]]
      OBVIOUS
    <2> HIDE DEF F
    <2> QED  BY <1>4, <2>1 DEF Raised
  <1> QED  BY <1>1, <1>5

(* What there is once the hole has risen from j: the heap with its entry j  *)
(* replaced by e, where e belongs above j or j is the new place at the end. *)
Rise(E, q, e, f, j) ==
  LET n == Len(q)
      a == Append(q, e)
  IN
  /\ f[j] \in [1 .. n + 1 -> E]
  /\ \A k \in 1 .. n + 1 : k > j => f[j][k] = a[k]
  /\ \A i : Tally(f[j], i) = Tally(a, i) - At(a[j], i) + At(e, i)
  /\ j = n + 1 \/ e.dt < a[j].dt =>
       /\ \A k \in 2 .. n + 1 : k # n + 1 \/ j = n + 1 => f[j][k \div 2].dt <= f[j][k].dt
       /\ j # n + 1 => f[j][j].dt <= a[j].dt

LEMMA RiseOK ==
  ASSUME NEW E, NEW q \in Seq(E), NEW e \in E, Entries(E), Heap(q, Len(q)),
         NEW f, Raised(q, e, f, Len(q) + 1), NEW j \in 1 .. Len(q) + 1,
         j = 1 \/ Rise(E, q, e, f, j \div 2)
  PROVE  Rise(E, q, e, f, j)
  <1>1. PICK n \in Nat : n = Len(q)  OBVIOUS
  <1>2. PICK a : a = Append(q, e)  OBVIOUS
  <1>3. a \in [1 .. n + 1 -> E] /\ a[n + 1] = e /\ \A k \in 1 .. n : a[k] = q[k]
    BY <1>1, <1>2, AppendIs
  <1>4. j \in 1 .. n + 1 /\ j \in Nat  BY <1>1
  <1>15. PICK N \in Nat : N = n + 1  OBVIOUS
  <1>16. a \in [1 .. N -> E] /\ j \in 1 .. N  BY <1>3, <1>4, <1>15
  <1>5. \A k \in 1 .. n + 1 : a[k].dt \in Int  BY <1>3 DEF Entries
  <1>6. e.dt \in Int  BY DEF Entries
  <1>7. \A k \in 2 .. n : a[k \div 2].dt <= a[k].dt
    <2>1. SUFFICES ASSUME NEW k \in 2 .. n PROVE a[k \div 2].dt <= a[k].dt  OBVIOUS
    <2>2. k \div 2 \in 1 .. n /\ k \in 1 .. n
      <3>1. k \in Nat /\ k >= 2 /\ k <= n  BY <1>1
      <3>2. k \div 2 \in Nat /\ k \div 2 >= 1 /\ k \div 2 < k  BY <3>1, Half
      <3> QED  BY <1>1, <3>1, <3>2
    <2>3. q[k \div 2].dt <= q[k].dt  BY <1>1 DEF Heap
    <2> QED  BY <1>3, <2>2, <2>3
  <1>8. j # 1 => j \div 2 \in 1 .. n /\ j \div 2 < j
    <2>1. SUFFICES ASSUME j # 1 PROVE j \div 2 \in 1 .. n /\ j \div 2 < j  OBVIOUS
    <2>2. j \div 2 \in Nat /\ j \div 2 >= 1 /\ j \div 2 < j  BY <1>4, <2>1, Half
    <2> QED  BY <1>1, <1>4, <2>2
  <1>9. f[j] = IF j = 1 \/ q[j \div 2].dt <= e.dt
                 THEN [a EXCEPT ![j] = e] ELSE [f[j \div 2] EXCEPT ![j] = q[j \div 2]]
    BY <1>1, <1>2, <1>4 DEF Raised
  <1>10. PICK g : g = f[j]  OBVIOUS
  <1>11. SUFFICES /\ g \in [1 .. n + 1 -> E]
                  /\ \A k \in 1 .. n + 1 : k > j => g[k] = a[k]
                  /\ \A i : Tally(g, i) = Tally(a, i) - At(a[j], i) + At(e, i)
                  /\ j = n + 1 \/ e.dt < a[j].dt =>
                       /\ \A k \in 2 .. n + 1 : k # n + 1 \/ j = n + 1 => g[k \div 2].dt <= g[k].dt
                       /\ j # n + 1 => g[j].dt <= a[j].dt
    BY <1>1, <1>2, <1>10 DEF Rise
  <1>12. \A k \in 2 .. n + 1 : k \div 2 \in 1 .. n /\ k \div 2 < k /\ k \in 1 .. n + 1
    <2>1. SUFFICES ASSUME NEW k \in 2 .. n + 1
                   PROVE  k \div 2 \in 1 .. n /\ k \div 2 < k /\ k \in 1 .. n + 1
      OBVIOUS
    <2>2. k \in Nat /\ k >= 2 /\ k <= n + 1  BY <1>1
    <2>3. k \div 2 \in Nat /\ k \div 2 >= 1 /\ k \div 2 < k  BY <2>2, Half
    <2> QED  BY <1>1, <2>2, <2>3
  <1>13. CASE j = 1 \/ q[j \div 2].dt <= e.dt
    <2>1. g = [a EXCEPT ![j] = e]  BY <1>9, <1>10, <1>13
    <2>2. g \in [1 .. n + 1 -> E] /\ \A k \in 1 .. n + 1 : g[k] = IF k = j THEN e ELSE a[k]
      BY <1>3, <1>4, <2>1
    <2>3. \A i : Tally(g, i) = Tally(a, i) - At(a[j], i) + At(e, i)
      <3>1. \A i : Swapped(a, g, a[j], e, i)  BY <1>16, <2>1, TallyPut, Zenon
      <3> QED  BY <3>1 DEF Swapped
    <2>4. ASSUME j = n + 1 \/ e.dt < a[j].dt, NEW k \in 2 .. n + 1, k # n + 1 \/ j = n + 1
          PROVE  g[k \div 2].dt <= g[k].dt
      <3>1. k \div 2 \in 1 .. n /\ k \div 2 < k /\ k \in 1 .. n + 1  BY <1>12
      <3>2. CASE k = j
        <4>1. a[j \div 2].dt <= e.dt
          <5>1. j # 1 /\ j \div 2 \in 1 .. n  BY <3>1, <3>2
          <5> QED  BY <1>3, <1>13, <5>1
        <4>2. g[k] = e /\ g[k \div 2] = a[j \div 2]  BY <2>2, <3>1, <3>2
        <4> QED  BY <4>1, <4>2
      <3>3. CASE k # j
        <4>1. k \in 2 .. n  BY <1>1, <2>4, <3>3
        <4>2. a[k \div 2].dt <= a[k].dt /\ g[k] = a[k]  BY <1>7, <2>2, <3>1, <3>3, <4>1
        <4>3. CASE k \div 2 = j
          <5>1. g[k \div 2] = e /\ e.dt < a[j].dt  BY <1>4, <2>2, <2>4, <3>1, <4>3
          <5> QED  BY <1>4, <1>5, <1>6, <3>1, <4>2, <4>3, <5>1
        <4>4. CASE k \div 2 # j
          <5>1. g[k \div 2] = a[k \div 2]  BY <2>2, <3>1, <4>4
          <5> QED  BY <4>2, <5>1
        <4> QED  BY <4>3, <4>4
      <3> QED  BY <3>2, <3>3
    <2>5. ASSUME j = n + 1 \/ e.dt < a[j].dt, j # n + 1 PROVE g[j].dt <= a[j].dt
      <3>1. g[j] = e  BY <1>4, <2>2
      <3> QED  BY <1>4, <1>5, <1>6, <2>5, <3>1
    <2>6. \A k \in 1 .. n + 1 : k > j => g[k] = a[k]  BY <1>4, <2>2
    <2> QED  BY <2>2, <2>3, <2>4, <2>5, <2>6
  <1>14. CASE ~(j = 1 \/ q[j \div 2].dt <= e.dt)
    <2>1. PICK m \in 1 .. n : m = j \div 2 /\ m < j  BY <1>8, <1>14
    <2>2. PICK h : h = f[m]  OBVIOUS
    <2>3. q[m] = a[m] /\ a[m] \in E /\ m \in 1 .. n + 1  BY <1>3, <2>1
    <2>4. e.dt < a[m].dt  BY <1>5, <1>6, <1>14, <2>1, <2>3
    <2>5. m # n + 1  BY <1>1, <2>1
    <2>6. /\ h \in [1 .. n + 1 -> E]
          /\ \A k \in 1 .. n + 1 : k > m => h[k] = a[k]
          /\ \A i : Tally(h, i) = Tally(a, i) - At(a[m], i) + At(e, i)
          /\ \A k \in 2 .. n + 1 : k # n + 1 => h[k \div 2].dt <= h[k].dt
          /\ h[m].dt <= a[m].dt
      BY <1>1, <1>2, <1>14, <2>1, <2>2, <2>4, <2>5 DEF Rise
    <2>7. g = [h EXCEPT ![j] = a[m]]  BY <1>9, <1>10, <1>14, <2>1, <2>2, <2>3
    <2>8. g \in [1 .. n + 1 -> E] /\ \A k \in 1 .. n + 1 : g[k] = IF k = j THEN a[m] ELSE h[k]
      BY <1>4, <2>3, <2>6, <2>7
    <2>9. h[j] = a[j]  BY <1>4, <2>1, <2>6
    <2>10. ASSUME NEW i PROVE Tally(g, i) = Tally(a, i) - At(a[j], i) + At(e, i)
      <3>1. Tally(g, i) = Tally(h, i) - At(h[j], i) + At(a[m], i)
        <4>1. h \in [1 .. N -> E] /\ a[m] \in E  BY <1>15, <2>3, <2>6
        <4>2. Swapped(h, g, h[j], a[m], i)  BY <1>16, <2>7, <4>1, TallyPut, Zenon
        <4> QED  BY <4>2 DEF Swapped
      <3>2. Tally(h, i) = Tally(a, i) - At(a[m], i) + At(e, i)  BY <2>6
      <3>3. Tally(a, i) \in Nat
        <4>1. PICK t : t = [a EXCEPT ![j] = e]  OBVIOUS
        <4>2. Swapped(a, t, a[j], e, i)  BY <1>16, <4>1, TallyPut, Zenon
        <4> QED  BY <4>2 DEF Swapped
      <3>4. At(a[m], i) \in Nat /\ At(a[j], i) \in Nat /\ At(e, i) \in Nat  BY DEF At
      <3> QED  BY <2>9, <3>1, <3>2, <3>3, <3>4
    <2>11. ASSUME NEW k \in 2 .. n + 1, k # n + 1 \/ j = n + 1 PROVE g[k \div 2].dt <= g[k].dt
      <3>1. k \div 2 \in 1 .. n /\ k \div 2 < k /\ k \in 1 .. n + 1 /\ k \div 2 \in 1 .. n + 1
        BY <1>1, <1>12
      <3>2. CASE k = j
        <4>1. g[k] = a[m] /\ g[k \div 2] = h[m]  BY <2>1, <2>8, <3>1, <3>2
        <4> QED  BY <2>6, <4>1
      <3>3. CASE k # j
        <4>1. k \in 2 .. n /\ k # n + 1  BY <1>1, <2>11, <3>3
        <4>2. g[k] = h[k]  BY <2>8, <3>1, <3>3
        <4>3. CASE k \div 2 = j
          <5>1. g[k \div 2] = a[m]  BY <2>8, <3>1, <4>3
          <5>2. h[k] = a[k]  BY <1>1, <2>1, <2>6, <3>1, <4>3
          <5>3. a[j].dt <= a[k].dt  BY <1>7, <4>1, <4>3
          <5>4. a[m].dt <= a[j].dt
            <6>1. j \in 2 .. n  BY <1>1, <2>1, <3>1, <4>3
            <6> QED  BY <1>7, <2>1, <6>1
          <5> QED  BY <1>4, <1>5, <2>3, <3>1, <4>2, <5>1, <5>2, <5>3, <5>4
        <4>4. CASE k \div 2 # j
          <5>1. g[k \div 2] = h[k \div 2]  BY <2>8, <3>1, <4>4
          <5> QED  BY <2>6, <4>1, <4>2, <5>1
        <4> QED  BY <4>3, <4>4
      <3> QED  BY <3>2, <3>3
    <2>12. ASSUME j # n + 1 PROVE g[j].dt <= a[j].dt
      <3>1. j \in 2 .. n  BY <1>1, <1>4, <2>1, <2>12
      <3> QED  BY <1>4, <1>7, <2>1, <2>8, <3>1
    <2>13. \A k \in 1 .. n + 1 : k > j => g[k] = a[k]  BY <1>4, <2>1, <2>6, <2>8
    <2> QED  BY <2>8, <2>10, <2>11, <2>12, <2>13
  <1> QED  BY <1>13, <1>14

(* prioq_insert keeps the heap and adds the entry, nothing else.           *)
LEMMA InsertOK ==
  ASSUME NEW E, NEW q \in Seq(E), NEW e \in E, Entries(E), Heap(q, Len(q))
  PROVE  /\ Insert(q, e) \in Seq(E) /\ Len(Insert(q, e)) = Len(q) + 1
         /\ Heap(Insert(q, e), Len(q) + 1)
         /\ \A i : Tally(Insert(q, e), i) = Tally(q, i) + At(e, i) /\ Tally(q, i) \in Nat
  <1>1. PICK f : Raised(q, e, f, Len(q) + 1) /\ Insert(q, e) = f[Len(q) + 1]  BY InsertIs
  <1>2. PICK N \in Nat : N = Len(q) + 1  OBVIOUS
  <1> DEFINE T == {m \in Nat : \A j \in 1 .. N : j <= m => Rise(E, q, e, f, j)}
  <1>3. 0 \in T  OBVIOUS
  <1>4. ASSUME NEW m \in T PROVE m + 1 \in T
    <2>1. m \in Nat /\ \A j \in 1 .. N : j <= m => Rise(E, q, e, f, j)  OBVIOUS
    <2>2. ASSUME NEW j \in 1 .. N, j <= m + 1 PROVE Rise(E, q, e, f, j)
      <3>1. j = 1 \/ Rise(E, q, e, f, j \div 2)
        <4>1. SUFFICES ASSUME j # 1 PROVE Rise(E, q, e, f, j \div 2)  OBVIOUS
        <4>2. j \in Nat /\ j >= 2  BY <1>2, <4>1
        <4>3. j \div 2 \in Nat /\ j \div 2 >= 1 /\ j \div 2 < j  BY <4>2, Half
        <4>4. j \div 2 \in 1 .. N /\ j \div 2 <= m  BY <1>2, <2>1, <2>2, <4>3
        <4> QED  BY <2>1, <4>4
      <3>2. j \in 1 .. Len(q) + 1  BY <1>2
      <3> QED  BY <1>1, <3>1, <3>2, RiseOK
    <2>3. m + 1 \in Nat  BY <2>1
    <2> QED  BY <2>2, <2>3
  <1> HIDE DEF T
  <1>5. T = Nat
    <2>1. T \in SUBSET Nat  BY DEF T
    <2> QED  BY <1>3, <1>4, <2>1, Induct
  <1>6. Rise(E, q, e, f, N)
    <2>1. N \in T /\ N \in 1 .. N  BY <1>2, <1>5
    <2> QED  BY <1>2, <2>1 DEF T
  <1>7. PICK r : r = Insert(q, e)  OBVIOUS
  <1>8. PICK a : a = Append(q, e)  OBVIOUS
  <1>9. a \in [1 .. N -> E] /\ a[N] = e /\ \A k \in 1 .. Len(q) : a[k] = q[k]
    BY <1>2, <1>8, AppendIs
  <1>10. /\ r \in [1 .. N -> E]
         /\ \A i : Tally(r, i) = Tally(a, i) - At(a[N], i) + At(e, i)
         /\ \A k \in 2 .. N : r[k \div 2].dt <= r[k].dt
    BY <1>1, <1>2, <1>6, <1>7, <1>8 DEF Rise
  <1>11. \A i : Tally(q, i) \in Nat /\ Tally(a, i) = Tally(q, i) + At(e, i)
    <2>1. PICK n \in Nat : n = Len(q)  OBVIOUS
    <2>2. q \in [1 .. n -> E] /\ N = n + 1 /\ \A k \in 1 .. n : a[k] = q[k]  BY <1>2, <1>9, <2>1
    <2>3. \A i : Tally(q, i) \in Nat /\ Tally(a, i) = Tally(q, i) + At(a[N], i)
      <3>1. \A i : Added(q, a, a[N], i)  BY <1>9, <2>2, TallyLast, Zenon
      <3> QED  BY <3>1 DEF Added
    <2> QED  BY <1>9, <2>3
  <1>12. \A i : Tally(r, i) = Tally(q, i) + At(e, i)
    <2>1. \A i : At(e, i) \in Nat  BY DEF At
    <2> QED  BY <1>9, <1>10, <1>11, <2>1
  <1>13. r \in Seq(E) /\ Len(r) = N  BY <1>2, <1>10
  <1> QED  BY <1>2, <1>7, <1>10, <1>11, <1>12, <1>13 DEF Heap

(* f[i] for i from m up, as prioq_delmin sinks the hole from i.            *)
Lesser(q, j) == IF q[j - 1].dt <= q[j].dt THEN j - 1 ELSE j

Sunk(q, f, m) ==
  \A i \in m .. Len(q) :
    f[i] = IF 2 * i + 1 > Len(q) \/ q[Len(q)].dt <= q[Lesser(q, 2 * i + 1)].dt
             THEN [q EXCEPT ![i] = q[Len(q)]]
             ELSE [f[Lesser(q, 2 * i + 1)] EXCEPT ![i] = q[Lesser(q, 2 * i + 1)]]

LEMMA LesserIs ==
  ASSUME NEW q, NEW n \in Nat, NEW i \in 1 .. n, 2 * i + 1 <= n
  PROVE  /\ Lesser(q, 2 * i + 1) \in i + 1 .. n
         /\ Lesser(q, 2 * i + 1) = 2 * i \/ Lesser(q, 2 * i + 1) = 2 * i + 1
  <1>1. (2 * i + 1) - 1 = 2 * i  OBVIOUS
  <1>2. Lesser(q, 2 * i + 1) = 2 * i \/ Lesser(q, 2 * i + 1) = 2 * i + 1  BY <1>1 DEF Lesser
  <1>3. PICK c : c = Lesser(q, 2 * i + 1)  OBVIOUS
  <1>4. c \in i + 1 .. n  BY <1>2, <1>3
  <1> QED  BY <1>2, <1>3, <1>4

LEMMA SunkExists ==
  ASSUME NEW E, NEW q \in Seq(E), q # << >>
  PROVE  \E f \in [1 .. Len(q) -> [1 .. Len(q) -> E]] : Sunk(q, f, 1)
  <1>1. PICK n \in Nat : n = Len(q) /\ n >= 1  OBVIOUS
  <1>2. q \in [1 .. n -> E] /\ q[n] \in E  BY <1>1
  <1> DEFINE S == [1 .. n -> E]
             T == {m \in Nat : m <= n => \E f \in [n - m + 1 .. n -> S] : Sunk(q, f, n - m + 1)}
  <1>3. 0 \in T
    <2>1. n - 0 + 1 = n + 1 /\ n + 1 .. n = {}  BY <1>1
    <2>2. [k \in n + 1 .. n |-> q] \in [n + 1 .. n -> S]  BY <1>2
    <2>3. \A f : Sunk(q, f, n + 1)  BY <1>1, <2>1 DEF Sunk
    <2> QED  BY <2>1, <2>2, <2>3
  <1>4. ASSUME NEW m \in T PROVE m + 1 \in T
    <2>1. m \in Nat  OBVIOUS
    <2>2. SUFFICES ASSUME m + 1 <= n
                   PROVE  \E f \in [n - (m + 1) + 1 .. n -> S] : Sunk(q, f, n - (m + 1) + 1)
      BY <2>1
    <2>3. PICK l \in 1 .. n : l = n - (m + 1) + 1 /\ l + 1 = n - m + 1
      <3> HIDE DEF T
      <3>1. n - (m + 1) + 1 \in 1 .. n /\ (n - (m + 1) + 1) + 1 = n - m + 1  BY <1>1, <2>1, <2>2
      <3> QED  BY <3>1
    <2>4. PICK f \in [l + 1 .. n -> S] : Sunk(q, f, l + 1)  BY <2>1, <2>2, <2>3
    <2> DEFINE c == Lesser(q, 2 * l + 1)
               stop == 2 * l + 1 > n \/ q[n].dt <= q[c].dt
               v(h) == IF stop THEN [q EXCEPT ![l] = q[n]] ELSE [h[c] EXCEPT ![l] = q[c]]
               g == [i \in l .. n |-> IF i = l THEN v(f) ELSE f[i]]
    <2>5. ~stop => c \in l + 1 .. n
      <3>1. 2 * l + 1 <= n => c \in l + 1 .. n  BY LesserIs
      <3>2. ~stop => 2 * l + 1 <= n  BY <1>1
      <3> QED  BY <3>1, <3>2
    <2> HIDE DEF c
    <2>6. v(f) \in S
      <3>1. [q EXCEPT ![l] = q[n]] \in S  BY <1>2
      <3>2. ~stop => f[c] \in S /\ q[c] \in E
        <4>1. \A k \in l + 1 .. n : k \in 1 .. n  BY <1>1
        <4> QED  BY <1>2, <2>4, <2>5, <4>1
      <3>3. ~stop => [f[c] EXCEPT ![l] = q[c]] \in S  BY <3>2
      <3> HIDE DEF stop, S
      <3> QED  BY <3>1, <3>3
    <2> HIDE DEF stop
    <2>7. g[l] = v(f) /\ \A i \in l + 1 .. n : g[i] = f[i]
      <3>1. l \in l .. n /\ \A i \in l + 1 .. n : i \in l .. n /\ i # l  BY <1>1
      <3> HIDE DEF v
      <3> QED  BY <3>1
    <2>8. \A i \in l .. n : i = l \/ i \in l + 1 .. n  BY <1>1
    <2>9. v(g) = v(f)
      <3>1. ~stop => g[c] = f[c]  BY <2>5, <2>7
      <3> HIDE DEF g
      <3> QED  BY <3>1
    <2>10. g \in [l .. n -> S]
      <3>1. \A i \in l .. n : (IF i = l THEN v(f) ELSE f[i]) \in S  BY <2>4, <2>6, <2>8
      <3> HIDE DEF v, S
      <3> QED  BY <3>1
    <2>11. Sunk(q, g, l)
      <3> DEFINE F(h, i) == IF 2 * i + 1 > n \/ q[n].dt <= q[Lesser(q, 2 * i + 1)].dt
                              THEN [q EXCEPT ![i] = q[n]]
                              ELSE [h[Lesser(q, 2 * i + 1)] EXCEPT ![i] = q[Lesser(q, 2 * i + 1)]]
      <3>1. SUFFICES ASSUME NEW i \in l .. n PROVE g[i] = F(g, i)  BY <1>1 DEF Sunk
      <3>2. CASE i = l
        <4>1. F(g, l) = v(g)  BY DEF c, stop
        <4> HIDE DEF F, v, g
        <4> QED  BY <2>7, <2>9, <3>2, <4>1
      <3>3. CASE i # l
        <4>1. i \in l + 1 .. n  BY <2>8, <3>3
        <4>2. f[i] = F(f, i)  BY <1>1, <2>4, <4>1 DEF Sunk
        <4>3. ~(2 * i + 1 > n) => Lesser(q, 2 * i + 1) \in l + 1 .. n
          <5>1. SUFFICES ASSUME 2 * i + 1 <= n PROVE Lesser(q, 2 * i + 1) \in l + 1 .. n
            BY <1>1, <4>1
          <5>2. i \in 1 .. n  BY <1>1, <4>1
          <5>3. Lesser(q, 2 * i + 1) \in i + 1 .. n  BY <5>1, <5>2, LesserIs
          <5> QED  BY <1>1, <4>1, <5>3
        <4> HIDE DEF g
        <4>4. F(g, i) = F(f, i)  BY <2>7, <4>3
        <4> HIDE DEF F
        <4> QED  BY <2>7, <4>1, <4>2, <4>4
      <3> QED  BY <3>2, <3>3
    <2> QED  BY <2>3, <2>10, <2>11
  <1> HIDE DEF T
  <1>5. T = Nat
    <2>1. T \in SUBSET Nat  BY DEF T
    <2> QED  BY <1>3, <1>4, <2>1, Induct
  <1>6. n \in T /\ n <= n /\ n - n + 1 = 1  BY <1>1, <1>5
  <1>7. \E f \in [1 .. n -> S] : Sunk(q, f, 1)  BY <1>6 DEF T
  <1> QED  BY <1>1, <1>7

LEMMA DelminIs ==
  ASSUME NEW E, NEW q \in Seq(E), q # << >>
  PROVE  \E f : Sunk(q, f, 1) /\ Delmin(q) = SubSeq(f[1], 1, Len(q) - 1)
  <1> DEFINE F(h) == [i \in 1 .. Len(q) |->
                        IF 2 * i + 1 > Len(q) \/ q[Len(q)].dt <= q[Lesser(q, 2 * i + 1)].dt
                          THEN [q EXCEPT ![i] = q[Len(q)]]
                          ELSE [h[Lesser(q, 2 * i + 1)] EXCEPT ![i] = q[Lesser(q, 2 * i + 1)]]]
             c == CHOOSE h : h = F(h)
  <1>1. Delmin(q) = SubSeq(c[1], 1, Len(q) - 1)  BY DEF Delmin, PastEnd, Filled, Lesser
  <1>2. PICK h \in [1 .. Len(q) -> [1 .. Len(q) -> E]] : Sunk(q, h, 1)  BY SunkExists
  <1>3. h = F(h)
    <2>1. \A k \in 1 .. Len(q) : h[k] = F(h)[k]  BY <1>2 DEF Sunk
    <2>2. h = [k \in 1 .. Len(q) |-> h[k]]  BY <1>2
    <2> QED  BY <2>1, <2>2
  <1>4. c = F(c)
    <2> HIDE DEF F
    <2> QED  BY <1>3
  <1> HIDE DEF c
  <1>5. Sunk(q, c, 1)
    <2>1. \A i \in 1 .. Len(q) : F(c)[i] =
             IF 2 * i + 1 > Len(q) \/ q[Len(q)].dt <= q[Lesser(q, 2 * i + 1)].dt
               THEN [q EXCEPT ![i] = q[Len(q)]]
               ELSE [c[Lesser(q, 2 * i + 1)] EXCEPT ![i] = q[Lesser(q, 2 * i + 1)]]
      OBVIOUS
    <2> HIDE DEF F
    <2> QED  BY <1>4, <2>1 DEF Sunk
  <1> QED  BY <1>1, <1>5

(* What there is once the hole has sunk from i: the heap without its last  *)
(* entry, which has taken the place of entry i.                            *)
Sink(E, q, f, i) ==
  LET n == Len(q) IN
  /\ f[i] \in [1 .. n -> E]
  /\ \A k \in 1 .. n : k < 2 * i /\ k # i => f[i][k] = q[k]
  /\ f[i][n] = q[n]
  /\ \A id : Tally(f[i], id) = Tally(q, id) - At(q[i], id) + At(q[n], id)
  /\ \A k \in 2 .. n - 1 : k \div 2 >= i => f[i][k \div 2].dt <= f[i][k].dt
  /\ q[i].dt < q[n].dt => q[i].dt <= f[i][i].dt

LEMMA SinkOK ==
  ASSUME NEW E, NEW q \in Seq(E), Entries(E), Heap(q, Len(q)), NEW i \in 1 .. Len(q),
         NEW f, Sunk(q, f, 1), 2 * i + 1 <= Len(q) => Sink(E, q, f, Lesser(q, 2 * i + 1))
  PROVE  Sink(E, q, f, i)
  <1>1. PICK n \in Nat : n = Len(q)  OBVIOUS
  <1>2. q \in [1 .. n -> E] /\ i \in 1 .. n /\ n \in 1 .. n  BY <1>1
  <1>3. \A k \in 1 .. n : q[k].dt \in Int /\ q[k] \in E  BY <1>2 DEF Entries
  <1>4. \A k \in 2 .. n : /\ k \div 2 \in 1 .. n /\ k \div 2 < k /\ k \in 1 .. n
                          /\ q[k \div 2].dt <= q[k].dt /\ (k = 2 * (k \div 2) \/ k = 2 * (k \div 2) + 1)
    <2>1. SUFFICES ASSUME NEW k \in 2 .. n
                   PROVE  /\ k \div 2 \in 1 .. n /\ k \div 2 < k /\ k \in 1 .. n
                          /\ q[k \div 2].dt <= q[k].dt
                          /\ (k = 2 * (k \div 2) \/ k = 2 * (k \div 2) + 1)
      OBVIOUS
    <2>2. k \in Nat /\ k >= 2 /\ k <= n  BY <1>1
    <2>3. k \div 2 \in Nat /\ k \div 2 >= 1 /\ k \div 2 < k  BY <2>2, Half
    <2>4. k \div 2 \in 1 .. n /\ k \in 1 .. n  BY <1>1, <2>2, <2>3
    <2>5. q[k \div 2].dt <= q[k].dt  BY <1>1 DEF Heap
    <2>6. PICK j \in Nat : j = k \div 2  BY <2>3
    <2>7. k = 2 * j \/ k = 2 * j + 1  BY <2>2, <2>6, Children
    <2> QED  BY <2>3, <2>4, <2>5, <2>6, <2>7
  <1>5. PICK c : c = Lesser(q, 2 * i + 1)  OBVIOUS
  <1>6. 2 * i + 1 <= n => c \in i + 1 .. n /\ (c = 2 * i \/ c = 2 * i + 1)
    BY <1>2, <1>5, LesserIs
  <1>7. 2 * i + 1 <= n => q[c].dt <= q[2 * i].dt /\ q[c].dt <= q[2 * i + 1].dt
    <2>1. SUFFICES ASSUME 2 * i + 1 <= n
                   PROVE  q[c].dt <= q[2 * i].dt /\ q[c].dt <= q[2 * i + 1].dt
      OBVIOUS
    <2>2. 2 * i \in 1 .. n /\ 2 * i + 1 \in 1 .. n /\ (2 * i + 1) - 1 = 2 * i  BY <1>2, <2>1
    <2>3. c = IF q[2 * i].dt <= q[2 * i + 1].dt THEN 2 * i ELSE 2 * i + 1  BY <1>5, <2>2 DEF Lesser
    <2>4. q[2 * i].dt \in Int /\ q[2 * i + 1].dt \in Int  BY <1>3, <2>2
    <2> QED  BY <2>3, <2>4
  <1>8. PICK g : g = f[i]  OBVIOUS
  <1>9. g = IF 2 * i + 1 > n \/ q[n].dt <= q[c].dt
              THEN [q EXCEPT ![i] = q[n]] ELSE [f[c] EXCEPT ![i] = q[c]]
    BY <1>1, <1>5, <1>8 DEF Sunk
  <1>10. SUFFICES /\ g \in [1 .. n -> E]
                  /\ \A k \in 1 .. n : k < 2 * i /\ k # i => g[k] = q[k]
                  /\ g[n] = q[n]
                  /\ \A id : Tally(g, id) = Tally(q, id) - At(q[i], id) + At(q[n], id)
                  /\ \A k \in 2 .. n - 1 : k \div 2 >= i => g[k \div 2].dt <= g[k].dt
                  /\ q[i].dt < q[n].dt => q[i].dt <= g[i].dt
    BY <1>1, <1>8 DEF Sink
  <1>11. \A k \in 2 .. n - 1 : k \in 2 .. n /\ k <= n - 1  BY <1>1
  <1>12. CASE 2 * i + 1 > n \/ q[n].dt <= q[c].dt
    <2>1. g = [q EXCEPT ![i] = q[n]]  BY <1>9, <1>12
    <2>2. g \in [1 .. n -> E] /\ \A k \in 1 .. n : g[k] = IF k = i THEN q[n] ELSE q[k]
      BY <1>2, <1>3, <2>1
    <2>3. \A id : Tally(g, id) = Tally(q, id) - At(q[i], id) + At(q[n], id)
      <3>1. q[n] \in E  BY <1>2, <1>3
      <3>2. \A id : Swapped(q, g, q[i], q[n], id)  BY <1>2, <2>1, <3>1, TallyPut, Zenon
      <3> QED  BY <3>2 DEF Swapped
    <2>4. ASSUME NEW k \in 2 .. n - 1, k \div 2 >= i PROVE g[k \div 2].dt <= g[k].dt
      <3>1. /\ k \div 2 \in 1 .. n /\ k \div 2 < k /\ k \in 1 .. n
            /\ q[k \div 2].dt <= q[k].dt /\ (k = 2 * (k \div 2) \/ k = 2 * (k \div 2) + 1)
            /\ k <= n - 1
        BY <1>4, <1>11
      <3>2. k # i /\ g[k] = q[k]  BY <1>2, <2>2, <2>4, <3>1
      <3>3. CASE k \div 2 = i
        <4>1. 2 * i + 1 <= n /\ (k = 2 * i \/ k = 2 * i + 1)  BY <1>2, <3>1, <3>3
        <4>2. q[n].dt <= q[c].dt  BY <1>2, <1>12, <4>1
        <4>3. q[c].dt <= q[k].dt  BY <1>7, <4>1
        <4>4. c \in 1 .. n  BY <1>2, <1>6, <4>1
        <4>5. q[n].dt <= q[k].dt  BY <1>2, <1>3, <3>1, <4>2, <4>3, <4>4
        <4>6. g[k \div 2] = q[n]  BY <1>2, <2>2, <3>3
        <4> QED  BY <3>2, <4>5, <4>6
      <3>4. CASE k \div 2 # i
        <4>1. g[k \div 2] = q[k \div 2]  BY <2>2, <3>1, <3>4
        <4> QED  BY <3>1, <3>2, <4>1
      <3> QED  BY <3>3, <3>4
    <2>5. ASSUME q[i].dt < q[n].dt PROVE q[i].dt <= g[i].dt
      <3>1. g[i] = q[n] /\ q[i].dt \in Int /\ q[n].dt \in Int  BY <1>2, <1>3, <2>2
      <3> QED  BY <2>5, <3>1
    <2>6. g[n] = q[n]  BY <1>2, <2>2
    <2> QED  BY <2>2, <2>3, <2>4, <2>5, <2>6
  <1>13. CASE ~(2 * i + 1 > n \/ q[n].dt <= q[c].dt)
    <2>1. 2 * i + 1 <= n  BY <1>2, <1>13
    <2>2. /\ c \in 1 .. n /\ c > i /\ (c = 2 * i \/ c = 2 * i + 1) /\ i >= 1 /\ i \in Nat
          /\ c \in Nat
      BY <1>2, <1>6, <2>1
    <2>3. q[c].dt < q[n].dt  BY <1>2, <1>3, <1>13, <2>2
    <2>4. c # n /\ c <= n - 1  BY <1>2, <1>3, <2>2, <2>3
    <2>5. PICK h : h = f[c]  OBVIOUS
    <2>6. /\ h \in [1 .. n -> E]
          /\ \A k \in 1 .. n : k < 2 * c /\ k # c => h[k] = q[k]
          /\ h[n] = q[n]
          /\ \A id : Tally(h, id) = Tally(q, id) - At(q[c], id) + At(q[n], id)
          /\ \A k \in 2 .. n - 1 : k \div 2 >= c => h[k \div 2].dt <= h[k].dt
          /\ q[c].dt <= h[c].dt
      BY <1>1, <1>5, <2>1, <2>3, <2>5 DEF Sink
    <2>7. g = [h EXCEPT ![i] = q[c]]  BY <1>9, <1>13, <2>5
    <2>8. q[c] \in E  BY <1>3, <2>2
    <2>9. g \in [1 .. n -> E] /\ \A k \in 1 .. n : g[k] = IF k = i THEN q[c] ELSE h[k]
      BY <1>2, <2>6, <2>7, <2>8
    <2>10. h[i] = q[i]  BY <1>2, <2>2, <2>6
    <2>11. ASSUME NEW id PROVE Tally(g, id) = Tally(q, id) - At(q[i], id) + At(q[n], id)
      <3>1. Swapped(h, g, h[i], q[c], id)  BY <1>2, <2>6, <2>7, <2>8, TallyPut, Zenon
      <3>2. PICK t : t = [q EXCEPT ![i] = q[c]]  OBVIOUS
      <3>3. Swapped(q, t, q[i], q[c], id)  BY <1>2, <2>8, <3>2, TallyPut, Zenon
      <3>4. At(q[c], id) \in Nat /\ At(q[i], id) \in Nat /\ At(q[n], id) \in Nat  BY DEF At
      <3>5. Tally(h, id) = Tally(q, id) - At(q[c], id) + At(q[n], id)  BY <2>6
      <3> QED  BY <2>10, <3>1, <3>3, <3>4, <3>5, SMTT(20) DEF Swapped
    <2>12. ASSUME NEW k \in 2 .. n - 1, k \div 2 >= i PROVE g[k \div 2].dt <= g[k].dt
      <3>1. /\ k \div 2 \in 1 .. n /\ k \div 2 < k /\ k \in 1 .. n
            /\ q[k \div 2].dt <= q[k].dt /\ (k = 2 * (k \div 2) \/ k = 2 * (k \div 2) + 1)
            /\ k <= n - 1
        BY <1>4, <1>11
      <3>2. k # i /\ g[k] = h[k]  BY <1>2, <2>9, <2>12, <3>1
      <3>3. CASE k \div 2 = i
        <4>1. g[k \div 2] = q[c]  BY <1>2, <2>9, <3>3
        <4>2. CASE k = c  BY <2>6, <3>2, <4>1, <4>2
        <4>3. CASE k # c
          <5>1. (k = 2 * i \/ k = 2 * i + 1) /\ k < 2 * c  BY <2>2, <3>1, <3>3
          <5>2. h[k] = q[k]  BY <2>6, <3>1, <4>3, <5>1
          <5>3. q[c].dt <= q[k].dt  BY <1>7, <2>1, <5>1
          <5> QED  BY <3>2, <4>1, <5>2, <5>3
        <4> QED  BY <4>2, <4>3
      <3>4. CASE k \div 2 # i
        <4>1. g[k \div 2] = h[k \div 2]  BY <2>9, <3>1, <3>4
        <4>2. CASE k \div 2 >= c  BY <2>6, <3>2, <4>1, <4>2
        <4>3. CASE k \div 2 < c
          <5>1. PICK j \in 1 .. n : j = k \div 2 /\ (k = 2 * j \/ k = 2 * j + 1)  BY <3>1
          <5>2. j < c /\ j > i  BY <1>2, <2>12, <3>4, <4>3, <5>1
          <5>3. k # c /\ k < 2 * c /\ j # c /\ j < 2 * c  BY <2>2, <3>1, <5>1, <5>2
          <5>4. h[k] = q[k] /\ h[j] = q[j]  BY <2>6, <3>1, <5>3
          <5> QED  BY <3>1, <3>2, <4>1, <5>1, <5>4
        <4> QED  BY <2>2, <3>1, <4>2, <4>3
      <3> QED  BY <3>3, <3>4
    <2>13. q[i].dt <= g[i].dt
      <3>1. c \in 2 .. n /\ c \div 2 = i
        <4>1. c \div 2 = i  BY <2>2, Children
        <4> QED  BY <2>2, <4>1
      <3>2. q[i].dt <= q[c].dt  BY <1>4, <3>1
      <3> QED  BY <1>2, <2>9, <3>2
    <2>14. ASSUME NEW k \in 1 .. n, k < 2 * i, k # i PROVE g[k] = q[k]
      <3>1. k < 2 * c /\ k # c  BY <2>2, <2>14
      <3> QED  BY <2>6, <2>9, <2>14, <3>1
    <2>15. g[n] = q[n]  BY <1>2, <2>2, <2>4, <2>6, <2>9
    <2> QED  BY <2>9, <2>11, <2>12, <2>13, <2>14, <2>15
  <1> QED  BY <1>12, <1>13

(* prioq_delmin keeps the heap and removes its first entry, nothing else.  *)
LEMMA DelminOK ==
  ASSUME NEW E, NEW q \in Seq(E), Entries(E), Heap(q, Len(q)), q # << >>
  PROVE  /\ Delmin(q) \in Seq(E) /\ Len(Delmin(q)) = Len(q) - 1
         /\ Heap(Delmin(q), Len(q) - 1)
         /\ \A i : Tally(q, i) = Tally(Delmin(q), i) + At(q[1], i) /\ Tally(Delmin(q), i) \in Nat
  <1>1. PICK f : Sunk(q, f, 1) /\ Delmin(q) = SubSeq(f[1], 1, Len(q) - 1)  BY DelminIs
  <1>2. PICK m \in Nat : Len(q) = m + 1  OBVIOUS
  <1>3. PICK n \in Nat : n = Len(q) /\ n = m + 1 /\ m = n - 1 /\ 1 \in 1 .. n /\ n \in 1 .. n  BY <1>2
  <1> DEFINE T == {l \in Nat : \A i \in 1 .. n : i >= n - l => Sink(E, q, f, i)}
  <1>4. ASSUME NEW i \in 1 .. n, \A j \in 1 .. n : j > i => Sink(E, q, f, j) PROVE Sink(E, q, f, i)
    <2>1. 2 * i + 1 <= Len(q) => Sink(E, q, f, Lesser(q, 2 * i + 1))
      <3>1. SUFFICES ASSUME 2 * i + 1 <= n PROVE Sink(E, q, f, Lesser(q, 2 * i + 1))  BY <1>3
      <3>2. Lesser(q, 2 * i + 1) \in i + 1 .. n  BY <3>1, LesserIs
      <3>3. PICK c : c = Lesser(q, 2 * i + 1)  OBVIOUS
      <3>4. c \in 1 .. n /\ c > i  BY <3>2, <3>3
      <3> QED  BY <1>4, <3>3, <3>4
    <2>2. i \in 1 .. Len(q)  BY <1>3
    <2> QED  BY <1>1, <2>1, <2>2, SinkOK
  <1>5. 0 \in T
    <2>1. SUFFICES ASSUME NEW i \in 1 .. n, i >= n - 0 PROVE Sink(E, q, f, i)  OBVIOUS
    <2>2. \A j \in 1 .. n : ~(j > i)  BY <1>3, <2>1
    <2> QED  BY <1>4, <2>2
  <1>6. ASSUME NEW l \in T PROVE l + 1 \in T
    <2>1. l \in Nat /\ \A i \in 1 .. n : i >= n - l => Sink(E, q, f, i)  OBVIOUS
    <2>2. ASSUME NEW i \in 1 .. n, i >= n - (l + 1) PROVE Sink(E, q, f, i)
      <3>1. \A j \in 1 .. n : j > i => j >= n - l
        <4> HIDE DEF T
        <4> QED  BY <1>3, <2>1, <2>2
      <3> QED  BY <1>4, <2>1, <3>1
    <2>3. l + 1 \in Nat  BY <2>1
    <2> QED  BY <2>2, <2>3
  <1> HIDE DEF T
  <1>7. T = Nat
    <2>1. T \in SUBSET Nat  BY DEF T
    <2> QED  BY <1>5, <1>6, <2>1, Induct
  <1>8. Sink(E, q, f, 1)
    <2>1. n \in T /\ 1 \in 1 .. n /\ 1 >= n - n  BY <1>3, <1>7
    <2> QED  BY <2>1 DEF T
  <1>9. PICK g : g = f[1]  OBVIOUS
  <1>10. /\ g \in [1 .. n -> E] /\ g[n] = q[n]
         /\ \A i : Tally(g, i) = Tally(q, i) - At(q[1], i) + At(q[n], i)
         /\ \A k \in 2 .. n - 1 : k \div 2 >= 1 => g[k \div 2].dt <= g[k].dt
    BY <1>3, <1>8, <1>9 DEF Sink
  <1>11. PICK r : r = SubSeq(g, 1, m)  OBVIOUS
  <1>12. r \in Seq(E) /\ Len(r) = m /\ \A k \in 1 .. m : r[k] = g[k]
    <2>1. \A k \in 1 .. m : g[k] \in E  BY <1>3, <1>10
    <2>2. /\ SubSeq(g, 1, m) \in Seq(E) /\ Len(SubSeq(g, 1, m)) = IF 1 <= m THEN m - 1 + 1 ELSE 0
          /\ \A k \in 1 .. m - 1 + 1 : SubSeq(g, 1, m)[k] = g[1 + k - 1]
      BY <2>1, SubSeqProperties
    <2> QED  BY <1>11, <2>2
  <1>13. r = Delmin(q)  BY <1>1, <1>3, <1>9, <1>11
  <1>14. Heap(r, m)
    <2>1. SUFFICES ASSUME NEW k \in 2 .. m PROVE r[k \div 2].dt <= r[k].dt  BY DEF Heap
    <2>2. k \in Nat /\ k >= 2 /\ k <= m  BY <1>3
    <2>3. k \div 2 \in Nat /\ k \div 2 >= 1 /\ k \div 2 < k  BY <2>2, Half
    <2>4. k \in 2 .. n - 1 /\ k \in 1 .. m /\ k \div 2 \in 1 .. m  BY <1>3, <2>2, <2>3
    <2>5. g[k \div 2].dt <= g[k].dt  BY <1>10, <2>3, <2>4
    <2> QED  BY <1>12, <2>4, <2>5
  <1>15. ASSUME NEW i PROVE Tally(q, i) = Tally(r, i) + At(q[1], i) /\ Tally(r, i) \in Nat
    <2>1. r \in [1 .. m -> E] /\ \A k \in 1 .. m : g[k] = r[k]  BY <1>12
    <2>2. Added(r, g, g[n], i)  BY <1>3, <1>10, <2>1, TallyLast, Zenon
    <2>3. At(q[1], i) \in Nat /\ At(q[n], i) \in Nat  BY DEF At
    <2>4. Tally(q, i) \in Nat
      <3>1. PICK t : t = [q EXCEPT ![1] = q[1]]  OBVIOUS
      <3>2. q \in [1 .. n -> E] /\ q[1] \in E
        <4>1. q \in [1 .. Len(q) -> E]  OBVIOUS
        <4>2. q \in [1 .. n -> E]  BY <1>3, <4>1
        <4> QED  BY <1>3, <4>2
      <3>3. Swapped(q, t, q[1], q[1], i)  BY <1>3, <3>1, <3>2, TallyPut, Zenon
      <3> QED  BY <3>3 DEF Swapped
    <2>5. Tally(g, i) = Tally(q, i) - At(q[1], i) + At(q[n], i) /\ g[n] = q[n]  BY <1>10
    <2>6. Tally(r, i) \in Nat /\ Tally(g, i) = Tally(r, i) + At(g[n], i)  BY <2>2 DEF Added
    <2> QED  BY <2>3, <2>4, <2>5, <2>6
  <1> QED  BY <1>2, <1>3, <1>12, <1>13, <1>14, <1>15

(* What prioq_min returns.                                                 *)
LEMMA HeapMin ==
  ASSUME NEW E, NEW q \in Seq(E), Entries(E), Heap(q, Len(q)), NEW k \in 1 .. Len(q)
  PROVE  q[1].dt <= q[k].dt
  <1>1. PICK n \in Nat : n = Len(q)  OBVIOUS
  <1>2. \A j \in 1 .. n : q[j].dt \in Int  BY <1>1 DEF Entries
  <1> DEFINE T == {m \in Nat : \A j \in 1 .. n : j <= m => q[1].dt <= q[j].dt}
  <1>3. 0 \in T  OBVIOUS
  <1>4. ASSUME NEW m \in T PROVE m + 1 \in T
    <2>1. m \in Nat /\ \A j \in 1 .. n : j <= m => q[1].dt <= q[j].dt  OBVIOUS
    <2>2. ASSUME NEW j \in 1 .. n, j <= m + 1 PROVE q[1].dt <= q[j].dt
      <3>1. CASE j = 1  BY <1>2, <3>1
      <3>2. CASE j # 1
        <4>1. j \in Nat /\ j >= 2 /\ j \in 2 .. n  BY <1>1, <3>2
        <4>2. j \div 2 \in Nat /\ j \div 2 >= 1 /\ j \div 2 < j  BY <4>1, Half
        <4>3. j \div 2 \in 1 .. n /\ j \div 2 <= m /\ 1 \in 1 .. n  BY <1>1, <2>1, <2>2, <4>1, <4>2
        <4>4. q[j \div 2].dt <= q[j].dt  BY <1>1, <4>1 DEF Heap
        <4>5. q[1].dt <= q[j \div 2].dt  BY <2>1, <4>3
        <4>6. q[1].dt \in Int /\ q[j].dt \in Int /\ q[j \div 2].dt \in Int  BY <1>2, <4>3
        <4> QED  BY <4>4, <4>5, <4>6
      <3> QED  BY <3>1, <3>2
    <2>3. m + 1 \in Nat  BY <2>1
    <2> QED  BY <2>2, <2>3
  <1> HIDE DEF T
  <1>5. T = Nat
    <2>1. T \in SUBSET Nat  BY DEF T
    <2> QED  BY <1>3, <1>4, <2>1, Induct
  <1>6. n \in T /\ k \in 1 .. n  BY <1>1, <1>5
  <1> QED  BY <1>6 DEF T

(* Powers of two: what the recursion of shl computes.                      *)
LEMMA ShlIs ==
  /\ shl \in [0 .. 2 * (HighBit + 1) -> Nat \ {0}] /\ shl[0] = 1
  /\ \A j \in 0 .. 2 * HighBit + 1 : shl[j + 1] = 2 * shl[j]
  <1>1. PICK n \in Nat : n = 2 * (HighBit + 1) /\ n >= 1 /\ 2 * HighBit + 1 = n - 1
    BY ScheduleAssumption
  <1> DEFINE P == Nat \ {0}
             T == {m \in Nat : m <= n =>
                     \E f \in [0 .. m -> P] : f[0] = 1 /\ \A j \in 1 .. m : f[j] = 2 * f[j - 1]}
  <1>2. 0 \in T
    <2>1. [j \in 0 .. 0 |-> 1] \in [0 .. 0 -> P] /\ [j \in 0 .. 0 |-> 1][0] = 1  OBVIOUS
    <2>2. 1 .. 0 = {}  OBVIOUS
    <2> QED  BY <2>1, <2>2
  <1>3. ASSUME NEW m \in T PROVE m + 1 \in T
    <2>1. SUFFICES ASSUME m + 1 <= n
                   PROVE  \E f \in [0 .. m + 1 -> P] :
                             f[0] = 1 /\ \A j \in 1 .. m + 1 : f[j] = 2 * f[j - 1]
      OBVIOUS
    <2>2. m \in Nat /\ m <= n  BY <1>1, <2>1
    <2>3. PICK f \in [0 .. m -> P] : f[0] = 1 /\ \A j \in 1 .. m : f[j] = 2 * f[j - 1]
      BY <2>2
    <2> HIDE DEF T
    <2>4. m \in 0 .. m /\ 0 \in 0 .. m /\ m + 1 \notin 0 .. m /\ m + 1 \in 0 .. m + 1  BY <2>2
    <2>5. PICK c \in P : c = 2 * f[m]
      <3>1. PICK a \in P : a = f[m]  BY <2>3, <2>4
      <3>2. 2 * a \in P  OBVIOUS
      <3> QED  BY <3>1, <3>2
    <2> DEFINE g == [j \in 0 .. m + 1 |-> IF j = m + 1 THEN c ELSE f[j]]
    <2>6. \A j \in 0 .. m + 1 : j = m + 1 \/ j \in 0 .. m  BY <2>2
    <2>7. g[m + 1] = c /\ \A j \in 0 .. m : g[j] = f[j]
      <3>1. \A j \in 0 .. m : j \in 0 .. m + 1 /\ j # m + 1  BY <2>2
      <3> QED  BY <2>4, <3>1
    <2>8. g \in [0 .. m + 1 -> P]
      <3>1. \A j \in 0 .. m + 1 : (IF j = m + 1 THEN c ELSE f[j]) \in P  BY <2>3, <2>6
      <3> QED  BY <3>1
    <2> HIDE DEF g
    <2>9. ASSUME NEW j \in 1 .. m + 1 PROVE g[j] = 2 * g[j - 1]
      <3>1. CASE j = m + 1
        <4>1. j - 1 = m  BY <2>2, <3>1
        <4> QED  BY <2>4, <2>5, <2>7, <3>1, <4>1
      <3>2. CASE j # m + 1
        <4>1. j \in 1 .. m /\ j \in 0 .. m /\ j - 1 \in 0 .. m  BY <2>2, <3>2
        <4> QED  BY <2>3, <2>7, <4>1
      <3> QED  BY <3>1, <3>2
    <2>10. g[0] = 1  BY <2>3, <2>4, <2>7
    <2> QED  BY <2>8, <2>9, <2>10
  <1> HIDE DEF T
  <1>4. T = Nat
    <2>1. T \in SUBSET Nat  BY DEF T
    <2> QED  BY <1>2, <1>3, <2>1, Induct
  <1>5. PICK f \in [0 .. n -> P] : f[0] = 1 /\ \A j \in 1 .. n : f[j] = 2 * f[j - 1]
    <2>1. n \in T /\ n <= n  BY <1>1, <1>4
    <2> QED  BY <2>1 DEF T
  <1> DEFINE F(h) == [j \in 0 .. 2 * (HighBit + 1) |-> IF j = 0 THEN 1 ELSE 2 * h[j - 1]]
  <1>6. shl = CHOOSE h : h = F(h)  BY DEF shl
  <1>7. f = F(f)
    <2>1. \A j \in 0 .. n : j = 0 \/ j \in 1 .. n  BY <1>1
    <2>2. \A j \in 0 .. n : f[j] = F(f)[j]  BY <1>1, <1>5, <2>1
    <2>3. f = [j \in 0 .. n |-> f[j]]  BY <1>5
    <2>4. F(f) = [j \in 0 .. n |-> F(f)[j]]  BY <1>1
    <2> HIDE DEF F
    <2> QED  BY <2>2, <2>3, <2>4
  <1>8. shl = F(shl)
    <2> HIDE DEF F
    <2> QED  BY <1>6, <1>7
  <1>9. DOMAIN shl = 0 .. n /\ \A j \in 0 .. n : shl[j] = IF j = 0 THEN 1 ELSE 2 * shl[j - 1]
    <2>1. DOMAIN F(shl) = 0 .. n /\ \A j \in 0 .. n : F(shl)[j] = IF j = 0 THEN 1 ELSE 2 * shl[j - 1]
      BY <1>1
    <2> HIDE DEF F
    <2> QED  BY <1>8, <2>1
  <1> DEFINE U == {m \in Nat : m <= n => shl[m] \in P}
  <1>10. 0 \in U
    <2>1. 0 \in 0 .. n  BY <1>1
    <2> QED  BY <1>9, <2>1
  <1>11. ASSUME NEW m \in U PROVE m + 1 \in U
    <2>1. SUFFICES ASSUME m + 1 <= n PROVE shl[m + 1] \in P  OBVIOUS
    <2>2. m \in Nat /\ m <= n /\ m + 1 \in 0 .. n /\ m + 1 # 0 /\ (m + 1) - 1 = m  BY <1>1, <2>1
    <2>3. PICK a \in P : a = shl[m]  BY <2>2
    <2>4. shl[m + 1] = 2 * a  BY <1>9, <2>2, <2>3
    <2> QED  BY <2>4
  <1> HIDE DEF U
  <1>12. U = Nat
    <2>1. U \in SUBSET Nat  BY DEF U
    <2> QED  BY <1>10, <1>11, <2>1, Induct
  <1>13. \A j \in 0 .. n : shl[j] \in P
    <2>1. \A j \in 0 .. n : j \in U /\ j <= n  BY <1>1, <1>12
    <2> QED  BY <2>1 DEF U
  <1>14. shl \in [0 .. n -> P]
    <2>1. shl = [j \in 0 .. n |-> shl[j]]
      <3>1. F(shl) = [j \in 0 .. n |-> F(shl)[j]]  BY <1>1
      <3> HIDE DEF F
      <3> QED  BY <1>8, <3>1
    <2>2. [j \in 0 .. n |-> shl[j]] \in [0 .. n -> P]  BY <1>13
    <2> QED  BY <2>1, <2>2
  <1>15. shl[0] = 1
    <2>1. 0 \in 0 .. n  BY <1>1
    <2> QED  BY <1>9, <2>1
  <1>16. ASSUME NEW j \in 0 .. n - 1 PROVE shl[j + 1] = 2 * shl[j]
    <2>1. j + 1 \in 0 .. n /\ j + 1 # 0 /\ (j + 1) - 1 = j  BY <1>1
    <2> QED  BY <1>9, <2>1
  <1> QED  BY <1>1, <1>14, <1>15, <1>16

LEMMA ShlTwice ==
  ASSUME NEW j \in 0 .. HighBit + 1
  PROVE  shl[j + j] = shl[j] * shl[j]
  <1>1. PICK n \in Nat : n = HighBit + 1 /\ n >= 1  BY ScheduleAssumption
  <1>2. /\ \A k \in 0 .. 2 * n : shl[k] \in Nat
        /\ shl[0] = 1 /\ \A k \in 0 .. 2 * n - 1 : shl[k + 1] = 2 * shl[k]
    <2>1. 2 * (HighBit + 1) = 2 * n /\ 2 * HighBit + 1 = 2 * n - 1  BY <1>1, ScheduleAssumption
    <2> QED  BY <2>1, ShlIs
  <1> DEFINE T == {m \in Nat : m <= n => shl[m + m] = shl[m] * shl[m]}
  <1>3. 0 \in T  BY <1>2
  <1>4. ASSUME NEW m \in T PROVE m + 1 \in T
    <2>1. SUFFICES ASSUME m + 1 <= n PROVE shl[(m + 1) + (m + 1)] = shl[m + 1] * shl[m + 1]
      OBVIOUS
    <2>2. m \in Nat /\ m <= n  BY <1>1, <2>1
    <2>3. shl[m + m] = shl[m] * shl[m]  BY <2>2
    <2> HIDE DEF T
    <2>4. /\ m \in 0 .. 2 * n - 1 /\ m + m \in 0 .. 2 * n - 1 /\ (m + m) + 1 \in 0 .. 2 * n - 1
          /\ m \in 0 .. 2 * n /\ m + m \in 0 .. 2 * n
          /\ ((m + m) + 1) + 1 = (m + 1) + (m + 1)
      BY <1>1, <2>1, <2>2
    <2>5. PICK a \in Nat : a = shl[m]  BY <1>2, <2>4
    <2>6. PICK b \in Nat : b = shl[m + m]  BY <1>2, <2>4
    <2>7. shl[m + 1] = 2 * a  BY <1>2, <2>4, <2>5
    <2>8. shl[(m + m) + 1] = 2 * b  BY <1>2, <2>4, <2>6
    <2>9. shl[((m + m) + 1) + 1] = 2 * (2 * b)  BY <1>2, <2>4, <2>8
    <2>10. b = a * a  BY <2>3, <2>5, <2>6
    <2>11. 2 * (2 * (a * a)) = (2 * a) * (2 * a)  OBVIOUS
    <2> QED  BY <2>4, <2>7, <2>9, <2>10, <2>11
  <1> HIDE DEF T
  <1>5. T = Nat
    <2>1. T \in SUBSET Nat  BY DEF T
    <2> QED  BY <1>3, <1>4, <2>1, Induct
  <1>6. j \in T /\ j <= n  BY <1>1, <1>5
  <1> QED  BY <1>6 DEF T

(* One bit of the square root.                                             *)
Bit(x, b, j) ==
  IF AtMost(b.y * shl[j + 1] + shl[j + j], x - b.yy)
    THEN [y |-> b.y + shl[j], yy |-> b.yy + (b.y * shl[j + 1] + shl[j + j])] ELSE b

Bits == [y : Int, yy : Int]

(* f[j] for j from m up, as squareroot sets the bits from m up.            *)
Rooted(x, f, m) ==
  \A j \in m .. HighBit + 1 :
    f[j] = IF j = HighBit + 1 THEN [y |-> 0, yy |-> 0] ELSE Bit(x, f[j + 1], j)

LEMMA ShlHere ==
  ASSUME NEW j \in 0 .. HighBit
  PROVE  \E s \in Nat \ {0} : shl[j] = s /\ shl[j + 1] = 2 * s /\ shl[j + j] = s * s
  <1>1. PICK n \in Nat : n = HighBit  BY ScheduleAssumption
  <1>2. /\ j \in 0 .. 2 * (HighBit + 1) /\ j \in 0 .. 2 * HighBit + 1
        /\ j \in 0 .. HighBit + 1
    BY <1>1
  <1>3. PICK s \in Nat \ {0} : s = shl[j]  BY <1>2, ShlIs
  <1>4. shl[j + 1] = 2 * s  BY <1>2, <1>3, ShlIs
  <1>5. shl[j + j] = s * s  BY <1>2, <1>3, ShlTwice
  <1> QED  BY <1>3, <1>4, <1>5

LEMMA BitIs ==
  ASSUME NEW x \in Int, NEW b \in Bits, NEW j \in 0 .. HighBit
  PROVE  Bit(x, b, j) \in Bits
  <1>1. b.y \in Int /\ b.yy \in Int  BY DEF Bits
  <1>2. PICK s \in Nat \ {0} : shl[j] = s /\ shl[j + 1] = 2 * s /\ shl[j + j] = s * s  BY ShlHere
  <1>3. s * s \in Int /\ b.y * (2 * s) \in Int  BY <1>1
  <1>4. PICK c \in Int : c = b.y * shl[j + 1] + shl[j + j]  BY <1>2, <1>3
  <1>5. b.y + s \in Int /\ b.yy + c \in Int  BY <1>1
  <1> QED  BY <1>2, <1>4, <1>5 DEF Bit, Bits

(* What the bits from j up are: the root of x, short by less than 1 << j.  *)
Part(x, b, j) ==
  /\ b \in Bits /\ b.y \in Nat /\ b.yy = b.y * b.y /\ b.yy <= x
  /\ b.y + shl[j] <= shl[HighBit + 1]
  /\ x < (b.y + shl[j]) * (b.y + shl[j]) \/ b.y + shl[j] = shl[HighBit + 1]

LEMMA BitPart ==
  ASSUME NEW x \in Nat, NEW b, NEW j \in 0 .. HighBit, Part(x, b, j + 1)
  PROVE  Part(x, Bit(x, b, j), j)
  <1>1. PICK s \in Nat \ {0} : shl[j] = s /\ shl[j + 1] = 2 * s /\ shl[j + j] = s * s  BY ShlHere
  <1>2. PICK N \in Nat : N = shl[HighBit + 1]
    <2>1. HighBit + 1 \in 0 .. 2 * (HighBit + 1)  BY ScheduleAssumption
    <2> QED  BY <2>1, ShlIs
  <1>3. PICK y \in Nat : y = b.y  BY DEF Part
  <1>4. b \in Bits /\ b.yy = y * y /\ y * y <= x  BY <1>3 DEF Part
  <1>5. y + 2 * s <= N  BY <1>1, <1>2, <1>3 DEF Part
  <1>6. x < (y + 2 * s) * (y + 2 * s) \/ y + 2 * s = N  BY <1>1, <1>2, <1>3 DEF Part
  <1>7. PICK c : c = Bit(x, b, j)  OBVIOUS
  <1>8. c = IF y * (2 * s) + s * s <= x - y * y
              THEN [y |-> y + s, yy |-> y * y + (y * (2 * s) + s * s)] ELSE b
    BY <1>1, <1>3, <1>4, <1>7 DEF Bit, AtMost
  <1>9. c \in Bits  BY <1>4, <1>7, BitIs
  <1>10. y * y + (y * (2 * s) + s * s) = (y + s) * (y + s)  OBVIOUS
  <1>11. y * y \in Int /\ y * (2 * s) + s * s \in Int /\ (y + s) * (y + s) \in Int  OBVIOUS
  <1>12. CASE y * (2 * s) + s * s <= x - y * y
    <2>1. c.y = y + s /\ c.yy = (y + s) * (y + s)  BY <1>8, <1>10, <1>12
    <2>2. (y + s) * (y + s) <= x
      <3>1. PICK u \in Int : u = y * y  BY <1>11
      <3>2. PICK v \in Int : v = y * (2 * s) + s * s  BY <1>11
      <3>3. v <= x - u /\ u + v = (y + s) * (y + s)  BY <1>10, <1>12, <3>1, <3>2
      <3>4. u + v <= x  BY <3>3
      <3> QED  BY <3>3, <3>4
    <2>3. y + s \in Nat /\ (y + s) + s = y + 2 * s  OBVIOUS
    <2> QED  BY <1>1, <1>2, <1>5, <1>6, <1>7, <1>9, <2>1, <2>2, <2>3 DEF Part
  <1>13. CASE ~(y * (2 * s) + s * s <= x - y * y)
    <2>1. c = b  BY <1>8, <1>13
    <2>2. x < (y + s) * (y + s)
      <3>1. PICK u \in Int : u = y * y  BY <1>11
      <3>2. PICK v \in Int : v = y * (2 * s) + s * s  BY <1>11
      <3>3. ~(v <= x - u) /\ u + v = (y + s) * (y + s)  BY <1>10, <1>13, <3>1, <3>2
      <3>4. x < u + v  BY <3>3
      <3> QED  BY <3>3, <3>4
    <2>3. y + s <= N  BY <1>5
    <2> QED  BY <1>1, <1>2, <1>3, <1>4, <1>7, <2>1, <2>2, <2>3 DEF Part
  <1> QED  BY <1>12, <1>13

LEMMA RootedExists ==
  ASSUME NEW x \in Int
  PROVE  \E f \in [0 .. HighBit + 1 -> Bits] : Rooted(x, f, 0)
  <1>1. PICK n \in Nat : n = HighBit + 1 /\ n >= 1  BY ScheduleAssumption
  <1> DEFINE T == {m \in Nat : m <= n => \E f \in [n - m .. n -> Bits] : Rooted(x, f, n - m)}
  <1>2. 0 \in T
    <2>1. n - 0 = n /\ n .. n = {n}  BY <1>1
    <2>2. [k \in n .. n |-> [y |-> 0, yy |-> 0]] \in [n .. n -> Bits]  BY DEF Bits
    <2>3. Rooted(x, [k \in n .. n |-> [y |-> 0, yy |-> 0]], n)  BY <1>1, <2>1 DEF Rooted
    <2> QED  BY <2>1, <2>2, <2>3
  <1>3. ASSUME NEW m \in T PROVE m + 1 \in T
    <2>1. m \in Nat  OBVIOUS
    <2>2. SUFFICES ASSUME m + 1 <= n
                   PROVE  \E f \in [n - (m + 1) .. n -> Bits] : Rooted(x, f, n - (m + 1))
      BY <2>1
    <2>3. PICK l \in Nat : l = n - (m + 1) /\ l + 1 = n - m /\ l < n
      <3> HIDE DEF T
      <3>1. n - (m + 1) \in Nat /\ (n - (m + 1)) + 1 = n - m /\ n - (m + 1) < n  BY <1>1, <2>1, <2>2
      <3> QED  BY <3>1
    <2>4. PICK f \in [l + 1 .. n -> Bits] : Rooted(x, f, l + 1)  BY <2>1, <2>2, <2>3
    <2> DEFINE v == Bit(x, f[l + 1], l)
               g == [i \in l .. n |-> IF i = l THEN v ELSE f[i]]
    <2>5. v \in Bits
      <3>1. l + 1 \in l + 1 .. n  BY <1>1, <2>3
      <3>2. f[l + 1] \in Bits  BY <2>4, <3>1
      <3>3. l \in 0 .. HighBit  BY <1>1, <2>3, ScheduleAssumption
      <3> QED  BY <3>2, <3>3, BitIs
    <2> HIDE DEF v
    <2>6. \A i \in l .. n : i = l \/ i \in l + 1 .. n  BY <1>1
    <2>7. g[l] = v /\ \A i \in l + 1 .. n : g[i] = f[i]
      <3>1. l \in l .. n /\ \A i \in l + 1 .. n : i \in l .. n /\ i # l  BY <1>1, <2>3
      <3> QED  BY <3>1
    <2>8. g \in [l .. n -> Bits]
      <3>1. \A i \in l .. n : (IF i = l THEN v ELSE f[i]) \in Bits  BY <2>4, <2>5, <2>6
      <3> QED  BY <3>1
    <2> HIDE DEF g
    <2>9. Rooted(x, g, l)
      <3>1. SUFFICES ASSUME NEW i \in l .. n
                     PROVE  g[i] = IF i = n THEN [y |-> 0, yy |-> 0] ELSE Bit(x, g[i + 1], i)
        BY <1>1 DEF Rooted
      <3>2. CASE i = l
        <4>1. l # n /\ l + 1 \in l + 1 .. n  BY <1>1, <2>3
        <4>2. g[l] = Bit(x, g[l + 1], l)  BY <2>7, <4>1 DEF v
        <4> QED  BY <3>2, <4>1, <4>2
      <3>3. CASE i # l
        <4>1. i \in l + 1 .. n  BY <2>6, <3>3
        <4>2. f[i] = IF i = n THEN [y |-> 0, yy |-> 0] ELSE Bit(x, f[i + 1], i)
          BY <1>1, <2>4, <4>1 DEF Rooted
        <4>3. i # n => i + 1 \in l + 1 .. n  BY <1>1, <2>3, <4>1
        <4>4. g[i] = f[i]  BY <2>7, <4>1
        <4>5. i # n => g[i + 1] = f[i + 1]  BY <2>7, <4>3
        <4> QED  BY <4>2, <4>4, <4>5
      <3> QED  BY <3>2, <3>3
    <2> QED  BY <2>3, <2>8, <2>9
  <1> HIDE DEF T
  <1>4. T = Nat
    <2>1. T \in SUBSET Nat  BY DEF T
    <2> QED  BY <1>2, <1>3, <2>1, Induct
  <1>5. n \in T /\ n <= n /\ n - n = 0  BY <1>1, <1>4
  <1>6. \E f \in [0 .. n -> Bits] : Rooted(x, f, 0)  BY <1>5 DEF T
  <1> QED  BY <1>1, <1>6

(* The comment at squareroot, and what there is where x has too many bits. *)
Root(x, y) ==
  /\ y \in Nat /\ y * y <= x /\ y + 1 <= shl[HighBit + 1]
  /\ x < (y + 1) * (y + 1) \/ y + 1 = shl[HighBit + 1]

LEMMA RootIs ==
  ASSUME NEW x \in Nat
  PROVE  Root(x, squareroot(x))
  <1> DEFINE F(h) == [j \in 0 .. HighBit + 1 |->
                        IF j = HighBit + 1 THEN [y |-> 0, yy |-> 0] ELSE Bit(x, h[j + 1], j)]
             c == CHOOSE h : h = F(h)
  <1>1. squareroot(x) = c[0].y  BY DEF squareroot, Bit
  <1>2. PICK f \in [0 .. HighBit + 1 -> Bits] : Rooted(x, f, 0)  BY RootedExists
  <1>3. f = F(f)
    <2>1. \A k \in 0 .. HighBit + 1 : f[k] = F(f)[k]  BY <1>2 DEF Rooted
    <2>2. f = [k \in 0 .. HighBit + 1 |-> f[k]]  BY <1>2
    <2> QED  BY <2>1, <2>2
  <1>4. c = F(c)
    <2> HIDE DEF F
    <2> QED  BY <1>3
  <1> HIDE DEF c
  <1>5. PICK n \in Nat : n = HighBit + 1 /\ n >= 1 /\ n - 1 = HighBit  BY ScheduleAssumption
  <1>6. Rooted(x, c, 0)
    <2>1. \A j \in 0 .. HighBit + 1 :
            F(c)[j] = IF j = HighBit + 1 THEN [y |-> 0, yy |-> 0] ELSE Bit(x, c[j + 1], j)
      OBVIOUS
    <2> HIDE DEF F
    <2> QED  BY <1>4, <2>1 DEF Rooted
  <1> DEFINE T == {m \in Nat : m <= n => Part(x, c[n - m], n - m)}
  <1>7. 0 \in T
    <2>1. n - 0 = n /\ n \in 0 .. n  BY <1>5
    <2>2. c[n] = [y |-> 0, yy |-> 0]  BY <1>5, <1>6, <2>1 DEF Rooted
    <2>3. shl[n] \in Nat
      <3>1. n \in 0 .. 2 * (HighBit + 1)  BY <1>5
      <3> QED  BY <3>1, ShlIs
    <2>4. Part(x, c[n], n)  BY <1>5, <2>2, <2>3 DEF Part, Bits
    <2> QED  BY <2>1, <2>4
  <1>8. ASSUME NEW m \in T PROVE m + 1 \in T
    <2>1. m \in Nat  OBVIOUS
    <2>2. SUFFICES ASSUME m + 1 <= n PROVE Part(x, c[n - (m + 1)], n - (m + 1))  BY <2>1
    <2>3. PICK l \in Nat : l = n - (m + 1) /\ l + 1 = n - m /\ l < n
      <3> HIDE DEF T
      <3>1. n - (m + 1) \in Nat /\ (n - (m + 1)) + 1 = n - m /\ n - (m + 1) < n  BY <1>5, <2>1, <2>2
      <3> QED  BY <3>1
    <2>4. Part(x, c[l + 1], l + 1)  BY <2>1, <2>2, <2>3
    <2> HIDE DEF T
    <2>5. l \in 0 .. n /\ l # n /\ l \in 0 .. HighBit  BY <1>5, <2>3
    <2>6. c[l] = Bit(x, c[l + 1], l)  BY <1>5, <1>6, <2>5 DEF Rooted
    <2>7. Part(x, c[l], l)  BY <2>4, <2>5, <2>6, BitPart
    <2> QED  BY <2>3, <2>7
  <1> HIDE DEF T
  <1>9. T = Nat
    <2>1. T \in SUBSET Nat  BY DEF T
    <2> QED  BY <1>7, <1>8, <2>1, Induct
  <1>10. Part(x, c[0], 0)
    <2>1. n \in T /\ n <= n /\ n - n = 0  BY <1>5, <1>9
    <2> QED  BY <2>1 DEF T
  <1>11. shl[0] = 1  BY ShlIs
  <1>12. PICK d : d = c[0]  OBVIOUS
  <1> QED  BY <1>1, <1>10, <1>11, <1>12 DEF Part, Root

(* What nextretry computes, from a root r.                                 *)
Retried(birth, now, r) ==
  /\ nextretry(birth, now) = birth + (r + chanskip) * (r + chanskip)
  /\ birth <= now => r = squareroot(now - birth)

LEMMA RetryIs ==
  ASSUME NEW birth \in Nat, NEW now \in Nat
  PROVE  nextretry(birth, now) \in Int /\ \E r \in Nat : Retried(birth, now, r)
  <1>1. PICK r : r = IF birth > now THEN 0 ELSE squareroot(now - birth)  OBVIOUS
  <1>2. r \in Nat
    <2>1. CASE birth > now  BY <1>1, <2>1
    <2>2. CASE ~(birth > now)
      <3>1. now - birth \in Nat  BY <2>2
      <3>2. Root(now - birth, squareroot(now - birth))  BY <3>1, RootIs
      <3> QED  BY <1>1, <2>2, <3>2 DEF Root
    <2> QED  BY <2>1, <2>2
  <1>3. PICK k \in Nat : k = r + chanskip  BY <1>2, ScheduleAssumption
  <1>4. nextretry(birth, now) = birth + k * k  BY <1>1, <1>3 DEF nextretry, Skip
  <1>5. birth + k * k \in Int  OBVIOUS
  <1>6. birth <= now => r = squareroot(now - birth)  BY <1>1
  <1>7. Retried(birth, now, r)  BY <1>3, <1>4, <1>6 DEF Retried
  <1> QED  BY <1>2, <1>4, <1>5, <1>7

-----------------------------------------------------------------------------
(* What the heap and the jobs hold, and what must be in one of the two.    *)
Entry == [dt : Int, id : Id]
Job == [id : Id, retry : Int, dying : BOOLEAN]

Held(J, i) == Cardinality({j \in J : j.id = i})
Owed(b, d, i) == IF b[i] # None /\ i \notin d THEN 1 ELSE 0

SchedTypes ==
  /\ p \in Seq(Entry)
  /\ jobs \in SUBSET Job /\ IsFiniteSet(jobs)
  /\ recent \in Nat
  /\ born \in [Id -> Nat \union {None}]
  /\ done \in SUBSET Id

SchedInv ==
  /\ SchedTypes
  /\ Heap(p, Len(p))
  /\ \A i \in Id : Tally(p, i) + Held(jobs, i) = Owed(born, done, i)
  /\ \A i \in done : born[i] # None

LEMMA EntriesAre == Entries(Entry)
  BY DEF Entries, Entry

LEMMA HeldIs ==
  ASSUME NEW J, IsFiniteSet(J), NEW i
  PROVE  IsFiniteSet({j \in J : j.id = i}) /\ Held(J, i) \in Nat
  <1>1. IsFiniteSet({j \in J : j.id = i})  BY FS_Subset
  <1> QED  BY <1>1, FS_CardinalityType DEF Held

LEMMA TallyIs ==
  ASSUME NEW E, NEW s \in Seq(E), NEW i
  PROVE  Tally(s, i) \in Nat
  <1>1. PICK n \in Nat : n = Len(s)  OBVIOUS
  <1>2. s \in [1 .. n -> E]
    <2>1. s \in [1 .. Len(s) -> E]  OBVIOUS
    <2> QED  BY <1>1, <2>1
  <1> DEFINE K == {k \in 1 .. n : s[k].id = i}
  <1>3. IsFiniteSet(K)
    <2>1. IsFiniteSet(1 .. n)  BY FS_Interval
    <2> QED  BY <2>1, FS_Subset
  <1>4. Tally(s, i) = Cardinality(K)  BY <1>2 DEF Tally
  <1> HIDE DEF K
  <1> QED  BY <1>3, <1>4, FS_CardinalityType

LEMMA HeldMore ==
  ASSUME NEW J, IsFiniteSet(J), NEW e, e \notin J, NEW i
  PROVE  Held(J \union {e}, i) = Held(J, i) + At(e, i)
  <1> DEFINE K == {j \in J : j.id = i}
             L == {j \in J \union {e} : j.id = i}
  <1>1. IsFiniteSet(K) /\ Cardinality(K) \in Nat  BY HeldIs DEF Held
  <1>2. CASE e.id = i
    <2>1. L = K \union {e} /\ e \notin K  BY <1>2
    <2>2. Cardinality(L) = Cardinality(K) + 1  BY <1>1, <2>1, FS_AddElement
    <2> QED  BY <1>2, <2>2 DEF Held, At
  <1>3. CASE e.id # i
    <2>1. L = K  BY <1>3
    <2>2. At(e, i) = 0  BY <1>3 DEF At
    <2>3. Held(J, i) = Cardinality(K) /\ Held(J \union {e}, i) = Cardinality(L)  BY DEF Held
    <2> HIDE DEF K, L
    <2> QED  BY <1>1, <2>1, <2>2, <2>3
  <1> QED  BY <1>2, <1>3

LEMMA HeldLess ==
  ASSUME NEW J, IsFiniteSet(J), NEW e \in J, NEW i
  PROVE  Held(J, i) = Held(J \ {e}, i) + At(e, i)
  <1>1. IsFiniteSet(J \ {e}) /\ e \notin J \ {e} /\ J = (J \ {e}) \union {e}  BY FS_Subset
  <1>2. PICK M : M = J \ {e}  OBVIOUS
  <1>3. Held(M \union {e}, i) = Held(M, i) + At(e, i)  BY <1>1, <1>2, HeldMore
  <1> QED  BY <1>1, <1>2, <1>3

LEMMA SchedInit == Init => SchedInv
  <1> SUFFICES ASSUME Init PROVE SchedInv  OBVIOUS
  <1>1. p = << >> /\ jobs = {} /\ recent = 0 /\ born = [i \in Id |-> None] /\ done = {}  BY DEF Init
  <1>2. IsFiniteSet({})  BY FS_EmptySet
  <1>3. SchedTypes  BY <1>1, <1>2 DEF SchedTypes
  <1>4. Heap(p, Len(p))  BY <1>1 DEF Heap
  <1>5. ASSUME NEW i \in Id PROVE Tally(p, i) + Held(jobs, i) = Owed(born, done, i)
    <2>1. Cardinality({}) = 0  BY FS_EmptySet
    <2>2. {k \in DOMAIN p : p[k].id = i} = {}  BY <1>1
    <2>3. {j \in jobs : j.id = i} = {}  BY <1>1
    <2>4. Owed(born, done, i) = 0  BY <1>1 DEF Owed
    <2>5. Tally(p, i) = 0 /\ Held(jobs, i) = 0  BY <2>1, <2>2, <2>3 DEF Tally, Held
    <2> QED  BY <2>4, <2>5
  <1> QED  BY <1>1, <1>3, <1>4, <1>5 DEF SchedInv

LEMMA QueueOK ==
  ASSUME SchedInv, NEW i \in Id, Queue(i)
  PROVE  SchedInv'
  <1> USE DEF SchedTypes
  <1>1. SchedTypes /\ Heap(p, Len(p)) /\ Entries(Entry)  BY EntriesAre DEF SchedInv
  <1>2. /\ born[i] = None /\ born' = [born EXCEPT ![i] = recent]
        /\ p' = Insert(p, [dt |-> recent, id |-> i])
        /\ jobs' = jobs /\ recent' = recent /\ done' = done
    BY DEF Queue
  <1>3. PICK e \in Entry : e = [dt |-> recent, id |-> i]
    <2>1. recent \in Int  BY <1>1
    <2>2. [dt |-> recent, id |-> i] \in Entry  BY <2>1 DEF Entry
    <2> QED  BY <2>2
  <1>4. p' = Insert(p, e)  BY <1>2, <1>3
  <1>5. /\ p' \in Seq(Entry) /\ Heap(p', Len(p'))
        /\ \A k : Tally(p', k) = Tally(p, k) + At(e, k) /\ Tally(p, k) \in Nat
    BY <1>1, <1>4, InsertOK
  <1>6. recent # None  BY <1>1, ScheduleAssumption
  <1>7. born' \in [Id -> Nat \union {None}] /\ \A k \in Id : born'[k] = IF k = i THEN recent ELSE born[k]
    BY <1>1, <1>2
  <1>8. i \notin done  BY <1>2 DEF SchedInv
  <1>9. SchedTypes'  BY <1>1, <1>2, <1>5, <1>7
  <1>10. ASSUME NEW k \in Id PROVE Tally(p', k) + Held(jobs', k) = Owed(born', done', k)
    <2>1. Tally(p, k) + Held(jobs, k) = Owed(born, done, k)  BY DEF SchedInv
    <2>2. Held(jobs, k) \in Nat  BY <1>1, HeldIs
    <2>3. Tally(p', k) = Tally(p, k) + At(e, k) /\ Tally(p, k) \in Nat  BY <1>5
    <2>4. CASE k = i
      <3>1. At(e, k) = 1  BY <1>3, <2>4 DEF At
      <3>2. Owed(born, done, k) = 0 /\ Owed(born', done', k) = 1
        BY <1>2, <1>6, <1>7, <1>8, <2>4 DEF Owed
      <3> QED  BY <1>2, <2>1, <2>2, <2>3, <3>1, <3>2
    <2>5. CASE k # i
      <3>1. At(e, k) = 0  BY <1>3, <2>5 DEF At
      <3>2. Owed(born', done', k) = Owed(born, done, k)  BY <1>2, <1>7, <2>5 DEF Owed
      <3> QED  BY <1>2, <2>1, <2>2, <2>3, <3>1, <3>2
    <2> QED  BY <2>4, <2>5
  <1>11. \A k \in done' : born'[k] # None
    <2>1. \A k \in done : born[k] # None  BY DEF SchedInv
    <2> QED  BY <1>1, <1>2, <1>6, <1>7, <2>1
  <1> QED  BY <1>5, <1>9, <1>10, <1>11 DEF SchedInv

(* The message of an attempt is in no job yet, and no longer in the heap.  *)
LEMMA AttemptIs ==
  ASSUME SchedInv, Attempt
  PROVE  \E i \in Id : /\ i = p[1].id /\ Held(jobs, i) = 0 /\ Tally(p', i) = 0 /\ born[i] # None
  <1>1. SchedTypes /\ Heap(p, Len(p)) /\ Entries(Entry)  BY EntriesAre DEF SchedInv
  <1>2. p \in Seq(Entry) /\ p # << >> /\ p' = Delmin(p) /\ IsFiniteSet(jobs)
    BY <1>1 DEF Attempt, SchedTypes
  <1>3. \A k : Tally(p, k) = Tally(p', k) + At(p[1], k) /\ Tally(p', k) \in Nat
    BY <1>1, <1>2, DelminOK
  <1>4. PICK e \in Entry : e = p[1]  BY <1>2
  <1>5. PICK i \in Id : i = e.id  BY DEF Entry
  <1>6. At(e, i) = 1  BY <1>5 DEF At
  <1>7. Held(jobs, i) = 0 /\ Tally(p', i) = 0 /\ born[i] # None
    <2>1. Tally(p, i) + Held(jobs, i) = Owed(born, done, i)  BY DEF SchedInv
    <2>2. Held(jobs, i) \in Nat  BY <1>2, HeldIs
    <2>3. Tally(p, i) = Tally(p', i) + 1 /\ Tally(p', i) \in Nat  BY <1>3, <1>4, <1>6
    <2>4. Owed(born, done, i) = 1 \/ Owed(born, done, i) = 0  BY DEF Owed
    <2>5. Owed(born, done, i) = 1 /\ Held(jobs, i) = 0 /\ Tally(p', i) = 0
      BY <2>1, <2>2, <2>3, <2>4
    <2> QED  BY <2>5 DEF Owed
  <1> QED  BY <1>4, <1>5, <1>7

LEMMA AttemptOK ==
  ASSUME SchedInv, Attempt
  PROVE  SchedInv'
  <1> USE DEF SchedTypes
  <1>1. SchedTypes /\ Heap(p, Len(p)) /\ Entries(Entry)  BY EntriesAre DEF SchedInv
  <1>2. /\ p # << >> /\ p' = Delmin(p)
        /\ jobs' = jobs \union {[id |-> p[1].id, retry |-> nextretry(born[p[1].id], recent),
                                 dying |-> Dying(born[p[1].id], recent)]}
        /\ recent' = recent /\ born' = born /\ done' = done
    BY DEF Attempt
  <1>3. /\ p' \in Seq(Entry) /\ Heap(p', Len(p'))
        /\ \A k : Tally(p, k) = Tally(p', k) + At(p[1], k) /\ Tally(p', k) \in Nat
    BY <1>1, <1>2, DelminOK
  <1>4. PICK e \in Entry : e = p[1]  BY <1>1, <1>2
  <1>5. PICK i \in Id : i = e.id  BY DEF Entry
  <1>7. Held(jobs, i) = 0 /\ Tally(p', i) = 0 /\ born[i] # None  BY <1>4, <1>5, AttemptIs
  <1>8. PICK j : j = [id |-> p[1].id, retry |-> nextretry(born[p[1].id], recent),
                      dying |-> Dying(born[p[1].id], recent)]
    OBVIOUS
  <1>9. j \in Job /\ j.id = i /\ jobs' = jobs \union {j}
    <2>1. born[i] \in Nat /\ recent \in Nat  BY <1>1, <1>7
    <2>2. nextretry(born[i], recent) \in Int  BY <2>1, RetryIs
    <2>3. Dying(born[i], recent) \in BOOLEAN  BY DEF Dying
    <2>4. j = [id |-> i, retry |-> nextretry(born[i], recent), dying |-> Dying(born[i], recent)]
      BY <1>4, <1>5, <1>8
    <2> QED  BY <1>2, <1>8, <2>2, <2>3, <2>4 DEF Job
  <1>10. j \notin jobs
    <2>1. SUFFICES ASSUME j \in jobs PROVE FALSE  OBVIOUS
    <2>2. IsFiniteSet({l \in jobs : l.id = i})  BY <1>1, HeldIs
    <2>3. Cardinality({l \in jobs : l.id = i}) = 0  BY <1>7 DEF Held
    <2>4. {l \in jobs : l.id = i} = {}  BY <2>2, <2>3, FS_EmptySet
    <2> QED  BY <1>9, <2>1, <2>4
  <1>11. IsFiniteSet(jobs')  BY <1>1, <1>9, FS_AddElement
  <1>12. SchedTypes'  BY <1>1, <1>2, <1>3, <1>9, <1>11
  <1>13. ASSUME NEW k \in Id PROVE Tally(p', k) + Held(jobs', k) = Owed(born', done', k)
    <2>1. Tally(p, k) + Held(jobs, k) = Owed(born, done, k)  BY DEF SchedInv
    <2>2. Held(jobs, k) \in Nat  BY <1>1, HeldIs
    <2>3. Tally(p, k) = Tally(p', k) + At(e, k) /\ Tally(p', k) \in Nat  BY <1>3, <1>4
    <2>4. Held(jobs', k) = Held(jobs, k) + At(j, k)  BY <1>1, <1>9, <1>10, HeldMore
    <2>5. At(j, k) = At(e, k) /\ At(e, k) \in Nat  BY <1>5, <1>9 DEF At
    <2>6. Owed(born', done', k) = Owed(born, done, k)  BY <1>2
    <2> QED  BY <2>1, <2>2, <2>3, <2>4, <2>5, <2>6
  <1>14. \A k \in done' : born'[k] # None  BY <1>2 DEF SchedInv
  <1> QED  BY <1>3, <1>12, <1>13, <1>14 DEF SchedInv

LEMMA TroubleOK ==
  ASSUME SchedInv, Trouble
  PROVE  SchedInv'
  <1> USE DEF SchedTypes
  <1>1. SchedTypes /\ Heap(p, Len(p)) /\ Entries(Entry)  BY EntriesAre DEF SchedInv
  <1>2. /\ p # << >> /\ p' = Insert(Delmin(p), [p[1] EXCEPT !.dt = recent + SLEEP_SYSFAIL])
        /\ jobs' = jobs /\ recent' = recent /\ born' = born /\ done' = done
    BY DEF Trouble
  <1>3. PICK q : q = Delmin(p)  OBVIOUS
  <1>4. /\ q \in Seq(Entry) /\ Heap(q, Len(q))
        /\ \A k : Tally(p, k) = Tally(q, k) + At(p[1], k) /\ Tally(q, k) \in Nat
    BY <1>1, <1>2, <1>3, DelminOK
  <1>5. PICK d \in Entry : d = p[1]  BY <1>1, <1>2
  <1>6. PICK e \in Entry : e = [d EXCEPT !.dt = recent + SLEEP_SYSFAIL] /\ e.id = d.id
    <2>1. recent + SLEEP_SYSFAIL \in Int  BY <1>1, ScheduleAssumption
    <2>2. [d EXCEPT !.dt = recent + SLEEP_SYSFAIL] \in Entry
          /\ [d EXCEPT !.dt = recent + SLEEP_SYSFAIL].id = d.id
      BY <2>1 DEF Entry
    <2> QED  BY <2>2
  <1>7. p' = Insert(q, e)  BY <1>2, <1>3, <1>5, <1>6
  <1>8. /\ p' \in Seq(Entry) /\ Heap(p', Len(p'))
        /\ \A k : Tally(p', k) = Tally(q, k) + At(e, k)
    BY <1>1, <1>4, <1>7, InsertOK
  <1>9. SchedTypes'  BY <1>1, <1>2, <1>8
  <1>10. ASSUME NEW k \in Id PROVE Tally(p', k) + Held(jobs', k) = Owed(born', done', k)
    <2>1. Tally(p, k) + Held(jobs, k) = Owed(born, done, k)  BY DEF SchedInv
    <2>2. At(e, k) = At(d, k)  BY <1>6 DEF At
    <2>3. Tally(p', k) = Tally(p, k)  BY <1>4, <1>5, <1>8, <2>2
    <2>4. Owed(born', done', k) = Owed(born, done, k)  BY <1>2
    <2> QED  BY <1>2, <2>1, <2>3, <2>4
  <1>11. \A k \in done' : born'[k] # None  BY <1>2 DEF SchedInv
  <1> QED  BY <1>8, <1>9, <1>10, <1>11 DEF SchedInv

LEMMA BackOK ==
  ASSUME SchedInv, NEW j \in jobs, NEW t \in Int,
         p' = Insert(p, [dt |-> t, id |-> j.id]), jobs' = jobs \ {j},
         recent' = recent, born' = born, done' = done
  PROVE  SchedInv'
  <1> USE DEF SchedTypes
  <1>1. SchedTypes /\ Heap(p, Len(p)) /\ Entries(Entry)  BY EntriesAre DEF SchedInv
  <1>2. /\ p' = Insert(p, [dt |-> t, id |-> j.id]) /\ jobs' = jobs \ {j}
        /\ recent' = recent /\ born' = born /\ done' = done
    OBVIOUS
  <1>3. PICK e \in Entry : e = [dt |-> t, id |-> j.id] /\ e.id = j.id
    <2>1. j \in Job  BY <1>1
    <2>2. [dt |-> t, id |-> j.id] \in Entry  BY <2>1 DEF Job, Entry
    <2> QED  BY <2>2
  <1>4. PICK q : q = p'  OBVIOUS
  <1>5. /\ p' \in Seq(Entry) /\ Heap(p', Len(p'))
        /\ \A k : Tally(p', k) = Tally(p, k) + At(e, k) /\ Tally(p, k) \in Nat
    <2>1. q = Insert(p, e)  BY <1>2, <1>3, <1>4
    <2>2. /\ q \in Seq(Entry) /\ Heap(q, Len(q))
          /\ \A k : Tally(q, k) = Tally(p, k) + At(e, k) /\ Tally(p, k) \in Nat
      <3>1. PICK r \in Seq(Entry) : r = p  BY <1>1
      <3>2. /\ Insert(r, e) \in Seq(Entry) /\ Len(Insert(r, e)) = Len(r) + 1
            /\ Heap(Insert(r, e), Len(r) + 1)
            /\ \A k : Tally(Insert(r, e), k) = Tally(r, k) + At(e, k) /\ Tally(r, k) \in Nat
        <4>1. Entries(Entry) /\ Heap(r, Len(r))  BY <1>1, <3>1
        <4> QED  BY <4>1, InsertOK, ZenonT(30)
      <3> QED  BY <2>1, <3>1, <3>2
    <2> QED  BY <1>4, <2>2
  <1>6. IsFiniteSet(jobs \ {j}) /\ jobs \ {j} \in SUBSET Job  BY <1>1, FS_Subset
  <1>7. SchedTypes'  BY <1>1, <1>2, <1>5, <1>6
  <1>8. ASSUME NEW k \in Id PROVE Tally(p', k) + Held(jobs', k) = Owed(born', done', k)
    <2>1. Tally(p, k) + Held(jobs, k) = Owed(born, done, k)  BY DEF SchedInv
    <2>2. Held(jobs, k) = Held(jobs', k) + At(j, k)  BY <1>1, <1>2, HeldLess
    <2>3. Held(jobs', k) \in Nat  BY <1>2, <1>6, HeldIs
    <2>4. Tally(p', k) = Tally(p, k) + At(e, k) /\ Tally(p, k) \in Nat  BY <1>5
    <2>5. At(j, k) = At(e, k) /\ At(e, k) \in Nat  BY <1>3 DEF At
    <2>6. Owed(born', done', k) = Owed(born, done, k)  BY <1>2
    <2> QED  BY <2>1, <2>2, <2>3, <2>4, <2>5, <2>6
  <1>9. \A k \in done' : born'[k] # None  BY <1>2 DEF SchedInv
  <1> QED  BY <1>5, <1>7, <1>8, <1>9 DEF SchedInv

(* job_close puts the message back, at its retry time or at another.       *)
LEMMA DeferredOK ==
  ASSUME SchedInv, NEW j \in jobs, Deferred(j) \/ CutShort(j) \/ UnlinkFails(j)
  PROVE  SchedInv'
  <1>1. SchedTypes /\ j \in Job  BY DEF SchedInv, SchedTypes
  <1>2. PICK t \in Int : p' = Insert(p, [dt |-> t, id |-> j.id])
    <2>1. j.retry \in Int  BY <1>1 DEF Job
    <2>2. recent + SLEEP_SYSFAIL \in Int  BY <1>1, ScheduleAssumption DEF SchedTypes
    <2> QED  BY <2>1, <2>2 DEF Deferred, CutShort, UnlinkFails
  <1>3. jobs' = jobs \ {j} /\ recent' = recent /\ born' = born /\ done' = done
    BY DEF Deferred, CutShort, UnlinkFails
  <1> QED  BY <1>2, <1>3, BackOK

LEMMA DoneOK ==
  ASSUME SchedInv, NEW j \in jobs, Done(j)
  PROVE  SchedInv'
  <1> USE DEF SchedTypes
  <1>1. SchedTypes /\ Heap(p, Len(p))  BY DEF SchedInv
  <1>2. /\ jobs' = jobs \ {j} /\ done' = done \union {j.id}
        /\ p' = p /\ recent' = recent /\ born' = born
    BY DEF Done
  <1>3. PICK i \in Id : i = j.id
    <2>1. j \in Job  BY <1>1
    <2> QED  BY <2>1 DEF Job
  <1>4. IsFiniteSet(jobs \ {j}) /\ jobs \ {j} \in SUBSET Job  BY <1>1, FS_Subset
  <1>5. SchedTypes'  BY <1>1, <1>2, <1>3, <1>4
  <1>6. ASSUME NEW k \in Id
        PROVE  /\ Held(jobs, k) = Held(jobs', k) + At(j, k) /\ Held(jobs', k) \in Nat
               /\ Tally(p, k) \in Nat /\ Tally(p, k) + Held(jobs, k) = Owed(born, done, k)
    <2>1. Held(jobs, k) = Held(jobs', k) + At(j, k)  BY <1>1, <1>2, HeldLess
    <2>2. Held(jobs', k) \in Nat  BY <1>2, <1>4, HeldIs
    <2>3. Tally(p, k) \in Nat  BY <1>1, TallyIs
    <2> QED  BY <2>1, <2>2, <2>3 DEF SchedInv
  <1>7. /\ Owed(born, done, i) = 1 /\ Tally(p, i) = 0 /\ Held(jobs', i) = 0
        /\ born[i] # None
    <2>1. At(j, i) = 1  BY <1>3 DEF At
    <2>2. Owed(born, done, i) = 1 \/ Owed(born, done, i) = 0  BY DEF Owed
    <2>3. Owed(born, done, i) = 1 /\ Tally(p, i) = 0 /\ Held(jobs', i) = 0
      BY <1>6, <2>1, <2>2
    <2> QED  BY <2>3 DEF Owed
  <1>8. ASSUME NEW k \in Id PROVE Tally(p', k) + Held(jobs', k) = Owed(born', done', k)
    <2>1. CASE k = i
      <3>1. Owed(born', done', k) = 0  BY <1>2, <1>3, <2>1 DEF Owed
      <3> QED  BY <1>2, <1>7, <2>1, <3>1
    <2>2. CASE k # i
      <3>1. At(j, k) = 0  BY <1>3, <2>2 DEF At
      <3>2. Owed(born', done', k) = Owed(born, done, k)  BY <1>2, <1>3, <2>2 DEF Owed
      <3>3. Held(jobs, k) = Held(jobs', k) + At(j, k) /\ Held(jobs', k) \in Nat  BY <1>6
      <3>4. Held(jobs, k) = Held(jobs', k)  BY <3>1, <3>3
      <3>5. Tally(p, k) + Held(jobs, k) = Owed(born, done, k)  BY <1>6
      <3> QED  BY <1>2, <3>2, <3>4, <3>5
    <2> QED  BY <2>1, <2>2
  <1>9. \A k \in done' : born'[k] # None  BY <1>2, <1>3, <1>7 DEF SchedInv
  <1> QED  BY <1>1, <1>2, <1>5, <1>8, <1>9 DEF SchedInv

LEMMA PqRunOK ==
  ASSUME SchedInv, PqRun
  PROVE  SchedInv'
  <1> USE DEF SchedTypes
  <1>1. SchedTypes /\ Heap(p, Len(p))  BY DEF SchedInv
  <1>2. /\ p' = [k \in DOMAIN p |-> [p[k] EXCEPT !.dt = recent]]
        /\ jobs' = jobs /\ recent' = recent /\ born' = born /\ done' = done
    BY DEF PqRun
  <1>3. PICK n \in Nat : n = Len(p)  BY <1>1
  <1>4. DOMAIN p = 1 .. n /\ \A k \in 1 .. n : p[k] \in Entry  BY <1>1, <1>3
  <1>5. ASSUME NEW d \in Entry
        PROVE  /\ [d EXCEPT !.dt = recent] \in Entry /\ [d EXCEPT !.dt = recent].dt = recent
               /\ [d EXCEPT !.dt = recent].id = d.id
    <2>1. recent \in Int  BY <1>1
    <2> QED  BY <2>1 DEF Entry
  <1>6. /\ p' \in Seq(Entry) /\ Len(p') = n
        /\ \A k \in 1 .. n : p'[k].dt = recent /\ p'[k].id = p[k].id
    <2>1. \A k \in 1 .. n : [p[k] EXCEPT !.dt = recent] \in Entry  BY <1>4, <1>5
    <2>2. p' \in [1 .. n -> Entry]  BY <1>2, <1>4, <2>1
    <2>3. p' \in Seq(Entry) /\ Len(p') = n  BY <2>2
    <2>4. \A k \in 1 .. n : p'[k] = [p[k] EXCEPT !.dt = recent]  BY <1>2, <1>4
    <2>5. ASSUME NEW k \in 1 .. n PROVE p'[k].dt = recent /\ p'[k].id = p[k].id
      <3>1. PICK d \in Entry : d = p[k]  BY <1>4
      <3>2. p'[k] = [d EXCEPT !.dt = recent]  BY <2>4, <3>1
      <3> QED  BY <1>5, <3>1, <3>2
    <2> QED  BY <2>3, <2>5
  <1>7. Heap(p', Len(p'))
    <2>1. SUFFICES ASSUME NEW k \in 2 .. n PROVE p'[k \div 2].dt <= p'[k].dt  BY <1>6 DEF Heap
    <2>2. k \in Nat /\ k >= 2 /\ k <= n  BY <1>3
    <2>3. k \div 2 \in Nat /\ k \div 2 >= 1 /\ k \div 2 < k  BY <2>2, Half
    <2>4. k \in 1 .. n /\ k \div 2 \in 1 .. n  BY <1>3, <2>2, <2>3
    <2>5. recent \in Int  BY <1>1
    <2> QED  BY <1>6, <2>4, <2>5
  <1>8. ASSUME NEW k PROVE Tally(p', k) = Tally(p, k)
    <2>1. DOMAIN p' = 1 .. n  BY <1>2, <1>4
    <2>2. {l \in DOMAIN p' : p'[l].id = k} = {l \in DOMAIN p : p[l].id = k}  BY <1>4, <1>6, <2>1
    <2> QED  BY <2>2 DEF Tally
  <1>9. SchedTypes'  BY <1>1, <1>2, <1>6
  <1> QED  BY <1>2, <1>7, <1>8, <1>9 DEF SchedInv

LEMMA ClockOK ==
  ASSUME SchedInv, Clock \/ SetBack \/ UNCHANGED vars
  PROVE  SchedInv'
  <1>1. /\ p' = p /\ jobs' = jobs /\ born' = born /\ done' = done /\ recent' \in Nat
    <2>1. recent \in Nat  BY DEF SchedInv, SchedTypes
    <2>2. CASE Clock  BY <2>1, <2>2 DEF Clock
    <2>3. CASE SetBack
      <3>1. recent' \in 0 .. recent - 1  BY <2>3 DEF SetBack
      <3> QED  BY <2>1, <2>3, <3>1 DEF SetBack
    <2>4. CASE UNCHANGED vars  BY <2>1, <2>4 DEF vars
    <2> QED  BY <2>2, <2>3, <2>4
  <1> QED  BY <1>1 DEF SchedInv, SchedTypes

LEMMA SchedStep ==
  ASSUME SchedInv, [Next]_vars
  PROVE  SchedInv'
  <1>1. CASE Attempt  BY <1>1, AttemptOK
  <1>2. CASE Trouble  BY <1>2, TroubleOK
  <1>3. CASE PqRun  BY <1>3, PqRunOK
  <1>4. CASE Clock \/ SetBack \/ UNCHANGED vars  BY <1>4, ClockOK
  <1>5. CASE \E i \in Id : Queue(i)  BY <1>5, QueueOK
  <1>6. CASE \E j \in jobs : Deferred(j) \/ CutShort(j) \/ Done(j) \/ UnlinkFails(j)
    BY <1>6, DeferredOK, DoneOK
  <1> QED  BY <1>1, <1>2, <1>3, <1>4, <1>5, <1>6 DEF Next

LEMMA SchedIs == SchedInv => HeapRight
  <1> SUFFICES ASSUME SchedInv PROVE HeapRight  OBVIOUS
  <1>1. p \in Seq(Entry) /\ Heap(p, Len(p)) /\ Entries(Entry)
    BY EntriesAre DEF SchedInv, SchedTypes
  <1>2. MinIsLeast
    <2>1. DOMAIN p = 1 .. Len(p)  BY <1>1
    <2> QED  BY <1>1, <2>1, HeapMin DEF MinIsLeast
  <1>3. NotLost  BY DEF SchedInv, NotLost, Tally, Held, Owed
  <1> QED  BY <1>2, <1>3 DEF HeapRight

(* Through every sequence of insertions, deletions, SIGALRMs and clocks set *)
(* back, what prioq_min returns is due no later than anything else, and a   *)
(* message with recipients left is in the heap or in a job, once: for any   *)
(* messages, any lifetime and a heap of any size.                           *)
THEOREM HeapHolds == Spec => []HeapRight
  <1>1. Init => SchedInv  BY SchedInit
  <1>2. SchedInv /\ [Next]_vars => SchedInv'  BY SchedStep
  <1>3. SchedInv => HeapRight  BY SchedIs
  <1> QED  BY <1>1, <1>2, <1>3, PTL DEF Spec

-----------------------------------------------------------------------------
(* When a message is tried at the latest, if it has not been tried after    *)
(* its lifetime, and if it has: what waits for a time that is right, and is *)
(* late only after a fault.                                                 *)
Last(i) == born[i] + (squareroot(lifetime) + chanskip) * (squareroot(lifetime) + chanskip)
Until(i) == nextretry(born[i], recent)

InTime(a) == \/ a.dt <= Last(a.id) \/ a.dt <= recent + SLEEP_SYSFAIL
             \/ a.id \in spoilt /\ a.dt <= Until(a.id)

Calm == {a \in Entry : (a.id \in late => a.id \in spoilt) /\ (~setback => InTime(a))}

Tried(j) ==
  /\ j.dying <=> j.id \in late
  /\ ~setback => j.retry <= Until(j.id) /\ (~j.dying => j.retry <= Last(j.id))

OnceInv ==
  /\ SchedInv
  /\ recent <= MaxTime
  /\ ~setback => \A i \in Id : born[i] # None => born[i] <= recent
  /\ \A i \in late : i \in Id /\ born[i] # None
  /\ p \in Seq(Calm)
  /\ \A j \in jobs : Tried(j)

LEMMA CalmEntries == Calm \in SUBSET Entry /\ Entries(Calm)
  BY DEF Calm, Entries, Entry

LEMMA SeqOf ==
  ASSUME NEW E, NEW F, NEW s \in Seq(E), \A k \in 1 .. Len(s) : s[k] \in F
  PROVE  s \in Seq(F)
  OBVIOUS

LEMMA TallySome ==
  ASSUME NEW E, NEW s \in Seq(E), NEW k \in 1 .. Len(s)
  PROVE  Tally(s, s[k].id) # 0
  <1>1. PICK n \in Nat : n = Len(s)  OBVIOUS
  <1>2. DOMAIN s = 1 .. n  BY <1>1
  <1>3. PICK i : i = s[k].id  OBVIOUS
  <1> DEFINE K == {l \in 1 .. n : s[l].id = i}
  <1>4. IsFiniteSet(K)
    <2>1. IsFiniteSet(1 .. n)  BY FS_Interval
    <2> QED  BY <2>1, FS_Subset
  <1>5. k \in K  BY <1>1, <1>3
  <1>6. Tally(s, i) = Cardinality(K)  BY <1>2 DEF Tally
  <1> HIDE DEF K
  <1>7. Cardinality(K) # 0  BY <1>4, <1>5, FS_EmptySet
  <1> QED  BY <1>3, <1>6, <1>7

LEMMA HeldSome ==
  ASSUME NEW J, IsFiniteSet(J), NEW j \in J
  PROVE  Held(J, j.id) # 0
  <1>1. PICK i : i = j.id  OBVIOUS
  <1> DEFINE K == {l \in J : l.id = i}
  <1>2. IsFiniteSet(K) /\ Held(J, i) = Cardinality(K)  BY HeldIs DEF Held
  <1>3. j \in K  BY <1>1
  <1> HIDE DEF K
  <1>4. Cardinality(K) # 0  BY <1>2, <1>3, FS_EmptySet
  <1> QED  BY <1>1, <1>2, <1>4

(* Whatever waits, in the heap or in a job, has come before.               *)
LEMMA BornIs ==
  ASSUME SchedInv
  PROVE  /\ \A k \in 1 .. Len(p) : p[k].id \in Id /\ born[p[k].id] # None
         /\ \A j \in jobs : j.id \in Id /\ born[j.id] # None
  <1>1. SchedTypes  BY DEF SchedInv
  <1>2. ASSUME NEW i \in Id, born[i] = None PROVE Tally(p, i) = 0 /\ Held(jobs, i) = 0
    <2>1. Tally(p, i) + Held(jobs, i) = Owed(born, done, i)  BY DEF SchedInv
    <2>2. Owed(born, done, i) = 0  BY <1>2 DEF Owed
    <2>3. Tally(p, i) \in Nat  BY <1>1, TallyIs DEF SchedTypes
    <2>4. Held(jobs, i) \in Nat  BY <1>1, HeldIs DEF SchedTypes
    <2> QED  BY <2>1, <2>2, <2>3, <2>4
  <1>3. ASSUME NEW k \in 1 .. Len(p) PROVE p[k].id \in Id /\ born[p[k].id] # None
    <2>1. PICK e \in Entry : e = p[k]  BY <1>1 DEF SchedTypes
    <2>2. PICK i \in Id : i = e.id  BY DEF Entry
    <2>3. Tally(p, i) # 0  BY <1>1, <2>1, <2>2, TallySome DEF SchedTypes
    <2> QED  BY <1>2, <2>1, <2>2, <2>3
  <1>4. ASSUME NEW j \in jobs PROVE j.id \in Id /\ born[j.id] # None
    <2>1. PICK i \in Id : i = j.id  BY <1>1 DEF SchedTypes, Job
    <2>2. Held(jobs, i) # 0  BY <1>1, <2>1, HeldSome DEF SchedTypes
    <2> QED  BY <1>2, <2>1, <2>2
  <1> QED  BY <1>3, <1>4

LEMMA Squares ==
  ASSUME NEW a \in Nat, NEW b \in Nat
  PROVE  a <= b <=> a * a <= b * b
  <1>1. a <= b => a * a <= b * b
    <2>1. SUFFICES ASSUME a <= b PROVE a * a <= b * b  OBVIOUS
    <2>2. PICK d \in Nat : b = a + d
      <3>1. b - a \in Nat /\ b = a + (b - a)  BY <2>1
      <3> QED  BY <3>1
    <2>3. (a + d) * (a + d) = a * a + (2 * (a * d) + d * d)  OBVIOUS
    <2>4. a * d \in Nat /\ d * d \in Nat /\ a * a \in Nat  OBVIOUS
    <2> QED  BY <2>2, <2>3, <2>4
  <1>2. b < a => b * b < a * a
    <2>1. SUFFICES ASSUME b < a PROVE b * b < a * a  OBVIOUS
    <2>2. PICK d \in Nat : a = b + d /\ d >= 1
      <3>1. a - b \in Nat /\ a = b + (a - b) /\ a - b >= 1  BY <2>1
      <3> QED  BY <3>1
    <2>3. (b + d) * (b + d) = b * b + (2 * (b * d) + d * d)  OBVIOUS
    <2>4. b * d \in Nat /\ d * d \in Nat /\ b * b \in Nat  OBVIOUS
    <2>5. d * d >= 1
      <3>1. PICK c \in Nat : d = c + 1
        <4>1. d - 1 \in Nat /\ d = (d - 1) + 1  BY <2>2
        <4> QED  BY <4>1
      <3>2. (c + 1) * (c + 1) = c * c + 2 * c + 1 /\ c * c \in Nat  OBVIOUS
      <3> QED  BY <3>1, <3>2
    <2> QED  BY <2>2, <2>3, <2>4, <2>5
  <1>3. a * a \in Nat /\ b * b \in Nat  OBVIOUS
  <1> QED  BY <1>1, <1>2, <1>3

(* The root does not fall: the older a message is, the longer it waits.    *)
LEMMA RootGrows ==
  ASSUME NEW x \in Nat, NEW z \in Nat, x <= z
  PROVE  squareroot(x) <= squareroot(z)
  <1>1. Root(x, squareroot(x)) /\ Root(z, squareroot(z))  BY RootIs
  <1>2. PICK y \in Nat : y = squareroot(x)  BY <1>1 DEF Root
  <1>3. PICK w \in Nat : w = squareroot(z)  BY <1>1 DEF Root
  <1>4. PICK N \in Nat : N = shl[HighBit + 1]
    <2>1. HighBit + 1 \in 0 .. 2 * (HighBit + 1)  BY ScheduleAssumption
    <2> QED  BY <2>1, ShlIs
  <1>5. y * y <= x /\ y + 1 <= N  BY <1>1, <1>2, <1>4 DEF Root
  <1>6. z < (w + 1) * (w + 1) \/ w + 1 = N  BY <1>1, <1>3, <1>4 DEF Root
  <1>7. CASE w + 1 = N  BY <1>2, <1>3, <1>5, <1>7
  <1>8. CASE z < (w + 1) * (w + 1)
    <2>1. PICK v \in Nat : v = w + 1  OBVIOUS
    <2>2. PICK c \in Nat : c = y * y  OBVIOUS
    <2>3. PICK d \in Nat : d = v * v  OBVIOUS
    <2>4. ~(d <= c)  BY <1>5, <1>8, <2>1, <2>2, <2>3
    <2>5. ~(v <= y)  BY <2>2, <2>3, <2>4, Squares
    <2> QED  BY <1>2, <1>3, <2>1, <2>5
  <1> QED  BY <1>6, <1>7, <1>8

(* squareroot does what its comment says for what the clock can hand it.   *)
LEMMA RootRight ==
  ASSUME NEW x \in Nat, x <= MaxTime
  PROVE  /\ squareroot(x) \in Nat /\ squareroot(x) * squareroot(x) <= x
         /\ x < (squareroot(x) + 1) * (squareroot(x) + 1)
  <1>1. Root(x, squareroot(x))  BY RootIs
  <1>2. PICK y \in Nat : y = squareroot(x)  BY <1>1 DEF Root
  <1>3. PICK n \in Nat : n = HighBit + 1  BY ScheduleAssumption
  <1>4. shl[n + n] = shl[n] * shl[n] /\ n + n = 2 * (HighBit + 1)
    <2>1. n \in 0 .. HighBit + 1  BY <1>3
    <2>2. n + n = 2 * (HighBit + 1)  BY <1>3, ScheduleAssumption
    <2>3. shl[n + n] = shl[n] * shl[n]  BY <2>1, ShlTwice
    <2> QED  BY <2>2, <2>3
  <1>5. PICK N : N = shl[n]  OBVIOUS
  <1>6. MaxTime \in Nat /\ MaxTime < N * N  BY <1>4, <1>5, ScheduleAssumption
  <1>7. y * y <= x /\ (x < (y + 1) * (y + 1) \/ y + 1 = N)  BY <1>1, <1>2, <1>3, <1>5 DEF Root
  <1>8. y + 1 = N => x < (y + 1) * (y + 1)
    <2>1. SUFFICES ASSUME y + 1 = N PROVE x < (y + 1) * (y + 1)  OBVIOUS
    <2>2. PICK c \in Nat : c = (y + 1) * (y + 1)  OBVIOUS
    <2>3. MaxTime < c  BY <1>6, <2>1, <2>2
    <2>4. x < c  BY <1>6, <2>3
    <2> QED  BY <2>2, <2>4
  <1> QED  BY <1>2, <1>7, <1>8

LEMMA Redated ==
  ASSUME NEW d \in Entry, NEW t \in Int
  PROVE  /\ [d EXCEPT !.dt = t] \in Entry /\ [d EXCEPT !.dt = t].dt = t
         /\ [d EXCEPT !.dt = t].id = d.id
  BY DEF Entry

LEMMA OnceInit == Init => OnceInv
  <1> SUFFICES ASSUME Init PROVE OnceInv  OBVIOUS
  <1>1. /\ p = << >> /\ jobs = {} /\ recent = 0 /\ late = {} /\ born = [i \in Id |-> None]
    BY DEF Init
  <1>2. SchedInv  BY SchedInit
  <1>3. p \in Seq(Calm)  BY <1>1
  <1>4. recent <= MaxTime  BY <1>1, ScheduleAssumption
  <1>5. \A i \in Id : born[i] = None  BY <1>1
  <1> QED  BY <1>1, <1>2, <1>3, <1>4, <1>5 DEF OnceInv

(* The later an attempt, the later the next.                               *)
LEMMA RetryGrows ==
  ASSUME NEW b \in Nat, NEW t \in Nat, NEW u \in Nat, b <= t, t <= u
  PROVE  nextretry(b, t) <= nextretry(b, u)
  <1>1. PICK r \in Nat : Retried(b, t, r)  BY RetryIs, Zenon
  <1>2. PICK w \in Nat : Retried(b, u, w)  BY RetryIs, Zenon
  <1>3. /\ nextretry(b, t) = b + (r + chanskip) * (r + chanskip) /\ r = squareroot(t - b)
        /\ nextretry(b, u) = b + (w + chanskip) * (w + chanskip) /\ w = squareroot(u - b)
    BY <1>1, <1>2 DEF Retried
  <1>4. t - b \in Nat /\ u - b \in Nat /\ t - b <= u - b  OBVIOUS
  <1>5. r <= w  BY <1>3, <1>4, RootGrows
  <1>6. PICK x \in Nat : x = r + chanskip  BY ScheduleAssumption
  <1>7. PICK y \in Nat : y = w + chanskip  BY ScheduleAssumption
  <1>8. x * x <= y * y /\ x * x \in Nat /\ y * y \in Nat
    <2>1. x <= y  BY <1>5, <1>6, <1>7, ScheduleAssumption
    <2> QED  BY <2>1, Squares
  <1>9. b + x * x <= b + y * y  BY <1>8
  <1> QED  BY <1>3, <1>6, <1>7, <1>9

LEMMA OnceQueue ==
  ASSUME OnceInv, SchedInv', NEW i \in Id, Queue(i)
  PROVE  OnceInv'
  <1>1. SchedInv /\ SchedTypes  BY DEF OnceInv, SchedInv
  <1>2. /\ born[i] = None /\ born' = [born EXCEPT ![i] = recent]
        /\ p' = Insert(p, [dt |-> recent, id |-> i])
        /\ jobs' = jobs /\ recent' = recent /\ setback' = setback /\ late' = late /\ spoilt' = spoilt
    BY DEF Queue
  <1>3. recent \in Nat /\ recent # None  BY <1>1, ScheduleAssumption DEF SchedTypes
  <1>4. \A k \in Id : born'[k] = IF k = i THEN recent ELSE born[k]
    BY <1>1, <1>2 DEF SchedTypes
  <1>5. \A k \in Id : k # i => Last(k)' = Last(k) /\ Until(k)' = Until(k)
    BY <1>2, <1>4 DEF Last, Until
  <1>6. ASSUME NEW a \in Calm, a.id # i PROVE a \in Calm'
    <2>1. a \in Entry /\ a.id \in Id  BY DEF Calm, Entry
    <2>2. Last(a.id)' = Last(a.id) /\ Until(a.id)' = Until(a.id)  BY <1>5, <1>6, <2>1
    <2> QED  BY <1>2, <2>1, <2>2 DEF Calm, InTime
  <1>7. p \in Seq(Calm')
    <2>1. p \in Seq(Calm)  BY DEF OnceInv
    <2>2. \A k \in 1 .. Len(p) : p[k].id # i  BY <1>1, <1>2, BornIs
    <2>3. \A k \in 1 .. Len(p) : p[k] \in Calm'  BY <1>6, <2>1, <2>2
    <2> QED  BY <2>1, <2>3, SeqOf
  <1>8. PICK e \in Calm' : e = [dt |-> recent, id |-> i]
    <2>1. i \notin late  BY <1>2 DEF OnceInv
    <2>2. recent \in Int /\ recent <= recent + SLEEP_SYSFAIL  BY <1>3, ScheduleAssumption
    <2>3. PICK e \in Entry : e = [dt |-> recent, id |-> i]  BY <2>2 DEF Entry
    <2>4. e.id = i /\ e.dt = recent  BY <2>3
    <2>5. e \in Calm'  BY <1>2, <2>1, <2>2, <2>3, <2>4 DEF Calm, InTime
    <2> QED  BY <2>3, <2>5
  <1>9. p' \in Seq(Calm')
    <2>1. Entries(Calm')  BY DEF Entries, Calm, Entry
    <2>2. Heap(p, Len(p))  BY <1>1 DEF SchedInv
    <2>3. p' = Insert(p, e)  BY <1>2, <1>8
    <2> QED  BY <1>7, <1>8, <2>1, <2>2, <2>3, InsertOK
  <1>10. ~setback' => \A k \in Id : born'[k] # None => born'[k] <= recent'
    BY <1>2, <1>3, <1>4 DEF OnceInv
  <1>11. \A k \in late' : k \in Id /\ born'[k] # None
    BY <1>2, <1>3, <1>4 DEF OnceInv
  <1>12. ASSUME NEW j \in jobs' PROVE Tried(j)'
    <2>1. j.id \in Id /\ j.id # i /\ Tried(j)  BY <1>1, <1>2, BornIs DEF OnceInv
    <2>2. Last(j.id)' = Last(j.id) /\ Until(j.id)' = Until(j.id)  BY <1>5, <2>1
    <2> QED  BY <1>2, <2>1, <2>2 DEF Tried
  <1>13. recent' <= MaxTime  BY <1>2 DEF OnceInv
  <1> QED  BY <1>9, <1>10, <1>11, <1>12, <1>13 DEF OnceInv

LEMMA OnceAttempt ==
  ASSUME OnceInv, SchedInv', Attempt
  PROVE  OnceInv'
  <1>1. SchedInv /\ SchedTypes  BY DEF OnceInv, SchedInv
  <1>2. PICK i \in Id : i = p[1].id /\ Held(jobs, i) = 0 /\ Tally(p', i) = 0 /\ born[i] # None
    BY <1>1, AttemptIs
  <1>3. /\ p # << >> /\ p' = Delmin(p)
        /\ jobs' = jobs \union {[id |-> i, retry |-> nextretry(born[i], recent),
                                 dying |-> Dying(born[i], recent)]}
        /\ late' = (IF recent > born[i] + lifetime THEN late \union {i} ELSE late \ {i})
        /\ spoilt' = spoilt \ {i}
        /\ recent' = recent /\ born' = born /\ setback' = setback
    BY <1>2 DEF Attempt
  <1>4. p \in Seq(Calm) /\ p[1] \in Calm  BY <1>3 DEF OnceInv
  <1>5. p' \in Seq(Calm)
    <2>1. Entries(Calm) /\ Heap(p, Len(p))  BY <1>1, CalmEntries DEF SchedInv
    <2> QED  BY <1>3, <1>4, <2>1, DelminOK
  <1>6. \A k : Last(k)' = Last(k) /\ Until(k)' = Until(k)  BY <1>3 DEF Last, Until
  <1>16. \A k : k # i => (k \in late' <=> k \in late) /\ (k \in spoilt' <=> k \in spoilt)  BY <1>3
  <1>7. ASSUME NEW a \in Calm, a.id # i PROVE a \in Calm'
    BY <1>3, <1>6, <1>7, <1>16 DEF Calm, InTime
  <1>8. p' \in Seq(Calm')
    <2>1. PICK q : q = p'  OBVIOUS
    <2>2. \A k \in 1 .. Len(q) : q[k].id # i  BY <1>2, <1>5, <2>1, TallySome
    <2>3. \A k \in 1 .. Len(q) : q[k] \in Calm'  BY <1>5, <1>7, <2>1, <2>2
    <2>4. q \in Seq(Calm')  BY <1>5, <2>1, <2>3, SeqOf
    <2> QED  BY <2>1, <2>4
  <1>9. ~setback' => \A k \in Id : born'[k] # None => born'[k] <= recent'  BY <1>3 DEF OnceInv
  <1>10. \A k \in late' : k \in Id /\ born'[k] # None  BY <1>2, <1>3 DEF OnceInv
  <1>11. PICK n : n = [id |-> i, retry |-> nextretry(born[i], recent),
                       dying |-> Dying(born[i], recent)]
    OBVIOUS
  <1>12. jobs' = jobs \union {n} /\ n.id = i /\ n.retry = nextretry(born[i], recent)
         /\ n.dying = Dying(born[i], recent)
    BY <1>3, <1>11
  <1>13. ASSUME NEW j \in jobs PROVE Tried(j)'
    <2>1. IsFiniteSet(jobs)  BY <1>1 DEF SchedTypes
    <2>2. j.id # i  BY <1>2, <2>1, HeldSome
    <2>3. Tried(j)  BY DEF OnceInv
    <2> QED  BY <1>3, <1>6, <1>16, <2>2, <2>3 DEF Tried
  <1>14. Tried(n)'
    <2>1. born[i] \in Nat /\ recent \in Nat /\ lifetime \in Nat /\ chanskip \in Nat
      BY <1>1, <1>2, ScheduleAssumption DEF SchedTypes
    <2>2. n.dying <=> n.id \in late'  BY <1>3, <1>12 DEF Dying
    <2>3. nextretry(born[i], recent) = Until(i)  BY DEF Until
    <2>5. nextretry(born[i], recent) \in Int  BY <2>1, RetryIs
    <2>4. ASSUME ~setback, ~n.dying PROVE nextretry(born[i], recent) <= Last(i)
      <3>1. born[i] <= recent /\ ~(recent > born[i] + lifetime)
        BY <1>2, <1>12, <2>4 DEF OnceInv, Dying
      <3>2. recent - born[i] \in Nat /\ recent - born[i] <= lifetime  BY <2>1, <3>1
      <3>13. PICK r \in Nat : Retried(born[i], recent, r)  BY <2>1, RetryIs, Zenon
      <3>3. /\ nextretry(born[i], recent) = born[i] + (r + chanskip) * (r + chanskip)
            /\ r = squareroot(recent - born[i])
        BY <3>1, <3>13 DEF Retried
      <3>4. squareroot(lifetime) \in Nat  BY <2>1, RootIs DEF Root
      <3>5. PICK w \in Nat : w = squareroot(lifetime)  BY <3>4
      <3>6. r <= w  BY <2>1, <3>2, <3>3, <3>5, RootGrows
      <3>7. PICK a \in Nat : a = r + chanskip  BY <2>1
      <3>8. PICK b \in Nat : b = w + chanskip  BY <2>1
      <3>9. a * a <= b * b  BY <2>1, <3>6, <3>7, <3>8, Squares
      <3>10. a * a \in Nat /\ b * b \in Nat  OBVIOUS
      <3>11. Last(i) = born[i] + b * b  BY <3>5, <3>8 DEF Last
      <3>12. born[i] + a * a <= born[i] + b * b  BY <2>1, <3>9, <3>10
      <3> QED  BY <3>3, <3>7, <3>11, <3>12
    <2>6. n.retry <= Until(i)  BY <1>12, <2>3, <2>5
    <2> QED  BY <1>3, <1>6, <1>12, <2>2, <2>4, <2>6 DEF Tried
  <1>15. recent' <= MaxTime  BY <1>3 DEF OnceInv
  <1> QED  BY <1>8, <1>9, <1>10, <1>12, <1>13, <1>14, <1>15 DEF OnceInv

LEMMA OnceTrouble ==
  ASSUME OnceInv, SchedInv', Trouble
  PROVE  OnceInv'
  <1>1. SchedInv /\ SchedTypes  BY DEF OnceInv, SchedInv
  <1>2. /\ p # << >> /\ p' = Insert(Delmin(p), [p[1] EXCEPT !.dt = recent + SLEEP_SYSFAIL])
        /\ UNCHANGED <<jobs, recent, born, setback, late, spoilt>>
    BY DEF Trouble
  <1>3. p \in Seq(Calm) /\ Entries(Calm) /\ Heap(p, Len(p))
    BY <1>1, CalmEntries DEF OnceInv, SchedInv
  <1>4. PICK q \in Seq(Calm) : q = Delmin(p) /\ Heap(q, Len(q))  BY <1>2, <1>3, DelminOK
  <1>5. PICK d \in Calm : d = p[1]  BY <1>2, <1>3
  <1>6. PICK e \in Calm : e = [d EXCEPT !.dt = recent + SLEEP_SYSFAIL]
    <2>1. recent + SLEEP_SYSFAIL \in Int  BY <1>1, ScheduleAssumption DEF SchedTypes
    <2>4. PICK t \in Int : t = recent + SLEEP_SYSFAIL  BY <2>1
    <2>5. PICK e : e = [d EXCEPT !.dt = t]  OBVIOUS
    <2>2. e \in Entry /\ e.id = d.id /\ e.dt = t
      <3>1. d \in Entry  BY CalmEntries
      <3> QED  BY <2>5, <3>1, Redated
    <2>3. e \in Calm  BY <2>2, <2>4 DEF Calm, InTime
    <2>6. e = [d EXCEPT !.dt = recent + SLEEP_SYSFAIL]  BY <2>4, <2>5
    <2> QED  BY <2>3, <2>6
  <1>7. p' = Insert(q, e)  BY <1>2, <1>4, <1>5, <1>6
  <1>8. p' \in Seq(Calm)  BY <1>3, <1>4, <1>7, InsertOK
  <1>9. /\ Calm' = Calm
        /\ \A j \in jobs' : Tried(j)'
    BY <1>2 DEF OnceInv, Calm, InTime, Tried, Last, Until
  <1> QED  BY <1>2, <1>8, <1>9 DEF OnceInv

LEMMA OnceDeferred ==
  ASSUME OnceInv, SchedInv', NEW j \in jobs, Deferred(j) \/ CutShort(j) \/ UnlinkFails(j)
  PROVE  OnceInv'
  <1>1. SchedInv /\ SchedTypes /\ j \in Job /\ Tried(j)  BY DEF OnceInv, SchedInv, SchedTypes
  <1>2. /\ jobs' = jobs \ {j}
        /\ UNCHANGED <<recent, born, setback, late>>
        /\ \/ spoilt' = spoilt /\ ~j.dying
           \/ spoilt' = spoilt \cup ({j.id} \cap late)
    BY DEF Deferred, CutShort, UnlinkFails, PutOff
  <1>3. PICK t \in Int : /\ p' = Insert(p, [dt |-> t, id |-> j.id])
                         /\ t = j.retry \/ t = recent + SLEEP_SYSFAIL
    <2>1. j.retry \in Int  BY <1>1 DEF Job
    <2>2. recent + SLEEP_SYSFAIL \in Int  BY <1>1, ScheduleAssumption DEF SchedTypes
    <2> QED  BY <2>1, <2>2 DEF Deferred, CutShort, UnlinkFails
  <1>4. \A k : Last(k)' = Last(k) /\ Until(k)' = Until(k)  BY <1>2 DEF Last, Until
  <1>5. ASSUME NEW a \in Calm PROVE a \in Calm'
    BY <1>2, <1>4 DEF Calm, InTime
  <1>6. p \in Seq(Calm') /\ Entries(Calm') /\ Heap(p, Len(p))
    <2>1. p \in Seq(Calm)  BY DEF OnceInv
    <2>2. \A k \in 1 .. Len(p) : p[k] \in Calm'  BY <1>5, <2>1
    <2>3. p \in Seq(Calm')  BY <2>1, <2>2, SeqOf
    <2>4. Entries(Calm')  BY DEF Entries, Calm, Entry
    <2> QED  BY <1>1, <2>3, <2>4 DEF SchedInv
  <1>7. PICK e \in Calm' : e = [dt |-> t, id |-> j.id]
    <2>1. PICK e \in Entry : e = [dt |-> t, id |-> j.id] /\ e.dt = t /\ e.id = j.id
      <3>1. [dt |-> t, id |-> j.id] \in Entry  BY <1>1 DEF Job, Entry
      <3> QED  BY <3>1
    <2>2. j.id \in late' => j.id \in spoilt'  BY <1>1, <1>2 DEF Tried
    <2>3. ~setback' => InTime(e)'
      <3>1. SUFFICES ASSUME ~setback' PROVE InTime(e)'  OBVIOUS
      <3>2. CASE t = j.retry
        <4>1. CASE j.dying
          <5>1. t <= Until(j.id) /\ j.id \in spoilt'  BY <1>1, <1>2, <2>2, <3>1, <3>2, <4>1 DEF Tried
          <5> QED  BY <1>4, <2>1, <5>1 DEF InTime
        <4>2. CASE ~j.dying
          <5>1. t <= Last(j.id)  BY <1>1, <1>2, <3>1, <3>2, <4>2 DEF Tried
          <5> QED  BY <1>4, <2>1, <5>1 DEF InTime
        <4> QED  BY <4>1, <4>2
      <3>3. CASE t = recent + SLEEP_SYSFAIL
        <4>1. e.dt <= recent' + SLEEP_SYSFAIL  BY <1>2, <2>1, <3>3
        <4> QED  BY <4>1 DEF InTime
      <3> QED  BY <1>3, <3>2, <3>3
    <2>4. e \in Calm'  BY <2>1, <2>2, <2>3 DEF Calm
    <2> QED  BY <2>1, <2>4
  <1>8. p' = Insert(p, e)  BY <1>3, <1>7
  <1>9. p' \in Seq(Calm')  BY <1>6, <1>8, InsertOK
  <1>10. ASSUME NEW k \in jobs' PROVE Tried(k)'
    <2>1. Tried(k)  BY <1>2 DEF OnceInv
    <2> QED  BY <1>2, <1>4, <2>1 DEF Tried
  <1> QED  BY <1>2, <1>9, <1>10 DEF OnceInv

LEMMA OncePqRun ==
  ASSUME OnceInv, SchedInv', PqRun
  PROVE  OnceInv'
  <1>1. SchedInv /\ SchedTypes  BY DEF OnceInv, SchedInv
  <1>2. /\ p' = [k \in DOMAIN p |-> [p[k] EXCEPT !.dt = recent]]
        /\ UNCHANGED <<jobs, recent, born, setback, late, spoilt>>
    BY DEF PqRun
  <1>3. PICK n \in Nat : n = Len(p)  BY <1>1 DEF SchedTypes
  <1>4. DOMAIN p = 1 .. n /\ \A k \in 1 .. n : p[k] \in Calm  BY <1>3 DEF OnceInv
  <1>5. ASSUME NEW d \in Calm PROVE [d EXCEPT !.dt = recent] \in Calm
    <2>1. recent \in Int /\ recent <= recent + SLEEP_SYSFAIL
      BY <1>1, ScheduleAssumption DEF SchedTypes
    <2>2. PICK e \in Entry : e = [d EXCEPT !.dt = recent] /\ e.id = d.id /\ e.dt = recent
      <3>1. d \in Entry  BY CalmEntries
      <3>2. PICK t \in Int : t = recent  BY <2>1
      <3> QED  BY <3>1, <3>2, Redated
    <2>3. e \in Calm  BY <2>1, <2>2 DEF Calm, InTime
    <2> QED  BY <2>2, <2>3
  <1>6. p' \in [1 .. n -> Calm]
    <2>1. \A k \in 1 .. n : [p[k] EXCEPT !.dt = recent] \in Calm  BY <1>4, <1>5
    <2> QED  BY <1>2, <1>4, <2>1
  <1>7. p' \in Seq(Calm)  BY <1>6
  <1>8. /\ Calm' = Calm
        /\ \A j \in jobs' : Tried(j)'
    BY <1>2 DEF OnceInv, Calm, InTime, Tried, Last, Until
  <1> QED  BY <1>2, <1>7, <1>8 DEF OnceInv

LEMMA OnceClock ==
  ASSUME OnceInv, SchedInv', Clock \/ SetBack \/ UNCHANGED vars \/ \E j \in jobs : Done(j)
  PROVE  OnceInv'
  <1>1. SchedInv /\ SchedTypes /\ p \in Seq(Calm)  BY DEF OnceInv, SchedInv
  <1>2. /\ p' = p /\ jobs' \in SUBSET jobs /\ born' = born /\ late' = late /\ spoilt' = spoilt
        /\ recent' <= MaxTime /\ recent' \in Nat
        /\ setback' \/ (setback' = setback /\ recent <= recent')
    <2>1. recent \in Nat /\ recent <= MaxTime /\ MaxTime \in Nat
      BY <1>1, ScheduleAssumption DEF OnceInv, SchedTypes
    <2>2. CASE Clock  BY <2>1, <2>2 DEF Clock
    <2>3. CASE SetBack
      <3>1. recent' \in 0 .. recent - 1  BY <2>3 DEF SetBack
      <3> QED  BY <2>1, <2>3, <3>1 DEF SetBack
    <2>4. CASE UNCHANGED vars  BY <2>1, <2>4 DEF vars
    <2>5. CASE \E j \in jobs : Done(j)  BY <2>1, <2>5 DEF Done
    <2> QED  BY <2>2, <2>3, <2>4, <2>5
  <1>3. \A k : Last(k)' = Last(k)  BY <1>2 DEF Last
  <1>6. ~setback' => \A i \in Id : born'[i] # None => born'[i] <= recent'
    <2>1. SUFFICES ASSUME ~setback', NEW i \in Id, born[i] # None PROVE born[i] <= recent'
      BY <1>2
    <2>2. born[i] <= recent  BY <1>2, <2>1 DEF OnceInv
    <2>3. born[i] \in Nat /\ recent \in Nat  BY <1>1, <2>1 DEF SchedTypes
    <2> QED  BY <1>2, <2>1, <2>2, <2>3
  <1>7. ASSUME ~setback', NEW i \in Id, born[i] # None, NEW t \in Int, t <= Until(i)
        PROVE  t <= Until(i)'
    <2>1. born[i] \in Nat /\ recent \in Nat /\ recent' \in Nat /\ born'[i] = born[i]
      BY <1>1, <1>2, <1>7 DEF SchedTypes
    <2>2. born[i] <= recent /\ recent <= recent'  BY <1>2, <1>7 DEF OnceInv
    <2>3. PICK u : u = recent'  OBVIOUS
    <2>4. nextretry(born[i], recent) <= nextretry(born[i], u)
      BY <2>1, <2>2, <2>3, RetryGrows
    <2>5. Until(i) = nextretry(born[i], recent) /\ Until(i)' = nextretry(born[i], u)
      BY <2>1, <2>3 DEF Until
    <2>6. Until(i) \in Int /\ Until(i)' \in Int  BY <2>1, <2>3, <2>5, RetryIs
    <2> QED  BY <1>7, <2>4, <2>5, <2>6
  <1>4. ASSUME NEW a \in Calm, born[a.id] # None PROVE a \in Calm'
    <2>1. (a.id \in late => a.id \in spoilt) /\ (~setback => InTime(a)) /\ a \in Entry
          /\ a.dt \in Int /\ a.id \in Id
      BY DEF Calm, Entry
    <2>2. ~setback' /\ a.dt <= recent + SLEEP_SYSFAIL => a.dt <= recent' + SLEEP_SYSFAIL
      <3>1. a.dt \in Int /\ recent \in Nat  BY <1>1, <2>1 DEF SchedTypes
      <3> QED  BY <1>2, <3>1, ScheduleAssumption
    <2>3. ~setback' /\ a.dt <= Until(a.id) => a.dt <= Until(a.id)'  BY <1>4, <1>7, <2>1
    <2>4. ~setback' => InTime(a)'  BY <1>2, <1>3, <2>1, <2>2, <2>3 DEF InTime
    <2> QED  BY <1>2, <2>1, <2>4 DEF Calm
  <1>5. p' \in Seq(Calm')
    <2>1. \A k \in 1 .. Len(p) : p[k] \in Calm'  BY <1>1, <1>4, BornIs
    <2>2. p \in Seq(Calm')  BY <1>1, <2>1, SeqOf
    <2> QED  BY <1>2, <2>2
  <1>8. ASSUME NEW j \in jobs' PROVE Tried(j)'
    <2>1. j \in jobs /\ Tried(j) /\ j.id \in Id /\ born[j.id] # None /\ j.retry \in Int
      <3>1. j \in jobs  BY <1>2
      <3> QED  BY <1>1, <3>1, BornIs DEF OnceInv, SchedTypes, Job
    <2>2. ~setback' /\ j.retry <= Until(j.id) => j.retry <= Until(j.id)'  BY <1>7, <2>1
    <2> QED  BY <1>2, <1>3, <2>1, <2>2 DEF Tried
  <1> QED  BY <1>2, <1>5, <1>6, <1>8 DEF OnceInv

LEMMA OnceStep ==
  ASSUME OnceInv, [Next]_vars
  PROVE  OnceInv'
  <1>1. SchedInv'  BY SchedStep DEF OnceInv
  <1>2. CASE Attempt  BY <1>1, <1>2, OnceAttempt
  <1>3. CASE Trouble  BY <1>1, <1>3, OnceTrouble
  <1>4. CASE PqRun  BY <1>1, <1>4, OncePqRun
  <1>5. CASE Clock \/ SetBack \/ UNCHANGED vars  BY <1>1, <1>5, OnceClock
  <1>6. CASE \E i \in Id : Queue(i)  BY <1>1, <1>6, OnceQueue
  <1>7. CASE \E j \in jobs : Deferred(j) \/ CutShort(j) \/ Done(j) \/ UnlinkFails(j)
    BY <1>1, <1>7, OnceDeferred, OnceClock
  <1> QED  BY <1>2, <1>3, <1>4, <1>5, <1>6, <1>7 DEF Next

LEMMA OnceIs == OnceInv => OnceMore
  <1> SUFFICES ASSUME OnceInv PROVE OnceMore  OBVIOUS
  <1>1. SchedTypes /\ p \in Seq(Calm)  BY DEF OnceInv, SchedInv
  <1>2. SquareRoot
    <2>1. SUFFICES ASSUME NEW i \in Id, born[i] # None, recent >= born[i], NEW x, x = recent - born[i]
                   PROVE  /\ squareroot(x) * squareroot(x) <= x
                          /\ x < (squareroot(x) + 1) * (squareroot(x) + 1)
      BY DEF SquareRoot
    <2>2. born[i] \in Nat /\ recent \in Nat  BY <1>1, <2>1 DEF SchedTypes
    <2>3. x \in Nat /\ x <= MaxTime
      <3>1. recent <= MaxTime /\ MaxTime \in Nat  BY ScheduleAssumption DEF OnceInv
      <3> QED  BY <2>1, <2>2, <3>1
    <2> QED  BY <2>3, RootRight
  <1>3. \A k \in DOMAIN p :
          /\ p[k].id \in late => p[k].id \in spoilt
          /\ ~setback => \/ p[k].dt <= Last(p[k].id) \/ p[k].dt <= recent + SLEEP_SYSFAIL
                         \/ p[k].id \in spoilt /\ p[k].dt <= Until(p[k].id)
    <2>1. \A k \in DOMAIN p : p[k] \in Calm  BY <1>1
    <2> QED  BY <2>1 DEF Calm, InTime
  <1> QED  BY <1>2, <1>3 DEF OnceMore, Last, Until

LEMMA NotAtOnceIs ==
  ASSUME OnceInv, [Next]_vars
  PROVE  [\A j \in jobs' \ jobs : j.retry > recent]_vars
  <1>1. SUFFICES ASSUME NEW j \in jobs', j \notin jobs PROVE j.retry > recent  OBVIOUS
  <1>2. Attempt
    <2>1. Trouble => jobs' = jobs  BY DEF Trouble
    <2>2. PqRun => jobs' = jobs  BY DEF PqRun
    <2>3. Clock => jobs' = jobs  BY DEF Clock
    <2>4. SetBack => jobs' = jobs  BY DEF SetBack
    <2>5. \A i \in Id : Queue(i) => jobs' = jobs  BY DEF Queue
    <2>6. \A k \in jobs : Deferred(k) \/ CutShort(k) \/ Done(k) \/ UnlinkFails(k)
            => jobs' \in SUBSET jobs
      BY DEF Deferred, CutShort, Done, UnlinkFails
    <2>7. UNCHANGED vars => jobs' = jobs  BY DEF vars
    <2> QED  BY <1>1, <2>1, <2>2, <2>3, <2>4, <2>5, <2>6, <2>7 DEF Next
  <1>3. SchedInv /\ SchedTypes  BY DEF OnceInv, SchedInv
  <1>4. PICK i \in Id : i = p[1].id /\ born[i] # None  BY <1>2, <1>3, AttemptIs
  <1>5. j.retry = nextretry(born[i], recent)  BY <1>1, <1>2, <1>4 DEF Attempt
  <1>6. born[i] \in Nat /\ recent \in Nat /\ chanskip \in Nat /\ chanskip >= 1
    BY <1>3, <1>4, ScheduleAssumption DEF SchedTypes
  <1>14. PICK r \in Nat : Retried(born[i], recent, r)  BY <1>6, RetryIs, Zenon
  <1>7. /\ nextretry(born[i], recent) = born[i] + (r + chanskip) * (r + chanskip)
        /\ born[i] <= recent => r = squareroot(recent - born[i])
    BY <1>14 DEF Retried
  <1>8. PICK a \in Nat : a = r + chanskip  BY <1>6
  <1>9. PICK c \in Nat : c = r + 1  OBVIOUS
  <1>10. c * c <= a * a /\ c * c \in Nat /\ a * a \in Nat
    <2>1. c <= a  BY <1>6, <1>8, <1>9
    <2> QED  BY <2>1, Squares
  <1>11. c * c >= 1
    <2>1. PICK one \in Nat : one = 1  OBVIOUS
    <2>2. one * one <= c * c  BY <1>9, <2>1, Squares
    <2> QED  BY <1>10, <2>1, <2>2
  <1>12. CASE born[i] <= recent
    <2>1. PICK x \in Nat : x = recent - born[i] /\ recent = born[i] + x  BY <1>6, <1>12
    <2>2. x <= MaxTime
      <3>1. recent <= MaxTime /\ MaxTime \in Nat  BY ScheduleAssumption DEF OnceInv
      <3> QED  BY <1>6, <2>1, <3>1
    <2>3. r = squareroot(x)  BY <1>7, <1>12, <2>1
    <2>4. x < c * c  BY <1>9, <2>2, <2>3, RootRight
    <2>5. PICK u \in Nat : u = a * a  BY <1>10
    <2>6. x < u  BY <1>10, <2>4, <2>5
    <2>7. j.retry = born[i] + u  BY <1>5, <1>7, <1>8, <2>5
    <2> QED  BY <1>6, <2>1, <2>6, <2>7
  <1>13. CASE ~(born[i] <= recent)
    <2>1. PICK u \in Nat : u = a * a /\ u >= 1  BY <1>10, <1>11
    <2>2. j.retry = born[i] + u  BY <1>5, <1>7, <1>8, <2>1
    <2> QED  BY <1>6, <1>13, <2>1, <2>2
  <1> QED  BY <1>12, <1>13

(* A message that was tried after its lifetime waits again only where a    *)
(* fault cut the attempt short; it is tried no later than the root of the  *)
(* lifetime, or of its age after a fault, says, unless the clock is set    *)
(* back; and the square root is what its comment says: for any lifetime,   *)
(* however many bits it needs, and any chanskip.                           *)
THEOREM OnceMoreHolds == Spec => []OnceMore
  <1>1. Init => OnceInv  BY OnceInit
  <1>2. OnceInv /\ [Next]_vars => OnceInv'  BY OnceStep
  <1>3. OnceInv => OnceMore  BY OnceIs
  <1> QED  BY <1>1, <1>2, <1>3, PTL DEF Spec

(* No attempt sets a retry time that has come already, wherever the clock  *)
(* stands: a message that is deferred for ever does not make a busy loop.  *)
THEOREM NotAtOnceHolds == Spec => NotAtOnce
  <1>1. Init => OnceInv  BY OnceInit
  <1>2. OnceInv /\ [Next]_vars => OnceInv'  BY OnceStep
  <1>3. OnceInv /\ [Next]_vars => [\A j \in jobs' \ jobs : j.retry > recent]_vars
    BY NotAtOnceIs
  <1> QED  BY <1>1, <1>2, <1>3, PTL DEF Spec, NotAtOnce

====
