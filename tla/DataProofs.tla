----------------------------- MODULE DataProofs -----------------------------
(***************************************************************************)
(* Lemmas on data, whatever module it is of: what Sorted, First and the    *)
(* bounds of a finite set are, for every finite set and every total order; *)
(* that loops have a value; when sequences are one edit apart.             *)
(***************************************************************************)
EXTENDS Sorting, FiniteSetsExt, FiniteSetTheorems, SequenceTheorems,
        WellFoundedInduction, TLAPS

(* A family of finite sets has a smallest member: the induction that the   *)
(* next two lemmas are by.                                                 *)
LEMMA SmallestSet ==
  ASSUME NEW I, IsFiniteSet(I), NEW F, F \subseteq SUBSET I, F # {}
  PROVE  \E S \in F : \A T \in F : T \subseteq S => T = S
<1>1. F \subseteq FiniteSubsetsOf(I)
  BY FS_Subset DEF FiniteSubsetsOf
<1>2. PICK S \in F : \A T \in F : ~ (<<T, S>> \in StrictSubsetOrdering(I))
  <2> HIDE DEF StrictSubsetOrdering
  <2> QED
    BY <1>1, FS_StrictSubsetOrderingWellFounded, WFMin
<1>3. \A T \in F : (T \subseteq S /\ T # S) => <<T, S>> \in StrictSubsetOrdering(I)
  BY DEF StrictSubsetOrdering
<1>4. \A T \in F : T \subseteq S => T = S
  BY <1>2, <1>3
<1> QED
  BY <1>4

\* R orders I, strictly and totally.
Orders(R, I) ==
  /\ \A x \in I : <<x, x>> \notin R
  /\ \A x, y \in I : x = y \/ <<x, y>> \in R \/ <<y, x>> \in R
  /\ \A x, y, z \in I : <<x, y>> \in R /\ <<y, z>> \in R => <<x, z>> \in R

IsLast(m, R, J) == m \in J /\ \A x \in J \ {m} : <<x, m>> \in R

LEMMA LastExists ==
  ASSUME NEW I, IsFiniteSet(I), I # {}, NEW R, Orders(R, I)
  PROVE  \E m \in I : IsLast(m, R, I)
<1> DEFINE F == {J \in SUBSET I : J # {} /\ ~ \E m \in J : IsLast(m, R, J)}
<1>1. SUFFICES ASSUME F # {} PROVE FALSE
  <2>1. I \notin F
    BY <1>1
  <2> QED
    BY <2>1
<1>2. PICK J \in F : \A T \in F : T \subseteq J => T = J
  <2> HIDE DEF F
  <2>1. F \subseteq SUBSET I
    BY DEF F
  <2> QED
    BY <1>1, <2>1, SmallestSet
<1>3. PICK x \in J : TRUE
  OBVIOUS
<1>4. CASE J \ {x} = {}
  <2>1. IsLast(x, R, J)
    BY <1>4 DEF IsLast
  <2> QED
    BY <2>1
<1>5. CASE J \ {x} # {}
  <2>1. J \ {x} \notin F
    BY <1>2
  <2>2. PICK m \in J \ {x} : IsLast(m, R, J \ {x})
    BY <1>5, <2>1
  <2>3. CASE <<x, m>> \in R
    <3>1. IsLast(m, R, J)
      BY <2>2, <2>3 DEF IsLast
    <3> QED
      BY <3>1
  <2>4. CASE <<m, x>> \in R
    <3>1. IsLast(x, R, J)
      BY <2>2, <2>4 DEF IsLast, Orders
    <3> QED
      BY <3>1
  <2> QED
    BY <2>3, <2>4 DEF Orders
<1> QED
  BY <1>4, <1>5

\* s lists I in the order R.
Enumerates(s, R, I) ==
  /\ s \in [1..Cardinality(I) -> I]
  /\ \A i, j \in 1..Cardinality(I) : i < j => <<s[i], s[j]>> \in R

LEMMA SortedExists ==
  ASSUME NEW I, IsFiniteSet(I), NEW R, Orders(R, I)
  PROVE  \E s : Enumerates(s, R, I)
<1> DEFINE F == {J \in SUBSET I : ~ \E s : Enumerates(s, R, J)}
<1>1. SUFFICES ASSUME F # {} PROVE FALSE
  <2>1. I \notin F
    BY <1>1
  <2> QED
    BY <2>1
<1>2. PICK J \in F : \A T \in F : T \subseteq J => T = J
  <2> HIDE DEF F
  <2>1. F \subseteq SUBSET I
    BY DEF F
  <2> QED
    BY <1>1, <2>1, SmallestSet
<1>3. IsFiniteSet(J) /\ Orders(R, J) /\ ~ \E s : Enumerates(s, R, J)
  BY FS_Subset DEF Orders
<1>4. J # {}
  <2> SUFFICES ASSUME J = {} PROVE FALSE
    OBVIOUS
  <2>1. Cardinality(J) = 0
    BY FS_EmptySet
  <2>2. Enumerates([i \in 1..0 |-> i], R, J)
    BY <2>1 DEF Enumerates
  <2> QED
    BY <1>3, <2>2
<1>5. PICK m \in J : IsLast(m, R, J)
  BY <1>3, <1>4, LastExists
<1> DEFINE K == J \ {m}
           n == Cardinality(J)
<1>6. IsFiniteSet(K) /\ Cardinality(K) = n - 1 /\ n \in Nat /\ n # 0
  BY <1>3, <1>4, FS_RemoveElement, FS_CardinalityType, FS_EmptySet
<1>7. PICK f : Enumerates(f, R, K)
  BY <1>2
<1> DEFINE g == [i \in 1..n |-> IF i < n THEN f[i] ELSE m]
<1>8. f \in [1..n-1 -> K] /\ \A i, j \in 1..n-1 : i < j => <<f[i], f[j]>> \in R
  BY <1>6, <1>7 DEF Enumerates
<1>9. \A x \in K : <<x, m>> \in R
  BY <1>5 DEF IsLast
<1>10. Enumerates(g, R, J)
  <2> HIDE DEF K
  <2>1. K \subseteq J
    BY DEF K
  <2> HIDE DEF n
  <2>2. ASSUME NEW i \in 1..n PROVE g[i] = IF i < n THEN f[i] ELSE m
    OBVIOUS
  <2>3. \A i \in 1..n : i < n => i \in 1..n-1
    BY <1>6
  <2>4. g \in [1..n -> J]
    BY <1>8, <2>1, <2>3
  <2>5. ASSUME NEW i \in 1..n, NEW j \in 1..n, i < j PROVE <<g[i], g[j]>> \in R
    <3>1. i < n /\ (j < n \/ j = n)
      BY <1>6, <2>5
    <3>2. i \in 1..n-1 /\ g[i] = f[i] /\ f[i] \in K
      BY <1>8, <2>2, <2>3, <3>1
    <3>3. CASE j < n
      BY <1>8, <2>2, <2>3, <2>5, <3>2, <3>3
    <3>4. CASE j = n
      BY <1>6, <1>9, <2>2, <3>2, <3>4
    <3> QED
      BY <3>1, <3>3, <3>4
  <2> QED
    BY <2>4, <2>5 DEF Enumerates, n
<1> QED
  BY <1>3, <1>10

LEMMA EnumeratesEach ==
  ASSUME NEW I, IsFiniteSet(I), NEW s \in [1..Cardinality(I) -> I],
         \A i, j \in 1..Cardinality(I) : i < j => s[i] # s[j]
  PROVE  \A x \in I : \E k \in 1..Cardinality(I) : s[k] = x
<1> DEFINE n == Cardinality(I)
<1>1. n \in Nat
  BY FS_CardinalityType
<1>2. IsFiniteSet(1..n) /\ Cardinality(1..n) = n
  <2> HIDE DEF n
  <2> QED
    BY <1>1, FS_Interval
<1>3. s \in Injection(1..n, I)
  <2>1. \A i, j \in 1..n : i = j \/ i < j \/ j < i
    BY <1>1
  <2>2. \A i, j \in DOMAIN s : s[i] = s[j] => i = j
    BY <2>1
  <2> QED
    BY <2>2 DEF Injection, IsInjective
<1>4. s \in Surjection(1..n, I)
  BY <1>2, <1>3, FS_Injection
<1> QED
  BY <1>4 DEF Surjection

\* Numbers, in their own order.
LEMMA NumbersSorted ==
  ASSUME NEW S, IsFiniteSet(S), S \subseteq Nat
  PROVE  /\ Sorted(S, <) \in [1..Cardinality(S) -> S]
         /\ \A i, j \in 1..Cardinality(S) : i < j => Sorted(S, <)[i] < Sorted(S, <)[j]
<1> DEFINE R == {r \in S \X S : r[1] < r[2]}
           n == Cardinality(S)
           Good(s) == \A i, j \in DOMAIN s : i < j => s[i] < s[j]
<1>1. Orders(R, S)
  BY DEF Orders
<1>2. PICK s : Enumerates(s, R, S)
  BY <1>1, SortedExists
<1>3. s \in [1..n -> S] /\ Good(s)
  <2>1. s \in [1..n -> S] /\ \A i, j \in 1..n : i < j => <<s[i], s[j]>> \in R
    BY <1>2 DEF Enumerates
  <2>2. \A x, y : <<x, y>> \in R => x < y
    OBVIOUS
  <2> HIDE DEF R, n
  <2> QED
    BY <2>1, <2>2
<1>4. Sorted(S, <) \in [1..n -> S] /\ Good(Sorted(S, <))
  <2>1. \E f \in [1..n -> S] : Good(f)
    BY <1>3
  <2> QED
    BY <2>1 DEF Sorted
<1> QED
  BY <1>4

LEMMA MinOfTwo ==
  ASSUME NEW a \in Nat, NEW b \in Nat
  PROVE  Min({a, b}) = IF a < b THEN a ELSE b
<1> DEFINE Least(x) == \A y \in {a, b} : x <= y
           m == IF a < b THEN a ELSE b
<1>1. m \in {a, b} /\ Least(m)
  OBVIOUS
<1>2. Min({a, b}) \in {a, b} /\ Least(Min({a, b}))
  <2> HIDE DEF m
  <2> QED
    BY <1>1 DEF Min
<1> QED
  BY <1>2

LEMMA MaxOf ==
  ASSUME NEW S, IsFiniteSet(S), S # {}, S \subseteq Nat
  PROVE  Max(S) \in S /\ \A x \in S : x <= Max(S)
<1> DEFINE R == {r \in S \X S : r[1] < r[2]}
           Greatest(x) == \A y \in S : x >= y
<1>1. Orders(R, S)
  BY DEF Orders
<1>2. PICK m \in S : IsLast(m, R, S)
  BY <1>1, LastExists
<1>3. Greatest(m)
  <2>1. \A x \in S : x = m \/ <<x, m>> \in R
    BY <1>2 DEF IsLast
  <2>2. \A x, y : <<x, y>> \in R => x < y
    OBVIOUS
  <2>3. ASSUME NEW x \in S PROVE m >= x
    <3>1. x = m \/ x < m
      BY <2>1, <2>2
    <3>2. x \in Nat /\ m \in Nat
      OBVIOUS
    <3> HIDE DEF R
    <3> QED
      BY <3>1, <3>2
  <2> QED
    BY <2>3
<1>4. Max(S) \in S /\ Greatest(Max(S))
  BY <1>3 DEF Max
<1>5. \A x \in S : x <= Max(S)
  BY <1>4
<1> QED
  BY <1>4, <1>5

LEMMA FirstExists ==
  ASSUME NEW I, IsFiniteSet(I), I # {}, NEW R, Orders(R, I)
  PROVE  \E m \in I : \A x \in I \ {m} : <<m, x>> \in R
<1> DEFINE Q == {r \in I \X I : <<r[2], r[1]>> \in R}
<1>1. \A x, y \in I : <<x, y>> \in Q <=> <<y, x>> \in R
  OBVIOUS
<1> HIDE DEF Q
<1>2. Orders(Q, I)
  BY <1>1 DEF Orders
<1>3. PICK m \in I : IsLast(m, Q, I)
  BY <1>2, LastExists
<1>4. \A x \in I \ {m} : <<m, x>> \in R
  BY <1>1, <1>3 DEF IsLast
<1> QED
  BY <1>4

\* What a function makes of a finite set is finite.
LEMMA FiniteImage ==
  ASSUME NEW I, IsFiniteSet(I), NEW S, NEW f \in [I -> S]
  PROVE  IsFiniteSet({f[x] : x \in I})
<1> DEFINE J == {f[x] : x \in I}
<1>1. f \in Surjection(I, J)
  BY DEF Surjection
<1> HIDE DEF J
<1>2. IsFiniteSet(J)
  BY <1>1, FS_Surjection
<1> QED
  BY <1>2 DEF J

\* Every set of numbers has a smallest: the induction of the facts about tables.
LEMMA SmallestNumber ==
  ASSUME NEW S, S \subseteq Nat, S # {}
  PROVE  \E m \in S : \A x \in S : m <= x
<1>1. PICK m \in S : \A x \in S : ~ (<<x, m>> \in OpToRel(<, Nat))
  BY NatLessThanWellFounded, WFMin
<1>2. \A x \in S : ~ (x < m)
  BY <1>1 DEF OpToRel
<1> QED
  BY <1>2

LEMMA MinOf ==
  ASSUME NEW S, S \subseteq Nat, S # {}
  PROVE  Min(S) \in S /\ \A x \in S : Min(S) <= x
<1> DEFINE Least(m) == \A x \in S : m <= x
<1>1. \E m \in S : Least(m)
  BY SmallestNumber
<1>2. Min(S) \in S /\ Least(Min(S))
  BY <1>1 DEF Min
<1> QED
  BY <1>2

LEMMA MaxOfTwo ==
  ASSUME NEW a \in Nat, NEW b \in Nat
  PROVE  Max({a, b}) = IF a <= b THEN b ELSE a
<1>1. IsFiniteSet({a, b})
  <2>1. IsFiniteSet({} \cup {a})
    BY FS_EmptySet, FS_AddElement
  <2>2. IsFiniteSet(({} \cup {a}) \cup {b})
    BY <2>1, FS_AddElement
  <2>3. ({} \cup {a}) \cup {b} = {a, b}
    OBVIOUS
  <2> QED
    BY <2>2, <2>3
<1>2. {a, b} # {} /\ {a, b} \subseteq Nat
  OBVIOUS
<1>3. Max({a, b}) \in {a, b} /\ \A x \in {a, b} : x <= Max({a, b})
  BY <1>1, <1>2, MaxOf
<1> QED
  BY <1>3

-----------------------------------------------------------------------------
(* Sequences *)

LEMMA SequencesJoin ==
  ASSUME NEW S, NEW p \in Seq(S), NEW q \in Seq(S), NEW x \in S
  PROVE  p \o q \in Seq(S) /\ Append(p, x) \in Seq(S)
<1>1. p \o q \in Seq(S)
  OBVIOUS
<1>2. Append(p, x) \in Seq(S)
  OBVIOUS
<1> QED
  BY <1>1, <1>2

LEMMA JoinIs ==
  ASSUME NEW S, NEW p \in Seq(S), NEW q \in Seq(S)
  PROVE  /\ p \o q \in Seq(S) /\ Len(p \o q) = Len(p) + Len(q)
         /\ \A k \in 1..(Len(p) + Len(q)) :
              (p \o q)[k] = IF k <= Len(p) THEN p[k] ELSE q[k - Len(p)]
<1>1. p \o q \in Seq(S)
  OBVIOUS
<1>2. Len(p \o q) = Len(p) + Len(q)
  BY ConcatProperties
<1>3. \A k \in 1..(Len(p) + Len(q)) : (p \o q)[k] = IF k <= Len(p) THEN p[k] ELSE q[k - Len(p)]
  BY ConcatProperties
<1> QED
  BY <1>1, <1>2, <1>3

LEMMA ElementIs ==
  ASSUME NEW S, NEW p \in Seq(S), NEW i \in DOMAIN p
  PROVE  i \in 1..Len(p) /\ i \in Nat /\ p[i] \in S
<1>1. DOMAIN p = 1..Len(p) /\ \A j \in 1..Len(p) : p[j] \in S
  OBVIOUS
<1> QED
  BY <1>1

LEMMA LongerIs ==
  ASSUME NEW S, NEW p \in Seq(S), NEW x \in S
  PROVE  Append(p, x) \in Seq(S)
OBVIOUS

-----------------------------------------------------------------------------
(* Loops *)

\* What holds of the first place of a loop, and of each if of the one before.
LEMMA Upward ==
  ASSUME NEW n \in Nat, NEW T, 0 \in T, \A i \in 1..n : i - 1 \in T => i \in T
  PROVE  \A i \in 0..n : i \in T
<1> DEFINE Ls == {i \in 0..n : i \notin T}
<1> SUFFICES ASSUME Ls # {} PROVE FALSE
  OBVIOUS
<1>1. PICK l \in Ls : \A k \in Ls : l <= k
  <2>1. Ls \subseteq Nat
    OBVIOUS
  <2> HIDE DEF Ls
  <2> QED
    BY <2>1, SmallestNumber
<1>2. l \in 0..n /\ l \notin T
  OBVIOUS
<1>3. l \in 1..n /\ l - 1 \in 0..n /\ ~(l <= l - 1)
  BY <1>2
<1>4. l - 1 \notin Ls
  <2> HIDE DEF Ls
  <2> QED
    BY <1>1, <1>3
<1>5. l - 1 \in T
  BY <1>3, <1>4
<1> QED
  BY <1>2, <1>3, <1>5

\* A loop has a state after each of its rounds.
LoopOf(n, S, init, step) ==
  \E f \in [0..n -> S] : f[0] = init /\ \A i \in 1..n : f[i] = step[<<i, f[i - 1]>>]

LEMMA LoopIs ==
  ASSUME NEW n \in Nat, NEW S, NEW init \in S, NEW step,
         \A i \in 1..n, x \in S : step[<<i, x>>] \in S
  PROVE  LoopOf(n, S, init, step)
<1> DEFINE Right(f, k) == f[0] = init /\ \A i \in 1..n : i <= k => f[i] = step[<<i, f[i - 1]>>]
           T == {k \in 0..n : \E f \in [0..n -> S] : Right(f, k)}
<1>1. 0 \in T
  <2> DEFINE f == [i \in 0..n |-> init]
  <2>1. f \in [0..n -> S] /\ f[0] = init
    OBVIOUS
  <2>2. \A i \in 1..n : ~(i <= 0)
    OBVIOUS
  <2> HIDE DEF f
  <2>3. Right(f, 0)
    BY <2>1, <2>2
  <2> QED
    BY <2>1, <2>3
<1>2. ASSUME NEW k \in 1..n, k - 1 \in T PROVE k \in T
  <2>1. PICK f \in [0..n -> S] : Right(f, k - 1)
    BY <1>2
  <2>2. k - 1 \in 0..n /\ k \in 0..n /\ 0 # k /\ 0 \in 0..n
    OBVIOUS
  <2> DEFINE x == step[<<k, f[k - 1]>>]
             g == [f EXCEPT ![k] = x]
  <2>3. x \in S
    BY <2>2
  <2> HIDE DEF x
  <2>4. g \in [0..n -> S] /\ g[k] = x /\ \A i \in 0..n : i # k => g[i] = f[i]
    BY <2>2, <2>3
  <2> HIDE DEF g
  <2>5. ASSUME NEW i \in 1..n, i <= k PROVE g[i] = step[<<i, g[i - 1]>>]
    <3>1. i - 1 \in 0..n /\ i - 1 # k /\ i \in 0..n
      BY <2>5
    <3>2. g[i - 1] = f[i - 1]
      BY <2>4, <3>1
    <3>3. CASE i = k
      BY <2>4, <3>2, <3>3 DEF x
    <3>4. CASE i # k
      <4>1. i <= k - 1
        BY <2>5, <3>4
      <4>2. f[i] = step[<<i, f[i - 1]>>]
        BY <2>1, <4>1
      <4> QED
        BY <2>4, <3>1, <3>2, <3>4, <4>2
    <3> QED
      BY <3>3, <3>4
  <2>6. g[0] = init
    BY <2>1, <2>2, <2>4
  <2> QED
    BY <2>2, <2>4, <2>5, <2>6
<1>3. n \in T
  <2>1. n \in 0..n
    OBVIOUS
  <2> HIDE DEF T
  <2> QED
    BY <1>1, <1>2, <2>1, Upward
<1>4. \A i \in 1..n : i <= n
  OBVIOUS
<1> QED
  BY <1>3, <1>4 DEF LoopOf

\* A run of a loop from s to its first end.
RunTo(E, next, s, k, r) ==
  /\ r[0] = s /\ r[k] \in E
  /\ \A i \in 1..k : r[i - 1] \notin E /\ r[i] = next[r[i - 1]]

EndsOf(S, E, next, s) ==
  {e \in S : \E k \in Nat : \E r \in [0..k -> S] : RunTo(E, next, s, k, r) /\ e = r[k]}

LEMMA EndIsHere ==
  ASSUME NEW S, NEW E, NEW next, NEW s \in S, s \in E
  PROVE  EndsOf(S, E, next, s) = {s}
<1>1. ASSUME NEW e \in EndsOf(S, E, next, s) PROVE e = s
  <2>1. PICK k \in Nat : \E r \in [0..k -> S] : RunTo(E, next, s, k, r) /\ e = r[k]
    BY <1>1 DEF EndsOf
  <2>2. PICK r \in [0..k -> S] : RunTo(E, next, s, k, r) /\ e = r[k]
    BY <2>1
  <2>3. k = 0
    <3> SUFFICES ASSUME k # 0 PROVE FALSE
      OBVIOUS
    <3>1. 1 \in 1..k /\ 1 - 1 = 0
      OBVIOUS
    <3>2. r[0] \notin E
      BY <2>2, <3>1 DEF RunTo
    <3> QED
      BY <2>2, <3>2 DEF RunTo
  <2> QED
    BY <2>2, <2>3 DEF RunTo
<1>2. s \in EndsOf(S, E, next, s)
  <2> DEFINE r == [i \in 0..0 |-> s]
  <2>1. r \in [0..0 -> S] /\ r[0] = s /\ 0 \in Nat /\ \A i \in 1..0 : FALSE
    OBVIOUS
  <2> HIDE DEF r
  <2>2. RunTo(E, next, s, 0, r) /\ s = r[0]
    BY <2>1 DEF RunTo
  <2> QED
    BY <2>1, <2>2 DEF EndsOf
<1> QED
  BY <1>1, <1>2

LEMMA EndIsAfter ==
  ASSUME NEW S, NEW E, NEW next, NEW s \in S, s \notin E, next[s] \in S
  PROVE  EndsOf(S, E, next, s) = EndsOf(S, E, next, next[s])
<1>1. ASSUME NEW e \in EndsOf(S, E, next, s) PROVE e \in EndsOf(S, E, next, next[s])
  <2>1. PICK k \in Nat : \E r \in [0..k -> S] : RunTo(E, next, s, k, r) /\ e = r[k]
    BY <1>1 DEF EndsOf
  <2>2. PICK r \in [0..k -> S] : RunTo(E, next, s, k, r) /\ e = r[k]
    BY <2>1
  <2>3. k # 0
    BY <2>2 DEF RunTo
  <2> DEFINE q == [i \in 0..(k - 1) |-> r[i + 1]]
  <2>4. k - 1 \in Nat /\ 1 \in 1..k /\ 1 - 1 = 0
    BY <2>3
  <2>5. \A i \in 0..(k - 1) : i + 1 \in 0..k /\ i + 1 \in 1..k /\ i + 1 - 1 = i
    BY <2>3
  <2>6. q \in [0..(k - 1) -> S]
    BY <2>5
  <2>7. \A i \in 0..(k - 1) : q[i] = r[i + 1]
    OBVIOUS
  <2>8. 0 \in 0..(k - 1) /\ k - 1 \in 0..(k - 1) /\ 0 + 1 = 1 /\ k - 1 + 1 = k
    BY <2>3
  <2> HIDE DEF q
  <2>9. q[0] = next[s]
    <3>1. q[0] = r[1]
      BY <2>7, <2>8
    <3>2. r[1] = next[r[0]]
      BY <2>2, <2>4 DEF RunTo
    <3> QED
      BY <3>1, <3>2, <2>2 DEF RunTo
  <2>10. q[k - 1] = r[k]
    BY <2>7, <2>8
  <2>11. \A i \in 1..(k - 1) : q[i - 1] \notin E /\ q[i] = next[q[i - 1]]
    <3> TAKE i \in 1..(k - 1)
    <3>1. i \in 0..(k - 1) /\ i - 1 \in 0..(k - 1) /\ i - 1 + 1 = i /\ i + 1 \in 1..k /\ i + 1 - 1 = i
      BY <2>4
    <3>2. q[i] = r[i + 1] /\ q[i - 1] = r[i]
      BY <2>7, <3>1
    <3>3. r[i + 1 - 1] \notin E /\ r[i + 1] = next[r[i + 1 - 1]]
      BY <2>2, <3>1 DEF RunTo
    <3> QED
      BY <3>1, <3>2, <3>3
  <2>12. RunTo(E, next, next[s], k - 1, q) /\ e = q[k - 1]
    BY <2>2, <2>9, <2>10, <2>11 DEF RunTo
  <2> QED
    BY <1>1, <2>4, <2>6, <2>12 DEF EndsOf
<1>2. ASSUME NEW e \in EndsOf(S, E, next, next[s]) PROVE e \in EndsOf(S, E, next, s)
  <2>1. PICK k \in Nat : \E r \in [0..k -> S] : RunTo(E, next, next[s], k, r) /\ e = r[k]
    BY <1>2 DEF EndsOf
  <2>2. PICK r \in [0..k -> S] : RunTo(E, next, next[s], k, r) /\ e = r[k]
    BY <2>1
  <2> DEFINE q == [i \in 0..(k + 1) |-> IF i = 0 THEN s ELSE r[i - 1]]
  <2>3. /\ k + 1 \in Nat /\ k + 1 \in 0..(k + 1) /\ k + 1 # 0 /\ k + 1 - 1 = k
        /\ 0 \in 0..(k + 1)
        /\ \A i \in 1..(k + 1) : i \in 0..(k + 1) /\ i # 0 /\ i - 1 \in 0..k
        /\ \A i \in 0..(k + 1) : i = 0 \/ i \in 1..(k + 1)
    OBVIOUS
  <2>4. q \in [0..(k + 1) -> S]
    BY <2>3
  <2>5. q[0] = s /\ \A i \in 1..(k + 1) : q[i] = r[i - 1]
    BY <2>3
  <2> HIDE DEF q
  <2>6. q[k + 1] = r[k]
    <3>1. k + 1 \in 1..(k + 1)
      OBVIOUS
    <3> QED
      BY <2>3, <2>5, <3>1
  <2>7. \A i \in 1..(k + 1) : q[i - 1] \notin E /\ q[i] = next[q[i - 1]]
    <3> TAKE i \in 1..(k + 1)
    <3>1. CASE i = 1
      <4>1. q[i - 1] = s /\ q[i] = r[0]
        BY <2>5, <3>1
      <4> QED
        BY <4>1, <2>2 DEF RunTo
    <3>2. CASE i # 1
      <4>1. i - 1 \in 1..k /\ i - 1 \in 1..(k + 1)
        BY <3>2
      <4>2. q[i - 1] = r[i - 1 - 1] /\ q[i] = r[i - 1]
        BY <2>5, <4>1
      <4> QED
        BY <4>1, <4>2, <2>2 DEF RunTo
    <3> QED
      BY <3>1, <3>2
  <2>8. RunTo(E, next, s, k + 1, q) /\ e = q[k + 1]
    BY <2>2, <2>5, <2>6, <2>7 DEF RunTo
  <2>9. e \in S
    BY <1>2 DEF EndsOf
  <2> QED
    BY <2>3, <2>4, <2>8, <2>9 DEF EndsOf
<1> QED
  BY <1>1, <1>2

\* A loop has a value from every state, also where it does not end.
WhileOf(S, E, next, value) ==
  \E f : f = [s \in S |-> IF s \in E THEN value[s] ELSE f[next[s]]]

LEMMA WhileIs ==
  ASSUME NEW S, NEW E, NEW next, NEW value, \A s \in S : s \notin E => next[s] \in S
  PROVE  WhileOf(S, E, next, value)
<1> DEFINE end(s) == CHOOSE e : e \in EndsOf(S, E, next, s)
           f == [s \in S |-> value[end(s)]]
<1>1. ASSUME NEW s \in S PROVE f[s] = IF s \in E THEN value[s] ELSE f[next[s]]
  <2>1. CASE s \in E
    <3>1. EndsOf(S, E, next, s) = {s}
      BY <2>1, EndIsHere
    <3>2. end(s) = CHOOSE e : e \in {s}
      BY <3>1
    <3>3. end(s) = s
      BY <3>2
    <3> HIDE DEF end
    <3> QED
      BY <2>1, <3>3
  <2>2. CASE s \notin E
    <3>1. next[s] \in S
      BY <2>2
    <3>2. EndsOf(S, E, next, s) = EndsOf(S, E, next, next[s])
      BY <2>2, <3>1, EndIsAfter
    <3>3. end(s) = end(next[s])
      BY <3>2
    <3> HIDE DEF end
    <3> QED
      BY <2>2, <3>1, <3>3
  <2> QED
    BY <2>1, <2>2
<1>2. f = [s \in S |-> IF s \in E THEN value[s] ELSE f[next[s]]]
  <2>1. f = [s \in S |-> f[s]]
    OBVIOUS
  <2> HIDE DEF f
  <2> QED
    BY <1>1, <2>1
<1> QED
  BY <1>2 DEF WhileOf

-----------------------------------------------------------------------------
(* Sequences that are one edit apart *)

\* The first i letters of a and the first j of b: the same, or one edit apart.
SameUpTo(a, b, i, j) == i = j /\ \A k \in 1..i : a[k] = b[k]

ReplacedAt(a, b, n, p) == \A k \in 1..n : k # p => a[k] = b[k]

SwappedAt(a, b, n, p) ==
  /\ a[p] = b[p + 1] /\ a[p + 1] = b[p]
  /\ \A k \in 1..n : (k # p /\ k # p + 1) => a[k] = b[k]

\* Without its letter at p, a is b, which has n letters.
DroppedAt(a, b, n, p) ==
  /\ \A k \in 1..n : k < p => a[k] = b[k]
  /\ \A k \in 1..n : k >= p => a[k + 1] = b[k]

EditUpTo(a, b, i, j) ==
  \/ SameUpTo(a, b, i, j)
  \/ i = j /\ \E p \in 1..i : ReplacedAt(a, b, i, p)
  \/ i = j /\ \E p \in 1..(i - 1) : SwappedAt(a, b, i, p)
  \/ i = j + 1 /\ \E p \in 1..i : DroppedAt(a, b, j, p)
  \/ j = i + 1 /\ \E p \in 1..j : DroppedAt(b, a, i, p)

LEMMA EditExtends ==
  ASSUME NEW a, NEW b, NEW i \in Nat \ {0}, NEW j \in Nat \ {0}, a[i] = b[j],
         EditUpTo(a, b, i - 1, j - 1)
  PROVE  EditUpTo(a, b, i, j)
<1>1. CASE SameUpTo(a, b, i - 1, j - 1)
  <2>1. SameUpTo(a, b, i, j)
    BY <1>1 DEF SameUpTo
  <2> QED
    BY <2>1 DEF EditUpTo
<1>2. ASSUME i - 1 = j - 1, NEW p \in 1..(i - 1), ReplacedAt(a, b, i - 1, p)
      PROVE  EditUpTo(a, b, i, j)
  <2>1. i = j /\ p \in 1..i /\ ReplacedAt(a, b, i, p)
    BY <1>2 DEF ReplacedAt
  <2> QED
    BY <2>1 DEF EditUpTo
<1>3. ASSUME i - 1 = j - 1, NEW p \in 1..((i - 1) - 1), SwappedAt(a, b, i - 1, p)
      PROVE  EditUpTo(a, b, i, j)
  <2>1. i = j /\ p \in 1..(i - 1) /\ SwappedAt(a, b, i, p)
    BY <1>3 DEF SwappedAt
  <2> QED
    BY <2>1 DEF EditUpTo
<1>4. ASSUME i - 1 = (j - 1) + 1, NEW p \in 1..(i - 1), DroppedAt(a, b, j - 1, p)
      PROVE  EditUpTo(a, b, i, j)
  <2>1. i = j + 1 /\ p \in 1..i /\ DroppedAt(a, b, j, p)
    BY <1>4 DEF DroppedAt
  <2> QED
    BY <2>1 DEF EditUpTo
<1>5. ASSUME j - 1 = (i - 1) + 1, NEW p \in 1..(j - 1), DroppedAt(b, a, i - 1, p)
      PROVE  EditUpTo(a, b, i, j)
  <2>1. j = i + 1 /\ p \in 1..j /\ DroppedAt(b, a, i, p)
    BY <1>5 DEF DroppedAt
  <2> QED
    BY <2>1 DEF EditUpTo
<1> QED
  BY <1>1, <1>2, <1>3, <1>4, <1>5 DEF EditUpTo

LEMMA EditShrinks ==
  ASSUME NEW a, NEW b, NEW i \in Nat \ {0}, NEW j \in Nat \ {0}, a[i] = b[j],
         EditUpTo(a, b, i, j)
  PROVE  EditUpTo(a, b, i - 1, j - 1)
<1>1. CASE SameUpTo(a, b, i, j)
  <2>1. SameUpTo(a, b, i - 1, j - 1)
    BY <1>1 DEF SameUpTo
  <2> QED
    BY <2>1 DEF EditUpTo
<1>2. ASSUME i = j, NEW p \in 1..i, ReplacedAt(a, b, i, p)
      PROVE  EditUpTo(a, b, i - 1, j - 1)
  <2>1. CASE p = i
    <3>1. SameUpTo(a, b, i - 1, j - 1)
      BY <1>2, <2>1 DEF ReplacedAt, SameUpTo
    <3> QED
      BY <3>1 DEF EditUpTo
  <2>2. CASE p # i
    <3>1. i - 1 = j - 1 /\ p \in 1..(i - 1) /\ ReplacedAt(a, b, i - 1, p)
      BY <1>2, <2>2 DEF ReplacedAt
    <3> QED
      BY <3>1 DEF EditUpTo
  <2> QED
    BY <2>1, <2>2
<1>3. ASSUME i = j, NEW p \in 1..(i - 1), SwappedAt(a, b, i, p)
      PROVE  EditUpTo(a, b, i - 1, j - 1)
  <2>1. CASE p = i - 1
    <3>1. a[i - 1] = b[i - 1]
      BY <1>3, <2>1 DEF SwappedAt
    <3>2. \A k \in 1..(i - 1) : k # i - 1 => a[k] = b[k]
      BY <1>3, <2>1 DEF SwappedAt
    <3>3. SameUpTo(a, b, i - 1, j - 1)
      BY <1>3, <3>1, <3>2 DEF SameUpTo
    <3> QED
      BY <3>3 DEF EditUpTo
  <2>2. CASE p # i - 1
    <3>1. i - 1 = j - 1 /\ p \in 1..((i - 1) - 1) /\ SwappedAt(a, b, i - 1, p)
      BY <1>3, <2>2 DEF SwappedAt
    <3> QED
      BY <3>1 DEF EditUpTo
  <2> QED
    BY <2>1, <2>2
<1>4. ASSUME i = j + 1, NEW p \in 1..i, DroppedAt(a, b, j, p)
      PROVE  EditUpTo(a, b, i - 1, j - 1)
  <2> DEFINE q == IF p = i THEN j ELSE p
  <2>1. i - 1 = (j - 1) + 1 /\ q \in 1..(i - 1)
    BY <1>4
  <2>2. DroppedAt(a, b, j - 1, q)
    BY <1>4 DEF DroppedAt
  <2> HIDE DEF q
  <2> QED
    BY <2>1, <2>2 DEF EditUpTo
<1>5. ASSUME j = i + 1, NEW p \in 1..j, DroppedAt(b, a, i, p)
      PROVE  EditUpTo(a, b, i - 1, j - 1)
  <2> DEFINE q == IF p = j THEN i ELSE p
  <2>1. j - 1 = (i - 1) + 1 /\ q \in 1..(j - 1)
    BY <1>5
  <2>2. DroppedAt(b, a, i - 1, q)
    BY <1>5 DEF DroppedAt
  <2> HIDE DEF q
  <2> QED
    BY <2>1, <2>2 DEF EditUpTo
<1> QED
  BY <1>1, <1>2, <1>3, <1>4, <1>5 DEF EditUpTo

\* If the last letters differ, the edit is at the end.
LEMMA EditAtTheEnd ==
  ASSUME NEW a, NEW b, NEW i \in Nat \ {0}, NEW j \in Nat \ {0}, a[i] # b[j],
         EditUpTo(a, b, i, j)
  PROVE  \/ SameUpTo(a, b, i - 1, j - 1) \/ SameUpTo(a, b, i - 1, j)
         \/ SameUpTo(a, b, i, j - 1)
         \/ i > 1 /\ j > 1 /\ a[i] = b[j - 1] /\ a[i - 1] = b[j] /\ SameUpTo(a, b, i - 2, j - 2)
<1>1. ~SameUpTo(a, b, i, j)
  BY DEF SameUpTo
<1>2. ASSUME i = j, NEW p \in 1..i, ReplacedAt(a, b, i, p)
      PROVE  SameUpTo(a, b, i - 1, j - 1)
  <2>1. p = i
    BY <1>2 DEF ReplacedAt
  <2> QED
    BY <1>2, <2>1 DEF ReplacedAt, SameUpTo
<1>3. ASSUME i = j, NEW p \in 1..(i - 1), SwappedAt(a, b, i, p)
      PROVE  /\ i > 1 /\ j > 1 /\ a[i] = b[j - 1] /\ a[i - 1] = b[j]
             /\ SameUpTo(a, b, i - 2, j - 2)
  <2>1. p = i - 1
    BY <1>3 DEF SwappedAt
  <2>2. i > 1 /\ j > 1 /\ a[i] = b[j - 1] /\ a[i - 1] = b[j]
    BY <1>3, <2>1 DEF SwappedAt
  <2>3. SameUpTo(a, b, i - 2, j - 2)
    BY <1>3, <2>1, <2>2 DEF SwappedAt, SameUpTo
  <2> QED
    BY <2>2, <2>3
<1>4. ASSUME i = j + 1, NEW p \in 1..i, DroppedAt(a, b, j, p)
      PROVE  SameUpTo(a, b, i - 1, j)
  <2>1. p = i
    BY <1>4 DEF DroppedAt
  <2> QED
    BY <1>4, <2>1 DEF DroppedAt, SameUpTo
<1>5. ASSUME j = i + 1, NEW p \in 1..j, DroppedAt(b, a, i, p)
      PROVE  SameUpTo(a, b, i, j - 1)
  <2>1. p = j
    BY <1>5 DEF DroppedAt
  <2> QED
    BY <1>5, <2>1 DEF DroppedAt, SameUpTo
<1> QED
  BY <1>1, <1>2, <1>3, <1>4, <1>5 DEF EditUpTo

\* And the other way round.
LEMMA EndsInAnEdit ==
  ASSUME NEW a, NEW b, NEW i \in Nat \ {0}, NEW j \in Nat \ {0},
         \/ SameUpTo(a, b, i - 1, j - 1) \/ SameUpTo(a, b, i - 1, j)
         \/ SameUpTo(a, b, i, j - 1)
         \/ i > 1 /\ j > 1 /\ a[i] = b[j - 1] /\ a[i - 1] = b[j] /\ SameUpTo(a, b, i - 2, j - 2)
  PROVE  EditUpTo(a, b, i, j)
<1>1. CASE SameUpTo(a, b, i - 1, j - 1)
  <2>1. i = j /\ i \in 1..i /\ ReplacedAt(a, b, i, i)
    BY <1>1 DEF SameUpTo, ReplacedAt
  <2> QED
    BY <2>1 DEF EditUpTo
<1>2. CASE SameUpTo(a, b, i - 1, j)
  <2>1. i = j + 1 /\ i \in 1..i /\ DroppedAt(a, b, j, i)
    BY <1>2 DEF SameUpTo, DroppedAt
  <2> QED
    BY <2>1 DEF EditUpTo
<1>3. CASE SameUpTo(a, b, i, j - 1)
  <2>1. j = i + 1 /\ j \in 1..j /\ DroppedAt(b, a, i, j)
    BY <1>3 DEF SameUpTo, DroppedAt
  <2> QED
    BY <2>1 DEF EditUpTo
<1>4. CASE i > 1 /\ j > 1 /\ a[i] = b[j - 1] /\ a[i - 1] = b[j] /\ SameUpTo(a, b, i - 2, j - 2)
  <2>1. i = j /\ i - 1 \in 1..(i - 1) /\ SwappedAt(a, b, i, i - 1)
    BY <1>4 DEF SameUpTo, SwappedAt
  <2> QED
    BY <2>1 DEF EditUpTo
<1> QED
  BY <1>1, <1>2, <1>3, <1>4
=============================================================================
