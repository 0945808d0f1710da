------------------------------ MODULE NatSets ------------------------------
(***************************************************************************)
(* Lemmas about sets of natural numbers: least and greatest elements, the  *)
(* k-th element of a finite set, and division by a constant.               *)
(***************************************************************************)
EXTENDS Integers, FiniteSetsExt, FiniteSetTheorems, TLAPS

(* The elements of S below f.                                              *)
Below(S, f) == {g \in S : g < f}
Rank(S, f) == Cardinality(Below(S, f))

LEMMA RankType ==
  ASSUME NEW S \in SUBSET Nat, IsFiniteSet(S), NEW f \in S
  PROVE  Rank(S, f) \in 0..(Cardinality(S) - 1)
<1>1. Below(S, f) \in SUBSET S /\ Below(S, f) # S
  BY DEF Below
<1>2. /\ Cardinality(Below(S, f)) <= Cardinality(S)
      /\ Cardinality(Below(S, f)) # Cardinality(S)
      /\ IsFiniteSet(Below(S, f))
  BY <1>1, FS_Subset
<1>3. Cardinality(S) \in Nat /\ Cardinality(Below(S, f)) \in Nat
  BY <1>2, FS_CardinalityType
<1> QED
  BY <1>2, <1>3 DEF Rank

(* Ranks go up with the elements.                                          *)
LEMMA RankGrows ==
  ASSUME NEW S \in SUBSET Nat, IsFiniteSet(S), NEW f \in S, NEW h \in S, f < h
  PROVE  Rank(S, f) < Rank(S, h)
<1>1. Below(S, f) \in SUBSET Below(S, h) /\ Below(S, h) # Below(S, f)
  <2>1. \A g \in Below(S, f) : g \in Below(S, h)
    BY DEF Below
  <2>2. f \in Below(S, h) /\ f \notin Below(S, f)
    BY DEF Below
  <2> QED
    BY <2>1, <2>2
<1>2. Below(S, h) \in SUBSET S
  BY DEF Below
<1>3. IsFiniteSet(Below(S, h))
  BY <1>2, FS_Subset
<1>4. /\ Cardinality(Below(S, f)) <= Cardinality(Below(S, h))
      /\ Cardinality(Below(S, f)) # Cardinality(Below(S, h))
  BY <1>1, <1>3, FS_Subset
<1>5. Rank(S, f) \in Int /\ Rank(S, h) \in Int
  BY RankType, FS_CardinalityType
<1> QED
  BY <1>4, <1>5 DEF Rank

(* Every rank below the cardinality is taken.                              *)
LEMMA RankOnto ==
  ASSUME NEW S \in SUBSET Nat, IsFiniteSet(S), NEW k \in 0..(Cardinality(S) - 1)
  PROVE  \E f \in S : Rank(S, f) = k
<1> DEFINE n == Cardinality(S)
           r == [f \in S |-> Rank(S, f)]
<1>1. n \in Nat
  BY FS_CardinalityType
<1>2. r \in [S -> 0..(n - 1)]
  BY RankType
<1>3. \A f, h \in S : r[f] = r[h] => f = h
  <2> TAKE f, h \in S
  <2>1. f < h \/ h < f \/ f = h
    OBVIOUS
  <2>2. Rank(S, f) \in Int /\ Rank(S, h) \in Int
    BY RankType, <1>1
  <2> QED
    BY <2>1, <2>2, RankGrows
<1>4. r \in Injection(S, 0..(n - 1))
  BY <1>2, <1>3 DEF Injection, IsInjective
<1>5. IsFiniteSet(0..(n - 1)) /\ Cardinality(0..(n - 1)) = n
  BY <1>1, FS_Interval
<1>6. r \in Surjection(S, 0..(n - 1))
  BY <1>4, <1>5, FS_Injection
<1> QED
  BY <1>6 DEF Surjection

(* Min is what its name says, also of an infinite set.                     *)
LEMMA MinIsLeast ==
  ASSUME NEW S \in SUBSET Nat, S # {}
  PROVE  Min(S) \in S /\ \A y \in S : Min(S) <= y
<1>1. PICK n \in S : TRUE
  OBVIOUS
<1> DEFINE T == {y \in S : y <= n}
<1>2. T \in SUBSET Nat /\ IsFiniteSet(T) /\ n \in T
  <2>1. n \in Nat /\ n <= n
    OBVIOUS
  <2>2. T \in SUBSET Nat /\ \A y \in T : y <= n
    OBVIOUS
  <2>3. n \in T
    BY <2>1
  <2> QED
    BY <2>1, <2>2, <2>3, FS_BoundedSetOfNaturals
<1>3. Cardinality(T) \in Nat \ {0}
  BY <1>2, FS_CardinalityType, FS_EmptySet
<1> HIDE DEF T
<1>4. PICK f \in T : Rank(T, f) = 0
  BY <1>2, <1>3, RankOnto
<1>5. Below(T, f) = {}
  <2>1. Below(T, f) \in SUBSET T
    BY DEF Below
  <2>2. IsFiniteSet(Below(T, f))
    BY <1>2, <2>1, FS_Subset
  <2> QED
    BY <1>4, <2>2, FS_EmptySet DEF Rank
<1>6. f \in S /\ \A y \in S : f <= y
  BY <1>2, <1>5 DEF Below, T
<1> QED
  BY <1>6 DEF Min

(* Max is what its name says.                                              *)
LEMMA MaxIsGreatest ==
  ASSUME NEW S \in SUBSET Nat, IsFiniteSet(S), S # {}
  PROVE  Max(S) \in S /\ \A y \in S : y <= Max(S)
<1>1. Cardinality(S) \in Nat \ {0}
  BY FS_CardinalityType, FS_EmptySet
<1>2. PICK f \in S : Rank(S, f) = Cardinality(S) - 1
  BY <1>1, RankOnto
<1>3. ASSUME NEW y \in S, f < y PROVE FALSE
  <2>1. Rank(S, f) < Rank(S, y)
    BY <1>3, RankGrows
  <2>2. Rank(S, y) \in 0..(Cardinality(S) - 1)
    BY <1>3, RankType
  <2> QED
    BY <1>1, <1>2, <2>1, <2>2
<1>4. \A y \in S : f >= y
  BY <1>3
<1> QED
  BY <1>4 DEF Max

-----------------------------------------------------------------------------
(* Quotient and remainder.                                                 *)
LEMMA Division ==
  ASSUME NEW n \in Nat, NEW d \in Nat \ {0}
  PROVE  /\ n \div d \in Nat /\ n % d \in 0..(d - 1)
         /\ n = d * (n \div d) + (n % d)
OBVIOUS

(* The quotient is the one number that fits.                               *)
LEMMA QuotientUnique ==
  ASSUME NEW n \in Nat, NEW d \in Nat \ {0}, NEW q \in Int, d * q <= n, n < d * q + d
  PROVE  n \div d = q
<1> DEFINE p == n \div d
<1>1. p \in Nat /\ d * p <= n /\ n < d * p + d
  BY Division
<1> HIDE DEF p
<1>2. ASSUME q < p PROVE FALSE
  <2>1. d * (q + 1) <= d * p
    BY <1>1, <1>2
  <2>2. d * (q + 1) = d * q + d
    OBVIOUS
  <2> QED
    BY <1>1, <2>1, <2>2
<1>3. ASSUME p < q PROVE FALSE
  <2>1. d * (p + 1) <= d * q
    BY <1>1, <1>3
  <2>2. d * (p + 1) = d * p + d
    BY <1>1
  <2> QED
    BY <1>1, <2>1, <2>2
<1>4. p = q
  BY <1>1, <1>2, <1>3
<1> QED
  BY <1>4 DEF p

(* Of d numbers in a row no two have the same remainder.                   *)
LEMMA RemainderInjective ==
  ASSUME NEW d \in Nat \ {0}, NEW m \in Nat, NEW n \in Nat,
         m <= n, n < m + d, m % d = n % d
  PROVE  m = n
<1> DEFINE p == m \div d
           q == n \div d
           r == n % d
<1>1. /\ p \in Nat /\ q \in Nat /\ r \in Nat
      /\ m = d * p + r /\ n = d * q + r
  <2>1. p \in Nat /\ m = d * p + (m % d)
    BY Division, Zenon
  <2>2. q \in Nat /\ n % d \in 0..(d - 1) /\ n = d * q + (n % d)
    BY Division, Zenon
  <2> QED
    BY <2>1, <2>2
<1> HIDE DEF p, q, r
<1>2. n - m = d * (q - p)
  <2>1. d * (q - p) = d * q - d * p
    BY <1>1
  <2> QED
    BY <1>1, <2>1
<1>3. ASSUME q - p >= 1 PROVE FALSE
  <2>1. d * (q - p) >= d * 1
    BY <1>1, <1>3
  <2> QED
    BY <1>2, <2>1
<1>4. ASSUME q - p <= -1 PROVE FALSE
  <2>1. d * (q - p) <= d * (-1)
    BY <1>1, <1>4
  <2> QED
    BY <1>2, <2>1
<1>5. q - p = 0
  BY <1>1, <1>3, <1>4
<1> QED
  BY <1>2, <1>5

(* Remainders repeat.                                                      *)
LEMMA RemainderPeriodic ==
  ASSUME NEW n \in Nat, NEW d \in Nat \ {0}
  PROVE  (n + d) % d = n % d
<1> DEFINE q == n \div d
           r == n % d
           m == n + d
           k == q + 1
<1>1. q \in Nat /\ r \in 0..(d - 1) /\ n = d * q + r
  BY Division, Zenon
<1>2. m \in Nat
  OBVIOUS
<1>3. m \div d \in Nat /\ m % d \in 0..(d - 1) /\ m = d * (m \div d) + (m % d)
  BY <1>2, Division, Zenon
<1>4. d * k = d * q + d
  BY <1>1
<1>5. k \in Int /\ d * k <= m /\ m < d * k + d
  BY <1>1, <1>4
<1> HIDE DEF q, r, m, k
<1>6. m \div d = k
  BY <1>2, <1>5, QuotientUnique, Zenon
<1>7. m % d = r
  BY <1>1, <1>3, <1>4, <1>6 DEF m
<1> QED
  BY <1>7 DEF m, r

(* The place after i in a circle of d.                                     *)
LEMMA NextAround ==
  ASSUME NEW d \in Nat \ {0}, NEW i \in 1..d
  PROVE  i % d = IF i = d THEN 0 ELSE i
<1>1. i \in Nat /\ i % d \in 0..(d - 1) /\ i = d * (i \div d) + (i % d)
  BY Division
<1>2. CASE i = d
  <2>1. d * 1 <= i /\ i < d * 1 + d /\ 1 \in Int
    BY <1>2
  <2>2. i \div d = 1
    BY <1>1, <2>1, QuotientUnique
  <2> QED
    BY <1>1, <1>2, <2>2
<1>3. CASE i # d
  <2>1. d * 0 <= i /\ i < d * 0 + d /\ 0 \in Int
    BY <1>3
  <2>2. i \div d = 0
    BY <1>1, <2>1, QuotientUnique
  <2> QED
    BY <1>1, <1>3, <2>2
<1> QED
  BY <1>2, <1>3

(* Halving the quotient is dividing by twice the number.                   *)
LEMMA HalfQuotient ==
  ASSUME NEW n \in Nat, NEW d \in Nat \ {0}
  PROVE  n \div (2 * d) = (n \div d) \div 2
<1> DEFINE a == n \div d
           r == n % d
           b == a \div 2
           e == a % 2
           f == 2 * d
<1>1. a \in Nat /\ r \in 0..(d - 1) /\ n = d * a + r
  BY Division
<1> HIDE DEF a, r
<1>2. b \in Nat /\ e \in 0..1 /\ a = 2 * b + e
  BY <1>1
<1> HIDE DEF b, e
<1>3. d * a = f * b + d * e
  <2>1. d * a = d * (2 * b) + d * e
    BY <1>1, <1>2
  <2>2. d * (2 * b) = (2 * d) * b
    BY <1>2
  <2> QED
    BY <2>1, <2>2
<1>4. d * e <= d
  <2>1. CASE e = 0
    BY <2>1
  <2>2. CASE e = 1
    BY <2>2
  <2> QED
    BY <1>2, <2>1, <2>2
<1>5. f * b <= n /\ n < f * b + f /\ f \in Nat \ {0}
  <2>1. f * b \in Int /\ d * e \in Int /\ d * e >= 0
    BY <1>2
  <2> QED
    BY <1>1, <1>3, <1>4, <2>1
<1> HIDE DEF f
<1>6. n \div f = b
  BY <1>2, <1>5, QuotientUnique
<1> QED
  BY <1>6 DEF f, a, b

-----------------------------------------------------------------------------
(* Powers of two, from the number of subsets of a set.                     *)
LEMMA PowerStep ==
  ASSUME NEW n \in Nat
  PROVE  2^n \in Nat \ {0} /\ 2^(n+1) = 2 * 2^n
<1> DEFINE S == 1..n
           x == n + 1
           A == SUBSET S
           B == {T \cup {x} : T \in A}
           f == [T \in A |-> T \cup {x}]
<1>1. IsFiniteSet(S) /\ Cardinality(S) = n /\ x \notin S
      /\ IsFiniteSet(1..x) /\ Cardinality(1..x) = x
  BY FS_Interval
<1>2. IsFiniteSet(A) /\ Cardinality(A) = 2^n /\ Cardinality(SUBSET (1..x)) = 2^x
  BY <1>1, FS_SUBSET
<1>3. SUBSET (1..x) = A \cup B
  <2>1. 1..x = S \cup {x}
    OBVIOUS
  <2>2. ASSUME NEW T \in SUBSET (S \cup {x}) PROVE T \in A \cup B
    <3>1. CASE x \in T
      <4>1. T = (T \ {x}) \cup {x} /\ T \ {x} \in A
        BY <2>2, <3>1
      <4> QED
        BY <4>1
    <3>2. CASE x \notin T
      BY <2>2, <3>2
    <3> QED
      BY <3>1, <3>2
  <2>3. ASSUME NEW T \in A \cup B PROVE T \in SUBSET (S \cup {x})
    BY <2>3
  <2> QED
    BY <2>1, <2>2, <2>3
<1>4. A \cap B = {}
  BY <1>1
<1>5. f \in Bijection(A, B)
  <2>1. f \in [A -> B]
    OBVIOUS
  <2>2. \A T, U \in A : f[T] = f[U] => T = U
    <3> SUFFICES ASSUME NEW T \in A, NEW U \in A, T \cup {x} = U \cup {x} PROVE T = U
      OBVIOUS
    <3>1. x \notin T /\ x \notin U
      BY <1>1
    <3> QED
      BY <3>1
  <2>3. \A V \in B : \E T \in A : f[T] = V
    OBVIOUS
  <2> HIDE DEF f, A, B
  <2> QED
    BY <2>1, <2>2, <2>3 DEF Bijection, Injection, IsInjective, Surjection
<1>6. IsFiniteSet(B) /\ Cardinality(B) = 2^n
  <2> HIDE DEF A, B, f
  <2>1. ExistsBijection(A, B)
    BY <1>5 DEF ExistsBijection
  <2> QED
    BY <1>2, <2>1, FS_Bijection
<1> HIDE DEF A, B, f, S, x
<1>7. Cardinality(A \cup B) = Cardinality(A) + Cardinality(B) - Cardinality(A \cap B)
  BY <1>2, <1>6, FS_Union
<1>8. Cardinality(A \cap B) = 0
  BY <1>4, FS_EmptySet
<1>9. Cardinality(A) \in Nat /\ Cardinality(A) # 0
  <2>1. {} \in A
    BY DEF A
  <2> QED
    BY <1>2, <2>1, FS_CardinalityType, FS_EmptySet
<1> DEFINE P == 2^n
           R == 2^x
           I == Cardinality(A \cap B)
           U == Cardinality(A \cup B)
<1>10. R = U /\ U = P + P - I /\ I = 0
  BY <1>2, <1>3, <1>6, <1>7, <1>8
<1>11. P \in Nat \ {0}
  BY <1>2, <1>9
<1> HIDE DEF P, R, I, U
<1>12. R = 2 * P
  BY <1>10, <1>11
<1> QED
  BY <1>11, <1>12 DEF P, R, x

(* A smaller power of two divides a larger one.                            *)
LEMMA PowerDivides ==
  ASSUME NEW m \in Nat, NEW n \in Nat, m <= n
  PROVE  \E k \in Nat \ {0} : 2^n = 2^m * k
<1> DEFINE S == {j \in Nat : m <= j /\ ~\E k \in Nat \ {0} : 2^j = 2^m * k}
<1>1. SUFFICES ASSUME n \in S PROVE FALSE
  OBVIOUS
<1> DEFINE j == Min(S)
<1>2. j \in S /\ \A y \in S : j <= y
  <2>1. S \in SUBSET Nat /\ S # {}
    BY <1>1
  <2> QED
    BY <2>1, MinIsLeast
<1> HIDE DEF j
<1>3. 2^m = 2^m * 1
  BY PowerStep
<1>4. j # m
  BY <1>2, <1>3
<1>5. j - 1 \in Nat /\ m <= j - 1 /\ j - 1 \notin S /\ (j - 1) + 1 = j
  <2>1. j \in Nat /\ m <= j
    BY <1>2
  <2>2. j - 1 \in Nat /\ m <= j - 1 /\ ~(j <= j - 1)
    BY <1>4, <2>1
  <2> HIDE DEF S
  <2> QED
    BY <1>2, <2>1, <2>2
<1>6. PICK k \in Nat \ {0} : 2^(j-1) = 2^m * k
  BY <1>5
<1>7. 2^j = 2 * 2^(j-1)
  BY <1>5, PowerStep
<1>8. 2^j = 2^m * (2 * k) /\ 2 * k \in Nat \ {0}
  <2>1. 2^m \in Nat
    BY PowerStep
  <2>2. 2 * (2^m * k) = 2^m * (2 * k)
    BY <2>1
  <2> QED
    BY <1>6, <1>7, <2>2
<1> QED
  BY <1>2, <1>8

(* p and q have the same quotient by 2^o.                                  *)
Same(p, q, o) == p \div 2^o = q \div 2^o

(* Then they have the same quotient by the larger powers.                  *)
LEMMA SameCoarser ==
  ASSUME NEW p \in Nat, NEW q \in Nat, NEW m \in Nat, NEW n \in Nat, m <= n,
         Same(p, q, m)
  PROVE  Same(p, q, n)
<1> DEFINE S == {j \in Nat : m <= j /\ p \div 2^j # q \div 2^j}
<1>1. SUFFICES ASSUME n \in S PROVE FALSE
  BY DEF Same
<1> DEFINE j == Min(S)
<1>2. j \in S /\ \A y \in S : j <= y
  <2>1. S \in SUBSET Nat /\ S # {}
    BY <1>1
  <2> QED
    BY <2>1, MinIsLeast
<1> HIDE DEF j
<1>3. j # m
  BY <1>2 DEF Same
<1> DEFINE i == j - 1
<1>4. i \in Nat /\ m <= i /\ i \notin S /\ i + 1 = j
  BY <1>2, <1>3
<1>5. p \div 2^i = q \div 2^i
  BY <1>4
<1> HIDE DEF i
<1>6. 2^i \in Nat \ {0} /\ 2^j = 2 * 2^i
  BY <1>4, PowerStep
<1>7. p \div 2^j = (p \div 2^i) \div 2 /\ q \div 2^j = (q \div 2^i) \div 2
  BY <1>6, HalfQuotient
<1> QED
  BY <1>2, <1>5, <1>7

-----------------------------------------------------------------------------
(* Recursion over numbers and over the sets Fold goes through. The         *)
(* functions are there, whatever their step does.                          *)

(* Induction up to n, for a set.                                           *)
LEMMA UpTo ==
  ASSUME NEW n \in Nat, NEW S, 0 \in S, \A k \in 1..n : k - 1 \in S => k \in S
  PROVE  \A k \in 0..n : k \in S
<1> DEFINE M == {k \in 0..n : k \notin S}
           m == Min(M)
<1>1. SUFFICES ASSUME M # {} PROVE FALSE
  OBVIOUS
<1>2. m \in M /\ \A y \in M : m <= y
  <2>1. M \in SUBSET Nat
    OBVIOUS
  <2> QED
    BY <1>1, <2>1, MinIsLeast
<1> HIDE DEF m
<1>3. m \in 1..n /\ m - 1 \in 0..n /\ m \notin S
  BY <1>2
<1>4. m - 1 \notin M
  BY <1>2, <1>3
<1>5. m - 1 \in S
  BY <1>3, <1>4
<1> QED
  BY <1>3, <1>5

(* g goes on from b with the step F, up to n.                              *)
Iterated(T, b, n, F, g) ==
  g \in [0..n -> T] /\ g[0] = b /\ \A k \in 1..n : g[k] = F[<<k, g[k - 1]>>]
LEMMA Iterates ==
  ASSUME NEW T, NEW b, NEW n, NEW F, b \in T, n \in Nat, F \in [(1..n) \X T -> T]
  PROVE  \E g : Iterated(T, b, n, F, g)
<1> DEFINE Good(k, g) == g \in [0..k -> T] /\ g[0] = b /\ \A i \in 1..k : g[i] = F[<<i, g[i - 1]>>]
           S == {k \in 0..n : \E g : Good(k, g)}
<1>1. 0 \in S
  <2>1. Good(0, [i \in 0..0 |-> b])
    OBVIOUS
  <2>2. \E g : Good(0, g)
    BY <2>1, Zenon
  <2> QED
    BY <2>2
<1>2. ASSUME NEW k \in 1..n, k - 1 \in S PROVE k \in S
  <2>1. PICK g : Good(k - 1, g)
    BY <1>2
  <2> DEFINE f == [i \in 0..k |-> IF i = k THEN F[<<k, g[k - 1]>>] ELSE g[i]]
  <2>2. g[k - 1] \in T /\ F[<<k, g[k - 1]>>] \in T
    BY <2>1
  <2>3. f \in [0..k -> T]
    <3> SUFFICES ASSUME NEW i \in 0..k PROVE f[i] \in T
      OBVIOUS
    <3>1. CASE i = k
      BY <2>2, <3>1
    <3>2. CASE i # k
      BY <2>1, <3>2
    <3> QED
      BY <3>1, <3>2
  <2>4. f[0] = b
    BY <2>1
  <2>5. ASSUME NEW i \in 1..k PROVE f[i] = F[<<i, f[i - 1]>>]
    <3>1. i - 1 \in 0..k /\ i - 1 # k /\ f[i - 1] = g[i - 1]
      OBVIOUS
    <3>2. CASE i = k
      BY <3>1, <3>2
    <3>3. CASE i # k
      BY <2>1, <3>1, <3>3
    <3> QED
      BY <3>2, <3>3
  <2> HIDE DEF f
  <2>6. Good(k, f)
    BY <2>3, <2>4, <2>5
  <2>7. \E g1 : Good(k, g1)
    BY <2>6, Zenon
  <2> QED
    BY <2>7
<1> HIDE DEF S
<1>3. n \in S
  BY <1>1, <1>2, UpTo
<1> QED
  BY <1>3 DEF S, Iterated

LEMMA IntervalMax ==
  ASSUME NEW k \in Nat \ {0}
  PROVE  Max(1..k) = k /\ 1..k # {} /\ (1..k) \ {k} = 1..(k - 1)
<1>1. 1..k \in SUBSET Nat /\ 1..k # {} /\ IsFiniteSet(1..k) /\ k \in 1..k
  <2>1. 1 \in Int /\ k \in Int /\ k \in 1..k
    OBVIOUS
  <2>2. IsFiniteSet(1..k)
    BY <2>1, FS_Interval
  <2> QED
    BY <2>1, <2>2
<1>2. Max(1..k) \in 1..k /\ \A y \in 1..k : y <= Max(1..k)
  BY <1>1, MaxIsGreatest
<1> DEFINE m == Max(1..k)
<1>3. m \in 1..k /\ k <= m
  BY <1>1, <1>2
<1> HIDE DEF m
<1>4. m = k
  BY <1>3
<1>5. (1..k) \ {k} = 1..(k - 1)
  OBVIOUS
<1> QED
  BY <1>1, <1>4, <1>5 DEF m

LEMMA MaxOfPart ==
  ASSUME NEW n \in Nat, NEW s, s \in SUBSET (1..n), s # {}
  PROVE  Max(s) \in s /\ Max(s) \in 1..n /\ s \ {Max(s)} \in SUBSET (1..n)
<1>1. IsFiniteSet(1..n) /\ s \subseteq 1..n
  BY FS_Interval
<1>2. IsFiniteSet(s)
  BY <1>1, FS_Subset
<1>3. s \in SUBSET Nat
  OBVIOUS
<1>4. Max(s) \in s
  BY <1>2, <1>3, MaxIsGreatest
<1> QED
  BY <1>1, <1>4

(* g goes through the elements of a set of numbers from its least to its   *)
(* greatest, from b.                                                       *)
Folded(T, b, n, F, g) ==
  /\ g \in [SUBSET (1..n) -> T]
  /\ \A s \in SUBSET (1..n) : g[s] = IF s = {} THEN b ELSE F[<<g[s \ {Max(s)}], Max(s)>>]
LEMMA FoldExists ==
  ASSUME NEW T, NEW b, NEW n, NEW F, b \in T, n \in Nat, F \in [T \X (1..n) -> T]
  PROVE  \E g : Folded(T, b, n, F, g)
<1> DEFINE N == 1..n
           U == SUBSET N
           V == [U -> T]
           Up(k, f) == [s \in U |-> IF s # {} /\ Max(s) = k THEN F[<<f[s \ {k}], k>>] ELSE f[s]]
           H == [p \in N \X V |-> Up(p[1], p[2])]
           c == [s \in U |-> b]
<1>1. ASSUME NEW s \in U, s # {} PROVE Max(s) \in s /\ \A y \in s : y <= Max(s)
  <2>1. s \in SUBSET Nat /\ IsFiniteSet(N) /\ s \subseteq N
    BY FS_Interval
  <2>2. IsFiniteSet(s)
    BY <2>1, FS_Subset
  <2> QED
    BY <1>1, <2>1, <2>2, MaxIsGreatest
<1>2. c \in V
  OBVIOUS
<1>3. ASSUME NEW k \in N, NEW f \in V PROVE Up(k, f) \in V
  <2> SUFFICES ASSUME NEW s \in U
               PROVE  (IF s # {} /\ Max(s) = k THEN F[<<f[s \ {k}], k>>] ELSE f[s]) \in T
    OBVIOUS
  <2>1. s \ {k} \in U
    OBVIOUS
  <2>2. f[s \ {k}] \in T /\ f[s] \in T
    BY <2>1
  <2>3. F[<<f[s \ {k}], k>>] \in T
    BY <2>2
  <2> QED
    BY <2>2, <2>3
<1>4. H \in [N \X V -> V]
  <2> HIDE DEF V, N
  <2> SUFFICES ASSUME NEW p \in N \X V PROVE Up(p[1], p[2]) \in V
    BY Zenon
  <2> QED
    BY <1>3
<1>5. PICK G \in [0..n -> V] : G[0] = c /\ \A k \in 1..n : G[k] = H[<<k, G[k - 1]>>]
  <2> HIDE DEF V, H, c
  <2>1. c \in V /\ n \in Nat /\ H \in [(1..n) \X V -> V]
    BY <1>2, <1>4
  <2>2. \E g : Iterated(V, c, n, H, g)
    BY <2>1, Iterates
  <2> QED
    BY <2>2 DEF Iterated
<1>6. ASSUME NEW k \in 1..n
      PROVE  G[k] = Up(k, G[k - 1])
  <2>1. k - 1 \in 0..n
    OBVIOUS
  <2>2. <<k, G[k - 1]>> \in N \X V
    BY <2>1
  <2> HIDE DEF V, N
  <2> QED
    BY <1>5, <2>2
<1> DEFINE S == {k \in 0..n : \A j \in 0..k : \A s \in U : s \subseteq 1..j => G[k][s] = G[j][s]}
<1>7. \A k \in 0..n : k \in S
  <2>1. 0 \in S
    OBVIOUS
  <2>2. ASSUME NEW k \in 1..n, k - 1 \in S PROVE k \in S
    <3> SUFFICES ASSUME NEW j \in 0..k, NEW s \in U, s \subseteq 1..j PROVE G[k][s] = G[j][s]
      OBVIOUS
    <3>1. CASE j = k
      BY <3>1
    <3>2. CASE j # k
      <4>1. j \in 0..(k - 1) /\ G[k - 1][s] = G[j][s]
        BY <2>2, <3>2
      <4>2. ~(s # {} /\ Max(s) = k)
        BY <1>1, <4>1
      <4> HIDE DEF U
      <4> QED
        BY <1>6, <4>1, <4>2
    <3> QED
      BY <3>1, <3>2
  <2> HIDE DEF S
  <2> QED
    BY <2>1, <2>2, UpTo
<1>8. ASSUME NEW s \in U
      PROVE  G[n][s] = IF s = {} THEN b ELSE F[<<G[n][s \ {Max(s)}], Max(s)>>]
  <2>1. n \in S
    BY <1>7
  <2>2. CASE s = {}
    <3>1. G[n][s] = G[0][s]
      BY <2>1, <2>2
    <3> QED
      BY <1>5, <2>2, <3>1
  <2>3. CASE s # {}
    <3> DEFINE m == Max(s)
    <3>1. m \in s /\ \A y \in s : y <= m
      BY <1>1, <2>3
    <3> HIDE DEF m
    <3>2. m \in 1..n /\ m - 1 \in 0..n /\ s \subseteq 1..m /\ s \ {m} \subseteq 1..(m - 1)
      BY <3>1
    <3>3. G[n][s] = G[m][s] /\ G[n][s \ {m}] = G[m - 1][s \ {m}]
      <4>1. s \ {m} \in U /\ m \in 0..n
        BY <3>2
      <4>2. G[n][s] = G[m][s]
        BY <2>1, <3>2, <4>1
      <4>3. G[n][s \ {m}] = G[m - 1][s \ {m}]
        BY <2>1, <3>2, <4>1
      <4> QED
        BY <4>2, <4>3
    <3>4. G[m][s] = F[<<G[m - 1][s \ {m}], m>>]
      <4>1. G[m] = Up(m, G[m - 1]) /\ Max(s) = m
        BY <1>6, <3>2 DEF m
      <4> HIDE DEF U
      <4> QED
        BY <2>3, <4>1
    <3>5. G[n][s] = F[<<G[n][s \ {m}], m>>]
      BY <3>3, <3>4
    <3> QED
      BY <2>3, <3>5 DEF m
  <2> QED
    BY <2>2, <2>3
<1>9. G[n] \in V
  BY <1>5
<1> HIDE DEF U, V
<1>10. Folded(T, b, n, F, G[n])
  BY <1>8, <1>9 DEF Folded, U, V
<1> QED
  BY <1>10
=============================================================================
