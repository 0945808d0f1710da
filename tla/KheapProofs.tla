---------------------------- MODULE KheapProofs ----------------------------
(***************************************************************************)
(* Theorems about Kheap for a heap of any size, any page size and any      *)
(* caches: the blocks of the buddy allocator always tile the heap, the     *)
(* slabs agree with the objects in use, and kmalloc and kfree implement    *)
(* Allocator.                                                              *)
(***************************************************************************)
EXTENDS Kheap, NatSets, SequenceTheorems, TLAPS

-----------------------------------------------------------------------------
(* Lists without repetition.                                               *)

Listing(s, S) == s \in Seq(S) /\ \A i, j \in 1..Len(s) : s[i] = s[j] => i = j

LEMMA ListElements ==
  ASSUME NEW S, NEW s \in Seq(S)
  PROVE  /\ Len(s) \in Nat /\ ToSet(s) \subseteq S
         /\ \A x : x \in ToSet(s) <=> \E i \in 1..Len(s) : s[i] = x
         /\ ToSet(s) = {} <=> s = <<>>
BY DEF ToSet

LEMMA ListCons ==
  ASSUME NEW S, NEW s, Listing(s, S), NEW x \in S, x \notin ToSet(s)
  PROVE  /\ Listing(Cons(x, s), S) /\ ToSet(Cons(x, s)) = ToSet(s) \cup {x}
         /\ Len(Cons(x, s)) = Len(s) + 1
<1> DEFINE t == Cons(x, s)
<1>1. s \in Seq(S) /\ \A i, j \in 1..Len(s) : s[i] = s[j] => i = j
  BY DEF Listing
<1>2. t \in Seq(S) /\ Len(t) = Len(s) + 1
      /\ \A i \in 1..Len(t) : t[i] = IF i = 1 THEN x ELSE s[i-1]
  BY <1>1 DEF Cons
<1>3. Len(s) \in Nat /\ \A y : y \in ToSet(s) <=> \E i \in 1..Len(s) : s[i] = y
  BY <1>1, ListElements
<1>4. \A y : y \in ToSet(t) <=> \E i \in 1..Len(t) : t[i] = y
  BY <1>2, ListElements
<1> HIDE DEF t
<1>5. \A i, j \in 1..Len(t) : t[i] = t[j] => i = j
  <2> SUFFICES ASSUME NEW i \in 1..Len(t), NEW j \in 1..Len(t), t[i] = t[j] PROVE i = j
    OBVIOUS
  <2>1. \A k \in 1..Len(t) : k # 1 => k - 1 \in 1..Len(s)
    BY <1>2, <1>3
  <2>2. CASE i = 1 \/ j = 1
    BY <1>2, <1>3, <2>1, <2>2
  <2>3. CASE i # 1 /\ j # 1
    <3>1. i - 1 = j - 1
      BY <1>1, <1>2, <2>1, <2>3
    <3> QED
      BY <3>1
  <2> QED
    BY <2>2, <2>3
<1>6. ASSUME NEW y PROVE y \in ToSet(t) <=> y \in ToSet(s) \cup {x}
  <2>1. y = x => y \in ToSet(t)
    <3>1. 1 \in 1..Len(t) /\ t[1] = x
      BY <1>2, <1>3
    <3> QED
      BY <1>4, <3>1
  <2>2. ASSUME y \in ToSet(s) PROVE y \in ToSet(t)
    <3>1. PICK i \in 1..Len(s) : s[i] = y
      BY <1>3, <2>2
    <3>2. i + 1 \in 1..Len(t) /\ i + 1 # 1 /\ (i + 1) - 1 = i
      BY <1>2, <1>3
    <3>3. t[i + 1] = y
      BY <1>2, <3>1, <3>2
    <3> QED
      BY <1>4, <3>2, <3>3
  <2>3. ASSUME y \in ToSet(t), y # x PROVE y \in ToSet(s)
    <3>1. PICK i \in 1..Len(t) : t[i] = y
      BY <1>4, <2>3
    <3>2. i # 1 /\ i - 1 \in 1..Len(s) /\ s[i-1] = y
      BY <1>2, <1>3, <2>3, <3>1
    <3> QED
      BY <1>3, <3>2
  <2> QED
    BY <2>1, <2>2, <2>3
<1> QED
  BY <1>2, <1>5, <1>6 DEF Listing, t

(* Taking out the element at index k.                                      *)
LEMMA ListTakeAt ==
  ASSUME NEW S, NEW s, Listing(s, S), NEW k \in 1..Len(s), NEW t \in Seq(S),
         Len(t) = Len(s) - 1,
         \A i \in 1..Len(t) : t[i] = IF i < k THEN s[i] ELSE s[i+1]
  PROVE  Listing(t, S) /\ ToSet(t) = ToSet(s) \ {s[k]}
<1>1. s \in Seq(S) /\ \A i, j \in 1..Len(s) : s[i] = s[j] => i = j
  BY DEF Listing
<1>2. Len(s) \in Nat /\ \A y : y \in ToSet(s) <=> \E i \in 1..Len(s) : s[i] = y
  BY <1>1, ListElements
<1>3. \A y : y \in ToSet(t) <=> \E i \in 1..Len(t) : t[i] = y
  BY ListElements
<1> DEFINE f(i) == IF i < k THEN i ELSE i + 1
<1>4. \A i \in 1..Len(t) : f(i) \in 1..Len(s) /\ f(i) # k /\ t[i] = s[f(i)]
  BY <1>2
<1>5. \A i, j \in 1..Len(t) : f(i) = f(j) => i = j
  BY <1>2
<1>6. \A h \in 1..Len(s) : h # k => \E i \in 1..Len(t) : f(i) = h
  <2> SUFFICES ASSUME NEW h \in 1..Len(s), h # k PROVE \E i \in 1..Len(t) : f(i) = h
    OBVIOUS
  <2>1. CASE h < k
    <3>1. h \in 1..Len(t) /\ f(h) = h
      BY <1>2, <2>1
    <3> QED
      BY <3>1
  <2>2. CASE h > k
    <3>1. h - 1 \in 1..Len(t) /\ f(h - 1) = h
      BY <1>2, <2>2
    <3> QED
      BY <3>1
  <2> QED
    BY <2>1, <2>2
<1> HIDE DEF f
<1>7. \A i, j \in 1..Len(t) : t[i] = t[j] => i = j
  BY <1>1, <1>4, <1>5
<1>8. ASSUME NEW y PROVE y \in ToSet(t) <=> y \in ToSet(s) /\ y # s[k]
  <2>1. ASSUME y \in ToSet(t) PROVE y \in ToSet(s) /\ y # s[k]
    <3>1. PICK i \in 1..Len(t) : t[i] = y
      BY <1>3, <2>1
    <3> QED
      BY <1>1, <1>2, <1>4, <3>1
  <2>2. ASSUME y \in ToSet(s), y # s[k] PROVE y \in ToSet(t)
    <3>1. PICK h \in 1..Len(s) : s[h] = y
      BY <1>2, <2>2
    <3>2. PICK i \in 1..Len(t) : f(i) = h
      BY <1>6, <2>2, <3>1
    <3> QED
      BY <1>3, <1>4, <3>1, <3>2
  <2> QED
    BY <2>1, <2>2
<1> QED
  BY <1>7, <1>8 DEF Listing

LEMMA ListTail ==
  ASSUME NEW S, NEW s, Listing(s, S), s # <<>>
  PROVE  /\ Head(s) \in ToSet(s) /\ Listing(Tail(s), S)
         /\ ToSet(Tail(s)) = ToSet(s) \ {Head(s)} /\ Len(Tail(s)) = Len(s) - 1
<1>1. s \in Seq(S)
  BY DEF Listing
<1>2. Len(s) \in Nat \ {0} /\ Head(s) = s[1]
  BY <1>1
<1>3. /\ Tail(s) \in Seq(S) /\ Len(Tail(s)) = Len(s) - 1
      /\ \A i \in 1..Len(Tail(s)) : Tail(s)[i] = s[i+1]
  BY <1>1, HeadTailProperties
<1>4. 1 \in 1..Len(s)
  BY <1>2
<1> DEFINE t == Tail(s)
<1> HIDE DEF t
<1>5. t \in Seq(S) /\ Len(t) = Len(s) - 1
      /\ \A i \in 1..Len(t) : t[i] = IF i < 1 THEN s[i] ELSE s[i+1]
  BY <1>2, <1>3 DEF t
<1>6. Listing(t, S) /\ ToSet(t) = ToSet(s) \ {s[1]}
  BY ONLY <1>4, <1>5, Listing(s, S), ListTakeAt
<1>7. Head(s) \in ToSet(s)
  BY <1>1, <1>2, <1>4, ListElements
<1> QED
  BY <1>2, <1>3, <1>6, <1>7 DEF t

LEMMA ListRemove ==
  ASSUME NEW S, NEW s, Listing(s, S), NEW x \in ToSet(s)
  PROVE  /\ Listing(RemoveFirst(s, x), S)
         /\ ToSet(RemoveFirst(s, x)) = ToSet(s) \ {x}
<1>1. s \in Seq(S) /\ \A i, j \in 1..Len(s) : s[i] = s[j] => i = j
  BY DEF Listing
<1>2. Len(s) \in Nat
  BY <1>1
<1>3. PICK k \in 1..Len(s) : s[k] = x
  BY <1>1, ListElements
<1>4. {i \in 1..Len(s) : s[i] = x} = {k}
  BY <1>1, <1>3
<1>5. Min({k}) = k
  BY <1>2 DEF Min
<1>6. SelectInSeq(s, LAMBDA v : v = x) = k
  BY <1>3, <1>4, <1>5 DEF SelectInSeq
<1>7. RemoveFirst(s, x) = RemoveAt(s, k)
  BY <1>3, <1>6 DEF RemoveFirst
<1> DEFINE a == SubSeq(s, 1, k-1)
           b == SubSeq(s, k+1, Len(s))
           t == RemoveAt(s, k)
<1>8. t = a \o b
  BY DEF RemoveAt
<1>9. a \in Seq(S) /\ Len(a) = k - 1 /\ \A i \in 1..(k-1) : a[i] = s[i]
  BY <1>1, <1>2
<1>10. /\ b \in Seq(S) /\ Len(b) = Len(s) - k
       /\ \A i \in 1..(Len(s) - k) : b[i] = s[k+i]
  BY <1>1, <1>2
<1> HIDE DEF a, b
<1>11. t \in Seq(S) /\ Len(t) = Len(s) - 1
       /\ \A i \in 1..Len(t) : t[i] = IF i <= k - 1 THEN a[i] ELSE b[i - (k-1)]
  <2>1. /\ a \o b \in Seq(S) /\ Len(a \o b) = Len(a) + Len(b)
        /\ \A i \in 1..(Len(a) + Len(b)) : (a \o b)[i] = IF i <= Len(a) THEN a[i]
                                                       ELSE b[i - Len(a)]
    BY <1>9, <1>10, ConcatProperties
  <2>2. Len(a) + Len(b) = Len(s) - 1
    BY <1>2, <1>9, <1>10
  <2> HIDE DEF t
  <2> QED
    BY <1>8, <1>9, <2>1, <2>2
<1>12. ASSUME NEW i \in 1..Len(t) PROVE t[i] = IF i < k THEN s[i] ELSE s[i+1]
  <2>1. CASE i < k
    BY <1>2, <1>9, <1>11, <2>1
  <2>2. CASE ~(i < k)
    <3>1. i - (k-1) \in 1..(Len(s) - k) /\ ~(i <= k-1) /\ k + (i - (k-1)) = i + 1
      BY <1>2, <1>11, <2>2
    <3>2. t[i] = b[i - (k-1)]
      BY <1>11, <3>1
    <3>3. b[i - (k-1)] = s[k + (i - (k-1))]
      BY <1>10, <3>1
    <3> QED
      BY <2>2, <3>1, <3>2, <3>3
  <2> QED
    BY <2>1, <2>2
<1> HIDE DEF t
<1>13. Listing(t, S) /\ ToSet(t) = ToSet(s) \ {s[k]}
  <2>1. t \in Seq(S) /\ Len(t) = Len(s) - 1
    BY <1>11
  <2>2. \A i \in 1..Len(t) : t[i] = IF i < k THEN s[i] ELSE s[i+1]
    BY <1>12
  <2> QED
    BY ONLY k \in 1..Len(s), <2>1, <2>2, Listing(s, S), ListTakeAt
<1> QED
  BY <1>3, <1>7, <1>13 DEF t

(* A list has as many elements as its length says.                         *)
LEMMA ListSize ==
  ASSUME NEW S, NEW s, Listing(s, S)
  PROVE  IsFiniteSet(ToSet(s)) /\ Cardinality(ToSet(s)) = Len(s)
<1> DEFINE N == 1..Len(s)
           R == ToSet(s)
<1>1. s \in Seq(S) /\ Len(s) \in Nat /\ \A i, j \in N : s[i] = s[j] => i = j
  BY DEF Listing
<1>2. s \in [N -> R] /\ \A x \in R : \E i \in N : s[i] = x
  BY <1>1 DEF ToSet
<1>4. IsFiniteSet(N) /\ Cardinality(N) = Len(s)
  <2>1. Len(s) \in Int /\ 1 \in Int /\ (1 > Len(s) => Len(s) = 0) /\ Len(s) - 1 + 1 = Len(s)
    BY <1>1
  <2>2. IsFiniteSet(N) /\ Cardinality(N) = IF 1 > Len(s) THEN 0 ELSE Len(s) - 1 + 1
    BY <2>1, FS_Interval
  <2> QED
    BY <2>1, <2>2
<1> HIDE DEF N, R
<1>3. s \in Bijection(N, R)
  BY <1>1, <1>2 DEF Bijection, Injection, Surjection, IsInjective
<1>5. IsFiniteSet(R) /\ Cardinality(R) = Len(s)
  BY <1>3, <1>4, FS_Bijection DEF ExistsBijection
<1> QED
  BY <1>5 DEF R

(* The only list of a single element.                                      *)
LEMMA ListSingle ==
  ASSUME NEW S, NEW s, Listing(s, S), NEW x, ToSet(s) = {x}
  PROVE  s = <<x>>
<1>1. s \in Seq(S) /\ Len(s) = 1
  BY ListSize, FS_Singleton DEF Listing
<1>2. s[1] = x
  <2>1. 1 \in 1..Len(s)
    BY <1>1
  <2>2. s[1] \in ToSet(s)
    BY <1>1, <2>1, ListElements
  <2> QED
    BY <2>2
<1> QED
  BY <1>1, <1>2

-----------------------------------------------------------------------------
(* Blocks. The block of order o that holds page p consists of the pages    *)
(* with the same quotient by 2^o.                                          *)

Aligned(p, o) == p % 2^o = 0

LEMMA SameEquivalence ==
  ASSUME NEW p, NEW q, NEW r, NEW o
  PROVE  /\ Same(p, p, o)
         /\ Same(p, q, o) => Same(q, p, o)
         /\ Same(p, q, o) /\ Same(q, r, o) => Same(p, r, o)
BY DEF Same

(* A number is aligned if it is a multiple.                                *)
LEMMA AlignedIs ==
  ASSUME NEW p \in Nat, NEW o \in Nat
  PROVE  /\ p \div 2^o \in Nat
         /\ Aligned(p, o) <=> p = 2^o * (p \div 2^o)
         /\ \A a \in Nat : p = 2^o * a => Aligned(p, o) /\ p \div 2^o = a
<1> DEFINE d == 2^o
           a == p \div d
           r == p % d
<1>1. d \in Nat \ {0}
  BY PowerStep
<1>2. a \in Nat /\ r \in 0..(d - 1) /\ p = d * a + r
  BY <1>1, Division
<1>3. r = 0 <=> p = d * a
  <2> HIDE DEF a, r, d
  <2>1. d * a \in Int
    BY <1>1, <1>2
  <2> QED
    BY <1>1, <1>2, <2>1
<1>4. ASSUME NEW b \in Nat, p = d * b PROVE p \div d = b
  <2> HIDE DEF d
  <2>1. b \in Int /\ d * b <= p /\ p < d * b + d
    BY <1>1, <1>4
  <2> QED
    BY <1>1, <2>1, QuotientUnique
<1>5. ASSUME NEW b \in Nat, p = d * b PROVE r = 0
  BY <1>3, <1>4, <1>5
<1> QED
  BY <1>2, <1>3, <1>4, <1>5 DEF Aligned

(* The pages of an aligned block are those with its quotient.              *)
LEMMA BlockIs ==
  ASSUME NEW p \in Nat, NEW q \in Nat, NEW o \in Nat, Aligned(p, o)
  PROVE  q \in BlockPages(p, o) <=> Same(q, p, o)
<1> DEFINE d == 2^o
           a == p \div d
<1>1. d \in Nat \ {0} /\ a \in Nat /\ p = d * a
  BY PowerStep, AlignedIs
<1>2. q \in BlockPages(p, o) <=> p <= q /\ q < p + d
  BY <1>1 DEF BlockPages
<1>3. ASSUME p <= q, q < p + d PROVE q \div d = a
  <2> HIDE DEF d, a
  <2> QED
    BY <1>1, <1>3, QuotientUnique
<1>4. ASSUME q \div d = a PROVE p <= q /\ q < p + d
  <2>1. q = d * (q \div d) + (q % d) /\ q % d \in 0..(d - 1)
    BY <1>1, Division
  <2> HIDE DEF d, a
  <2> QED
    BY <1>1, <1>4, <2>1
<1> QED
  BY <1>2, <1>3, <1>4 DEF Same

LEMMA AlignedSame ==
  ASSUME NEW p \in Nat, NEW q \in Nat, NEW o \in Nat,
         Aligned(p, o), Aligned(q, o), Same(p, q, o)
  PROVE  p = q
BY AlignedIs DEF Same

LEMMA AlignedFiner ==
  ASSUME NEW p \in Nat, NEW i \in Nat, NEW j \in Nat, i <= j, Aligned(p, j)
  PROVE  Aligned(p, i)
<1>1. PICK k \in Nat \ {0} : 2^j = 2^i * k
  BY PowerDivides
<1> DEFINE a == p \div 2^j
           d == 2^i
<1>2. a \in Nat /\ p = 2^j * a /\ d \in Nat \ {0}
  BY AlignedIs, PowerStep
<1>3. p = d * (k * a) /\ k * a \in Nat
  <2>1. p = (d * k) * a
    BY <1>1, <1>2
  <2> HIDE DEF a, d
  <2>2. (d * k) * a = d * (k * a)
    BY <1>1, <1>2
  <2>3. k * a \in Nat
    BY <1>1, <1>2
  <2> QED
    BY <2>1, <2>2, <2>3
<1> QED
  BY <1>3, AlignedIs

(* Grown(p, i) starts the block of order i that holds p.                   *)
LEMMA GrownIs ==
  ASSUME NEW p \in Nat, NEW i \in Nat
  PROVE  /\ Grown(p, i) \in Nat /\ Aligned(Grown(p, i), i) /\ Same(Grown(p, i), p, i)
         /\ Aligned(p, i) => Grown(p, i) = p
<1> DEFINE d == 2^i
           a == p \div d
           g == Grown(p, i)
<1>1. d \in Nat \ {0} /\ a \in Nat /\ p % d \in 0..(d - 1) /\ p = d * a + (p % d)
  BY PowerStep, Division
<1>2. g = p - (p % d)
  BY DEF Grown
<1>3. g = d * a /\ g \in Nat
  <2> HIDE DEF d, a, g
  <2>1. d * a \in Nat
    BY <1>1
  <2> QED
    BY <1>1, <1>2, <2>1
<1>4. Aligned(g, i) /\ g \div d = a
  <2> HIDE DEF a, g
  <2> QED
    BY <1>1, <1>3, AlignedIs
<1> QED
  BY <1>1, <1>2, <1>3, <1>4 DEF Same, Aligned

(* The buddy is the other half of the block twice as large.                *)
LEMMA BuddyIs ==
  ASSUME NEW p \in Nat, NEW i \in Nat, Aligned(p, i)
  PROVE  /\ Buddy(p, i) \in Nat /\ Aligned(Buddy(p, i), i)
         /\ Same(Buddy(p, i), p, i+1) /\ ~Same(Buddy(p, i), p, i)
         /\ Buddy(Buddy(p, i), i) = p
         /\ \A q \in Nat : Same(q, p, i+1) => Same(q, p, i) \/ Same(q, Buddy(p, i), i)
<1> DEFINE d == 2^i
           a == p \div d
           b == Buddy(p, i)
           c == IF a % 2 = 0 THEN a + 1 ELSE a - 1
<1>1. d \in Nat \ {0} /\ 2^(i+1) = 2 * d /\ a \in Nat /\ p = d * a
  BY PowerStep, AlignedIs
<1>2. c \in Nat /\ c # a /\ c \div 2 = a \div 2 /\ (c % 2 = 0 <=> a % 2 # 0)
      /\ \A x \in Nat : x \div 2 = a \div 2 => x = a \/ x = c
  <2> HIDE DEF a
  <2> QED
    BY <1>1
<1>3. b = IF a % 2 = 0 THEN p + d ELSE p - d
  BY DEF Buddy
<1>4. b = d * c
  <2> HIDE DEF d, a, b
  <2>1. d * (a + 1) = d * a + d /\ d * (a - 1) = d * a - d
    BY <1>1
  <2> QED
    BY <1>1, <1>3, <2>1
<1>5. b \in Nat
  <2> HIDE DEF d, b, c
  <2> QED
    BY <1>1, <1>2, <1>4
<1>6. Aligned(b, i) /\ b \div d = c
  <2> HIDE DEF b, c
  <2> QED
    BY <1>2, <1>4, <1>5, AlignedIs
<1>7. ASSUME NEW q \in Nat PROVE q \div 2^(i+1) = (q \div d) \div 2 /\ q \div d \in Nat
  BY <1>1, HalfQuotient, Division
<1>8. Same(b, p, i+1) /\ ~Same(b, p, i)
  <2>1. b \div 2^(i+1) = c \div 2 /\ p \div 2^(i+1) = a \div 2
    BY <1>5, <1>6, <1>7
  <2> HIDE DEF b, c
  <2> QED
    BY <1>2, <1>6, <2>1 DEF Same
<1>9. Buddy(b, i) = p
  <2>1. Buddy(b, i) = IF c % 2 = 0 THEN b + d ELSE b - d
    <3> HIDE DEF b, c
    <3> QED
      BY <1>6 DEF Buddy
  <2>2. a % 2 = 0 \/ a % 2 # 0
    OBVIOUS
  <2>3. d \in Int /\ p \in Int
    BY <1>1
  <2> HIDE DEF b, a, d, c
  <2> QED
    BY <1>2, <1>3, <2>1, <2>2, <2>3
<1>10. ASSUME NEW q \in Nat, Same(q, p, i+1) PROVE Same(q, p, i) \/ Same(q, b, i)
  <2>1. (q \div d) \div 2 = a \div 2 /\ q \div d \in Nat
    BY <1>7, <1>10 DEF Same
  <2>2. q \div d = a \/ q \div d = c
    BY <1>2, <2>1
  <2> QED
    BY <1>6, <2>2 DEF Same
<1> QED
  BY <1>5, <1>6, <1>8, <1>9, <1>10

(* The heap is one block of the largest order.                             *)
LEMMA HeapIs ==
  /\ MaxOrder \in Nat /\ Pages \subseteq Nat /\ 0 \in Pages /\ Aligned(0, MaxOrder)
  /\ \A q \in Nat : q \in Pages <=> Same(q, 0, MaxOrder)
  /\ \A q \in Pages : Index(q) = q
<1>1. MaxOrder \in Nat /\ 2^MaxOrder \in Nat \ {0}
  BY HeapShape, PowerStep
<1>2. Pages \subseteq Nat /\ 0 \in Pages
  BY <1>1 DEF Pages
<1>3. Aligned(0, MaxOrder)
  <2>1. 0 = 2^MaxOrder * 0
    BY <1>1
  <2> QED
    BY <1>1, <2>1, AlignedIs
<1>4. BlockPages(0, MaxOrder) = Pages
  BY <1>1 DEF BlockPages, Pages
<1>5. \A q \in Nat : q \in Pages <=> Same(q, 0, MaxOrder)
  BY <1>1, <1>3, <1>4, BlockIs
<1>6. ASSUME NEW q \in Pages PROVE Index(q) = q
  <2> DEFINE d == 2^MaxOrder
  <2>1. q \in Nat /\ q < d /\ d \in Nat \ {0}
    BY <1>1 DEF Pages
  <2> HIDE DEF d
  <2>2. d * 0 <= q /\ q < d * 0 + d /\ 0 \in Int
    BY <2>1
  <2>3. q \div d = 0
    BY <2>1, <2>2, QuotientUnique
  <2>4. q = d * (q \div d) + (q % d) /\ q % d \in Nat
    BY <2>1, Division
  <2>5. q % d = q
    BY <2>1, <2>3, <2>4
  <2> QED
    BY <2>5 DEF Index, d
<1> QED
  BY <1>1, <1>2, <1>3, <1>5, <1>6

LEMMA InHeap ==
  ASSUME NEW p \in Pages, NEW q \in Nat, NEW i \in Orders, Same(q, p, i)
  PROVE  q \in Pages
<1>1. p \in Nat /\ i \in Nat /\ MaxOrder \in Nat /\ i <= MaxOrder
  BY HeapIs DEF Orders
<1>2. Same(q, p, MaxOrder)
  BY <1>1, SameCoarser
<1>3. Same(p, 0, MaxOrder)
  BY <1>1, HeapIs
<1>4. Same(q, 0, MaxOrder)
  BY <1>2, <1>3, SameEquivalence
<1> QED
  BY <1>4, HeapIs

-----------------------------------------------------------------------------
(* Tilings of the heap by blocks, pairs of a first page and an order.      *)

Covers(b, q) == Same(q, b[1], b[2])
Apart(B) == \A b, c \in B : \A q \in Pages : Covers(b, q) /\ Covers(c, q) => b = c
Proper(B) == B \in SUBSET (Pages \X Orders) /\ \A b \in B : Aligned(b[1], b[2])
CoveredBy(B, q) == \E b \in B : Covers(b, q)

Tiling(B) == Proper(B) /\ Apart(B) /\ \A q \in Pages : CoveredBy(B, q)

(* Blocks may be exchanged for others that cover the same pages.           *)
LEMMA TilingReplace ==
  ASSUME NEW B, Tiling(B), NEW R \in SUBSET B, NEW N, Proper(N), Apart(N),
         \A q \in Pages : CoveredBy(R, q) <=> CoveredBy(N, q)
  PROVE  Tiling((B \ R) \cup N)
<1> DEFINE C == (B \ R) \cup N
<1>1. Proper(B) /\ Apart(B) /\ \A q \in Pages : CoveredBy(B, q)
  BY DEF Tiling
<1>2. Proper(C)
  BY <1>1 DEF Proper
<1>3. ASSUME NEW b \in B \ R, NEW c \in N, NEW q \in Pages, Covers(b, q), Covers(c, q)
      PROVE  FALSE
  <2>1. CoveredBy(N, q)
    BY <1>3 DEF CoveredBy
  <2>2. PICK a \in R : Covers(a, q)
    BY <2>1 DEF CoveredBy
  <2>3. a = b
    BY <1>1, <1>3, <2>2 DEF Apart
  <2> QED
    BY <1>3, <2>2, <2>3
<1>4. Apart(C)
  <2> SUFFICES ASSUME NEW b \in C, NEW c \in C, NEW q \in Pages, Covers(b, q), Covers(c, q)
               PROVE  b = c
    BY DEF Apart
  <2>1. CASE b \in N /\ c \in N
    BY <2>1 DEF Apart
  <2>2. CASE b \in B \ R /\ c \in B \ R
    BY <1>1, <2>2 DEF Apart
  <2> QED
    BY <1>3, <2>1, <2>2
<1>5. ASSUME NEW q \in Pages PROVE CoveredBy(C, q)
  <2>1. PICK b \in B : Covers(b, q)
    BY <1>1 DEF CoveredBy
  <2>2. CASE b \in R
    <3>1. CoveredBy(N, q)
      BY <2>1, <2>2 DEF CoveredBy
    <3> QED
      BY <3>1 DEF CoveredBy
  <2>3. CASE b \notin R
    BY <2>1, <2>3 DEF CoveredBy
  <2> QED
    BY <2>2, <2>3
<1> HIDE DEF C
<1>6. Tiling(C)
  BY <1>2, <1>4, <1>5 DEF Tiling
<1> QED
  BY <1>6 DEF C

(* In a tiling the smaller of two blocks with a common page lies in the    *)
(* larger: so they are the same.                                           *)
LEMMA TilingNested ==
  ASSUME NEW B, Tiling(B), NEW b \in B, NEW c \in B, b[2] <= c[2],
         Same(b[1], c[1], c[2])
  PROVE  b = c
<1>1. b[1] \in Pages
  BY DEF Tiling, Proper
<1>2. Covers(b, b[1]) /\ Covers(c, b[1])
  BY SameEquivalence DEF Covers
<1> QED
  BY <1>1, <1>2 DEF Tiling, Apart

(* The halves that are split off, or merged, between a block of order o at *)
(* p and the block of order k that holds it.                               *)
Half(p, i) == <<Buddy(Grown(p, i), i), i>>
Halves(p, o, k) == {Half(p, i) : i \in o..(k-1)}

LEMMA HalfIs ==
  ASSUME NEW p \in Pages, NEW i \in Orders, i < MaxOrder
  PROVE  /\ Half(p, i) \in Pages \X Orders /\ Half(p, i)[2] = i
         /\ Half(p, i)[1] = Buddy(Grown(p, i), i)
         /\ Aligned(Half(p, i)[1], i)
         /\ \A q \in Pages : Covers(Half(p, i), q) <=>
                               (Same(q, p, i+1) /\ ~Same(q, p, i))
<1> DEFINE g == Grown(p, i)
           b == Buddy(g, i)
<1>1. p \in Nat /\ i \in Nat /\ i + 1 \in Nat /\ i + 1 \in Orders
  BY HeapIs DEF Orders
<1>2. g \in Nat /\ Aligned(g, i) /\ Same(g, p, i)
  BY <1>1, GrownIs
<1>3. Same(g, p, i+1)
  BY <1>1, <1>2, SameCoarser
<1> HIDE DEF g
<1>4. /\ b \in Nat /\ Aligned(b, i) /\ Same(b, g, i+1) /\ ~Same(b, g, i)
      /\ \A q \in Nat : Same(q, g, i+1) => Same(q, g, i) \/ Same(q, b, i)
  BY <1>1, <1>2, BuddyIs
<1> HIDE DEF b
<1>5. Same(b, p, i+1) /\ ~Same(b, p, i)
  BY <1>2, <1>3, <1>4, SameEquivalence
<1>6. b \in Pages
  BY <1>1, <1>4, <1>5, InHeap
<1>7. Half(p, i) = <<b, i>>
  BY DEF Half, b, g
<1>8. ASSUME NEW q \in Pages PROVE Same(q, b, i) <=> (Same(q, p, i+1) /\ ~Same(q, p, i))
  <2>1. q \in Nat
    BY HeapIs
  <2>2. ASSUME Same(q, b, i) PROVE Same(q, p, i+1) /\ ~Same(q, p, i)
    <3>1. Same(q, b, i+1)
      BY <1>1, <1>4, <2>1, <2>2, SameCoarser
    <3> QED
      BY <1>5, <2>2, <3>1, SameEquivalence
  <2>3. ASSUME Same(q, p, i+1), ~Same(q, p, i) PROVE Same(q, b, i)
    <3>1. Same(q, g, i+1) /\ ~Same(q, g, i)
      BY <1>2, <1>3, <2>3, SameEquivalence
    <3> QED
      BY <1>4, <2>1, <3>1
  <2> QED
    BY <2>2, <2>3
<1> QED
  BY <1>4, <1>6, <1>7, <1>8 DEF Covers, b, g

(* A block and the halves up to order k tile the block of order k.         *)
LEMMA HalvesTile ==
  ASSUME NEW p \in Pages, NEW o \in Orders, NEW k \in Orders, o <= k, Aligned(p, o)
  PROVE  /\ Proper({<<p, o>>} \cup Halves(p, o, k)) /\ Apart({<<p, o>>} \cup Halves(p, o, k))
         /\ Proper({<<Grown(p, k), k>>}) /\ Apart({<<Grown(p, k), k>>})
         /\ \A q \in Pages : CoveredBy({<<p, o>>} \cup Halves(p, o, k), q) <=> Same(q, p, k)
         /\ \A q \in Pages : CoveredBy({<<Grown(p, k), k>>}, q) <=> Same(q, p, k)
<1> DEFINE Cut == {<<p, o>>} \cup Halves(p, o, k)
           g == Grown(p, k)
<1>1. p \in Nat /\ o \in Nat /\ k \in Nat /\ MaxOrder \in Nat /\ k <= MaxOrder
  BY HeapIs DEF Orders
<1>2. \A i \in o..(k-1) : i \in Orders /\ i < MaxOrder /\ i \in Nat /\ i + 1 \in Nat
                          /\ i + 1 <= k /\ o <= i
  BY <1>1 DEF Orders
<1>3. Proper(Cut)
  <2>1. \A i \in o..(k-1) : Half(p, i) \in Pages \X Orders
                            /\ Aligned(Half(p, i)[1], Half(p, i)[2])
    BY <1>2, HalfIs
  <2>2. \A b \in Cut : b = <<p, o>> \/ \E i \in o..(k-1) : b = Half(p, i)
    BY DEF Halves
  <2> HIDE DEF Cut
  <2> QED
    BY <2>1, <2>2 DEF Proper
<1>4. ASSUME NEW q \in Pages, NEW i \in o..(k-1), Same(q, p, i) PROVE ~Covers(Half(p, i), q)
  BY <1>2, <1>4, HalfIs
<1>5. ASSUME NEW q \in Pages, NEW i \in o..(k-1), Covers(Half(p, i), q),
             NEW j \in Nat, i < j
      PROVE  Same(q, p, j)
  <2>1. Same(q, p, i+1)
    BY <1>2, <1>5, HalfIs
  <2>2. q \in Nat /\ i + 1 \in Nat /\ i + 1 <= j
    BY <1>2, <1>5, HeapIs
  <2> QED
    BY <1>1, <2>1, <2>2, SameCoarser
<1>6. ASSUME NEW q \in Pages, Same(q, p, o), NEW i \in o..(k-1) PROVE Same(q, p, i)
  BY <1>1, <1>2, <1>6, SameCoarser, HeapIs
<1>7. Apart(Cut)
  <2> SUFFICES ASSUME NEW b \in Cut, NEW c \in Cut, NEW q \in Pages, Covers(b, q), Covers(c, q)
               PROVE  b = c
    BY DEF Apart
  <2>1. b = <<p, o>> \/ \E i \in o..(k-1) : b = Half(p, i)
    BY DEF Halves
  <2>2. c = <<p, o>> \/ \E i \in o..(k-1) : c = Half(p, i)
    BY DEF Halves
  <2> HIDE DEF Cut
  <2>3. b = <<p, o>> => Same(q, p, o)
    BY DEF Covers
  <2>4. c = <<p, o>> => Same(q, p, o)
    BY DEF Covers
  <2>5. CASE b = <<p, o>> \/ c = <<p, o>>
    BY <1>4, <1>6, <2>1, <2>2, <2>3, <2>4, <2>5
  <2>6. CASE b # <<p, o>> /\ c # <<p, o>>
    <3>1. PICK i \in o..(k-1) : b = Half(p, i)
      BY <2>1, <2>6
    <3>2. PICK j \in o..(k-1) : c = Half(p, j)
      BY <2>2, <2>6
    <3>3. i \in Nat /\ j \in Nat
      BY <1>2
    <3>4. ~(i < j)
      BY <1>4, <1>5, <3>1, <3>2, <3>3
    <3>5. ~(j < i)
      BY <1>4, <1>5, <3>1, <3>2, <3>3
    <3>6. i = j
      BY <3>3, <3>4, <3>5
    <3> QED
      BY <3>1, <3>2, <3>6
  <2> QED
    BY <2>5, <2>6
<1>8. ASSUME NEW q \in Pages PROVE CoveredBy(Cut, q) <=> Same(q, p, k)
  <2>1. q \in Nat
    BY HeapIs
  <2>2. ASSUME CoveredBy(Cut, q) PROVE Same(q, p, k)
    <3>1. PICK b \in Cut : Covers(b, q)
      BY <2>2 DEF CoveredBy
    <3>2. CASE b = <<p, o>>
      <4>1. Same(q, p, o)
        BY <3>1, <3>2 DEF Covers
      <4> QED
        BY <1>1, <2>1, <4>1, SameCoarser
    <3>3. CASE b # <<p, o>>
      <4>1. PICK i \in o..(k-1) : b = Half(p, i)
        BY <3>3 DEF Halves
      <4>2. i < k
        BY <1>1
      <4> QED
        BY <1>1, <1>5, <3>1, <4>1, <4>2
    <3> QED
      BY <3>2, <3>3
  <2>3. ASSUME Same(q, p, k) PROVE CoveredBy(Cut, q)
    <3> DEFINE S == {j \in Nat : o <= j /\ Same(q, p, j)}
               m == Min(S)
    <3>1. S \in SUBSET Nat /\ k \in S
      BY <1>1, <2>3
    <3>2. m \in S /\ \A y \in S : m <= y
      BY <3>1, MinIsLeast
    <3> HIDE DEF m
    <3>3. CASE m = o
      <4>1. Covers(<<p, o>>, q)
        BY <3>2, <3>3 DEF Covers
      <4> QED
        BY <4>1 DEF CoveredBy
    <3>4. CASE m # o
      <4> DEFINE i == m - 1
      <4>1. i \in o..(k-1) /\ i + 1 = m /\ i \notin S /\ i \in Nat /\ o <= i
        BY <1>1, <3>1, <3>2, <3>4
      <4>2. Same(q, p, i+1) /\ ~Same(q, p, i)
        BY <3>2, <4>1
      <4> HIDE DEF i
      <4>3. Covers(Half(p, i), q)
        BY <1>2, <4>1, <4>2, HalfIs
      <4>4. Half(p, i) \in Cut
        BY <4>1 DEF Halves
      <4> QED
        BY <4>3, <4>4 DEF CoveredBy
    <3> QED
      BY <3>3, <3>4
  <2> QED
    BY <2>2, <2>3
<1>9. g \in Nat /\ Aligned(g, k) /\ Same(g, p, k)
  BY <1>1, GrownIs
<1>10. g \in Pages
  BY <1>9, InHeap
<1> HIDE DEF g
<1>11. Proper({<<g, k>>}) /\ Apart({<<g, k>>})
  BY <1>9, <1>10 DEF Proper, Apart
<1>12. ASSUME NEW q \in Pages PROVE CoveredBy({<<g, k>>}, q) <=> Same(q, p, k)
  <2>1. CoveredBy({<<g, k>>}, q) <=> Same(q, g, k)
    BY DEF CoveredBy, Covers
  <2> QED
    BY <1>9, <2>1, SameEquivalence
<1> QED
  BY <1>3, <1>7, <1>8, <1>11, <1>12 DEF g

-----------------------------------------------------------------------------
(* The buddy allocator: what holds of the lists and the metadata when the  *)
(* blocks given out are those that start at the pages P.                   *)

Blocks(fa) == {b \in Pages \X Orders : b[1] \in ToSet(fa[b[2]])}
UsedBlocks(md, P) == {<<p, md[p].order>> : p \in P}

Marked(md, B) ==
  \A p \in Pages, o \in Orders : (md[p].is_free /\ md[p].order = o) <=> <<p, o>> \in B

(* What can be merged has been.                                            *)
NoBuddies(B) ==
  \A p \in Pages, o \in Orders :
    <<p, o>> \in B /\ o < MaxOrder => <<Buddy(p, o), o>> \notin B

AreasOK(fa) ==
  /\ fa \in [Orders -> Seq(Pages)]
  /\ \A o \in Orders : Listing(fa[o], Pages)

MetaType(md) ==
  md \in [Pages -> [order : Orders, is_free : BOOLEAN, is_slab : BOOLEAN]]

BuddyOK(fa, md, P) ==
  /\ AreasOK(fa)
  /\ MetaType(md)
  /\ P \subseteq Pages
  /\ Tiling(Blocks(fa) \cup UsedBlocks(md, P))
  /\ Marked(md, Blocks(fa))
  /\ \A p \in P : ~md[p].is_free
  /\ NoBuddies(Blocks(fa))

(* Free blocks and blocks in use are distinct and have no page in common.  *)
LEMMA FreeAndUsed ==
  ASSUME NEW fa, NEW md, NEW P, BuddyOK(fa, md, P), NEW p \in P
  PROVE  /\ p \in Pages /\ md[p].order \in Orders /\ Aligned(p, md[p].order)
         /\ <<p, md[p].order>> \in UsedBlocks(md, P)
         /\ \A o \in Orders : <<p, o>> \notin Blocks(fa)
         /\ \A b \in Blocks(fa), q \in Pages : ~(Covers(<<p, md[p].order>>, q) /\ Covers(b, q))
<1> DEFINE u == <<p, md[p].order>>
           B == Blocks(fa)
           U == UsedBlocks(md, P)
<1>1. p \in Pages /\ md[p].order \in Orders /\ ~md[p].is_free
  BY DEF BuddyOK, MetaType
<1>2. u \in U
  BY DEF UsedBlocks
<1>3. Tiling(B \cup U) /\ Marked(md, B)
  BY DEF BuddyOK
<1> HIDE DEF B, U
<1>4. Aligned(u[1], u[2])
  BY <1>2, <1>3 DEF Tiling, Proper
<1>5. \A o \in Orders : <<p, o>> \notin B
  BY <1>1, <1>3 DEF Marked
<1>6. u \notin B
  BY <1>1, <1>5
<1>7. ASSUME NEW b \in B, NEW q \in Pages, Covers(u, q), Covers(b, q) PROVE FALSE
  <2> HIDE DEF u
  <2>1. u = b
    BY <1>2, <1>3, <1>7 DEF Tiling, Apart
  <2> QED
    BY <1>6, <2>1
<1> QED
  BY <1>1, <1>2, <1>4, <1>5, <1>7 DEF B, U

(* The mark of a slab is none of the buddy allocator's business.           *)
LEMMA BuddyMark ==
  ASSUME NEW fa, NEW md, NEW P, BuddyOK(fa, md, P), NEW md2, MetaType(md2),
         \A q \in Pages : md2[q].order = md[q].order /\ md2[q].is_free = md[q].is_free
  PROVE  BuddyOK(fa, md2, P) /\ UsedBlocks(md2, P) = UsedBlocks(md, P)
<1>1. P \subseteq Pages
  BY DEF BuddyOK
<1>2. UsedBlocks(md2, P) = UsedBlocks(md, P)
  BY <1>1 DEF UsedBlocks
<1>3. Marked(md2, Blocks(fa))
  BY DEF BuddyOK, Marked
<1>4. \A p \in P : ~md2[p].is_free
  BY <1>1 DEF BuddyOK
<1> QED
  BY <1>1, <1>2, <1>3, <1>4 DEF BuddyOK

LEMMA AllocChoice ==
  ASSUME NEW P, BuddyOK(free_areas, metadata, P), NEW o \in Orders, Fits(o) # {},
         NEW j, j = Min(Fits(o)), NEW p, p = AllocPage(o)
  PROVE  /\ j \in Orders /\ o <= j /\ free_areas[j] # <<>>
         /\ p \in Pages /\ p = Head(free_areas[j]) /\ <<p, j>> \in Blocks(free_areas)
         /\ \A i \in Orders : i <= j => Aligned(p, i) /\ Grown(p, i) = p
         /\ \A i \in Orders : i <= j => Half(p, i) = <<Buddy(p, i), i>>
<1>1. MaxOrder \in Nat
  BY HeapIs
<1>2. Fits(o) \in SUBSET Nat /\ \A i \in Fits(o) : i \in Orders /\ o <= i /\ free_areas[i] # <<>>
  BY <1>1 DEF Fits, Orders
<1>3. j \in Fits(o)
  BY <1>2, MinIsLeast
<1>4. j \in Orders /\ o <= j /\ free_areas[j] # <<>>
  BY <1>2, <1>3
<1>5. p = Head(free_areas[j])
  BY DEF AllocPage
<1>6. Listing(free_areas[j], Pages)
  BY <1>4 DEF BuddyOK, AreasOK
<1>7. p \in ToSet(free_areas[j]) /\ ToSet(free_areas[j]) \subseteq Pages
  BY <1>4, <1>5, <1>6, ListTail, ListElements DEF Listing
<1>8. p \in Pages /\ <<p, j>> \in Blocks(free_areas)
  BY <1>4, <1>7 DEF Blocks
<1>9. Aligned(p, j)
  BY <1>8 DEF BuddyOK, Tiling, Proper
<1>10. ASSUME NEW i \in Orders, i <= j PROVE Aligned(p, i) /\ Grown(p, i) = p
  <2>1. p \in Nat /\ i \in Nat /\ j \in Nat
    BY <1>1, <1>4, <1>8, HeapIs DEF Orders
  <2> QED
    BY <1>9, <1>10, <2>1, AlignedFiner, GrownIs
<1>11. ASSUME NEW i \in Orders, i <= j PROVE Half(p, i) = <<Buddy(p, i), i>>
  BY <1>10, <1>11 DEF Half
<1> QED
  BY <1>4, <1>5, <1>8, <1>10, <1>11

(* The blocks after an allocation, whose splits free the upper halves.     *)
LEMMA AllocBlocks ==
  ASSUME NEW P, BuddyOK(free_areas, metadata, P), NEW o \in Orders, Fits(o) # {},
         NEW j, j = Min(Fits(o)), NEW p, p = AllocPage(o)
  PROVE  /\ AreasOK(AllocAreas(o))
         /\ Blocks(AllocAreas(o)) = (Blocks(free_areas) \ {<<p, j>>}) \cup Halves(p, o, j)
<1> DEFINE B == Blocks(free_areas)
           fb == AllocAreas(o)
<1>1. /\ j \in Orders /\ o <= j /\ free_areas[j] # <<>>
      /\ p \in Pages /\ p = Head(free_areas[j]) /\ <<p, j>> \in B
      /\ \A i \in Orders : i <= j => Half(p, i) = <<Buddy(p, i), i>>
  BY AllocChoice
<1>2. AreasOK(free_areas) /\ Tiling(B \cup UsedBlocks(metadata, P))
  BY DEF BuddyOK
<1>3. MaxOrder \in Nat /\ o \in Nat /\ j \in Nat /\ j <= MaxOrder /\ Orders \subseteq Nat
  BY <1>1, HeapIs DEF Orders
<1> HIDE DEF B
<1>4. ASSUME NEW i \in Orders, o <= i, i < j
      PROVE  /\ i \in o..(j-1) /\ Half(p, i) = <<Buddy(p, i), i>>
             /\ Buddy(p, i) \in Pages /\ <<Buddy(p, i), i>> \notin B
  <2>1. i \in o..(j-1) /\ i < MaxOrder /\ i + 1 \in Nat /\ i + 1 <= j
    BY <1>3, <1>4
  <2>2. Half(p, i) = <<Buddy(p, i), i>>
    BY <1>1, <1>3, <1>4
  <2> DEFINE q == Buddy(p, i)
  <2>3. Half(p, i) \in Pages \X Orders /\ \A x \in Pages : Covers(Half(p, i), x) => Same(x, p, i+1)
    BY <2>1, HalfIs, <1>1
  <2> HIDE DEF q
  <2>4. q \in Pages
    BY <2>2, <2>3 DEF q
  <2>5. Covers(<<q, i>>, q)
    BY SameEquivalence DEF Covers
  <2>6. Same(q, p, i+1)
    BY <2>2, <2>3, <2>4, <2>5 DEF q
  <2>7. Same(q, p, j)
    BY <1>1, <1>3, <2>1, <2>4, <2>6, SameCoarser, HeapIs
  <2>8. Covers(<<p, j>>, q)
    BY <2>7 DEF Covers
  <2>9. <<q, i>> \in B => <<q, i>> = <<p, j>>
    BY <1>1, <1>2, <2>4, <2>5, <2>8 DEF Tiling, Apart
  <2>10. i # j
    BY <1>3, <1>4
  <2> QED
    BY <2>1, <2>2, <2>4, <2>9, <2>10 DEF q
<1>5. ASSUME NEW i \in Orders PROVE Listing(free_areas[i], Pages) /\ ToSet(free_areas[i]) \subseteq Pages
  BY <1>2, ListElements DEF AreasOK, Listing
<1>6. ASSUME NEW i \in Orders
      PROVE  /\ i = j => fb[i] = Tail(free_areas[i])
             /\ o <= i /\ i < j => fb[i] = Cons(Buddy(p, i), free_areas[i])
             /\ ~(i = j \/ (o <= i /\ i < j)) => fb[i] = free_areas[i]
  BY <1>3 DEF AllocAreas
<1>7. fb = [i \in Orders |-> fb[i]]
  BY DEF AllocAreas
<1> HIDE DEF fb
<1>8. ASSUME NEW i \in Orders
      PROVE  /\ Listing(fb[i], Pages)
             /\ ToSet(fb[i]) = IF i = j THEN ToSet(free_areas[i]) \ {p}
                               ELSE IF o <= i /\ i < j THEN ToSet(free_areas[i]) \cup {Buddy(p, i)}
                               ELSE ToSet(free_areas[i])
  <2>1. CASE i = j
    BY <1>1, <1>5, <1>6, <2>1, ListTail
  <2>2. CASE o <= i /\ i < j
    <3>1. i # j
      BY <1>3, <2>2
    <3>2. Buddy(p, i) \in Pages /\ <<Buddy(p, i), i>> \notin B
      BY <1>4, <2>2
    <3>3. Buddy(p, i) \notin ToSet(free_areas[i])
      BY <3>2 DEF B, Blocks
    <3> QED
      BY <1>5, <1>6, <2>2, <3>1, <3>2, <3>3, ListCons
  <2>3. CASE ~(i = j \/ (o <= i /\ i < j))
    BY <1>5, <1>6, <2>3
  <2> QED
    BY <2>1, <2>2, <2>3
<1>9. AreasOK(fb)
  BY <1>7, <1>8 DEF AreasOK, Listing
<1>10. ASSUME NEW q \in Pages, NEW i \in Orders
       PROVE  q \in ToSet(fb[i]) <=> <<q, i>> \in (B \ {<<p, j>>}) \cup Halves(p, o, j)
  <2>1. <<q, i>> \in B <=> q \in ToSet(free_areas[i])
    BY DEF B, Blocks
  <2>2. <<q, i>> \in Halves(p, o, j) <=> o <= i /\ i < j /\ q = Buddy(p, i)
    <3>1. ASSUME o <= i, i < j PROVE i \in o..(j-1) /\ Half(p, i) = <<Buddy(p, i), i>>
      BY <1>4, <3>1
    <3>2. ASSUME NEW h \in o..(j-1) PROVE h \in Orders /\ o <= h /\ h < j /\ Half(p, h)[2] = h
      <4>1. h \in Orders /\ o <= h /\ h < j
        BY <1>3 DEF Orders
      <4>2. Half(p, h) = <<Buddy(p, h), h>>
        BY <1>4, <4>1
      <4> QED
        BY <4>1, <4>2
    <3>3. <<q, i>> \in Halves(p, o, j) <=> \E h \in o..(j-1) : <<q, i>> = Half(p, h)
      BY DEF Halves
    <3>4. \A h \in o..(j-1) : <<q, i>> = Half(p, h) => h = i
      BY <3>2
    <3> QED
      BY <3>1, <3>2, <3>3, <3>4
  <2>3. <<q, i>> = <<p, j>> <=> i = j /\ q = p
    OBVIOUS
  <2>4. i = j => ~(o <= i /\ i < j)
    BY <1>3
  <2> QED
    BY <1>8, <2>1, <2>2, <2>3, <2>4
<1>11. Blocks(fb) = (B \ {<<p, j>>}) \cup Halves(p, o, j)
  <2>1. (B \ {<<p, j>>}) \cup Halves(p, o, j) \subseteq Pages \X Orders
    <3>1. \A h \in o..(j-1) : h \in Orders /\ h < MaxOrder
      BY <1>3 DEF Orders
    <3>2. \A h \in o..(j-1) : Half(p, h) \in Pages \X Orders
      BY <1>1, <3>1, HalfIs
    <3>3. Halves(p, o, j) \subseteq Pages \X Orders
      BY <3>2 DEF Halves
    <3> QED
      BY <3>3 DEF B, Blocks
  <2> DEFINE C == (B \ {<<p, j>>}) \cup Halves(p, o, j)
  <2> HIDE DEF C
  <2>2. \A q \in Pages, i \in Orders : q \in ToSet(fb[i]) <=> <<q, i>> \in C
    BY <1>10 DEF C
  <2>3. C \subseteq Pages \X Orders
    BY <2>1 DEF C
  <2>4. Blocks(fb) = C
    BY <2>2, <2>3 DEF Blocks
  <2> QED
    BY <2>4 DEF C
<1> QED
  BY <1>9, <1>11 DEF B, fb

(* The halves start at pages of their own.                                 *)
LEMMA HalvesDistinct ==
  ASSUME NEW p \in Pages, NEW o \in Orders, NEW k \in Orders, o <= k, Aligned(p, o)
  PROVE  /\ \A i \in o..(k-1) : i \in Orders /\ i < MaxOrder /\ Half(p, i) \in Pages \X Orders
                                /\ Half(p, i) \in Halves(p, o, k)
                                /\ Half(p, i)[2] = i /\ Half(p, i)[1] # p
         /\ \A i, h \in o..(k-1) : Half(p, i)[1] = Half(p, h)[1] => i = h
<1>1. o \in Nat /\ k \in Nat /\ MaxOrder \in Nat /\ k <= MaxOrder
  BY HeapIs DEF Orders
<1>2. \A i \in o..(k-1) : i \in Orders /\ i < MaxOrder /\ i \in Nat /\ i + 1 \in Nat
  BY <1>1 DEF Orders
<1>3. Apart({<<p, o>>} \cup Halves(p, o, k))
  BY HalvesTile
<1>4. ASSUME NEW i \in o..(k-1)
      PROVE  /\ Half(p, i) \in Pages \X Orders /\ Half(p, i) \in Halves(p, o, k)
             /\ Half(p, i)[2] = i /\ Covers(Half(p, i), Half(p, i)[1])
             /\ ~Covers(Half(p, i), p)
  <2>1. Half(p, i) \in Pages \X Orders /\ Half(p, i)[2] = i
        /\ \A q \in Pages : Covers(Half(p, i), q) <=> (Same(q, p, i+1) /\ ~Same(q, p, i))
    BY <1>2, HalfIs
  <2>2. Same(p, p, i)
    BY SameEquivalence
  <2>3. Covers(Half(p, i), Half(p, i)[1])
    BY SameEquivalence DEF Covers
  <2> QED
    BY <2>1, <2>2, <2>3 DEF Halves
<1>5. ASSUME NEW i \in o..(k-1), NEW h \in o..(k-1), Half(p, i)[1] = Half(p, h)[1]
      PROVE  i = h
  <2> DEFINE q == Half(p, i)[1]
  <2>1. q \in Pages /\ Covers(Half(p, i), q) /\ Covers(Half(p, h), q)
    BY <1>4, <1>5
  <2> HIDE DEF q
  <2>2. Half(p, i) = Half(p, h)
    BY <1>3, <1>4, <2>1 DEF Apart
  <2> QED
    BY <1>4, <2>2
<1>6. ASSUME NEW i \in o..(k-1) PROVE Half(p, i)[1] # p
  BY <1>4
<1> QED
  BY <1>2, <1>4, <1>5, <1>6

(* The metadata after an allocation.                                       *)
LEMMA AllocMarks ==
  ASSUME NEW P, BuddyOK(free_areas, metadata, P), NEW o \in Orders, Fits(o) # {},
         NEW j, j = Min(Fits(o)), NEW p, p = AllocPage(o)
  PROVE  /\ MetaType(AllocMeta(o))
         /\ AllocMeta(o)[p] = [order |-> o, is_free |-> FALSE, is_slab |-> FALSE]
         /\ \A i \in o..(j-1) : AllocMeta(o)[Half(p, i)[1]] =
                                  [order |-> i, is_free |-> TRUE, is_slab |-> FALSE]
         /\ \A q \in Pages : q # p /\ (\A i \in o..(j-1) : q # Half(p, i)[1])
                               => AllocMeta(o)[q] = metadata[q]
<1> DEFINE md == AllocMeta(o)
           split == o..(j-1)
<1>1. /\ j \in Orders /\ o <= j /\ p \in Pages
      /\ \A i \in Orders : i <= j => Aligned(p, i)
      /\ \A i \in Orders : i <= j => Half(p, i) = <<Buddy(p, i), i>>
  <2> HIDE DEF md, split
  <2>1. j \in Orders /\ o <= j /\ p \in Pages
    BY AllocChoice
  <2>2. \A i \in Orders : i <= j => Aligned(p, i) /\ Grown(p, i) = p
    BY AllocChoice
  <2>3. \A i \in Orders : i <= j => Half(p, i) = <<Buddy(p, i), i>>
    BY <2>2 DEF Half
  <2> QED
    BY <2>1, <2>2, <2>3
<1>2. j \in Nat /\ o \in Nat /\ MaxOrder \in Nat /\ j <= MaxOrder
  BY <1>1, HeapIs DEF Orders
<1>3. \A i \in split : i \in Orders /\ i <= j
  BY <1>2 DEF Orders
<1>4. /\ \A i \in split : Half(p, i) \in Pages \X Orders /\ Half(p, i)[1] # p
      /\ \A i, h \in split : Half(p, i)[1] = Half(p, h)[1] => i = h
  BY <1>1, HalvesDistinct
<1>5. \A i \in split : Half(p, i)[1] = Buddy(p, i)
  BY <1>1, <1>3
<1>6. ASSUME NEW q \in Pages
      PROVE  md[q] = IF q = p THEN [order |-> o, is_free |-> FALSE, is_slab |-> FALSE]
                     ELSE IF \E i \in split : q = Half(p, i)[1]
                     THEN [order |-> CHOOSE i \in split : q = Half(p, i)[1],
                           is_free |-> TRUE, is_slab |-> FALSE]
                     ELSE metadata[q]
  <2>1. Index(p) = p /\ \A i \in split : Index(Buddy(p, i)) = Half(p, i)[1]
    BY <1>1, <1>4, <1>5, HeapIs
  <2>2. (\E i \in split : q = Index(Buddy(p, i))) <=> (\E i \in split : q = Half(p, i)[1])
    BY <2>1
  <2>3. (CHOOSE i \in split : q = Index(Buddy(p, i))) = (CHOOSE i \in split : q = Half(p, i)[1])
    BY <2>1
  <2>4. md[q] = IF q = Index(p) THEN [order |-> o, is_free |-> FALSE, is_slab |-> FALSE]
                ELSE IF \E i \in split : q = Index(Buddy(p, i))
                THEN [order |-> CHOOSE i \in split : q = Index(Buddy(p, i)),
                      is_free |-> TRUE, is_slab |-> FALSE]
                ELSE metadata[q]
    BY DEF AllocMeta
  <2> QED
    BY <2>1, <2>2, <2>3, <2>4
<1>7. DOMAIN md = Pages /\ md = [q \in Pages |-> md[q]]
  BY DEF AllocMeta
<1> HIDE DEF md, split
<1>8. md[p] = [order |-> o, is_free |-> FALSE, is_slab |-> FALSE]
  BY <1>1, <1>6
<1>9. ASSUME NEW i \in split
      PROVE  md[Half(p, i)[1]] = [order |-> i, is_free |-> TRUE, is_slab |-> FALSE]
  <2> DEFINE q == Half(p, i)[1]
             c == CHOOSE h \in split : q = Half(p, h)[1]
  <2>1. q \in Pages /\ q # p
    BY <1>4
  <2>2. c \in split /\ q = Half(p, c)[1]
    OBVIOUS
  <2>3. c = i
    BY <1>4, <2>2
  <2>4. md[q] = [order |-> c, is_free |-> TRUE, is_slab |-> FALSE]
    BY <1>6, <2>1
  <2> QED
    BY <2>3, <2>4
<1>10. ASSUME NEW q \in Pages, q # p, \A i \in split : q # Half(p, i)[1]
       PROVE  md[q] = metadata[q]
  BY <1>6, <1>10
<1>11. MetaType(md)
  <2>1. ASSUME NEW q \in Pages
        PROVE  md[q] \in [order : Orders, is_free : BOOLEAN, is_slab : BOOLEAN]
    <3> DEFINE M == [order : Orders, is_free : BOOLEAN, is_slab : BOOLEAN]
    <3>0. \A i \in Orders : [order |-> i, is_free |-> FALSE, is_slab |-> FALSE] \in M
                             /\ [order |-> i, is_free |-> TRUE, is_slab |-> FALSE] \in M
      OBVIOUS
    <3> HIDE DEF M
    <3>1. CASE q = p
      <4>1. md[q] = [order |-> o, is_free |-> FALSE, is_slab |-> FALSE]
        BY <1>8, <3>1
      <4> QED
        BY <3>0, <4>1
    <3>2. CASE \E i \in split : q = Half(p, i)[1]
      <4>1. PICK i \in split : q = Half(p, i)[1]
        BY <3>2
      <4>2. md[q] = [order |-> i, is_free |-> TRUE, is_slab |-> FALSE]
        BY <1>9, <4>1
      <4> QED
        BY <1>3, <3>0, <4>1, <4>2
    <3>3. CASE q # p /\ ~\E i \in split : q = Half(p, i)[1]
      BY <1>10, <3>3 DEF BuddyOK, MetaType, M
    <3> QED
      BY <3>1, <3>2, <3>3 DEF M
  <2> QED
    BY <1>7, <2>1 DEF MetaType
<1> QED
  BY <1>8, <1>9, <1>10, <1>11 DEF md, split

(* buddy_alloc hands out a block of the order asked for, and leaves every  *)
(* other block in use as it was.                                           *)
LEMMA AllocBuddy ==
  ASSUME NEW P, BuddyOK(free_areas, metadata, P), NEW o \in Orders, Fits(o) # {},
         NEW p, p = AllocPage(o)
  PROVE  /\ p \in Pages \ P /\ BuddyOK(AllocAreas(o), AllocMeta(o), P \cup {p})
         /\ AllocMeta(o)[p] = [order |-> o, is_free |-> FALSE, is_slab |-> FALSE]
         /\ \A q \in P : AllocMeta(o)[q] = metadata[q]
         /\ \A q \in Pages : AllocMeta(o)[q].is_slab => metadata[q].is_slab
<1> DEFINE B == Blocks(free_areas)
           U == UsedBlocks(metadata, P)
           fb == AllocAreas(o)
           md == AllocMeta(o)
           C == Blocks(fb)
           V == UsedBlocks(md, P \cup {p})
           N(j) == {<<p, o>>} \cup Halves(p, o, j)
<1> HIDE DEF B, U, fb, md, C, V, N
<1>1. PICK j : j = Min(Fits(o))
  OBVIOUS
<1>2. j \in Orders /\ o <= j /\ p \in Pages /\ <<p, j>> \in B
  BY <1>1, AllocChoice DEF B
<1>3. \A i \in Orders : i <= j => Aligned(p, i) /\ Grown(p, i) = p
  BY <1>1, AllocChoice
<1>4. AreasOK(fb) /\ C = (B \ {<<p, j>>}) \cup Halves(p, o, j)
  BY <1>1, AllocBlocks DEF B, C, fb
<1>5. /\ MetaType(md)
      /\ md[p] = [order |-> o, is_free |-> FALSE, is_slab |-> FALSE]
      /\ \A i \in o..(j-1) : md[Half(p, i)[1]] =
                               [order |-> i, is_free |-> TRUE, is_slab |-> FALSE]
      /\ \A q \in Pages : q # p /\ (\A i \in o..(j-1) : q # Half(p, i)[1])
                            => md[q] = metadata[q]
  BY <1>1, AllocMarks DEF md
<1>6. /\ P \subseteq Pages /\ Tiling(B \cup U) /\ Marked(metadata, B) /\ NoBuddies(B)
      /\ \A q \in P : ~metadata[q].is_free
  BY DEF BuddyOK, B, U
<1>7. o \in Nat /\ j \in Nat /\ MaxOrder \in Nat /\ j <= MaxOrder /\ p \in Nat
      /\ Orders \subseteq Nat /\ j <= j
  BY <1>2, HeapIs DEF Orders
<1>8. Aligned(p, o) /\ Grown(p, j) = p
  BY <1>2, <1>3, <1>7
<1>9. /\ Proper(N(j)) /\ Apart(N(j))
      /\ \A q \in Pages : CoveredBy(N(j), q) <=> Same(q, p, j)
      /\ \A q \in Pages : CoveredBy({<<p, j>>}, q) <=> Same(q, p, j)
  BY <1>2, <1>8, HalvesTile DEF N
<1>10. /\ \A i \in o..(j-1) : i \in Orders /\ i < MaxOrder /\ Half(p, i) \in Pages \X Orders
                                /\ Half(p, i) \in Halves(p, o, j)
                                /\ Half(p, i)[2] = i /\ Half(p, i)[1] # p
       /\ \A i, h \in o..(j-1) : Half(p, i)[1] = Half(p, h)[1] => i = h
  BY <1>2, <1>8, HalvesDistinct
<1>11. ASSUME NEW i \in o..(j-1) PROVE Half(p, i)[1] \in Pages /\ Same(Half(p, i)[1], p, j)
  <2> DEFINE q == Half(p, i)[1]
  <2>1. q \in Pages /\ Half(p, i) \in N(j)
    BY <1>10 DEF N
  <2>2. Covers(Half(p, i), q)
    BY <1>10, SameEquivalence DEF Covers
  <2> HIDE DEF q
  <2>3. CoveredBy(N(j), q)
    BY <2>1, <2>2 DEF CoveredBy
  <2> QED
    BY <1>9, <2>1, <2>3 DEF q
<1>12. ASSUME NEW q \in P PROVE q \in Pages /\ ~Same(q, p, j)
  <2>1. /\ q \in Pages
        /\ \A b \in B, x \in Pages : ~(Covers(<<q, metadata[q].order>>, x) /\ Covers(b, x))
    BY FreeAndUsed DEF B
  <2>2. Covers(<<q, metadata[q].order>>, q)
    BY SameEquivalence DEF Covers
  <2>3. ~Covers(<<p, j>>, q)
    BY <1>2, <2>1, <2>2
  <2> QED
    BY <2>1, <2>3 DEF Covers
<1>13. p \notin P
  BY <1>12, SameEquivalence
<1>14. ASSUME NEW q \in P PROVE md[q] = metadata[q]
  BY <1>5, <1>11, <1>12, <1>13
<1>15. V = U \cup {<<p, o>>}
  BY <1>5, <1>14 DEF U, V, UsedBlocks
<1>16. <<p, j>> \notin U
  BY <1>6, <1>13 DEF U, UsedBlocks
<1>17. Tiling(C \cup V)
  <2>1. {<<p, j>>} \in SUBSET (B \cup U)
    BY <1>2
  <2>2. \A q \in Pages : CoveredBy({<<p, j>>}, q) <=> CoveredBy(N(j), q)
    BY <1>9
  <2>3. Tiling(((B \cup U) \ {<<p, j>>}) \cup N(j))
    BY <1>6, <1>9, <2>1, <2>2, TilingReplace
  <2>4. ((B \cup U) \ {<<p, j>>}) \cup N(j) = C \cup V
    BY <1>4, <1>15, <1>16 DEF N
  <2> QED
    BY <2>3, <2>4
<1>18. \A b \in B : b \in Pages \X Orders
  BY DEF B, Blocks
<1>19. ASSUME NEW q \in Pages, NEW i \in Orders, <<q, i>> \in C \cup V,
              NEW h \in Orders, <<q, h>> \in C \cup V
       PROVE  i = h
  <2>1. Covers(<<q, i>>, q) /\ Covers(<<q, h>>, q)
    BY SameEquivalence DEF Covers
  <2>2. <<q, i>> = <<q, h>>
    BY <1>17, <1>19, <2>1 DEF Tiling, Apart
  <2> QED
    BY <2>2
<1>20. <<p, o>> \notin C
  <2>1. ASSUME <<p, o>> \in B PROVE <<p, o>> = <<p, j>>
    <3>1. Covers(<<p, o>>, p) /\ Covers(<<p, j>>, p)
      BY SameEquivalence DEF Covers
    <3> QED
      BY <1>2, <1>6, <2>1, <3>1 DEF Tiling, Apart
  <2>2. <<p, o>> \notin Halves(p, o, j)
    BY <1>10 DEF Halves
  <2> QED
    BY <1>4, <2>1, <2>2
<1>21. Marked(md, C)
  <2> SUFFICES ASSUME NEW q \in Pages, NEW i \in Orders
               PROVE  (md[q].is_free /\ md[q].order = i) <=> <<q, i>> \in C
    BY DEF Marked
  <2>1. CASE q = p
    <3>1. ASSUME <<p, i>> \in C PROVE i = o
      BY <1>2, <1>15, <1>19, <3>1
    <3> QED
      BY <1>5, <1>20, <2>1, <3>1
  <2>2. CASE \E h \in o..(j-1) : q = Half(p, h)[1]
    <3>1. PICK h \in o..(j-1) : q = Half(p, h)[1]
      BY <2>2
    <3>2. md[q] = [order |-> h, is_free |-> TRUE, is_slab |-> FALSE]
      BY <1>5, <3>1
    <3>3. h \in Orders /\ Half(p, h) = <<q, h>> /\ Half(p, h) \in C
      BY <1>4, <1>10, <3>1
    <3>4. <<q, i>> \in C <=> i = h
      BY <1>19, <3>3
    <3> QED
      BY <3>2, <3>4
  <2>3. CASE q # p /\ \A h \in o..(j-1) : q # Half(p, h)[1]
    <3>1. md[q] = metadata[q]
      BY <1>5, <2>3
    <3>2. <<q, i>> # <<p, j>> /\ <<q, i>> \notin Halves(p, o, j)
      BY <2>3 DEF Halves
    <3> QED
      BY <1>4, <1>6, <3>1, <3>2 DEF Marked
  <2> QED
    BY <2>1, <2>2, <2>3
<1>22. ASSUME NEW h \in o..(j-1)
       PROVE  /\ Half(p, h) = <<Buddy(p, h), h>> /\ h \in Orders /\ h < j /\ h < MaxOrder
              /\ Buddy(p, h) \in Pages /\ Buddy(Buddy(p, h), h) = p
              /\ <<p, h>> \notin C
  <2>1. h \in Orders /\ h < j /\ h <= j /\ h \in Nat /\ h < MaxOrder /\ o <= h
    BY <1>7, <1>10
  <2>2. Aligned(p, h) /\ Grown(p, h) = p
    BY <1>3, <2>1
  <2>3. Half(p, h) = <<Buddy(p, h), h>>
    BY <2>2 DEF Half
  <2>4. Buddy(p, h) \in Pages
    BY <1>10, <2>3
  <2>5. Buddy(Buddy(p, h), h) = p
    BY <1>7, <2>1, <2>2, BuddyIs
  <2>6. ASSUME <<p, h>> \in C PROVE FALSE
    <3>1. h = o
      BY <1>2, <1>15, <1>19, <2>1, <2>6
    <3> QED
      BY <1>20, <2>6, <3>1
  <2> QED
    BY <2>1, <2>3, <2>4, <2>5, <2>6
<1>23. NoBuddies(C)
  <2> SUFFICES ASSUME NEW q \in Pages, NEW i \in Orders, <<q, i>> \in C, i < MaxOrder,
                      <<Buddy(q, i), i>> \in C
               PROVE  FALSE
    BY DEF NoBuddies
  <2>1. CASE <<q, i>> \in Halves(p, o, j)
    <3>1. PICK h \in o..(j-1) : <<q, i>> = Half(p, h)
      BY <2>1 DEF Halves
    <3>2. i = h /\ q = Buddy(p, h)
      <4>1. Half(p, h) = <<Buddy(p, h), h>>
        BY <1>22
      <4> QED
        BY <3>1, <4>1
    <3> QED
      BY <1>22, <3>2
  <2>2. CASE <<Buddy(q, i), i>> \in Halves(p, o, j)
    <3>1. PICK h \in o..(j-1) : <<Buddy(q, i), i>> = Half(p, h)
      BY <2>2 DEF Halves
    <3>2. i = h /\ Buddy(q, i) = Buddy(p, h)
      <4>1. Half(p, h) = <<Buddy(p, h), h>>
        BY <1>22
      <4> QED
        BY <3>1, <4>1
    <3>3. Aligned(q, i) /\ q \in Nat /\ i \in Nat
      BY <1>7, <1>17, HeapIs DEF Tiling, Proper
    <3>4. Buddy(Buddy(q, i), i) = q
      BY <3>3, BuddyIs
    <3>5. q = p
      BY <1>22, <3>2, <3>4
    <3> QED
      BY <1>22, <3>2, <3>5
  <2>3. CASE <<q, i>> \in B /\ <<Buddy(q, i), i>> \in B
    BY <1>6, <2>3 DEF NoBuddies
  <2> QED
    BY <1>4, <2>1, <2>2, <2>3
<1>24. \A q \in P \cup {p} : ~md[q].is_free
  BY <1>5, <1>6, <1>14
<1>25. BuddyOK(fb, md, P \cup {p})
  <2>1. P \cup {p} \subseteq Pages
    BY <1>2, <1>6
  <2> QED
    BY <1>4, <1>5, <1>17, <1>21, <1>23, <1>24, <2>1 DEF BuddyOK, C, V
<1>26. ASSUME NEW q \in Pages, md[q].is_slab PROVE metadata[q].is_slab
  <2>1. q # p
    BY <1>5, <1>26
  <2>2. ASSUME NEW i \in o..(j-1) PROVE q # Half(p, i)[1]
    <3>1. md[Half(p, i)[1]] = [order |-> i, is_free |-> TRUE, is_slab |-> FALSE]
      BY <1>5
    <3>2. ~md[Half(p, i)[1]].is_slab
      BY <3>1
    <3> QED
      BY <1>26, <3>2
  <2> QED
    BY <1>5, <1>26, <2>1, <2>2
<1> QED
  BY <1>2, <1>5, <1>13, <1>14, <1>25, <1>26 DEF fb, md

(* The merge loop stops at an order where the buddy is not free, and below *)
(* that order all halves are free.                                         *)
LEMMA FreeChoice ==
  ASSUME NEW P, BuddyOK(free_areas, metadata, P), NEW p \in P,
         NEW o, o = metadata[p].order, NEW k, k = MergedOrder(p)
  PROVE  /\ p \in Pages /\ o \in Orders /\ k \in Orders /\ o <= k /\ Aligned(p, o)
         /\ Halves(p, o, k) \subseteq Blocks(free_areas)
         /\ k < MaxOrder => Half(p, k) \notin Blocks(free_areas)
<1> DEFINE S == {i \in o..MaxOrder : i = MaxOrder \/ ~Mergeable(p, i)}
<1>1. p \in Pages /\ o \in Orders /\ Aligned(p, o)
  BY FreeAndUsed
<1>2. Index(p) = p /\ MaxOrder \in Nat /\ o \in Nat /\ o <= MaxOrder /\ Orders \subseteq Nat
  BY <1>1, HeapIs DEF Orders
<1>3. k = Min(S)
  BY <1>2 DEF MergedOrder
<1>4. k \in S /\ \A i \in S : k <= i
  <2>1. S \in SUBSET Nat /\ MaxOrder \in S
    BY <1>2
  <2> HIDE DEF S
  <2> QED
    BY <1>3, <2>1, MinIsLeast
<1>5. k \in Orders /\ o <= k /\ k \in Nat /\ k <= MaxOrder
  BY <1>2, <1>4 DEF Orders
<1>6. ASSUME NEW i \in Orders, i < MaxOrder
      PROVE  Mergeable(p, i) <=> Half(p, i) \in Blocks(free_areas)
  <2> DEFINE q == Buddy(Grown(p, i), i)
  <2>1. Half(p, i) = <<q, i>>
    BY DEF Half
  <2>2. Half(p, i) \in Pages \X Orders
    BY <1>1, <1>6, HalfIs
  <2> HIDE DEF q
  <2>3. q \in Pages /\ Index(q) = q
    <3>1. q \in Pages
      BY <2>1, <2>2
    <3> QED
      BY <3>1, HeapIs
  <2>4. Mergeable(p, i) <=> (metadata[q].is_free /\ metadata[q].order = i)
    BY <2>3 DEF Mergeable, q
  <2>5. Marked(metadata, Blocks(free_areas))
    BY DEF BuddyOK
  <2> QED
    BY <2>1, <2>3, <2>4, <2>5 DEF Marked
<1>7. k < MaxOrder => Half(p, k) \notin Blocks(free_areas)
  BY <1>2, <1>4, <1>5, <1>6
<1>8. ASSUME NEW i \in o..(k-1) PROVE Half(p, i) \in Blocks(free_areas)
  <2>1. i \in Orders /\ i < MaxOrder /\ i \in o..MaxOrder /\ i < k
    BY <1>2, <1>5 DEF Orders
  <2>2. i \notin S
    BY <1>2, <1>4, <1>5, <2>1
  <2> QED
    BY <1>6, <2>1, <2>2
<1>9. Halves(p, o, k) \subseteq Blocks(free_areas)
  BY <1>8 DEF Halves
<1> QED
  BY <1>1, <1>5, <1>7, <1>9

(* The blocks after p's has been freed, and merged up to order k.          *)
LEMMA FreedBlocks ==
  ASSUME NEW P, BuddyOK(free_areas, metadata, P), NEW p \in P,
         NEW o, o = metadata[p].order, NEW k, k = MergedOrder(p),
         NEW g, g = Grown(p, k)
  PROVE  /\ g \in Pages /\ <<g, k>> \notin Blocks(free_areas)
         /\ AreasOK(FreeAreas(p))
         /\ Blocks(FreeAreas(p)) = (Blocks(free_areas) \ Halves(p, o, k)) \cup {<<g, k>>}
<1> DEFINE B == Blocks(free_areas)
           fb == FreeAreas(p)
           u == <<p, o>>
<1>1. p \in Pages /\ o \in Orders /\ k \in Orders /\ o <= k /\ Aligned(p, o)
      /\ Halves(p, o, k) \subseteq B
  BY FreeChoice
<1>2. AreasOK(free_areas)
  BY DEF BuddyOK
<1>3. MaxOrder \in Nat /\ o \in Nat /\ k \in Nat /\ k <= MaxOrder /\ Orders \subseteq Nat
      /\ p \in Nat
  BY <1>1, HeapIs DEF Orders
<1>4. /\ \A i \in o..(k-1) : i \in Orders /\ Half(p, i) \in Pages \X Orders
                               /\ Half(p, i) \in Halves(p, o, k) /\ Half(p, i)[2] = i
  BY <1>1, HalvesDistinct
<1>5. g \in Pages /\ Same(p, g, k)
  <2>1. g \in Nat /\ Same(g, p, k)
    BY <1>3, GrownIs
  <2> QED
    BY <1>1, <2>1, InHeap, SameEquivalence
<1>6. <<g, k>> \notin B
  <2>1. Covers(u, p) /\ Covers(<<g, k>>, p)
    BY <1>5, SameEquivalence DEF Covers
  <2>2. \A b \in B, q \in Pages : ~(Covers(u, q) /\ Covers(b, q))
    BY FreeAndUsed
  <2> HIDE DEF B
  <2> QED
    BY <1>1, <2>1, <2>2
<1> HIDE DEF B
<1>7. ASSUME NEW i \in Orders PROVE Listing(free_areas[i], Pages) /\ ToSet(free_areas[i]) \subseteq Pages
  BY <1>2, ListElements DEF AreasOK, Listing
<1>8. ASSUME NEW i \in Orders
      PROVE  /\ i = k => fb[i] = Cons(g, free_areas[i])
             /\ o <= i /\ i < k => fb[i] = RemoveFirst(free_areas[i], Half(p, i)[1])
             /\ ~(i = k \/ (o <= i /\ i < k)) => fb[i] = free_areas[i]
  <2>1. Index(p) = p
    BY <1>1, HeapIs
  <2>2. Half(p, i)[1] = Buddy(Grown(p, i), i)
    BY DEF Half
  <2>3. fb[i] = IF i = k THEN Cons(g, free_areas[i])
                ELSE IF o <= i /\ i < k
                THEN RemoveFirst(free_areas[i], Half(p, i)[1])
                ELSE free_areas[i]
    BY <2>1, <2>2 DEF FreeAreas
  <2> HIDE DEF fb
  <2> QED
    BY <1>3, <2>3
<1>9. fb = [i \in Orders |-> fb[i]]
  BY DEF FreeAreas
<1> HIDE DEF fb
<1>10. ASSUME NEW i \in Orders, o <= i, i < k
       PROVE  i \in o..(k-1) /\ Half(p, i)[1] \in ToSet(free_areas[i])
  <2>1. i \in o..(k-1)
    BY <1>3, <1>10
  <2>2. Half(p, i) \in B /\ Half(p, i)[2] = i
    BY <1>1, <1>4, <2>1
  <2> QED
    BY <2>1, <2>2 DEF B, Blocks
<1>11. ASSUME NEW i \in Orders
       PROVE  /\ Listing(fb[i], Pages)
              /\ ToSet(fb[i]) = IF i = k THEN ToSet(free_areas[i]) \cup {g}
                                ELSE IF o <= i /\ i < k
                                THEN ToSet(free_areas[i]) \ {Half(p, i)[1]}
                                ELSE ToSet(free_areas[i])
  <2>1. CASE i = k
    <3>1. g \notin ToSet(free_areas[i])
      BY <1>5, <1>6, <2>1 DEF B, Blocks
    <3> QED
      BY <1>5, <1>7, <1>8, <2>1, <3>1, ListCons
  <2>2. CASE o <= i /\ i < k
    <3>1. i # k
      BY <1>3, <2>2
    <3> QED
      BY <1>7, <1>8, <1>10, <2>2, <3>1, ListRemove
  <2>3. CASE ~(i = k \/ (o <= i /\ i < k))
    BY <1>7, <1>8, <2>3
  <2> QED
    BY <2>1, <2>2, <2>3
<1>12. AreasOK(fb)
  BY <1>9, <1>11 DEF AreasOK, Listing
<1> DEFINE C == (B \ Halves(p, o, k)) \cup {<<g, k>>}
<1>13. ASSUME NEW q \in Pages, NEW i \in Orders PROVE q \in ToSet(fb[i]) <=> <<q, i>> \in C
  <2>1. <<q, i>> \in B <=> q \in ToSet(free_areas[i])
    BY DEF B, Blocks
  <2>2. <<q, i>> \in Halves(p, o, k) <=> o <= i /\ i < k /\ q = Half(p, i)[1]
    <3>1. ASSUME o <= i, i < k PROVE i \in o..(k-1) /\ Half(p, i) = <<Half(p, i)[1], i>>
      <4>1. i \in o..(k-1)
        BY <1>10, <3>1
      <4>2. Half(p, i) \in Pages \X Orders /\ Half(p, i)[2] = i
        BY <1>4, <4>1
      <4> QED
        BY <4>1, <4>2
    <3>2. <<q, i>> \in Halves(p, o, k) <=> \E h \in o..(k-1) : <<q, i>> = Half(p, h)
      BY DEF Halves
    <3>3. \A h \in o..(k-1) : o <= h /\ h < k /\ Half(p, h)[2] = h
      BY <1>3, <1>4
    <3>4. \A h \in o..(k-1) : <<q, i>> = Half(p, h) => h = i /\ q = Half(p, h)[1]
      BY <3>3
    <3> QED
      BY <3>1, <3>2, <3>3, <3>4
  <2>3. <<q, i>> = <<g, k>> <=> i = k /\ q = g
    OBVIOUS
  <2>4. i = k => ~(o <= i /\ i < k)
    BY <1>3
  <2> QED
    BY <1>11, <2>1, <2>2, <2>3, <2>4
<1>14. C \subseteq Pages \X Orders
  BY <1>1, <1>5 DEF B, Blocks
<1> HIDE DEF C
<1>15. Blocks(fb) = C
  BY <1>13, <1>14 DEF Blocks
<1> QED
  BY <1>5, <1>6, <1>12, <1>15 DEF B, C, fb

(* The metadata after p's block has been freed.                            *)
LEMMA FreeMarks ==
  ASSUME NEW P, BuddyOK(free_areas, metadata, P), NEW p \in P,
         NEW o, o = metadata[p].order, NEW k, k = MergedOrder(p),
         NEW g, g = Grown(p, k)
  PROVE  /\ MetaType(FreeMeta(p))
         /\ FreeMeta(p)[g] = [order |-> k, is_free |-> TRUE, is_slab |-> FALSE]
         /\ \A q \in Pages : q # g /\ (\E i \in o..(k-1) : q = Half(p, i)[1])
                               => FreeMeta(p)[q] = [metadata[q] EXCEPT !.is_free = FALSE]
         /\ \A q \in Pages : q # g /\ (\A i \in o..(k-1) : q # Half(p, i)[1])
                               => FreeMeta(p)[q] = metadata[q]
<1> DEFINE md == FreeMeta(p)
           M == [order : Orders, is_free : BOOLEAN, is_slab : BOOLEAN]
<1>1. p \in Pages /\ o \in Orders /\ k \in Orders /\ o <= k /\ Aligned(p, o)
  BY FreeChoice
<1>2. g \in Pages
  BY FreedBlocks
<1>3. \A i \in o..(k-1) : Half(p, i) \in Pages \X Orders
  BY <1>1, HalvesDistinct
<1>4. ASSUME NEW q \in Pages
      PROVE  md[q] = IF q = g THEN [order |-> k, is_free |-> TRUE, is_slab |-> FALSE]
                     ELSE IF \E i \in o..(k-1) : q = Half(p, i)[1]
                     THEN [metadata[q] EXCEPT !.is_free = FALSE]
                     ELSE metadata[q]
  <2>1. Index(p) = p /\ Index(g) = g
    BY <1>1, <1>2, HeapIs
  <2>2. \A i \in o..(k-1) : Half(p, i)[1] = Buddy(Grown(p, i), i)
    BY DEF Half
  <2>3. \A i \in o..(k-1) : Index(Buddy(Grown(p, i), i)) = Half(p, i)[1]
    BY <1>3, <2>2, HeapIs
  <2>4. md[q] = IF q = Index(g) THEN [order |-> k, is_free |-> TRUE, is_slab |-> FALSE]
                ELSE IF \E i \in o..(k-1) : q = Index(Buddy(Grown(p, i), i))
                THEN [metadata[q] EXCEPT !.is_free = FALSE]
                ELSE metadata[q]
    BY <2>1 DEF FreeMeta
  <2>5. (\E i \in o..(k-1) : q = Index(Buddy(Grown(p, i), i))) <=> (\E i \in o..(k-1) : q = Half(p, i)[1])
    BY <2>3
  <2> HIDE DEF md
  <2> QED
    BY <2>1, <2>4, <2>5
<1>5. md = [q \in Pages |-> md[q]]
  BY DEF FreeMeta
<1> HIDE DEF md
<1>6. MetaType(md)
  <2>1. [order |-> k, is_free |-> TRUE, is_slab |-> FALSE] \in M
    BY <1>1
  <2>2. \A q \in Pages : metadata[q] \in M
    BY DEF BuddyOK, MetaType
  <2>3. \A q \in Pages : [metadata[q] EXCEPT !.is_free = FALSE] \in M
    BY <2>2
  <2> HIDE DEF M
  <2>4. ASSUME NEW q \in Pages PROVE md[q] \in M
    <3>1. \/ md[q] = [order |-> k, is_free |-> TRUE, is_slab |-> FALSE]
          \/ md[q] = [metadata[q] EXCEPT !.is_free = FALSE]
          \/ md[q] = metadata[q]
      BY <1>4
    <3> QED
      BY <2>1, <2>2, <2>3, <3>1
  <2> QED
    BY <1>5, <2>4 DEF MetaType, M
<1> QED
  BY <1>2, <1>4, <1>6 DEF md

(* buddy_free takes back the block at p and touches no other block in use. *)
LEMMA FreeBuddy ==
  ASSUME NEW P, BuddyOK(free_areas, metadata, P), NEW p \in P
  PROVE  /\ BuddyOK(FreeAreas(p), FreeMeta(p), P \ {p})
         /\ \A q \in P \ {p} : FreeMeta(p)[q] = metadata[q]
         /\ \A q \in Pages : FreeMeta(p)[q].is_slab => metadata[q].is_slab
<1>1. PICK o : o = metadata[p].order
  OBVIOUS
<1>2. PICK k : k = MergedOrder(p)
  OBVIOUS
<1>3. PICK g : g = Grown(p, k)
  OBVIOUS
<1> DEFINE B == Blocks(free_areas)
           U == UsedBlocks(metadata, P)
           fb == FreeAreas(p)
           md == FreeMeta(p)
           C == Blocks(fb)
           V == UsedBlocks(md, P \ {p})
           u == <<p, o>>
           n == <<g, k>>
           H == Halves(p, o, k)
           R == {u} \cup H
<1> HIDE DEF B, U, fb, md, C, V
<1>4. /\ p \in Pages /\ o \in Orders /\ k \in Orders /\ o <= k /\ Aligned(p, o)
      /\ H \subseteq B /\ (k < MaxOrder => Half(p, k) \notin B)
  BY <1>1, <1>2, FreeChoice DEF B
<1>5. g \in Pages /\ n \notin B /\ AreasOK(fb) /\ C = (B \ H) \cup {n}
  BY <1>1, <1>2, <1>3, FreedBlocks DEF B, C, fb
<1>6. /\ MetaType(md)
      /\ md[g] = [order |-> k, is_free |-> TRUE, is_slab |-> FALSE]
      /\ \A q \in Pages : q # g /\ (\E i \in o..(k-1) : q = Half(p, i)[1])
                            => md[q] = [metadata[q] EXCEPT !.is_free = FALSE]
      /\ \A q \in Pages : q # g /\ (\A i \in o..(k-1) : q # Half(p, i)[1])
                            => md[q] = metadata[q]
  BY <1>1, <1>2, <1>3, FreeMarks DEF md
<1>7. /\ P \subseteq Pages /\ Tiling(B \cup U) /\ Marked(metadata, B) /\ NoBuddies(B)
      /\ MetaType(metadata) /\ \A q \in P : ~metadata[q].is_free
  BY DEF BuddyOK, B, U
<1>8. o \in Nat /\ k \in Nat /\ MaxOrder \in Nat /\ k <= MaxOrder /\ p \in Nat
      /\ Orders \subseteq Nat /\ Pages \subseteq Nat
  BY <1>4, HeapIs DEF Orders
<1>9. /\ Proper({n}) /\ Apart({n})
      /\ \A q \in Pages : CoveredBy(R, q) <=> Same(q, p, k)
      /\ \A q \in Pages : CoveredBy({n}, q) <=> Same(q, p, k)
  BY <1>3, <1>4, HalvesTile
<1>10. \A i \in o..(k-1) : Half(p, i) \in Pages \X Orders /\ Half(p, i) \in H
                             /\ Half(p, i)[2] = i
  BY <1>4, HalvesDistinct
<1>11. /\ \A q \in P : <<q, metadata[q].order>> \in U
       /\ \A q \in P, h \in Orders : <<q, h>> \notin B
       /\ \A q \in P : metadata[q].order \in Orders
       /\ U \cap B = {} /\ u \in U
  <2>1. ASSUME NEW q \in P
        PROVE  <<q, metadata[q].order>> \in U /\ metadata[q].order \in Orders
               /\ \A h \in Orders : <<q, h>> \notin B
    BY FreeAndUsed DEF B, U
  <2>2. U \cap B = {}
    <3>1. ASSUME NEW b \in U PROVE b \notin B
      <4>1. PICK q \in P : b = <<q, metadata[q].order>>
        BY DEF U, UsedBlocks
      <4> QED
        BY <2>1, <4>1
    <3> QED
      BY <3>1
  <2> QED
    BY <1>1, <2>1, <2>2
<1> HIDE DEF H
<1>12. ASSUME NEW q \in P \ {p} PROVE q \in Pages /\ ~Same(q, p, k)
  <2>1. q \in Pages
    BY <1>7
  <2>2. ASSUME Same(q, p, k) PROVE FALSE
    <3>1. PICK r \in R : Covers(r, q)
      BY <1>9, <2>1, <2>2 DEF CoveredBy
    <3> DEFINE w == <<q, metadata[q].order>>
    <3>2. w \in U /\ Covers(w, q)
      BY <1>11, SameEquivalence DEF Covers
    <3>3. w # u /\ w \notin B
      BY <1>11
    <3> HIDE DEF w
    <3>4. r \in B \cup U
      BY <1>4, <1>11
    <3>5. r = w
      BY <1>7, <2>1, <3>1, <3>2, <3>4 DEF Tiling, Apart
    <3> QED
      BY <1>4, <3>3, <3>5
  <2> QED
    BY <2>1, <2>2
<1>13. Same(g, p, k)
  <2>1. Covers(n, g)
    BY SameEquivalence DEF Covers
  <2> QED
    BY <1>5, <1>9, <2>1 DEF CoveredBy
<1>14. ASSUME NEW i \in o..(k-1) PROVE Half(p, i)[1] \in Pages /\ Same(Half(p, i)[1], p, k)
  <2> DEFINE q == Half(p, i)[1]
  <2>1. q \in Pages /\ Half(p, i) \in R
    BY <1>10
  <2>2. Covers(Half(p, i), q)
    BY <1>10, SameEquivalence DEF Covers
  <2> HIDE DEF q, R
  <2>3. CoveredBy(R, q)
    BY <2>1, <2>2 DEF CoveredBy
  <2> QED
    BY <1>9, <2>1, <2>3 DEF q
<1>15. ASSUME NEW q \in P \ {p} PROVE md[q] = metadata[q]
  BY <1>6, <1>12, <1>13, <1>14
<1>16. V = U \ {u}
  BY <1>1, <1>15 DEF U, V, UsedBlocks
<1>17. Tiling(C \cup V)
  <2>1. R \in SUBSET (B \cup U)
    BY <1>4, <1>11
  <2>2. \A q \in Pages : CoveredBy(R, q) <=> CoveredBy({n}, q)
    BY <1>9
  <2>3. ((B \cup U) \ R) \cup {n} = C \cup V
    BY <1>4, <1>5, <1>11, <1>16
  <2> HIDE DEF R, n
  <2>4. Tiling(((B \cup U) \ R) \cup {n})
    BY <1>7, <1>9, <2>1, <2>2, TilingReplace
  <2> QED
    BY <2>3, <2>4
<1>18. ASSUME NEW q \in Pages, NEW i \in Orders, <<q, i>> \in C, Same(q, p, k)
       PROVE  q = g /\ i = k
  <2>1. Covers(<<q, i>>, q)
    BY SameEquivalence DEF Covers
  <2>2. Covers(n, q)
    BY <1>9, <1>18 DEF CoveredBy
  <2>3. n \in C
    BY <1>5
  <2>4. <<q, i>> = n
    BY <1>17, <1>18, <2>1, <2>2, <2>3 DEF Tiling, Apart
  <2> QED
    BY <2>4
<1>19. Marked(md, C)
  <2> SUFFICES ASSUME NEW q \in Pages, NEW i \in Orders
               PROVE  (md[q].is_free /\ md[q].order = i) <=> <<q, i>> \in C
    BY DEF Marked
  <2>1. CASE q = g
    <3>1. md[q].is_free /\ md[q].order = k
      BY <1>6, <2>1
    <3>2. <<q, i>> \in C => i = k
      BY <1>13, <1>18, <2>1
    <3>3. <<q, k>> \in C
      BY <1>5, <2>1
    <3> QED
      BY <3>1, <3>2, <3>3
  <2>2. CASE q # g /\ \E h \in o..(k-1) : q = Half(p, h)[1]
    <3>1. md[q] = [metadata[q] EXCEPT !.is_free = FALSE]
      BY <1>6, <2>2
    <3>2. metadata[q] \in [order : Orders, is_free : BOOLEAN, is_slab : BOOLEAN]
      BY <1>7 DEF MetaType
    <3>3. ~md[q].is_free
      BY <3>1, <3>2
    <3>4. <<q, i>> \notin C
      BY <1>14, <1>18, <2>2
    <3> QED
      BY <3>3, <3>4
  <2>3. CASE q # g /\ \A h \in o..(k-1) : q # Half(p, h)[1]
    <3>1. md[q] = metadata[q]
      BY <1>6, <2>3
    <3>2. <<q, i>> # n /\ <<q, i>> \notin H
      BY <2>3 DEF H, Halves
    <3>3. (metadata[q].is_free /\ metadata[q].order = i) <=> <<q, i>> \in B
      BY <1>7 DEF Marked
    <3> QED
      BY <1>5, <3>1, <3>2, <3>3
  <2> QED
    BY <2>1, <2>2, <2>3
<1>20. ASSUME k < MaxOrder
       PROVE  /\ Buddy(g, k) # g /\ <<Buddy(g, k), k>> \notin C
              /\ \A q \in Nat : Aligned(q, k) /\ Buddy(q, k) = g => q = Buddy(g, k)
  <2>1. Half(p, k) = <<Buddy(g, k), k>>
    BY <1>3 DEF Half
  <2>2. g \in Nat /\ Aligned(g, k)
    BY <1>3, <1>8, GrownIs
  <2>3. Buddy(g, k) # g
    BY <1>8, <2>2, BuddyIs, SameEquivalence
  <2>4. <<Buddy(g, k), k>> \notin B
    BY <1>4, <1>20, <2>1
  <2>5. <<Buddy(g, k), k>> # n
    BY <2>3
  <2>6. ASSUME NEW q \in Nat, Aligned(q, k), Buddy(q, k) = g PROVE q = Buddy(g, k)
    <3>1. Buddy(Buddy(q, k), k) = q
      BY <1>8, <2>6, BuddyIs
    <3> QED
      BY <2>6, <3>1
  <2> QED
    BY <1>5, <2>3, <2>4, <2>5, <2>6
<1>21. NoBuddies(C)
  <2> SUFFICES ASSUME NEW q \in Pages, NEW i \in Orders, <<q, i>> \in C, i < MaxOrder,
                      <<Buddy(q, i), i>> \in C
               PROVE  FALSE
    BY DEF NoBuddies
  <2>1. CASE <<q, i>> = n
    <3>1. q = g /\ i = k
      BY <2>1
    <3> QED
      BY <1>20, <3>1
  <2>2. CASE <<Buddy(q, i), i>> = n
    <3>1. Buddy(q, i) = g /\ i = k
      BY <2>2
    <3>2. Aligned(q, i)
      BY <1>17 DEF Tiling, Proper
    <3>3. q = Buddy(g, k)
      BY <1>8, <1>20, <3>1, <3>2
    <3> QED
      BY <1>20, <3>1, <3>3
  <2>3. CASE <<q, i>> # n /\ <<Buddy(q, i), i>> # n
    <3>1. <<q, i>> \in B /\ <<Buddy(q, i), i>> \in B
      BY <1>5, <2>3
    <3> QED
      BY <1>7, <3>1 DEF NoBuddies
  <2> QED
    BY <2>1, <2>2, <2>3
<1>22. BuddyOK(fb, md, P \ {p})
  <2>1. P \ {p} \subseteq Pages
    BY <1>7
  <2>2. \A q \in P \ {p} : ~md[q].is_free
    BY <1>7, <1>15
  <2> QED
    BY <1>5, <1>6, <1>17, <1>19, <1>21, <2>1, <2>2 DEF BuddyOK, C, V
<1>23. ASSUME NEW q \in Pages, md[q].is_slab PROVE metadata[q].is_slab
  <2>1. q # g
    BY <1>6, <1>23
  <2>2. CASE \E i \in o..(k-1) : q = Half(p, i)[1]
    <3>1. md[q] = [metadata[q] EXCEPT !.is_free = FALSE]
      BY <1>6, <2>1, <2>2
    <3>2. metadata[q] \in [order : Orders, is_free : BOOLEAN, is_slab : BOOLEAN]
      BY <1>7 DEF MetaType
    <3>3. md[q].is_slab = metadata[q].is_slab
      BY <3>1, <3>2
    <3> QED
      BY <1>23, <3>3
  <2>3. CASE \A i \in o..(k-1) : q # Half(p, i)[1]
    BY <1>6, <1>23, <2>1, <2>3
  <2> QED
    BY <2>2, <2>3
<1> QED
  BY <1>15, <1>22, <1>23 DEF fb, md

-----------------------------------------------------------------------------
(* The slabs, and the invariant of the whole heap.                         *)

Objects(c, p) == {p * PageSize + SlabHeader + (i - 1) * ObjSizes[c] : i \in 1..SlabCapacity(c)}
LiveOn(L, p) == {r \in L : PageOf(r.addr) = p}
Addrs(L) == {r.addr : r \in L}
OneEach(L) == \A r, s \in L : r.addr = s.addr => r = s

SlabType == [cache : Nat, free_list : Seq(Nat), free_count : Nat, total_count : Nat]

(* The slab s of page p, when L are the objects on it that are in use: the *)
(* others are on its list. Between two calls some object is in use.        *)
SlabShape(s, p, L) ==
  /\ s \in SlabType /\ s.cache \in Caches
  /\ Listing(s.free_list, Objects(s.cache, p))
  /\ s.free_count = Len(s.free_list) /\ s.total_count = SlabCapacity(s.cache)
  /\ Addrs(L) = Objects(s.cache, p) \ ToSet(s.free_list)
  /\ \A r \in L : r.size <= ObjSizes[s.cache]

SlabGood(s, p, L) == SlabShape(s, p, L) /\ s.free_count < s.total_count

(* The slabs of cache c with room, and without.                            *)
Roomy(S, sl, c) == {p \in S : sl[p].cache = c /\ sl[p].free_count # 0}
Filled(S, sl, c) == {p \in S : sl[p].cache = c /\ sl[p].free_count = 0}

ListsGood(part, full, S, sl) ==
  /\ part \in [Caches -> Seq(Pages)] /\ full \in [Caches -> Seq(Pages)]
  /\ \A c \in Caches :
       /\ Listing(part[c], Pages) /\ ToSet(part[c]) = Roomy(S, sl, c)
       /\ Listing(full[c], Pages) /\ ToSet(full[c]) = Filled(S, sl, c)

(* Where the blocks in use start: at slabs and at large allocations.       *)
UsedPages(md, L) ==
  {p \in Pages : md[p].is_slab}
  \cup {PageOf(r.addr) : r \in {s \in L : ~md[PageOf(s.addr)].is_slab}}

LiveType(L) ==
  /\ L \subseteq [addr : Nat, size : Requests]
  /\ \A r, s \in L : r.addr = s.addr => r = s
  /\ \A r \in L : PageOf(r.addr) \in Pages

(* A large allocation fills a block from its start.                        *)
LargeGood(md, r) ==
  LET p == PageOf(r.addr)
  IN ~md[p].is_slab => r.addr = p * PageSize /\ r.size <= PageSize * 2^md[p].order

HeapInv ==
  /\ LiveType(live)
  /\ BuddyOK(free_areas, metadata, UsedPages(metadata, live))
  /\ slab \in [Pages -> SlabType]
  /\ \A p \in SlabPages : metadata[p].order = 0 /\ SlabGood(slab[p], p, LiveOn(live, p))
  /\ \A r \in live : LargeGood(metadata, r)
  /\ ListsGood(slabs_partial, slabs_full, SlabPages, slab)

(* A step hands out one allocation that was not there.                     *)
HandsOut == \E r : r \notin live /\ r.size \in Requests /\ live' = live \cup {r}

(* The objects of a page lie behind the header, one after the other.       *)
LEMMA CapacityIs ==
  ASSUME NEW c \in Caches
  PROVE  /\ ObjSizes[c] \in Nat \ {0} /\ SlabCapacity(c) \in Nat \ {0}
         /\ SlabCapacity(c) * ObjSizes[c] <= PageSize - SlabHeader
<1> DEFINE w == ObjSizes[c]
           n == SlabCapacity(c)
           room == PageSize - SlabHeader
<1>1. w \in Nat \ {0} /\ SlabHeader \in Nat /\ PageSize \in Nat /\ SlabHeader + w <= PageSize
  BY HeapShape DEF Caches
<1>2. room \in Nat /\ w <= room
  BY <1>1
<1> HIDE DEF room, w
<1>3. room \div w \in Nat /\ room % w \in 0..(w - 1) /\ room = w * (room \div w) + (room % w)
  BY <1>1, <1>2, Division
<1> DEFINE m == room \div w
<1>4. n = m
  BY DEF SlabCapacity, room, w
<1> HIDE DEF m, n
<1>5. m \in Nat /\ room = w * m + (room % w) /\ room % w \in 0..(w - 1)
  BY <1>3 DEF m
<1>6. w * m = m * w /\ w * m \in Nat
  BY <1>1, <1>5
<1>7. m # 0
  <2>1. m = 0 => w * m = 0
    BY <1>1
  <2> QED
    BY <1>1, <1>2, <1>5, <2>1
<1>8. m * w <= room
  BY <1>1, <1>2, <1>5, <1>6
<1> QED
  BY <1>1, <1>4, <1>5, <1>7, <1>8 DEF n, room, w

LEMMA ObjectIs ==
  ASSUME NEW c \in Caches, NEW p \in Nat, NEW x \in Objects(c, p)
  PROVE  /\ x \in Nat /\ p * PageSize + SlabHeader <= x
         /\ x + ObjSizes[c] <= p * PageSize + PageSize /\ PageOf(x) = p
         /\ \A y \in Objects(c, p) : x # y => x + ObjSizes[c] <= y \/ y + ObjSizes[c] <= x
<1> DEFINE w == ObjSizes[c]
           n == SlabCapacity(c)
           base == p * PageSize
           at(i) == base + SlabHeader + (i - 1) * w
<1>1. /\ w \in Nat \ {0} /\ n \in Nat \ {0} /\ n * w <= PageSize - SlabHeader
      /\ PageSize \in Nat \ {0} /\ SlabHeader \in Nat
  BY CapacityIs, HeapShape
<1>2. base \in Nat /\ base = PageSize * p
  BY <1>1
<1>3. Objects(c, p) = {at(i) : i \in 1..n}
  BY DEF Objects
<1> HIDE DEF w, n, base
<1>4. PICK i \in 1..n : x = at(i)
  BY <1>3
<1>5. ASSUME NEW h \in 1..n PROVE (h - 1) * w \in Nat /\ (h - 1) * w + w <= n * w /\ (h - 1) * w + w = h * w
  BY <1>1
<1>6. x \in Nat /\ base + SlabHeader <= x /\ x + w <= base + PageSize
  BY <1>1, <1>2, <1>4, <1>5
<1>7. PageOf(x) = p
  <2>1. PageSize * p <= x /\ x < PageSize * p + PageSize /\ p \in Int
    BY <1>1, <1>2, <1>6
  <2>2. x \div PageSize = p
    BY <1>1, <1>6, <2>1, QuotientUnique
  <2> QED
    BY <2>2 DEF PageOf
<1>8. ASSUME NEW y \in Objects(c, p), x # y PROVE x + w <= y \/ y + w <= x
  <2>1. PICK h \in 1..n : y = at(h)
    BY <1>3
  <2>2. i # h
    BY <1>4, <1>8, <2>1
  <2>3. i < h => (i - 1) * w + w <= (h - 1) * w
    BY <1>1
  <2>4. h < i => (h - 1) * w + w <= (i - 1) * w
    BY <1>1
  <2>5. (i - 1) * w \in Nat /\ (h - 1) * w \in Nat
    BY <1>5
  <2> QED
    BY <1>1, <1>2, <1>4, <2>1, <2>2, <2>3, <2>4, <2>5
<1> QED
  BY <1>6, <1>7, <1>8 DEF w, base

(* slab_create cuts the page into all its objects.                         *)
LEMMA NewSlabIs ==
  ASSUME NEW c \in Caches, NEW p \in Nat
  PROVE  /\ NewSlab(c, p) \in SlabType /\ NewSlab(c, p).cache = c
         /\ Listing(NewSlab(c, p).free_list, Objects(c, p))
         /\ ToSet(NewSlab(c, p).free_list) = Objects(c, p)
         /\ NewSlab(c, p).free_count = SlabCapacity(c)
         /\ NewSlab(c, p).total_count = SlabCapacity(c)
         /\ Len(NewSlab(c, p).free_list) = SlabCapacity(c)
         /\ IsFiniteSet(Objects(c, p)) /\ Cardinality(Objects(c, p)) = SlabCapacity(c)
<1> DEFINE w == ObjSizes[c]
           n == SlabCapacity(c)
           base == p * PageSize + SlabHeader
           f == [i \in 1..n |-> base + (i - 1) * w]
           O == Objects(c, p)
<1>1. w \in Nat \ {0} /\ n \in Nat \ {0} /\ PageSize \in Nat /\ SlabHeader \in Nat
  BY CapacityIs, HeapShape
<1>2. base \in Nat
  BY <1>1
<1>3. O = {base + (i - 1) * w : i \in 1..n} /\ NewSlab(c, p).free_list = f
  BY <1>1 DEF Objects, NewSlab
<1> HIDE DEF w, n, base, O
<1>4. \A x \in O : x \in Nat
  BY ObjectIs DEF O
<1>5. f \in Seq(O) /\ Len(f) = n
  BY <1>1, <1>3
<1>6. \A i, h \in 1..n : f[i] = f[h] => i = h
  <2> SUFFICES ASSUME NEW i \in 1..n, NEW h \in 1..n, f[i] = f[h] PROVE i = h
    OBVIOUS
  <2>1. (i - 1) * w = (h - 1) * w
    <3>1. (i - 1) * w \in Int /\ (h - 1) * w \in Int
      BY <1>1
    <3> QED
      BY <1>2, <3>1
  <2>2. ASSUME i < h PROVE FALSE
    <3>1. (i - 1) * w < (h - 1) * w
      BY <1>1, <2>2
    <3> QED
      BY <1>1, <2>1, <3>1
  <2>3. ASSUME h < i PROVE FALSE
    <3>1. (h - 1) * w < (i - 1) * w
      BY <1>1, <2>3
    <3> QED
      BY <1>1, <2>1, <3>1
  <2> QED
    BY <2>2, <2>3
<1>7. ToSet(f) = O
  BY <1>3 DEF ToSet
<1> HIDE DEF f
<1>8. Listing(f, O)
  BY <1>5, <1>6 DEF Listing
<1>9. IsFiniteSet(O) /\ Cardinality(O) = n
  BY <1>5, <1>7, <1>8, ListSize
<1>10. f \in Seq(Nat)
  BY <1>4, <1>5, SeqMonotonic
<1>11. c \in Nat
  BY HeapShape DEF Caches
<1>12. NewSlab(c, p) = [cache |-> c, free_list |-> f, free_count |-> n, total_count |-> n]
  BY <1>3 DEF NewSlab, n
<1> QED
  BY <1>1, <1>5, <1>7, <1>8, <1>9, <1>10, <1>11, <1>12 DEF n, O, SlabType

-----------------------------------------------------------------------------
(* One slab, and the lists of slabs.                                       *)

(* slab_alloc hands out the first object of the list.                      *)
LEMMA TakeObject ==
  ASSUME NEW s, NEW p \in Nat, NEW L, SlabShape(s, p, L), s.free_count # 0,
         NEW t, t = [s EXCEPT !.free_list = Tail(@), !.free_count = @ - 1],
         NEW size, size <= ObjSizes[s.cache],
         NEW r, r = [addr |-> Head(s.free_list), size |-> size]
  PROVE  /\ SlabGood(t, p, L \cup {r}) /\ t.cache = s.cache /\ t.free_count = s.free_count - 1
         /\ r.addr \in Objects(s.cache, p) /\ r.addr \notin Addrs(L)
<1> DEFINE c == s.cache
           O == Objects(c, p)
           f == s.free_list
           x == Head(f)
<1>1. /\ s \in SlabType /\ c \in Caches /\ Listing(f, O) /\ s.free_count = Len(f)
      /\ s.total_count = SlabCapacity(c) /\ Addrs(L) = O \ ToSet(f)
      /\ \A y \in L : y.size <= ObjSizes[c]
  BY DEF SlabShape
<1>2. /\ t.cache = c /\ t.free_list = Tail(f) /\ t.free_count = s.free_count - 1
      /\ t.total_count = s.total_count
  BY <1>1 DEF SlabType
<1>3. f \in Seq(O) /\ Len(f) \in Nat /\ f # <<>>
  BY <1>1 DEF Listing
<1> HIDE DEF O, f
<1>4. x \in ToSet(f) /\ Listing(Tail(f), O) /\ ToSet(Tail(f)) = ToSet(f) \ {x}
      /\ Len(Tail(f)) = Len(f) - 1
  BY <1>1, <1>3, ListTail
<1>5. ToSet(f) \subseteq O
  BY <1>3, ListElements
<1> HIDE DEF x
<1>6. Addrs(L \cup {r}) = Addrs(L) \cup {x}
  BY DEF Addrs, x, f
<1>7. Addrs(L \cup {r}) = O \ ToSet(Tail(f))
  BY <1>1, <1>4, <1>5, <1>6
<1>8. Len(f) <= SlabCapacity(c)
  <2>1. IsFiniteSet(O) /\ Cardinality(O) = SlabCapacity(c)
    BY <1>1, NewSlabIs DEF O
  <2>2. Cardinality(ToSet(f)) = Len(f)
    BY <1>1, ListSize
  <2>3. ToSet(f) \in SUBSET O
    BY <1>5
  <2>4. Cardinality(ToSet(f)) <= Cardinality(O)
    BY <2>1, <2>3, FS_Subset
  <2> QED
    BY <2>1, <2>2, <2>4
<1>9. t \in SlabType
  <2>1. Tail(f) \in Seq(Nat) /\ s.free_count - 1 \in Nat
    BY <1>1, <1>3 DEF SlabType, f
  <2> QED
    BY <1>1, <2>1 DEF SlabType, f
<1>10. \A y \in L \cup {r} : y.size <= ObjSizes[c]
  BY <1>1
<1>11. t.free_count = Len(Tail(f)) /\ t.free_count < t.total_count
  <2>1. SlabCapacity(c) \in Nat
    BY <1>1, CapacityIs
  <2> QED
    BY <1>1, <1>2, <1>3, <1>4, <1>8, <2>1
<1>12. SlabShape(t, p, L \cup {r})
  BY <1>1, <1>2, <1>4, <1>7, <1>9, <1>10, <1>11 DEF SlabShape, O
<1>13. x \in O /\ x \notin Addrs(L) /\ r.addr = x
  BY <1>1, <1>4, <1>5 DEF x, f
<1> QED
  BY <1>2, <1>11, <1>12, <1>13 DEF SlabGood, O

(* slab_free puts an object back at the head of the list.                  *)
LEMMA GiveObject ==
  ASSUME NEW s, NEW p \in Nat, NEW L, SlabGood(s, p, L),
         OneEach(L),
         NEW r \in L, NEW t,
         t = [s EXCEPT !.free_list = Cons(r.addr, @), !.free_count = @ + 1]
  PROVE  SlabShape(t, p, L \ {r})
<1> DEFINE c == s.cache
           O == Objects(c, p)
           f == s.free_list
           x == r.addr
<1>1. /\ s \in SlabType /\ c \in Caches /\ Listing(f, O) /\ s.free_count = Len(f)
      /\ s.total_count = SlabCapacity(c) /\ Addrs(L) = O \ ToSet(f)
      /\ \A y \in L : y.size <= ObjSizes[c]
      /\ s.free_count < s.total_count
  BY DEF SlabGood, SlabShape
<1>2. /\ t.cache = c /\ t.free_list = Cons(x, f) /\ t.free_count = s.free_count + 1
      /\ t.total_count = s.total_count
  BY <1>1 DEF SlabType
<1>3. x \in O /\ x \notin ToSet(f) /\ f \in Seq(O) /\ Len(f) \in Nat
  BY <1>1 DEF Addrs, Listing
<1>4. x \in Nat
  BY <1>1, <1>3, ObjectIs
<1>5. t \in SlabType
  <2>1. f \in Seq(Nat) /\ s.free_count + 1 \in Nat
    BY <1>1 DEF SlabType
  <2>2. Cons(x, f) \in Seq(Nat)
    BY <1>4, <2>1 DEF Cons
  <2> QED
    BY <1>1, <2>1, <2>2 DEF SlabType
<1>6. Addrs(L \ {r}) = Addrs(L) \ {x}
  BY DEF Addrs, OneEach
<1> HIDE DEF O, f, x
<1>7. Listing(Cons(x, f), O) /\ ToSet(Cons(x, f)) = ToSet(f) \cup {x}
      /\ Len(Cons(x, f)) = Len(f) + 1
  BY <1>1, <1>3, ListCons
<1>8. Addrs(L \ {r}) = O \ ToSet(Cons(x, f))
  BY <1>1, <1>6, <1>7
<1>9. SlabShape(t, p, L \ {r})
  BY <1>1, <1>2, <1>5, <1>7, <1>8 DEF SlabShape, O
<1> QED
  BY <1>9

(* The lists depend on the slabs only through cache and count.             *)
LEMMA ListsFrame ==
  ASSUME NEW part, NEW full, NEW S, NEW sl, ListsGood(part, full, S, sl), NEW st,
         \A q \in S : st[q].cache = sl[q].cache /\ st[q].free_count = sl[q].free_count
  PROVE  ListsGood(part, full, S, st)
<1>1. ASSUME NEW c PROVE Roomy(S, st, c) = Roomy(S, sl, c) /\ Filled(S, st, c) = Filled(S, sl, c)
  BY DEF Roomy, Filled
<1> QED
  BY <1>1 DEF ListsGood

(* A slab with room that has given an object, and goes to the full list if *)
(* it was the last.                                                        *)
LEMMA ListsTake ==
  ASSUME NEW part, NEW full, NEW S, NEW sl \in [Pages -> SlabType], ListsGood(part, full, S, sl),
         S \subseteq Pages, NEW p \in S, NEW c \in Caches, sl[p].cache = c, sl[p].free_count # 0,
         NEW t \in SlabType, t.cache = c, NEW part2, NEW full2,
         part2 = [part EXCEPT ![c] = IF t.free_count = 0 THEN RemoveFirst(part[c], p) ELSE part[c]],
         full2 = IF t.free_count = 0 THEN [full EXCEPT ![c] = Cons(p, @)] ELSE full
  PROVE  ListsGood(part2, full2, S, [sl EXCEPT ![p] = t])
<1> DEFINE st == [sl EXCEPT ![p] = t]
<1>1. \A q \in Pages : st[q] = IF q = p THEN t ELSE sl[q]
  OBVIOUS
<1>2. part \in [Caches -> Seq(Pages)] /\ full \in [Caches -> Seq(Pages)]
  BY DEF ListsGood
<1>3. ASSUME NEW d \in Caches
      PROVE  /\ Listing(part[d], Pages) /\ ToSet(part[d]) = Roomy(S, sl, d)
             /\ Listing(full[d], Pages) /\ ToSet(full[d]) = Filled(S, sl, d)
  BY DEF ListsGood
<1> HIDE DEF st
<1>4. ASSUME NEW d \in Caches, d # c
      PROVE  /\ part2[d] = part[d] /\ full2[d] = full[d]
             /\ Roomy(S, st, d) = Roomy(S, sl, d) /\ Filled(S, st, d) = Filled(S, sl, d)
  BY <1>1, <1>2, <1>4 DEF Roomy, Filled
<1>5. p \in Pages /\ p \in Roomy(S, sl, c) /\ p \notin Filled(S, sl, c)
  BY DEF Roomy, Filled
<1>6. CASE t.free_count = 0
  <2>1. Roomy(S, st, c) = Roomy(S, sl, c) \ {p} /\ Filled(S, st, c) = Filled(S, sl, c) \cup {p}
    BY <1>1, <1>6 DEF Roomy, Filled
  <2>2. part2[c] = RemoveFirst(part[c], p) /\ full2[c] = Cons(p, full[c])
    BY <1>2, <1>6
  <2>3. Listing(part2[c], Pages) /\ ToSet(part2[c]) = Roomy(S, st, c)
    BY <1>3, <1>5, <2>1, <2>2, ListRemove
  <2>4. Listing(full2[c], Pages) /\ ToSet(full2[c]) = Filled(S, st, c)
    BY <1>3, <1>5, <2>1, <2>2, ListCons
  <2>5. part2 \in [Caches -> Seq(Pages)] /\ full2 \in [Caches -> Seq(Pages)]
    BY <1>2, <1>6, <2>2, <2>3, <2>4 DEF Listing
  <2> QED
    BY <1>3, <1>4, <2>3, <2>4, <2>5 DEF ListsGood, st
<1>7. CASE t.free_count # 0
  <2>1. Roomy(S, st, c) = Roomy(S, sl, c) /\ Filled(S, st, c) = Filled(S, sl, c)
    BY <1>1, <1>7 DEF Roomy, Filled
  <2>2. part2 = part /\ full2 = full
    BY <1>2, <1>7
  <2> QED
    BY <1>2, <1>3, <1>4, <2>1, <2>2 DEF ListsGood, st
<1> QED
  BY <1>6, <1>7

(* A new slab becomes the only one with room.                              *)
LEMMA ListsNew ==
  ASSUME NEW part, NEW full, NEW S, NEW sl \in [Pages -> SlabType], ListsGood(part, full, S, sl),
         S \subseteq Pages, NEW p \in Pages \ S, NEW c \in Caches, part[c] = <<>>,
         NEW t \in SlabType, t.cache = c, t.free_count # 0
  PROVE  ListsGood([part EXCEPT ![c] = <<p>>], full, S \cup {p}, [sl EXCEPT ![p] = t])
<1> DEFINE st == [sl EXCEPT ![p] = t]
           part2 == [part EXCEPT ![c] = <<p>>]
           T == S \cup {p}
<1>1. \A q \in Pages : st[q] = IF q = p THEN t ELSE sl[q]
  OBVIOUS
<1>2. part \in [Caches -> Seq(Pages)] /\ full \in [Caches -> Seq(Pages)]
  BY DEF ListsGood
<1>3. ASSUME NEW d \in Caches
      PROVE  /\ Listing(part[d], Pages) /\ ToSet(part[d]) = Roomy(S, sl, d)
             /\ Listing(full[d], Pages) /\ ToSet(full[d]) = Filled(S, sl, d)
  BY DEF ListsGood
<1>4. part2 \in [Caches -> Seq(Pages)] /\ part2[c] = <<p>>
      /\ \A d \in Caches : d # c => part2[d] = part[d]
  BY <1>2
<1>5. Roomy(S, sl, c) = {}
  BY <1>3, ListElements DEF Listing
<1> HIDE DEF st, part2
<1>6. ASSUME NEW d \in Caches
      PROVE  /\ Filled(T, st, d) = Filled(S, sl, d)
             /\ d # c => Roomy(T, st, d) = Roomy(S, sl, d)
             /\ d = c => Roomy(T, st, d) = {p}
  BY <1>1, <1>5 DEF Roomy, Filled
<1>7. Listing(<<p>>, Pages) /\ ToSet(<<p>>) = {p}
  BY DEF Listing, ToSet
<1>8. ASSUME NEW d \in Caches
      PROVE  /\ Listing(part2[d], Pages) /\ ToSet(part2[d]) = Roomy(T, st, d)
             /\ Listing(full[d], Pages) /\ ToSet(full[d]) = Filled(T, st, d)
  <2>1. CASE d = c
    BY <1>3, <1>4, <1>6, <1>7, <2>1
  <2>2. CASE d # c
    BY <1>3, <1>4, <1>6, <2>2
  <2> QED
    BY <2>1, <2>2
<1>9. ListsGood(part2, full, T, st)
  BY <1>2, <1>4, <1>8 DEF ListsGood
<1> QED
  BY <1>9 DEF part2, st

(* A slab that has got an object back has room.                            *)
LEMMA ListsGive ==
  ASSUME NEW part, NEW full, NEW S, NEW sl \in [Pages -> SlabType], ListsGood(part, full, S, sl),
         S \subseteq Pages, NEW p \in S, NEW c \in Caches, sl[p].cache = c,
         NEW t \in SlabType, t.cache = c, t.free_count # 0, NEW a, NEW b,
         sl[p].free_count = 0 => a = Cons(p, part[c]) /\ b = RemoveFirst(full[c], p),
         sl[p].free_count # 0 => a = part[c] /\ b = full[c]
  PROVE  ListsGood([part EXCEPT ![c] = a], [full EXCEPT ![c] = b], S, [sl EXCEPT ![p] = t])
<1> DEFINE st == [sl EXCEPT ![p] = t]
           part2 == [part EXCEPT ![c] = a]
           full2 == [full EXCEPT ![c] = b]
<1>1. \A q \in Pages : st[q] = IF q = p THEN t ELSE sl[q]
  OBVIOUS
<1>2. part \in [Caches -> Seq(Pages)] /\ full \in [Caches -> Seq(Pages)]
  BY DEF ListsGood
<1>3. ASSUME NEW d \in Caches
      PROVE  /\ Listing(part[d], Pages) /\ ToSet(part[d]) = Roomy(S, sl, d)
             /\ Listing(full[d], Pages) /\ ToSet(full[d]) = Filled(S, sl, d)
  BY DEF ListsGood
<1>4. /\ part2[c] = a /\ full2[c] = b
      /\ \A d \in Caches : d # c => part2[d] = part[d] /\ full2[d] = full[d]
  BY <1>2
<1>5. Listing(a, Pages) /\ ToSet(a) = Roomy(S, sl, c) \cup {p}
      /\ Listing(b, Pages) /\ ToSet(b) = Filled(S, sl, c) \ {p}
  <2>1. p \in Pages
    OBVIOUS
  <2>2. CASE sl[p].free_count = 0
    <3>1. p \in Filled(S, sl, c) /\ p \notin Roomy(S, sl, c)
      BY <2>2 DEF Roomy, Filled
    <3>2. p \in ToSet(full[c]) /\ p \notin ToSet(part[c])
      BY <1>3, <3>1
    <3> QED
      BY <1>3, <2>1, <2>2, <3>2, ListCons, ListRemove
  <2>3. CASE sl[p].free_count # 0
    <3>1. p \in Roomy(S, sl, c) /\ p \notin Filled(S, sl, c)
      BY <2>3 DEF Roomy, Filled
    <3> QED
      BY <1>3, <2>3, <3>1
  <2> QED
    BY <2>2, <2>3
<1>6. part2 \in [Caches -> Seq(Pages)] /\ full2 \in [Caches -> Seq(Pages)]
  BY <1>2, <1>5 DEF Listing
<1> HIDE DEF st, part2, full2
<1>7. ASSUME NEW d \in Caches
      PROVE  /\ d # c => Filled(S, st, d) = Filled(S, sl, d) /\ Roomy(S, st, d) = Roomy(S, sl, d)
             /\ d = c => Roomy(S, st, d) = Roomy(S, sl, d) \cup {p}
                         /\ Filled(S, st, d) = Filled(S, sl, d) \ {p}
  BY <1>1 DEF Roomy, Filled
<1>8. ASSUME NEW d \in Caches
      PROVE  /\ Listing(part2[d], Pages) /\ ToSet(part2[d]) = Roomy(S, st, d)
             /\ Listing(full2[d], Pages) /\ ToSet(full2[d]) = Filled(S, st, d)
  <2>1. CASE d = c
    BY <1>4, <1>5, <1>7, <2>1
  <2>2. CASE d # c
    BY <1>3, <1>4, <1>7, <2>2
  <2> QED
    BY <2>1, <2>2
<1>9. ListsGood(part2, full2, S, st)
  BY <1>6, <1>8 DEF ListsGood
<1> QED
  BY <1>9 DEF part2, full2, st

(* An empty slab leaves the list of those with room.                       *)
LEMMA ListsDrop ==
  ASSUME NEW part, NEW full, NEW S, NEW sl, ListsGood(part, full, S, sl),
         NEW p \in S, NEW c \in Caches, sl[p].cache = c, sl[p].free_count # 0
  PROVE  ListsGood([part EXCEPT ![c] = RemoveFirst(part[c], p)], full, S \ {p}, sl)
<1> DEFINE part2 == [part EXCEPT ![c] = RemoveFirst(part[c], p)]
           T == S \ {p}
<1>1. part \in [Caches -> Seq(Pages)] /\ full \in [Caches -> Seq(Pages)]
  BY DEF ListsGood
<1>2. ASSUME NEW d \in Caches
      PROVE  /\ Listing(part[d], Pages) /\ ToSet(part[d]) = Roomy(S, sl, d)
             /\ Listing(full[d], Pages) /\ ToSet(full[d]) = Filled(S, sl, d)
  BY DEF ListsGood
<1>3. p \in Roomy(S, sl, c)
  BY DEF Roomy
<1>4. Listing(RemoveFirst(part[c], p), Pages)
      /\ ToSet(RemoveFirst(part[c], p)) = Roomy(S, sl, c) \ {p}
  BY <1>2, <1>3, ListRemove
<1>5. part2 \in [Caches -> Seq(Pages)] /\ part2[c] = RemoveFirst(part[c], p)
      /\ \A d \in Caches : d # c => part2[d] = part[d]
  BY <1>1, <1>4 DEF Listing
<1> HIDE DEF part2
<1>6. ASSUME NEW d \in Caches
      PROVE  /\ Filled(T, sl, d) = Filled(S, sl, d)
             /\ d # c => Roomy(T, sl, d) = Roomy(S, sl, d)
             /\ d = c => Roomy(T, sl, d) = Roomy(S, sl, d) \ {p}
  BY DEF Roomy, Filled
<1>7. ASSUME NEW d \in Caches
      PROVE  /\ Listing(part2[d], Pages) /\ ToSet(part2[d]) = Roomy(T, sl, d)
             /\ Listing(full[d], Pages) /\ ToSet(full[d]) = Filled(T, sl, d)
  <2>1. CASE d = c
    BY <1>2, <1>4, <1>5, <1>6, <2>1
  <2>2. CASE d # c
    BY <1>2, <1>5, <1>6, <2>2
  <2> QED
    BY <2>1, <2>2
<1>8. ListsGood(part2, full, T, sl)
  BY <1>1, <1>5, <1>7 DEF ListsGood
<1> QED
  BY <1>8 DEF part2

-----------------------------------------------------------------------------
(* Every step preserves the invariant.                                     *)

LEMMA UsedIs ==
  ASSUME HeapInv, NEW P, P = UsedPages(metadata, live)
  PROVE  /\ BuddyOK(free_areas, metadata, P) /\ SlabPages \subseteq P /\ P \subseteq Pages
         /\ \A r \in live : PageOf(r.addr) \in P /\ r.addr \in Nat /\ r.size \in Requests
         /\ SlabPages = {p \in Pages : metadata[p].is_slab}
         /\ \A p \in P : p \in SlabPages
                         \/ \E r \in live : PageOf(r.addr) = p /\ ~metadata[p].is_slab
<1>1. BuddyOK(free_areas, metadata, P) /\ P \subseteq Pages
  BY DEF HeapInv, BuddyOK
<1>2. SlabPages = {p \in Pages : metadata[p].is_slab}
  BY DEF SlabPages
<1>3. SlabPages \subseteq P
  BY <1>2 DEF UsedPages
<1>4. LiveType(live)
  BY DEF HeapInv
<1>5. ASSUME NEW r \in live
      PROVE  PageOf(r.addr) \in P /\ r.addr \in Nat /\ r.size \in Requests
  <2>1. r \in [addr : Nat, size : Requests] /\ PageOf(r.addr) \in Pages
    BY <1>4 DEF LiveType
  <2>2. PageOf(r.addr) \in P
    BY <2>1 DEF UsedPages
  <2> QED
    BY <2>1, <2>2
<1>6. ASSUME NEW p \in P PROVE p \in SlabPages
                               \/ \E r \in live : PageOf(r.addr) = p /\ ~metadata[p].is_slab
  BY <1>2 DEF UsedPages
<1> QED
  BY <1>1, <1>2, <1>3, <1>5, <1>6

(* The blocks in use after a step, given those that are new or gone.       *)
LEMMA UsedAre ==
  ASSUME NEW md, NEW L, NEW P, P \subseteq Pages,
         \A q \in Pages : md[q].is_slab => q \in P,
         \A r \in L : PageOf(r.addr) \in P,
         \A q \in P : md[q].is_slab \/ \E r \in L : PageOf(r.addr) = q
  PROVE  UsedPages(md, L) = P
<1>1. ASSUME NEW q \in P PROVE q \in UsedPages(md, L)
  <2>1. CASE md[q].is_slab
    BY <2>1 DEF UsedPages
  <2>2. CASE ~md[q].is_slab
    <3>1. PICK r \in L : PageOf(r.addr) = q
      BY <2>2
    <3> QED
      BY <2>2, <3>1 DEF UsedPages
  <2> QED
    BY <2>1, <2>2
<1>2. ASSUME NEW q \in UsedPages(md, L) PROVE q \in P
  BY <1>2 DEF UsedPages
<1> QED
  BY <1>1, <1>2

LEMMA HeapInit == Init => HeapInv
<1> SUFFICES ASSUME Init PROVE HeapInv
  OBVIOUS
<1> DEFINE b == <<0, MaxOrder>>
           M == [order : Orders, is_free : BOOLEAN, is_slab : BOOLEAN]
<1>1. MaxOrder \in Nat /\ Pages \subseteq Nat /\ 0 \in Pages /\ Aligned(0, MaxOrder)
      /\ \A q \in Nat : q \in Pages <=> Same(q, 0, MaxOrder)
  BY HeapIs
<1>2. MaxOrder \in Orders /\ 0 \in Orders
  BY <1>1 DEF Orders
<1>3. /\ \A p \in Pages : metadata[p] = [order |-> IF p = 0 THEN MaxOrder ELSE 0,
                                         is_free |-> p = 0, is_slab |-> FALSE]
      /\ metadata = [p \in Pages |-> metadata[p]]
  BY DEF Init
<1>4. ASSUME NEW p \in Pages
      PROVE  /\ metadata[p].is_free <=> p = 0
             /\ metadata[p].order = IF p = 0 THEN MaxOrder ELSE 0
             /\ ~metadata[p].is_slab
             /\ metadata[p] \in M
  <2>1. metadata[p] = [order |-> IF p = 0 THEN MaxOrder ELSE 0,
                       is_free |-> p = 0, is_slab |-> FALSE]
    BY <1>3
  <2>2. (p = 0) \in BOOLEAN /\ MaxOrder \in Orders /\ 0 \in Orders
    BY <1>2
  <2>3. metadata[p].is_free = (p = 0)
    BY <2>1
  <2>4. metadata[p].order = IF p = 0 THEN MaxOrder ELSE 0
    BY <2>1
  <2>5. metadata[p].is_slab = FALSE
    BY <2>1
  <2>6. metadata[p] \in M
    BY <2>1, <2>2
  <2> QED
    BY <2>3, <2>4, <2>5, <2>6
<1>5. UsedPages(metadata, live) = {} /\ SlabPages = {} /\ live = {}
  BY <1>4 DEF UsedPages, SlabPages, Init
<1>6. /\ \A o \in Orders : free_areas[o] = IF o = MaxOrder THEN <<0>> ELSE <<>>
      /\ free_areas = [o \in Orders |-> free_areas[o]]
  BY DEF Init
<1>7. <<0>> \in Seq(Pages) /\ Listing(<<0>>, Pages) /\ ToSet(<<0>>) = {0}
      /\ <<>> \in Seq(Pages) /\ Listing(<<>>, Pages) /\ ToSet(<<>>) = {}
  BY <1>1 DEF Listing, ToSet
<1>8. AreasOK(free_areas)
  BY <1>6, <1>7 DEF AreasOK
<1>9. Blocks(free_areas) = {b}
  BY <1>1, <1>2, <1>6, <1>7 DEF Blocks
<1>10. MetaType(metadata)
  BY <1>3, <1>4 DEF MetaType
<1>11. UsedBlocks(metadata, {}) = {}
  BY DEF UsedBlocks
<1>12. Tiling({b})
  <2>1. Proper({b}) /\ Apart({b})
    BY <1>1, <1>2 DEF Proper, Apart
  <2>2. ASSUME NEW q \in Pages PROVE CoveredBy({b}, q)
    BY <1>1 DEF CoveredBy, Covers
  <2> HIDE DEF b
  <2> QED
    BY <2>1, <2>2 DEF Tiling
<1>13. Marked(metadata, {b})
  BY <1>4 DEF Marked
<1>14. NoBuddies({b})
  BY <1>1 DEF NoBuddies
<1>15. BuddyOK(free_areas, metadata, {})
  BY <1>8, <1>9, <1>10, <1>11, <1>12, <1>13, <1>14 DEF BuddyOK
<1>16. LiveType(live)
  BY <1>5 DEF LiveType
<1>17. slab \in [Pages -> SlabType]
  <2>1. NoSlab \in SlabType
    BY DEF NoSlab, SlabType
  <2>2. slab = [p \in Pages |-> NoSlab]
    BY DEF Init
  <2> QED
    BY <2>1, <2>2
<1>18. ListsGood(slabs_partial, slabs_full, {}, slab)
  <2>1. slabs_partial = [c \in Caches |-> <<>>] /\ slabs_full = [c \in Caches |-> <<>>]
    BY DEF Init
  <2>2. \A c : Roomy({}, slab, c) = {} /\ Filled({}, slab, c) = {}
    BY DEF Roomy, Filled
  <2> QED
    BY <1>7, <2>1, <2>2 DEF ListsGood
<1> QED
  BY <1>5, <1>15, <1>16, <1>17, <1>18 DEF HeapInv

LEMMA OrderForIs ==
  ASSUME NEW size \in Nat, OrderFor(size) <= MaxOrder
  PROVE  OrderFor(size) \in Orders /\ size <= PageSize * 2^OrderFor(size)
<1> DEFINE S == {o \in Orders : PageSize * 2^o >= size} \cup {MaxOrder + 1}
<1>1. MaxOrder \in Nat /\ Orders \subseteq Nat
  BY HeapIs DEF Orders
<1>2. S \in SUBSET Nat /\ S # {}
  <2>1. MaxOrder + 1 \in S /\ MaxOrder + 1 \in Nat
    BY <1>1
  <2>2. \A x \in S : x \in Orders \/ x = MaxOrder + 1
    OBVIOUS
  <2> HIDE DEF S
  <2> QED
    BY <1>1, <2>1, <2>2
<1>3. OrderFor(size) = Min(S)
  BY DEF OrderFor
<1>4. Min(S) \in S
  BY <1>2, MinIsLeast
<1>5. OrderFor(size) \in Orders /\ PageSize * 2^OrderFor(size) >= size
  <2> DEFINE o == OrderFor(size)
  <2>1. o \in S /\ o # MaxOrder + 1
    BY <1>1, <1>3, <1>4
  <2> QED
    BY <2>1
<1>6. PageSize * 2^OrderFor(size) \in Nat
  <2>1. PageSize \in Nat /\ 2^OrderFor(size) \in Nat
    BY <1>1, <1>5, PowerStep, HeapShape
  <2> QED
    BY <2>1
<1> QED
  BY <1>5, <1>6

(* The first byte of a page is in that page.                               *)
LEMMA PageStart ==
  ASSUME NEW p \in Nat
  PROVE  p * PageSize \in Nat /\ PageOf(p * PageSize) = p
<1> DEFINE x == p * PageSize
<1>1. PageSize \in Nat \ {0} /\ x \in Nat /\ x = PageSize * p
  BY HeapShape
<1> HIDE DEF x
<1>2. x \div PageSize = p
  <2>1. PageSize * p <= x /\ x < PageSize * p + PageSize /\ p \in Int
    BY <1>1
  <2> QED
    BY <1>1, <2>1, QuotientUnique
<1> QED
  BY <1>1, <1>2 DEF PageOf, x

(* The slabs do not notice a step that leaves them and their objects be.   *)
LEMMA SlabsFrame ==
  ASSUME NEW r, NEW S, \A q \in S : PageOf(r.addr) # q, NEW L
  PROVE  \A q \in S : LiveOn(L \cup {r}, q) = LiveOn(L, q) /\ LiveOn(L \ {r}, q) = LiveOn(L, q)
BY DEF LiveOn

LEMMA HeapKmallocLarge ==
  ASSUME HeapInv, NEW size \in Requests, KmallocLarge(size)
  PROVE  HeapInv' /\ HandsOut
<1>1. PICK P : P = UsedPages(metadata, live)
  OBVIOUS
<1>2. PICK o : o = OrderFor(size)
  OBVIOUS
<1>3. PICK p : p = AllocPage(o)
  OBVIOUS
<1>4. PICK r : r = [addr |-> p * PageSize, size |-> size]
  OBVIOUS
<1>5. /\ o <= MaxOrder /\ Fits(o) # {}
      /\ free_areas' = AllocAreas(o) /\ metadata' = AllocMeta(o)
      /\ live' = live \cup {r}
      /\ slabs_partial' = slabs_partial /\ slabs_full' = slabs_full /\ slab' = slab
  BY <1>2, <1>3, <1>4 DEF KmallocLarge
<1>6. size \in Nat
  BY HeapShape
<1>7. o \in Orders /\ size <= PageSize * 2^o
  BY <1>2, <1>5, <1>6, OrderForIs
<1>8. /\ BuddyOK(free_areas, metadata, P) /\ SlabPages \subseteq P /\ P \subseteq Pages
      /\ \A s \in live : PageOf(s.addr) \in P /\ s.addr \in Nat /\ s.size \in Requests
      /\ SlabPages = {q \in Pages : metadata[q].is_slab}
      /\ \A q \in P : q \in SlabPages
                      \/ \E s \in live : PageOf(s.addr) = q /\ ~metadata[q].is_slab
  BY <1>1, UsedIs
<1>9. /\ p \in Pages \ P /\ BuddyOK(free_areas', metadata', P \cup {p})
      /\ metadata'[p] = [order |-> o, is_free |-> FALSE, is_slab |-> FALSE]
      /\ \A q \in P : metadata'[q] = metadata[q]
      /\ \A q \in Pages : metadata'[q].is_slab => metadata[q].is_slab
  <2>1. /\ p \in Pages \ P /\ BuddyOK(AllocAreas(o), AllocMeta(o), P \cup {p})
        /\ AllocMeta(o)[p] = [order |-> o, is_free |-> FALSE, is_slab |-> FALSE]
        /\ \A q \in P : AllocMeta(o)[q] = metadata[q]
        /\ \A q \in Pages : AllocMeta(o)[q].is_slab => metadata[q].is_slab
    <3>1. BuddyOK(free_areas, metadata, P) /\ o \in Orders /\ Fits(o) # {}
      BY <1>5, <1>7, <1>8
    <3> QED
      BY ONLY <3>1, <1>3, AllocBuddy
  <2> QED
    BY <1>5, <2>1
<1>10. r.addr = p * PageSize /\ r.size = size /\ r.addr \in Nat /\ PageOf(r.addr) = p
       /\ r \in [addr : Nat, size : Requests]
  <2>1. p * PageSize \in Nat /\ PageOf(p * PageSize) = p
    BY <1>9, HeapIs, PageStart
  <2> QED
    BY <1>4, <2>1
<1>11. SlabPages' = SlabPages
  <2>1. SlabPages' = {q \in Pages : metadata'[q].is_slab}
    BY DEF SlabPages
  <2> QED
    BY <1>8, <1>9, <2>1
<1>12. LiveType(live')
  <2>1. LiveType(live)
    BY DEF HeapInv
  <2>2. \A s \in live : s.addr # r.addr
    BY <1>8, <1>9, <1>10
  <2> QED
    BY <1>5, <1>9, <1>10, <2>1, <2>2 DEF LiveType
<1>13. UsedPages(metadata', live') = P \cup {p}
  <2> DEFINE Q == P \cup {p}
             L == live \cup {r}
  <2>1. Q \subseteq Pages
    BY <1>8, <1>9
  <2>2. \A q \in Pages : metadata'[q].is_slab => q \in Q
    BY <1>8, <1>9
  <2>3. \A s \in L : PageOf(s.addr) \in Q
    BY <1>8, <1>10
  <2>4. \A q \in Q : metadata'[q].is_slab \/ \E s \in L : PageOf(s.addr) = q
    BY <1>8, <1>9, <1>10
  <2> HIDE DEF Q, L
  <2>5. UsedPages(metadata', L) = Q
    BY <2>1, <2>2, <2>3, <2>4, UsedAre
  <2> QED
    BY <1>5, <2>5 DEF Q, L
<1>14. \A q \in SlabPages' : metadata'[q].order = 0 /\ SlabGood(slab'[q], q, LiveOn(live', q))
  <2>1. \A q \in SlabPages : PageOf(r.addr) # q
    BY <1>8, <1>9, <1>10
  <2>2. \A q \in SlabPages : LiveOn(live', q) = LiveOn(live, q)
    BY <1>5, <2>1, SlabsFrame
  <2>3. \A q \in SlabPages : metadata[q].order = 0 /\ SlabGood(slab[q], q, LiveOn(live, q))
    BY DEF HeapInv
  <2> QED
    BY <1>5, <1>8, <1>9, <1>11, <2>2, <2>3
<1>15. \A s \in live' : LargeGood(metadata', s)
  <2>1. LargeGood(metadata', r)
    BY <1>7, <1>9, <1>10 DEF LargeGood
  <2>2. ASSUME NEW s \in live PROVE LargeGood(metadata', s)
    <3>1. LargeGood(metadata, s) /\ metadata'[PageOf(s.addr)] = metadata[PageOf(s.addr)]
      BY <1>8, <1>9 DEF HeapInv
    <3> QED
      BY <3>1 DEF LargeGood
  <2> QED
    BY <1>5, <2>1, <2>2
<1>16. slab' \in [Pages -> SlabType] /\ ListsGood(slabs_partial', slabs_full', SlabPages', slab')
  BY <1>5, <1>11 DEF HeapInv
<1>17. r \notin live
  BY <1>8, <1>9, <1>10
<1> QED
  BY <1>5, <1>9, <1>10, <1>12, <1>13, <1>14, <1>15, <1>16, <1>17 DEF HeapInv, HandsOut

LEMMA CacheForIs ==
  ASSUME NEW size \in Nat, size <= LargestObj, NEW c, c = CacheFor(size)
  PROVE  c \in Caches /\ size <= ObjSizes[c]
<1> DEFINE S == {d \in Caches : size <= ObjSizes[d]}
<1>1. Caches = 1..Len(ObjSizes) /\ Len(ObjSizes) \in Nat \ {0}
  BY HeapShape DEF Caches
<1>2. Len(ObjSizes) \in S
  BY <1>1 DEF LargestObj
<1>3. S \in SUBSET Nat
  BY <1>1
<1>4. Min(S) \in S
  BY <1>2, <1>3, MinIsLeast
<1> QED
  BY <1>4 DEF CacheFor

(* An object from a slab that has room.                                    *)
LEMMA HeapKmallocPartial ==
  ASSUME HeapInv, NEW size \in Requests, KmallocPartial(size)
  PROVE  HeapInv' /\ HandsOut
<1>1. PICK P : P = UsedPages(metadata, live)
  OBVIOUS
<1>2. PICK c : c = CacheFor(size)
  OBVIOUS
<1>3. PICK p : p = Head(slabs_partial[c])
  OBVIOUS
<1>4. PICK s : s = slab[p]
  OBVIOUS
<1>5. PICK t : t = [s EXCEPT !.free_list = Tail(@), !.free_count = @ - 1]
  OBVIOUS
<1>6. PICK r : r = [addr |-> Head(s.free_list), size |-> size]
  OBVIOUS
<1>7. /\ size <= LargestObj /\ slabs_partial[c] # <<>>
      /\ free_areas' = free_areas /\ metadata' = metadata
      /\ slab' = [slab EXCEPT ![p] = t]
      /\ slabs_partial' = [slabs_partial EXCEPT ![c] = IF t.free_count = 0
                              THEN RemoveFirst(slabs_partial[c], p) ELSE slabs_partial[c]]
      /\ slabs_full' = IF t.free_count = 0 THEN [slabs_full EXCEPT ![c] = Cons(p, @)]
                       ELSE slabs_full
      /\ live' = live \cup {r}
  BY <1>2, <1>3, <1>4, <1>5, <1>6 DEF KmallocPartial, SlabTake
<1>8. /\ BuddyOK(free_areas, metadata, P) /\ SlabPages \subseteq P /\ P \subseteq Pages
      /\ \A x \in live : PageOf(x.addr) \in P /\ x.addr \in Nat /\ x.size \in Requests
      /\ SlabPages = {q \in Pages : metadata[q].is_slab}
      /\ \A q \in P : q \in SlabPages
                      \/ \E x \in live : PageOf(x.addr) = q /\ ~metadata[q].is_slab
  BY <1>1, UsedIs
<1>9. /\ LiveType(live) /\ slab \in [Pages -> SlabType]
      /\ ListsGood(slabs_partial, slabs_full, SlabPages, slab)
      /\ \A q \in SlabPages : metadata[q].order = 0 /\ SlabGood(slab[q], q, LiveOn(live, q))
      /\ \A x \in live : LargeGood(metadata, x)
  BY DEF HeapInv
<1>10. c \in Caches /\ size <= ObjSizes[c]
  BY <1>2, <1>7, CacheForIs, HeapShape
<1>11. p \in SlabPages /\ s.cache = c /\ s.free_count # 0
  <2>1. p \in ToSet(slabs_partial[c]) /\ ToSet(slabs_partial[c]) = Roomy(SlabPages, slab, c)
    BY <1>3, <1>7, <1>9, <1>10, ListTail DEF ListsGood
  <2> QED
    BY <1>4, <2>1 DEF Roomy
<1> DEFINE L == LiveOn(live, p)
<1>12. p \in Pages /\ p \in Nat /\ SlabShape(s, p, L)
  BY <1>4, <1>8, <1>9, <1>11, HeapIs DEF SlabGood
<1> HIDE DEF L
<1>13. /\ SlabGood(t, p, L \cup {r}) /\ t.cache = c
       /\ r.addr \in Objects(c, p) /\ r.addr \notin Addrs(L)
  BY <1>5, <1>6, <1>10, <1>11, <1>12, TakeObject
<1>14. r.addr \in Nat /\ PageOf(r.addr) = p /\ r \in [addr : Nat, size : Requests]
  <2>1. r.addr \in Nat /\ PageOf(r.addr) = p
    BY <1>10, <1>12, <1>13, ObjectIs
  <2>2. r.addr = Head(s.free_list)
    BY <1>6
  <2> QED
    BY <1>6, <2>1, <2>2
<1>15. SlabPages' = SlabPages
  BY <1>7 DEF SlabPages
<1>16. LiveType(live')
  <2>1. ASSUME NEW x \in live, x.addr = r.addr PROVE FALSE
    <3>1. x \in L
      BY <1>14, <2>1 DEF L, LiveOn
    <3> QED
      BY <1>13, <2>1, <3>1 DEF Addrs
  <2> QED
    BY <1>7, <1>9, <1>12, <1>14, <2>1 DEF LiveType
<1>17. UsedPages(metadata', live') = P
  <2> DEFINE K == live \cup {r}
  <2>1. P \subseteq Pages /\ \A q \in Pages : metadata[q].is_slab => q \in P
    BY <1>8
  <2>2. \A x \in K : PageOf(x.addr) \in P
    BY <1>8, <1>11, <1>14
  <2>3. \A q \in P : metadata[q].is_slab \/ \E x \in K : PageOf(x.addr) = q
    BY <1>8
  <2> HIDE DEF K
  <2>4. UsedPages(metadata, K) = P
    BY <2>1, <2>2, <2>3, UsedAre
  <2> QED
    BY <1>7, <2>4 DEF K
<1>18. LiveOn(live', p) = L \cup {r} /\ \A q \in SlabPages \ {p} : LiveOn(live', q) = LiveOn(live, q)
  BY <1>7, <1>14 DEF L, LiveOn
<1>19. \A q \in SlabPages' : metadata'[q].order = 0 /\ SlabGood(slab'[q], q, LiveOn(live', q))
  <2>1. slab'[p] = t /\ \A q \in SlabPages \ {p} : slab'[q] = slab[q]
    BY <1>7, <1>8, <1>9, <1>12
  <2> QED
    BY <1>7, <1>9, <1>13, <1>15, <1>18, <2>1
<1>20. \A x \in live' : LargeGood(metadata', x)
  <2>1. LargeGood(metadata, r)
    BY <1>8, <1>11, <1>14 DEF LargeGood
  <2> QED
    BY <1>7, <1>9, <2>1
<1>21. slab' \in [Pages -> SlabType] /\ ListsGood(slabs_partial', slabs_full', SlabPages', slab')
  <2>1. t \in SlabType
    BY <1>13 DEF SlabGood, SlabShape
  <2>2. SlabPages \subseteq Pages /\ slab[p].cache = c /\ slab[p].free_count # 0
    BY <1>4, <1>8, <1>11
  <2>3. ListsGood(slabs_partial', slabs_full', SlabPages, [slab EXCEPT ![p] = t])
    BY ONLY <1>7, <1>9, <1>10, <1>11, <1>13, <2>1, <2>2, ListsTake
  <2> QED
    BY <1>7, <1>9, <1>12, <1>15, <2>1, <2>3
<1>22. BuddyOK(free_areas', metadata', P)
  BY <1>7, <1>8
<1>23. r \notin live
  <2>1. r \in live => r \in L
    BY <1>14 DEF L, LiveOn
  <2> QED
    BY <1>13, <2>1 DEF Addrs
<1>24. HandsOut
  BY <1>7, <1>14, <1>23 DEF HandsOut
<1> QED
  BY <1>16, <1>17, <1>19, <1>20, <1>21, <1>22, <1>24 DEF HeapInv

(* An object from a new slab, on a page just allocated.                    *)
LEMMA HeapKmallocNewSlab ==
  ASSUME HeapInv, NEW size \in Requests, KmallocNewSlab(size)
  PROVE  HeapInv' /\ HandsOut
<1>1. PICK P : P = UsedPages(metadata, live)
  OBVIOUS
<1>2. PICK c : c = CacheFor(size)
  OBVIOUS
<1>3. PICK p : p = AllocPage(0)
  OBVIOUS
<1>4. PICK s : s = NewSlab(c, p)
  OBVIOUS
<1>5. PICK t : t = [s EXCEPT !.free_list = Tail(@), !.free_count = @ - 1]
  OBVIOUS
<1>6. PICK r : r = [addr |-> Head(s.free_list), size |-> size]
  OBVIOUS
<1>7. /\ size <= LargestObj /\ slabs_partial[c] = <<>> /\ Fits(0) # {}
      /\ free_areas' = AllocAreas(0)
      /\ metadata' = [AllocMeta(0) EXCEPT ![Index(p)].is_slab = TRUE]
      /\ slab' = [slab EXCEPT ![p] = t]
      /\ slabs_partial' = [slabs_partial EXCEPT ![c] = IF t.free_count = 0
                              THEN RemoveFirst(<<p>>, p) ELSE <<p>>]
      /\ slabs_full' = IF t.free_count = 0 THEN [slabs_full EXCEPT ![c] = Cons(p, @)]
                       ELSE slabs_full
      /\ live' = live \cup {r}
  BY <1>2, <1>3, <1>4, <1>5, <1>6 DEF KmallocNewSlab, SlabTake
<1>8. /\ BuddyOK(free_areas, metadata, P) /\ SlabPages \subseteq P /\ P \subseteq Pages
      /\ \A x \in live : PageOf(x.addr) \in P /\ x.addr \in Nat /\ x.size \in Requests
      /\ SlabPages = {q \in Pages : metadata[q].is_slab}
      /\ \A q \in P : q \in SlabPages
                      \/ \E x \in live : PageOf(x.addr) = q /\ ~metadata[q].is_slab
  BY <1>1, UsedIs
<1>9. /\ LiveType(live) /\ slab \in [Pages -> SlabType]
      /\ ListsGood(slabs_partial, slabs_full, SlabPages, slab)
      /\ \A q \in SlabPages : metadata[q].order = 0 /\ SlabGood(slab[q], q, LiveOn(live, q))
      /\ \A x \in live : LargeGood(metadata, x)
  BY DEF HeapInv
<1>10. c \in Caches /\ size <= ObjSizes[c]
  BY <1>2, <1>7, CacheForIs, HeapShape
<1>11. 0 \in Orders
  BY HeapIs DEF Orders
<1> DEFINE md == AllocMeta(0)
           md2 == metadata'
<1>12. /\ p \in Pages \ P /\ BuddyOK(free_areas', md, P \cup {p})
       /\ md[p] = [order |-> 0, is_free |-> FALSE, is_slab |-> FALSE]
       /\ \A q \in P : md[q] = metadata[q]
       /\ \A q \in Pages : md[q].is_slab => metadata[q].is_slab
  <2>1. BuddyOK(free_areas, metadata, P) /\ Fits(0) # {}
    BY <1>7, <1>8
  <2>2. /\ p \in Pages \ P /\ BuddyOK(AllocAreas(0), AllocMeta(0), P \cup {p})
        /\ AllocMeta(0)[p] = [order |-> 0, is_free |-> FALSE, is_slab |-> FALSE]
        /\ \A q \in P : AllocMeta(0)[q] = metadata[q]
        /\ \A q \in Pages : AllocMeta(0)[q].is_slab => metadata[q].is_slab
    BY ONLY <1>3, <1>11, <2>1, AllocBuddy
  <2> QED
    BY <1>7, <2>2
<1> HIDE DEF md
<1>13. MetaType(md) /\ Index(p) = p /\ p \in Nat
  BY <1>12, HeapIs DEF BuddyOK
<1>14. /\ MetaType(md2)
       /\ \A q \in Pages : md2[q].order = md[q].order /\ md2[q].is_free = md[q].is_free
       /\ md2[p].is_slab /\ \A q \in Pages : q # p => md2[q] = md[q]
  <2>1. md2 = [md EXCEPT ![p].is_slab = TRUE]
    BY <1>7, <1>13 DEF md
  <2>2. md \in [Pages -> [order : Orders, is_free : BOOLEAN, is_slab : BOOLEAN]]
    BY <1>13 DEF MetaType
  <2>3. md2 = [md EXCEPT ![p] = [md[p] EXCEPT !.is_slab = TRUE]]
    BY <2>1
  <2> HIDE DEF md2
  <2>4. \A q \in Pages : md2[q] = IF q = p THEN [md[p] EXCEPT !.is_slab = TRUE] ELSE md[q]
    BY <2>2, <2>3
  <2>5. md2 = [q \in Pages |-> md2[q]]
    BY <2>2, <2>3
  <2> DEFINE m == [md[p] EXCEPT !.is_slab = TRUE]
  <2>6. /\ m \in [order : Orders, is_free : BOOLEAN, is_slab : BOOLEAN]
        /\ m.order = md[p].order /\ m.is_free = md[p].is_free /\ m.is_slab
    BY <1>12, <2>2
  <2> HIDE DEF m
  <2>7. \A q \in Pages : md2[q] = IF q = p THEN m ELSE md[q]
    BY <2>4 DEF m
  <2> QED
    BY <1>12, <2>2, <2>5, <2>6, <2>7 DEF MetaType
<1>15. BuddyOK(free_areas', md2, P \cup {p})
  BY <1>12, <1>14, BuddyMark
<1>16. /\ md2[p].order = 0 /\ \A q \in P : md2[q] = metadata[q]
       /\ \A q \in Pages : q # p => (md2[q].is_slab => metadata[q].is_slab)
  <2>1. md2[p].order = md[p].order
    BY <1>12, <1>14
  <2>2. md[p].order = 0
    BY <1>12
  <2> QED
    BY <1>8, <1>12, <1>14, <2>1, <2>2
<1>17. SlabPages' = SlabPages \cup {p}
  <2>1. SlabPages' = {q \in Pages : md2[q].is_slab}
    BY DEF SlabPages
  <2>2. ASSUME NEW q \in Pages PROVE md2[q].is_slab <=> q \in SlabPages \cup {p}
    BY <1>8, <1>14, <1>16
  <2> HIDE DEF md2
  <2> QED
    BY <1>8, <1>12, <2>1, <2>2
<1>18. LiveOn(live, p) = {}
  BY <1>8, <1>12 DEF LiveOn
<1>19. SlabShape(s, p, {}) /\ s.cache = c /\ s.free_count # 0 /\ s \in SlabType
  <2>1. /\ s \in SlabType /\ s.cache = c /\ Listing(s.free_list, Objects(c, p))
        /\ ToSet(s.free_list) = Objects(c, p) /\ s.free_count = SlabCapacity(c)
        /\ s.total_count = SlabCapacity(c) /\ Len(s.free_list) = SlabCapacity(c)
    BY <1>4, <1>10, <1>13, NewSlabIs
  <2>2. SlabCapacity(c) # 0
    BY <1>10, CapacityIs
  <2>3. Addrs({}) = Objects(c, p) \ ToSet(s.free_list)
    BY <2>1 DEF Addrs
  <2> QED
    BY <1>10, <2>1, <2>2, <2>3 DEF SlabShape
<1>20. /\ SlabGood(t, p, {r}) /\ t.cache = c /\ r.addr \in Objects(c, p)
  <2>1. SlabGood(t, p, {} \cup {r}) /\ t.cache = c /\ r.addr \in Objects(c, p)
    BY <1>5, <1>6, <1>10, <1>13, <1>19, TakeObject
  <2>2. {} \cup {r} = {r}
    OBVIOUS
  <2> QED
    BY <2>1, <2>2
<1>21. r.addr \in Nat /\ PageOf(r.addr) = p /\ r \in [addr : Nat, size : Requests]
  <2>1. r.addr \in Nat /\ PageOf(r.addr) = p
    BY <1>10, <1>13, <1>20, ObjectIs
  <2>2. r.addr = Head(s.free_list)
    BY <1>6
  <2> QED
    BY <1>6, <2>1, <2>2
<1>22. LiveType(live')
  <2>1. \A x \in live : x.addr # r.addr
    BY <1>8, <1>12, <1>21
  <2> QED
    BY <1>7, <1>9, <1>12, <1>21, <2>1 DEF LiveType
<1>23. UsedPages(md2, live') = P \cup {p}
  <2> DEFINE Q == P \cup {p}
             L == live \cup {r}
  <2>1. Q \subseteq Pages
    BY <1>8, <1>12
  <2>2. \A q \in Pages : md2[q].is_slab => q \in Q
    BY <1>8, <1>16
  <2>3. \A x \in L : PageOf(x.addr) \in Q
    BY <1>8, <1>21
  <2>4. \A q \in Q : md2[q].is_slab \/ \E x \in L : PageOf(x.addr) = q
    BY <1>8, <1>14, <1>16
  <2> HIDE DEF Q, L, md2
  <2>5. UsedPages(md2, L) = Q
    BY <2>1, <2>2, <2>3, <2>4, UsedAre
  <2> QED
    BY <1>7, <2>5 DEF Q, L
<1>24. LiveOn(live', p) = {r} /\ \A q \in SlabPages : LiveOn(live', q) = LiveOn(live, q)
  <2>1. LiveOn(live', p) = LiveOn(live, p) \cup {r}
    BY <1>7, <1>21 DEF LiveOn
  <2>2. \A q \in SlabPages : PageOf(r.addr) # q
    BY <1>8, <1>12, <1>21
  <2>3. \A q \in SlabPages : LiveOn(live \cup {r}, q) = LiveOn(live, q)
    BY <2>2, SlabsFrame
  <2>4. {} \cup {r} = {r}
    OBVIOUS
  <2> QED
    BY <1>7, <1>18, <2>1, <2>3, <2>4
<1>25. \A q \in SlabPages' : md2[q].order = 0 /\ SlabGood(slab'[q], q, LiveOn(live', q))
  <2>1. slab'[p] = t /\ \A q \in SlabPages : slab'[q] = slab[q]
    BY <1>7, <1>8, <1>9, <1>12
  <2>2. \A q \in SlabPages : md2[q] = metadata[q]
    BY <1>8, <1>16
  <2> HIDE DEF md2
  <2> QED
    BY <1>9, <1>16, <1>17, <1>20, <1>24, <2>1, <2>2
<1>26. \A x \in live' : LargeGood(md2, x)
  <2>1. LargeGood(md2, r)
    BY <1>14, <1>21 DEF LargeGood
  <2>2. ASSUME NEW x \in live PROVE LargeGood(md2, x)
    <3>1. LargeGood(metadata, x) /\ md2[PageOf(x.addr)] = metadata[PageOf(x.addr)]
      BY <1>8, <1>9, <1>16
    <3> HIDE DEF md2
    <3> QED
      BY <3>1 DEF LargeGood
  <2> QED
    BY <1>7, <2>1, <2>2
<1>27. slab' \in [Pages -> SlabType] /\ ListsGood(slabs_partial', slabs_full', SlabPages', slab')
  <2> DEFINE part == [slabs_partial EXCEPT ![c] = <<p>>]
             sl == [slab EXCEPT ![p] = s]
             S == SlabPages \cup {p}
  <2>1. t \in SlabType
    BY <1>20 DEF SlabGood, SlabShape
  <2>2. SlabPages \subseteq Pages /\ p \in Pages \ SlabPages
    BY <1>8, <1>12
  <2>3. ListsGood(part, slabs_full, S, sl)
    BY <1>7, <1>9, <1>10, <1>19, <2>2, ListsNew
  <2>4. slabs_partial \in [Caches -> Seq(Pages)]
    BY <1>9 DEF ListsGood
  <2>5. part[c] = <<p>> /\ slabs_partial' = [part EXCEPT ![c] = IF t.free_count = 0
                                                THEN RemoveFirst(part[c], p) ELSE part[c]]
    <3>1. part[c] = <<p>>
      BY <1>10, <2>4
    <3>2. \A y : [part EXCEPT ![c] = y] = [slabs_partial EXCEPT ![c] = y]
      BY <2>4
    <3> HIDE DEF part
    <3> QED
      BY <1>7, <3>1, <3>2
  <2>6. sl \in [Pages -> SlabType] /\ sl[p] = s /\ slab' = [sl EXCEPT ![p] = t]
    BY <1>7, <1>9, <1>12, <1>19
  <2>7. S \subseteq Pages /\ p \in S
    BY <2>2
  <2> HIDE DEF part, sl, S
  <2>8. ListsGood(slabs_partial', slabs_full', S, [sl EXCEPT ![p] = t])
    <3>1. sl[p].cache = c /\ sl[p].free_count # 0
      BY <1>19, <2>6
    <3>2. slabs_full' = IF t.free_count = 0 THEN [slabs_full EXCEPT ![c] = Cons(p, @)]
                        ELSE slabs_full
      BY <1>7
    <3>3. t.cache = c
      BY <1>20
    <3>4. sl \in [Pages -> SlabType]
      BY <2>6
    <3> QED
      BY ONLY <1>10, <2>1, <2>3, <2>5, <2>7, <3>1, <3>2, <3>3, <3>4, ListsTake
  <2>9. slab' \in [Pages -> SlabType]
    BY <2>1, <2>6
  <2> QED
    BY <1>17, <2>6, <2>8, <2>9 DEF S
<1>28. HandsOut
  <2>1. r \notin live
    BY <1>8, <1>12, <1>21
  <2> QED
    BY <1>7, <1>21, <2>1 DEF HandsOut
<1> QED
  BY <1>15, <1>22, <1>23, <1>25, <1>26, <1>27, <1>28 DEF HeapInv

(* A block of its own goes back.                                           *)
LEMMA HeapKfreeBlock ==
  ASSUME HeapInv, NEW r \in live, KfreeBlock(r)
  PROVE  HeapInv'
<1>1. PICK P : P = UsedPages(metadata, live)
  OBVIOUS
<1>2. PICK p : p = PageOf(r.addr)
  OBVIOUS
<1>3. /\ ~metadata[Index(p)].is_slab
      /\ free_areas' = FreeAreas(p) /\ metadata' = FreeMeta(p) /\ live' = live \ {r}
      /\ slabs_partial' = slabs_partial /\ slabs_full' = slabs_full /\ slab' = slab
  BY <1>2 DEF KfreeBlock
<1>4. /\ BuddyOK(free_areas, metadata, P) /\ SlabPages \subseteq P /\ P \subseteq Pages
      /\ \A x \in live : PageOf(x.addr) \in P /\ x.addr \in Nat /\ x.size \in Requests
      /\ SlabPages = {q \in Pages : metadata[q].is_slab}
      /\ \A q \in P : q \in SlabPages
                      \/ \E x \in live : PageOf(x.addr) = q /\ ~metadata[q].is_slab
  BY <1>1, UsedIs
<1>5. /\ LiveType(live) /\ slab \in [Pages -> SlabType]
      /\ ListsGood(slabs_partial, slabs_full, SlabPages, slab)
      /\ \A q \in SlabPages : metadata[q].order = 0 /\ SlabGood(slab[q], q, LiveOn(live, q))
      /\ \A x \in live : LargeGood(metadata, x)
  BY DEF HeapInv
<1>6. p \in P /\ p \in Pages /\ ~metadata[p].is_slab
  <2>1. p \in P /\ p \in Pages
    BY <1>2, <1>4
  <2> QED
    BY <1>3, <2>1, HeapIs
<1> DEFINE md == metadata'
<1>7. /\ BuddyOK(free_areas', md, P \ {p})
      /\ \A q \in P \ {p} : md[q] = metadata[q]
      /\ \A q \in Pages : md[q].is_slab => metadata[q].is_slab
  <2>1. /\ BuddyOK(FreeAreas(p), FreeMeta(p), P \ {p})
        /\ \A q \in P \ {p} : FreeMeta(p)[q] = metadata[q]
        /\ \A q \in Pages : FreeMeta(p)[q].is_slab => metadata[q].is_slab
    BY <1>4, <1>6, FreeBuddy
  <2> QED
    BY <1>3, <2>1
<1>8. SlabPages' = {q \in Pages : md[q].is_slab}
  BY DEF SlabPages
<1> HIDE DEF md
<1>9. SlabPages' = SlabPages /\ p \notin SlabPages
  BY <1>4, <1>6, <1>7, <1>8
<1>10. ASSUME NEW x \in live \ {r} PROVE PageOf(x.addr) # p
  <2>1. ASSUME PageOf(x.addr) = p PROVE FALSE
    <3>1. x.addr = p * PageSize /\ r.addr = p * PageSize
      BY <1>2, <1>5, <1>6, <2>1 DEF LargeGood
    <3> QED
      BY <1>5, <3>1 DEF LiveType
  <2> QED
    BY <2>1
<1>11. LiveType(live')
  BY <1>3, <1>5 DEF LiveType
<1>12. UsedPages(md, live') = P \ {p}
  <2> DEFINE Q == P \ {p}
             L == live \ {r}
  <2>1. Q \subseteq Pages
    BY <1>4
  <2>2. \A q \in Pages : md[q].is_slab => q \in Q
    BY <1>4, <1>6, <1>7
  <2>3. \A x \in L : PageOf(x.addr) \in Q
    BY <1>4, <1>10
  <2>4. ASSUME NEW q \in Q PROVE md[q].is_slab \/ \E x \in L : PageOf(x.addr) = q
    <3>1. md[q] = metadata[q] /\ q # p /\ q \in P
      BY <1>7
    <3>2. CASE q \in SlabPages
      BY <1>4, <3>1, <3>2
    <3>3. CASE q \notin SlabPages
      <4>1. PICK x \in live : PageOf(x.addr) = q
        BY <1>4, <3>1, <3>3
      <4> QED
        BY <1>2, <3>1, <4>1
    <3> QED
      BY <3>2, <3>3
  <2> HIDE DEF Q, L
  <2>5. UsedPages(md, L) = Q
    BY <2>1, <2>2, <2>3, <2>4, UsedAre
  <2> QED
    BY <1>3, <2>5 DEF Q, L
<1>13. \A q \in SlabPages' : md[q].order = 0 /\ SlabGood(slab'[q], q, LiveOn(live', q))
  <2>1. \A q \in SlabPages : PageOf(r.addr) # q
    BY <1>2, <1>9
  <2>2. \A q \in SlabPages : LiveOn(live \ {r}, q) = LiveOn(live, q)
    BY <2>1, SlabsFrame
  <2>3. \A q \in SlabPages : md[q] = metadata[q]
    BY <1>4, <1>7, <1>9
  <2> QED
    BY <1>3, <1>5, <1>9, <2>2, <2>3
<1>14. ASSUME NEW x \in live' PROVE LargeGood(md, x)
  <2>1. x \in live \ {r}
    BY <1>3
  <2>2. LargeGood(metadata, x) /\ md[PageOf(x.addr)] = metadata[PageOf(x.addr)]
    BY <1>4, <1>5, <1>7, <1>10, <2>1
  <2> QED
    BY <2>2 DEF LargeGood
<1>15. slab' \in [Pages -> SlabType] /\ ListsGood(slabs_partial', slabs_full', SlabPages', slab')
  BY <1>3, <1>5, <1>9
<1> QED
  BY <1>7, <1>11, <1>12, <1>13, <1>14, <1>15 DEF HeapInv, md

(* An object goes back to its slab, and a slab that is empty then goes     *)
(* back to the buddy allocator.                                            *)
LEMMA HeapKfreeObject ==
  ASSUME HeapInv, NEW r \in live, KfreeObject(r)
  PROVE  HeapInv'
<1>1. PICK P : P = UsedPages(metadata, live)
  OBVIOUS
<1>2. PICK p : p = PageOf(r.addr)
  OBVIOUS
<1>3. PICK s : s = slab[p]
  OBVIOUS
<1>4. PICK c : c = s.cache
  OBVIOUS
<1>5. PICK t : t = [s EXCEPT !.free_list = Cons(r.addr, @), !.free_count = @ + 1]
  OBVIOUS
<1>6. PICK a : a = SlabLists(c, p)[1]
  OBVIOUS
<1>7. PICK b : b = SlabLists(c, p)[2]
  OBVIOUS
<1> DEFINE empty == t.free_count = t.total_count
<1>8. /\ metadata[Index(p)].is_slab
      /\ live' = live \ {r}
      /\ slabs_full' = [slabs_full EXCEPT ![c] = b]
      /\ slabs_partial' = [slabs_partial EXCEPT ![c] = IF empty THEN RemoveFirst(a, p) ELSE a]
      /\ empty => /\ free_areas' = FreeAreas(p)
                  /\ metadata' = [FreeMeta(p) EXCEPT ![Index(p)].is_slab = FALSE]
                  /\ slab' = [slab EXCEPT ![p] = NoSlab]
      /\ ~empty => /\ slab' = [slab EXCEPT ![p] = t]
                   /\ free_areas' = free_areas /\ metadata' = metadata
  BY <1>2, <1>3, <1>4, <1>5, <1>6, <1>7 DEF KfreeObject
<1>9. /\ BuddyOK(free_areas, metadata, P) /\ SlabPages \subseteq P /\ P \subseteq Pages
      /\ \A x \in live : PageOf(x.addr) \in P /\ x.addr \in Nat /\ x.size \in Requests
      /\ SlabPages = {q \in Pages : metadata[q].is_slab}
      /\ \A q \in P : q \in SlabPages
                      \/ \E x \in live : PageOf(x.addr) = q /\ ~metadata[q].is_slab
  BY <1>1, UsedIs
<1>10. /\ LiveType(live) /\ slab \in [Pages -> SlabType]
       /\ ListsGood(slabs_partial, slabs_full, SlabPages, slab)
       /\ \A q \in SlabPages : metadata[q].order = 0 /\ SlabGood(slab[q], q, LiveOn(live, q))
       /\ \A x \in live : LargeGood(metadata, x)
  BY DEF HeapInv
<1>11. p \in P /\ p \in Pages /\ Index(p) = p /\ p \in SlabPages /\ p \in Nat
  <2>1. p \in P /\ p \in Pages
    BY <1>2, <1>9
  <2>2. Index(p) = p /\ p \in Nat
    BY <2>1, HeapIs
  <2> QED
    BY <1>8, <1>9, <2>1, <2>2
<1> DEFINE L == LiveOn(live, p)
<1>12. SlabGood(s, p, L) /\ c \in Caches /\ r \in L /\ \A x, y \in L : x.addr = y.addr => x = y
  BY <1>2, <1>3, <1>4, <1>10, <1>11 DEF SlabGood, SlabShape, LiveOn, LiveType
<1> HIDE DEF L
<1>13. /\ SlabShape(t, p, L \ {r}) /\ t.cache = c /\ t.total_count = s.total_count
       /\ t.free_count <= t.total_count /\ t.free_count # 0
  <2>1. SlabGood(s, p, L) /\ r \in L /\ p \in Nat
    BY <1>11, <1>12
  <2>2. OneEach(L)
    BY <1>12 DEF OneEach
  <2>3. SlabShape(t, p, L \ {r})
    BY ONLY <1>5, <2>1, <2>2, GiveObject
  <2>4. s \in SlabType /\ s.free_count < s.total_count
    BY <1>12 DEF SlabGood, SlabShape
  <2>5. t.cache = s.cache /\ t.total_count = s.total_count /\ t.free_count = s.free_count + 1
    BY <1>5, <2>4 DEF SlabType
  <2>6. t.free_count <= t.total_count /\ t.free_count # 0
    BY <2>4, <2>5 DEF SlabType
  <2> QED
    BY <1>4, <2>3, <2>4, <2>5, <2>6
<1>14. t \in SlabType
  BY <1>13 DEF SlabShape
<1>15. LiveType(live')
  BY <1>8, <1>10 DEF LiveType
<1>16. LiveOn(live', p) = L \ {r} /\ \A q \in SlabPages \ {p} : LiveOn(live', q) = LiveOn(live, q)
  BY <1>2, <1>8 DEF L, LiveOn
<1> DEFINE sl == [slab EXCEPT ![p] = t]
           part == [slabs_partial EXCEPT ![c] = a]
<1>17. ListsGood(part, slabs_full', SlabPages, sl)
  <2>1. s.free_count = 0 => a = Cons(p, slabs_partial[c]) /\ b = RemoveFirst(slabs_full[c], p)
    BY <1>3, <1>6, <1>7 DEF SlabLists
  <2>2. s.free_count # 0 => a = slabs_partial[c] /\ b = slabs_full[c]
    BY <1>3, <1>6, <1>7 DEF SlabLists
  <2>3. SlabPages \subseteq Pages
    BY <1>9
  <2>4. ListsGood(part, [slabs_full EXCEPT ![c] = b], SlabPages, sl)
    BY ONLY <1>3, <1>4, <1>10, <1>11, <1>12, <1>13, <1>14, <2>1, <2>2, <2>3, ListsGive
  <2> QED
    BY <1>8, <2>4
<1>18. sl \in [Pages -> SlabType] /\ sl[p] = t /\ \A q \in Pages : q # p => sl[q] = slab[q]
  BY <1>10, <1>11, <1>14
<1>19. slabs_partial \in [Caches -> Seq(Pages)]
  BY <1>10 DEF ListsGood
<1>20. CASE ~empty
  <2>1. free_areas' = free_areas /\ metadata' = metadata /\ slab' = sl /\ slabs_partial' = part
    BY <1>8, <1>20
  <2>2. SlabPages' = SlabPages
    BY <2>1 DEF SlabPages
  <2>3. t.free_count < t.total_count
    BY <1>13, <1>14, <1>20 DEF SlabType
  <2> HIDE DEF sl, part, empty
  <2>4. SlabGood(t, p, L \ {r})
    BY <1>13, <2>3 DEF SlabGood
  <2>5. UsedPages(metadata', live') = P
    <3> DEFINE K == live \ {r}
    <3>1. P \subseteq Pages /\ \A q \in Pages : metadata[q].is_slab => q \in P
      BY <1>9
    <3>2. \A x \in K : PageOf(x.addr) \in P
      BY <1>9
    <3>3. ASSUME NEW q \in P PROVE metadata[q].is_slab \/ \E x \in K : PageOf(x.addr) = q
      <4>1. CASE q \in SlabPages
        BY <1>9, <4>1
      <4>2. CASE q \notin SlabPages
        <5>1. PICK x \in live : PageOf(x.addr) = q
          BY <1>9, <4>2
        <5> QED
          BY <1>2, <1>11, <4>2, <5>1
      <4> QED
        BY <4>1, <4>2
    <3> HIDE DEF K
    <3>4. UsedPages(metadata, K) = P
      BY <3>1, <3>2, <3>3, UsedAre
    <3> QED
      BY <1>8, <2>1, <3>4 DEF K
  <2>6. \A q \in SlabPages' : metadata'[q].order = 0 /\ SlabGood(slab'[q], q, LiveOn(live', q))
    BY <1>9, <1>10, <1>16, <1>18, <2>1, <2>2, <2>4
  <2>7. \A x \in live' : LargeGood(metadata', x)
    BY <1>8, <1>10, <2>1
  <2>8. ListsGood(slabs_partial', slabs_full', SlabPages', slab')
    BY <1>17, <2>1, <2>2
  <2>9. BuddyOK(free_areas', metadata', P) /\ slab' \in [Pages -> SlabType]
    BY <1>9, <1>18, <2>1
  <2> QED
    BY <1>15, <2>5, <2>6, <2>7, <2>8, <2>9 DEF HeapInv
<1>21. CASE empty
  <2> DEFINE md == FreeMeta(p)
             md2 == metadata'
             S == SlabPages \ {p}
             Q == P \ {p}
  <2>1. /\ BuddyOK(free_areas', md, Q)
        /\ \A q \in Q : md[q] = metadata[q]
        /\ \A q \in Pages : md[q].is_slab => metadata[q].is_slab
    <3>1. /\ BuddyOK(FreeAreas(p), FreeMeta(p), P \ {p})
          /\ \A q \in P \ {p} : FreeMeta(p)[q] = metadata[q]
          /\ \A q \in Pages : FreeMeta(p)[q].is_slab => metadata[q].is_slab
      BY <1>9, <1>11, FreeBuddy
    <3> QED
      BY <1>8, <1>21, <3>1
  <2>2. md2 = [md EXCEPT ![p].is_slab = FALSE]
    BY <1>8, <1>11, <1>21
  <2> HIDE DEF md
  <2>3. MetaType(md)
    BY <2>1 DEF BuddyOK
  <2>4. /\ MetaType(md2)
        /\ \A q \in Pages : md2[q].order = md[q].order /\ md2[q].is_free = md[q].is_free
        /\ ~md2[p].is_slab /\ \A q \in Pages : q # p => md2[q] = md[q]
    <3>1. md \in [Pages -> [order : Orders, is_free : BOOLEAN, is_slab : BOOLEAN]]
      BY <2>3 DEF MetaType
    <3> DEFINE m == [md[p] EXCEPT !.is_slab = FALSE]
    <3>2. md2 = [md EXCEPT ![p] = m]
      BY <2>2
    <3>3. /\ m \in [order : Orders, is_free : BOOLEAN, is_slab : BOOLEAN]
          /\ m.order = md[p].order /\ m.is_free = md[p].is_free /\ ~m.is_slab
      BY <1>11, <3>1
    <3> HIDE DEF md2, m
    <3>4. \A q \in Pages : md2[q] = IF q = p THEN m ELSE md[q]
      BY <3>1, <3>2
    <3>5. md2 = [q \in Pages |-> md2[q]]
      BY <3>1, <3>2
    <3> QED
      BY <1>11, <3>1, <3>3, <3>4, <3>5 DEF MetaType
  <2>5. BuddyOK(free_areas', md2, Q)
    BY <2>1, <2>4, BuddyMark
  <2>6. \A q \in Q : md2[q] = metadata[q]
    BY <1>9, <2>1, <2>4
  <2>7. SlabPages' = S
    <3>1. SlabPages' = {q \in Pages : md2[q].is_slab}
      BY DEF SlabPages
    <3>2. ASSUME NEW q \in Pages PROVE md2[q].is_slab <=> q \in S
      BY <1>9, <2>1, <2>4, <2>6
    <3> HIDE DEF md2, S
    <3>3. S \subseteq Pages
      BY <1>9 DEF S
    <3> QED
      BY <3>1, <3>2, <3>3
  <2>8. LiveOn(live', p) = {}
    <3>1. /\ t.free_count = SlabCapacity(c) /\ Listing(t.free_list, Objects(c, p))
          /\ t.free_count = Len(t.free_list) /\ Addrs(L \ {r}) = Objects(c, p) \ ToSet(t.free_list)
      BY <1>13, <1>21 DEF SlabShape
    <3>2. IsFiniteSet(Objects(c, p)) /\ Cardinality(Objects(c, p)) = SlabCapacity(c)
      BY <1>11, <1>12, NewSlabIs
    <3>3. ToSet(t.free_list) \in SUBSET Objects(c, p)
          /\ Cardinality(ToSet(t.free_list)) = SlabCapacity(c)
      BY <3>1, ListElements, ListSize DEF Listing
    <3>4. ToSet(t.free_list) = Objects(c, p)
      BY <3>2, <3>3, FS_Subset
    <3>5. Addrs(L \ {r}) = {}
      BY <3>1, <3>4
    <3> QED
      BY <1>16, <3>5 DEF Addrs
  <2>9. ASSUME NEW x \in live \ {r} PROVE PageOf(x.addr) # p
    BY <1>8, <2>8 DEF LiveOn
  <2>10. UsedPages(md2, live') = Q
    <3> DEFINE K == live \ {r}
    <3>1. Q \subseteq Pages
      BY <1>9
    <3>2. \A q \in Pages : md2[q].is_slab => q \in Q
      BY <1>9, <2>1, <2>4
    <3>3. \A x \in K : PageOf(x.addr) \in Q
      BY <1>9, <2>9
    <3>4. ASSUME NEW q \in Q PROVE md2[q].is_slab \/ \E x \in K : PageOf(x.addr) = q
      <4>1. md2[q] = metadata[q] /\ q # p /\ q \in P
        BY <2>6
      <4>2. CASE q \in SlabPages
        BY <1>9, <4>1, <4>2
      <4>3. CASE q \notin SlabPages
        <5>1. PICK x \in live : PageOf(x.addr) = q
          BY <1>9, <4>1, <4>3
        <5> QED
          BY <1>2, <4>1, <5>1
      <4> QED
        BY <4>2, <4>3
    <3> HIDE DEF Q, K, md2
    <3>5. UsedPages(md2, K) = Q
      BY <3>1, <3>2, <3>3, <3>4, UsedAre
    <3> QED
      BY <1>8, <3>5 DEF K
  <2>11. slab' = [slab EXCEPT ![p] = NoSlab] /\ slabs_partial' = [slabs_partial EXCEPT ![c] = RemoveFirst(a, p)]
    BY <1>8, <1>21
  <2>12. slab' \in [Pages -> SlabType] /\ \A q \in Pages : q # p => slab'[q] = slab[q]
    <3>1. NoSlab \in SlabType
      BY DEF NoSlab, SlabType
    <3> QED
      BY <1>10, <2>11, <3>1
  <2>13. ListsGood(slabs_partial', slabs_full', S, slab')
    <3>1. part[c] = a /\ [part EXCEPT ![c] = RemoveFirst(part[c], p)] = slabs_partial'
      BY <1>12, <1>19, <2>11
    <3> HIDE DEF sl, part, empty, S
    <3>2. sl[p].cache = c /\ sl[p].free_count # 0
      BY <1>13, <1>18
    <3>3. ListsGood([part EXCEPT ![c] = RemoveFirst(part[c], p)], slabs_full', SlabPages \ {p}, sl)
      BY ONLY <1>11, <1>12, <1>17, <3>2, ListsDrop
    <3>4. \A q \in SlabPages \ {p} : slab'[q] = sl[q]
      BY <1>9, <1>18, <2>12
    <3>5. ListsGood(slabs_partial', slabs_full', SlabPages \ {p}, sl)
      BY <3>1, <3>3
    <3> QED
      BY <3>4, <3>5, ListsFrame DEF S
  <2>14. \A q \in SlabPages' : md2[q].order = 0 /\ SlabGood(slab'[q], q, LiveOn(live', q))
    <3>1. \A q \in S : q \in Q /\ q \in Pages /\ q # p
      BY <1>9
    <3> HIDE DEF md2
    <3> QED
      BY <1>10, <1>16, <2>6, <2>7, <2>12, <3>1
  <2>15. ASSUME NEW x \in live' PROVE LargeGood(md2, x)
    <3>1. x \in live \ {r}
      BY <1>8
    <3>2. LargeGood(metadata, x) /\ md2[PageOf(x.addr)] = metadata[PageOf(x.addr)]
      BY <1>9, <1>10, <2>6, <2>9, <3>1
    <3> HIDE DEF md2
    <3> QED
      BY <3>2 DEF LargeGood
  <2> HIDE DEF Q, S
  <2>16. ListsGood(slabs_partial', slabs_full', SlabPages', slab')
    BY <2>7, <2>13
  <2> QED
    BY <1>15, <2>5, <2>10, <2>12, <2>14, <2>15, <2>16 DEF HeapInv
<1> QED
  BY <1>20, <1>21

(* The invariant is inductive.                                             *)
THEOREM HeapInductive == Spec => []HeapInv
<1>1. HeapInv /\ [Next]_vars => HeapInv'
  <2> SUFFICES ASSUME HeapInv, [Next]_vars PROVE HeapInv'
    OBVIOUS
  <2>1. CASE UNCHANGED vars
    <3> USE <2>1 DEF vars
    <3>1. SlabPages' = SlabPages
      BY DEF SlabPages
    <3> QED
      BY <3>1 DEF HeapInv
  <2>2. ASSUME NEW size \in Requests, KmallocLarge(size) PROVE HeapInv'
    BY <2>2, HeapKmallocLarge
  <2>3. ASSUME NEW size \in Requests, KmallocPartial(size) PROVE HeapInv'
    BY <2>3, HeapKmallocPartial
  <2>4. ASSUME NEW size \in Requests, KmallocNewSlab(size) PROVE HeapInv'
    BY <2>4, HeapKmallocNewSlab
  <2>5. ASSUME NEW r \in live, KfreeBlock(r) PROVE HeapInv'
    BY <2>5, HeapKfreeBlock
  <2>6. ASSUME NEW r \in live, KfreeObject(r) PROVE HeapInv'
    BY <2>6, HeapKfreeObject
  <2> QED
    BY <2>1, <2>2, <2>3, <2>4, <2>5, <2>6 DEF Next
<1> QED
  BY <1>1, HeapInit, PTL DEF Spec

-----------------------------------------------------------------------------
(* What the invariant says of the heap.                                    *)

LEMMA SameSize ==
  ASSUME NEW S, NEW T, NEW f \in [S -> T], IsFiniteSet(S) \/ IsFiniteSet(T),
         \A x, y \in S : f[x] = f[y] => x = y, \A y \in T : \E x \in S : f[x] = y
  PROVE  IsFiniteSet(S) /\ IsFiniteSet(T) /\ Cardinality(S) = Cardinality(T)
<1>1. f \in Injection(S, T) /\ f \in Surjection(S, T) /\ f \in Bijection(S, T)
  BY DEF Injection, Surjection, Bijection, IsInjective
<1>2. CASE IsFiniteSet(S)
  BY <1>1, <1>2, FS_Bijection DEF ExistsBijection
<1>3. CASE IsFiniteSet(T)
  BY <1>1, <1>3, FS_Injection
<1> QED
  BY <1>2, <1>3

LEMMA FreeBlocksAre ==
  ASSUME NEW P, BuddyOK(free_areas, metadata, P)
  PROVE  FreeBlocks = Blocks(free_areas) /\ IsFiniteSet(FreeBlocks)
<1>1. ASSUME NEW o \in Orders PROVE ToSet(free_areas[o]) \subseteq Pages
  BY ListElements DEF BuddyOK, AreasOK
<1>2. FreeBlocks = Blocks(free_areas)
  <2>1. ASSUME NEW b \in FreeBlocks PROVE b \in Blocks(free_areas)
    <3>1. PICK o \in Orders : b \in {<<p, o>> : p \in ToSet(free_areas[o])}
      BY DEF FreeBlocks
    <3>2. PICK p \in ToSet(free_areas[o]) : b = <<p, o>>
      BY <3>1
    <3> QED
      BY <1>1, <3>2 DEF Blocks
  <2>2. ASSUME NEW b \in Blocks(free_areas) PROVE b \in FreeBlocks
    <3>1. b = <<b[1], b[2]>> /\ b[2] \in Orders /\ b[1] \in ToSet(free_areas[b[2]])
      BY DEF Blocks
    <3> QED
      BY <3>1 DEF FreeBlocks
  <2> QED
    BY <2>1, <2>2
<1>3. IsFiniteSet(Pages) /\ IsFiniteSet(Orders)
  <2>1. MaxOrder \in Nat /\ 2^MaxOrder \in Nat
    BY HeapIs, PowerStep
  <2> QED
    BY <2>1, FS_Interval DEF Pages, Orders
<1>4. IsFiniteSet(Pages \X Orders)
  BY <1>3, FS_Product
<1>5. Blocks(free_areas) \in SUBSET (Pages \X Orders)
  BY DEF Blocks
<1> QED
  BY <1>2, <1>4, <1>5, FS_Subset

LEMMA MarksAgree == HeapInv => MetadataOK
BY FreeBlocksAre DEF HeapInv, MetadataOK, BuddyOK, Marked

(* The page of a large allocation is its own.                              *)
LEMMA LargeApart ==
  ASSUME HeapInv, NEW r \in LargeLive, NEW s \in LargeLive, PageOf(r.addr) = PageOf(s.addr)
  PROVE  r = s
<1>1. r \in live /\ s \in live /\ ~metadata[PageOf(r.addr)].is_slab
      /\ ~metadata[PageOf(s.addr)].is_slab
  BY DEF LargeLive
<1>2. r.addr = PageOf(r.addr) * PageSize /\ s.addr = PageOf(s.addr) * PageSize
  BY <1>1 DEF HeapInv, LargeGood
<1>3. r.addr = s.addr
  BY <1>2
<1> QED
  BY <1>1, <1>3 DEF HeapInv, LiveType

(* The tiles are the pages of the blocks, free or in use.                  *)
LEMMA TilesAre ==
  ASSUME HeapInv, NEW P, P = UsedPages(metadata, live), NEW B,
         B = Blocks(free_areas) \cup UsedBlocks(metadata, P)
  PROVE  /\ Tiles = {BlockPages(b[1], b[2]) : b \in B}
         /\ Tiling(B)
         /\ \A b \in B : \A q : q \in BlockPages(b[1], b[2]) <=> q \in Pages /\ Covers(b, q)
<1>1. BuddyOK(free_areas, metadata, P) /\ SlabPages \subseteq P /\ P \subseteq Pages
      /\ \A r \in live : PageOf(r.addr) \in P
      /\ SlabPages = {p \in Pages : metadata[p].is_slab}
  BY UsedIs
<1>2. Tiling(B) /\ FreeBlocks = Blocks(free_areas)
  BY <1>1, FreeBlocksAre DEF BuddyOK
<1>3. \A p \in SlabPages : metadata[p].order = 0
  BY DEF HeapInv
<1>4. ASSUME NEW p \in Pages PROVE BlockPages(p, 0) = {p}
  <2>1. p \in Nat
    BY HeapIs
  <2>2. 2^0 = 1
    OBVIOUS
  <2> QED
    BY <2>1, <2>2 DEF BlockPages
<1>5. \A p \in P : BlockPages(p, metadata[p].order) \in {BlockPages(b[1], b[2]) : b \in B}
  <2> SUFFICES ASSUME NEW p \in P
               PROVE  BlockPages(p, metadata[p].order) \in {BlockPages(b[1], b[2]) : b \in B}
    OBVIOUS
  <2>1. <<p, metadata[p].order>> \in B
    BY DEF UsedBlocks
  <2> QED
    BY <2>1
<1>6. ASSUME NEW T \in Tiles PROVE T \in {BlockPages(b[1], b[2]) : b \in B}
  <2>1. CASE T \in {BlockPages(b[1], b[2]) : b \in FreeBlocks}
    BY <1>2, <2>1
  <2>2. CASE T \in {{p} : p \in SlabPages}
    <3>1. PICK p \in SlabPages : T = {p}
      BY <2>2
    <3>2. p \in P /\ T = BlockPages(p, metadata[p].order)
      BY <1>1, <1>3, <1>4, <3>1
    <3> QED
      BY <1>5, <3>2
  <2>3. CASE T \in {BlockPages(PageOf(r.addr), metadata[PageOf(r.addr)].order) : r \in LargeLive}
    <3>1. PICK r \in LargeLive : T = BlockPages(PageOf(r.addr), metadata[PageOf(r.addr)].order)
      BY <2>3
    <3>2. PageOf(r.addr) \in P
      BY <1>1 DEF LargeLive
    <3> QED
      BY <1>5, <3>1, <3>2
  <2> QED
    BY <2>1, <2>2, <2>3 DEF Tiles
<1>7. ASSUME NEW b \in B PROVE BlockPages(b[1], b[2]) \in Tiles
  <2>1. CASE b \in Blocks(free_areas)
    BY <1>2, <2>1 DEF Tiles
  <2>2. CASE b \in UsedBlocks(metadata, P)
    <3>1. PICK p \in P : b = <<p, metadata[p].order>>
      BY <2>2 DEF UsedBlocks
    <3>2. CASE p \in SlabPages
      BY <1>1, <1>3, <1>4, <3>1, <3>2 DEF Tiles
    <3>3. CASE p \notin SlabPages
      <4>1. PICK r \in LargeLive : PageOf(r.addr) = p
        <5>1. PICK r \in live : PageOf(r.addr) = p /\ ~metadata[p].is_slab
          BY <3>3, UsedIs
        <5> QED
          BY <5>1 DEF LargeLive
      <4> QED
        BY <3>1, <4>1 DEF Tiles
    <3> QED
      BY <3>2, <3>3
  <2> QED
    BY <2>1, <2>2
<1>8. Tiles = {BlockPages(b[1], b[2]) : b \in B}
  BY <1>6, <1>7
<1>9. ASSUME NEW b \in B, NEW q
      PROVE  q \in BlockPages(b[1], b[2]) <=> q \in Pages /\ Covers(b, q)
  <2> DEFINE p == b[1]
             o == b[2]
  <2>1. p \in Pages /\ o \in Orders /\ Aligned(p, o)
    BY <1>2 DEF Tiling, Proper
  <2>2. p \in Nat /\ o \in Nat /\ 2^o \in Nat /\ Pages \subseteq Nat
    <3> HIDE DEF p, o
    <3>1. p \in Nat /\ o \in Nat /\ Pages \subseteq Nat
      BY <2>1, HeapIs DEF Orders
    <3> QED
      BY <3>1, PowerStep
  <2> HIDE DEF p, o
  <2>3. q \in BlockPages(p, o) => q \in Nat
    BY <2>2 DEF BlockPages
  <2>4. q \in Nat => (q \in BlockPages(p, o) <=> Same(q, p, o))
    BY <2>1, <2>2, BlockIs
  <2>5. q \in Nat /\ Same(q, p, o) => q \in Pages
    BY <2>1, InHeap
  <2>6. q \in BlockPages(p, o) <=> q \in Pages /\ Same(q, p, o)
    BY <2>2, <2>3, <2>4, <2>5
  <2> QED
    BY <2>6 DEF Covers, p, o
<1> QED
  BY <1>2, <1>8, <1>9

LEMMA TilesTile == HeapInv => HeapTiled
<1> SUFFICES ASSUME HeapInv PROVE HeapTiled
  OBVIOUS
<1>1. PICK P : P = UsedPages(metadata, live)
  OBVIOUS
<1> DEFINE F == Blocks(free_areas)
           U == UsedBlocks(metadata, P)
           tile(b) == BlockPages(b[1], b[2])
<1>2. PICK B : B = F \cup U
  OBVIOUS
<1>3. /\ Tiles = {tile(b) : b \in B} /\ Tiling(B)
      /\ \A b \in B : \A q : q \in tile(b) <=> q \in Pages /\ Covers(b, q)
  BY <1>1, <1>2, TilesAre
<1>4. BuddyOK(free_areas, metadata, P) /\ SlabPages \subseteq P /\ P \subseteq Pages
      /\ \A r \in live : PageOf(r.addr) \in P
      /\ SlabPages = {p \in Pages : metadata[p].is_slab}
  BY <1>1, UsedIs
<1>5. FreeBlocks = F /\ IsFiniteSet(F)
  BY <1>4, FreeBlocksAre
<1>6. ASSUME NEW p \in P PROVE <<p, metadata[p].order>> \notin F
  BY <1>4, FreeAndUsed
<1>7. F \cap U = {}
  BY <1>6 DEF UsedBlocks
<1> HIDE DEF F, tile
<1>8. ASSUME NEW b \in B, NEW c \in B, tile(b) \cap tile(c) # {} PROVE b = c
  <2>1. PICK q : q \in tile(b) /\ q \in tile(c)
    BY <1>8
  <2> QED
    BY <1>3, <2>1 DEF Tiling, Apart
<1>9. ASSUME NEW b \in B PROVE tile(b) # {} /\ tile(b) \subseteq Pages
  <2>1. b[1] \in Pages /\ Covers(b, b[1])
    BY <1>3, SameEquivalence DEF Tiling, Proper, Covers
  <2> QED
    BY <1>3, <2>1
<1>10. \A S, T \in Tiles : S # T => S \cap T = {}
  BY <1>3, <1>8
<1>11. UNION Tiles = Pages /\ \A S \in Tiles : S \subseteq Pages
  <2>1. ASSUME NEW q \in Pages PROVE q \in UNION Tiles
    <3>1. PICK b \in B : Covers(b, q)
      BY <1>3 DEF Tiling, CoveredBy
    <3> QED
      BY <1>3, <3>1
  <2> QED
    BY <1>3, <1>9, <2>1
<1>12. IsFiniteSet(P)
  <2>1. MaxOrder \in Nat /\ 2^MaxOrder \in Nat
    BY HeapIs, PowerStep
  <2>2. IsFiniteSet(Pages)
    BY <2>1, FS_Interval DEF Pages
  <2> QED
    BY <1>4, <2>2, FS_Subset
<1>13. IsFiniteSet(U) /\ Cardinality(U) = Cardinality(P)
  <2> DEFINE f == [p \in P |-> <<p, metadata[p].order>>]
  <2>1. f \in [P -> U] /\ (\A x, y \in P : f[x] = f[y] => x = y) /\ \A y \in U : \E x \in P : f[x] = y
    BY DEF UsedBlocks
  <2> HIDE DEF f, U
  <2> QED
    BY <1>12, <2>1, SameSize
<1> HIDE DEF U
<1>14. IsFiniteSet(B) /\ Cardinality(B) = Cardinality(F) + Cardinality(U)
  <2>1. IsFiniteSet(F \cup U)
        /\ Cardinality(F \cup U) = Cardinality(F) + Cardinality(U) - Cardinality(F \cap U)
    BY <1>5, <1>13, FS_Union
  <2>2. Cardinality(F \cap U) = 0
    BY <1>7, FS_EmptySet
  <2>3. Cardinality(F) \in Nat /\ Cardinality(U) \in Nat
    BY <1>5, <1>13, FS_CardinalityType
  <2> QED
    BY <1>2, <2>1, <2>2, <2>3
<1>15. Cardinality(Tiles) = Cardinality(B)
  <2> DEFINE f == [b \in B |-> tile(b)]
  <2>1. f \in [B -> Tiles] /\ \A y \in Tiles : \E x \in B : f[x] = y
    BY <1>3
  <2>2. \A x, y \in B : f[x] = f[y] => x = y
    <3> SUFFICES ASSUME NEW x \in B, NEW y \in B, tile(x) = tile(y) PROVE x = y
      OBVIOUS
    <3> QED
      BY <1>8, <1>9
  <2> HIDE DEF f
  <2> QED
    BY <1>14, <2>1, <2>2, SameSize
<1> DEFINE G == P \ SlabPages
<1>16. Cardinality(P) = Cardinality(SlabPages) + Cardinality(G)
       /\ Cardinality(SlabPages) \in Nat /\ Cardinality(G) \in Nat /\ IsFiniteSet(G)
  <2>1. IsFiniteSet(SlabPages) /\ Cardinality(SlabPages) \in Nat
    BY <1>4, <1>12, FS_Subset, FS_CardinalityType
  <2>2. IsFiniteSet(G) /\ Cardinality(G) = Cardinality(P) - Cardinality(P \cap SlabPages)
    BY <1>12, FS_Difference
  <2>3. P \cap SlabPages = SlabPages
    BY <1>4
  <2>4. Cardinality(P) \in Nat /\ Cardinality(G) \in Nat
    BY <1>12, <2>2, FS_CardinalityType
  <2> QED
    BY <2>1, <2>2, <2>3, <2>4
<1>17. Cardinality(LargeLive) = Cardinality(G)
  <2> DEFINE f == [r \in LargeLive |-> PageOf(r.addr)]
  <2>1. f \in [LargeLive -> G]
    BY <1>4 DEF LargeLive
  <2>2. \A x, y \in LargeLive : f[x] = f[y] => x = y
    BY LargeApart
  <2>3. ASSUME NEW p \in G PROVE \E x \in LargeLive : f[x] = p
    <3>1. PICK r \in live : PageOf(r.addr) = p /\ ~metadata[p].is_slab
      BY <1>1, UsedIs
    <3>2. r \in LargeLive
      BY <3>1 DEF LargeLive
    <3> QED
      BY <3>1, <3>2
  <2> HIDE DEF f, G
  <2> QED
    BY <1>16, <2>1, <2>2, <2>3, SameSize
<1>18. Cardinality(Tiles) = Cardinality(FreeBlocks) + Cardinality(SlabPages) + Cardinality(LargeLive)
  <2>1. Cardinality(F) \in Nat
    BY <1>5, FS_CardinalityType
  <2> HIDE DEF G
  <2> QED
    BY <1>5, <1>13, <1>14, <1>15, <1>16, <1>17, <2>1
<1> QED
  BY <1>10, <1>11, <1>18 DEF HeapTiled

LEMMA SlabsAgree == HeapInv => SlabsOK
<1> SUFFICES ASSUME HeapInv, NEW c \in Caches
             PROVE  /\ \A p \in ToSet(slabs_partial[c]) :
                         0 < slab[p].free_count /\ slab[p].free_count < slab[p].total_count
                    /\ \A p \in ToSet(slabs_full[c]) : slab[p].free_count = 0
                    /\ ToSet(slabs_partial[c]) \cap ToSet(slabs_full[c]) = {}
                    /\ ToSet(slabs_partial[c]) \cup ToSet(slabs_full[c])
                         = {p \in SlabPages : slab[p].cache = c}
                    /\ \A p \in SlabPages : slab[p].cache = c =>
                         /\ slab[p].free_count = Len(slab[p].free_list)
                         /\ slab[p].total_count - slab[p].free_count
                              = Cardinality({r \in live : PageOf(r.addr) = p})
  BY DEF SlabsOK
<1>1. /\ ToSet(slabs_partial[c]) = Roomy(SlabPages, slab, c)
      /\ ToSet(slabs_full[c]) = Filled(SlabPages, slab, c)
  BY DEF HeapInv, ListsGood
<1>2. SlabPages \subseteq Pages
  BY DEF SlabPages
<1>3. ASSUME NEW p \in SlabPages
      PROVE  /\ slab[p] \in SlabType /\ SlabGood(slab[p], p, LiveOn(live, p))
             /\ slab[p].free_count < slab[p].total_count
             /\ slab[p].free_count \in Nat
  <2>1. SlabGood(slab[p], p, LiveOn(live, p))
    BY DEF HeapInv
  <2>2. slab[p] \in SlabType
    BY <2>1 DEF SlabGood, SlabShape
  <2> QED
    BY <2>1, <2>2 DEF SlabGood, SlabType
<1>4. ASSUME NEW p \in ToSet(slabs_partial[c])
      PROVE  0 < slab[p].free_count /\ slab[p].free_count < slab[p].total_count
  <2>1. p \in SlabPages /\ slab[p].free_count # 0
    BY <1>1 DEF Roomy
  <2> QED
    BY <1>3, <2>1
<1>5. ASSUME NEW p \in SlabPages, slab[p].cache = c
      PROVE  /\ slab[p].free_count = Len(slab[p].free_list)
             /\ slab[p].total_count - slab[p].free_count
                  = Cardinality({r \in live : PageOf(r.addr) = p})
  <2> DEFINE L == LiveOn(live, p)
             f == slab[p].free_list
             O == Objects(c, p)
             T == ToSet(f)
  <2>1. /\ Listing(f, O) /\ slab[p].free_count = Len(f)
        /\ slab[p].total_count = SlabCapacity(c) /\ Addrs(L) = O \ T
    BY <1>3, <1>5 DEF SlabGood, SlabShape
  <2>2. p \in Nat
    BY <1>2, HeapIs
  <2>3. IsFiniteSet(O) /\ Cardinality(O) = SlabCapacity(c)
    BY <2>2, NewSlabIs
  <2>4. T \subseteq O /\ Cardinality(T) = Len(f) /\ Len(f) \in Nat
    BY <2>1, ListSize, ListElements DEF Listing
  <2>5. SlabCapacity(c) \in Nat
    BY CapacityIs
  <2> HIDE DEF O, T
  <2>6. IsFiniteSet(O \ T) /\ Cardinality(O \ T) = SlabCapacity(c) - Len(f)
    <3>1. IsFiniteSet(O \ T) /\ Cardinality(O \ T) = Cardinality(O) - Cardinality(O \cap T)
      BY <2>3, FS_Difference
    <3>2. O \cap T = T
      BY <2>4
    <3> QED
      BY <2>3, <2>4, <3>1, <3>2
  <2>7. Cardinality(L) = Cardinality(O \ T)
    <3> DEFINE g == [r \in L |-> r.addr]
    <3>1. g \in [L -> O \ T] /\ \A y \in O \ T : \E x \in L : g[x] = y
      BY <2>1 DEF Addrs
    <3>2. \A x, y \in L : g[x] = g[y] => x = y
      BY DEF LiveOn, HeapInv, LiveType
    <3> HIDE DEF g, L
    <3> QED
      BY <2>6, <3>1, <3>2, SameSize
  <2>8. L = {r \in live : PageOf(r.addr) = p}
    BY DEF LiveOn
  <2> QED
    BY <2>1, <2>6, <2>7, <2>8
<1>6. /\ \A p \in ToSet(slabs_full[c]) : slab[p].free_count = 0
      /\ ToSet(slabs_partial[c]) \cap ToSet(slabs_full[c]) = {}
      /\ ToSet(slabs_partial[c]) \cup ToSet(slabs_full[c]) = {p \in SlabPages : slab[p].cache = c}
  BY <1>1 DEF Roomy, Filled
<1> QED
  BY <1>4, <1>5, <1>6

(* With nothing in use, the free block of the least order would have a     *)
(* free buddy unless it is the whole heap.                                 *)
LEMMA AllMerged == HeapInv => NoLeak
<1> SUFFICES ASSUME HeapInv, live = {} PROVE free_areas[MaxOrder] = <<0>>
  BY DEF NoLeak
<1>1. PICK P : P = UsedPages(metadata, live)
  OBVIOUS
<1> DEFINE B == Blocks(free_areas)
<1>2. BuddyOK(free_areas, metadata, P)
      /\ \A p \in P : p \in SlabPages \/ \E r \in live : PageOf(r.addr) = p /\ ~metadata[p].is_slab
      /\ SlabPages \subseteq Pages
  BY <1>1, UsedIs DEF SlabPages
<1>3. SlabPages = {}
  <2> SUFFICES ASSUME NEW p \in SlabPages PROVE FALSE
    OBVIOUS
  <2> DEFINE c == slab[p].cache
             f == slab[p].free_list
             O == Objects(c, p)
  <2>1. /\ c \in Caches /\ Listing(f, O) /\ slab[p].free_count = Len(f)
        /\ slab[p].total_count = SlabCapacity(c) /\ Addrs(LiveOn(live, p)) = O \ ToSet(f)
        /\ slab[p].free_count < slab[p].total_count
    BY DEF HeapInv, SlabGood, SlabShape
  <2>2. LiveOn(live, p) = {}
    BY DEF LiveOn
  <2>3. O \subseteq ToSet(f)
    BY <2>1, <2>2 DEF Addrs
  <2>8. p \in Pages
    BY DEF SlabPages
  <2>4. p \in Nat
    BY <2>8, HeapIs
  <2>5. IsFiniteSet(O) /\ Cardinality(O) = SlabCapacity(c)
    BY <2>1, <2>4, NewSlabIs
  <2>6. ToSet(f) \subseteq O /\ Cardinality(ToSet(f)) = Len(f) /\ Len(f) \in Nat
    BY <2>1, ListSize, ListElements DEF Listing
  <2>7. ToSet(f) = O
    BY <2>3, <2>6
  <2> HIDE DEF c, f, O
  <2> QED
    BY <2>1, <2>5, <2>6, <2>7
<1>4. P = {}
  BY <1>2, <1>3
<1>5. Tiling(B) /\ NoBuddies(B) /\ AreasOK(free_areas)
  <2>1. UsedBlocks(metadata, P) = {}
    BY <1>4 DEF UsedBlocks
  <2> QED
    BY <1>2, <2>1 DEF BuddyOK
<1>6. /\ MaxOrder \in Nat /\ Orders \subseteq Nat /\ 0 \in Pages /\ Pages \subseteq Nat
      /\ MaxOrder \in Orders /\ \A o \in Orders : o <= MaxOrder
      /\ \A q \in Pages : Same(q, 0, MaxOrder)
  BY HeapIs DEF Orders
<1>7. ASSUME NEW b \in B PROVE b \in Pages \X Orders /\ Aligned(b[1], b[2])
  BY <1>5 DEF Tiling, Proper
<1> HIDE DEF B
<1> DEFINE S == {b[2] : b \in B}
           m == Min(S)
<1>8. m \in S /\ \A y \in S : m <= y
  <2>1. S \in SUBSET Nat
    BY <1>6, <1>7
  <2>2. S # {}
    <3>1. CoveredBy(B, 0)
      BY <1>5, <1>6 DEF Tiling
    <3> QED
      BY <3>1 DEF CoveredBy
  <2> HIDE DEF S
  <2> QED
    BY <2>1, <2>2, MinIsLeast
<1>9. PICK b \in B : b[2] = m
  BY <1>8
<1>10. \A c \in B : m <= c[2]
  BY <1>8
<1> HIDE DEF S, m
<1> DEFINE p == b[1]
<1>11. p \in Pages /\ p \in Nat /\ m \in Orders /\ m \in Nat /\ Aligned(p, m) /\ b = <<p, m>>
  BY <1>6, <1>7, <1>9
<1> HIDE DEF p
<1>12. m = MaxOrder
  <2> SUFFICES ASSUME m # MaxOrder PROVE FALSE
    OBVIOUS
  <2> DEFINE q == Buddy(p, m)
  <2>1. m < MaxOrder /\ m + 1 \in Orders /\ m + 1 \in Nat
    BY <1>6, <1>11 DEF Orders
  <2>2. q \in Nat /\ Aligned(q, m) /\ Same(q, p, m+1) /\ ~Same(q, p, m)
    BY <1>11, BuddyIs
  <2>3. q \in Pages
    BY <1>11, <2>1, <2>2, InHeap
  <2>4. <<q, m>> \notin B
    BY <1>5, <1>9, <1>11, <2>1 DEF NoBuddies
  <2> HIDE DEF q
  <2>5. PICK c \in B : Covers(c, q)
    BY <1>5, <2>3 DEF Tiling, CoveredBy
  <2> DEFINE x == c[1]
             j == c[2]
  <2>6. x \in Pages /\ x \in Nat /\ j \in Orders /\ j \in Nat /\ Aligned(x, j) /\ c = <<x, j>>
        /\ m <= j /\ Same(q, x, j)
    BY <1>6, <1>7, <1>10, <2>5 DEF Covers
  <2> HIDE DEF x, j
  <2>7. CASE j = m
    <3>1. q = x
      BY <1>11, <2>2, <2>6, <2>7, AlignedSame
    <3> QED
      BY <2>4, <2>6, <2>7, <3>1
  <2>8. CASE j # m
    <3>1. m + 1 <= j
      BY <1>11, <2>6, <2>8
    <3>2. Same(q, p, j)
      BY <1>11, <2>1, <2>2, <2>6, <3>1, SameCoarser
    <3>3. Same(p, x, j)
      BY <2>6, <3>2, SameEquivalence
    <3>4. Same(b[1], c[1], c[2]) /\ b[2] <= c[2]
      BY <1>9, <2>6, <3>3 DEF p, x, j
    <3>5. b = c
      BY <1>5, <1>9, <3>4, TilingNested
    <3> QED
      BY <1>11, <2>6, <2>8, <3>5
  <2> QED
    BY <2>7, <2>8
<1>13. ASSUME NEW x \in Pages PROVE x \in ToSet(free_areas[MaxOrder]) <=> x = 0
  <2>1. x \in ToSet(free_areas[MaxOrder]) <=> <<x, MaxOrder>> \in B
    BY <1>6 DEF B, Blocks
  <2>2. ASSUME NEW y \in Pages, <<y, MaxOrder>> \in B PROVE y = 0
    <3>1. Aligned(y, MaxOrder) /\ Same(y, 0, MaxOrder) /\ Aligned(0, MaxOrder)
      BY <1>6, <1>7, <2>2, HeapIs
    <3> QED
      BY <1>6, <3>1, AlignedSame
  <2>3. p = 0 /\ <<p, MaxOrder>> \in B
    BY <1>9, <1>11, <1>12, <2>2
  <2> QED
    BY <2>1, <2>2, <2>3
<1>14. Listing(free_areas[MaxOrder], Pages) /\ ToSet(free_areas[MaxOrder]) \subseteq Pages
  BY <1>5, <1>6, ListElements DEF AreasOK, Listing
<1>15. ToSet(free_areas[MaxOrder]) = {0}
  BY <1>6, <1>13, <1>14
<1> QED
  BY <1>14, <1>15, ListSingle

-----------------------------------------------------------------------------
(* Kheap implements Allocator.                                             *)

Bytes == 0..(2^MaxOrder * PageSize - 1)

(* The pages of an interval of bytes.                                      *)
LEMMA PagesOf ==
  ASSUME NEW p \in Nat, NEW n \in Nat, NEW x \in Nat,
         p * PageSize <= x, x < p * PageSize + PageSize * n
  PROVE  PageOf(x) \in p..(p + n - 1)
<1> DEFINE d == PageSize
           q == x \div d
<1>1. d \in Nat \ {0}
  BY HeapShape
<1>2. q \in Nat /\ x % d \in 0..(d - 1) /\ x = d * q + (x % d)
  BY <1>1, Division
<1> HIDE DEF q
<1>3. d * q <= x /\ x < d * q + d
  BY <1>1, <1>2
<1>4. d * p <= x /\ x < d * (p + n)
  BY <1>1
<1> HIDE DEF d
<1>5. p <= q
  <2>1. q < p => d * q + d <= d * p
    BY <1>1, <1>2
  <2> QED
    BY <1>1, <1>2, <1>3, <1>4, <2>1
<1>6. q < p + n
  <2>1. p + n <= q => d * (p + n) <= d * q
    BY <1>1, <1>2
  <2> QED
    BY <1>1, <1>2, <1>3, <1>4, <2>1
<1> QED
  BY <1>2, <1>5, <1>6 DEF PageOf, d, q

(* The bytes of the heap are those of its pages.                           *)
LEMMA BytesAre ==
  ASSUME NEW x \in Nat, PageOf(x) \in Pages
  PROVE  x \in Bytes
<1> DEFINE d == PageSize
           q == PageOf(x)
           n == 2^MaxOrder
<1>1. d \in Nat \ {0} /\ n \in Nat \ {0}
  BY HeapShape, PowerStep
<1>2. q \in Nat /\ x % d \in 0..(d - 1) /\ x = d * q + (x % d)
  BY <1>1, Division DEF PageOf
<1>3. q < n
  BY <1>1 DEF Pages
<1> HIDE DEF q, n
<1>4. d * q + d <= n * d
  <2> HIDE DEF d
  <2> QED
    BY <1>1, <1>2, <1>3
<1>5. n * d \in Nat
  BY <1>1
<1> HIDE DEF d
<1>6. x \in 0..(n * d - 1)
  BY <1>1, <1>2, <1>4, <1>5
<1> QED
  BY <1>6 DEF Bytes, n, d

(* Where an allocation lies: in the block in use that starts at its page,  *)
(* and on a slab behind the header.                                        *)
LEMMA ExtentIs ==
  ASSUME HeapInv, NEW P, P = UsedPages(metadata, live), NEW r \in live, NEW x \in Extent(r),
         NEW p, p = PageOf(r.addr)
  PROVE  /\ p \in P /\ x \in Nat /\ PageOf(x) \in Pages
         /\ Covers(<<p, metadata[p].order>>, PageOf(x))
         /\ p \in SlabPages => /\ r.addr \in Objects(slab[p].cache, p) \ ToSet(slab[p].free_list)
                               /\ slab[p].cache \in Caches
                               /\ r.size <= ObjSizes[slab[p].cache]
                               /\ p * PageSize + SlabHeader <= x
<1>1. /\ BuddyOK(free_areas, metadata, P) /\ P \subseteq Pages
      /\ p \in P /\ r.addr \in Nat /\ r.size \in Requests
      /\ SlabPages = {q \in Pages : metadata[q].is_slab}
  BY UsedIs
<1>2. p \in Pages /\ p \in Nat /\ r.size \in Nat /\ PageSize \in Nat \ {0} /\ SlabHeader \in Nat
  BY <1>1, HeapIs, HeapShape
<1>3. x \in Nat /\ r.addr <= x /\ x < r.addr + r.size
  BY <1>1, <1>2 DEF Extent
<1> DEFINE o == metadata[p].order
           b == <<p, o>>
<1>4. o \in Orders /\ b \in UsedBlocks(metadata, P)
  BY <1>1, FreeAndUsed
<1>5. \A q : q \in BlockPages(p, o) => q \in Pages /\ Covers(b, q)
  <2>1. b \in Blocks(free_areas) \cup UsedBlocks(metadata, P)
    BY <1>4
  <2>2. \A q : q \in BlockPages(b[1], b[2]) <=> q \in Pages /\ Covers(b, q)
    <3> DEFINE B == Blocks(free_areas) \cup UsedBlocks(metadata, P)
    <3> HIDE DEF b
    <3>1. \A c \in B : \A q : q \in BlockPages(c[1], c[2]) <=> q \in Pages /\ Covers(c, q)
      BY TilesAre
    <3> QED
      BY <2>1, <3>1
  <2> QED
    BY <2>2
<1> HIDE DEF b
<1>6. CASE p \notin SlabPages
  <2>1. r.addr = p * PageSize /\ r.size <= PageSize * 2^o
    BY <1>1, <1>2, <1>6 DEF HeapInv, LargeGood
  <2>2. o \in Nat /\ 2^o \in Nat
    <3>1. o \in Nat
      BY <1>4, HeapIs DEF Orders
    <3> QED
      BY <3>1, PowerStep
  <2> DEFINE n == 2^o
  <2> HIDE DEF o
  <2>3. PageOf(x) \in p..(p + n - 1)
    <3>1. n \in Nat /\ r.size <= PageSize * n /\ r.addr = p * PageSize
      BY <2>1, <2>2
    <3> HIDE DEF n
    <3>2. p * PageSize \in Nat /\ PageSize * n \in Nat
      BY <1>2, <3>1
    <3>3. p * PageSize <= x /\ x < p * PageSize + PageSize * n
      BY <1>2, <1>3, <3>1, <3>2
    <3> QED
      BY <1>2, <1>3, <3>1, <3>3, PagesOf
  <2>4. PageOf(x) \in BlockPages(p, o)
    BY <2>3 DEF BlockPages
  <2> QED
    BY <1>1, <1>3, <1>5, <1>6, <2>4 DEF b, o
<1>7. CASE p \in SlabPages
  <2> DEFINE c == slab[p].cache
             f == slab[p].free_list
             L == LiveOn(live, p)
  <2>1. metadata[p].order = 0 /\ SlabShape(slab[p], p, L)
    BY <1>7 DEF HeapInv, SlabGood
  <2>2. /\ c \in Caches /\ Addrs(L) = Objects(c, p) \ ToSet(f)
        /\ \A s \in L : s.size <= ObjSizes[c]
    BY <2>1 DEF SlabShape
  <2>3. r \in L
    BY DEF LiveOn
  <2> HIDE DEF c, f, L
  <2>4. r.addr \in Objects(c, p) \ ToSet(f) /\ r.size <= ObjSizes[c]
    BY <2>2, <2>3 DEF Addrs
  <2>5. p * PageSize + SlabHeader <= r.addr /\ r.addr + ObjSizes[c] <= p * PageSize + PageSize
        /\ ObjSizes[c] \in Nat
    BY <1>2, <2>2, <2>4, ObjectIs, CapacityIs
  <2>6. p * PageSize + SlabHeader <= x /\ p * PageSize <= x /\ x < p * PageSize + PageSize
    <3>1. p * PageSize \in Nat
      BY <1>2
    <3> QED
      BY <1>1, <1>2, <1>3, <2>4, <2>5, <3>1
  <2>7. PageOf(x) = p
    <3>1. PageSize * 1 = PageSize
      BY <1>2
    <3>2. PageOf(x) \in p..(p + 1 - 1)
      BY <1>2, <1>3, <2>6, <3>1, PagesOf
    <3> QED
      BY <1>2, <3>2
  <2>8. PageOf(x) \in BlockPages(p, o)
    <3>1. 2^0 = 1 /\ o = 0
      BY <2>1
    <3> QED
      BY <1>2, <2>7, <3>1 DEF BlockPages
  <2> QED
    BY <1>1, <1>3, <1>5, <2>2, <2>4, <2>6, <2>8 DEF b, o, c, f
<1> QED
  BY <1>6, <1>7

(* Two blocks in use that share a page are one.                            *)
LEMMA UsedApart ==
  ASSUME NEW P, BuddyOK(free_areas, metadata, P), NEW p \in P, NEW q \in P, NEW y \in Pages,
         Covers(<<p, metadata[p].order>>, y), Covers(<<q, metadata[q].order>>, y)
  PROVE  p = q
<1> DEFINE b == <<p, metadata[p].order>>
           c == <<q, metadata[q].order>>
           B == Blocks(free_areas) \cup UsedBlocks(metadata, P)
<1>1. b \in B /\ c \in B
  BY DEF UsedBlocks
<1>2. Apart(B)
  BY DEF BuddyOK, Tiling
<1>3. Covers(b, y) /\ Covers(c, y)
  OBVIOUS
<1> HIDE DEF b, c, B
<1>4. b = c
  BY <1>1, <1>2, <1>3 DEF Apart
<1> QED
  BY <1>4 DEF b, c

(* Two allocations have no byte in common.                                 *)
LEMMA ExtentsApart ==
  ASSUME HeapInv, NEW r \in live, NEW s \in live, NEW x \in Extent(r), x \in Extent(s)
  PROVE  r = s
<1>1. PICK P : P = UsedPages(metadata, live)
  OBVIOUS
<1>2. PICK p : p = PageOf(r.addr)
  OBVIOUS
<1>3. PICK q : q = PageOf(s.addr)
  OBVIOUS
<1>4. /\ p \in P /\ x \in Nat /\ PageOf(x) \in Pages
      /\ Covers(<<p, metadata[p].order>>, PageOf(x))
      /\ p \in SlabPages => /\ r.addr \in Objects(slab[p].cache, p)
                            /\ slab[p].cache \in Caches
                            /\ r.size <= ObjSizes[slab[p].cache]
  BY <1>1, <1>2, ExtentIs
<1>5. /\ q \in P
      /\ Covers(<<q, metadata[q].order>>, PageOf(x))
      /\ q \in SlabPages => /\ s.addr \in Objects(slab[q].cache, q)
                            /\ s.size <= ObjSizes[slab[q].cache]
  BY <1>1, <1>3, ExtentIs
<1>6. /\ BuddyOK(free_areas, metadata, P) /\ P \subseteq Pages
      /\ SlabPages = {y \in Pages : metadata[y].is_slab}
      /\ r.addr \in Nat /\ r.size \in Nat /\ s.addr \in Nat /\ s.size \in Nat
  BY <1>1, UsedIs, HeapShape
<1>7. p = q
  BY <1>4, <1>5, <1>6, UsedApart
<1>8. r.addr <= x /\ x < r.addr + r.size /\ s.addr <= x /\ x < s.addr + s.size
  BY <1>4, <1>6 DEF Extent
<1>9. CASE p \in SlabPages
  <2>1. PICK c : c = slab[p].cache
    OBVIOUS
  <2>2. /\ r.addr \in Objects(c, p) /\ s.addr \in Objects(c, p) /\ c \in Caches
        /\ r.size <= ObjSizes[c] /\ s.size <= ObjSizes[c]
    BY <1>4, <1>5, <1>7, <1>9, <2>1
  <2>3. p \in Nat
    <3>1. p \in Pages
      BY <1>4, <1>6
    <3> QED
      BY <3>1, HeapIs
  <2>4. ObjSizes[c] \in Nat
    BY <2>2, CapacityIs
  <2>5. r.addr # s.addr => r.addr + ObjSizes[c] <= s.addr \/ s.addr + ObjSizes[c] <= r.addr
    BY <2>2, <2>3, ObjectIs
  <2>6. r.addr = s.addr
    BY <1>4, <1>6, <1>8, <2>2, <2>4, <2>5
  <2> QED
    BY <2>6 DEF HeapInv, LiveType
<1>10. CASE p \notin SlabPages
  <2>1. ~metadata[p].is_slab
    BY <1>4, <1>6, <1>10
  <2>2. r \in LargeLive /\ s \in LargeLive
    BY <1>2, <1>3, <1>7, <2>1 DEF LargeLive
  <2> QED
    BY <1>2, <1>3, <1>7, <2>2, LargeApart
<1> QED
  BY <1>9, <1>10

(* What an allocation has is no list pointer and no slab header.           *)
LEMMA BookkeepingApart ==
  ASSUME HeapInv, NEW x \in Bookkeeping
  PROVE  x \in Bytes /\ \A r \in live : x \notin Extent(r)
<1>1. PICK P : P = UsedPages(metadata, live)
  OBVIOUS
<1>2. /\ BuddyOK(free_areas, metadata, P) /\ P \subseteq Pages /\ SlabPages \subseteq P
  BY <1>1, UsedIs
<1>3. PageSize \in Nat \ {0} /\ SlabHeader \in Nat /\ SlabHeader <= PageSize
  <2>1. PageSize \in Nat \ {0} /\ SlabHeader \in Nat /\ 1 \in Caches
    BY HeapShape DEF Caches
  <2>2. ObjSizes[1] \in Nat /\ SlabHeader + ObjSizes[1] <= PageSize
    BY <2>1, HeapShape, CapacityIs
  <2> QED
    BY <2>1, <2>2
<1>4. CASE \E b \in FreeBlocks : x = b[1] * PageSize
  <2>1. PICK b \in Blocks(free_areas) : x = b[1] * PageSize
    BY <1>2, <1>4, FreeBlocksAre
  <2>2. b \in Pages \X Orders
    BY DEF Blocks
  <2>3. b[1] \in Pages /\ b[1] \in Nat
    BY <2>2, HeapIs
  <2>4. x \in Nat /\ PageOf(x) = b[1]
    BY <2>1, <2>3, PageStart
  <2>5. x \in Bytes
    BY <2>3, <2>4, BytesAre
  <2>6. ASSUME NEW r \in live, x \in Extent(r) PROVE FALSE
    <3>1. PICK p : p = PageOf(r.addr)
      OBVIOUS
    <3>2. p \in P /\ Covers(<<p, metadata[p].order>>, b[1])
      BY ONLY HeapInv, <1>1, r \in live, x \in Extent(r), <2>4, <2>6, <3>1, ExtentIs
    <3>3. Covers(b, b[1])
      BY DEF Covers, Same
    <3> QED
      BY <1>2, <2>3, <3>2, <3>3, FreeAndUsed
  <2> QED
    BY <2>5, <2>6
<1>5. ASSUME NEW p \in SlabPages,
             x \in (p * PageSize)..(p * PageSize + SlabHeader - 1) \cup ToSet(slab[p].free_list)
      PROVE  x \in Bytes /\ \A r \in live : x \notin Extent(r)
  <2> DEFINE c == slab[p].cache
             f == slab[p].free_list
             L == LiveOn(live, p)
  <2>1. p \in P /\ p \in Pages
    BY <1>2
  <2>2. p \in Nat /\ p * PageSize \in Nat
    <3>1. p \in Nat
      BY <2>1, HeapIs
    <3> QED
      BY <1>3, <3>1
  <2>3. c \in Caches /\ Listing(f, Objects(c, p))
    BY DEF HeapInv, SlabGood, SlabShape
  <2>4. ToSet(f) \subseteq Objects(c, p)
    BY <2>3, ListElements DEF Listing
  <2> HIDE DEF c, f, L
  <2>5. CASE x \in (p * PageSize)..(p * PageSize + SlabHeader - 1)
    <3>1. x \in Nat /\ p * PageSize <= x /\ x < p * PageSize + SlabHeader
      BY <1>3, <2>2, <2>5
    <3>2. PageOf(x) = p
      <4>1. PageSize * 1 = PageSize
        BY <1>3
      <4>2. x < p * PageSize + PageSize * 1
        BY <1>3, <2>2, <3>1, <4>1
      <4>3. PageOf(x) \in p..(p + 1 - 1)
        BY <2>2, <3>1, <4>2, PagesOf
      <4> QED
        BY <2>2, <4>3
    <3>3. ASSUME NEW r \in live, x \in Extent(r) PROVE FALSE
      <4>1. PICK q : q = PageOf(r.addr)
        OBVIOUS
      <4>2. /\ q \in P /\ Covers(<<q, metadata[q].order>>, p)
            /\ q \in SlabPages => q * PageSize + SlabHeader <= x
        BY ONLY HeapInv, <1>1, r \in live, x \in Extent(r), <3>2, <3>3, <4>1, ExtentIs
      <4>3. Covers(<<p, metadata[p].order>>, p)
        BY DEF Covers, Same
      <4>4. q = p
        BY <1>2, <2>1, <4>2, <4>3, UsedApart
      <4> QED
        BY <1>3, <2>2, <3>1, <4>2, <4>4
    <3> QED
      BY <2>1, <3>1, <3>2, <3>3, BytesAre
  <2>6. CASE x \in ToSet(f)
    <3>1. x \in Objects(c, p)
      BY <2>4, <2>6
    <3>2. /\ x \in Nat /\ PageOf(x) = p
          /\ \A y \in Objects(c, p) : x # y => x + ObjSizes[c] <= y \/ y + ObjSizes[c] <= x
      BY <2>2, <2>3, <3>1, ObjectIs
    <3>3. ASSUME NEW r \in live, x \in Extent(r) PROVE FALSE
      <4>1. PICK q : q = PageOf(r.addr)
        OBVIOUS
      <4>2. /\ q \in P /\ Covers(<<q, metadata[q].order>>, p)
            /\ q \in SlabPages =>
                 /\ r.addr \in Objects(slab[q].cache, q) \ ToSet(slab[q].free_list)
                 /\ r.size <= ObjSizes[slab[q].cache]
        BY ONLY HeapInv, <1>1, r \in live, x \in Extent(r), <3>2, <3>3, <4>1, ExtentIs
      <4>3. Covers(<<p, metadata[p].order>>, p)
        BY DEF Covers, Same
      <4>4. q = p
        BY <1>2, <2>1, <4>2, <4>3, UsedApart
      <4>5. r.addr \in Objects(c, p) \ ToSet(f) /\ r.size <= ObjSizes[c]
        BY <4>2, <4>4 DEF c, f
      <4>6. r.addr # x
        BY <2>6, <4>5
      <4>7. r.addr \in Nat /\ r.size \in Nat /\ ObjSizes[c] \in Nat \ {0}
        BY <2>3, CapacityIs, UsedIs, HeapShape
      <4>8. r.addr <= x /\ x < r.addr + r.size
        BY <3>2, <3>3, <4>7 DEF Extent
      <4>9. x + ObjSizes[c] <= r.addr \/ r.addr + ObjSizes[c] <= x
        BY <3>2, <4>5, <4>6
      <4> QED
        BY <3>2, <4>5, <4>7, <4>8, <4>9
    <3> QED
      BY <2>1, <3>2, <3>3, BytesAre
  <2> QED
    BY <1>5, <2>5, <2>6 DEF f
<1>6. \/ \E b \in FreeBlocks : x = b[1] * PageSize
      \/ \E p \in SlabPages :
           x \in (p * PageSize)..(p * PageSize + SlabHeader - 1) \cup ToSet(slab[p].free_list)
  BY DEF Bookkeeping
<1> QED
  BY <1>4, <1>5, <1>6

(* Each allocation has its bytes to itself.                                *)
Layout ==
  /\ \A r \in live : Extent(r) \subseteq Bytes
  /\ \A r, s \in live : r # s => Extent(r) \cap Extent(s) = {}
  /\ Bookkeeping \subseteq Bytes
  /\ \A r \in live : Extent(r) \cap Bookkeeping = {}

LEMMA LaysOut == HeapInv => Layout
<1> SUFFICES ASSUME HeapInv PROVE Layout
  OBVIOUS
<1>1. ASSUME NEW r \in live, NEW x \in Extent(r) PROVE x \in Bytes
  BY ExtentIs, BytesAre
<1>2. \A r, s \in live : r # s => Extent(r) \cap Extent(s) = {}
  BY ExtentsApart
<1>3. Bookkeeping \subseteq Bytes /\ \A r \in live : Extent(r) \cap Bookkeeping = {}
  BY BookkeepingApart
<1> QED
  BY <1>1, <1>2, <1>3 DEF Layout

LEMMA LaysOutNext == HeapInv' => Layout'
BY LaysOut, PTL

(* The bookkeeping stays out of what is in use.                            *)
LEMMA Rearranges ==
  ASSUME Layout'
  PROVE  A!Rearrange
<1>1. Bookkeeping' \subseteq Bytes /\ \A r \in live' : Extent(r) \cap Bookkeeping' = {}
  BY DEF Layout, Bytes
<1>2. A!InUse' = UNION {Extent(r) : r \in live'}
  BY DEF A!InUse, A!Extent, Extent
<1> QED
  BY <1>1, <1>2 DEF A!Rearrange, Bytes

LEMMA AllocatorStep ==
  ASSUME HeapInv, HeapInv', [Next]_vars
  PROVE  [A!Next]_<<live, Bookkeeping>>
<1>1. Layout' /\ A!Rearrange
  BY LaysOutNext, Rearranges
<1>2. ASSUME HandsOut PROVE A!Next
  <2>1. PICK r : r \notin live /\ r.size \in Requests /\ live' = live \cup {r}
    BY <1>2 DEF HandsOut
  <2>2. r \in live' /\ \A s \in live : s \in live' /\ s # r
    BY <2>1
  <2>3. Extent(r) \subseteq Bytes /\ \A s \in live : Extent(r) \cap Extent(s) = {}
    BY <1>1, <2>2 DEF Layout, Extent, Bytes
  <2>4. A!InUse = UNION {Extent(s) : s \in live} /\ A!Extent(r) = Extent(r)
    BY DEF A!InUse, A!Extent, Extent
  <2>5. A!Extent(r) \subseteq Bytes \ A!InUse
    BY <2>3, <2>4
  <2>6. A!Alloc(r)
    BY <1>1, <2>1, <2>5 DEF A!Alloc, Bytes
  <2> QED
    BY <2>1, <2>2, <2>6 DEF A!Next
<1>3. ASSUME NEW r \in live, live' = live \ {r} PROVE A!Next
  <2>1. A!Free(r) /\ r \in live \ live'
    BY <1>1, <1>3 DEF A!Free
  <2> QED
    BY <2>1 DEF A!Next
<1>4. CASE UNCHANGED vars
  <2>1. live' = live /\ Bookkeeping' = Bookkeeping
    BY <1>4 DEF vars, Bookkeeping, FreeBlocks, SlabPages
  <2> QED
    BY <2>1
<1>5. ASSUME NEW size \in Requests,
             KmallocLarge(size) \/ KmallocPartial(size) \/ KmallocNewSlab(size)
      PROVE  A!Next
  BY <1>2, <1>5, HeapKmallocLarge, HeapKmallocPartial, HeapKmallocNewSlab
<1>6. ASSUME NEW r \in live, KfreeBlock(r) \/ KfreeObject(r) PROVE A!Next
  BY <1>3, <1>6 DEF KfreeBlock, KfreeObject
<1> QED
  BY <1>4, <1>5, <1>6 DEF Next

-----------------------------------------------------------------------------
(* Splitting a block in buddy_alloc and merging buddies in buddy_free      *)
(* neither lose a page nor give one out twice, on a heap of any size and   *)
(* after any calls of kmalloc and kfree.                                   *)
THEOREM AlwaysTiled == Spec => []HeapTiled
BY HeapInductive, TilesTile, PTL

(* The order and the free mark buddy_free reads of a buddy's metadata are  *)
(* always what the lists of free blocks say.                               *)
THEOREM MetadataAgrees == Spec => []MetadataOK
BY HeapInductive, MarksAgree, PTL

(* When all that kmalloc has returned was given to kfree, slab_free has    *)
(* given every page back and the merge loop has made one block of them.    *)
THEOREM NothingLeaks == Spec => []NoLeak
BY HeapInductive, AllMerged, PTL

(* slab_alloc and slab_free keep each slab on the list its count of free   *)
(* objects says, and the count is that of the objects not in use.          *)
THEOREM SlabsStaySound == Spec => []SlabsOK
BY HeapInductive, SlabsAgree, PTL

(* kmalloc and kfree implement Allocator: an allocation has its bytes to   *)
(* itself, apart from other allocations, from the list pointers in free    *)
(* blocks and objects and from the slab headers, until it is freed.        *)
THEOREM HeapAllocates == Spec => IsAllocator
<1>1. Init => A!Init
  <2> SUFFICES ASSUME Init PROVE A!Init
    OBVIOUS
  <2>1. Layout
    BY HeapInit, LaysOut
  <2> QED
    BY <2>1 DEF Layout, Bytes, A!Init, Init
<1>2. HeapInv /\ HeapInv' /\ [Next]_vars => [A!Next]_<<live, Bookkeeping>>
  BY AllocatorStep
<1> QED
  BY <1>1, <1>2, HeapInductive, PTL DEF Spec, IsAllocator, A!Spec
=============================================================================
