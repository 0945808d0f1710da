---------------------------- MODULE MemoryProofs ----------------------------
(***************************************************************************)
(* Regions and stacks never overlap, no frame is shared, and one is lost   *)
(* only where a stack of one page is freed: for any number of frames, any  *)
(* sizes and any order of allocations and frees.                           *)
(***************************************************************************)
EXTENDS Memory, NatSets, SequenceTheorems

(* What the calls of pmm_alloc_page return is free and different each      *)
(* time; only 0, the sign that memory has run out, can come twice.         *)
LEMMA AllocFacts ==
  ASSUME NEW S \in SUBSET Frames
  PROVE  /\ \A k \in Nat \ {0} : /\ AllocFrame(S, k) \in Frames
                                 /\ AllocFrame(S, k) # 0 => AllocFrame(S, k) \notin S
         /\ \A j, k \in Nat \ {0} :
              AllocFrame(S, j) = AllocFrame(S, k) => j = k \/ AllocFrame(S, j) = 0
         /\ \A n \in Nat :
              AfterAlloc(S, n) \ {0} = (S \cup {AllocFrame(S, k) : k \in 1..n}) \ {0}
         /\ \A n \in Nat : AfterAlloc(S, n) \in SUBSET Frames
<1> DEFINE F == FreeFrames(S)
           c == Cardinality(F)
<1>1. F \in SUBSET Nat /\ IsFiniteSet(F) /\ c \in Nat /\ 0 \in Frames /\ Frames \subseteq Nat
  <2>1. IsFiniteSet(Frames) /\ Frames \subseteq Nat /\ F \in SUBSET Frames /\ 0 \in Frames
    BY PmmShape, FS_Interval DEF Frames, FreeFrames
  <2>2. IsFiniteSet(F)
    BY <2>1, FS_Subset
  <2> QED
    BY <2>1, <2>2, FS_CardinalityType
<1>2. ASSUME NEW k \in Nat \ {0}, k <= c
      PROVE  AllocFrame(S, k) \in F /\ Rank(F, AllocFrame(S, k)) = k - 1
  <2>1. AllocFrame(S, k) = CHOOSE f \in F : Rank(F, f) = k - 1
    BY <1>2 DEF AllocFrame, Rank, Below
  <2>2. k - 1 \in 0..(c - 1)
    BY <1>1, <1>2
  <2>3. \E f \in F : Rank(F, f) = k - 1
    BY <1>1, <2>2, RankOnto
  <2> QED
    BY <2>1, <2>3
<1>3. ASSUME NEW k \in Nat \ {0}, ~(k <= c) PROVE AllocFrame(S, k) = 0
  BY <1>3 DEF AllocFrame
<1>4. \A k \in Nat \ {0} : /\ AllocFrame(S, k) \in Frames
                           /\ AllocFrame(S, k) # 0 => AllocFrame(S, k) \notin S
  BY <1>1, <1>2, <1>3 DEF FreeFrames
<1>5. ASSUME NEW j \in Nat \ {0}, NEW k \in Nat \ {0}, AllocFrame(S, j) = AllocFrame(S, k)
      PROVE  j = k \/ AllocFrame(S, j) = 0
  BY <1>2, <1>3, <1>5
<1>6. ASSUME NEW n \in Nat
      PROVE  /\ AfterAlloc(S, n) \ {0} = (S \cup {AllocFrame(S, k) : k \in 1..n}) \ {0}
             /\ AfterAlloc(S, n) \in SUBSET Frames
  <2>1. AfterAlloc(S, n) = S \cup {AllocFrame(S, k) : k \in {j \in 1..n : j <= c}}
    BY DEF AfterAlloc
  <2>2. \A k \in 1..n : k \in Nat \ {0}
    OBVIOUS
  <2> HIDE DEF c, F
  <2> QED
    BY <1>3, <1>4, <2>1, <2>2
<1> QED
  BY <1>4, <1>5, <1>6

-----------------------------------------------------------------------------
(* The frames behind the pages P, as the entries f say and the bitmap S:   *)
(* but for frame 0, every frame that is marked is in R or backs one page,  *)
(* and no frame is both or backs two. R holds the frames that stay marked  *)
(* without a page: the reserved ones, and those that were lost.            *)
Accounts(P, f, S, R) ==
  /\ f \in [P -> Frames \cup {NotMapped}] /\ S \in SUBSET Frames /\ R \in SUBSET Frames
  /\ S \ {0} = (R \cup {f[p] : p \in P}) \ {0, NotMapped}
  /\ \A p, q \in P : f[p] = f[q] => p = q \/ f[p] \in {0, NotMapped}
  /\ \A p \in P : f[p] \in R => f[p] = 0

(* Pages that get frames from pmm_alloc_page, the g[p]-th call's each.     *)
LEMMA AccountsAlloc ==
  ASSUME NEW P, NEW f, NEW S, NEW R, Accounts(P, f, S, R),
         NEW N \in SUBSET P, \A p \in N : f[p] = NotMapped,
         NEW n \in Nat, NEW g \in [N -> 1..n],
         \A p, q \in N : g[p] = g[q] => p = q,
         \A k \in 1..n : \E p \in N : g[p] = k,
         NEW h \in [P -> Frames \cup {NotMapped}],
         \A p \in P : h[p] = IF p \in N THEN AllocFrame(S, g[p]) ELSE f[p]
  PROVE  Accounts(P, h, AfterAlloc(S, n), R)
<1> DEFINE T == AfterAlloc(S, n)
<1>1. /\ f \in [P -> Frames \cup {NotMapped}] /\ S \in SUBSET Frames /\ R \in SUBSET Frames
      /\ S \ {0} = (R \cup {f[p] : p \in P}) \ {0, NotMapped}
      /\ \A p, q \in P : f[p] = f[q] => p = q \/ f[p] \in {0, NotMapped}
      /\ \A p \in P : f[p] \in R => f[p] = 0
      /\ NotMapped \notin Frames
  BY PmmShape DEF Accounts, Frames, NotMapped
<1>2. \A k \in 1..n : k \in Nat \ {0}
  OBVIOUS
<1>3. /\ \A p \in N : /\ AllocFrame(S, g[p]) \in Frames
                      /\ AllocFrame(S, g[p]) # 0 => AllocFrame(S, g[p]) \notin S
      /\ \A p, q \in N : AllocFrame(S, g[p]) = AllocFrame(S, g[q]) =>
                           p = q \/ AllocFrame(S, g[p]) = 0
      /\ T \ {0} = (S \cup {AllocFrame(S, g[p]) : p \in N}) \ {0}
      /\ T \in SUBSET Frames
  <2>1. {AllocFrame(S, k) : k \in 1..n} = {AllocFrame(S, g[p]) : p \in N}
    OBVIOUS
  <2>2. \A p \in N : g[p] \in Nat \ {0}
    BY <1>2
  <2>3. /\ \A k \in Nat \ {0} : /\ AllocFrame(S, k) \in Frames
                                /\ AllocFrame(S, k) # 0 => AllocFrame(S, k) \notin S
        /\ \A j, k \in Nat \ {0} :
             AllocFrame(S, j) = AllocFrame(S, k) => j = k \/ AllocFrame(S, j) = 0
    BY <1>1, AllocFacts
  <2>4. T \ {0} = (S \cup {AllocFrame(S, k) : k \in 1..n}) \ {0} /\ T \in SUBSET Frames
    BY <1>1, AllocFacts
  <2> HIDE DEF T
  <2>5. T \ {0} = (S \cup {AllocFrame(S, g[p]) : p \in N}) \ {0}
    BY <2>1, <2>4, Zenon
  <2>6. ASSUME NEW p \in N, NEW q \in N, AllocFrame(S, g[p]) = AllocFrame(S, g[q])
        PROVE  p = q \/ AllocFrame(S, g[p]) = 0
    BY <2>2, <2>3, <2>6
  <2>7. ASSUME NEW p \in N
        PROVE  /\ AllocFrame(S, g[p]) \in Frames
               /\ AllocFrame(S, g[p]) # 0 => AllocFrame(S, g[p]) \notin S
    BY <2>2, <2>3
  <2> QED
    BY <2>4, <2>5, <2>6, <2>7, Zenon
<1>4. \A p \in P : h[p] = IF p \in N THEN AllocFrame(S, g[p]) ELSE f[p]
  OBVIOUS
<1> HIDE DEF T
<1>5. T \ {0} = (R \cup {h[p] : p \in P}) \ {0, NotMapped}
  <2>1. \A x : x \in {h[p] : p \in P} \ {NotMapped} <=>
               x \in ({f[p] : p \in P} \cup {AllocFrame(S, g[p]) : p \in N}) \ {NotMapped}
    BY <1>1, <1>3, <1>4
  <2>2. NotMapped \notin T
    BY <1>1, <1>3
  <2>3. \A x : x \in T \ {0} <=> x \in (R \cup {h[p] : p \in P}) \ {0, NotMapped}
    BY <1>1, <1>3, <2>1, <2>2, Zenon
  <2> QED
    BY <2>3
<1>6. ASSUME NEW p \in P, NEW q \in P, h[p] = h[q]
      PROVE  p = q \/ h[p] \in {0, NotMapped}
  <2>1. \A x \in P : f[x] \in S \cup {0, NotMapped}
    BY <1>1
  <2> QED
    BY <1>1, <1>3, <1>4, <1>6, <2>1
<1>7. \A p \in P : h[p] \in R => h[p] = 0
  <2>1. R \subseteq S \cup {0}
    BY <1>1, PmmShape DEF Frames
  <2> QED
    BY <1>1, <1>3, <1>4, <2>1
<1> QED
  BY <1>3, <1>5, <1>6, <1>6 DEF Accounts, T

EntriesOf(f, N) == {f[p] : p \in N}

(* Pages whose entries are cleared and whose frames are given back; those  *)
(* that have none give back frame 0.                                       *)
LEMMA AccountsFree ==
  ASSUME NEW P, NEW f, NEW S, NEW R, Accounts(P, f, S, R), NEW N \in SUBSET P,
         NEW h \in [P -> Frames \cup {NotMapped}],
         \A p \in P : h[p] = IF p \in N THEN NotMapped ELSE f[p]
  PROVE  Accounts(P, h, AfterFree(S, EntriesOf(f, N)), R)
<1> DEFINE T == AfterFree(S, EntriesOf(f, N))
<1>1. /\ f \in [P -> Frames \cup {NotMapped}] /\ S \in SUBSET Frames /\ R \in SUBSET Frames
      /\ S \ {0} = (R \cup {f[p] : p \in P}) \ {0, NotMapped}
      /\ \A p, q \in P : f[p] = f[q] => p = q \/ f[p] \in {0, NotMapped}
      /\ \A p \in P : f[p] \in R => f[p] = 0
      /\ NotMapped \notin Frames /\ R \subseteq Frames
  BY PmmShape DEF Accounts, Frames, NotMapped
<1>2. /\ \A x : x # 0 => (x \in T <=> x \in S /\ x \notin {f[p] : p \in N})
      /\ T \in SUBSET Frames
  BY <1>1 DEF AfterFree, UnmapResult, EntriesOf
<1>3. \A p \in P : h[p] = IF p \in N THEN NotMapped ELSE f[p]
  OBVIOUS
<1> HIDE DEF T
<1>4. T \ {0} = (R \cup {h[p] : p \in P}) \ {0, NotMapped}
  <2>1. ASSUME NEW x, x # 0, x # NotMapped
        PROVE  x \in {h[p] : p \in P} <=> x \in {f[p] : p \in P} /\ x \notin {f[p] : p \in N}
    BY <1>1, <1>3, <2>1
  <2>2. ASSUME NEW x \in R, x # 0 PROVE x \notin {f[p] : p \in N}
    BY <1>1, <2>2
  <2>3. NotMapped \notin T /\ NotMapped \notin S
    BY <1>1, <1>2
  <2>4. ASSUME NEW x, x # 0, x # NotMapped
        PROVE  x \in T <=> x \in R \cup {h[p] : p \in P}
    <3>1. x \in S <=> x \in R \cup {f[p] : p \in P}
      BY <1>1, <2>4
    <3> QED
      BY <1>2, <2>1, <2>2, <2>4, <3>1
  <2> QED
    BY <2>3, <2>4
<1> QED
  BY <1>1, <1>2, <1>3, <1>4 DEF Accounts, T

(* An entry that is overwritten: the frame behind it stays marked.         *)
LEMMA AccountsDrop ==
  ASSUME NEW P, NEW f, NEW S, NEW R, Accounts(P, f, S, R), NEW q \in P,
         NEW h \in [P -> Frames \cup {NotMapped}],
         \A p \in P : h[p] = IF p = q THEN NotMapped ELSE f[p]
  PROVE  Accounts(P, h, S, R \cup ({f[q]} \ {NotMapped}))
<1> DEFINE T == R \cup ({f[q]} \ {NotMapped})
<1>1. /\ f \in [P -> Frames \cup {NotMapped}] /\ S \in SUBSET Frames /\ R \in SUBSET Frames
      /\ S \ {0} = (R \cup {f[p] : p \in P}) \ {0, NotMapped}
      /\ \A p, k \in P : f[p] = f[k] => p = k \/ f[p] \in {0, NotMapped}
      /\ \A p \in P : f[p] \in R => f[p] = 0
      /\ NotMapped \notin Frames
  BY PmmShape DEF Accounts, Frames, NotMapped
<1>2. \A p \in P : h[p] = IF p = q THEN NotMapped ELSE f[p]
  OBVIOUS
<1>3. T \in SUBSET Frames
  BY <1>1
<1>4. (R \cup {f[p] : p \in P}) \ {0, NotMapped} = (T \cup {h[p] : p \in P}) \ {0, NotMapped}
  <2>1. ASSUME NEW x, x # 0, x # NotMapped
        PROVE  x \in R \cup {f[p] : p \in P} <=> x \in T \cup {h[p] : p \in P}
    <3>1. x \in {f[p] : p \in P} <=> x = f[q] \/ x \in {h[p] : p \in P}
      BY <1>2, <2>1
    <3>2. x \in T <=> x \in R \/ x = f[q]
      BY <2>1
    <3> QED
      BY <3>1, <3>2
  <2> HIDE DEF T
  <2> QED
    BY <2>1
<1>5. \A p, k \in P : h[p] = h[k] => p = k \/ h[p] \in {0, NotMapped}
  BY <1>1, <1>2
<1>6. ASSUME NEW p \in P, h[p] \in T PROVE h[p] = 0
  BY <1>1, <1>2, <1>6
<1> QED
  BY <1>1, <1>3, <1>4, <1>5, <1>6 DEF Accounts

-----------------------------------------------------------------------------
LEMMA InsertFacts ==
  ASSUME NEW S, NEW s \in Seq(S), NEW i \in 1..(Len(s) + 1), NEW e \in S
  PROVE  /\ InsertAt(s, i, e) \in Seq(S) /\ Len(InsertAt(s, i, e)) = Len(s) + 1
         /\ \A k \in 1..(Len(s) + 1) :
              InsertAt(s, i, e)[k] = IF k < i THEN s[k] ELSE IF k = i THEN e ELSE s[k - 1]
<1> DEFINE a == SubSeq(s, 1, i - 1)
           b == SubSeq(s, i, Len(s))
           c == a \o <<e>>
<1>1. Len(s) \in Nat /\ i \in Nat
  OBVIOUS
<1>2. /\ a \in Seq(S) /\ Len(a) = i - 1 /\ \A k \in 1..(i - 1) : a[k] = s[k]
  BY <1>1
<1>3. /\ b \in Seq(S) /\ Len(b) = Len(s) - i + 1
      /\ \A k \in 1..(Len(s) - i + 1) : b[k] = s[i + k - 1]
  BY <1>1
<1>4. <<e>> \in Seq(S) /\ Len(<<e>>) = 1 /\ <<e>>[1] = e
  OBVIOUS
<1>5. InsertAt(s, i, e) = c \o b
  BY DEF InsertAt
<1> HIDE DEF a, b
<1>6. /\ c \in Seq(S) /\ Len(c) = i
      /\ \A k \in 1..i : c[k] = IF k < i THEN a[k] ELSE e
  BY <1>1, <1>2, <1>4, ConcatProperties
<1> HIDE DEF c
<1>7. /\ InsertAt(s, i, e) \in Seq(S) /\ Len(InsertAt(s, i, e)) = Len(s) + 1
      /\ \A k \in 1..(Len(s) + 1) :
           InsertAt(s, i, e)[k] = IF k <= i THEN c[k] ELSE b[k - i]
  <2>1. Len(c) + Len(b) = Len(s) + 1
    BY <1>1, <1>3, <1>6
  <2> QED
    BY <1>3, <1>5, <1>6, <2>1, ConcatProperties
<1>8. ASSUME NEW k \in 1..(Len(s) + 1), k > i PROVE b[k - i] = s[k - 1]
  <2>1. k - i \in 1..(Len(s) - i + 1) /\ i + (k - i) - 1 = k - 1
    BY <1>1, <1>8
  <2> QED
    BY <1>3, <2>1
<1>9. ASSUME NEW k \in 1..(Len(s) + 1)
      PROVE  InsertAt(s, i, e)[k] = IF k < i THEN s[k] ELSE IF k = i THEN e ELSE s[k - 1]
  <2>1. CASE k < i
    <3>1. k \in 1..(i - 1) /\ k \in 1..i
      BY <1>1, <2>1
    <3> QED
      BY <1>1, <1>2, <1>6, <1>7, <2>1, <3>1
  <2>2. CASE k = i
    BY <1>1, <1>6, <1>7, <2>2
  <2>3. CASE k > i
    <3>1. ~(k <= i) /\ ~(k < i) /\ k # i
      BY <1>1, <2>3
    <3>2. InsertAt(s, i, e)[k] = b[k - i]
      BY <1>7, <3>1, Zenon
    <3> QED
      BY <1>8, <2>3, <3>1, <3>2, Zenon
  <2> QED
    BY <1>1, <2>1, <2>2, <2>3
<1> QED
  BY <1>7, <1>9

LEMMA RemoveFacts ==
  ASSUME NEW S, NEW s \in Seq(S), NEW i \in 1..Len(s)
  PROVE  /\ RemoveAt(s, i) \in Seq(S) /\ Len(RemoveAt(s, i)) = Len(s) - 1
         /\ \A k \in 1..(Len(s) - 1) : RemoveAt(s, i)[k] = IF k < i THEN s[k] ELSE s[k + 1]
<1> DEFINE a == SubSeq(s, 1, i - 1)
           b == SubSeq(s, i + 1, Len(s))
<1>1. Len(s) \in Nat /\ i \in Nat
  OBVIOUS
<1>2. /\ a \in Seq(S) /\ Len(a) = i - 1 /\ \A k \in 1..(i - 1) : a[k] = s[k]
  BY <1>1
<1>3. /\ b \in Seq(S) /\ Len(b) = Len(s) - i
      /\ \A k \in 1..(Len(s) - i) : b[k] = s[i + k]
  <2>1. i + 1 \in Int /\ Len(s) \in Int /\ \A k \in (i + 1)..Len(s) : s[k] \in S
    BY <1>1
  <2>2. /\ b \in Seq(S) /\ Len(b) = (IF i + 1 <= Len(s) THEN Len(s) - (i + 1) + 1 ELSE 0)
        /\ \A k \in 1..(Len(s) - (i + 1) + 1) : b[k] = s[(i + 1) + k - 1]
    BY ONLY <2>1, SubSeqProperties DEF b
  <2> HIDE DEF b
  <2>3. Len(b) = Len(s) - i
    BY <1>1, <2>2
  <2>4. ASSUME NEW k \in 1..(Len(s) - i) PROVE b[k] = s[i + k]
    <3>1. k \in 1..(Len(s) - (i + 1) + 1) /\ (i + 1) + k - 1 = i + k
      BY <1>1
    <3> QED
      BY <2>2, <3>1
  <2> QED
    BY <2>2, <2>3, <2>4
<1>4. RemoveAt(s, i) = a \o b
  BY DEF RemoveAt
<1> HIDE DEF a, b
<1>5. Len(a) + Len(b) = Len(s) - 1
  BY <1>1, <1>2, <1>3
<1>6. /\ RemoveAt(s, i) \in Seq(S) /\ Len(RemoveAt(s, i)) = Len(s) - 1
      /\ \A k \in 1..(Len(s) - 1) :
           RemoveAt(s, i)[k] = IF k <= Len(a) THEN a[k] ELSE b[k - Len(a)]
  <2>1. a \in Seq(S) /\ b \in Seq(S)
    BY <1>2, <1>3
  <2>2. /\ a \o b \in Seq(S) /\ Len(a \o b) = Len(a) + Len(b)
        /\ \A k \in 1..(Len(a) + Len(b)) :
             (a \o b)[k] = IF k <= Len(a) THEN a[k] ELSE b[k - Len(a)]
    BY ONLY <2>1, ConcatProperties, SMTT(30)
  <2> QED
    BY ONLY <1>4, <1>5, <2>2
<1>7. ASSUME NEW k \in 1..(Len(s) - 1)
      PROVE  RemoveAt(s, i)[k] = IF k < i THEN s[k] ELSE s[k + 1]
  <2>1. CASE k < i
    <3>1. k \in 1..(i - 1) /\ k <= Len(a)
      BY <1>1, <1>2, <2>1
    <3> QED
      BY <1>2, <1>6, <2>1, <3>1
  <2>2. CASE ~(k < i)
    <3>1. /\ ~(k <= Len(a)) /\ k - Len(a) \in 1..(Len(s) - i)
          /\ i + (k - Len(a)) = k + 1
      BY <1>1, <1>2, <2>2
    <3>2. RemoveAt(s, i)[k] = b[k - Len(a)] /\ b[k - Len(a)] = s[i + (k - Len(a))]
      BY <1>3, <1>6, <3>1
    <3> QED
      BY <2>2, <3>1, <3>2
  <2> QED
    BY <2>1, <2>2
<1> QED
  BY <1>6, <1>7

LEMMA InsertElements ==
  ASSUME NEW S, NEW s \in Seq(S), NEW i \in 1..(Len(s) + 1), NEW e \in S
  PROVE  ToSet(InsertAt(s, i, e)) = ToSet(s) \cup {e}
<1> DEFINE t == InsertAt(s, i, e)
           n == Len(s)
<1>1. /\ n \in Nat
      /\ \A k \in 1..(n + 1) : t[k] = IF k < i THEN s[k] ELSE IF k = i THEN e ELSE s[k - 1]
  <2>1. s \in Seq(S) /\ i \in 1..(Len(s) + 1) /\ e \in S
    OBVIOUS
  <2>2. /\ InsertAt(s, i, e) \in Seq(S) /\ Len(InsertAt(s, i, e)) = Len(s) + 1
        /\ \A k \in 1..(Len(s) + 1) :
             InsertAt(s, i, e)[k] = IF k < i THEN s[k] ELSE IF k = i THEN e ELSE s[k - 1]
    BY ONLY <2>1, InsertFacts
  <2>3. Len(s) \in Nat
    BY ONLY <2>1
  <2> QED
    BY ONLY <2>2, <2>3
<1> HIDE DEF t, n
<1>2. i \in 1..(n + 1) /\ t[i] = e
  BY <1>1 DEF n
<1>3. ASSUME NEW k \in 1..(n + 1), k # i PROVE \E j \in 1..n : t[k] = s[j]
  <2>1. CASE k < i
    BY <1>1, <1>2, <2>1
  <2>2. CASE k > i
    <3>1. k - 1 \in 1..n /\ t[k] = s[k - 1]
      BY <1>1, <1>2, <2>2
    <3> QED
      BY <3>1
  <2> QED
    BY <1>2, <1>3, <2>1, <2>2
<1>4. ASSUME NEW j \in 1..n PROVE \E k \in 1..(n + 1) : t[k] = s[j]
  <2>1. CASE j < i
    BY <1>1, <1>2, <2>1
  <2>2. CASE j >= i
    <3>1. j + 1 \in 1..(n + 1) /\ t[j + 1] = s[j]
      BY <1>1, <1>2, <2>2
    <3> QED
      BY <3>1
  <2> QED
    BY <1>2, <2>1, <2>2
<1>5. {t[k] : k \in 1..(n + 1)} = {s[j] : j \in 1..n} \cup {e}
  BY <1>2, <1>3, <1>4
<1>6. DOMAIN t = 1..(n + 1) /\ DOMAIN s = 1..n
  <2>1. InsertAt(s, i, e) \in Seq(S) /\ Len(InsertAt(s, i, e)) = Len(s) + 1
    BY InsertFacts
  <2> QED
    BY <2>1 DEF t, n
<1>7. ToSet(t) = ToSet(s) \cup {e}
  BY <1>5, <1>6 DEF ToSet
<1> QED
  BY <1>7 DEF t

(* The elements of s but for the i-th.                                     *)
Others(s, i) == {s[j] : j \in DOMAIN s \ {i}}

LEMMA RemoveElements ==
  ASSUME NEW S, NEW s \in Seq(S), NEW i \in 1..Len(s)
  PROVE  ToSet(RemoveAt(s, i)) = Others(s, i)
<1> DEFINE t == RemoveAt(s, i)
           n == Len(s)
<1>1. n \in Nat /\ \A k \in 1..(n - 1) : t[k] = IF k < i THEN s[k] ELSE s[k + 1]
  <2>1. \A k \in 1..(Len(s) - 1) : RemoveAt(s, i)[k] = IF k < i THEN s[k] ELSE s[k + 1]
    BY RemoveFacts, Zenon
  <2> QED
    BY <2>1
<1>2. i \in 1..n
  OBVIOUS
<1> HIDE DEF t, n
<1>3. ASSUME NEW k \in 1..(n - 1) PROVE \E j \in 1..n : j # i /\ t[k] = s[j]
  <2>1. CASE k < i
    <3>1. k \in 1..n /\ k # i /\ t[k] = s[k]
      BY <1>1, <1>2, <2>1
    <3> QED
      BY <3>1
  <2>2. CASE k >= i
    <3>1. k + 1 \in 1..n /\ k + 1 # i /\ t[k] = s[k + 1]
      BY <1>1, <1>2, <2>2
    <3> QED
      BY <3>1
  <2> QED
    BY <1>2, <2>1, <2>2
<1>4. ASSUME NEW j \in 1..n, j # i PROVE \E k \in 1..(n - 1) : t[k] = s[j]
  <2>1. CASE j < i
    <3>1. j \in 1..(n - 1) /\ t[j] = s[j]
      BY <1>1, <1>2, <2>1
    <3> QED
      BY <3>1
  <2>2. CASE j > i
    <3>1. j - 1 \in 1..(n - 1) /\ t[j - 1] = s[j]
      BY <1>1, <1>2, <2>2
    <3> QED
      BY <3>1
  <2> QED
    BY <1>2, <1>4, <2>1, <2>2
<1>5. {t[k] : k \in 1..(n - 1)} = {s[j] : j \in (1..n) \ {i}}
  BY <1>3, <1>4
<1>6. DOMAIN t = 1..(n - 1) /\ DOMAIN s = 1..n
  <2>1. RemoveAt(s, i) \in Seq(S) /\ Len(RemoveAt(s, i)) = Len(s) - 1
    BY RemoveFacts
  <2> QED
    BY <2>1 DEF t, n
<1>7. ToSet(t) = Others(s, i)
  BY <1>5, <1>6 DEF ToSet, Others
<1> QED
  BY <1>7 DEF t

-----------------------------------------------------------------------------
(* Regions of whole pages, inside the bound on the address space.          *)
Regions ==
  {r \in [base : Nat, size : Nat \ {0}] :
     /\ r.base % PageSize = 0 /\ r.size % PageSize = 0
     /\ r.base + r.size <= VmPages * PageSize}

Lo(r) == V!PageOf(r.base)
Hi(r) == V!PageOf(V!End(r))
RPages(r) == Lo(r)..(Hi(r) - 1)

LEMMA PageFacts ==
  ASSUME NEW a \in Nat, NEW b \in Nat
  PROVE  /\ V!PageOf(a) \in Nat
         /\ a <= b => V!PageOf(a) <= V!PageOf(b)
         /\ b % PageSize = 0 => /\ b = PageSize * V!PageOf(b)
                                /\ a < b => V!PageOf(a) < V!PageOf(b)
         /\ a % PageSize = 0 /\ b % PageSize = 0 =>
              (a + b) % PageSize = 0 /\ V!PageOf(a + b) = V!PageOf(a) + V!PageOf(b)
<1> DEFINE d == PageSize
           qa == a \div d
           qb == b \div d
<1>1. d \in Nat \ {0}
  BY MemoryShape
<1>2. /\ qa \in Nat /\ (a % d) \in 0..(d - 1) /\ a = d * qa + (a % d)
      /\ qb \in Nat /\ (b % d) \in 0..(d - 1) /\ b = d * qb + (b % d)
  BY <1>1, Division, Zenon
<1>3. V!PageOf(a) = qa /\ V!PageOf(b) = qb /\ V!PageOf(a + b) = (a + b) \div d
  BY DEF V!PageOf
<1> DEFINE ra == a % d
           rb == b % d
<1> HIDE DEF d, qa, qb, ra, rb
<1>4. /\ qa \in Nat /\ ra \in 0..(d - 1) /\ a = d * qa + ra
      /\ qb \in Nat /\ rb \in 0..(d - 1) /\ b = d * qb + rb
  BY <1>2 DEF ra, rb
<1>5. ASSUME a <= b PROVE qa <= qb
  <2>1. d * qa < d * (qb + 1)
    BY <1>1, <1>4, <1>5
  <2> QED
    BY <1>1, <1>4, <2>1
<1>6. ASSUME rb = 0 PROVE b = d * qb /\ (a < b => qa < qb)
  <2>1. b = d * qb
    BY <1>1, <1>4, <1>6
  <2>2. ASSUME a < b PROVE qa < qb
    <3>1. d * qa < d * qb
      BY <1>1, <1>4, <2>1, <2>2
    <3> QED
      BY <1>1, <1>4, <3>1
  <2> QED
    BY <2>1, <2>2
<1>7. ASSUME ra = 0, rb = 0 PROVE (a + b) \div d = qa + qb /\ (a + b) % d = 0
  <2>1. /\ a + b = d * (qa + qb) /\ a + b \in Nat /\ qa + qb \in Int
        /\ d * (qa + qb) <= a + b /\ a + b < d * (qa + qb) + d
    BY <1>1, <1>4, <1>7
  <2>2. (a + b) \div d = qa + qb
    BY <1>1, <2>1, QuotientUnique
  <2>3. a + b = d * ((a + b) \div d) + ((a + b) % d) /\ ((a + b) % d) \in 0..(d - 1)
    BY <1>1, <2>1, Division, Zenon
  <2> HIDE DEF ra, rb
  <2> QED
    BY <1>1, <2>1, <2>2, <2>3
<1> QED
  BY <1>3, <1>4, <1>5, <1>6, <1>7 DEF d, ra, rb

(* The loops of vmalloc and vfree go over the pages of the region.         *)
LEMMA RegionFacts ==
  ASSUME NEW r \in Regions
  PROVE  /\ Lo(r) \in Nat /\ Hi(r) \in Nat /\ Lo(r) < Hi(r) /\ RPages(r) \subseteq V!Pages
         /\ V!RegionPages(r) = [k \in 1..(Hi(r) - Lo(r)) |-> Lo(r) + k - 1]
         /\ \A a \in r.base..(V!End(r) - 1) : V!PageOf(a) \in RPages(r)
<1> DEFINE d == PageSize
<1>1. /\ r.base \in Nat /\ r.size \in Nat /\ r.size > 0 /\ d \in Nat \ {0} /\ VmPages \in Nat
      /\ r.base % d = 0 /\ r.size % d = 0 /\ r.base + r.size <= VmPages * d
      /\ V!End(r) = r.base + r.size /\ V!End(r) \in Nat
  BY MemoryShape DEF Regions, V!End
<1>2. /\ Lo(r) \in Nat /\ Hi(r) \in Nat
      /\ Hi(r) = Lo(r) + V!PageOf(r.size) /\ V!End(r) % d = 0
      /\ Lo(r) < Hi(r)
      /\ V!End(r) = d * Hi(r)
  <2>1. (r.base + r.size) % d = 0 /\ Hi(r) = Lo(r) + V!PageOf(r.size)
    BY <1>1, PageFacts, Zenon DEF Lo, Hi
  <2>2. r.base < V!End(r)
    BY <1>1
  <2> QED
    BY <1>1, <2>1, <2>2, PageFacts, Zenon DEF Lo, Hi
<1>3. Hi(r) <= VmPages
  <2>1. d * Hi(r) <= d * VmPages
    BY <1>1, <1>2
  <2> HIDE DEF d
  <2> QED
    BY <1>1, <1>2, <2>1
<1>4. (r.size + d - 1) \div d = Hi(r) - Lo(r)
  <2> DEFINE q == V!PageOf(r.size)
  <2>1. q \in Nat /\ r.size = d * q
    BY <1>1, PageFacts, Zenon
  <2>2. q = Hi(r) - Lo(r)
    <3> HIDE DEF d
    <3> QED
      BY <1>2, <2>1
  <2> HIDE DEF d, q
  <2>3. r.size + d - 1 \in Nat /\ d * q <= r.size + d - 1 /\ r.size + d - 1 < d * q + d
    BY <1>1, <2>1
  <2> QED
    BY <1>1, <2>1, <2>2, <2>3, QuotientUnique
<1>5. V!RegionPages(r) = [k \in 1..(Hi(r) - Lo(r)) |-> Lo(r) + k - 1]
  BY <1>4 DEF V!RegionPages, Lo
<1>6. ASSUME NEW a \in r.base..(V!End(r) - 1) PROVE V!PageOf(a) \in RPages(r)
  <2>1. a \in Nat /\ r.base <= a /\ a < V!End(r)
    BY <1>1
  <2>2. V!PageOf(a) \in Nat /\ Lo(r) <= V!PageOf(a) /\ V!PageOf(a) < Hi(r)
    BY <1>1, <1>2, <2>1, PageFacts DEF Lo, Hi
  <2> QED
    BY <1>2, <2>2 DEF RPages
<1> QED
  BY <1>1, <1>2, <1>3, <1>5, <1>6 DEF RPages, V!Pages

(* Regions one behind the other share no page.                             *)
LEMMA RegionsApart ==
  ASSUME NEW r \in Regions, NEW s \in Regions, V!End(r) <= s.base
  PROVE  RPages(r) \cap RPages(s) = {}
<1>1. V!End(r) \in Nat /\ s.base \in Nat
  BY DEF Regions, V!End
<1>2. Hi(r) <= Lo(s)
  BY <1>1, PageFacts DEF Hi, Lo
<1> QED
  BY <1>2, RegionFacts DEF RPages

-----------------------------------------------------------------------------
(* The operators of Pmm that Vmalloc and UserStacks use are the same ones. *)
LEMMA SamePmm ==
  /\ \A S, k : V!AllocFrame(S, k) = AllocFrame(S, k) /\ U!AllocFrame(S, k) = AllocFrame(S, k)
  /\ \A S, n : V!AfterAlloc(S, n) = AfterAlloc(S, n) /\ U!AfterAlloc(S, n) = AfterAlloc(S, n)
  /\ \A S, E : V!AfterFree(S, E) = AfterFree(S, E) /\ U!AfterFree(S, E) = AfterFree(S, E)
  /\ V!NotMapped = NotMapped /\ U!NotMapped = NotMapped
<1>1. \A S : V!FreeFrames(S) = FreeFrames(S) /\ U!FreeFrames(S) = FreeFrames(S)
  BY DEF V!FreeFrames, U!FreeFrames, FreeFrames, V!Frames, U!Frames, Frames
<1>2. \A S : V!Cardinality(S) = Cardinality(S) /\ U!Cardinality(S) = Cardinality(S)
  BY DEF V!Cardinality, U!Cardinality, Cardinality
<1>3. ASSUME NEW S, NEW k
      PROVE  V!AllocFrame(S, k) = AllocFrame(S, k) /\ U!AllocFrame(S, k) = AllocFrame(S, k)
  <2>1. V!AllocFrame(S, k) = AllocFrame(S, k)
    BY DEF V!AllocFrame, AllocFrame, V!FreeFrames, FreeFrames, V!Frames, Frames,
           V!Cardinality, Cardinality
  <2>2. U!AllocFrame(S, k) = AllocFrame(S, k)
    BY DEF U!AllocFrame, AllocFrame, U!FreeFrames, FreeFrames, U!Frames, Frames,
           U!Cardinality, Cardinality
  <2> QED
    BY <2>1, <2>2
<1>4. ASSUME NEW S, NEW n
      PROVE  V!AfterAlloc(S, n) = AfterAlloc(S, n) /\ U!AfterAlloc(S, n) = AfterAlloc(S, n)
  <2>1. V!AfterAlloc(S, n) = AfterAlloc(S, n)
    BY <1>1, <1>2, <1>3 DEF V!AfterAlloc, AfterAlloc
  <2>2. U!AfterAlloc(S, n) = AfterAlloc(S, n)
    BY <1>1, <1>2, <1>3 DEF U!AfterAlloc, AfterAlloc
  <2> QED
    BY <2>1, <2>2
<1>5. V!NotMapped = NotMapped /\ U!NotMapped = NotMapped
  BY DEF V!NotMapped, U!NotMapped, NotMapped
<1>6. \A S, E : V!AfterFree(S, E) = AfterFree(S, E) /\ U!AfterFree(S, E) = AfterFree(S, E)
  BY DEF V!AfterFree, U!AfterFree, AfterFree, V!UnmapResult, U!UnmapResult, UnmapResult,
         V!NotMapped, U!NotMapped, NotMapped
<1> QED
  BY <1>3, <1>4, <1>5, <1>6

(* The kernel's regions: sorted, apart, and exactly their pages mapped.    *)
RegionList == vmalloc_list \in Seq(Regions) /\ RegionsDisjoint

RegionsMapped ==
  /\ kpt \in [V!Pages -> Frames \cup {NotMapped}]
  /\ \A p \in V!Pages :
       kpt[p] # NotMapped <=> \E k \in DOMAIN vmalloc_list : p \in RPages(vmalloc_list[k])

(* A new region goes to where there is room for it.                        *)
LEMMA VallocList ==
  ASSUME RegionList, NEW size \in RegionSizes, V!Valloc(size)
  PROVE  \E r \in Regions, i \in 1..(Len(vmalloc_list) + 1) :
           /\ r = [base |-> V!NewBase(size), size |-> size]
           /\ vmalloc_list' = InsertAt(vmalloc_list, i, r)
           /\ RegionList'
           /\ \A k \in DOMAIN vmalloc_list : RPages(vmalloc_list[k]) \cap RPages(r) = {}
<1> DEFINE L == vmalloc_list
           n == Len(L)
           r == [base |-> V!NewBase(size), size |-> size]
           b == V!Before(size)
           i == IF L = <<>> THEN 1 ELSE b + 1
<1>1. /\ L \in Seq(Regions) /\ n \in Nat /\ DOMAIN L = 1..n
      /\ \A k \in 1..n : /\ L[k] \in Regions /\ L[k].base \in Nat /\ L[k].size \in Nat
                         /\ V!End(L[k]) = L[k].base + L[k].size
                         /\ L[k].base % PageSize = 0 /\ L[k].size % PageSize = 0
      /\ \A j, k \in 1..n : j < k => V!End(L[j]) <= L[k].base
      /\ L = <<>> <=> n = 0
  <2>1. L \in Seq(Regions) /\ n \in Nat /\ DOMAIN L = 1..n /\ (L = <<>> <=> n = 0)
    BY DEF RegionList
  <2>2. \A k \in 1..n : L[k] \in Regions
    BY <2>1
  <2>3. \A j, k \in 1..n : j < k => V!End(L[j]) <= L[k].base
    BY <2>1 DEF RegionList, RegionsDisjoint, V!RegionsDisjoint
  <2> QED
    BY <2>1, <2>2, <2>3 DEF Regions, V!End
<1>2. /\ size \in Nat \ {0} /\ size % PageSize = 0
      /\ L' = InsertAt(L, i, r)
      /\ V!End(r) <= VmPages * PageSize
      /\ V!End(r) = r.base + size /\ r.base = V!NewBase(size) /\ r.size = size
  BY MemoryShape DEF V!Valloc, InsertAt, V!InsertAt, V!End
<1> HIDE DEF r
<1>3. CASE n = 0
  <2>1. i = 1 /\ r.base = 0
    BY <1>1, <1>2, <1>3 DEF V!NewBase
  <2>2. 0 % PageSize = 0
    <3>1. 0 = PageSize * (0 \div PageSize) + (0 % PageSize) /\ (0 % PageSize) \in 0..(PageSize - 1)
          /\ (0 \div PageSize) \in Nat /\ PageSize \in Nat
      BY MemoryShape, Division, Zenon
    <3> DEFINE q == 0 \div PageSize
               m == 0 % PageSize
    <3> HIDE DEF q, m
    <3>2. 0 = PageSize * q + m /\ m \in Nat /\ q \in Nat /\ PageSize \in Nat
      BY <3>1 DEF q, m
    <3>3. PageSize * q \in Nat
      BY <3>2
    <3>4. m = 0
      <4> DEFINE z == PageSize * q
      <4> HIDE DEF z
      <4>1. 0 = z + m /\ z \in Nat /\ m \in Nat
        BY <3>2, <3>3 DEF z
      <4> QED
        BY ONLY <4>1
    <3> QED
      BY <3>4 DEF m
  <2>3. r \in Regions
    BY <1>2, <2>1, <2>2 DEF Regions, r
  <2>4. L' \in Seq(Regions) /\ Len(L') = 1
    <3>1. i \in 1..(n + 1)
      BY <1>3, <2>1
    <3> HIDE DEF i, L
    <3>2. InsertAt(L, i, r) \in Seq(Regions) /\ Len(InsertAt(L, i, r)) = n + 1
      <4>1. L \in Seq(Regions) /\ i \in 1..(Len(L) + 1) /\ r \in Regions
        BY <1>1, <2>3, <3>1
      <4>2. /\ InsertAt(L, i, r) \in Seq(Regions) /\ Len(InsertAt(L, i, r)) = Len(L) + 1
            /\ \A k \in 1..(Len(L) + 1) :
                 InsertAt(L, i, r)[k] = IF k < i THEN L[k] ELSE IF k = i THEN r ELSE L[k - 1]
        BY ONLY <4>1, InsertFacts
      <4> QED
        BY ONLY <4>2
    <3> QED
      BY <1>2, <1>3, <3>2
  <2>5. RegionList'
    BY <2>4 DEF RegionList, RegionsDisjoint, V!RegionsDisjoint
  <2> QED
    BY <1>1, <1>2, <1>3, <2>1, <2>3, <2>5 DEF r
<1>4. CASE n # 0
  <2> DEFINE G == V!Gaps(size)
  <2>1. G = {k \in 1..(n - 1) : V!End(L[k]) + size <= L[k + 1].base}
    BY DEF V!Gaps
  <2>2. b \in 1..n /\ (b < n => V!End(L[b]) + size <= L[b + 1].base)
    <3>1. CASE G = {}
      BY <1>1, <1>4, <3>1 DEF V!Before
    <3>2. CASE G # {}
      <4>1. b = Min(G)
        BY <3>2 DEF V!Before, V!Min, Min
      <4>2. G \in SUBSET Nat
        BY <1>1, <2>1
      <4>3. Min(G) \in G
        <5> HIDE DEF G
        <5> QED
          BY <3>2, <4>2, MinIsLeast
      <4> QED
        BY <1>1, <2>1, <4>1, <4>3
    <3> QED
      BY <3>1, <3>2
  <2>3. i = b + 1 /\ i \in 1..(n + 1) /\ r.base = V!End(L[b])
    BY <1>1, <1>2, <1>4, <2>2 DEF V!NewBase
  <2> HIDE DEF b, i, G
  <2>4. ASSUME NEW k \in 1..n, k <= b PROVE V!End(L[k]) <= r.base
    <3>1. CASE k < b
      <4>1. V!End(L[k]) <= L[b].base
        BY <1>1, <2>2, <3>1
      <4>2. /\ V!End(L[k]) \in Int /\ L[b].base \in Nat /\ L[b].size \in Nat
            /\ r.base = L[b].base + L[b].size
        BY <1>1, <2>2, <2>3
      <4> QED
        BY ONLY <4>1, <4>2
    <3>2. CASE k = b
      <4>1. V!End(L[k]) \in Int /\ r.base = V!End(L[k])
        BY <1>1, <2>3, <3>2
      <4> QED
        BY ONLY <4>1
    <3>3. b \in Int /\ k \in Int
      BY <1>1, <2>2
    <3> QED
      BY ONLY <2>4, <3>1, <3>2, <3>3
  <2>5. \A k \in 1..n : k > b => V!End(r) <= L[k].base
    <3> SUFFICES ASSUME NEW k \in 1..n, k > b PROVE V!End(r) <= L[k].base
      OBVIOUS
    <3>1. b + 1 \in 1..n /\ V!End(L[b]) + size <= L[b + 1].base
      BY <1>1, <2>2
    <3>2. L[b + 1].base <= L[k].base
      <4>1. CASE k = b + 1
        BY <1>1, <3>1, <4>1
      <4>2. CASE k > b + 1
        BY <1>1, <3>1, <4>2
      <4> QED
        BY <2>2, <4>1, <4>2
    <3> QED
      <4>1. V!End(r) = V!End(L[b]) + size /\ L[k].base \in Nat /\ L[b + 1].base \in Nat
            /\ V!End(L[b]) \in Nat
        BY <1>1, <1>2, <2>2, <2>3, <3>1
      <4> QED
        BY <1>2, <3>1, <3>2, <4>1
  <2>6. r \in Regions
    <3>1. r.base \in Nat /\ r.base % PageSize = 0
      <4>1. r.base = L[b].base + L[b].size
        BY <1>1, <2>2, <2>3
      <4> QED
        <5>1. /\ L[b].base \in Nat /\ L[b].size \in Nat
              /\ L[b].base % PageSize = 0 /\ L[b].size % PageSize = 0
          BY <1>1, <2>2
        <5>2. (L[b].base + L[b].size) % PageSize = 0
          BY <5>1, PageFacts, Zenon
        <5> QED
          BY <4>1, <5>1, <5>2
    <3> QED
      BY <1>2, <3>1 DEF Regions, r
  <2>7. /\ L' \in Seq(Regions) /\ Len(L') = n + 1
        /\ \A k \in 1..(n + 1) : L'[k] = IF k < i THEN L[k] ELSE IF k = i THEN r ELSE L[k - 1]
    <3>1. L \in Seq(Regions) /\ i \in 1..(Len(L) + 1) /\ r \in Regions
      BY <1>1, <2>3, <2>6
    <3> HIDE DEF L
    <3>2. /\ InsertAt(L, i, r) \in Seq(Regions) /\ Len(InsertAt(L, i, r)) = Len(L) + 1
          /\ \A k \in 1..(Len(L) + 1) : InsertAt(L, i, r)[k] =
               IF k < i THEN L[k] ELSE IF k = i THEN r ELSE L[k - 1]
      BY <3>1, InsertFacts
    <3> QED
      BY <1>2, <3>2
  <2>8. ASSUME NEW j \in 1..(n + 1), NEW k \in 1..(n + 1), j < k
        PROVE  V!End(L'[j]) <= L'[k].base
    <3>1. CASE k < i
      BY <1>1, <2>3, <2>7, <2>8, <3>1
    <3>2. CASE k = i
      <4>1. L'[j] = L[j] /\ L'[k] = r /\ j \in 1..n /\ j <= b
        BY <1>1, <2>2, <2>3, <2>7, <2>8, <3>2
      <4> QED
        BY <2>4, <4>1
    <3>3. CASE k > i
      <4>1. L'[k] = L[k - 1] /\ k - 1 \in 1..n /\ k - 1 > b
        BY <1>1, <2>2, <2>3, <2>7, <2>8, <3>3
      <4>2. CASE j < i
        BY <1>1, <2>3, <2>7, <2>8, <3>3, <4>1, <4>2
      <4>3. CASE j = i
        BY <2>5, <2>7, <4>1, <4>3
      <4>4. CASE j > i
        <5>1. L'[j] = L[j - 1] /\ j - 1 \in 1..n /\ j - 1 < k - 1
          BY <1>1, <2>2, <2>3, <2>7, <2>8, <4>4
        <5> QED
          BY <1>1, <4>1, <5>1
      <4> QED
        BY <2>3, <4>2, <4>3, <4>4
    <3> QED
      BY <2>3, <3>1, <3>2, <3>3
  <2>9. RegionList'
    BY <2>7, <2>8 DEF RegionList, RegionsDisjoint, V!RegionsDisjoint
  <2>10. ASSUME NEW k \in 1..n PROVE RPages(L[k]) \cap RPages(r) = {}
    <3>1. V!End(L[k]) <= r.base \/ V!End(r) <= L[k].base
      BY <1>1, <2>2, <2>4, <2>5
    <3> QED
      BY <1>1, <2>6, <3>1, RegionsApart
  <2> QED
    BY <1>1, <1>2, <2>3, <2>6, <2>9, <2>10 DEF r
<1> QED
  BY <1>3, <1>4

(* vmalloc maps the pages of the new region, which were not mapped.        *)
LEMMA VallocPages ==
  ASSUME RegionList, RegionsMapped, used \in SUBSET Frames,
         NEW size \in RegionSizes, V!Valloc(size)
  PROVE  /\ RegionList' /\ RegionsMapped'
         /\ \E r \in Regions :
              /\ \A p \in RPages(r) : kpt[p] = NotMapped
              /\ kpt' = [p \in V!Pages |-> IF p \in RPages(r)
                           THEN AllocFrame(used, p - Lo(r) + 1) ELSE kpt[p]]
              /\ used' = AfterAlloc(used, Hi(r) - Lo(r))
<1> DEFINE L == vmalloc_list
<1>1. PICK r \in Regions, i \in 1..(Len(L) + 1) :
        /\ r = [base |-> V!NewBase(size), size |-> size]
        /\ L' = InsertAt(L, i, r)
        /\ RegionList'
        /\ \A k \in DOMAIN L : RPages(L[k]) \cap RPages(r) = {}
  BY VallocList
<1> DEFINE ps == V!RegionPages(r)
           n == Hi(r) - Lo(r)
<1>2. /\ Lo(r) \in Nat /\ n \in Nat /\ n > 0 /\ RPages(r) \subseteq V!Pages
      /\ ps = [k \in 1..n |-> Lo(r) + k - 1]
      /\ RPages(r) = {Lo(r) + k - 1 : k \in 1..n}
  <2>1. /\ Lo(r) \in Nat /\ Hi(r) \in Nat /\ Lo(r) < Hi(r) /\ RPages(r) \subseteq V!Pages
        /\ ps = [k \in 1..n |-> Lo(r) + k - 1]
    BY RegionFacts
  <2>2. ASSUME NEW p \in RPages(r) PROVE p - Lo(r) + 1 \in 1..n /\ p = Lo(r) + (p - Lo(r) + 1) - 1
    BY <2>1 DEF RPages
  <2>3. ASSUME NEW k \in 1..n PROVE Lo(r) + k - 1 \in RPages(r)
    BY <2>1 DEF RPages
  <2>4. RPages(r) = {Lo(r) + k - 1 : k \in 1..n}
    BY <2>2, <2>3
  <2> QED
    BY <2>1, <2>4
<1>3. DOMAIN ps = 1..n /\ Len(ps) = n /\ \A k \in 1..n : ps[k] = Lo(r) + k - 1
  BY <1>2
<1>4. V!ToSet(ps) = RPages(r)
  BY <1>2, <1>3 DEF V!ToSet
<1> HIDE DEF ps
<1>5. ASSUME NEW p \in RPages(r)
      PROVE  (CHOOSE k \in DOMAIN ps : ps[k] = p) = p - Lo(r) + 1
  <2>1. PICK k \in 1..n : p = Lo(r) + k - 1
    BY <1>2
  <2>2. k = p - Lo(r) + 1
    BY <1>2, <2>1
  <2>3. \A j \in DOMAIN ps : ps[j] = p <=> j = k
    BY <1>2, <1>3, <2>1
  <2> QED
    BY <1>3, <2>2, <2>3
<1>6. /\ kpt' = V!MapPages(kpt, [p \in RPages(r) |-> AllocFrame(used, p - Lo(r) + 1)])
      /\ used' = AfterAlloc(used, n)
  <2>1. /\ kpt' = V!MapPages(kpt, [p \in V!ToSet(ps) |->
                    V!AllocFrame(used, CHOOSE k \in DOMAIN ps : ps[k] = p)])
        /\ used' = V!AfterAlloc(used, Len(ps))
    BY <1>1 DEF V!Valloc, ps
  <2>2. [p \in V!ToSet(ps) |-> V!AllocFrame(used, CHOOSE k \in DOMAIN ps : ps[k] = p)]
          = [p \in RPages(r) |-> AllocFrame(used, p - Lo(r) + 1)]
    <3>1. \A p \in RPages(r) :
            V!AllocFrame(used, CHOOSE k \in DOMAIN ps : ps[k] = p) = AllocFrame(used, p - Lo(r) + 1)
      BY <1>5, SamePmm, Zenon
    <3> QED
      BY <1>4, <3>1, Zenon
  <2> QED
    BY <1>3, <2>1, <2>2, SamePmm
<1>7. kpt' = [p \in V!Pages |-> IF p \in RPages(r)
                THEN AllocFrame(used, p - Lo(r) + 1) ELSE kpt[p]]
  BY <1>2, <1>6 DEF V!MapPages, RegionsMapped
<1>8. \A p \in RPages(r) : kpt[p] = NotMapped
  BY <1>1, <1>2 DEF RegionsMapped
<1>9. \A p \in RPages(r) : /\ AllocFrame(used, p - Lo(r) + 1) \in Frames
                           /\ AllocFrame(used, p - Lo(r) + 1) # NotMapped
  <2>1. \A p \in RPages(r) : p - Lo(r) + 1 \in Nat \ {0}
    BY <1>2
  <2>2. NotMapped \notin Frames
    BY PmmShape DEF Frames, NotMapped
  <2> QED
    <3>1. \A k \in Nat \ {0} : AllocFrame(used, k) \in Frames
      BY AllocFacts
    <3> QED
      BY <2>1, <2>2, <3>1, Zenon
<1>10. RegionsMapped'
  <2>1. kpt' \in [V!Pages -> Frames \cup {NotMapped}]
    BY <1>7, <1>9 DEF RegionsMapped
  <2>2. ASSUME NEW p \in V!Pages
        PROVE  kpt'[p] # NotMapped <=> \E k \in DOMAIN L' : p \in RPages(L'[k])
    <3>1. kpt'[p] # NotMapped <=> p \in RPages(r) \/ \E k \in DOMAIN L : p \in RPages(L[k])
      BY <1>7, <1>8, <1>9 DEF RegionsMapped
    <3>2. ToSet(L') = ToSet(L) \cup {r}
      <4>1. L \in Seq(Regions) /\ i \in 1..(Len(L) + 1)
        BY DEF RegionList
      <4> HIDE DEF L
      <4>2. ToSet(InsertAt(L, i, r)) = ToSet(L) \cup {r}
        BY <4>1, InsertElements
      <4> QED
        BY <1>1, <4>2
    <3> HIDE DEF L
    <3> QED
      BY <3>1, <3>2 DEF ToSet
  <2> QED
    BY <2>1, <2>2 DEF RegionsMapped, RPages, Lo, Hi, V!PageOf, V!End
<1> QED
  BY <1>1, <1>6, <1>7, <1>8, <1>10

(* vfree clears the entries of its region and of no other.                 *)
LEMMA VfreePages ==
  ASSUME RegionList, RegionsMapped, NEW k \in DOMAIN vmalloc_list, V!Vfree(k)
  PROVE  /\ RegionList' /\ RegionsMapped'
         /\ \E N \in SUBSET V!Pages :
              /\ kpt' = [p \in V!Pages |-> IF p \in N THEN NotMapped ELSE kpt[p]]
              /\ used' = AfterFree(used, EntriesOf(kpt, N))
<1> DEFINE L == vmalloc_list
           n == Len(L)
           r == L[k]
           N == RPages(r)
           ps == V!RegionPages(r)
<1>1. /\ L \in Seq(Regions) /\ n \in Nat /\ DOMAIN L = 1..n /\ k \in 1..n
      /\ \A j \in 1..n : L[j] \in Regions
      /\ \A i, j \in 1..n : i < j => V!End(L[i]) <= L[j].base
  <2>1. L \in Seq(Regions) /\ n \in Nat /\ DOMAIN L = 1..n
    BY DEF RegionList
  <2> QED
    BY <2>1 DEF RegionList, RegionsDisjoint, V!RegionsDisjoint
<1>2. /\ r \in Regions /\ Lo(r) \in Nat /\ Hi(r) \in Nat /\ N \in SUBSET V!Pages
      /\ ps = [j \in 1..(Hi(r) - Lo(r)) |-> Lo(r) + j - 1]
  BY <1>1, RegionFacts
<1>3. V!ToSet(ps) = N
  <2>1. V!ToSet(ps) = {Lo(r) + j - 1 : j \in 1..(Hi(r) - Lo(r))}
    BY <1>2 DEF V!ToSet
  <2>2. ASSUME NEW p \in N
        PROVE  p - Lo(r) + 1 \in 1..(Hi(r) - Lo(r)) /\ p = Lo(r) + (p - Lo(r) + 1) - 1
    BY <1>2 DEF RPages
  <2>3. ASSUME NEW j \in 1..(Hi(r) - Lo(r)) PROVE Lo(r) + j - 1 \in N
    BY <1>2 DEF RPages
  <2> QED
    BY <2>1, <2>2, <2>3
<1>4. /\ used' = AfterFree(used, EntriesOf(kpt, N))
      /\ kpt' = V!UnmapPages(kpt, N)
      /\ L' = RemoveAt(L, k)
  <2>1. /\ used' = V!AfterFree(used, {kpt[p] : p \in V!ToSet(ps)})
        /\ kpt' = V!UnmapPages(kpt, V!ToSet(ps))
        /\ L' = V!RemoveAt(L, k)
    BY DEF V!Vfree, V!FramesGivenBack
  <2>2. {kpt[p] : p \in V!ToSet(ps)} = EntriesOf(kpt, N)
    BY <1>3 DEF EntriesOf
  <2>3. V!RemoveAt(L, k) = RemoveAt(L, k)
    BY DEF V!RemoveAt, RemoveAt
  <2> HIDE DEF N, ps
  <2> QED
    BY <1>3, <2>1, <2>2, <2>3, SamePmm
<1>5. kpt' = [p \in V!Pages |-> IF p \in N THEN NotMapped ELSE kpt[p]]
  BY <1>4, SamePmm DEF V!UnmapPages, RegionsMapped
<1>6. /\ L' \in Seq(Regions) /\ Len(L') = n - 1
      /\ \A j \in 1..(n - 1) : L'[j] = IF j < k THEN L[j] ELSE L[j + 1]
      /\ ToSet(L') = Others(L, k)
  <2> HIDE DEF L
  <2>1. /\ RemoveAt(L, k) \in Seq(Regions) /\ Len(RemoveAt(L, k)) = n - 1
        /\ \A j \in 1..(n - 1) : RemoveAt(L, k)[j] = IF j < k THEN L[j] ELSE L[j + 1]
    BY <1>1, RemoveFacts
  <2>2. ToSet(RemoveAt(L, k)) = Others(L, k)
    BY <1>1, RemoveElements
  <2> QED
    BY <1>4, <2>1, <2>2
<1>7. RegionList'
  <2>1. ASSUME NEW i \in 1..(n - 1), NEW j \in 1..(n - 1), i < j
        PROVE  V!End(L'[i]) <= L'[j].base
    <3>1. PICK a \in 1..n, b \in 1..n : L'[i] = L[a] /\ L'[j] = L[b] /\ a < b
      <4>1. CASE j < k
        BY <1>1, <1>6, <2>1, <4>1
      <4>2. CASE i < k /\ ~(j < k)
        <5>1. i \in 1..n /\ j + 1 \in 1..n /\ i < j + 1 /\ L'[i] = L[i] /\ L'[j] = L[j + 1]
          BY <1>1, <1>6, <2>1, <4>2
        <5> QED
          BY <5>1
      <4>3. CASE ~(i < k) /\ ~(j < k)
        <5>1. i + 1 \in 1..n /\ j + 1 \in 1..n /\ i + 1 < j + 1
              /\ L'[i] = L[i + 1] /\ L'[j] = L[j + 1]
          BY <1>1, <1>6, <2>1, <4>3
        <5> QED
          BY <5>1
      <4> QED
        BY <1>1, <2>1, <4>1, <4>2, <4>3
    <3> QED
      BY <1>1, <3>1
  <2> QED
    BY <1>6, <2>1 DEF RegionList, RegionsDisjoint, V!RegionsDisjoint
<1>8. RegionsMapped'
  <2>1. kpt' \in [V!Pages -> Frames \cup {NotMapped}]
    BY <1>5 DEF RegionsMapped
  <2>2. ASSUME NEW j \in 1..n, j # k PROVE RPages(L[j]) \cap N = {}
    <3>1. V!End(L[j]) <= r.base \/ V!End(r) <= L[j].base
      BY <1>1, <2>2
    <3> QED
      BY <1>1, <1>2, <3>1, RegionsApart
  <2>3. ASSUME NEW p \in V!Pages
        PROVE  kpt'[p] # NotMapped <=> \E j \in DOMAIN L' : p \in RPages(L'[j])
    <3>1. kpt[p] # NotMapped <=> \E j \in 1..n : p \in RPages(L[j])
      BY <1>1 DEF RegionsMapped
    <3>2. kpt'[p] # NotMapped <=> p \notin N /\ \E j \in 1..n : p \in RPages(L[j])
      BY <1>5, <3>1
    <3>3. kpt'[p] # NotMapped <=> \E x \in Others(L, k) : p \in RPages(x)
      BY <1>1, <2>2, <3>2 DEF Others
    <3> HIDE DEF L
    <3> QED
      BY <1>6, <3>3 DEF ToSet
  <2> QED
    BY <2>1, <2>3 DEF RegionsMapped, RPages, Lo, Hi, V!PageOf, V!End
<1> QED
  BY <1>2, <1>4, <1>5, <1>7, <1>8

-----------------------------------------------------------------------------
(* A process's stacks: sorted downwards and apart. The first page of one   *)
(* with two pages or more is mapped: it is not the page at the base of     *)
(* another, which user_free_stack unmaps too.                              *)
Stacks == {r \in [base : Nat, size : Nat \ {0}] : r.size <= r.base /\ r.base <= UsTop}

StackList == us_list \in Seq(Stacks) /\ StacksDisjoint

StacksMapped == upt \in [U!Pages -> Frames \cup {NotMapped}] /\ LargeStacksMapped

(* The pages that are mapped although they belong to no thread: what the   *)
(* exits of threads with a stack of one page left behind.                  *)
FirstPages == {r.base - 1 : r \in ToSet(us_list)}
Leftover == {p \in U!Pages : upt[p] # NotMapped /\ p \notin FirstPages}

LEMMA StackFacts ==
  ASSUME StackList
  PROVE  /\ us_list \in Seq(Stacks) /\ Len(us_list) \in Nat /\ DOMAIN us_list = 1..Len(us_list)
         /\ \A k \in 1..Len(us_list) :
              /\ us_list[k] \in Stacks /\ us_list[k].base \in Nat /\ us_list[k].size \in Nat
              /\ 1 <= us_list[k].size /\ us_list[k].size <= us_list[k].base
              /\ us_list[k].base <= UsTop
              /\ U!Low(us_list[k]) = us_list[k].base - us_list[k].size
         /\ \A j, k \in 1..Len(us_list) : j < k => U!Low(us_list[j]) >= us_list[k].base
<1>1. us_list \in Seq(Stacks) /\ Len(us_list) \in Nat /\ DOMAIN us_list = 1..Len(us_list)
  BY DEF StackList
<1>2. \A k \in 1..Len(us_list) : us_list[k] \in Stacks
  BY <1>1
<1>3. \A j, k \in 1..Len(us_list) : j < k => U!Low(us_list[j]) >= us_list[k].base
  BY <1>1 DEF StackList, StacksDisjoint, U!StacksDisjoint
<1> QED
  BY <1>1, <1>2, <1>3 DEF Stacks, U!Low

(* A new stack goes to where there is room for it.                         *)
LEMMA StackAdded ==
  ASSUME StackList, NEW size \in StackSizes, U!UserAllocStack(size)
  PROVE  \E r \in Stacks, i \in 1..(Len(us_list) + 1) :
           /\ r.base = U!NewBase(size)
           /\ us_list' = InsertAt(us_list, i, r)
           /\ StackList'
           /\ \A x \in ToSet(us_list) : x.base # r.base
<1> DEFINE L == us_list
           n == Len(L)
           r == [base |-> U!NewBase(size), size |-> size]
           a == U!Above(size)
           i == IF L = <<>> THEN 1 ELSE a + 1
<1>1. /\ L \in Seq(Stacks) /\ n \in Nat /\ DOMAIN L = 1..n
      /\ \A k \in 1..n : /\ L[k] \in Stacks /\ L[k].base \in Nat /\ L[k].size \in Nat
                         /\ 1 <= L[k].size /\ L[k].size <= L[k].base /\ L[k].base <= UsTop
                         /\ U!Low(L[k]) = L[k].base - L[k].size
      /\ \A j, k \in 1..n : j < k => U!Low(L[j]) >= L[k].base
  BY StackFacts
<1>2. L = <<>> <=> n = 0
  BY <1>1
<1>3. /\ size \in Nat \ {0} /\ UsTop \in Nat
      /\ L' = InsertAt(L, i, r)
      /\ r.base = U!NewBase(size) /\ r.size = size /\ size <= r.base
      /\ U!Low(r) = r.base - size
  BY MemoryShape DEF U!UserAllocStack, InsertAt, U!InsertAt, U!Low
<1> HIDE DEF r
<1>4. CASE n = 0
  <2>1. i = 1 /\ r.base = UsTop
    BY <1>2, <1>3, <1>4 DEF U!NewBase
  <2>2. r \in Stacks
    BY <1>3, <2>1 DEF Stacks, r
  <2>3. L' \in Seq(Stacks) /\ Len(L') = 1
    <3>1. i \in 1..(n + 1)
      BY <1>4, <2>1
    <3> HIDE DEF i, L
    <3>2. L \in Seq(Stacks) /\ i \in 1..(Len(L) + 1) /\ r \in Stacks
      BY <1>1, <2>2, <3>1
    <3>3. /\ InsertAt(L, i, r) \in Seq(Stacks) /\ Len(InsertAt(L, i, r)) = Len(L) + 1
          /\ \A k \in 1..(Len(L) + 1) :
               InsertAt(L, i, r)[k] = IF k < i THEN L[k] ELSE IF k = i THEN r ELSE L[k - 1]
      BY ONLY <3>2, InsertFacts
    <3> QED
      BY <1>3, <1>4, <3>3
  <2>4. StackList'
    BY <2>3 DEF StackList, StacksDisjoint, U!StacksDisjoint
  <2>5. ToSet(L) = {}
    BY <1>1, <1>4 DEF ToSet
  <2> QED
    BY <1>3, <1>4, <2>1, <2>2, <2>4, <2>5
<1>5. CASE n # 0
  <2> DEFINE G == U!Gaps(size)
  <2>1. G = {k \in 1..(n - 1) : U!Low(L[k]) >= L[k + 1].base + size}
    BY DEF U!Gaps
  <2>2. a \in 1..n /\ (a < n => U!Low(L[a]) >= L[a + 1].base + size)
    <3>1. CASE G = {}
      BY <1>1, <1>5, <3>1 DEF U!Above
    <3>2. CASE G # {}
      <4>1. a = Min(G)
        BY <3>2 DEF U!Above, U!Min, Min
      <4>2. G \in SUBSET Nat
        BY <1>1, <2>1
      <4>3. Min(G) \in G
        <5> HIDE DEF G
        <5> QED
          BY <3>2, <4>2, MinIsLeast
      <4> QED
        BY <1>1, <2>1, <4>1, <4>3
    <3> QED
      BY <3>1, <3>2
  <2>3. i = a + 1 /\ i \in 1..(n + 1) /\ r.base = U!Low(L[a])
    BY <1>1, <1>2, <1>3, <1>5, <2>2 DEF U!NewBase
  <2> HIDE DEF a, i, G
  <2>4. r.base \in Nat /\ r.base <= UsTop
    <3>1. /\ L[a].base \in Nat /\ L[a].size \in Nat /\ L[a].size <= L[a].base
          /\ L[a].base <= UsTop /\ r.base = L[a].base - L[a].size
      BY <1>1, <2>2, <2>3
    <3> QED
      BY <1>3, <3>1
  <2>5. ASSUME NEW k \in 1..n, k <= a PROVE U!Low(L[k]) >= r.base
    <3>1. CASE k < a
      <4>1. U!Low(L[k]) >= L[a].base
        BY <1>1, <2>2, <3>1
      <4>2. U!Low(L[k]) \in Int /\ L[a].base \in Nat /\ L[a].size \in Nat
            /\ r.base = L[a].base - L[a].size
        BY <1>1, <2>2, <2>3
      <4> QED
        BY ONLY <4>1, <4>2
    <3>2. CASE k = a
      <4>1. U!Low(L[k]) \in Int /\ r.base = U!Low(L[k])
        BY <1>1, <2>3, <3>2
      <4> QED
        BY ONLY <4>1
    <3>3. a \in Int /\ k \in Int
      BY <2>2, <1>1
    <3> QED
      BY ONLY <2>5, <3>1, <3>2, <3>3
  <2>6. ASSUME NEW k \in 1..n, k > a PROVE U!Low(r) >= L[k].base
    <3>1. a + 1 \in 1..n /\ U!Low(L[a]) >= L[a + 1].base + size
      BY <1>1, <2>2, <2>6
    <3>2. L[a + 1].base >= L[k].base
      <4>1. CASE k = a + 1
        BY <1>1, <3>1, <4>1
      <4>2. CASE k > a + 1
        BY <1>1, <3>1, <4>2
      <4> QED
        BY <2>2, <2>6, <4>1, <4>2
    <3>3. /\ U!Low(r) = r.base - size /\ L[k].base \in Nat /\ L[a + 1].base \in Nat
          /\ r.base >= L[a + 1].base + size
      BY <1>1, <1>3, <2>3, <3>1
    <3> QED
      BY <1>3, <2>4, <3>2, <3>3
  <2>7. r \in Stacks
    BY <1>3, <2>4 DEF Stacks, r
  <2>8. /\ L' \in Seq(Stacks) /\ Len(L') = n + 1
        /\ \A k \in 1..(n + 1) : L'[k] = IF k < i THEN L[k] ELSE IF k = i THEN r ELSE L[k - 1]
    <3>1. L \in Seq(Stacks) /\ i \in 1..(Len(L) + 1) /\ r \in Stacks
      BY <1>1, <2>3, <2>7
    <3> HIDE DEF L
    <3>2. /\ InsertAt(L, i, r) \in Seq(Stacks) /\ Len(InsertAt(L, i, r)) = Len(L) + 1
          /\ \A k \in 1..(Len(L) + 1) : InsertAt(L, i, r)[k] =
               IF k < i THEN L[k] ELSE IF k = i THEN r ELSE L[k - 1]
      BY <3>1, InsertFacts
    <3> QED
      BY <1>3, <3>2
  <2>9. ASSUME NEW j \in 1..(n + 1), NEW k \in 1..(n + 1), j < k
        PROVE  U!Low(L'[j]) >= L'[k].base
    <3>1. CASE k < i
      BY <1>1, <2>3, <2>8, <2>9, <3>1
    <3>2. CASE k = i
      <4>1. L'[j] = L[j] /\ L'[k] = r /\ j \in 1..n /\ j <= a
        BY <1>1, <2>2, <2>3, <2>8, <2>9, <3>2
      <4> QED
        BY <2>5, <4>1
    <3>3. CASE k > i
      <4>1. L'[k] = L[k - 1] /\ k - 1 \in 1..n /\ k - 1 > a
        BY <1>1, <2>2, <2>3, <2>8, <2>9, <3>3
      <4>2. CASE j < i
        BY <1>1, <2>3, <2>8, <2>9, <3>3, <4>1, <4>2
      <4>3. CASE j = i
        BY <2>6, <2>8, <4>1, <4>3
      <4>4. CASE j > i
        <5>1. L'[j] = L[j - 1] /\ j - 1 \in 1..n /\ j - 1 < k - 1
          BY <1>1, <2>2, <2>3, <2>8, <2>9, <4>4
        <5> QED
          BY <1>1, <4>1, <5>1
      <4> QED
        BY <2>3, <4>2, <4>3, <4>4
    <3> QED
      BY <2>3, <3>1, <3>2, <3>3
  <2>10. StackList'
    BY <2>8, <2>9 DEF StackList, StacksDisjoint, U!StacksDisjoint
  <2>11. ASSUME NEW k \in 1..n PROVE L[k].base # r.base
    <3>1. CASE k <= a
      BY <1>1, <2>4, <2>5, <3>1
    <3>2. CASE k > a
      BY <1>1, <1>3, <2>4, <2>6, <3>2
    <3> QED
      BY <2>2, <3>1, <3>2
  <2>12. \A x \in ToSet(L) : x.base # r.base
    BY <1>1, <2>11 DEF ToSet
  <2> QED
    BY <1>3, <2>3, <2>7, <2>10, <2>12
<1> QED
  BY <1>4, <1>5

(* user_alloc_stack maps the first page of the new stack, over what an     *)
(* exit may have left there.                                               *)
StackPageAdded(q) ==
  /\ upt' = [p \in U!Pages |-> IF p = q THEN AllocFrame(used, 1) ELSE upt[p]]
  /\ used' = AfterAlloc(used, 1)
  /\ q \notin FirstPages
  /\ Leftover' = Leftover \ {q}

LEMMA StackAddedPages ==
  ASSUME StackList, StacksMapped, used \in SUBSET Frames,
         NEW size \in StackSizes, U!UserAllocStack(size)
  PROVE  StackList' /\ StacksMapped' /\ \E q \in U!Pages : StackPageAdded(q)
<1> DEFINE L == us_list
<1>1. PICK r \in Stacks, i \in 1..(Len(L) + 1) :
        /\ r.base = U!NewBase(size)
        /\ L' = InsertAt(L, i, r)
        /\ StackList'
        /\ \A x \in ToSet(L) : x.base # r.base
  BY StackAdded
<1> DEFINE q == r.base - 1
<1>2. /\ r.base \in Nat /\ q \in Nat /\ q \in U!Pages
  BY MemoryShape DEF Stacks, U!Pages
<1>3. /\ upt' = [p \in U!Pages |-> IF p = q THEN AllocFrame(used, 1) ELSE upt[p]]
      /\ used' = AfterAlloc(used, 1)
  <2>1. /\ upt' = U!MapPages(upt, [p \in {q} |-> AllocFrame(used, 1)])
        /\ used' = AfterAlloc(used, 1)
    <3>1. /\ upt' = U!MapPages(upt, [p \in {q} |-> U!AllocFrame(used, 1)])
          /\ used' = U!AfterAlloc(used, 1)
      BY <1>1 DEF U!UserAllocStack, U!FirstPage
    <3> QED
      BY <3>1, SamePmm
  <2> HIDE DEF q
  <2> QED
    BY <1>2, <2>1 DEF U!MapPages, StacksMapped
<1>4. AllocFrame(used, 1) \in Frames /\ NotMapped \notin Frames
  <2>1. \A k \in Nat \ {0} : AllocFrame(used, k) \in Frames
    BY AllocFacts
  <2> QED
    BY <2>1, PmmShape DEF Frames, NotMapped
<1>5. \A x \in ToSet(L) : x.base \in Nat /\ x.base - 1 # q
  <2>1. \A x \in ToSet(L) : x \in Stacks
    BY DEF StackList, ToSet
  <2> QED
    BY <1>1, <1>2, <2>1 DEF Stacks
<1>6. (ToSet(us_list))' = ToSet(L) \cup {r}
  <2>1. L \in Seq(Stacks) /\ i \in 1..(Len(L) + 1)
    BY DEF StackList
  <2> HIDE DEF L
  <2>2. ToSet(InsertAt(L, i, r)) = ToSet(L) \cup {r}
    BY <2>1, InsertElements
  <2>3. (ToSet(us_list))' = ToSet(L')
    BY DEF ToSet, L
  <2> QED
    BY <1>1, <2>2, <2>3
<1>7. upt' \in [U!Pages -> Frames \cup {NotMapped}] /\ upt'[q] # NotMapped
  BY <1>2, <1>3, <1>4 DEF StacksMapped
<1>8. LargeStacksMapped'
  <2>1. ASSUME NEW x \in ToSet(L), x.size > 1 PROVE upt'[x.base - 1] # NotMapped
    <3>1. x.base - 1 \in U!Pages
      BY MemoryShape DEF StackList, ToSet, Stacks, U!Pages
    <3>2. upt[x.base - 1] # NotMapped
      BY <2>1 DEF StacksMapped, LargeStacksMapped
    <3> QED
      BY <1>3, <1>5, <3>1, <3>2
  <2> HIDE DEF L
  <2>2. \A x \in (ToSet(us_list))' : x.size > 1 => upt'[x.base - 1] # NotMapped
    BY <1>6, <1>7, <2>1
  <2> QED
    BY <2>2 DEF LargeStacksMapped, NotMapped
<1>9. q \notin FirstPages
  BY <1>5 DEF FirstPages
<1>10. FirstPages' = FirstPages \cup {q}
  <2>1. FirstPages' = {x.base - 1 : x \in (ToSet(us_list))'}
    BY DEF FirstPages
  <2>2. FirstPages = {x.base - 1 : x \in ToSet(L)}
    BY DEF FirstPages
  <2> HIDE DEF L
  <2> QED
    BY <1>6, <2>1, <2>2
<1>11. Leftover' = Leftover \ {q}
  <2>1. Leftover' = {p \in U!Pages : upt'[p] # NotMapped /\ p \notin FirstPages'}
    BY DEF Leftover, NotMapped, U!Pages
  <2> HIDE DEF q
  <2> QED
    BY <1>3, <1>10, <2>1 DEF Leftover
<1> QED
  BY <1>1, <1>2, <1>3, <1>7, <1>8, <1>9, <1>11 DEF StackPageAdded, StacksMapped

(* user_free_stack clears the entries of its own pages and of the one at   *)
(* base; a stack of one page leaves that page behind.                      *)
StackPagesFreed(k, N) ==
  /\ upt' = [p \in U!Pages |-> IF p \in N THEN NotMapped ELSE upt[p]]
  /\ used' = AfterFree(used, EntriesOf(upt, N))
  /\ Leftover' \subseteq Leftover \cup
       (IF us_list[k].size = 1 THEN {us_list[k].base - 1} ELSE {})

LEMMA StackFreedPages ==
  ASSUME StackList, StacksMapped, NEW k \in DOMAIN us_list, U!UserFreeStack(k)
  PROVE  StackList' /\ StacksMapped' /\ \E N \in SUBSET U!Pages : StackPagesFreed(k, N)
<1> DEFINE L == us_list
           n == Len(L)
           r == L[k]
           N == U!FreedPages(r)
<1>1. /\ L \in Seq(Stacks) /\ n \in Nat /\ DOMAIN L = 1..n
      /\ \A j \in 1..n : /\ L[j] \in Stacks /\ L[j].base \in Nat /\ L[j].size \in Nat
                         /\ 1 <= L[j].size /\ L[j].size <= L[j].base /\ L[j].base <= UsTop
                         /\ U!Low(L[j]) = L[j].base - L[j].size
      /\ \A i, j \in 1..n : i < j => U!Low(L[i]) >= L[j].base
  BY StackFacts
<1>2. k \in 1..n /\ UsTop \in Nat
  BY <1>1, MemoryShape
<1>3. N = (r.base - r.size + 1)..r.base /\ N \in SUBSET U!Pages
  <2>1. /\ r.base \in Nat /\ r.size \in Nat /\ 1 <= r.size /\ r.size <= r.base /\ r.base <= UsTop
    BY <1>1, <1>2
  <2>2. N = {r.base - i : i \in 0..(r.size - 1)}
    BY DEF U!FreedPages
  <2> HIDE DEF r, N
  <2>3. ASSUME NEW p \in (r.base - r.size + 1)..r.base
        PROVE  r.base - p \in 0..(r.size - 1) /\ p = r.base - (r.base - p)
    BY <2>1
  <2>4. ASSUME NEW i \in 0..(r.size - 1) PROVE r.base - i \in (r.base - r.size + 1)..r.base
    BY <2>1
  <2>5. N = (r.base - r.size + 1)..r.base
    BY <2>2, <2>3, <2>4
  <2> QED
    BY <1>2, <2>1, <2>5 DEF U!Pages
<1>4. /\ used' = AfterFree(used, EntriesOf(upt, N))
      /\ upt' = U!UnmapPages(upt, N)
      /\ L' = RemoveAt(L, k)
  BY SamePmm DEF U!UserFreeStack, EntriesOf, RemoveAt, U!RemoveAt
<1> HIDE DEF N
<1>5. upt' = [p \in U!Pages |-> IF p \in N THEN NotMapped ELSE upt[p]]
  BY <1>4, SamePmm DEF U!UnmapPages, StacksMapped
<1>6. /\ L' \in Seq(Stacks) /\ Len(L') = n - 1
      /\ \A j \in 1..(n - 1) : L'[j] = IF j < k THEN L[j] ELSE L[j + 1]
      /\ ToSet(L') = Others(L, k)
  <2> HIDE DEF L
  <2>1. /\ RemoveAt(L, k) \in Seq(Stacks) /\ Len(RemoveAt(L, k)) = n - 1
        /\ \A j \in 1..(n - 1) : RemoveAt(L, k)[j] = IF j < k THEN L[j] ELSE L[j + 1]
    BY <1>1, <1>2, RemoveFacts
  <2>2. ToSet(RemoveAt(L, k)) = Others(L, k)
    BY <1>1, <1>2, RemoveElements
  <2>3. L' = RemoveAt(L, k)
    BY <1>4
  <2> QED
    BY ONLY <2>1, <2>2, <2>3
<1>7. StackList'
  <2>1. ASSUME NEW i \in 1..(n - 1), NEW j \in 1..(n - 1), i < j
        PROVE  U!Low(L'[i]) >= L'[j].base
    <3>1. PICK a \in 1..n, b \in 1..n : L'[i] = L[a] /\ L'[j] = L[b] /\ a < b
      <4>1. CASE j < k
        <5>1. i \in 1..n /\ j \in 1..n /\ i < k
          BY <1>1, <1>2, <2>1, <4>1
        <5>2. L'[i] = L[i] /\ L'[j] = L[j]
          BY <1>6, <2>1, <4>1, <5>1
        <5> QED
          BY <2>1, <5>1, <5>2
      <4>2. CASE i < k /\ ~(j < k)
        <5>1. i \in 1..n /\ j + 1 \in 1..n /\ i < j + 1
          BY <1>1, <1>2, <2>1, <4>2
        <5>2. L'[i] = L[i] /\ L'[j] = L[j + 1]
          BY <1>6, <2>1, <4>2
        <5> QED
          BY <5>1, <5>2
      <4>3. CASE ~(i < k) /\ ~(j < k)
        <5>1. i + 1 \in 1..n /\ j + 1 \in 1..n /\ i + 1 < j + 1
          BY <1>1, <1>2, <2>1, <4>3
        <5>2. L'[i] = L[i + 1] /\ L'[j] = L[j + 1]
          BY <1>6, <2>1, <4>3
        <5> QED
          BY <5>1, <5>2
      <4> QED
        BY <1>1, <1>2, <2>1, <4>1, <4>2, <4>3
    <3> QED
      BY <1>1, <3>1
  <2>2. us_list' \in Seq(Stacks) /\ DOMAIN us_list' = 1..(n - 1)
    BY <1>6
  <2>3. ASSUME NEW i \in 1..(n - 1), NEW j \in 1..(n - 1), i < j
        PROVE  U!Low(us_list'[i]) >= us_list'[j].base
    BY ONLY <2>1, <2>3
  <2> QED
    BY ONLY <2>2, <2>3 DEF StackList, StacksDisjoint, U!StacksDisjoint, U!Low
<1>8. (ToSet(us_list))' = Others(L, k)
  BY <1>6 DEF ToSet
<1>9. ASSUME NEW j \in 1..n, j # k, L[j].size > 1
      PROVE  L[j].base - 1 \in U!Pages \ N /\ upt[L[j].base - 1] # NotMapped
  <2>1. L[j] \in ToSet(us_list)
    BY <1>1 DEF ToSet
  <2>2. upt[L[j].base - 1] # NotMapped
    BY <1>9, <2>1 DEF StacksMapped, LargeStacksMapped
  <2>3. /\ L[j].base \in Nat /\ L[j].size \in Nat /\ 2 <= L[j].size
        /\ L[j].size <= L[j].base /\ L[j].base <= UsTop
        /\ r.base \in Nat /\ r.size \in Nat /\ 1 <= r.size /\ r.size <= r.base
        /\ j < k => L[j].base - L[j].size >= r.base
        /\ j > k => r.base - r.size >= L[j].base
    BY <1>1, <1>2, <1>9
  <2>4. L[j].base - 1 \in U!Pages
    BY <1>2, <2>3 DEF U!Pages
  <2> DEFINE x == L[j].base
             y == L[j].size
  <2> HIDE DEF x, y, L, r
  <2>5. L[j].base - 1 \notin N
    BY <1>2, <1>3, <1>9, <2>3
  <2> QED
    BY <2>2, <2>4, <2>5
<1>10. LargeStacksMapped'
  <2>1. \A x \in Others(L, k) : x.size > 1 => upt'[x.base - 1] # NotMapped
    BY <1>1, <1>5, <1>9 DEF Others
  <2> HIDE DEF L
  <2>2. \A x \in (ToSet(us_list))' : x.size > 1 => upt'[x.base - 1] # NotMapped
    BY <1>8, <2>1
  <2> QED
    BY <2>2 DEF LargeStacksMapped, NotMapped
<1>11. upt' \in [U!Pages -> Frames \cup {NotMapped}]
  BY <1>5 DEF StacksMapped
<1>12. FirstPages \subseteq FirstPages' \cup {r.base - 1}
  <2>1. FirstPages' = {x.base - 1 : x \in Others(L, k)}
    BY <1>8 DEF FirstPages
  <2>2. ToSet(us_list) \subseteq Others(L, k) \cup {r}
    BY <1>1 DEF Others, ToSet
  <2> HIDE DEF L, r
  <2> QED
    BY <2>1, <2>2 DEF FirstPages
<1>13. r.size # 1 => r.base - 1 \in N
  BY <1>1, <1>2, <1>3
<1>14. Leftover' \subseteq Leftover \cup (IF r.size = 1 THEN {r.base - 1} ELSE {})
  <2>1. Leftover' = {p \in U!Pages : upt'[p] # NotMapped /\ p \notin FirstPages'}
    BY DEF Leftover, NotMapped, U!Pages
  <2> HIDE DEF L, r
  <2> QED
    BY <1>5, <1>12, <1>13, <2>1 DEF Leftover
<1> QED
  BY <1>3, <1>4, <1>5, <1>7, <1>10, <1>11, <1>14 DEF StackPagesFreed, StacksMapped

-----------------------------------------------------------------------------
(* All the pages, and their entries.                                       *)
AllPages == ({"kernel"} \X V!Pages) \cup ({"user"} \X U!Pages)
Table(k, u) == [x \in AllPages |-> IF x[1] = "kernel" THEN k[x[2]] ELSE u[x[2]]]
Entries == Table(kpt, upt)

(* X holds every frame that was lost, at most one for each exit with a     *)
(* stack of one page; a page such an exit left behind may yet cost one.    *)
LostAre(X) ==
  /\ Accounts(AllPages, Entries, used, Reserved \cup X)
  /\ Cardinality(X) + Cardinality(Leftover) <= onePageExits

(* The inductive invariant.                                                *)
MemoryInv ==
  /\ RegionList /\ RegionsMapped
  /\ StackList /\ StacksMapped
  /\ onePageExits \in Nat
  /\ \E X \in SUBSET Frames : LostAre(X)

LEMMA TableType ==
  ASSUME NEW k \in [V!Pages -> Frames \cup {NotMapped}],
         NEW u \in [U!Pages -> Frames \cup {NotMapped}]
  PROVE  /\ Table(k, u) \in [AllPages -> Frames \cup {NotMapped}]
         /\ \A p \in V!Pages : <<"kernel", p>> \in AllPages /\ Table(k, u)[<<"kernel", p>>] = k[p]
         /\ \A p \in U!Pages : <<"user", p>> \in AllPages /\ Table(k, u)[<<"user", p>>] = u[p]
<1>1. \A x \in AllPages : \/ \E p \in V!Pages : x = <<"kernel", p>>
                          \/ \E p \in U!Pages : x = <<"user", p>>
  BY DEF AllPages
<1>2. \A p \in V!Pages : <<"kernel", p>> \in AllPages /\ Table(k, u)[<<"kernel", p>>] = k[p]
  BY DEF AllPages, Table
<1>3. \A p \in U!Pages : <<"user", p>> \in AllPages /\ Table(k, u)[<<"user", p>>] = u[p]
  BY DEF AllPages, Table
<1>4. Table(k, u) = [x \in AllPages |-> Table(k, u)[x]]
  BY DEF Table
<1>5. \A x \in AllPages : Table(k, u)[x] \in Frames \cup {NotMapped}
  BY <1>1, <1>2, <1>3
<1> QED
  BY <1>2, <1>3, <1>4, <1>5

LEMMA AllPagesFacts ==
  /\ \A x \in AllPages : \/ \E p \in V!Pages : x = <<"kernel", p>>
                         \/ \E p \in U!Pages : x = <<"user", p>>
  /\ \A p, q : <<"kernel", p>> # <<"user", q>>
  /\ \A p, q : <<"kernel", p>> = <<"kernel", q>> => p = q
  /\ \A p, q : <<"user", p>> = <<"user", q>> => p = q
BY DEF AllPages

LEMMA InitMemory ==
  ASSUME Init
  PROVE  MemoryInv
<1>1. /\ vmalloc_list = <<>> /\ us_list = <<>> /\ used = Reserved
      /\ kpt = [p \in V!Pages |-> NotMapped] /\ upt = [p \in U!Pages |-> NotMapped]
  BY SamePmm DEF Init, V!Init, U!Init
<1>2. RegionList /\ RegionsMapped
  BY <1>1 DEF RegionList, RegionsDisjoint, V!RegionsDisjoint, RegionsMapped
<1>3. StackList /\ StacksMapped
  BY <1>1 DEF StackList, StacksDisjoint, U!StacksDisjoint, StacksMapped, LargeStacksMapped, ToSet
<1>4. Accounts(AllPages, Entries, used, Reserved \cup {})
  <2>1. Entries \in [AllPages -> Frames \cup {NotMapped}]
    BY <1>2, <1>3, TableType DEF RegionsMapped, StacksMapped, Entries
  <2>2. \A x \in AllPages : Entries[x] = NotMapped
    <3>1. /\ \A p \in V!Pages : Entries[<<"kernel", p>>] = NotMapped
          /\ \A p \in U!Pages : Entries[<<"user", p>>] = NotMapped
      BY <1>1, <1>2, <1>3, TableType DEF RegionsMapped, StacksMapped, Entries
    <3> QED
      BY <3>1, AllPagesFacts
  <2>3. Reserved \in SUBSET Frames /\ NotMapped \notin Frames
    BY PmmShape DEF Frames, NotMapped
  <2> QED
    BY <1>1, <2>1, <2>2, <2>3 DEF Accounts
<1>5. Leftover = {} /\ Cardinality({}) = 0 /\ onePageExits = 0
  BY <1>1, FS_EmptySet DEF Leftover, Init
<1>6. LostAre({})
  BY <1>4, <1>5 DEF LostAre
<1> QED
  BY <1>2, <1>3, <1>5, <1>6 DEF MemoryInv

(* The steps of vmalloc and vfree.                                         *)
LEMMA KernelStep ==
  ASSUME MemoryInv, KernelRegion
  PROVE  MemoryInv'
<1>1. /\ RegionList /\ RegionsMapped /\ StackList /\ StacksMapped
      /\ onePageExits \in Nat /\ onePageExits' = onePageExits
      /\ kpt \in [V!Pages -> Frames \cup {NotMapped}]
      /\ upt \in [U!Pages -> Frames \cup {NotMapped}]
      /\ us_list' = us_list /\ upt' = upt
  BY DEF MemoryInv, KernelRegion, RegionsMapped, StacksMapped
<1>2. PICK X \in SUBSET Frames : LostAre(X)
  BY DEF MemoryInv
<1> DEFINE R == Reserved \cup X
<1>3. Accounts(AllPages, Entries, used, R) /\ used \in SUBSET Frames
  BY <1>2 DEF LostAre, Accounts
<1>4. StackList' /\ StacksMapped' /\ Leftover' = Leftover
  BY <1>1 DEF StackList, StacksDisjoint, U!StacksDisjoint, U!Low, StacksMapped,
              LargeStacksMapped, Leftover, FirstPages, ToSet
<1>5. ASSUME Accounts(AllPages, Entries', used', R), RegionList', RegionsMapped' PROVE MemoryInv'
  <2>1. LostAre(X)'
    <3>1. Cardinality(X) + Cardinality(Leftover') <= onePageExits'
      BY <1>1, <1>4, <1>2 DEF LostAre
    <3> QED
      BY <1>5, <3>1 DEF LostAre, Accounts, AllPages, V!Pages, U!Pages
  <2> QED
    BY <1>1, <1>4, <1>5, <2>1 DEF MemoryInv
<1>6. Entries' = Table(kpt', upt')
  BY DEF Entries, Table
<1> DEFINE K(N) == {<<"kernel", p>> : p \in N}
<1> HIDE DEF R
<1>7. ASSUME NEW size \in RegionSizes, V!Valloc(size) PROVE MemoryInv'
  <2>1. RegionList' /\ RegionsMapped' /\ kpt' \in [V!Pages -> Frames \cup {NotMapped}]
    BY <1>1, <1>7, <1>3, VallocPages DEF RegionsMapped
  <2>2. PICK r \in Regions :
          /\ \A p \in RPages(r) : kpt[p] = NotMapped
          /\ kpt' = [p \in V!Pages |-> IF p \in RPages(r)
                       THEN AllocFrame(used, p - Lo(r) + 1) ELSE kpt[p]]
          /\ used' = AfterAlloc(used, Hi(r) - Lo(r))
    BY <1>1, <1>7, <1>3, VallocPages
  <2> DEFINE n == Hi(r) - Lo(r)
             N == K(RPages(r))
             g == [x \in N |-> x[2] - Lo(r) + 1]
             f == Entries
             h == Table(kpt', upt')
  <2>3. /\ Lo(r) \in Nat /\ Hi(r) \in Nat /\ n \in Nat /\ RPages(r) \subseteq V!Pages
        /\ RPages(r) = Lo(r)..(Hi(r) - 1)
    BY RegionFacts DEF RPages
  <2>4. /\ h \in [AllPages -> Frames \cup {NotMapped}]
        /\ \A p \in V!Pages : /\ <<"kernel", p>> \in AllPages
                              /\ f[<<"kernel", p>>] = kpt[p] /\ h[<<"kernel", p>>] = kpt'[p]
        /\ \A p \in U!Pages : /\ <<"user", p>> \in AllPages
                              /\ f[<<"user", p>>] = upt[p] /\ h[<<"user", p>>] = upt[p]
    BY <1>1, <2>1, TableType DEF Entries
  <2>5. /\ N \in SUBSET AllPages
        /\ \A p \in V!Pages : <<"kernel", p>> \in N <=> p \in RPages(r)
        /\ \A p \in U!Pages : <<"user", p>> \notin N
        /\ \A x \in N : \E p \in RPages(r) : x = <<"kernel", p>> /\ g[x] = p - Lo(r) + 1
    BY <2>3, <2>4, AllPagesFacts
  <2> HIDE DEF N, g, f, h
  <2>6. \A p \in RPages(r) : <<"kernel", p>> \in N /\ g[<<"kernel", p>>] = p - Lo(r) + 1
    BY <2>3, <2>5 DEF g
  <2>7. g \in [N -> 1..n]
    <3>1. \A x \in N : g[x] \in 1..n
      BY <2>3, <2>5
    <3>2. g = [x \in N |-> g[x]]
      BY DEF g
    <3> QED
      BY <3>1, <3>2
  <2>8. \A x, y \in N : g[x] = g[y] => x = y
    BY <2>3, <2>5
  <2>9. ASSUME NEW k \in 1..n PROVE \E x \in N : g[x] = k
    <3>1. Lo(r) + k - 1 \in RPages(r) /\ (Lo(r) + k - 1) - Lo(r) + 1 = k
      BY <2>3
    <3> QED
      BY <2>6, <3>1
  <2>10. \A x \in N : f[x] = NotMapped
    BY <2>2, <2>3, <2>4, <2>5
  <2>11. \A x \in AllPages : h[x] = IF x \in N THEN AllocFrame(used, g[x]) ELSE f[x]
    <3>1. ASSUME NEW p \in V!Pages
          PROVE  h[<<"kernel", p>>] = IF <<"kernel", p>> \in N
                   THEN AllocFrame(used, g[<<"kernel", p>>]) ELSE f[<<"kernel", p>>]
      <4>1. CASE p \in RPages(r)
        <5>1. <<"kernel", p>> \in N /\ g[<<"kernel", p>>] = p - Lo(r) + 1
          BY <2>6, <4>1
        <5>2. h[<<"kernel", p>>] = AllocFrame(used, p - Lo(r) + 1)
          BY <2>2, <2>4, <4>1
        <5> QED
          BY <5>1, <5>2
      <4>2. CASE p \notin RPages(r)
        BY <2>2, <2>4, <2>5, <4>2
      <4> QED
        BY <4>1, <4>2
    <3>2. ASSUME NEW p \in U!Pages PROVE h[<<"user", p>>] = f[<<"user", p>>]
      BY <2>4
    <3> QED
      BY <2>5, <3>1, <3>2, AllPagesFacts
  <2>12. Accounts(AllPages, h, AfterAlloc(used, n), R)
    <3>1. Accounts(AllPages, f, used, R)
      BY <1>3 DEF f
    <3>2. N \in SUBSET AllPages /\ n \in Nat /\ h \in [AllPages -> Frames \cup {NotMapped}]
      BY <2>3, <2>4, <2>5
    <3>3. \A k \in 1..n : \E x \in N : g[x] = k
      BY <2>9
    <3> HIDE DEF n
    <3> QED
      BY <2>7, <2>8, <2>10, <2>11, <3>1, <3>2, <3>3, AccountsAlloc
  <2>13. Accounts(AllPages, Entries', used', R)
    BY <1>6, <2>2, <2>12 DEF h
  <2> QED
    BY <1>5, <2>1, <2>13
<1>8. ASSUME NEW k \in DOMAIN vmalloc_list, V!Vfree(k) PROVE MemoryInv'
  <2>1. RegionList' /\ RegionsMapped' /\ kpt' \in [V!Pages -> Frames \cup {NotMapped}]
    BY <1>1, <1>8, <1>3, VfreePages DEF RegionsMapped
  <2>2. PICK M \in SUBSET V!Pages :
          /\ kpt' = [p \in V!Pages |-> IF p \in M THEN NotMapped ELSE kpt[p]]
          /\ used' = AfterFree(used, EntriesOf(kpt, M))
    BY <1>1, <1>8, <1>3, VfreePages
  <2> DEFINE N == K(M)
             f == Entries
             h == Table(kpt', upt')
  <2>3. /\ h \in [AllPages -> Frames \cup {NotMapped}]
        /\ \A p \in V!Pages : /\ <<"kernel", p>> \in AllPages
                              /\ f[<<"kernel", p>>] = kpt[p] /\ h[<<"kernel", p>>] = kpt'[p]
        /\ \A p \in U!Pages : /\ <<"user", p>> \in AllPages
                              /\ f[<<"user", p>>] = upt[p] /\ h[<<"user", p>>] = upt[p]
    BY <1>1, <2>1, TableType DEF Entries
  <2>4. /\ N \in SUBSET AllPages
        /\ \A p \in V!Pages : <<"kernel", p>> \in N <=> p \in M
        /\ \A p \in U!Pages : <<"user", p>> \notin N
    BY <2>3, AllPagesFacts
  <2>5. EntriesOf(kpt, M) = EntriesOf(f, N)
    <3>1. \A p \in M : f[<<"kernel", p>>] = kpt[p] /\ <<"kernel", p>> \in N
      BY <2>3
    <3>2. \A x \in N : \E p \in M : x = <<"kernel", p>>
      OBVIOUS
    <3> HIDE DEF N, f
    <3> QED
      BY <3>1, <3>2 DEF EntriesOf
  <2> HIDE DEF N, f, h
  <2>6. \A x \in AllPages : h[x] = IF x \in N THEN NotMapped ELSE f[x]
    <3>1. ASSUME NEW p \in V!Pages
          PROVE  h[<<"kernel", p>>] = IF <<"kernel", p>> \in N THEN NotMapped ELSE f[<<"kernel", p>>]
      BY <2>2, <2>3, <2>4
    <3> QED
      BY <2>3, <2>4, <3>1, AllPagesFacts
  <2>7. Accounts(AllPages, h, AfterFree(used, EntriesOf(f, N)), R)
    <3>1. Accounts(AllPages, f, used, R)
      BY <1>3 DEF f
    <3> QED
      BY <2>3, <2>4, <2>6, <3>1, AccountsFree
  <2>8. Accounts(AllPages, Entries', used', R)
    BY <1>6, <2>2, <2>5, <2>7 DEF h
  <2> QED
    BY <1>5, <2>1, <2>8
<1> QED
  BY <1>7, <1>8 DEF KernelRegion, V!Next

(* What a step of a process's stacks has to show for the invariant.        *)
LEMMA UserStepParts ==
  ASSUME MemoryInv, vmalloc_list' = vmalloc_list, kpt' = kpt,
         StackList', StacksMapped', onePageExits' \in Nat,
         NEW Y \in SUBSET Frames, Accounts(AllPages, Table(kpt', upt'), used', Reserved \cup Y),
         Cardinality(Y) + Cardinality(Leftover') <= onePageExits'
  PROVE  MemoryInv'
<1>1. RegionList' /\ RegionsMapped'
  BY DEF MemoryInv, RegionList, RegionsDisjoint, V!RegionsDisjoint, V!End, RegionsMapped
<1>2. Entries' = Table(kpt', upt')
  BY DEF Entries, Table
<1>3. LostAre(Y)'
  BY <1>2 DEF LostAre, Accounts, AllPages, V!Pages, U!Pages
<1> QED
  BY <1>1, <1>3 DEF MemoryInv

LEMMA FiniteFacts ==
  ASSUME StacksMapped
  PROVE  /\ \A X \in SUBSET Frames : IsFiniteSet(X) /\ Cardinality(X) \in Nat
         /\ IsFiniteSet(Leftover) /\ Cardinality(Leftover) \in Nat
<1>1. IsFiniteSet(Frames) /\ IsFiniteSet(U!Pages)
  BY PmmShape, MemoryShape, FS_Interval DEF Frames, U!Pages
<1>2. Leftover \subseteq U!Pages
  BY DEF Leftover
<1> QED
  BY <1>1, <1>2, FS_Subset, FS_CardinalityType

(* A frame is lost where a page that was left behind is mapped anew; that  *)
(* page then belongs to a thread again.                                    *)
LEMMA OneMoreLost ==
  ASSUME StacksMapped, NEW q \in U!Pages, q \notin FirstPages, NEW X \in SUBSET Frames,
         Leftover' = Leftover \ {q}
  PROVE  LET Y == X \cup ({upt[q]} \ {NotMapped})
         IN /\ Y \in SUBSET Frames
            /\ Cardinality(Y) + Cardinality(Leftover') <= Cardinality(X) + Cardinality(Leftover)
<1> DEFINE Y == X \cup ({upt[q]} \ {NotMapped})
<1>1. /\ IsFiniteSet(X) /\ Cardinality(X) \in Nat
      /\ IsFiniteSet(Leftover) /\ Cardinality(Leftover) \in Nat
  BY FiniteFacts
<1>2. Y \in SUBSET Frames
  BY DEF StacksMapped
<1>3. ASSUME upt[q] = NotMapped
      PROVE  Cardinality(Y) + Cardinality(Leftover') <= Cardinality(X) + Cardinality(Leftover)
  <2>1. Y = X /\ Leftover' = Leftover
    BY <1>3 DEF Leftover
  <2> HIDE DEF Y
  <2>2. Cardinality(Y) = Cardinality(X) /\ Cardinality(Leftover') = Cardinality(Leftover)
    BY <2>1
  <2> QED
    BY <1>1, <2>2
<1>4. ASSUME upt[q] # NotMapped
      PROVE  Cardinality(Y) + Cardinality(Leftover') <= Cardinality(X) + Cardinality(Leftover)
  <2>1. q \in Leftover /\ Y = X \cup {upt[q]}
    BY <1>4 DEF Leftover
  <2>2. Cardinality(Leftover \ {q}) = Cardinality(Leftover) - 1
    BY <1>1, <2>1, FS_RemoveElement
  <2>3. Cardinality(X \cup {upt[q]}) \in {Cardinality(X), Cardinality(X) + 1}
    BY <1>1, FS_AddElement
  <2> HIDE DEF Y
  <2> QED
    BY <1>1, <2>1, <2>2, <2>3
<1> QED
  BY <1>2, <1>3, <1>4

(* user_alloc_stack.                                                       *)
LEMMA NewUserStackStep ==
  ASSUME MemoryInv, NewUserStack
  PROVE  MemoryInv'
<1>1. /\ RegionList /\ RegionsMapped /\ StackList /\ StacksMapped /\ onePageExits \in Nat
      /\ kpt \in [V!Pages -> Frames \cup {NotMapped}]
      /\ upt \in [U!Pages -> Frames \cup {NotMapped}]
      /\ vmalloc_list' = vmalloc_list /\ kpt' = kpt /\ onePageExits' = onePageExits
  BY DEF MemoryInv, NewUserStack, RegionsMapped, StacksMapped
<1>2. PICK X \in SUBSET Frames : LostAre(X)
  BY DEF MemoryInv
<1>3. Accounts(AllPages, Entries, used, Reserved \cup X) /\ used \in SUBSET Frames
  BY <1>2 DEF LostAre, Accounts
<1>4. PICK size \in StackSizes : U!UserAllocStack(size)
  BY DEF NewUserStack
<1>5. StackList' /\ StacksMapped' /\ upt' \in [U!Pages -> Frames \cup {NotMapped}]
  BY <1>1, <1>3, <1>4, StackAddedPages DEF StacksMapped
<1>6. PICK q \in U!Pages : StackPageAdded(q)
  BY <1>1, <1>3, <1>4, StackAddedPages
<1> DEFINE x == <<"user", q>>
           N == {x}
           g == [y \in N |-> 1]
           f == Entries
           m == Table(kpt, [upt EXCEPT ![q] = NotMapped])
           h == Table(kpt', upt')
           Y == X \cup ({upt[q]} \ {NotMapped})
<1>7. /\ m \in [AllPages -> Frames \cup {NotMapped}] /\ h \in [AllPages -> Frames \cup {NotMapped}]
      /\ \A p \in V!Pages : /\ <<"kernel", p>> \in AllPages /\ f[<<"kernel", p>>] = kpt[p]
                            /\ m[<<"kernel", p>>] = kpt[p] /\ h[<<"kernel", p>>] = kpt[p]
      /\ \A p \in U!Pages : /\ <<"user", p>> \in AllPages /\ f[<<"user", p>>] = upt[p]
                            /\ m[<<"user", p>>] = IF p = q THEN NotMapped ELSE upt[p]
                            /\ h[<<"user", p>>] = upt'[p]
  <2> DEFINE u == [upt EXCEPT ![q] = NotMapped]
  <2>1. /\ u \in [U!Pages -> Frames \cup {NotMapped}]
        /\ \A p \in U!Pages : u[p] = IF p = q THEN NotMapped ELSE upt[p]
    BY <1>1
  <2> HIDE DEF u
  <2>2. /\ Table(kpt, u) \in [AllPages -> Frames \cup {NotMapped}]
        /\ \A p \in V!Pages : Table(kpt, u)[<<"kernel", p>>] = kpt[p]
        /\ \A p \in U!Pages : Table(kpt, u)[<<"user", p>>] = IF p = q THEN NotMapped ELSE upt[p]
    BY <1>1, <2>1, TableType
  <2>3. /\ \A p \in V!Pages : <<"kernel", p>> \in AllPages /\ f[<<"kernel", p>>] = kpt[p]
        /\ \A p \in U!Pages : <<"user", p>> \in AllPages /\ f[<<"user", p>>] = upt[p]
    BY <1>1, TableType DEF Entries
  <2>4. /\ h \in [AllPages -> Frames \cup {NotMapped}]
        /\ \A p \in V!Pages : h[<<"kernel", p>>] = kpt[p]
        /\ \A p \in U!Pages : h[<<"user", p>>] = upt'[p]
    BY <1>1, <1>5, TableType
  <2> QED
    BY <2>2, <2>3, <2>4 DEF u
<1>8. x \in AllPages /\ f[x] = upt[q]
  BY <1>7
<1> HIDE DEF f, m, h, g
<1>9. \A y \in AllPages : m[y] = IF y = x THEN NotMapped ELSE f[y]
  <2>1. ASSUME NEW p \in V!Pages PROVE <<"kernel", p>> # x /\ m[<<"kernel", p>>] = f[<<"kernel", p>>]
    BY <1>7, AllPagesFacts
  <2>2. ASSUME NEW p \in U!Pages
        PROVE  m[<<"user", p>>] = IF <<"user", p>> = x THEN NotMapped ELSE f[<<"user", p>>]
    BY <1>7, AllPagesFacts
  <2> HIDE DEF x
  <2> QED
    BY <2>1, <2>2, AllPagesFacts
<1>10. Accounts(AllPages, m, used, Reserved \cup Y)
  <2>1. Accounts(AllPages, f, used, Reserved \cup X)
    BY <1>3 DEF f
  <2> HIDE DEF x
  <2>2. Accounts(AllPages, m, used, (Reserved \cup X) \cup ({f[x]} \ {NotMapped}))
    BY <1>7, <1>8, <1>9, <2>1, AccountsDrop
  <2>3. (Reserved \cup X) \cup ({f[x]} \ {NotMapped}) = Reserved \cup Y
    BY <1>8
  <2> QED
    BY <2>2, <2>3
<1>11. \A y \in AllPages : h[y] = IF y \in N THEN AllocFrame(used, g[y]) ELSE m[y]
  <2>1. \A p \in U!Pages : upt'[p] = IF p = q THEN AllocFrame(used, 1) ELSE upt[p]
    BY <1>6 DEF StackPageAdded
  <2>2. ASSUME NEW p \in V!Pages
        PROVE  <<"kernel", p>> \notin N /\ h[<<"kernel", p>>] = m[<<"kernel", p>>]
    BY <1>7, AllPagesFacts
  <2>3. ASSUME NEW p \in U!Pages
        PROVE  h[<<"user", p>>] = IF <<"user", p>> \in N THEN AllocFrame(used, 1)
                                                         ELSE m[<<"user", p>>]
    BY <1>7, <2>1, AllPagesFacts
  <2>4. \A y \in N : g[y] = 1
    BY DEF g
  <2> HIDE DEF N
  <2> QED
    BY <2>2, <2>3, <2>4, AllPagesFacts
<1>12. Accounts(AllPages, h, AfterAlloc(used, 1), Reserved \cup Y)
  <2>1. /\ g \in [N -> 1..1] /\ \A y, z \in N : g[y] = g[z] => y = z
        /\ \A k \in 1..1 : \E y \in N : g[y] = k
        /\ 1 \in Nat /\ N \in SUBSET AllPages
    BY <1>8 DEF g
  <2>2. \A y \in N : m[y] = NotMapped
    BY <1>8, <1>9
  <2> HIDE DEF N, Y
  <2> QED
    BY <1>7, <1>10, <1>11, <2>1, <2>2, AccountsAlloc
<1>13. Accounts(AllPages, Table(kpt', upt'), used', Reserved \cup Y)
  BY <1>6, <1>12 DEF StackPageAdded, h
<1>14. Y \in SUBSET Frames /\ Cardinality(Y) + Cardinality(Leftover') <= onePageExits'
  <2>1. /\ Y \in SUBSET Frames
        /\ Cardinality(Y) + Cardinality(Leftover') <= Cardinality(X) + Cardinality(Leftover)
    BY <1>1, <1>6, OneMoreLost DEF StackPageAdded
  <2>2. Cardinality(X) + Cardinality(Leftover) <= onePageExits
    BY <1>2 DEF LostAre
  <2>3. Leftover' \subseteq Leftover
    BY <1>6 DEF StackPageAdded
  <2>4. /\ Cardinality(X) \in Nat /\ Cardinality(Leftover) \in Nat
        /\ Cardinality(Y) \in Nat /\ Cardinality(Leftover') \in Nat
    BY <1>1, <2>1, <2>3, FiniteFacts, FS_Subset, FS_CardinalityType
  <2> HIDE DEF Y
  <2> QED
    BY <1>1, <2>1, <2>2, <2>4
<1> HIDE DEF Y
<1> QED
  BY <1>1, <1>5, <1>13, <1>14, UserStepParts

(* user_free_stack.                                                        *)
LEMMA UserExitStep ==
  ASSUME MemoryInv, UserExit
  PROVE  MemoryInv'
<1>1. /\ RegionList /\ RegionsMapped /\ StackList /\ StacksMapped /\ onePageExits \in Nat
      /\ kpt \in [V!Pages -> Frames \cup {NotMapped}]
      /\ upt \in [U!Pages -> Frames \cup {NotMapped}]
      /\ vmalloc_list' = vmalloc_list /\ kpt' = kpt
  BY DEF MemoryInv, UserExit, RegionsMapped, StacksMapped
<1>2. PICK X \in SUBSET Frames : LostAre(X)
  BY DEF MemoryInv
<1>3. PICK k \in DOMAIN us_list :
        /\ U!UserFreeStack(k)
        /\ onePageExits' = onePageExits + (IF us_list[k].size = 1 THEN 1 ELSE 0)
  BY DEF UserExit
<1>4. StackList' /\ StacksMapped' /\ upt' \in [U!Pages -> Frames \cup {NotMapped}]
  BY <1>1, <1>3, StackFreedPages DEF StacksMapped
<1>5. PICK M \in SUBSET U!Pages : StackPagesFreed(k, M)
  BY <1>1, <1>3, StackFreedPages
<1> DEFINE R == Reserved \cup X
           N == {<<"user", p>> : p \in M}
           f == Entries
           h == Table(kpt', upt')
<1>6. /\ h \in [AllPages -> Frames \cup {NotMapped}]
      /\ \A p \in V!Pages : /\ <<"kernel", p>> \in AllPages
                            /\ f[<<"kernel", p>>] = kpt[p] /\ h[<<"kernel", p>>] = kpt[p]
      /\ \A p \in U!Pages : /\ <<"user", p>> \in AllPages
                            /\ f[<<"user", p>>] = upt[p] /\ h[<<"user", p>>] = upt'[p]
  BY <1>1, <1>4, TableType DEF Entries
<1>7. /\ N \in SUBSET AllPages
      /\ \A p \in U!Pages : <<"user", p>> \in N <=> p \in M
      /\ \A p \in V!Pages : <<"kernel", p>> \notin N
  BY <1>6, AllPagesFacts
<1>8. EntriesOf(upt, M) = EntriesOf(f, N)
  <2>1. \A p \in M : f[<<"user", p>>] = upt[p] /\ <<"user", p>> \in N
    BY <1>6
  <2>2. \A y \in N : \E p \in M : y = <<"user", p>>
    OBVIOUS
  <2> HIDE DEF N, f
  <2> QED
    BY <2>1, <2>2 DEF EntriesOf
<1> HIDE DEF N, f, h, R
<1>9. \A y \in AllPages : h[y] = IF y \in N THEN NotMapped ELSE f[y]
  <2>1. ASSUME NEW p \in U!Pages
        PROVE  h[<<"user", p>>] = IF <<"user", p>> \in N THEN NotMapped ELSE f[<<"user", p>>]
    BY <1>5, <1>6, <1>7 DEF StackPagesFreed
  <2> QED
    BY <1>6, <1>7, <2>1, AllPagesFacts
<1>10. Accounts(AllPages, h, AfterFree(used, EntriesOf(f, N)), R)
  <2>1. Accounts(AllPages, f, used, R)
    BY <1>2 DEF LostAre, f, R
  <2> QED
    BY <1>6, <1>7, <1>9, <2>1, AccountsFree
<1>11. Accounts(AllPages, Table(kpt', upt'), used', Reserved \cup X)
  BY <1>5, <1>8, <1>10 DEF StackPagesFreed, h, R
<1>12. Cardinality(X) + Cardinality(Leftover') <= onePageExits' /\ onePageExits' \in Nat
  <2> DEFINE l == Cardinality(Leftover)
             one == us_list[k].size = 1
  <2>1. /\ IsFiniteSet(Leftover) /\ l \in Nat /\ Cardinality(X) \in Nat
    BY <1>1, FiniteFacts
  <2>2. Leftover' \subseteq Leftover \cup (IF one THEN {us_list[k].base - 1} ELSE {})
    BY <1>5 DEF StackPagesFreed
  <2>3. CASE one
    <3> DEFINE b == us_list[k].base - 1
    <3>1. Leftover' \subseteq Leftover \cup {b}
      BY <2>2, <2>3
    <3> HIDE DEF b
    <3>2. /\ IsFiniteSet(Leftover \cup {b})
          /\ Cardinality(Leftover \cup {b}) \in {l, l + 1}
      BY <2>1, FS_AddElement
    <3>3. Cardinality(Leftover') \in Nat /\ Cardinality(Leftover') <= l + 1
      BY <2>1, <3>1, <3>2, FS_Subset, FS_CardinalityType
    <3> QED
      BY <1>1, <1>2, <1>3, <2>1, <2>3, <3>3 DEF LostAre
  <2>4. CASE ~one
    <3>1. Cardinality(Leftover') \in Nat /\ Cardinality(Leftover') <= l
      BY <2>1, <2>2, <2>4, FS_Subset, FS_CardinalityType
    <3> QED
      BY <1>1, <1>2, <1>3, <2>1, <2>4, <3>1 DEF LostAre
  <2> QED
    BY <2>3, <2>4
<1> QED
  BY <1>1, <1>4, <1>11, <1>12, UserStepParts

(* The invariant holds in every state.                                     *)
THEOREM MemoryInductive == Spec => []MemoryInv
<1>1. Init => MemoryInv
  BY InitMemory
<1>2. MemoryInv /\ [Next]_vars => MemoryInv'
  <2> SUFFICES ASSUME MemoryInv, [Next]_vars PROVE MemoryInv'
    OBVIOUS
  <2>1. CASE UNCHANGED vars
    <3>1. /\ vmalloc_list' = vmalloc_list /\ kpt' = kpt /\ us_list' = us_list
          /\ upt' = upt /\ used' = used /\ onePageExits' = onePageExits
      BY <2>1 DEF vars
    <3>2. StackList' /\ StacksMapped' /\ onePageExits' \in Nat /\ Leftover' = Leftover
      BY <3>1 DEF MemoryInv, StackList, StacksDisjoint, U!StacksDisjoint, U!Low, StacksMapped,
                  LargeStacksMapped, Leftover, FirstPages, ToSet
    <3>3. PICK X \in SUBSET Frames : LostAre(X)
      BY DEF MemoryInv
    <3>4. /\ Accounts(AllPages, Table(kpt', upt'), used', Reserved \cup X)
          /\ Cardinality(X) + Cardinality(Leftover') <= onePageExits'
      BY <3>1, <3>2, <3>3 DEF LostAre, Entries
    <3> QED
      BY <3>1, <3>2, <3>4, UserStepParts
  <2>2. CASE KernelRegion
    BY <2>2, KernelStep
  <2>3. CASE NewUserStack
    BY <2>3, NewUserStackStep
  <2>4. CASE UserExit
    BY <2>4, UserExitStep
  <2> QED
    BY <2>1, <2>2, <2>3, <2>4 DEF Next
<1> QED
  BY <1>1, <1>2, PTL DEF Spec

(* Whatever is allocated and freed, and whether memory runs out or not,    *)
(* vm_add_to_list gives no address out twice.                              *)
THEOREM RegionsNeverOverlap == Spec => []RegionsDisjoint
<1>1. MemoryInv => RegionsDisjoint
  BY DEF MemoryInv, RegionList
<1> QED
  BY <1>1, MemoryInductive, PTL

(* Nor does us_add_to_list.                                                *)
THEOREM StacksNeverOverlap == Spec => []StacksDisjoint
<1>1. MemoryInv => StacksDisjoint
  BY DEF MemoryInv, StackList
<1> QED
  BY <1>1, MemoryInductive, PTL

(* user_free_stack takes no page from another thread of the process whose  *)
(* stack has two pages or more, whatever the size of the freed one.        *)
THEOREM StacksSurvive == Spec => []LargeStacksMapped
<1>1. MemoryInv => LargeStacksMapped
  BY DEF MemoryInv, StacksMapped
<1> QED
  BY <1>1, MemoryInductive, PTL

(* What the entries say about the two page tables apart.                   *)
LEMMA AccountsParts ==
  ASSUME MemoryInv
  PROVE  /\ {Entries[x] : x \in AllPages} \ {NotMapped} = KernelMapped \cup UserMapped
         /\ \A p, q \in V!Pages : p # q /\ kpt[p] = kpt[q] => kpt[p] \in {0, NotMapped}
         /\ \A p, q \in U!Pages : p # q /\ upt[p] = upt[q] => upt[p] \in {0, NotMapped}
         /\ \A p \in V!Pages, q \in U!Pages : kpt[p] = upt[q] => kpt[p] \in {0, NotMapped}
<1>1. /\ \A p \in V!Pages : <<"kernel", p>> \in AllPages /\ Entries[<<"kernel", p>>] = kpt[p]
      /\ \A p \in U!Pages : <<"user", p>> \in AllPages /\ Entries[<<"user", p>>] = upt[p]
  BY TableType DEF MemoryInv, RegionsMapped, StacksMapped, Entries
<1>2. \A x, y \in AllPages : Entries[x] = Entries[y] => x = y \/ Entries[x] \in {0, NotMapped}
  BY DEF MemoryInv, LostAre, Accounts
<1> DEFINE E == {Entries[x] : x \in AllPages}
<1>3. /\ \A p \in V!Pages : kpt[p] \in E
      /\ \A p \in U!Pages : upt[p] \in E
  BY <1>1
<1>4. \A e \in E : (\E p \in V!Pages : e = kpt[p]) \/ (\E p \in U!Pages : e = upt[p])
  <2> SUFFICES ASSUME NEW x \in AllPages
               PROVE  \/ \E p \in V!Pages : Entries[x] = kpt[p]
                      \/ \E p \in U!Pages : Entries[x] = upt[p]
    OBVIOUS
  <2>1. \/ \E p \in V!Pages : x = <<"kernel", p>>
        \/ \E p \in U!Pages : x = <<"user", p>>
    BY AllPagesFacts
  <2> QED
    BY <1>1, <2>1
<1> HIDE DEF E
<1>5. E \ {NotMapped} = KernelMapped \cup UserMapped
  BY <1>3, <1>4 DEF KernelMapped, UserMapped
<1>6. \A p, q \in V!Pages : p # q /\ kpt[p] = kpt[q] => kpt[p] \in {0, NotMapped}
  <2> SUFFICES ASSUME NEW p \in V!Pages, NEW q \in V!Pages, p # q, kpt[p] = kpt[q]
               PROVE  kpt[p] \in {0, NotMapped}
    OBVIOUS
  <2>1. <<"kernel", p>> # <<"kernel", q>>
    BY AllPagesFacts
  <2> QED
    BY <1>1, <1>2, <2>1
<1>7. \A p, q \in U!Pages : p # q /\ upt[p] = upt[q] => upt[p] \in {0, NotMapped}
  <2> SUFFICES ASSUME NEW p \in U!Pages, NEW q \in U!Pages, p # q, upt[p] = upt[q]
               PROVE  upt[p] \in {0, NotMapped}
    OBVIOUS
  <2>1. <<"user", p>> # <<"user", q>>
    BY AllPagesFacts
  <2> QED
    BY <1>1, <1>2, <2>1
<1>8. \A p \in V!Pages, q \in U!Pages : kpt[p] = upt[q] => kpt[p] \in {0, NotMapped}
  <2> SUFFICES ASSUME NEW p \in V!Pages, NEW q \in U!Pages, kpt[p] = upt[q]
               PROVE  kpt[p] \in {0, NotMapped}
    OBVIOUS
  <2>1. <<"kernel", p>> # <<"user", q>>
    BY AllPagesFacts
  <2> QED
    BY <1>1, <1>2, <2>1
<1> QED
  BY <1>5, <1>6, <1>7, <1>8 DEF E

(* Every byte of every region is mapped, and but for frame 0 no frame is   *)
(* behind two pages, the kernel's or a process's.                          *)
THEOREM RegionsBacked == Spec => []Backed
<1>1. ASSUME MemoryInv PROVE Backed
  <2>1. ASSUME NEW r \in V!ToSet(vmalloc_list), NEW a \in r.base..(V!End(r) - 1)
        PROVE  V!PageOf(a) \in V!Pages /\ kpt[V!PageOf(a)] # V!NotMapped
    <3>1. PICK k \in DOMAIN vmalloc_list : r = vmalloc_list[k]
      BY DEF V!ToSet
    <3>2. r \in Regions
      BY <1>1, <3>1 DEF MemoryInv, RegionList
    <3>3. V!PageOf(a) \in RPages(r) /\ RPages(r) \subseteq V!Pages
      BY <3>2, RegionFacts
    <3> QED
      BY <1>1, <3>1, <3>3, SamePmm DEF MemoryInv, RegionsMapped
  <2>2. \A p, q \in V!Pages : (p # q /\ kpt[p] # V!NotMapped) => kpt[p] # kpt[q] \/ kpt[p] = 0
    BY <1>1, AccountsParts, SamePmm
  <2>3. KernelMapped \cap UserMapped \subseteq {0}
    BY <1>1, AccountsParts DEF KernelMapped, UserMapped
  <2>4. \A p, q \in U!Pages : (p # q /\ upt[p] # NotMapped) => upt[p] # upt[q] \/ upt[p] = 0
    BY <1>1, AccountsParts
  <2>5. V!Backed
    BY <2>1, <2>2 DEF V!Backed
  <2> QED
    BY <2>3, <2>4, <2>5 DEF Backed
<1> QED
  BY <1>1, MemoryInductive, PTL

(* But for frame 0, no frame that is mapped or reserved is ever free, and  *)
(* for any sizes at most one is lost by each exit of a thread with a stack *)
(* of one page; where stacks are larger the bitmap is exact.               *)
THEOREM NoFrameLost == Spec => []FramesAccounted
<1>1. ASSUME MemoryInv PROVE FramesAccounted
  <2> DEFINE E == {Entries[x] : x \in AllPages}
             inUse == (Reserved \cup KernelMapped \cup UserMapped) \ {0}
  <2>1. PICK X \in SUBSET Frames : LostAre(X)
    BY <1>1 DEF MemoryInv
  <2>2. used \ {0} = (Reserved \cup X \cup E) \ {0, NotMapped} /\ used \in SUBSET Frames
    BY <2>1 DEF LostAre, Accounts
  <2>3. E \ {NotMapped} = KernelMapped \cup UserMapped
    BY <1>1, AccountsParts
  <2>4. NotMapped \notin Reserved /\ NotMapped \notin Frames
    BY PmmShape DEF NotMapped, Frames
  <2> HIDE DEF E
  <2>5. inUse \subseteq used /\ used \ (inUse \cup {0}) \subseteq X
    BY <2>2, <2>3, <2>4
  <2>6. IsFiniteSet(X) /\ Cardinality(X) \in Nat /\ Cardinality(Leftover) \in Nat
    BY <1>1, FiniteFacts DEF MemoryInv
  <2> HIDE DEF inUse
  <2>7. Cardinality(used \ (inUse \cup {0})) <= Cardinality(X)
    BY <2>5, <2>6, FS_Subset
  <2>8. Cardinality(used \ (inUse \cup {0})) \in Nat
    BY <2>5, <2>6, FS_Subset, FS_CardinalityType
  <2>9. onePageExits \in Nat /\ Cardinality(X) + Cardinality(Leftover) <= onePageExits
    BY <1>1, <2>1 DEF MemoryInv, LostAre
  <2>10. Cardinality(used \ (inUse \cup {0})) <= onePageExits
    BY <2>6, <2>7, <2>8, <2>9
  <2> QED
    BY <2>5, <2>10 DEF FramesAccounted, inUse
<1> QED
  BY <1>1, MemoryInductive, PTL
=============================================================================
