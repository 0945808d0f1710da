--------------------------- MODULE SchedulerLists ---------------------------
(***************************************************************************)
(* The three linked structures of the scheduler (the ready ring, the queue *)
(* of a mutex, the chains of dead threads) as shapes of a successor        *)
(* function, and lemmas on what the list operations do to them. That a     *)
(* structure reaches all its members is said with closed sets, so that no  *)
(* induction is needed: no proper part of the members holds the head and   *)
(* is closed under the successor.                                          *)
(***************************************************************************)
EXTENDS Scheduler, NatSets, SequenceTheorems, TLAPS

(* nx and pv link the set M into one circular doubly linked list that can  *)
(* be entered at hd. That it is one cycle and not several is the last      *)
(* conjunct: no proper part of M holds hd and is closed under nx.          *)
RingShape(nx, pv, hd, M) ==
  /\ hd \in M
  /\ \A t \in M : nx[t] \in M /\ pv[t] \in M /\ pv[nx[t]] = t /\ nx[pv[t]] = t
  /\ \A S \in SUBSET M : (hd \in S /\ \A y \in S : nx[y] \in S) => S = M

(* The chain from the head of a ring is the whole ring.                    *)
LEMMA RingReach ==
  ASSUME NEW nx, NEW pv, NEW hd, NEW M \in SUBSET DOMAIN nx,
         NULL \notin M, RingShape(nx, pv, hd, M)
  PROVE  Reach(nx, hd) = M
<1>1. hd \in M /\ hd # NULL /\ \A t \in M : nx[t] \in M
  BY DEF RingShape
<1>2. ASSUME NEW x \in M PROVE x \in Reach(nx, hd)
  <2>1. SUFFICES ASSUME NEW S \in SUBSET DOMAIN nx, hd \in S,
                        \A y \in S : nx[y] # NULL => nx[y] \in S
                 PROVE  x \in S
    BY <1>1 DEF Reach
  <2>2. S \cap M \in SUBSET M /\ hd \in S \cap M
    BY <1>1, <2>1
  <2>3. \A y \in S \cap M : nx[y] \in S \cap M
    BY <1>1, <2>1
  <2>4. S \cap M = M
    BY <2>2, <2>3 DEF RingShape
  <2> QED
    BY <2>4
<1>3. ASSUME NEW x \in Reach(nx, hd) PROVE x \in M
  <2>1. \A S \in SUBSET DOMAIN nx :
          (hd \in S /\ \A y \in S : nx[y] # NULL => nx[y] \in S) => x \in S
    BY <1>1 DEF Reach
  <2> QED
    BY <1>1, <2>1
<1> QED
  BY <1>2, <1>3

(* A ring with a member that is its own successor has no other member.     *)
LEMMA RingAlone ==
  ASSUME NEW nx, NEW pv, NEW hd, NEW M, RingShape(nx, pv, hd, M),
         NEW t \in M, nx[t] = t
  PROVE  M = {t}
<1>1. \A y \in M : nx[y] \in M /\ pv[nx[y]] = y
  BY DEF RingShape
<1>2. CASE hd = t
  <2>1. {t} \in SUBSET M /\ \A y \in {t} : nx[y] \in {t}
    OBVIOUS
  <2> QED
    BY <1>2, <2>1 DEF RingShape
<1>3. CASE hd # t
  <2>1. M \ {t} \in SUBSET M /\ hd \in M \ {t}
    BY <1>3 DEF RingShape
  <2>2. \A y \in M \ {t} : nx[y] \in M \ {t}
    BY <1>1
  <2>3. M \ {t} = M
    BY <2>1, <2>2 DEF RingShape
  <2> QED
    BY <2>3
<1> QED
  BY <1>2, <1>3

(* enqueue_thread: linking t in front of the head keeps the ring one.      *)
LEMMA RingInsert ==
  ASSUME NEW T, NEW nx \in [T -> Null(T)], NEW pv \in [T -> Null(T)],
         NEW hd, NEW M \in SUBSET T, NULL \notin T,
         RingShape(nx, pv, hd, M), NEW t \in T \ M
  PROVE  RingShape([nx EXCEPT ![pv[hd]] = t, ![t] = hd],
                   [pv EXCEPT ![hd] = t, ![t] = pv[hd]], hd, M \cup {t})
<1> DEFINE nx1 == [nx EXCEPT ![pv[hd]] = t, ![t] = hd]
           pv1 == [pv EXCEPT ![hd] = t, ![t] = pv[hd]]
           M1 == M \cup {t}
           tail == pv[hd]
<1>1. hd \in M /\ tail \in M /\ nx[tail] = hd /\ t \notin M
  BY DEF RingShape
<1>2. \A y \in M : nx[y] \in M /\ pv[y] \in M /\ pv[nx[y]] = y /\ nx[pv[y]] = y
  BY DEF RingShape
<1>3. /\ nx1[t] = hd /\ nx1[tail] = t
      /\ pv1[t] = tail /\ pv1[hd] = t
      /\ \A y \in M : y # tail => nx1[y] = nx[y]
      /\ \A y \in M : y # hd => pv1[y] = pv[y]
  BY <1>1
<1>4. \A y \in M1 : nx1[y] \in M1 /\ pv1[y] \in M1 /\ pv1[nx1[y]] = y /\ nx1[pv1[y]] = y
  <2>1. ASSUME NEW y \in M, y # tail
        PROVE  nx1[y] \in M1 /\ pv1[nx1[y]] = y
    <3>1. nx1[y] = nx[y] /\ nx[y] \in M /\ nx[y] # hd
      BY <1>1, <1>2, <1>3, <2>1
    <3> QED
      BY <1>2, <1>3, <3>1
  <2>2. ASSUME NEW y \in M, y # hd
        PROVE  pv1[y] \in M1 /\ nx1[pv1[y]] = y
    <3>1. pv1[y] = pv[y] /\ pv[y] \in M /\ pv[y] # tail
      BY <1>1, <1>2, <1>3, <2>2
    <3> QED
      BY <1>2, <1>3, <3>1
  <2> QED
    BY <1>1, <1>3, <2>1, <2>2
<1>5. ASSUME NEW S \in SUBSET M1, hd \in S, \A y \in S : nx1[y] \in S
      PROVE  S = M1
  <2> DEFINE R == S \ {t}
  <2>1. R \in SUBSET M /\ hd \in R
    BY <1>1, <1>5
  <2>2. ASSUME NEW y \in R PROVE nx[y] \in R
    <3>1. CASE y = tail
      BY <1>1, <2>1, <3>1
    <3>2. CASE y # tail
      BY <1>1, <1>2, <1>3, <1>5, <2>1, <3>2
    <3> QED
      BY <3>1, <3>2
  <2>3. R = M
    <3> HIDE DEF R
    <3> QED
      BY <2>1, <2>2 DEF RingShape
  <2>4. t \in S
    BY <1>1, <1>3, <1>5, <2>3
  <2> QED
    BY <2>3, <2>4
<1>6. hd \in M1
  BY <1>1
<1> HIDE DEF nx1, pv1, M1
<1>7. RingShape(nx1, pv1, hd, M1)
  BY <1>4, <1>5, <1>6 DEF RingShape
<1> QED
  BY <1>7 DEF nx1, pv1, M1

(* dequeue_thread: unlinking one of several threads leaves one ring, also  *)
(* when the thread is the head. What t's own fields then hold is free.     *)
LEMMA RingRemove ==
  ASSUME NEW nx, NEW pv, NEW hd, NEW M, RingShape(nx, pv, hd, M),
         NEW t \in M, nx[t] # t,
         NEW nx1, nx1[pv[t]] = nx[t],
         \A y \in M \ {t} : y # pv[t] => nx1[y] = nx[y],
         NEW pv1, pv1[nx[t]] = pv[t],
         \A y \in M \ {t} : y # nx[t] => pv1[y] = pv[y]
  PROVE  RingShape(nx1, pv1, IF hd = t THEN nx[t] ELSE hd, M \ {t})
<1> DEFINE M1 == M \ {t}
           hd1 == IF hd = t THEN nx[t] ELSE hd
           p == pv[t]
           n == nx[t]
<1>1. \A y \in M : nx[y] \in M /\ pv[y] \in M /\ pv[nx[y]] = y /\ nx[pv[y]] = y
  BY DEF RingShape
<1>2. hd \in M /\ p \in M1 /\ n \in M1 /\ nx[p] = t /\ pv[n] = t
  BY <1>1 DEF RingShape
<1>3. /\ nx1[p] = n /\ pv1[n] = p
      /\ \A y \in M1 : y # p => nx1[y] = nx[y]
      /\ \A y \in M1 : y # n => pv1[y] = pv[y]
  BY <1>2
<1>4. hd1 \in M1
  BY <1>2
<1>5. \A y \in M1 : nx1[y] \in M1 /\ pv1[y] \in M1 /\ pv1[nx1[y]] = y /\ nx1[pv1[y]] = y
  <2>1. ASSUME NEW y \in M1, y # p
        PROVE  nx1[y] \in M1 /\ pv1[nx1[y]] = y
    <3>1. nx1[y] = nx[y] /\ nx[y] \in M /\ nx[y] # t /\ nx[y] # n
      BY <1>1, <1>2, <1>3, <2>1
    <3> QED
      BY <1>1, <1>3, <3>1
  <2>2. ASSUME NEW y \in M1, y # n
        PROVE  pv1[y] \in M1 /\ nx1[pv1[y]] = y
    <3>1. pv1[y] = pv[y] /\ pv[y] \in M /\ pv[y] # t /\ pv[y] # p
      BY <1>1, <1>2, <1>3, <2>2
    <3> QED
      BY <1>1, <1>3, <3>1
  <2> QED
    BY <1>2, <1>3, <2>1, <2>2
<1>6. ASSUME NEW S \in SUBSET M1, hd1 \in S, \A y \in S : nx1[y] \in S
      PROVE  S = M1
  <2>1. CASE n \in S
    <3> DEFINE R == S \cup {t}
    <3>1. R \in SUBSET M /\ hd \in R
      BY <1>2, <1>6
    <3>2. ASSUME NEW y \in R PROVE nx[y] \in R
      <4>1. CASE y = t
        BY <2>1, <4>1
      <4>2. CASE y # t /\ y = p
        BY <1>2, <4>2
      <4>3. CASE y # t /\ y # p
        BY <1>3, <1>6, <4>3
      <4> QED
        BY <4>1, <4>2, <4>3
    <3>3. R = M
      <4> HIDE DEF R
      <4> QED
        BY <3>1, <3>2 DEF RingShape
    <3> QED
      BY <3>3, <1>6
  <2>2. CASE n \notin S
    <3>1. hd \in S /\ p \notin S
      BY <1>3, <1>6, <2>2
    <3>2. S \in SUBSET M /\ \A y \in S : nx[y] \in S
      BY <1>3, <1>6, <3>1
    <3>3. S = M
      BY <3>1, <3>2 DEF RingShape
    <3> QED
      BY <1>2, <3>1, <3>3
  <2> QED
    BY <2>1, <2>2
<1> HIDE DEF M1, hd1
<1>7. RingShape(nx1, pv1, hd1, M1)
  BY <1>4, <1>5, <1>6 DEF RingShape
<1> QED
  BY <1>7 DEF M1, hd1

-----------------------------------------------------------------------------
(* The ring as the sequence of its members.                                *)

(* q lists the members M of the ring of nx once each, from the head on.    *)
IsRing(q, nx, hd, M) ==
  /\ q \in Seq(M) /\ Len(q) >= 1
  /\ q[1] = hd
  /\ \A t \in M : \E i \in 1..Len(q) : q[i] = t
  /\ \A i, j \in 1..Len(q) : q[i] = q[j] => i = j
  /\ \A i \in 1..Len(q) : nx[q[i]] = IF i = Len(q) THEN hd ELSE q[i+1]

(* Such a list is as long as the ring has members.                         *)
LEMMA RingCount ==
  ASSUME NEW q, NEW nx, NEW hd, NEW M, IsRing(q, nx, hd, M)
  PROVE  /\ Len(q) \in Nat \ {0} /\ q \in [1..Len(q) -> M] /\ hd \in M
         /\ Cardinality(M) = Len(q)
<1>1. Len(q) \in Nat \ {0} /\ q \in [1..Len(q) -> M]
  <2>1. q \in Seq(M) /\ Len(q) >= 1
    BY DEF IsRing
  <2> QED
    BY <2>1, LenProperties
<1>2. q \in Surjection(1..Len(q), M) /\ q \in Injection(1..Len(q), M)
  BY <1>1 DEF IsRing, Surjection, Injection, IsInjective
<1>3. IsFiniteSet(1..Len(q)) /\ Cardinality(1..Len(q)) = Len(q)
  BY <1>1, FS_Interval
<1>4. Cardinality(M) = Cardinality(1..Len(q))
  BY <1>2, <1>3, FS_Surjection
<1>5. hd \in M
  <2>1. 1 \in 1..Len(q)
    BY <1>1
  <2> QED
    BY <1>1, <2>1 DEF IsRing
<1> QED
  BY <1>1, <1>3, <1>4, <1>5

(* The walk along next meets the list's elements in order and comes back.  *)
LEMMA RingWalkIs ==
  ASSUME NEW q, IsRing(q, next, ready_list_head, Members)
  PROVE  /\ \A k \in 0..(Len(q) - 1) : RingWalk[k] = q[k+1]
         /\ RingWalk[Len(q)] = ready_list_head
<1> DEFINE L == Len(q)
           C == Cardinality(Members)
           hd == ready_list_head
           nx == next
           walk == [k \in 0..L |-> IF k = L THEN hd ELSE q[k+1]]
<1>1. L \in Nat \ {0} /\ C = L
  BY RingCount
<1>2. /\ q[1] = hd
      /\ \A i \in 1..L : nx[q[i]] = IF i = L THEN hd ELSE q[i+1]
  BY DEF IsRing
<1>3. walk = [k \in 0..C |-> IF k = 0 THEN hd ELSE nx[walk[k-1]]]
  <2>1. \A k \in 0..L : walk[k] = IF k = 0 THEN hd ELSE nx[walk[k-1]]
    <3> TAKE k \in 0..L
    <3>1. CASE k = 0
      BY <1>1, <1>2, <3>1
    <3>2. CASE k # 0
      <4>1. k \in 1..L /\ k - 1 \in 0..L /\ k - 1 # L /\ (k - 1) + 1 = k
        BY <1>1, <3>2
      <4>2. walk[k-1] = q[k]
        BY <4>1
      <4>3. walk[k] = nx[q[k]]
        BY <1>2, <4>1
      <4> QED
        BY <3>2, <4>2, <4>3
    <3> QED
      BY <3>1, <3>2
  <2> QED
    BY <1>1, <2>1
<1>4. RingWalk = [k \in 0..C |-> IF k = 0 THEN hd ELSE nx[RingWalk[k-1]]]
  <2> HIDE DEF walk
  <2> QED
    BY <1>3 DEF RingWalk
<1> HIDE DEF C, walk, hd, nx
<1>5. RingWalk[0] = hd /\ \A k \in 1..L : RingWalk[k] = nx[RingWalk[k-1]]
  BY <1>1, <1>4
<1>6. ASSUME NEW k \in 0..(L - 1), RingWalk[k] # q[k+1] PROVE FALSE
  <2> DEFINE S == {j \in 0..(L - 1) : RingWalk[j] # q[j+1]}
  <2>1. S \in SUBSET Nat /\ S # {}
    BY <1>1, <1>6
  <2> DEFINE m == Min(S)
  <2>2. m \in S /\ \A y \in S : m <= y
    BY <2>1, MinIsLeast
  <2> HIDE DEF m
  <2>3. m # 0
    BY <1>1, <1>2, <1>5, <2>2
  <2>4. m - 1 \in 0..(L - 1) /\ m - 1 \notin S /\ m \in 1..L /\ m # L
    BY <1>1, <2>2, <2>3
  <2>5. RingWalk[m - 1] = q[m]
    BY <1>1, <2>4
  <2>6. RingWalk[m] = q[m+1]
    BY <1>2, <1>5, <2>4, <2>5
  <2> QED
    BY <2>2, <2>6
<1>7. RingWalk[L] = hd
  <2>1. L \in 1..L /\ L - 1 \in 0..(L - 1) /\ (L - 1) + 1 = L
    BY <1>1
  <2>2. RingWalk[L - 1] = q[L]
    BY <1>6, <2>1
  <2> QED
    BY <1>2, <1>5, <2>1, <2>2
<1> QED
  BY <1>6, <1>7 DEF hd

(* So the list is Ring: there is only one.                                 *)
RingUnique == \A q : IsRing(q, next, ready_list_head, Members) => Ring = q

LEMMA RingIs == RingUnique
<1> SUFFICES ASSUME NEW q, IsRing(q, next, ready_list_head, Members) PROVE Ring = q
  BY DEF RingUnique
<1> DEFINE L == Len(q)
           hd == ready_list_head
           P(k) == RingWalk[k] = hd /\ \A j \in 1..(k-1) : RingWalk[j] # hd
<1>1. L \in Nat \ {0} /\ Cardinality(Members) = L /\ q \in [1..L -> Members]
  BY RingCount
<1>2. q[1] = hd /\ \A i, j \in 1..L : q[i] = q[j] => i = j
  BY DEF IsRing
<1>3. (\A k \in 0..(L - 1) : RingWalk[k] = q[k+1]) /\ RingWalk[L] = hd
  BY RingWalkIs
<1> HIDE DEF L, hd
<1>4. \A j \in 1..(L-1) : RingWalk[j] # hd
  <2> SUFFICES ASSUME NEW j \in 1..(L-1), RingWalk[j] = hd PROVE FALSE
    OBVIOUS
  <2>1. j \in 0..(L-1) /\ j + 1 \in 1..L /\ 1 \in 1..L /\ j + 1 # 1
    BY <1>1
  <2>2. q[j+1] = q[1]
    BY <1>2, <1>3, <2>1
  <2> QED
    BY <1>2, <2>1, <2>2
<1>5. L \in 1..L /\ P(L)
  BY <1>1, <1>3, <1>4
<1>6. \A k \in 1..L : P(k) => k = L
  BY <1>1, <1>4
<1>7. RingLength = L
  BY <1>1, <1>5, <1>6 DEF RingLength, hd
<1>8. Ring = [k \in 1..L |-> RingWalk[k-1]]
  BY <1>7 DEF Ring
<1>9. \A k \in 1..L : RingWalk[k-1] = q[k]
  <2> TAKE k \in 1..L
  <2>1. k - 1 \in 0..(L - 1) /\ (k - 1) + 1 = k
    BY <1>1
  <2> QED
    BY <1>3, <2>1
<1> QED
  BY <1>1, <1>8, <1>9

(* The same of the next state.                                             *)
LEMMA RingIsNext ==
  ASSUME NEW q, IsRing(q, next', ready_list_head', Members')
  PROVE  Ring' = q
<1>1. RingUnique'
  BY RingIs, PTL
<1> QED
  BY <1>1 DEF RingUnique

(* enqueue_thread puts t at the end of the list.                           *)
LEMMA RingAppend ==
  ASSUME NEW q, NEW T, NEW nx \in [T -> Null(T)], NEW pv, NEW hd, NEW M \in SUBSET T,
         IsRing(q, nx, hd, M), RingShape(nx, pv, hd, M), NEW t \in T \ M
  PROVE  IsRing(Append(q, t), [nx EXCEPT ![pv[hd]] = t, ![t] = hd], hd, M \cup {t})
<1> DEFINE L == Len(q)
           tail == pv[hd]
           nx1 == [nx EXCEPT ![tail] = t, ![t] = hd]
           q1 == Append(q, t)
<1>1. L \in Nat \ {0} /\ q \in [1..L -> M] /\ hd \in M
  BY RingCount
<1>2. /\ q[1] = hd
      /\ \A m \in M : \E i \in 1..L : q[i] = m
      /\ \A i, j \in 1..L : q[i] = q[j] => i = j
      /\ \A i \in 1..L : nx[q[i]] = IF i = L THEN hd ELSE q[i+1]
  BY DEF IsRing
<1>3. tail \in M /\ nx[tail] = hd
  BY <1>1 DEF RingShape
<1>4. q \in Seq(M \cup {t}) /\ t \in M \cup {t}
  <2>1. q \in Seq(M)
    BY DEF IsRing
  <2> QED
    BY <2>1, SeqMonotonic
<1>5. q1 \in Seq(M \cup {t}) /\ Len(q1) = L + 1
      /\ q1[L+1] = t /\ \A i \in 1..L : q1[i] = q[i]
  BY <1>1, <1>4
<1>6. tail = q[L]
  <2>1. PICK i \in 1..L : q[i] = tail
    BY <1>2, <1>3
  <2>2. ASSUME i # L PROVE FALSE
    <3>1. i + 1 \in 1..L /\ 1 \in 1..L /\ i + 1 # 1
      <4> HIDE DEF L
      <4> QED
        BY <1>1, <2>1, <2>2
    <3>2. q[i+1] = q[1]
      BY <1>2, <1>3, <2>1, <2>2
    <3> QED
      BY <1>2, <3>1, <3>2
  <2> QED
    BY <2>1, <2>2
<1>7. nx1[t] = hd /\ nx1[tail] = t /\ \A y \in M : y # tail => nx1[y] = nx[y]
  BY <1>3
<1> HIDE DEF L, q1, nx1, tail
<1>8. ASSUME NEW m \in M \cup {t} PROVE \E i \in 1..(L+1) : q1[i] = m
  <2>1. CASE m = t
    <3>1. L + 1 \in 1..(L+1)
      BY <1>1
    <3> QED
      BY <1>5, <2>1, <3>1
  <2>2. CASE m \in M
    <3>1. PICK i \in 1..L : q[i] = m
      BY <1>2, <2>2
    <3>2. i \in 1..(L+1)
      BY <1>1
    <3> QED
      BY <1>5, <3>1, <3>2
  <2> QED
    BY <2>1, <2>2
<1>9. \A i, j \in 1..(L+1) : q1[i] = q1[j] => i = j
  <2>1. \A i \in 1..L : q1[i] \in M
    BY <1>1, <1>5
  <2>2. \A i \in 1..(L+1) : i \in 1..L \/ i = L+1
    BY <1>1
  <2> QED
    BY <1>2, <1>5, <2>1, <2>2
<1>10. ASSUME NEW i \in 1..(L+1)
       PROVE  nx1[q1[i]] = IF i = L+1 THEN hd ELSE q1[i+1]
  <2>1. CASE i = L+1
    BY <1>5, <1>7, <2>1
  <2>2. CASE i = L
    <3>1. i # L+1 /\ i \in 1..L
      BY <1>1, <2>2
    <3> QED
      BY <1>5, <1>6, <1>7, <2>2, <3>1
  <2>3. CASE i # L /\ i # L+1
    <3>1. i \in 1..L /\ L \in 1..L /\ i + 1 \in 1..L
      BY <1>1, <2>3
    <3>2. q1[i] = q[i] /\ q1[i+1] = q[i+1] /\ q[i] \in M
      BY <1>1, <1>5, <3>1
    <3>3. q[i] # tail
      BY <1>2, <1>6, <2>3, <3>1
    <3>4. nx1[q[i]] = nx[q[i]]
      BY <1>7, <3>2, <3>3
    <3> QED
      BY <1>2, <2>3, <3>1, <3>2, <3>4
  <2> QED
    BY <2>1, <2>2, <2>3
<1>11. q1[1] = hd /\ Len(q1) >= 1
  <2>1. 1 \in 1..L
    BY <1>1
  <2> QED
    BY <1>1, <1>2, <1>5, <2>1
<1>12. IsRing(q1, nx1, hd, M \cup {t})
  BY <1>5, <1>8, <1>9, <1>10, <1>11 DEF IsRing
<1> QED
  BY <1>12 DEF q1, nx1, tail

(* dequeue_thread takes the i-th thread out of the list.                   *)
LEMMA RingRemoveAt ==
  ASSUME NEW q, NEW nx, NEW pv, NEW hd, NEW M, IsRing(q, nx, hd, M),
         RingShape(nx, pv, hd, M), NEW i \in 1..Len(q), nx[q[i]] # q[i],
         NEW nx1, nx1[pv[q[i]]] = nx[q[i]],
         \A y \in M \ {q[i]} : y # pv[q[i]] => nx1[y] = nx[y],
         NEW hd1, hd1 = IF hd = q[i] THEN nx[q[i]] ELSE hd,
         NEW M1, M1 = M \ {q[i]}
  PROVE  IsRing(RR!RemoveAt(q, i), nx1, hd1, M1)
<1> DEFINE L == Len(q)
           t == q[i]
           p == pv[t]
           q1 == RR!RemoveAt(q, i)
<1>1. L \in Nat \ {0} /\ q \in [1..L -> M] /\ i \in 1..L /\ t \in M
  BY RingCount
<1>2. /\ q[1] = hd
      /\ \A m \in M : \E j \in 1..L : q[j] = m
      /\ \A j, k \in 1..L : q[j] = q[k] => j = k
      /\ \A j \in 1..L : nx[q[j]] = IF j = L THEN hd ELSE q[j+1]
  BY DEF IsRing
<1>3. p \in M /\ nx[p] = t /\ nx[t] # t
  BY <1>1 DEF RingShape
<1>4. p # t /\ nx1[p] = nx[t] /\ \A y \in M1 : y # p => nx1[y] = nx[y]
  BY <1>3
<1>e. hd1 = (IF hd = t THEN nx[t] ELSE hd) /\ M1 = M \ {t}
  OBVIOUS
<1>5. q1 \in Seq(M1) /\ Len(q1) = L - 1
      /\ \A j \in 1..(L-1) : q1[j] = IF j < i THEN q[j] ELSE q[j+1]
  <2> DEFINE a == SubSeq(q, 1, i-1)
             b == SubSeq(q, i+1, L)
  <2> HIDE DEF L, t
  <2>1. \A j \in 1..L : j # i => q[j] \in M1
    <3>1. i \in 1..L /\ t = q[i]
      BY <1>1 DEF t
    <3> QED
      BY <1>1, <1>2, <1>e, <3>1
  <2>2. a \in Seq(M1) /\ Len(a) = i - 1 /\ \A j \in 1..(i-1) : a[j] = q[j]
    <3>1. \A j \in 1..(i-1) : q[j] \in M1
      BY <1>1, <2>1
    <3>2. 1 \in Int /\ i - 1 \in Int
      BY <1>1
    <3>3. /\ a \in Seq(M1)
          /\ Len(a) = IF 1 <= i-1 THEN (i-1)-1+1 ELSE 0
          /\ \A j \in 1..((i-1)-1+1) : a[j] = q[1+j-1]
      BY ONLY <3>1, <3>2, SubSeqProperties
    <3> HIDE DEF a
    <3> QED
      BY <1>1, <3>3
  <2>3. b \in Seq(M1) /\ Len(b) = L - i /\ \A j \in 1..(L-i) : b[j] = q[i+j]
    <3>1. \A j \in (i+1)..L : q[j] \in M1
      BY <1>1, <2>1
    <3>2. i + 1 \in Int /\ L \in Int
      BY <1>1
    <3>3. /\ b \in Seq(M1)
          /\ Len(b) = IF i+1 <= L THEN L-(i+1)+1 ELSE 0
          /\ \A j \in 1..(L-(i+1)+1) : b[j] = q[i+1+j-1]
      BY ONLY <3>1, <3>2, SubSeqProperties
    <3> HIDE DEF b
    <3> QED
      BY <1>1, <3>3
  <2>4. q1 = a \o b
    BY DEF RR!RemoveAt, L
  <2> HIDE DEF a, b, q1
  <2>5. /\ a \o b \in Seq(M1)
        /\ Len(a \o b) = Len(a) + Len(b)
        /\ \A j \in 1..(Len(a) + Len(b)) :
             (a \o b)[j] = IF j <= Len(a) THEN a[j] ELSE b[j - Len(a)]
    BY <2>2, <2>3, ConcatProperties
  <2>6. ASSUME NEW j \in 1..(L-1) PROVE q1[j] = IF j < i THEN q[j] ELSE q[j+1]
    <3>1. q1[j] = IF j <= i - 1 THEN a[j] ELSE b[j - (i - 1)]
      BY <1>1, <2>2, <2>3, <2>4, <2>5
    <3>2. CASE j < i
      BY <1>1, <2>2, <3>1, <3>2
    <3>3. CASE ~(j < i)
      <4>1. j - (i - 1) \in 1..(L-i) /\ i + (j - (i - 1)) = j + 1 /\ ~(j <= i - 1)
        BY <1>1, <3>3
      <4> QED
        BY <2>3, <3>1, <3>3, <4>1
    <3> QED
      BY <3>2, <3>3
  <2> QED
    BY <1>1, <2>2, <2>3, <2>4, <2>5, <2>6
<1> HIDE DEF L, t, p, q1
<1>6. L >= 2
  <2>1. ASSUME L = 1 PROVE FALSE
    <3>1. i = 1 /\ 1 \in 1..L
      BY <1>1, <2>1
    <3>2. q[1] = t /\ nx[t] = q[1]
      BY <1>2, <2>1, <3>1 DEF t
    <3> QED
      BY <1>3, <3>2
  <2> QED
    BY <1>1, <2>1
<1>7. hd1 = IF i = 1 THEN q[2] ELSE q[1]
  <2>1. 1 \in 1..L /\ 2 \in 1..L /\ t = q[i] /\ i \in 1..L
    BY <1>1, <1>6 DEF t
  <2>2. hd = t <=> i = 1
    BY <1>2, <2>1
  <2>3. i = 1 => nx[t] = q[2]
    BY <1>2, <1>6, <2>1
  <2> QED
    BY <1>2, <1>e, <2>2, <2>3
<1>8. p = IF i = 1 THEN q[L] ELSE q[i-1]
  <2>1. PICK j \in 1..L : q[j] = p
    BY <1>2, <1>3
  <2>2. t = (IF j = L THEN hd ELSE q[j+1]) /\ t = q[i] /\ i \in 1..L
    BY <1>1, <1>2, <1>3, <2>1 DEF t
  <2>3. CASE j = L
    <3>1. 1 \in 1..L /\ q[1] = q[i]
      BY <1>1, <1>2, <2>2, <2>3
    <3>2. i = 1
      BY <1>2, <2>2, <3>1
    <3> QED
      BY <2>1, <2>3, <3>2
  <2>4. CASE j # L
    <3>1. j + 1 \in 1..L /\ q[j+1] = q[i]
      BY <1>1, <2>1, <2>2, <2>4
    <3>2. i = j + 1
      BY <1>2, <2>2, <3>1
    <3>3. i # 1 /\ i - 1 = j
      BY <2>1, <3>2, <1>1
    <3> QED
      BY <2>1, <3>3
  <2> QED
    BY <2>3, <2>4
<1>9. ASSUME NEW m \in M1 PROVE \E j \in 1..(L-1) : q1[j] = m
  <2>1. PICK j \in 1..L : q[j] = m
    BY <1>2, <1>9, <1>e
  <2>2. j # i
    BY <1>9, <1>e, <2>1 DEF t
  <2>3. CASE j < i
    <3>1. j \in 1..(L-1)
      BY <1>1, <2>1, <2>3
    <3> QED
      BY <1>5, <2>1, <2>3, <3>1
  <2>4. CASE j > i
    <3>1. j - 1 \in 1..(L-1) /\ ~(j - 1 < i) /\ (j - 1) + 1 = j
      BY <1>1, <2>1, <2>4
    <3> QED
      BY <1>5, <2>1, <3>1
  <2> QED
    BY <1>1, <2>1, <2>2, <2>3, <2>4
<1>10. ASSUME NEW j \in 1..(L-1), NEW k \in 1..(L-1), q1[j] = q1[k] PROVE j = k
  <2> DEFINE u == IF j < i THEN j ELSE j + 1
             v == IF k < i THEN k ELSE k + 1
  <2>1. u \in 1..L /\ v \in 1..L /\ q1[j] = q[u] /\ q1[k] = q[v]
    BY <1>1, <1>5
  <2>2. u = v
    <3>1. q[u] = q[v]
      BY <1>10, <2>1
    <3>2. u \in 1..L /\ v \in 1..L
      BY <2>1
    <3> HIDE DEF u, v
    <3> QED
      BY ONLY <1>2, <3>1, <3>2
  <2> QED
    BY <1>1, <2>2
<1>11. ASSUME NEW j \in 1..(L-1)
       PROVE  nx1[q1[j]] = IF j = L - 1 THEN hd1 ELSE q1[j+1]
  <2> DEFINE u == IF j < i THEN j ELSE j + 1
  <2>1. u \in 1..L /\ q1[j] = q[u] /\ u # i /\ i \in 1..L
    BY <1>1, <1>5
  <2>2. q[u] \in M1
    BY <1>1, <1>2, <1>e, <2>1 DEF t
  <2>3. nx[t] = IF i = L THEN hd ELSE q[i+1]
    BY <1>1, <1>2 DEF t
  <2>4. CASE q[u] = p
    <3>1. nx1[q1[j]] = nx[t]
      BY <1>4, <2>1, <2>4
    <3>2. u = IF i = 1 THEN L ELSE i - 1
      <4>1. L \in 1..L /\ (i # 1 => i - 1 \in 1..L)
        BY <1>1
      <4> QED
        BY <1>2, <1>8, <2>1, <2>4, <4>1
    <3>3. CASE i = 1
      <4>1. u = L /\ j = L - 1 /\ i # L
        BY <1>1, <1>6, <2>1, <3>2, <3>3
      <4> QED
        BY <1>7, <2>3, <3>1, <3>3, <4>1
    <3>4. CASE i # 1 /\ i = L
      <4>1. j = L - 1
        BY <1>1, <2>1, <3>2, <3>4
      <4> QED
        BY <1>2, <1>7, <2>3, <3>1, <3>4, <4>1
    <3>5. CASE i # 1 /\ i # L
      <4>1. j = i - 1 /\ j # L - 1 /\ j + 1 \in 1..(L-1) /\ ~(j + 1 < i) /\ (j + 1) + 1 = i + 1
        BY <1>1, <2>1, <3>2, <3>5
      <4>2. q1[j+1] = q[i+1]
        BY <1>5, <4>1
      <4> QED
        BY <2>3, <3>1, <3>5, <4>1, <4>2
    <3> QED
      BY <3>3, <3>4, <3>5
  <2>5. CASE q[u] # p
    <3>1. nx1[q1[j]] = IF u = L THEN hd ELSE q[u+1]
      BY <1>2, <1>4, <2>1, <2>2, <2>5
    <3>2. CASE u = L
      <4>1. i # 1
        BY <1>8, <2>5, <3>2
      <4>2. j = L - 1
        BY <1>1, <2>1, <3>2
      <4> QED
        BY <1>2, <1>7, <3>1, <3>2, <4>1, <4>2
    <3>3. CASE u # L
      <4>1. u + 1 # i
        <5>1. ASSUME u + 1 = i PROVE FALSE
          <6>1. i # 1 /\ i - 1 = u
            BY <1>1, <2>1, <5>1
          <6> QED
            BY <1>8, <2>5, <6>1
        <5> QED
          BY <5>1
      <4>2. j # L - 1 /\ j + 1 \in 1..(L-1)
            /\ u + 1 = IF j + 1 < i THEN j + 1 ELSE (j + 1) + 1
        BY <1>1, <2>1, <3>3, <4>1
      <4>3. q1[j+1] = q[u+1]
        BY <1>5, <4>2
      <4> QED
        BY <3>1, <3>3, <4>2, <4>3
    <3> QED
      BY <3>2, <3>3
  <2> QED
    BY <2>4, <2>5
<1>12. q1[1] = hd1 /\ Len(q1) >= 1
  <2>1. 1 \in 1..(L-1) /\ 1 + 1 = 2 /\ (1 < i <=> i # 1)
    BY <1>1, <1>6
  <2> QED
    BY <1>1, <1>5, <1>6, <1>7, <2>1
<1>13. IsRing(q1, nx1, hd1, M1)
  <2>1. q1 \in Seq(M1) /\ Len(q1) = L - 1
    BY <1>5
  <2>2. \A m \in M1 : \E j \in 1..Len(q1) : q1[j] = m
    BY <1>9, <2>1
  <2>3. \A j, k \in 1..Len(q1) : q1[j] = q1[k] => j = k
    BY <1>10, <2>1
  <2>4. \A j \in 1..Len(q1) : nx1[q1[j]] = IF j = Len(q1) THEN hd1 ELSE q1[j+1]
    BY <1>11, <2>1
  <2> QED
    BY ONLY <1>12, <2>1, <2>2, <2>3, <2>4 DEF IsRing
<1> QED
  BY <1>13 DEF q1

-----------------------------------------------------------------------------
(* The mutex queue: nb leads from hd through all of B to tl.               *)
QueueShape(nb, hd, tl, B) ==
  /\ hd = NULL <=> tl = NULL
  /\ hd = NULL => B = {}
  /\ hd # NULL => hd \in B /\ tl \in B /\ nb[tl] = NULL
  /\ \A t \in B : t # tl => nb[t] \in B
  /\ \A t \in B : hd # NULL => nb[t] # hd
  /\ \A t, u \in B : nb[t] = nb[u] => t = u
  /\ \A S \in SUBSET B :
       (hd \in S /\ \A y \in S : nb[y] # NULL => nb[y] \in S) => S = B

(* The chain from the head of a queue is the whole queue.                  *)
LEMMA QueueReach ==
  ASSUME NEW nb, NEW hd, NEW tl, NEW B \in SUBSET DOMAIN nb,
         QueueShape(nb, hd, tl, B)
  PROVE  Reach(nb, hd) = B
<1>1. CASE hd = NULL
  BY <1>1 DEF Reach, QueueShape
<1>2. CASE hd # NULL
  <2>1. hd \in B /\ \A t \in B : nb[t] # NULL => nb[t] \in B
    BY <1>2 DEF QueueShape
  <2>2. ASSUME NEW x \in B PROVE x \in Reach(nb, hd)
    <3>1. SUFFICES ASSUME NEW S \in SUBSET DOMAIN nb, hd \in S,
                          \A y \in S : nb[y] # NULL => nb[y] \in S
                   PROVE  x \in S
      BY <1>2 DEF Reach
    <3>2. S \cap B \in SUBSET B /\ hd \in S \cap B
      BY <2>1, <3>1
    <3>3. \A y \in S \cap B : nb[y] # NULL => nb[y] \in S \cap B
      BY <2>1, <3>1
    <3>4. S \cap B = B
      BY <3>2, <3>3 DEF QueueShape
    <3> QED
      BY <3>4
  <2>3. ASSUME NEW x \in Reach(nb, hd) PROVE x \in B
    BY <1>2, <2>1 DEF Reach
  <2> QED
    BY <2>2, <2>3
<1> QED
  BY <1>1, <1>2

(* mutex_lock appends t at the tail.                                       *)
LEMMA QueuePush ==
  ASSUME NEW T, NEW nb \in [T -> Null(T)], NEW hd, NEW tl,
         NEW B \in SUBSET T, NULL \notin T,
         QueueShape(nb, hd, tl, B), NEW t \in T \ B,
         NEW nb1, nb1 = IF hd = NULL THEN [nb EXCEPT ![t] = NULL]
                        ELSE [nb EXCEPT ![t] = NULL, ![tl] = t]
  PROVE  QueueShape(nb1, IF hd = NULL THEN t ELSE hd, t, B \cup {t})
<1>1. CASE hd = NULL
  <2>1. B = {} /\ nb1[t] = NULL
    BY <1>1 DEF QueueShape
  <2> QED
    BY <1>1, <2>1 DEF QueueShape
<1>2. CASE hd # NULL
  <2>1. /\ hd \in B /\ tl \in B /\ nb[tl] = NULL
        /\ \A y \in B : y # tl => nb[y] \in B
        /\ \A y \in B : nb[y] # hd
        /\ \A y, z \in B : nb[y] = nb[z] => y = z
    BY <1>2 DEF QueueShape
  <2>2. nb1[t] = NULL /\ nb1[tl] = t /\ \A y \in B : y # tl => nb1[y] = nb[y]
    BY <1>2, <2>1
  <2>3. ASSUME NEW S \in SUBSET (B \cup {t}), hd \in S,
               \A y \in S : nb1[y] # NULL => nb1[y] \in S
        PROVE  S = B \cup {t}
    <3> DEFINE R == S \ {t}
    <3>1. R \in SUBSET B /\ hd \in R
      BY <2>1, <2>3
    <3>2. \A y \in R : nb[y] # NULL => nb[y] \in R
      BY <2>1, <2>2, <2>3
    <3>3. R = B
      <4> HIDE DEF R
      <4> QED
        BY <3>1, <3>2 DEF QueueShape
    <3> QED
      BY <2>1, <2>2, <2>3, <3>3
  <2>4. \A y \in B \cup {t} : y # t => nb1[y] \in B \cup {t}
    BY <2>1, <2>2
  <2>5. \A y \in B \cup {t} : nb1[y] # hd
    BY <2>1, <2>2
  <2>6. \A y, z \in B \cup {t} : nb1[y] = nb1[z] => y = z
    BY <2>1, <2>2
  <2> QED
    BY <1>2, <2>1, <2>2, <2>3, <2>4, <2>5, <2>6 DEF QueueShape
<1> QED
  BY <1>1, <1>2

(* mutex_unlock takes the head off; the tail is reset with the last one.   *)
LEMMA QueuePop ==
  ASSUME NEW T, NEW nb \in [T -> Null(T)], NEW hd, NEW tl,
         NEW B \in SUBSET T, NULL \notin T,
         QueueShape(nb, hd, tl, B), hd # NULL
  PROVE  QueueShape([nb EXCEPT ![hd] = NULL], nb[hd],
                    IF nb[hd] = NULL THEN NULL ELSE tl, B \ {hd})
<1> DEFINE nb1 == [nb EXCEPT ![hd] = NULL]
           B1 == B \ {hd}
<1>1. /\ hd \in B /\ tl \in B /\ nb[tl] = NULL
      /\ \A y \in B : y # tl => nb[y] \in B
      /\ \A y \in B : nb[y] # hd
      /\ \A y, z \in B : nb[y] = nb[z] => y = z
  BY DEF QueueShape
<1>2. \A y \in B1 : nb1[y] = nb[y]
  BY <1>1
<1>3. CASE nb[hd] = NULL
  <2>1. {hd} \in SUBSET B /\ \A y \in {hd} : nb[y] # NULL => nb[y] \in {hd}
    BY <1>1, <1>3
  <2>2. B = {hd}
    BY <2>1 DEF QueueShape
  <2>3. B1 = {}
    BY <2>2
  <2> HIDE DEF B1, nb1
  <2>4. QueueShape(nb1, NULL, NULL, B1)
    BY <2>3 DEF QueueShape
  <2> QED
    BY <1>3, <2>4 DEF B1, nb1
<1>4. CASE nb[hd] # NULL
  <2>1. hd # tl /\ nb[hd] \in B1 /\ tl \in B1 /\ nb1[tl] = NULL
    BY <1>1, <1>2, <1>4
  <2>2. \A y \in B1 : y # tl => nb1[y] \in B1
    BY <1>1, <1>2
  <2>3. \A y \in B1 : nb1[y] # nb[hd]
    BY <1>1, <1>2
  <2>4. \A y, z \in B1 : nb1[y] = nb1[z] => y = z
    BY <1>1, <1>2
  <2>5. ASSUME NEW S \in SUBSET B1, nb[hd] \in S,
               \A y \in S : nb1[y] # NULL => nb1[y] \in S
        PROVE  S = B1
    <3> DEFINE R == S \cup {hd}
    <3>1. R \in SUBSET B /\ hd \in R
      BY <1>1, <2>5
    <3>2. \A y \in R : nb[y] # NULL => nb[y] \in R
      BY <1>2, <2>5
    <3>3. R = B
      <4> HIDE DEF R
      <4> QED
        BY <3>1, <3>2 DEF QueueShape
    <3> QED
      BY <2>5, <3>3
  <2> HIDE DEF B1, nb1
  <2>6. QueueShape(nb1, nb[hd], tl, B1)
    <3>1. nb[hd] # NULL /\ tl # NULL
      BY <1>4, <1>1 DEF B1
    <3> QED
      BY <2>1, <2>2, <2>3, <2>4, <2>5, <3>1 DEF QueueShape
  <2> QED
    BY <1>4, <2>6 DEF B1, nb1
<1> QED
  BY <1>3, <1>4

-----------------------------------------------------------------------------
(* The dead threads D on two chains of nx: from a (dead_list_head) and     *)
(* from b (what the reaper has taken).                                     *)
ChainShape(nx, a, b, D) ==
  /\ a \in Null(D) /\ b \in Null(D)
  /\ a = b => a = NULL
  /\ \A t \in D : nx[t] \in Null(D)
  /\ \A t \in D : nx[t] # NULL => nx[t] # a /\ nx[t] # b
  /\ \A t, u \in D : (nx[t] = nx[u] /\ nx[t] # NULL) => t = u
  /\ \A S \in SUBSET D :
       /\ a # NULL => a \in S
       /\ b # NULL => b \in S
       /\ \A y \in S : nx[y] # NULL => nx[y] \in S
       => S = D

(* What lies on a chain: its start, with each node its successor, and      *)
(* nothing that some closed set with the start leaves out.                 *)
LEMMA ReachFacts ==
  ASSUME NEW nx, NEW s
  PROVE  /\ Reach(nx, s) \in SUBSET DOMAIN nx
         /\ s = NULL => Reach(nx, s) = {}
         /\ (s # NULL /\ s \in DOMAIN nx) => s \in Reach(nx, s)
         /\ \A y \in Reach(nx, s) :
              (nx[y] # NULL /\ nx[y] \in DOMAIN nx) => nx[y] \in Reach(nx, s)
         /\ \A S \in SUBSET DOMAIN nx :
              (s \in S /\ \A y \in S : nx[y] # NULL => nx[y] \in S)
                => Reach(nx, s) \subseteq S
BY DEF Reach

(* Two chains that nothing leads into from outside do not meet.            *)
LEMMA ChainReach ==
  ASSUME NEW nx, NEW a, NEW b, NEW D \in SUBSET DOMAIN nx, NULL \notin D,
         ChainShape(nx, a, b, D)
  PROVE  /\ Reach(nx, a) \cap Reach(nx, b) = {}
         /\ Reach(nx, a) \cup Reach(nx, b) = D
<1> DEFINE A == Reach(nx, a)
           B == Reach(nx, b)
<1>1. /\ a \in Null(D) /\ b \in Null(D) /\ (a = b => a = NULL)
      /\ \A t \in D : nx[t] \in Null(D)
      /\ \A t \in D : nx[t] # NULL => nx[t] # a /\ nx[t] # b
      /\ \A t, u \in D : (nx[t] = nx[u] /\ nx[t] # NULL) => t = u
  BY DEF ChainShape
<1>2. A \in SUBSET D /\ B \in SUBSET D
  <2>1. D \in SUBSET DOMAIN nx /\ \A y \in D : nx[y] # NULL => nx[y] \in D
    BY <1>1 DEF Null
  <2>2. ASSUME NEW s \in Null(D) PROVE Reach(nx, s) \subseteq D
    BY <2>1, ReachFacts DEF Null
  <2> QED
    BY <1>1, <2>2
<1>3. /\ a # NULL => a \in A
      /\ b # NULL => b \in B
      /\ \A y \in A : nx[y] # NULL => nx[y] \in A
      /\ \A y \in B : nx[y] # NULL => nx[y] \in B
  BY <1>1, <1>2, ReachFacts DEF Null
<1>4. A \cup B = D
  <2> HIDE DEF A, B
  <2>1. A \cup B \in SUBSET D
    BY <1>2
  <2>2. \A y \in A \cup B : nx[y] # NULL => nx[y] \in A \cup B
    BY <1>3
  <2> QED
    BY <1>3, <2>1, <2>2 DEF ChainShape
<1>5. A \cap B = {}
  <2>1. CASE a = NULL \/ b = NULL
    BY <2>1, ReachFacts
  <2>2. CASE a # NULL /\ b # NULL
    <3>1. a \notin B
      <4>1. B \ {a} \in SUBSET DOMAIN nx /\ b \in B \ {a}
        BY <1>1, <1>2, <1>3, <2>2
      <4>2. \A y \in B \ {a} : nx[y] # NULL => nx[y] \in B \ {a}
        BY <1>1, <1>2, <1>3
      <4>3. B \subseteq B \ {a}
        <5> DEFINE S == B \ {a}
        <5>1. S \in SUBSET DOMAIN nx /\ b \in S
              /\ \A y \in S : nx[y] # NULL => nx[y] \in S
          BY <4>1, <4>2
        <5> HIDE DEF S
        <5>2. B \subseteq S
          BY <5>1, ReachFacts
        <5> QED
          BY <5>2 DEF S
      <4> QED
        BY <4>3
    <3>2. ASSUME NEW z \in B, z # b
          PROVE  \E y \in B : nx[y] = z
      <4>1. SUFFICES ASSUME \A y \in B : nx[y] # z PROVE FALSE
        OBVIOUS
      <4> DEFINE S == B \ {z}
      <4>2. S \in SUBSET DOMAIN nx /\ b \in S
            /\ \A y \in S : nx[y] # NULL => nx[y] \in S
        BY <1>2, <1>3, <2>2, <3>2, <4>1
      <4>3. B \subseteq S
        <5> HIDE DEF S
        <5> QED
          BY <4>2, ReachFacts
      <4> QED
        BY <4>3
    <3> DEFINE S == A \ B
    <3>3. S \in SUBSET DOMAIN nx /\ a \in S
      BY <1>2, <1>3, <2>2, <3>1
    <3>4. ASSUME NEW y \in S, nx[y] # NULL PROVE nx[y] \in S
      <4>1. nx[y] \in A /\ nx[y] # b /\ y \in D /\ y \notin B
        BY <1>1, <1>2, <1>3, <3>4
      <4>2. ASSUME nx[y] \in B PROVE FALSE
        <5>1. PICK x \in B : nx[x] = nx[y]
          BY <3>2, <4>1, <4>2
        <5> QED
          BY <1>1, <1>2, <3>4, <4>1, <5>1
      <4> QED
        BY <4>1, <4>2
    <3>5. A \subseteq S
      <4> HIDE DEF S
      <4> QED
        BY <3>3, <3>4, ReachFacts
    <3> QED
      BY <3>5
  <2> QED
    BY <2>1, <2>2
<1> QED
  BY <1>4, <1>5

(* scheduler_handler pushes the exiting thread t on the dead list, while   *)
(* it also changes the links of threads that are not dead.                 *)
LEMMA ChainPush ==
  ASSUME NEW nx, NEW a, NEW b, NEW D, NULL \notin D, ChainShape(nx, a, b, D),
         NEW t, t \notin D, t # NULL,
         NEW nx1, nx1[t] = a, \A y \in D : nx1[y] = nx[y]
  PROVE  ChainShape(nx1, t, b, D \cup {t})
<1>1. /\ a \in Null(D) /\ b \in Null(D) /\ (a = b => a = NULL)
      /\ \A y \in D : nx[y] \in Null(D)
      /\ \A y \in D : nx[y] # NULL => nx[y] # a /\ nx[y] # b
      /\ \A y, u \in D : (nx[y] = nx[u] /\ nx[y] # NULL) => y = u
  BY DEF ChainShape
<1>2. ASSUME NEW S \in SUBSET (D \cup {t}), t \in S, b # NULL => b \in S,
             \A y \in S : nx1[y] # NULL => nx1[y] \in S
      PROVE  S = D \cup {t}
  <2> DEFINE R == S \ {t}
  <2>1. R \in SUBSET D /\ (a # NULL => a \in R) /\ (b # NULL => b \in R)
    BY <1>1, <1>2 DEF Null
  <2>2. \A y \in R : nx[y] # NULL => nx[y] \in R
    BY <1>1, <1>2 DEF Null
  <2>3. R = D
    <3> HIDE DEF R
    <3> QED
      BY <2>1, <2>2 DEF ChainShape
  <2> QED
    BY <1>2, <2>3
<1> DEFINE E == D \cup {t}
<1>3. /\ t \in Null(E) /\ b \in Null(E) /\ t # b
      /\ \A y \in E : nx1[y] \in Null(E)
      /\ \A y \in E : nx1[y] # NULL => nx1[y] # t /\ nx1[y] # b
      /\ \A y, u \in E : (nx1[y] = nx1[u] /\ nx1[y] # NULL) => y = u
  BY <1>1 DEF Null
<1>4. \A S \in SUBSET E :
        ((t # NULL => t \in S) /\ (b # NULL => b \in S)
         /\ \A y \in S : nx1[y] # NULL => nx1[y] \in S) => S = E
  BY <1>2
<1> HIDE DEF E
<1>5. ChainShape(nx1, t, b, E)
  BY <1>3, <1>4 DEF ChainShape
<1> QED
  BY <1>5 DEF E

(* The reaper frees the first thread b of its chain and goes on to the     *)
(* next.                                                                   *)
LEMMA ChainPop ==
  ASSUME NEW nx, NEW a, NEW b, NEW D, NULL \notin D, ChainShape(nx, a, b, D),
         b # NULL
  PROVE  ChainShape(nx, a, nx[b], D \ {b})
<1> DEFINE E == D \ {b}
<1>1. /\ a \in Null(D) /\ b \in D /\ a # b
      /\ \A y \in D : nx[y] \in Null(D)
      /\ \A y \in D : nx[y] # NULL => nx[y] # a /\ nx[y] # b
      /\ \A y, u \in D : (nx[y] = nx[u] /\ nx[y] # NULL) => y = u
  BY DEF ChainShape, Null
<1>2. /\ a \in Null(E) /\ nx[b] \in Null(E) /\ (a = nx[b] => a = NULL)
      /\ \A y \in E : nx[y] \in Null(E)
      /\ \A y \in E : nx[y] # NULL => nx[y] # a /\ nx[y] # nx[b]
      /\ \A y, u \in E : (nx[y] = nx[u] /\ nx[y] # NULL) => y = u
  BY <1>1 DEF Null
<1>3. ASSUME NEW S \in SUBSET E, a # NULL => a \in S, nx[b] # NULL => nx[b] \in S,
             \A y \in S : nx[y] # NULL => nx[y] \in S
      PROVE  S = E
  <2> DEFINE R == S \cup {b}
  <2>1. /\ R \in SUBSET D /\ (a # NULL => a \in R) /\ b \in R
        /\ \A y \in R : nx[y] # NULL => nx[y] \in R
    BY <1>1, <1>3
  <2>2. R = D
    <3> HIDE DEF R
    <3> QED
      BY <2>1 DEF ChainShape
  <2> QED
    BY <1>3, <2>2
<1> HIDE DEF E
<1>4. ChainShape(nx, a, nx[b], E)
  BY <1>2, <1>3 DEF ChainShape
<1> QED
  BY <1>4 DEF E

(* The reaper, with nothing left, takes the whole dead list.               *)
LEMMA ChainTake ==
  ASSUME NEW nx, NEW a, NEW D, ChainShape(nx, a, NULL, D)
  PROVE  ChainShape(nx, NULL, a, D)
BY DEF ChainShape, Null

(* Links of threads that are not dead do not matter to the chains.         *)
LEMMA ChainFrame ==
  ASSUME NEW nx, NEW a, NEW b, NEW D, ChainShape(nx, a, b, D),
         NEW nx1, \A y \in D : nx1[y] = nx[y]
  PROVE  ChainShape(nx1, a, b, D)
<1>1. \A S \in SUBSET D : (\A y \in S : nx1[y] # NULL => nx1[y] \in S)
                          => (\A y \in S : nx[y] # NULL => nx[y] \in S)
  OBVIOUS
<1> QED
  BY <1>1 DEF ChainShape
=============================================================================
