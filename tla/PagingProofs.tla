---------------------------- MODULE PagingProofs ----------------------------
(***************************************************************************)
(* The page tables of all address spaces stay trees that share only the    *)
(* kernel's half, and implement one flat map for each address space, for   *)
(* any number of processes and pages and any size of a table.              *)
(***************************************************************************)
EXTENDS Paging, NatSets

Slots == 0..(Fan - 1)
PageEntries == [f : Frames \cup {NotMapped, Device}, user : BOOLEAN, huge : BOOLEAN]
Pages == HugePages \cup SmallPages
BootPages == HugePages \cup {BufferPage}

(* Entry i of table t leads to frame n: a table or a 4 KB page.            *)
Leads(m, t, i, n) == m[t][i] # NoEntry /\ ~m[t][i].huge /\ m[t][i].f = n

(* Each table has a level and, below the PML4s, a half of the address      *)
(* space that it serves: hf is TRUE for the kernel's.                      *)
Half(lv, hf, t, i) == IF lv[t] = 3 THEN KernelSlot(i) ELSE hf[t]

TablesType(m, u, lv, hf) ==
  /\ Reserved \subseteq u /\ u \subseteq Frames /\ DOMAIN m \subseteq u \ Reserved
  /\ m \in [DOMAIN m -> [Slots -> PageEntries]]
  /\ lv \in [DOMAIN m -> 0..3] /\ hf \in [DOMAIN m -> BOOLEAN]

(* An entry leads one level down, within its half, and to a frame that is  *)
(* in use; only level 1 has 2 MB pages, and the kernel alone uses them.    *)
Levels(m, u, lv, hf) ==
  \A t \in DOMAIN m, i \in Slots :
    /\ m[t][i].huge => lv[t] = 1 /\ m[t][i].user = FALSE
    /\ \A n : Leads(m, t, i, n) =>
         /\ n \in u \ Reserved
         /\ m[t][i].user = ~Half(lv, hf, t, i)
         /\ lv[t] = 0 => n \notin DOMAIN m
         /\ lv[t] > 0 => n \in DOMAIN m /\ lv[n] = lv[t] - 1 /\ hf[n] = Half(lv, hf, t, i)

(* No two entries lead to the same frame, but for the kernel's of PML4s.   *)
Unique(m, lv) ==
  \A t, s \in DOMAIN m, i, j \in Slots : \A n :
    Leads(m, t, i, n) /\ Leads(m, s, j, n) =>
      \/ t = s /\ i = j
      \/ lv[t] = 3 /\ lv[s] = 3 /\ i = j /\ KernelSlot(i)

Tables(m, u, lv, hf) == TablesType(m, u, lv, hf) /\ Levels(m, u, lv, hf) /\ Unique(m, lv)

(* m1 is m with more tables and pages, in frames that are not in u.        *)
Extends(m, u, lv, hf, m1, lv1, hf1) ==
  /\ DOMAIN m \subseteq DOMAIN m1
  /\ \A t \in DOMAIN m : lv1[t] = lv[t] /\ hf1[t] = hf[t]
  /\ \A t \in DOMAIN m1 : t \notin DOMAIN m => lv1[t] # 3 /\ t \notin u
  /\ \A t \in DOMAIN m1, i \in Slots : \A n :
       n \in u /\ Leads(m1, t, i, n) => t \in DOMAIN m /\ Leads(m, t, i, n)
  /\ \A t \in DOMAIN m, i \in Slots : \A n : Leads(m, t, i, n) => m1[t][i] = m[t][i]
  /\ \A t \in DOMAIN m1, i \in Slots : m1[t][i].huge => t \in DOMAIN m /\ m1[t][i] = m[t][i]
  /\ \A t \in DOMAIN m, i \in Slots : m[t][i].huge => m1[t][i] = m[t][i]

(* No page is added.                                                       *)
Quiet(m, m1, lv1) ==
  \A t \in DOMAIN m1, i \in Slots : \A n :
    lv1[t] = 0 /\ Leads(m1, t, i, n) => t \in DOMAIN m /\ Leads(m, t, i, n)

(* No entry that m has is another in m1, but for entry i of table t.       *)
OneChange(m, t, i, m1) ==
  \A s \in DOMAIN m, j \in Slots : ~(s = t /\ j = i) => m1[s][j] = m[s][j]

-----------------------------------------------------------------------------
LEMMA IxType == \A v \in Pages, l \in 0..3 : Ix(v, l) \in Slots
<1> SUFFICES ASSUME NEW v \in Pages, NEW l \in 0..3 PROVE Ix(v, l) \in Slots
  OBVIOUS
<1> DEFINE k == v \div Fan^l
<1>1. v \in Nat /\ Fan^l \in Nat \ {0} /\ Fan \in Nat \ {0}
  BY PagingShape DEF Pages
<1>2. k \in Nat
  BY ONLY <1>1, Division
<1> HIDE DEF k
<1>3. k % Fan \in 0..(Fan - 1)
  BY ONLY <1>1, <1>2, Division
<1> QED
  BY <1>3 DEF Ix, Slots, k

LEMMA Numbers ==
  /\ NotMapped \notin Frames /\ Device \notin Frames /\ NotMapped # Device
  /\ 0 \in Reserved /\ 0 \in Frames /\ NotMapped \in Nat /\ Frames \subseteq Nat
  /\ NoEntry \in PageEntries /\ NoEntry.f = NotMapped /\ NoEntry.huge = FALSE
  /\ NoEntry.user = FALSE
BY PmmShape DEF Frames, NotMapped, Device, NoEntry, PageEntries

LEMMA PutFacts ==
  ASSUME NEW m, m \in [DOMAIN m -> [Slots -> PageEntries]],
         NEW t \in DOMAIN m, NEW i \in Slots, NEW e \in PageEntries
  PROVE  /\ DOMAIN Put(m, t, i, e) = DOMAIN m
         /\ Put(m, t, i, e) \in [DOMAIN m -> [Slots -> PageEntries]]
         /\ \A s \in DOMAIN m, j \in Slots :
              Put(m, t, i, e)[s][j] = IF s = t /\ j = i THEN e ELSE m[s][j]
BY DEF Put

(* The frames still free.                                                  *)
Room(u) == Cardinality(FreeFrames(u))

LEMMA RoomType == ASSUME NEW u PROVE Room(u) \in Nat
<1>1. IsFiniteSet(Frames)
  BY PmmShape, FS_Interval DEF Frames
<1>2. IsFiniteSet(FreeFrames(u))
  BY <1>1, FS_Subset DEF FreeFrames
<1> QED
  BY <1>2, FS_CardinalityType DEF Room

LEMMA NextFrameFacts ==
  ASSUME NEW u \in SUBSET Frames, Room(u) >= 1
  PROVE  /\ NextFrame(u) \in Frames \ u
         /\ Room(u \cup {NextFrame(u)}) = Room(u) - 1
<1> DEFINE F == FreeFrames(u)
<1>1. F \subseteq Frames /\ F = Frames \ u
  BY DEF FreeFrames
<1>2. IsFiniteSet(Frames) /\ Frames \subseteq Nat
  BY PmmShape, FS_Interval DEF Frames
<1>3. IsFiniteSet(F) /\ F \in SUBSET Nat
  BY <1>1, <1>2, FS_Subset
<1>4. F # {}
  BY <1>3, FS_EmptySet DEF Room
<1> HIDE DEF F
<1>5. Min(F) \in F
  BY ONLY <1>3, <1>4, MinIsLeast
<1>6. NextFrame(u) = Min(F)
  BY <1>4 DEF NextFrame, F
<1>7. FreeFrames(u \cup {Min(F)}) = F \ {Min(F)}
  BY DEF F, FreeFrames
<1>8. Cardinality(F \ {Min(F)}) = Cardinality(F) - 1
  BY ONLY <1>3, <1>5, FS_RemoveElement
<1> QED
  BY <1>1, <1>5, <1>6, <1>7, <1>8 DEF Room, F

-----------------------------------------------------------------------------
(* vmm_map_page hangs a new table n on the empty entry i of t.             *)
NewTable(m, t, i, n, h) ==
  AddTable(Put(m, t, i, [f |-> n, user |-> ~h, huge |-> FALSE]), n, EmptyTable)

LEMMA LinkNew ==
  ASSUME NEW m, NEW u, NEW lv, NEW hf, Tables(m, u, lv, hf),
         NEW t \in DOMAIN m, lv[t] > 0, NEW i \in Slots, m[t][i] = NoEntry,
         NEW n \in Frames \ u, NEW h, h = Half(lv, hf, t, i)
  PROVE  \E lv1, hf1 :
           /\ Tables(NewTable(m, t, i, n, h), u \cup {n}, lv1, hf1)
           /\ Extends(m, u, lv, hf, NewTable(m, t, i, n, h), lv1, hf1)
           /\ Quiet(m, NewTable(m, t, i, n, h), lv1)
           /\ n \in DOMAIN NewTable(m, t, i, n, h) /\ Leads(NewTable(m, t, i, n, h), t, i, n)
           /\ lv1[n] = lv[t] - 1 /\ hf1[n] = h
           /\ OneChange(m, t, i, NewTable(m, t, i, n, h))
<1> DEFINE D == DOMAIN m
           m1 == NewTable(m, t, i, n, h)
           lv1 == [x \in D \cup {n} |-> IF x = n THEN lv[t] - 1 ELSE lv[x]]
           hf1 == [x \in D \cup {n} |-> IF x = n THEN h ELSE hf[x]]
           link == [f |-> n, user |-> ~h, huge |-> FALSE]
           p == Put(m, t, i, link)
<1>1. /\ Reserved \subseteq u /\ u \subseteq Frames /\ D \subseteq u \ Reserved
      /\ m \in [D -> [Slots -> PageEntries]] /\ lv \in [D -> 0..3] /\ hf \in [D -> BOOLEAN]
  BY DEF Tables, TablesType
<1>2. n \notin D /\ n # NotMapped /\ n \in Frames /\ h \in BOOLEAN /\ n \notin Reserved
  <2>1. KernelSlot(i) \in BOOLEAN
    BY DEF KernelSlot
  <2> QED
    BY <1>1, <2>1, Numbers DEF Half
<1>3. link \in PageEntries /\ link # NoEntry
  BY <1>2, Numbers DEF PageEntries, NoEntry
<1>4. EmptyTable \in [Slots -> PageEntries] /\ \A j \in Slots : EmptyTable[j] = NoEntry
  BY Numbers DEF EmptyTable, Slots
<1> HIDE DEF link
<1>5. /\ DOMAIN p = D /\ p \in [D -> [Slots -> PageEntries]]
      /\ \A s \in D, j \in Slots : p[s][j] = IF s = t /\ j = i THEN link ELSE m[s][j]
  <2>1. m \in [D -> [Slots -> PageEntries]] /\ t \in D /\ i \in Slots /\ link \in PageEntries
    BY <1>1, <1>3
  <2>2. p = Put(m, t, i, link)
    OBVIOUS
  <2> HIDE DEF p
  <2> QED
    BY ONLY <2>1, <2>2, PutFacts
<1>6. m1 = AddTable(p, n, EmptyTable)
  BY DEF link, NewTable
<1> HIDE DEF p, m1
<1>7. /\ DOMAIN m1 = D \cup {n} /\ m1 \in [D \cup {n} -> [Slots -> PageEntries]]
      /\ m1[n] = EmptyTable /\ \A s \in D : m1[s] = p[s]
  <2> HIDE DEF D
  <2>1. n \notin D /\ p \in [D -> [Slots -> PageEntries]] /\ EmptyTable \in [Slots -> PageEntries]
    BY ONLY <1>2, <1>4, <1>5
  <2>2. /\ DOMAIN AddTable(p, n, EmptyTable) = D \cup {n}
        /\ AddTable(p, n, EmptyTable) \in [D \cup {n} -> [Slots -> PageEntries]]
        /\ AddTable(p, n, EmptyTable)[n] = EmptyTable
        /\ \A s \in D : AddTable(p, n, EmptyTable)[s] = p[s]
    BY ONLY <2>1 DEF AddTable
  <2> QED
    BY ONLY <1>6, <2>2
<1>8. /\ \A j \in Slots : m1[n][j] = NoEntry
      /\ \A s \in D, j \in Slots : m1[s][j] = IF s = t /\ j = i THEN link ELSE m[s][j]
  <2> HIDE DEF D
  <2> QED
    BY ONLY <1>4, <1>5, <1>7
<1>9. link.f = n /\ link.user = ~h /\ ~link.huge
  BY DEF link
<1>10. ASSUME NEW s \in DOMAIN m1, NEW j \in Slots, NEW x
       PROVE  Leads(m1, s, j, x) <=> \/ s \in D /\ Leads(m, s, j, x)
                                     \/ s = t /\ j = i /\ x = n
  <2>a. t \in D /\ s \in DOMAIN m1 /\ j \in Slots /\ m[t][i] = NoEntry
    OBVIOUS
  <2> HIDE DEF D
  <2>1. CASE s = n
    BY ONLY <1>2, <1>8, <2>1, <2>a DEF Leads
  <2>2. CASE s # n /\ ~(s = t /\ j = i)
    BY ONLY <1>7, <1>8, <2>2, <2>a DEF Leads
  <2>3. CASE s = t /\ j = i
    BY ONLY <1>3, <1>8, <1>9, <2>3, <2>a DEF Leads
  <2> QED
    BY ONLY <2>1, <2>2, <2>3
<1>11. ASSUME NEW s \in D
       PROVE  lv1[s] = lv[s] /\ hf1[s] = hf[s] /\ s \in DOMAIN m1 /\ s # n
  BY <1>2, <1>7
<1>12. lv1[n] = lv[t] - 1 /\ hf1[n] = h /\ n \in DOMAIN m1 /\ lv[t] \in 1..3
  BY <1>1, <1>7
<1>13. ASSUME NEW s \in D, NEW j \in Slots PROVE Half(lv1, hf1, s, j) = Half(lv, hf, s, j)
  BY <1>11 DEF Half
<1>14. ASSUME NEW s \in D, NEW j \in Slots, NEW x, Leads(m, s, j, x) PROVE x \in u /\ x # n
  BY <1>14 DEF Tables, Levels
<1>15. TablesType(m1, u \cup {n}, lv1, hf1)
  <2>1. lv1 \in [D \cup {n} -> 0..3]
    BY <1>1, <1>12
  <2>2. hf1 \in [D \cup {n} -> BOOLEAN]
    BY <1>1, <1>2
  <2> HIDE DEF D, lv1, hf1
  <2> QED
    BY ONLY <1>1, <1>2, <1>7, <2>1, <2>2 DEF TablesType
<1> HIDE DEF lv1, hf1
<1>16. Levels(m1, u \cup {n}, lv1, hf1)
  <2> SUFFICES ASSUME NEW s \in DOMAIN m1, NEW j \in Slots
               PROVE  /\ m1[s][j].huge => lv1[s] = 1 /\ m1[s][j].user = FALSE
                      /\ \A x : Leads(m1, s, j, x) =>
                           /\ x \in (u \cup {n}) \ Reserved
                           /\ m1[s][j].user = ~Half(lv1, hf1, s, j)
                           /\ lv1[s] = 0 => x \notin DOMAIN m1
                           /\ lv1[s] > 0 => /\ x \in DOMAIN m1 /\ lv1[x] = lv1[s] - 1
                                            /\ hf1[x] = Half(lv1, hf1, s, j)
    BY DEF Levels
  <2>1. CASE s = n
    BY <1>8, <2>1, Numbers DEF Leads
  <2>2. CASE s = t /\ j = i
    <3>1. Half(lv1, hf1, s, j) = h /\ m1[s][j] = link /\ lv1[s] = lv[t]
      BY <1>8, <1>11, <1>13, <2>2
    <3>2. lv[t] > 0 /\ lv1[s] > 0 /\ lv1[s] # 0
      BY ONLY <1>12, <3>1
    <3> QED
      BY ONLY <1>2, <1>9, <1>12, <3>1, <3>2 DEF Leads
  <2>3. CASE s \in D /\ ~(s = t /\ j = i)
    <3>1. m1[s][j] = m[s][j] /\ lv1[s] = lv[s] /\ Half(lv1, hf1, s, j) = Half(lv, hf, s, j)
      BY <1>8, <1>11, <1>13, <2>3
    <3>2. m[s][j].huge => lv[s] = 1 /\ m[s][j].user = FALSE
      BY <2>3 DEF Tables, Levels
    <3>3. ASSUME NEW x, Leads(m1, s, j, x)
          PROVE  /\ x \in (u \cup {n}) \ Reserved
                 /\ m1[s][j].user = ~Half(lv1, hf1, s, j)
                 /\ lv1[s] = 0 => x \notin DOMAIN m1
                 /\ lv1[s] > 0 => /\ x \in DOMAIN m1 /\ lv1[x] = lv1[s] - 1
                                  /\ hf1[x] = Half(lv1, hf1, s, j)
      <4>1. Leads(m, s, j, x)
        BY <3>1, <3>3 DEF Leads
      <4>2. /\ x \in u \ Reserved
            /\ m[s][j].user = ~Half(lv, hf, s, j)
            /\ lv[s] = 0 => x \notin D
            /\ lv[s] > 0 => x \in D /\ lv[x] = lv[s] - 1 /\ hf[x] = Half(lv, hf, s, j)
        BY <2>3, <4>1 DEF Tables, Levels
      <4> QED
        BY <1>7, <1>11, <3>1, <4>2
    <3> QED
      BY <3>1, <3>2, <3>3
  <2> QED
    BY <1>7, <2>1, <2>2, <2>3
<1>17. Unique(m1, lv1)
  <2>1. ASSUME NEW r \in DOMAIN m1, NEW s \in DOMAIN m1, NEW j \in Slots, NEW k \in Slots,
               NEW x, Leads(m1, r, j, x), Leads(m1, s, k, x)
        PROVE  \/ r = s /\ j = k
               \/ lv1[r] = 3 /\ lv1[s] = 3 /\ j = k /\ KernelSlot(j)
    <3> HIDE DEF D
    <3>1. CASE x = n
      BY ONLY <1>10, <1>14, <2>1, <3>1
    <3>2. CASE x # n
      <4>1. r \in D /\ s \in D /\ Leads(m, r, j, x) /\ Leads(m, s, k, x)
        BY ONLY <1>10, <2>1, <3>2
      <4> QED
        BY <1>11, <4>1 DEF Tables, Unique, D
    <3> QED
      BY ONLY <3>1, <3>2
  <2> QED
    BY ONLY <2>1 DEF Unique
<1>18. Extends(m, u, lv, hf, m1, lv1, hf1)
  <2>1. \A s \in DOMAIN m1 : s \notin D => lv1[s] # 3 /\ s \notin u
    BY <1>7, <1>12
  <2>2. \A s \in DOMAIN m1, j \in Slots : \A x :
          x \in u /\ Leads(m1, s, j, x) => s \in D /\ Leads(m, s, j, x)
    BY <1>10
  <2>3. ASSUME NEW s \in D, NEW j \in Slots, NEW x, Leads(m, s, j, x) PROVE m1[s][j] = m[s][j]
    BY <1>8, <2>3 DEF Leads
  <2>4. ASSUME NEW s \in DOMAIN m1, NEW j \in Slots, m1[s][j].huge
        PROVE  s \in D /\ m1[s][j] = m[s][j]
    <3> HIDE DEF D
    <3> QED
      BY ONLY <1>7, <1>8, <1>9, <2>4, Numbers
  <2>5. ASSUME NEW s \in D, NEW j \in Slots, m[s][j].huge PROVE m1[s][j] = m[s][j]
    BY <1>8, <2>5, Numbers
  <2> QED
    BY <1>7, <1>11, <2>1, <2>2, <2>3, <2>4, <2>5 DEF Extends
<1>19. Quiet(m, m1, lv1)
  <2> SUFFICES ASSUME NEW s \in DOMAIN m1, NEW j \in Slots, NEW x,
                      lv1[s] = 0, Leads(m1, s, j, x)
               PROVE  s \in D /\ Leads(m, s, j, x)
    BY DEF Quiet
  <2>1. lv1[t] = lv[t] /\ lv[t] # 0
    BY <1>11, <1>12
  <2> QED
    BY <1>10, <2>1
<1>20. Leads(m1, t, i, n)
  BY <1>7, <1>10
<1>21. OneChange(m, t, i, m1)
  BY <1>8 DEF OneChange
<1> QED
  BY <1>20, <1>21, <1>12, <1>15, <1>16, <1>17, <1>18, <1>19 DEF Tables, m1

(* Tables that are there already only get more entries.                    *)
LEMMA ExtendsTrans ==
  ASSUME NEW m, NEW u, NEW lv, NEW hf, NEW m1, NEW u1, NEW lv1, NEW hf1,
         NEW m2, NEW lv2, NEW hf2, u \subseteq u1,
         Extends(m, u, lv, hf, m1, lv1, hf1), Extends(m1, u1, lv1, hf1, m2, lv2, hf2)
  PROVE  Extends(m, u, lv, hf, m2, lv2, hf2)
<1>1. DOMAIN m \subseteq DOMAIN m1 /\ DOMAIN m1 \subseteq DOMAIN m2
  BY DEF Extends
<1>2. ASSUME NEW t \in DOMAIN m PROVE lv2[t] = lv[t] /\ hf2[t] = hf[t]
  BY <1>1 DEF Extends
<1>3. ASSUME NEW t \in DOMAIN m2, t \notin DOMAIN m PROVE lv2[t] # 3 /\ t \notin u
  BY <1>1, <1>3 DEF Extends
<1>4. ASSUME NEW t \in DOMAIN m2, NEW i \in Slots, NEW n, n \in u, Leads(m2, t, i, n)
      PROVE  t \in DOMAIN m /\ Leads(m, t, i, n)
  <2>1. t \in DOMAIN m1 /\ Leads(m1, t, i, n)
    BY <1>4 DEF Extends
  <2> QED
    BY <1>4, <2>1 DEF Extends
<1>5. ASSUME NEW t \in DOMAIN m, NEW i \in Slots, NEW n, Leads(m, t, i, n)
      PROVE  m2[t][i] = m[t][i]
  <2>1. m1[t][i] = m[t][i] /\ t \in DOMAIN m1
    BY <1>1, <1>5 DEF Extends
  <2>2. Leads(m1, t, i, n)
    BY <1>5, <2>1 DEF Leads
  <2> QED
    BY <2>1, <2>2 DEF Extends
<1>6. ASSUME NEW t \in DOMAIN m2, NEW i \in Slots, m2[t][i].huge
      PROVE  t \in DOMAIN m /\ m2[t][i] = m[t][i]
  <2>1. t \in DOMAIN m1 /\ m2[t][i] = m1[t][i]
    BY <1>6 DEF Extends
  <2> QED
    BY <1>6, <2>1 DEF Extends
<1>7. ASSUME NEW t \in DOMAIN m, NEW i \in Slots, m[t][i].huge PROVE m2[t][i] = m[t][i]
  <2>1. m1[t][i] = m[t][i] /\ t \in DOMAIN m1
    BY <1>1, <1>7 DEF Extends
  <2> QED
    BY <1>7, <2>1 DEF Extends
<1> QED
  BY ONLY <1>1, <1>2, <1>3, <1>4, <1>5, <1>6, <1>7 DEF Extends

LEMMA QuietTrans ==
  ASSUME NEW m, NEW m1, NEW lv1, NEW m2, NEW lv2, \A t \in DOMAIN m1 : lv2[t] = lv1[t],
         Quiet(m, m1, lv1), Quiet(m1, m2, lv2)
  PROVE  Quiet(m, m2, lv2)
BY DEF Quiet

LEMMA ExtendsSame ==
  ASSUME NEW m, NEW u, NEW lv, NEW hf, Tables(m, u, lv, hf)
  PROVE  Extends(m, u, lv, hf, m, lv, hf) /\ Quiet(m, m, lv)
BY DEF Extends, Quiet

(* The place reached: a table of level l, in the half of the page sought.  *)
At(s, lv, hf, l, h) ==
  /\ Tables(s.mem, s.used, lv, hf)
  /\ s.at \in DOMAIN s.mem /\ lv[s.at] = l
  /\ l # 3 => hf[s.at] = h

(* s1 is s one level further down, with a new table there or not.          *)
Down(s, lv, hf, l, v, h, s1, lv1, hf1) ==
  /\ At(s1, lv1, hf1, l - 1, h)
  /\ Extends(s.mem, s.used, lv, hf, s1.mem, lv1, hf1)
  /\ Quiet(s.mem, s1.mem, lv1)
  /\ Leads(s1.mem, s.at, Ix(v, l), s1.at)
  /\ s.used \subseteq s1.used /\ Room(s1.used) >= Room(s.used) - 1
  /\ \A t \in DOMAIN s1.mem : t \notin DOMAIN s.mem => lv1[t] = l - 1
  /\ OneChange(s.mem, s.at, Ix(v, l), s1.mem)

(* One level down, in either case. An entry that is there has the right    *)
(* user bit already, so that widening it changes nothing.                  *)
LEMMA DescendFacts ==
  ASSUME NEW s, NEW lv, NEW hf, NEW l \in 1..3, NEW v \in Pages, NEW h,
         h = KernelSlot(Ix(v, 3)), At(s, lv, hf, l, h),
         ~s.mem[s.at][Ix(v, l)].huge, Room(s.used) >= 1
  PROVE  \E lv1, hf1 : Down(s, lv, hf, l, v, h, Descend(s, v, l, ~h), lv1, hf1)
<1> DEFINE m == s.mem
           u == s.used
           t == s.at
           i == Ix(v, l)
           e == m[t][i]
           n == NextFrame(u)
           link == [f |-> n, user |-> ~h, huge |-> FALSE]
           s1 == Descend(s, v, l, ~h)
<1>1. /\ Tables(m, u, lv, hf) /\ t \in DOMAIN m /\ lv[t] = l /\ i \in Slots /\ l > 0
      /\ Half(lv, hf, t, i) = h
  BY IxType DEF At, Half
<1>2. Room(u) \in Int
  BY RoomType
<1>3. CASE e = NoEntry
  <2> DEFINE m1 == NewTable(m, t, i, n, h)
  <2>1. s1 = [mem |-> m1, used |-> Mark(u, n), at |-> n]
    BY <1>3 DEF Descend, NewTable
  <2>2. s1.mem = m1 /\ s1.used = u \cup {n} /\ s1.at = n
    BY <2>1 DEF Mark
  <2>3. n \in Frames \ u /\ Room(u \cup {n}) = Room(u) - 1
    BY <1>1, NextFrameFacts DEF Tables, TablesType
  <2>4. DOMAIN m1 = DOMAIN m \cup {n}
    BY DEF NewTable, AddTable, Put
  <2>5. m[t][i] = NoEntry
    BY <1>3
  <2> HIDE DEF m, u, t, i, e, n, s1
  <2>6. PICK lv1, hf1 :
          /\ Tables(m1, u \cup {n}, lv1, hf1)
          /\ Extends(m, u, lv, hf, m1, lv1, hf1) /\ Quiet(m, m1, lv1)
          /\ n \in DOMAIN m1 /\ Leads(m1, t, i, n) /\ lv1[n] = lv[t] - 1 /\ hf1[n] = h
          /\ OneChange(m, t, i, m1)
    BY ONLY <1>1, <2>3, <2>5, LinkNew
  <2> HIDE DEF m1
  <2>7. At(s1, lv1, hf1, l - 1, h)
    BY ONLY <1>1, <2>2, <2>6 DEF At
  <2>8. Room(s1.used) >= Room(u) - 1 /\ u \subseteq s1.used
    BY ONLY <1>2, <2>2, <2>3
  <2>9. \A x \in DOMAIN s1.mem : x \notin DOMAIN m => lv1[x] = l - 1
    BY ONLY <1>1, <2>2, <2>4, <2>6
  <2> QED
    BY <2>2, <2>6, <2>7, <2>8, <2>9 DEF Down, m, u, t, i, s1
<1>4. CASE e # NoEntry
  <2>1. Leads(m, t, i, e.f)
    BY <1>4 DEF Leads
  <2>2. e.user = ~h /\ e.f \in DOMAIN m /\ lv[e.f] = l - 1 /\ hf[e.f] = h
    BY <1>1, <2>1 DEF Tables, Levels
  <2>3. e \in PageEntries
    BY <1>1 DEF Tables, TablesType
  <2>4. [e EXCEPT !.user = @ \/ ~h] = e
    BY <2>2, <2>3 DEF PageEntries
  <2>5. Put(m, t, i, e) = m
    <3>1. m \in [DOMAIN m -> [Slots -> PageEntries]]
      BY <1>1 DEF Tables, TablesType
    <3> QED
      BY <1>1, <3>1 DEF Put
  <2>6. s1 = [mem |-> m, used |-> u, at |-> e.f]
    BY <1>4, <2>4, <2>5 DEF Descend
  <2>7. s1.mem = m /\ s1.used = u /\ s1.at = e.f
    BY <2>6
  <2>8. At(s1, lv, hf, l - 1, h)
    BY <1>1, <2>2, <2>7 DEF At
  <2>9. Extends(m, u, lv, hf, m, lv, hf) /\ Quiet(m, m, lv)
    BY <1>1, ExtendsSame
  <2> HIDE DEF m, u, t, i, e, s1
  <2>10. /\ Extends(m, u, lv, hf, s1.mem, lv, hf) /\ Quiet(m, s1.mem, lv)
         /\ Leads(s1.mem, t, i, s1.at) /\ u \subseteq s1.used /\ Room(s1.used) >= Room(u) - 1
         /\ \A x \in DOMAIN s1.mem : x \notin DOMAIN m => lv[x] = l - 1
         /\ OneChange(m, t, i, s1.mem)
    BY ONLY <1>2, <2>1, <2>7, <2>9 DEF OneChange
  <2> QED
    BY <2>8, <2>10 DEF Down, m, u, t, i, s1
<1> QED
  BY <1>3, <1>4

-----------------------------------------------------------------------------
(* What entry i of table t may become, the bitmap becoming u1.             *)
MayBecome(m, u1, lv, hf, t, i, e) ==
  /\ e \in PageEntries
  /\ Reserved \subseteq u1 /\ u1 \subseteq Frames /\ DOMAIN m \subseteq u1
  /\ e.huge => lv[t] = 1 /\ e.user = FALSE
  /\ (e # NoEntry /\ ~e.huge) =>
       /\ lv[t] = 0 /\ e.f \in u1 \ Reserved /\ e.f \notin DOMAIN m /\ e.user = ~hf[t]
       /\ \A s \in DOMAIN m, j \in Slots : ~Leads(m, s, j, e.f)
  /\ \A s \in DOMAIN m, j \in Slots : \A x : Leads(m, s, j, x) => x \in u1 \/ (s = t /\ j = i)

LEMMA PutTables ==
  ASSUME NEW m, NEW u, NEW lv, NEW hf, Tables(m, u, lv, hf),
         NEW t \in DOMAIN m, NEW i \in Slots, NEW e, NEW u1, MayBecome(m, u1, lv, hf, t, i, e)
  PROVE  /\ Tables(Put(m, t, i, e), u1, lv, hf)
         /\ DOMAIN Put(m, t, i, e) = DOMAIN m
         /\ \A s \in DOMAIN m, j \in Slots :
              Put(m, t, i, e)[s][j] = IF s = t /\ j = i THEN e ELSE m[s][j]
<1> DEFINE m1 == Put(m, t, i, e)
<1> USE DEF MayBecome
<1>1. /\ m \in [DOMAIN m -> [Slots -> PageEntries]] /\ DOMAIN m \subseteq u \ Reserved
      /\ lv \in [DOMAIN m -> 0..3] /\ hf \in [DOMAIN m -> BOOLEAN]
  BY DEF Tables, TablesType
<1>2. /\ DOMAIN m1 = DOMAIN m /\ m1 \in [DOMAIN m -> [Slots -> PageEntries]]
      /\ \A s \in DOMAIN m, j \in Slots : m1[s][j] = IF s = t /\ j = i THEN e ELSE m[s][j]
  <2>1. m \in [DOMAIN m -> [Slots -> PageEntries]] /\ t \in DOMAIN m /\ i \in Slots
        /\ e \in PageEntries
    BY <1>1
  <2> QED
    BY ONLY <2>1, PutFacts
<1> HIDE DEF m1
<1>3. ASSUME NEW s \in DOMAIN m, NEW j \in Slots, NEW x, Leads(m1, s, j, x), ~(s = t /\ j = i)
      PROVE  Leads(m, s, j, x) /\ m1[s][j] = m[s][j] /\ x \in u1
  BY <1>2, <1>3 DEF Leads
<1>4. ASSUME NEW x, Leads(m1, t, i, x)
      PROVE  /\ lv[t] = 0 /\ x \in u1 \ Reserved /\ x \notin DOMAIN m /\ m1[t][i].user = ~hf[t]
             /\ \A s \in DOMAIN m, j \in Slots : ~Leads(m, s, j, x)
  BY <1>2, <1>4 DEF Leads
<1>5. TablesType(m1, u1, lv, hf)
  BY <1>1, <1>2 DEF TablesType
<1>6. ASSUME NEW s \in DOMAIN m, NEW j \in Slots
      PROVE  /\ m1[s][j].huge => lv[s] = 1 /\ m1[s][j].user = FALSE
             /\ \A x : Leads(m1, s, j, x) =>
                  /\ x \in u1 \ Reserved
                  /\ m1[s][j].user = ~Half(lv, hf, s, j)
                  /\ lv[s] = 0 => x \notin DOMAIN m
                  /\ lv[s] > 0 => x \in DOMAIN m /\ lv[x] = lv[s] - 1 /\ hf[x] = Half(lv, hf, s, j)
  <2>1. CASE s = t /\ j = i
    <3>1. m1[s][j].huge => lv[s] = 1 /\ m1[s][j].user = FALSE
      BY <1>2, <2>1
    <3>2. ASSUME NEW x, Leads(m1, s, j, x)
          PROVE  /\ x \in u1 \ Reserved /\ m1[s][j].user = ~Half(lv, hf, s, j)
                 /\ x \notin DOMAIN m /\ lv[s] = 0
      BY <1>4, <2>1, <3>2 DEF Half
    <3> QED
      BY ONLY <3>1, <3>2
  <2>2. CASE ~(s = t /\ j = i)
    <3>1. m1[s][j] = m[s][j]
      BY <1>2, <2>2
    <3>2. m[s][j].huge => lv[s] = 1 /\ m[s][j].user = FALSE
      BY DEF Tables, Levels
    <3>3. ASSUME NEW x, Leads(m1, s, j, x)
          PROVE  /\ x \in u1 \ Reserved
                 /\ m1[s][j].user = ~Half(lv, hf, s, j)
                 /\ lv[s] = 0 => x \notin DOMAIN m
                 /\ lv[s] > 0 => x \in DOMAIN m /\ lv[x] = lv[s] - 1 /\ hf[x] = Half(lv, hf, s, j)
      <4>1. Leads(m, s, j, x) /\ x \in u1
        BY <1>3, <2>2, <3>3
      <4> QED
        BY <3>1, <4>1 DEF Tables, Levels
    <3> QED
      BY ONLY <3>1, <3>2, <3>3
  <2> QED
    BY ONLY <2>1, <2>2
<1>7. Levels(m1, u1, lv, hf)
  BY ONLY <1>2, <1>6 DEF Levels
<1>8. ASSUME NEW r \in DOMAIN m, NEW s \in DOMAIN m, NEW j \in Slots, NEW k \in Slots, NEW x,
             Leads(m1, r, j, x), Leads(m1, s, k, x)
      PROVE  \/ r = s /\ j = k
             \/ lv[r] = 3 /\ lv[s] = 3 /\ j = k /\ KernelSlot(j)
  <2>1. CASE Leads(m, r, j, x) /\ Leads(m, s, k, x)
    BY <2>1 DEF Tables, Unique
  <2>2. CASE ~(Leads(m, r, j, x) /\ Leads(m, s, k, x))
    BY <1>3, <1>4, <1>8, <2>2
  <2> QED
    BY <2>1, <2>2
<1>9. Unique(m1, lv)
  BY ONLY <1>2, <1>8 DEF Unique
<1> QED
  BY <1>2, <1>5, <1>7, <1>9 DEF Tables, m1

(* m1 is m with frame f in entry i of the page table t.                    *)
Placed(m, u, lv, hf, t, i, f, m1) ==
  /\ Tables(m1, u, lv, hf) /\ Extends(m, u \ {f}, lv, hf, m1, lv, hf)
  /\ Leads(m1, t, i, f) /\ OneChange(m, t, i, m1) /\ DOMAIN m1 = DOMAIN m
  /\ \A s \in DOMAIN m, j \in Slots : \A x :
       Leads(m1, s, j, x) => Leads(m, s, j, x) \/ (s = t /\ j = i /\ x = f)

(* vmm_map_page sets an empty entry of a page table to a frame of its own. *)
LEMMA PutPage ==
  ASSUME NEW m, NEW u, NEW lv, NEW hf, Tables(m, u, lv, hf),
         NEW t \in DOMAIN m, lv[t] = 0, NEW i \in Slots, m[t][i] = NoEntry,
         NEW h, h = hf[t], NEW f \in u \ Reserved, f \notin DOMAIN m,
         \A s \in DOMAIN m, j \in Slots : ~Leads(m, s, j, f)
  PROVE  Placed(m, u, lv, hf, t, i, f, Put(m, t, i, [f |-> f, user |-> ~h, huge |-> FALSE]))
<1> DEFINE e == [f |-> f, user |-> ~h, huge |-> FALSE]
           m1 == Put(m, t, i, e)
<1>1. /\ Reserved \subseteq u /\ u \subseteq Frames /\ DOMAIN m \subseteq u /\ h \in BOOLEAN
      /\ \A s \in DOMAIN m, j \in Slots : \A x : Leads(m, s, j, x) => x \in u
  BY DEF Tables, TablesType, Levels
<1>2. e \in PageEntries /\ e # NoEntry /\ e.f = f /\ e.user = ~h /\ e.huge = FALSE
  BY <1>1, Numbers DEF PageEntries, NoEntry
<1> HIDE DEF e
<1>3. /\ Tables(m1, u, lv, hf) /\ DOMAIN m1 = DOMAIN m
      /\ \A s \in DOMAIN m, j \in Slots : m1[s][j] = IF s = t /\ j = i THEN e ELSE m[s][j]
  <2>1. MayBecome(m, u, lv, hf, t, i, e)
    BY <1>1, <1>2 DEF MayBecome
  <2>2. Tables(m, u, lv, hf) /\ t \in DOMAIN m /\ i \in Slots
    OBVIOUS
  <2> QED
    BY ONLY <2>1, <2>2, PutTables
<1> HIDE DEF m1
<1>4. ASSUME NEW s \in DOMAIN m, NEW j \in Slots, NEW x
      PROVE  Leads(m1, s, j, x) <=> Leads(m, s, j, x) \/ (s = t /\ j = i /\ x = f)
  BY <1>2, <1>3 DEF Leads
<1>5. Extends(m, u \ {f}, lv, hf, m1, lv, hf)
  <2>1. ASSUME NEW s \in DOMAIN m, NEW j \in Slots
        PROVE  /\ \A x : Leads(m, s, j, x) => m1[s][j] = m[s][j]
               /\ m1[s][j].huge => m1[s][j] = m[s][j]
               /\ m[s][j].huge => m1[s][j] = m[s][j]
    BY <1>2, <1>3, Numbers DEF Leads
  <2> QED
    BY ONLY <1>3, <1>4, <2>1 DEF Extends
<1>6. OneChange(m, t, i, m1)
  BY <1>3 DEF OneChange
<1> QED
  BY <1>2, <1>3, <1>4, <1>5, <1>6 DEF Placed, m1, e

(* The kernel's 2 MB pages.                                                *)
Huge(f) == [f |-> f, user |-> FALSE, huge |-> TRUE]

LEMMA PutHuge ==
  ASSUME NEW m, NEW u, NEW lv, NEW hf, Tables(m, u, lv, hf),
         NEW t \in DOMAIN m, lv[t] = 1, NEW i \in Slots, NEW f \in {0, Device}
  PROVE  LET m1 == Put(m, t, i, Huge(f)) IN
         /\ Tables(m1, u, lv, hf) /\ DOMAIN m1 = DOMAIN m
         /\ m1[t][i] = Huge(f)
         /\ \A s \in DOMAIN m, j \in Slots : ~(s = t /\ j = i) => m1[s][j] = m[s][j]
         /\ \A s \in DOMAIN m, j \in Slots : \A x : Leads(m1, s, j, x) => Leads(m, s, j, x)
<1> DEFINE e == Huge(f)
           m1 == Put(m, t, i, e)
<1>1. /\ Reserved \subseteq u /\ u \subseteq Frames /\ DOMAIN m \subseteq u
      /\ \A s \in DOMAIN m, j \in Slots : \A x : Leads(m, s, j, x) => x \in u
  BY DEF Tables, TablesType, Levels
<1>2. e \in PageEntries /\ e.user = FALSE /\ e.huge = TRUE
  BY Numbers DEF PageEntries, Huge
<1> HIDE DEF e
<1>3. /\ Tables(m1, u, lv, hf) /\ DOMAIN m1 = DOMAIN m
      /\ \A s \in DOMAIN m, j \in Slots : m1[s][j] = IF s = t /\ j = i THEN e ELSE m[s][j]
  <2>1. MayBecome(m, u, lv, hf, t, i, e)
    BY <1>1, <1>2 DEF MayBecome
  <2>2. Tables(m, u, lv, hf) /\ t \in DOMAIN m /\ i \in Slots
    OBVIOUS
  <2> QED
    BY ONLY <2>1, <2>2, PutTables
<1> HIDE DEF m1
<1>4. ASSUME NEW s \in DOMAIN m, NEW j \in Slots, NEW x, Leads(m1, s, j, x)
      PROVE  Leads(m, s, j, x)
  BY <1>2, <1>3, <1>4 DEF Leads
<1> QED
  BY <1>3, <1>4 DEF m1, e

(* m1 is m without entry i of table t, whose frame f is free.              *)
Emptied(m, u, lv, hf, t, i, f, m1) ==
  /\ Tables(m1, u \ {f}, lv, hf) /\ DOMAIN m1 = DOMAIN m
  /\ \A s \in DOMAIN m, j \in Slots : m1[s][j] = IF s = t /\ j = i THEN NoEntry ELSE m[s][j]

(* vmm_unmap_page: an entry of a page table becomes empty, its frame free. *)
LEMMA ClearPage ==
  ASSUME NEW m, NEW u, NEW lv, NEW hf, Tables(m, u, lv, hf),
         NEW t \in DOMAIN m, lv[t] = 0, NEW i \in Slots, NEW f, Leads(m, t, i, f)
  PROVE  Emptied(m, u, lv, hf, t, i, f, Put(m, t, i, NoEntry))
<1> DEFINE m1 == Put(m, t, i, NoEntry)
           u1 == u \ {f}
<1>1. /\ Reserved \subseteq u /\ u \subseteq Frames /\ DOMAIN m \subseteq u
      /\ \A s \in DOMAIN m, j \in Slots : \A x : Leads(m, s, j, x) => x \in u
      /\ f \notin DOMAIN m /\ f \notin Reserved
  BY DEF Tables, TablesType, Levels
<1>2. ASSUME NEW s \in DOMAIN m, NEW j \in Slots, NEW x, Leads(m, s, j, x)
      PROVE  x \in u1 \/ (s = t /\ j = i)
  <2>1. x = f => s = t /\ j = i
    BY <1>2 DEF Tables, Unique
  <2> QED
    BY <1>1, <1>2, <2>1
<1>3. /\ Tables(m, u, lv, hf) /\ t \in DOMAIN m /\ i \in Slots
      /\ MayBecome(m, u1, lv, hf, t, i, NoEntry)
  BY <1>1, <1>2, Numbers DEF MayBecome
<1> HIDE DEF u1
<1>4. /\ Tables(m1, u1, lv, hf) /\ DOMAIN m1 = DOMAIN m
      /\ \A s \in DOMAIN m, j \in Slots : m1[s][j] = IF s = t /\ j = i THEN NoEntry ELSE m[s][j]
  BY ONLY <1>3, PutTables
<1> QED
  BY <1>4 DEF Emptied, u1
-----------------------------------------------------------------------------
(* The page directory and the page table on the way from a PML4 to page v, *)
(* the frame of a 4 KB page, the entry of a 2 MB page.                     *)
Dir(m, root, v, t1) ==
  \E t2 \in DOMAIN m : Leads(m, root, Ix(v, 3), t2) /\ Leads(m, t2, Ix(v, 2), t1)
Leaf(m, root, v, t0) ==
  \E t1 \in DOMAIN m : Dir(m, root, v, t1) /\ Leads(m, t1, Ix(v, 1), t0)
Maps(m, root, v, f) ==
  \E t0 \in DOMAIN m : Leaf(m, root, v, t0) /\ Leads(m, t0, Ix(v, 0), f)
HugeAt(m, root, v, e) ==
  \E t1 \in DOMAIN m : Dir(m, root, v, t1) /\ m[t1][Ix(v, 1)] = e /\ e.huge

IsRoot(m, lv, t) == t \in DOMAIN m /\ lv[t] = 3

LEMMA DirLevels ==
  ASSUME NEW m, NEW u, NEW lv, NEW hf, Tables(m, u, lv, hf),
         NEW r, IsRoot(m, lv, r), NEW v \in Pages, NEW t1, Dir(m, r, v, t1)
  PROVE  t1 \in DOMAIN m /\ lv[t1] = 1 /\ hf[t1] = KernelSlot(Ix(v, 3))
<1>1. PICK t2 \in DOMAIN m : Leads(m, r, Ix(v, 3), t2) /\ Leads(m, t2, Ix(v, 2), t1)
  BY DEF Dir
<1>2. Ix(v, 3) \in Slots /\ Ix(v, 2) \in Slots /\ r \in DOMAIN m /\ lv[r] = 3
  BY IxType DEF IsRoot
<1>3. lv[t2] = 2 /\ hf[t2] = KernelSlot(Ix(v, 3))
  BY <1>1, <1>2 DEF Tables, Levels, Half
<1> QED
  BY <1>1, <1>2, <1>3 DEF Tables, Levels, Half

LEMMA LeafLevels ==
  ASSUME NEW m, NEW u, NEW lv, NEW hf, Tables(m, u, lv, hf),
         NEW r, IsRoot(m, lv, r), NEW v \in Pages, NEW t0, Leaf(m, r, v, t0)
  PROVE  t0 \in DOMAIN m /\ lv[t0] = 0 /\ hf[t0] = KernelSlot(Ix(v, 3))
<1>1. PICK t1 \in DOMAIN m : Dir(m, r, v, t1) /\ Leads(m, t1, Ix(v, 1), t0)
  BY DEF Leaf
<1>2. lv[t1] = 1 /\ hf[t1] = KernelSlot(Ix(v, 3))
  BY <1>1, DirLevels
<1> QED
  BY <1>1, <1>2, IxType DEF Tables, Levels, Half

(* Two pages of one directory have the same way to it, from the same PML4  *)
(* or through the kernel's half of two.                                    *)
LEMMA DirUnique ==
  ASSUME NEW m, NEW u, NEW lv, NEW hf, Tables(m, u, lv, hf),
         NEW r, IsRoot(m, lv, r), NEW q, IsRoot(m, lv, q),
         NEW v \in Pages, NEW w \in Pages, NEW t1, Dir(m, r, v, t1), Dir(m, q, w, t1)
  PROVE  Ix(v, 2) = Ix(w, 2) /\ Ix(v, 3) = Ix(w, 3) /\ (r = q \/ KernelSlot(Ix(v, 3)))
<1>1. PICK t2 \in DOMAIN m : Leads(m, r, Ix(v, 3), t2) /\ Leads(m, t2, Ix(v, 2), t1)
  BY DEF Dir
<1>2. PICK s2 \in DOMAIN m : Leads(m, q, Ix(w, 3), s2) /\ Leads(m, s2, Ix(w, 2), t1)
  BY DEF Dir
<1>3. /\ Ix(v, 3) \in Slots /\ Ix(v, 2) \in Slots /\ r \in DOMAIN m /\ lv[r] = 3
      /\ Ix(w, 3) \in Slots /\ Ix(w, 2) \in Slots /\ q \in DOMAIN m /\ lv[q] = 3
  BY IxType DEF IsRoot
<1>4. lv[t2] = 2
  BY <1>1, <1>3 DEF Tables, Levels
<1>5. t2 = s2 /\ Ix(v, 2) = Ix(w, 2)
  BY <1>1, <1>2, <1>3, <1>4 DEF Tables, Unique
<1> QED
  BY <1>1, <1>2, <1>3, <1>5 DEF Tables, Unique

LEMMA LeafUnique ==
  ASSUME NEW m, NEW u, NEW lv, NEW hf, Tables(m, u, lv, hf),
         NEW r, IsRoot(m, lv, r), NEW q, IsRoot(m, lv, q),
         NEW v \in Pages, NEW w \in Pages, NEW t0, Leaf(m, r, v, t0), Leaf(m, q, w, t0)
  PROVE  /\ Ix(v, 1) = Ix(w, 1) /\ Ix(v, 2) = Ix(w, 2) /\ Ix(v, 3) = Ix(w, 3)
         /\ r = q \/ KernelSlot(Ix(v, 3))
<1>1. PICK t1 \in DOMAIN m : Dir(m, r, v, t1) /\ Leads(m, t1, Ix(v, 1), t0)
  BY DEF Leaf
<1>2. PICK s1 \in DOMAIN m : Dir(m, q, w, s1) /\ Leads(m, s1, Ix(w, 1), t0)
  BY DEF Leaf
<1>3. lv[t1] = 1 /\ Ix(v, 1) \in Slots /\ Ix(w, 1) \in Slots
  BY <1>1, DirLevels, IxType
<1>4. t1 = s1 /\ Ix(v, 1) = Ix(w, 1)
  BY <1>1, <1>2, <1>3 DEF Tables, Unique
<1> QED
  BY <1>1, <1>2, <1>4, DirUnique

(* The ways that are there stay when tables and pages are added, and those *)
(* to a frame that was in use were there before.                           *)
LEMMA DirExtends ==
  ASSUME NEW m, NEW u, NEW lv, NEW hf, NEW m1, NEW lv1, NEW hf1,
         Extends(m, u, lv, hf, m1, lv1, hf1), DOMAIN m \subseteq u,
         NEW r \in DOMAIN m, NEW v \in Pages, NEW t1
  PROVE  /\ Dir(m, r, v, t1) => Dir(m1, r, v, t1)
         /\ Dir(m1, r, v, t1) /\ t1 \in u => Dir(m, r, v, t1)
<1>1. Ix(v, 3) \in Slots /\ Ix(v, 2) \in Slots /\ DOMAIN m \subseteq DOMAIN m1
  BY IxType DEF Extends
<1>2. ASSUME NEW t \in DOMAIN m, NEW i \in Slots, NEW n, Leads(m, t, i, n)
      PROVE  Leads(m1, t, i, n)
  BY <1>2 DEF Extends, Leads
<1>3. ASSUME NEW t \in DOMAIN m1, NEW i \in Slots, NEW n, n \in u, Leads(m1, t, i, n)
      PROVE  t \in DOMAIN m /\ Leads(m, t, i, n)
  BY <1>3 DEF Extends
<1>4. ASSUME Dir(m, r, v, t1) PROVE Dir(m1, r, v, t1)
  BY <1>1, <1>2, <1>4 DEF Dir
<1>5. ASSUME Dir(m1, r, v, t1), t1 \in u PROVE Dir(m, r, v, t1)
  <2>1. PICK t2 \in DOMAIN m1 : Leads(m1, r, Ix(v, 3), t2) /\ Leads(m1, t2, Ix(v, 2), t1)
    BY <1>5 DEF Dir
  <2>2. t2 \in DOMAIN m /\ Leads(m, t2, Ix(v, 2), t1)
    BY <1>1, <1>3, <1>5, <2>1
  <2>3. Leads(m, r, Ix(v, 3), t2)
    BY <1>1, <1>3, <2>1, <2>2
  <2> QED
    BY <2>2, <2>3 DEF Dir
<1> QED
  BY <1>4, <1>5

LEMMA LeafExtends ==
  ASSUME NEW m, NEW u, NEW lv, NEW hf, NEW m1, NEW lv1, NEW hf1,
         Extends(m, u, lv, hf, m1, lv1, hf1), DOMAIN m \subseteq u,
         NEW r \in DOMAIN m, NEW v \in Pages, NEW t0
  PROVE  /\ Leaf(m, r, v, t0) => Leaf(m1, r, v, t0)
         /\ Leaf(m1, r, v, t0) /\ t0 \in u => Leaf(m, r, v, t0)
<1>1. Ix(v, 1) \in Slots /\ DOMAIN m \subseteq DOMAIN m1
  BY IxType DEF Extends
<1>2. ASSUME NEW t1 \in DOMAIN m1, Leads(m1, t1, Ix(v, 1), t0), t0 \in u
      PROVE  t1 \in DOMAIN m /\ Leads(m, t1, Ix(v, 1), t0)
  BY <1>1, <1>2 DEF Extends
<1>3. ASSUME NEW t1 \in DOMAIN m, Leads(m, t1, Ix(v, 1), t0) PROVE Leads(m1, t1, Ix(v, 1), t0)
  BY <1>1, <1>3 DEF Extends, Leads
<1>4. \A t1 : /\ Dir(m, r, v, t1) => Dir(m1, r, v, t1)
              /\ Dir(m1, r, v, t1) /\ t1 \in u => Dir(m, r, v, t1)
  BY DirExtends
<1> QED
  BY ONLY <1>1, <1>2, <1>3, <1>4, DOMAIN m \subseteq u DEF Leaf

LEMMA HugeExtends ==
  ASSUME NEW m, NEW u, NEW lv, NEW hf, NEW m1, NEW lv1, NEW hf1,
         Extends(m, u, lv, hf, m1, lv1, hf1), DOMAIN m \subseteq u,
         NEW r \in DOMAIN m, NEW v \in Pages, NEW e
  PROVE  HugeAt(m1, r, v, e) <=> HugeAt(m, r, v, e)
<1>1. Ix(v, 1) \in Slots /\ DOMAIN m \subseteq DOMAIN m1
  BY IxType DEF Extends
<1>2. \A t1 : /\ Dir(m, r, v, t1) => Dir(m1, r, v, t1)
              /\ Dir(m1, r, v, t1) /\ t1 \in u => Dir(m, r, v, t1)
  BY DirExtends
<1>3. ASSUME NEW t1 \in DOMAIN m1, m1[t1][Ix(v, 1)].huge
      PROVE  t1 \in DOMAIN m /\ m1[t1][Ix(v, 1)] = m[t1][Ix(v, 1)]
  BY <1>1, <1>3 DEF Extends
<1>4. ASSUME NEW t1 \in DOMAIN m, m[t1][Ix(v, 1)].huge
      PROVE  m1[t1][Ix(v, 1)] = m[t1][Ix(v, 1)]
  BY <1>1, <1>4 DEF Extends
<1> QED
  BY ONLY <1>1, <1>2, <1>3, <1>4, DOMAIN m \subseteq u DEF HugeAt
-----------------------------------------------------------------------------
(* What vmm_map_page of page v in frame f leaves: s1 is m and u with the   *)
(* missing tables, none of them a PML4, and one more page.                 *)
Grown(m, u, lv, hf, r, v, f, s1, lv1, hf1) ==
  /\ Tables(s1.mem, s1.used, lv1, hf1) /\ u \cup {f} \subseteq s1.used
  /\ Extends(m, u, lv, hf, s1.mem, lv1, hf1)
  /\ \A t \in DOMAIN m, i \in Slots :
       lv[t] = 3 /\ ~(t = r /\ i = Ix(v, 3)) => s1.mem[t][i] = m[t][i]
  /\ \E t0 \in DOMAIN s1.mem :
       /\ Leaf(s1.mem, r, v, t0) /\ Leads(s1.mem, t0, Ix(v, 0), f)
       /\ \A t \in DOMAIN s1.mem, i \in Slots : \A x :
            lv1[t] = 0 /\ Leads(s1.mem, t, i, x) =>
              (t \in DOMAIN m /\ Leads(m, t, i, x)) \/ (t = t0 /\ i = Ix(v, 0) /\ x = f)

LEMMA ExtendsFewer ==
  ASSUME NEW m, NEW u, NEW lv, NEW hf, NEW m1, NEW lv1, NEW hf1,
         Extends(m, u, lv, hf, m1, lv1, hf1), NEW w, w \subseteq u
  PROVE  Extends(m, w, lv, hf, m1, lv1, hf1)
BY DEF Extends

LEMMA MapPageFacts ==
  ASSUME NEW m, NEW u, NEW lv, NEW hf, Tables(m, u, lv, hf),
         NEW r, IsRoot(m, lv, r), NEW v \in Pages, NEW h, h = KernelSlot(Ix(v, 3)),
         NEW f \in Frames \ u, Room(u \cup {f}) >= 3,
         \A e : ~HugeAt(m, r, v, e), \A x : ~Maps(m, r, v, x)
  PROVE  \E lv1, hf1 :
           Grown(m, u, lv, hf, r, v, f,
                 MapPage([mem |-> m, used |-> Mark(u, f), at |-> r], v, f, ~h), lv1, hf1)
<1> DEFINE s0 == [mem |-> m, used |-> Mark(u, f), at |-> r]
           s3 == Descend(s0, v, 3, ~h)
           s2 == Descend(s3, v, 2, ~h)
           s1 == Descend(s2, v, 1, ~h)
           u0 == u \cup {f}
           s == MapPage(s0, v, f, ~h)
<1>1. s0.mem = m /\ s0.used = u0 /\ s0.at = r
  BY DEF Mark
<1>2. s = SetEntry(s1, v, 0, f, ~h)
  BY DEF MapPage, ToDirectory
<1>3. /\ s.mem = Put(s1.mem, s1.at, Ix(v, 0), [f |-> f, user |-> ~h, huge |-> FALSE])
      /\ s.used = s1.used
  <2>1. (0 = 1) = FALSE
    OBVIOUS
  <2> HIDE DEF s0, s1, s
  <2>2. /\ s.mem = Put(s1.mem, s1.at, Ix(v, 0), [f |-> f, user |-> ~h, huge |-> 0 = 1])
        /\ s.used = s1.used
    BY <1>2 DEF SetEntry
  <2> QED
    BY ONLY <2>1, <2>2
<1> HIDE DEF s0, s3, s2, s1, s
<1>4. /\ Ix(v, 3) \in Slots /\ Ix(v, 2) \in Slots /\ Ix(v, 1) \in Slots /\ Ix(v, 0) \in Slots
      /\ r \in DOMAIN m /\ lv[r] = 3 /\ DOMAIN m \subseteq u /\ DOMAIN m \subseteq u0
      /\ Reserved \subseteq u /\ f \notin Reserved
  BY IxType DEF IsRoot, Tables, TablesType
<1>5. Tables(m, u0, lv, hf)
  <2>1. TablesType(m, u0, lv, hf)
    BY DEF Tables, TablesType
  <2>2. Levels(m, u0, lv, hf)
    BY DEF Tables, Levels
  <2> QED
    BY <2>1, <2>2 DEF Tables
<1>6. At(s0, lv, hf, 3, h) /\ ~s0.mem[s0.at][Ix(v, 3)].huge /\ Room(s0.used) >= 3
  BY <1>1, <1>4, <1>5 DEF At, Tables, Levels
<1>7. PICK lva, hfa :
        /\ At(s3, lva, hfa, 2, h) /\ Extends(s0.mem, s0.used, lv, hf, s3.mem, lva, hfa)
        /\ Quiet(s0.mem, s3.mem, lva) /\ Leads(s3.mem, s0.at, Ix(v, 3), s3.at)
        /\ s0.used \subseteq s3.used /\ Room(s3.used) >= Room(s0.used) - 1
        /\ OneChange(s0.mem, s0.at, Ix(v, 3), s3.mem)
  <2>1. Room(s0.used) >= 1 /\ 3 \in 1..3 /\ 3 - 1 = 2
    BY <1>6, RoomType
  <2> QED
    <3>1. At(s0, lv, hf, 3, h) /\ ~s0.mem[s0.at][Ix(v, 3)].huge
      BY <1>6
    <3>2. h = KernelSlot(Ix(v, 3)) /\ v \in Pages
      OBVIOUS
    <3>3. \E x, y : Down(s0, lv, hf, 3, v, h, s3, x, y)
      <4>1. 3 \in 1..3 /\ Room(s0.used) >= 1
        BY ONLY <2>1
      <4>2. ASSUME NEW l \in 1..3, At(s0, lv, hf, l, h), ~s0.mem[s0.at][Ix(v, l)].huge
            PROVE  \E x, y : Down(s0, lv, hf, l, v, h, Descend(s0, v, l, ~h), x, y)
        BY ONLY <3>2, <4>1, <4>2, l \in 1..3, DescendFacts
      <4> QED
        BY ONLY <3>1, <4>1, <4>2 DEF s3
    <3> QED
      BY <2>1, <3>3 DEF Down
<1>8. ~s3.mem[s3.at][Ix(v, 2)].huge /\ Room(s3.used) >= 2
  <2>1. Room(s3.used) \in Nat /\ Room(s0.used) \in Nat
    BY RoomType
  <2> QED
    BY <1>4, <1>6, <1>7, <2>1 DEF At, Tables, Levels
<1>9. PICK lvb, hfb :
        /\ At(s2, lvb, hfb, 1, h) /\ Extends(s3.mem, s3.used, lva, hfa, s2.mem, lvb, hfb)
        /\ Quiet(s3.mem, s2.mem, lvb) /\ Leads(s2.mem, s3.at, Ix(v, 2), s2.at)
        /\ s3.used \subseteq s2.used /\ Room(s2.used) >= Room(s3.used) - 1
        /\ OneChange(s3.mem, s3.at, Ix(v, 2), s2.mem)
  <2>1. Room(s3.used) >= 1 /\ 2 \in 1..3 /\ 2 - 1 = 1
    BY <1>8, RoomType
  <2> QED
    <3>1. At(s3, lva, hfa, 2, h) /\ ~s3.mem[s3.at][Ix(v, 2)].huge
      BY <1>7, <1>8
    <3>2. h = KernelSlot(Ix(v, 3)) /\ v \in Pages
      OBVIOUS
    <3>3. \E x, y : Down(s3, lva, hfa, 2, v, h, s2, x, y)
      <4>1. 2 \in 1..3 /\ Room(s3.used) >= 1
        BY ONLY <2>1
      <4>2. \A l \in 1..3 : l = 2 =>
              \E x, y : Down(s3, lva, hfa, l, v, h, Descend(s3, v, l, ~h), x, y)
        BY ONLY <4>1, <3>1, <3>2, DescendFacts
      <4> QED
        BY <4>1, <4>2 DEF s2
    <3> QED
      BY <2>1, <3>3 DEF Down
<1>10. Extends(m, u0, lv, hf, s2.mem, lvb, hfb) /\ Quiet(m, s2.mem, lvb)
  <2>1. \A t \in DOMAIN s3.mem : lvb[t] = lva[t]
    BY <1>9 DEF Extends
  <2>2. u0 \subseteq s3.used
    BY <1>1, <1>7
  <2>3. Extends(m, u0, lv, hf, s3.mem, lva, hfa) /\ Quiet(m, s3.mem, lva)
    BY <1>1, <1>7
  <2>4. Extends(s3.mem, s3.used, lva, hfa, s2.mem, lvb, hfb) /\ Quiet(s3.mem, s2.mem, lvb)
    BY <1>9
  <2> QED
    BY ONLY <2>1, <2>2, <2>3, <2>4, ExtendsTrans, QuietTrans
<1>11. Dir(s2.mem, r, v, s2.at)
  <2>1. s3.at \in DOMAIN s3.mem /\ r \in DOMAIN s3.mem /\ Leads(s3.mem, r, Ix(v, 3), s3.at)
    BY <1>1, <1>4, <1>7 DEF At, Extends
  <2>2. s3.at \in DOMAIN s2.mem /\ Leads(s2.mem, r, Ix(v, 3), s3.at)
    BY <1>4, <1>9, <2>1 DEF Extends, Leads
  <2> QED
    BY <1>9, <2>2 DEF Dir
<1>12. ~s2.mem[s2.at][Ix(v, 1)].huge
  <2>1. \A e : ~HugeAt(s2.mem, r, v, e)
    BY <1>4, <1>10, HugeExtends
  <2> QED
    BY <1>9, <1>11, <2>1 DEF HugeAt, At
<1>13. PICK lv1, hf1 :
         /\ At(s1, lv1, hf1, 0, h) /\ Extends(s2.mem, s2.used, lvb, hfb, s1.mem, lv1, hf1)
         /\ Quiet(s2.mem, s1.mem, lv1) /\ Leads(s1.mem, s2.at, Ix(v, 1), s1.at)
         /\ s2.used \subseteq s1.used
         /\ OneChange(s2.mem, s2.at, Ix(v, 1), s1.mem)
  <2>1. Room(s2.used) >= 1 /\ 1 \in 1..3 /\ 1 - 1 = 0
    <3>1. Room(s3.used) \in Nat /\ Room(s2.used) \in Nat
      BY RoomType
    <3> QED
      BY <1>8, <1>9, <3>1
  <2> QED
    <3>1. At(s2, lvb, hfb, 1, h) /\ ~s2.mem[s2.at][Ix(v, 1)].huge
      BY <1>9, <1>12
    <3>2. h = KernelSlot(Ix(v, 3)) /\ v \in Pages
      OBVIOUS
    <3>3. \E x, y : Down(s2, lvb, hfb, 1, v, h, s1, x, y)
      BY ONLY <2>1, <3>1, <3>2, DescendFacts DEF s1
    <3> QED
      BY <2>1, <3>3 DEF Down
<1>14. u0 \subseteq s1.used /\ u0 \subseteq s2.used
  BY <1>1, <1>7, <1>9, <1>13
<1>15. Extends(m, u0, lv, hf, s1.mem, lv1, hf1) /\ Quiet(m, s1.mem, lv1)
  <2>1. \A t \in DOMAIN s2.mem : lv1[t] = lvb[t]
    BY <1>13 DEF Extends
  <2>2. u0 \subseteq s2.used
    BY <1>14
  <2>3. Extends(s2.mem, s2.used, lvb, hfb, s1.mem, lv1, hf1) /\ Quiet(s2.mem, s1.mem, lv1)
    BY <1>13
  <2> QED
    BY ONLY <2>1, <2>2, <2>3, <1>10, ExtendsTrans, QuietTrans
<1>16. Leaf(s1.mem, r, v, s1.at)
  <2>1. Dir(s1.mem, r, v, s2.at)
    <3>1. /\ Extends(s2.mem, s2.used, lvb, hfb, s1.mem, lv1, hf1)
          /\ DOMAIN s2.mem \subseteq s2.used /\ r \in DOMAIN s2.mem /\ v \in Pages
      BY <1>4, <1>9, <1>10, <1>13 DEF At, Tables, TablesType, Extends
    <3> QED
      BY ONLY <1>11, <3>1, DirExtends
  <2>2. s2.at \in DOMAIN s1.mem
    BY <1>9, <1>13 DEF At, Extends
  <2> QED
    BY <1>13, <2>1, <2>2 DEF Leaf
<1>17. s1.mem[s1.at][Ix(v, 0)] = NoEntry
  <2> DEFINE e == s1.mem[s1.at][Ix(v, 0)]
  <2>1. lv1[s1.at] = 0 /\ s1.at \in DOMAIN s1.mem
    BY <1>13 DEF At
  <2>2. ~e.huge
    BY <1>4, <1>13, <2>1 DEF At, Tables, Levels
  <2>3. SUFFICES ASSUME e # NoEntry PROVE FALSE
    OBVIOUS
  <2>4. Leads(s1.mem, s1.at, Ix(v, 0), e.f)
    BY <2>2, <2>3 DEF Leads
  <2>5. s1.at \in DOMAIN m /\ Leads(m, s1.at, Ix(v, 0), e.f)
    BY <1>4, <1>15, <2>1, <2>4 DEF Quiet
  <2>6. Leaf(m, r, v, s1.at)
    BY <1>4, <1>15, <1>16, <2>5, LeafExtends
  <2> QED
    BY <2>5, <2>6 DEF Maps
<1>18. f \notin DOMAIN s1.mem /\ \A t \in DOMAIN s1.mem, j \in Slots : ~Leads(s1.mem, t, j, f)
  <2>1. f \notin DOMAIN s1.mem
    BY <1>4, <1>15 DEF Extends
  <2>2. ASSUME NEW t \in DOMAIN s1.mem, NEW j \in Slots, Leads(s1.mem, t, j, f) PROVE FALSE
    <3>1. t \in DOMAIN m /\ Leads(m, t, j, f)
      BY <1>15, <2>2 DEF Extends
    <3>2. f \in u
      BY <3>1 DEF Tables, Levels
    <3> QED
      BY <3>2
  <2> QED
    BY <2>1, <2>2
<1>19. /\ Tables(s.mem, s.used, lv1, hf1)
       /\ Extends(s1.mem, s1.used \ {f}, lv1, hf1, s.mem, lv1, hf1)
       /\ Leads(s.mem, s1.at, Ix(v, 0), f)
       /\ \A t \in DOMAIN s1.mem, j \in Slots : \A x :
            Leads(s.mem, t, j, x) =>
              Leads(s1.mem, t, j, x) \/ (t = s1.at /\ j = Ix(v, 0) /\ x = f)
       /\ OneChange(s1.mem, s1.at, Ix(v, 0), s.mem) /\ DOMAIN s.mem = DOMAIN s1.mem
  <2>1. /\ Tables(s1.mem, s1.used, lv1, hf1) /\ s1.at \in DOMAIN s1.mem /\ lv1[s1.at] = 0
        /\ h = hf1[s1.at] /\ f \in s1.used \ Reserved /\ Ix(v, 0) \in Slots
    BY <1>4, <1>13, <1>14 DEF At
  <2> QED
    <3>1. Placed(s1.mem, s1.used, lv1, hf1, s1.at, Ix(v, 0), f, s.mem)
      BY ONLY <1>3, <1>17, <1>18, <2>1, PutPage
    <3> QED
      BY ONLY <1>3, <3>1 DEF Placed
<1>20. Extends(m, u, lv, hf, s.mem, lv1, hf1)
  <2>1. u \subseteq u0 /\ u \subseteq s1.used \ {f}
    BY <1>14
  <2>2. Extends(m, u, lv, hf, s1.mem, lv1, hf1)
    BY ONLY <1>15, <2>1, ExtendsFewer
  <2> QED
    BY ONLY <1>19, <2>1, <2>2, ExtendsTrans
<1>21. Leaf(s.mem, r, v, s1.at) /\ s1.at \in DOMAIN s.mem
  <2>1. /\ DOMAIN s1.mem \subseteq s1.used \ {f} /\ r \in DOMAIN s1.mem /\ v \in Pages
        /\ s1.at \in DOMAIN s1.mem
    BY <1>4, <1>13, <1>15, <1>18 DEF At, Tables, TablesType, Extends
  <2> QED
    BY ONLY <1>16, <1>19, <2>1, LeafExtends
<1>22. ASSUME NEW t \in DOMAIN m, NEW i \in Slots, lv[t] = 3, ~(t = r /\ i = Ix(v, 3))
       PROVE  s.mem[t][i] = m[t][i]
  <2>1. t \in DOMAIN s3.mem /\ t \in DOMAIN s2.mem /\ t \in DOMAIN s1.mem
    BY <1>1, <1>7, <1>10, <1>15 DEF Extends
  <2>2. lva[t] = 3 /\ lvb[t] = 3 /\ lv1[t] = 3
    BY <1>1, <1>7, <1>10, <1>15, <1>22 DEF Extends
  <2>3. t # s3.at /\ t # s2.at /\ t # s1.at
    BY <1>7, <1>9, <1>13, <2>2 DEF At
  <2> QED
    BY <1>1, <1>7, <1>9, <1>13, <1>19, <1>22, <2>1, <2>3 DEF OneChange
<1>23. ASSUME NEW t \in DOMAIN s.mem, NEW i \in Slots, NEW x, lv1[t] = 0, Leads(s.mem, t, i, x)
       PROVE  (t \in DOMAIN m /\ Leads(m, t, i, x)) \/ (t = s1.at /\ i = Ix(v, 0) /\ x = f)
  <2>1. t \in DOMAIN s1.mem
    BY <1>19, <1>23
  <2>2. CASE Leads(s1.mem, t, i, x)
    BY ONLY <1>15, <1>23, <2>1, <2>2 DEF Quiet
  <2> QED
    BY <1>19, <1>23, <2>1, <2>2
<1>24. u \cup {f} \subseteq s.used
  BY <1>3, <1>14
<1>25. Grown(m, u, lv, hf, r, v, f, s, lv1, hf1)
  BY ONLY <1>19, <1>20, <1>21, <1>22, <1>23, <1>24 DEF Grown
<1> QED
  BY <1>25 DEF s, s0
-----------------------------------------------------------------------------
(* What vmm_map_page of the 2 MB page w with the entry e leaves: s1 is s   *)
(* with the missing tables and e, and no other 2 MB page is touched.       *)
Hung(s, lv, hf, r, w, e, s1, lv1, hf1) ==
  /\ Tables(s1.mem, s1.used, lv1, hf1)
  /\ s.used \subseteq s1.used /\ Room(s1.used) >= Room(s.used) - 2
  /\ r \in DOMAIN s1.mem /\ \A t \in DOMAIN s1.mem : lv1[t] = 3 <=> IsRoot(s.mem, lv, t)
  /\ Quiet(s.mem, s1.mem, lv1) /\ \A t \in DOMAIN s.mem : lv1[t] = lv[t]
  /\ HugeAt(s1.mem, r, w, e)
  /\ \A v \in Pages : \A x :
       Apart(v, w, 1..3) => (HugeAt(s1.mem, r, v, x) <=> HugeAt(s.mem, r, v, x))

LEMMA HugePut ==
  ASSUME NEW m, NEW u, NEW lv, NEW hf, Tables(m, u, lv, hf), NEW r, IsRoot(m, lv, r),
         NEW w \in Pages, NEW t, Dir(m, r, w, t), NEW f \in {0, Device},
         NEW m1, m1 = Put(m, t, Ix(w, 1), Huge(f))
  PROVE  /\ Tables(m1, u, lv, hf) /\ DOMAIN m1 = DOMAIN m /\ Quiet(m, m1, lv)
         /\ HugeAt(m1, r, w, Huge(f))
         /\ \A v \in Pages : \A x :
              Apart(v, w, 1..3) => (HugeAt(m1, r, v, x) <=> HugeAt(m, r, v, x))
<1>1. t \in DOMAIN m /\ lv[t] = 1
  BY DirLevels
<1>2. r \in DOMAIN m /\ lv[r] = 3 /\ r # t
  BY <1>1 DEF IsRoot
<1>3. \A v \in Pages : Ix(v, 1) \in Slots /\ Ix(v, 2) \in Slots /\ Ix(v, 3) \in Slots
  BY IxType
<1>4. /\ Tables(m1, u, lv, hf) /\ DOMAIN m1 = DOMAIN m
      /\ m1[t][Ix(w, 1)] = Huge(f)
      /\ \A s \in DOMAIN m, j \in Slots : ~(s = t /\ j = Ix(w, 1)) => m1[s][j] = m[s][j]
      /\ \A s \in DOMAIN m, j \in Slots : \A x : Leads(m1, s, j, x) => Leads(m, s, j, x)
  <2>1. Ix(w, 1) \in Slots /\ Tables(m, u, lv, hf) /\ f \in {0, Device}
    BY <1>3
  <2> QED
    BY ONLY <1>1, <2>1, PutHuge, m1 = Put(m, t, Ix(w, 1), Huge(f))
<1>5. ASSUME NEW s \in DOMAIN m, s # t, NEW j \in Slots, NEW x
      PROVE  Leads(m1, s, j, x) <=> Leads(m, s, j, x)
  BY <1>4, <1>5 DEF Leads
<1>6. ASSUME NEW v \in Pages, NEW x PROVE Dir(m1, r, v, x) <=> Dir(m, r, v, x)
  <2>1. ASSUME NEW t2 \in DOMAIN m, Leads(m, r, Ix(v, 3), t2) PROVE t2 # t
    BY <1>1, <1>2, <1>3, <2>1 DEF Tables, Levels
  <2>2. \A t2 : Leads(m1, r, Ix(v, 3), t2) <=> Leads(m, r, Ix(v, 3), t2)
    BY <1>2, <1>3, <1>5
  <2>3. \A t2 \in DOMAIN m : t2 # t => (Leads(m1, t2, Ix(v, 2), x) <=> Leads(m, t2, Ix(v, 2), x))
    BY <1>3, <1>5
  <2>4. DOMAIN m1 = DOMAIN m
    BY <1>4
  <2> QED
    BY ONLY <2>1, <2>2, <2>3, <2>4 DEF Dir
<1>7. HugeAt(m1, r, w, Huge(f))
  BY <1>1, <1>4, <1>6 DEF HugeAt, Huge
<1>8. ASSUME NEW v \in Pages, NEW x, Apart(v, w, 1..3)
      PROVE  HugeAt(m1, r, v, x) <=> HugeAt(m, r, v, x)
  <2>1. ASSUME NEW t1 \in DOMAIN m, Dir(m, r, v, t1)
        PROVE  m1[t1][Ix(v, 1)] = m[t1][Ix(v, 1)]
    <3>1. CASE t1 = t
      <4>1. Ix(v, 2) = Ix(w, 2) /\ Ix(v, 3) = Ix(w, 3)
        BY <2>1, <3>1, DirUnique
      <4>2. Ix(v, 1) # Ix(w, 1)
        <5>1. PICK l \in 1..3 : Ix(v, l) # Ix(w, l)
          BY <1>8 DEF Apart
        <5> QED
          BY <4>1, <5>1
      <4> QED
        BY <1>3, <1>4, <4>2
    <3>2. CASE t1 # t
      BY <1>3, <1>4, <3>2
    <3> QED
      BY <3>1, <3>2
  <2>2. \A t1 : Dir(m1, r, v, t1) <=> Dir(m, r, v, t1)
    BY <1>6
  <2>3. DOMAIN m1 = DOMAIN m
    BY <1>4
  <2> QED
    BY ONLY <2>1, <2>2, <2>3 DEF HugeAt
<1>9. Quiet(m, m1, lv)
  BY <1>4 DEF Quiet
<1> QED
  BY <1>4, <1>7, <1>8, <1>9

LEMMA MapHugeFacts ==
  ASSUME NEW s, NEW lv, NEW hf, Tables(s.mem, s.used, lv, hf), IsRoot(s.mem, lv, s.at),
         NEW w \in Pages, KernelSlot(Ix(w, 3)), NEW f \in {0, Device}, Room(s.used) >= 2
  PROVE  \E lv1, hf1 : Hung(s, lv, hf, s.at, w, Huge(f), MapHuge(s, w, f), lv1, hf1)
<1> DEFINE s3 == Descend(s, w, 3, FALSE)
           s2 == Descend(s3, w, 2, FALSE)
           s1 == MapHuge(s, w, f)
           m == s.mem
           u == s.used
           r == s.at
<1>1. s1.mem = Put(s2.mem, s2.at, Ix(w, 1), Huge(f)) /\ s1.used = s2.used
  <2>1. (1 = 1) = TRUE
    OBVIOUS
  <2>2. s1 = SetEntry(s2, w, 1, f, FALSE)
    BY DEF MapHuge, ToDirectory
  <2> HIDE DEF s1, s2
  <2>3. /\ s1.mem = Put(s2.mem, s2.at, Ix(w, 1), [f |-> f, user |-> FALSE, huge |-> 1 = 1])
        /\ s1.used = s2.used
    BY <2>2 DEF SetEntry
  <2> QED
    BY ONLY <2>1, <2>3 DEF Huge
<1> HIDE DEF s3, s2, s1, m, u, r
<1>2. Tables(m, u, lv, hf) /\ IsRoot(m, lv, r) /\ Room(u) >= 2
  BY DEF m, u, r
<1>3. Ix(w, 3) \in Slots /\ Ix(w, 2) \in Slots /\ r \in DOMAIN m /\ lv[r] = 3 /\ DOMAIN m \subseteq u
  BY <1>2, IxType DEF IsRoot, Tables, TablesType
<1>4. ASSUME NEW x, NEW lx, NEW hx, NEW l \in 1..3,
             At(x, lx, hx, l, TRUE), ~x.mem[x.at][Ix(w, l)].huge, Room(x.used) >= 1
      PROVE  \E ly, hy : Down(x, lx, hx, l, w, TRUE, Descend(x, w, l, FALSE), ly, hy)
  <2>1. TRUE = KernelSlot(Ix(w, 3)) /\ FALSE = ~TRUE
    BY DEF KernelSlot
  <2> DEFINE h == TRUE
  <2>2. h = KernelSlot(Ix(w, 3)) /\ (~h) = FALSE
    BY <2>1
  <2> HIDE DEF h
  <2>3. At(x, lx, hx, l, h)
    BY <1>4 DEF h
  <2>4. \E ly, hy : Down(x, lx, hx, l, w, h, Descend(x, w, l, ~h), ly, hy)
    BY ONLY <1>4, <2>2, <2>3, l \in 1..3, w \in Pages, DescendFacts
  <2> QED
    BY <2>2, <2>4 DEF h
<1>5. At(s, lv, hf, 3, TRUE) /\ ~s.mem[s.at][Ix(w, 3)].huge
  BY <1>2, <1>3 DEF At, Tables, Levels, m, u, r
<1>6. PICK lva, hfa : Down(s, lv, hf, 3, w, TRUE, s3, lva, hfa)
  <2>1. 3 \in 1..3 /\ Room(s.used) >= 1
    BY RoomType
  <2> QED
    BY ONLY <1>4, <1>5, <2>1 DEF s3
<1>7. /\ At(s3, lva, hfa, 2, TRUE) /\ Extends(m, u, lv, hf, s3.mem, lva, hfa)
      /\ Quiet(m, s3.mem, lva) /\ Leads(s3.mem, r, Ix(w, 3), s3.at)
      /\ u \subseteq s3.used /\ Room(s3.used) >= Room(u) - 1
  <2>1. 3 - 1 = 2
    OBVIOUS
  <2>2. At(s3, lva, hfa, 2, TRUE)
    BY ONLY <1>6, <2>1 DEF Down
  <2> QED
    BY ONLY <1>6, <2>2 DEF Down, m, u, r
<1>8. ~s3.mem[s3.at][Ix(w, 2)].huge /\ Room(s3.used) >= 1
  <2>1. Room(s3.used) \in Nat /\ Room(u) \in Nat
    BY RoomType
  <2> QED
    BY <1>2, <1>3, <1>7, <2>1 DEF At, Tables, Levels
<1>9. PICK lv1, hf1 : Down(s3, lva, hfa, 2, w, TRUE, s2, lv1, hf1)
  <2>1. 2 \in 1..3
    OBVIOUS
  <2> QED
    BY ONLY <1>4, <1>7, <1>8, <2>1 DEF s2
<1>10. /\ At(s2, lv1, hf1, 1, TRUE) /\ Extends(s3.mem, s3.used, lva, hfa, s2.mem, lv1, hf1)
       /\ Quiet(s3.mem, s2.mem, lv1) /\ Leads(s2.mem, s3.at, Ix(w, 2), s2.at)
       /\ s3.used \subseteq s2.used /\ Room(s2.used) >= Room(s3.used) - 1
  <2>1. 2 - 1 = 1
    OBVIOUS
  <2>2. At(s2, lv1, hf1, 1, TRUE)
    BY ONLY <1>9, <2>1 DEF Down
  <2> QED
    BY ONLY <1>9, <2>2 DEF Down
<1>11. Extends(m, u, lv, hf, s2.mem, lv1, hf1) /\ Quiet(m, s2.mem, lv1)
  <2>1. \A t \in DOMAIN s3.mem : lv1[t] = lva[t]
    BY <1>10 DEF Extends
  <2> QED
    BY ONLY <2>1, <1>7, <1>10, ExtendsTrans, QuietTrans
<1>12. Dir(s2.mem, r, w, s2.at)
  <2>1. s3.at \in DOMAIN s3.mem /\ r \in DOMAIN s3.mem
    BY <1>3, <1>7 DEF At, Extends
  <2>2. s3.at \in DOMAIN s2.mem /\ Leads(s2.mem, r, Ix(w, 3), s3.at)
    BY <1>3, <1>7, <1>10, <2>1 DEF Extends, Leads
  <2> QED
    BY <1>10, <2>2 DEF Dir
<1>13. /\ Tables(s2.mem, s2.used, lv1, hf1) /\ IsRoot(s2.mem, lv1, r)
       /\ \A t \in DOMAIN s2.mem : lv1[t] = 3 <=> IsRoot(m, lv, t)
       /\ \A t \in DOMAIN m : lv1[t] = lv[t]
  BY <1>3, <1>10, <1>11 DEF At, Extends, IsRoot
<1>14. /\ Tables(s1.mem, s2.used, lv1, hf1) /\ DOMAIN s1.mem = DOMAIN s2.mem
       /\ Quiet(s2.mem, s1.mem, lv1) /\ HugeAt(s1.mem, r, w, Huge(f))
       /\ \A v \in Pages : \A x :
            Apart(v, w, 1..3) => (HugeAt(s1.mem, r, v, x) <=> HugeAt(s2.mem, r, v, x))
  <2>1. w \in Pages /\ f \in {0, Device}
    OBVIOUS
  <2> QED
    BY ONLY <1>1, <1>12, <1>13, <2>1, HugePut
<1>15. ASSUME NEW v \in Pages, NEW x PROVE HugeAt(s2.mem, r, v, x) <=> HugeAt(m, r, v, x)
  BY <1>3, <1>11, HugeExtends
<1>16. u \subseteq s1.used /\ Room(s1.used) >= Room(u) - 2
  <2>1. Room(s3.used) \in Nat /\ Room(u) \in Nat /\ Room(s2.used) \in Nat
    BY RoomType
  <2> QED
    BY <1>1, <1>7, <1>10, <2>1
<1>17. Quiet(m, s1.mem, lv1)
  BY <1>11, <1>14 DEF Quiet
<1>18. r \in DOMAIN s1.mem /\ \A t \in DOMAIN s1.mem : lv1[t] = 3 <=> IsRoot(m, lv, t)
  BY <1>13, <1>14 DEF IsRoot
<1>19. Hung(s, lv, hf, r, w, Huge(f), s1, lv1, hf1)
  BY <1>1, <1>13, <1>14, <1>15, <1>16, <1>17, <1>18 DEF Hung, m, u
<1> QED
  BY <1>19 DEF s1, r
-----------------------------------------------------------------------------
(* The entry the walk of page v ends at, and what the hardware makes of it. *)
Entry(m, r, v) == m[GetEntry(m, r, v).at][GetEntry(m, r, v).i]
Tr(m, r, v) ==
  LET w == Walk(m, r, v)
      entry(k) == m[w[k]][Ix(v, 4 - k)]
  IN [f |-> entry(Len(w)).f, user |-> \A k \in DOMAIN w : entry(k).user]

(* The walk ends in table t of level l, after entries that let user code   *)
(* through or, without `open`, do not.                                     *)
EndsAt(m, r, v, t, l, open) ==
  /\ GetEntry(m, r, v) = [at |-> t, i |-> Ix(v, l)]
  /\ Tr(m, r, v) = [f |-> m[t][Ix(v, l)].f, user |-> m[t][Ix(v, l)].user /\ open]

LEMMA EndsAt3 ==
  ASSUME NEW m, NEW r, NEW v, Walk(m, r, v) = <<r>>
  PROVE  EndsAt(m, r, v, r, 3, TRUE)
<1> DEFINE w == Walk(m, r, v)
           e(k) == m[w[k]][Ix(v, 4 - k)]
<1>1. Len(w) = 1 /\ w[1] = r /\ 4 - 1 = 3
  OBVIOUS
<1>2. DOMAIN w = {1}
  OBVIOUS
<1>3. GetEntry(m, r, v) = [at |-> r, i |-> Ix(v, 3)]
  BY <1>1 DEF GetEntry
<1>4. Tr(m, r, v) = [f |-> e(Len(w)).f, user |-> \A k \in DOMAIN w : e(k).user]
  BY DEF Tr
<1> HIDE DEF w
<1>5. (\A k \in DOMAIN w : e(k).user) <=> (m[r][Ix(v, 3)].user /\ TRUE)
  BY ONLY <1>1, <1>2
<1>6. e(Len(w)).f = m[r][Ix(v, 3)].f
  BY ONLY <1>1
<1> QED
  BY ONLY <1>3, <1>4, <1>5, <1>6 DEF EndsAt

LEMMA EndsAt2 ==
  ASSUME NEW m, NEW r, NEW v, NEW a, Walk(m, r, v) = <<r, a>>
  PROVE  EndsAt(m, r, v, a, 2, m[r][Ix(v, 3)].user)
<1> DEFINE w == Walk(m, r, v)
           e(k) == m[w[k]][Ix(v, 4 - k)]
<1>1. Len(w) = 2 /\ w[1] = r /\ w[2] = a /\ 4 - 1 = 3 /\ 4 - 2 = 2
  OBVIOUS
<1>2. DOMAIN w = {1, 2}
  OBVIOUS
<1>3. GetEntry(m, r, v) = [at |-> a, i |-> Ix(v, 2)]
  BY <1>1 DEF GetEntry
<1>4. Tr(m, r, v) = [f |-> e(Len(w)).f, user |-> \A k \in DOMAIN w : e(k).user]
  BY DEF Tr
<1> HIDE DEF w
<1>5. (\A k \in DOMAIN w : e(k).user) <=> (m[a][Ix(v, 2)].user /\ m[r][Ix(v, 3)].user)
  BY ONLY <1>1, <1>2
<1>6. e(Len(w)).f = m[a][Ix(v, 2)].f
  BY ONLY <1>1
<1> QED
  BY ONLY <1>3, <1>4, <1>5, <1>6 DEF EndsAt

LEMMA EndsAt1 ==
  ASSUME NEW m, NEW r, NEW v, NEW a, NEW b, Walk(m, r, v) = <<r, a, b>>
  PROVE  EndsAt(m, r, v, b, 1, m[r][Ix(v, 3)].user /\ m[a][Ix(v, 2)].user)
<1> DEFINE w == Walk(m, r, v)
           e(k) == m[w[k]][Ix(v, 4 - k)]
<1>1. /\ Len(w) = 3 /\ w[1] = r /\ w[2] = a /\ w[3] = b
      /\ 4 - 1 = 3 /\ 4 - 2 = 2 /\ 4 - 3 = 1
  OBVIOUS
<1>2. DOMAIN w = {1, 2, 3}
  OBVIOUS
<1>3. GetEntry(m, r, v) = [at |-> b, i |-> Ix(v, 1)]
  BY <1>1 DEF GetEntry
<1>4. Tr(m, r, v) = [f |-> e(Len(w)).f, user |-> \A k \in DOMAIN w : e(k).user]
  BY DEF Tr
<1> HIDE DEF w
<1>5. (\A k \in DOMAIN w : e(k).user)
        <=> (m[b][Ix(v, 1)].user /\ (m[r][Ix(v, 3)].user /\ m[a][Ix(v, 2)].user))
  BY ONLY <1>1, <1>2
<1>6. e(Len(w)).f = m[b][Ix(v, 1)].f
  BY ONLY <1>1
<1> QED
  BY ONLY <1>3, <1>4, <1>5, <1>6 DEF EndsAt

LEMMA EndsAt0 ==
  ASSUME NEW m, NEW r, NEW v, NEW a, NEW b, NEW c, Walk(m, r, v) = <<r, a, b, c>>
  PROVE  EndsAt(m, r, v, c, 0,
                m[r][Ix(v, 3)].user /\ m[a][Ix(v, 2)].user /\ m[b][Ix(v, 1)].user)
<1> DEFINE w == Walk(m, r, v)
           e(k) == m[w[k]][Ix(v, 4 - k)]
<1>1. /\ Len(w) = 4 /\ w[1] = r /\ w[2] = a /\ w[3] = b /\ w[4] = c
      /\ 4 - 1 = 3 /\ 4 - 2 = 2 /\ 4 - 3 = 1 /\ 4 - 4 = 0
  OBVIOUS
<1>2. DOMAIN w = {1, 2, 3, 4}
  OBVIOUS
<1>3. GetEntry(m, r, v) = [at |-> c, i |-> Ix(v, 0)]
  BY <1>1 DEF GetEntry
<1>4. Tr(m, r, v) = [f |-> e(Len(w)).f, user |-> \A k \in DOMAIN w : e(k).user]
  BY DEF Tr
<1> HIDE DEF w
<1>5. (\A k \in DOMAIN w : e(k).user)
        <=> (m[c][Ix(v, 0)].user /\
              (m[r][Ix(v, 3)].user /\ m[a][Ix(v, 2)].user /\ m[b][Ix(v, 1)].user))
  BY ONLY <1>1, <1>2
<1>6. e(Len(w)).f = m[c][Ix(v, 0)].f
  BY ONLY <1>1
<1> QED
  BY ONLY <1>3, <1>4, <1>5, <1>6 DEF EndsAt
LEMMA EndsClosed ==
  ASSUME NEW m, NEW r, NEW v, NEW t, NEW l, NEW open, EndsAt(m, r, v, t, l, open),
         NEW e, m[t][Ix(v, l)] = e, e.user = FALSE
  PROVE  Entry(m, r, v) = e /\ Tr(m, r, v) = [f |-> e.f, user |-> FALSE]
<1>1. GetEntry(m, r, v).at = t /\ GetEntry(m, r, v).i = Ix(v, l)
  BY DEF EndsAt
<1>2. Entry(m, r, v) = e
  BY <1>1 DEF Entry
<1>3. (m[t][Ix(v, l)].user /\ open) <=> FALSE
  OBVIOUS
<1>4. m[t][Ix(v, l)].f = e.f
  OBVIOUS
<1>5. Tr(m, r, v) = [f |-> m[t][Ix(v, l)].f, user |-> m[t][Ix(v, l)].user /\ open]
  BY DEF EndsAt
<1>6. Tr(m, r, v) = [f |-> e.f, user |-> FALSE]
  BY ONLY <1>3, <1>4, <1>5
<1> QED
  BY <1>2, <1>6

(* A walk ends at an empty entry, at a 2 MB page or at a 4 KB page, and    *)
(* then a page has but this one translation.                               *)
Absent(m, r, v) ==
  /\ Entry(m, r, v) = NoEntry /\ Tr(m, r, v) = [f |-> NotMapped, user |-> FALSE]
  /\ \A x : ~Maps(m, r, v, x) /\ ~HugeAt(m, r, v, x)
IsHuge(m, r, v, e) ==
  /\ HugeAt(m, r, v, e) /\ Entry(m, r, v) = e /\ Tr(m, r, v) = [f |-> e.f, user |-> FALSE]
  /\ \A x : ~Maps(m, r, v, x) /\ (HugeAt(m, r, v, x) => x = e)
IsSmall(m, r, v, t, f) ==
  /\ t \in DOMAIN m /\ Leaf(m, r, v, t) /\ Leads(m, t, Ix(v, 0), f)
  /\ GetEntry(m, r, v) = [at |-> t, i |-> Ix(v, 0)]
  /\ Tr(m, r, v) = [f |-> f, user |-> ~KernelSlot(Ix(v, 3))]
  /\ \A x : ~HugeAt(m, r, v, x) /\ (Maps(m, r, v, x) => x = f)

LEMMA WalkFacts ==
  ASSUME NEW m, NEW u, NEW lv, NEW hf, Tables(m, u, lv, hf), NEW r, IsRoot(m, lv, r),
         NEW v \in Pages
  PROVE  \/ Absent(m, r, v)
         \/ \E e : IsHuge(m, r, v, e)
         \/ \E t, f : IsSmall(m, r, v, t, f)
<1> DEFINE e3 == m[r][Ix(v, 3)]
           a == e3.f
           e2 == m[a][Ix(v, 2)]
           b == e2.f
           e1 == m[b][Ix(v, 1)]
           c == e1.f
           e0 == m[c][Ix(v, 0)]
           h == KernelSlot(Ix(v, 3))
<1>1. /\ Ix(v, 3) \in Slots /\ Ix(v, 2) \in Slots /\ Ix(v, 1) \in Slots /\ Ix(v, 0) \in Slots
      /\ r \in DOMAIN m /\ lv[r] = 3
  BY IxType DEF IsRoot
<1>2. ASSUME NEW t \in DOMAIN m, NEW i \in Slots, m[t][i] # NoEntry, lv[t] # 1
      PROVE  ~m[t][i].huge /\ Leads(m, t, i, m[t][i].f)
  BY <1>2 DEF Leads, Tables, Levels
<1>3. ASSUME NEW t \in DOMAIN m, NEW i \in Slots, NEW n, Leads(m, t, i, n), lv[t] > 0
      PROVE  /\ n \in DOMAIN m /\ lv[n] = lv[t] - 1 /\ hf[n] = Half(lv, hf, t, i)
             /\ m[t][i].user = ~Half(lv, hf, t, i)
  BY <1>3 DEF Tables, Levels
<1>4. NoEntry.f = NotMapped /\ NoEntry.user = FALSE /\ ~NoEntry.huge
  BY Numbers
<1>5. Walk(m, r, v) =
        CASE (e3 = NoEntry \/ e3.huge) -> <<r>>
          [] ~(e3 = NoEntry \/ e3.huge) /\ (e2 = NoEntry \/ e2.huge) -> <<r, a>>
          [] ~(e3 = NoEntry \/ e3.huge) /\ ~(e2 = NoEntry \/ e2.huge)
               /\ (e1 = NoEntry \/ e1.huge) -> <<r, a, b>>
          [] OTHER -> <<r, a, b, c>>
  BY DEF Walk
<1>6. ASSUME NEW x, Dir(m, r, v, x)
      PROVE  e3 # NoEntry /\ ~e3.huge /\ e2 # NoEntry /\ ~e2.huge /\ x = b
  BY <1>6 DEF Dir, Leads
<1>7. (\E x : Maps(m, r, v, x) \/ HugeAt(m, r, v, x)) => \E x : Dir(m, r, v, x)
  BY DEF Maps, Leaf, HugeAt
<1> HIDE DEF e3, a, e2, b, e1, c, e0, h
<1>8. CASE e3 = NoEntry
  <2>1. Walk(m, r, v) = <<r>>
    BY ONLY <1>5, <1>8
  <2>2. EndsAt(m, r, v, r, 3, TRUE)
    BY <2>1, EndsAt3
  <2>3. Entry(m, r, v) = NoEntry /\ Tr(m, r, v) = [f |-> NotMapped, user |-> FALSE]
    BY ONLY <1>4, <1>8, <2>2, EndsClosed DEF e3
  <2>4. \A x : ~Maps(m, r, v, x) /\ ~HugeAt(m, r, v, x)
    BY <1>6, <1>7, <1>8
  <2> QED
    BY <2>3, <2>4 DEF Absent
<1>9. CASE e3 # NoEntry
  <2>1. ~e3.huge /\ Leads(m, r, Ix(v, 3), a) /\ lv[r] # 1 /\ lv[r] > 0
    BY <1>1, <1>2, <1>9 DEF e3, a
  <2>2. a \in DOMAIN m /\ lv[a] = 2 /\ hf[a] = h /\ e3.user = ~h
    BY <1>1, <1>3, <2>1 DEF Half, e3, h
  <2>3. CASE e2 = NoEntry
    <3>1. Walk(m, r, v) = <<r, a>>
      BY ONLY <1>5, <1>9, <2>1, <2>3
    <3>2. EndsAt(m, r, v, a, 2, m[r][Ix(v, 3)].user)
      BY <3>1, EndsAt2
    <3>3. Entry(m, r, v) = NoEntry /\ Tr(m, r, v) = [f |-> NotMapped, user |-> FALSE]
      BY ONLY <1>4, <2>3, <3>2, EndsClosed DEF e2
    <3>4. \A x : ~Maps(m, r, v, x) /\ ~HugeAt(m, r, v, x)
      BY <1>6, <1>7, <2>3
    <3> QED
      BY <3>3, <3>4 DEF Absent
  <2>4. CASE e2 # NoEntry
    <3>1. ~e2.huge /\ Leads(m, a, Ix(v, 2), b) /\ lv[a] > 0
      BY <1>1, <1>2, <2>2, <2>4 DEF e2, b
    <3>2. b \in DOMAIN m /\ lv[b] = 1 /\ hf[b] = h /\ e2.user = ~h
      BY <1>1, <1>3, <2>2, <3>1 DEF Half, e2
    <3>3. Dir(m, r, v, b)
      BY <2>1, <2>2, <3>1 DEF Dir
    <3>4. ASSUME NEW x
          PROVE  /\ HugeAt(m, r, v, x) => x = e1 /\ e1.huge
                 /\ \A t : Leaf(m, r, v, t) => e1 # NoEntry /\ ~e1.huge /\ t = c
      BY <1>6 DEF HugeAt, Leaf, Leads, e1, c
    <3>5. (\E x : Maps(m, r, v, x)) => \E t : Leaf(m, r, v, t)
      BY DEF Maps
    <3>6. CASE e1 = NoEntry
      <4>1. Walk(m, r, v) = <<r, a, b>>
        BY ONLY <1>5, <1>9, <2>1, <2>4, <3>1, <3>6
      <4>2. EndsAt(m, r, v, b, 1, m[r][Ix(v, 3)].user /\ m[a][Ix(v, 2)].user)
        BY <4>1, EndsAt1
      <4>3. Entry(m, r, v) = NoEntry /\ Tr(m, r, v) = [f |-> NotMapped, user |-> FALSE]
        <5>1. e1.user = FALSE
          BY ONLY <1>4, <3>6
        <5>2. Entry(m, r, v) = e1 /\ Tr(m, r, v) = [f |-> e1.f, user |-> FALSE]
          BY ONLY <4>2, <5>1, EndsClosed DEF e1
        <5> QED
          BY ONLY <1>4, <3>6, <5>2
      <4>4. \A x : ~Maps(m, r, v, x) /\ ~HugeAt(m, r, v, x)
        BY <1>4, <3>4, <3>5, <3>6
      <4> QED
        BY <4>3, <4>4 DEF Absent
    <3>7. CASE e1.huge
      <4>1. Walk(m, r, v) = <<r, a, b>>
        BY ONLY <1>5, <1>9, <2>1, <2>4, <3>1, <3>7
      <4>2. EndsAt(m, r, v, b, 1, m[r][Ix(v, 3)].user /\ m[a][Ix(v, 2)].user)
        BY <4>1, EndsAt1
      <4>3. e1.user = FALSE
        BY <1>1, <3>2, <3>7 DEF Tables, Levels, e1
      <4>4. Entry(m, r, v) = e1 /\ Tr(m, r, v) = [f |-> e1.f, user |-> FALSE]
        BY ONLY <4>2, <4>3, EndsClosed DEF e1
      <4>5. HugeAt(m, r, v, e1)
        BY <3>2, <3>3, <3>7 DEF HugeAt, e1
      <4>6. \A x : ~Maps(m, r, v, x) /\ (HugeAt(m, r, v, x) => x = e1)
        BY <3>4, <3>5, <3>7
      <4>7. IsHuge(m, r, v, e1)
        BY <4>4, <4>5, <4>6 DEF IsHuge
      <4> QED
        BY <4>7
    <3>8. CASE e1 # NoEntry /\ ~e1.huge
      <4>1. Walk(m, r, v) = <<r, a, b, c>>
        BY ONLY <1>5, <1>9, <2>1, <2>4, <3>1, <3>8
      <4>2. EndsAt(m, r, v, c, 0,
                   m[r][Ix(v, 3)].user /\ m[a][Ix(v, 2)].user /\ m[b][Ix(v, 1)].user)
        BY <4>1, EndsAt0
      <4>3. Leads(m, b, Ix(v, 1), c) /\ lv[b] > 0
        BY <3>2, <3>8 DEF Leads, e1, c
      <4>4. c \in DOMAIN m /\ lv[c] = 0 /\ hf[c] = h /\ e1.user = ~h
        BY <1>1, <1>3, <3>2, <4>3 DEF Half, e1
      <4>5. Leaf(m, r, v, c)
        BY <3>2, <3>3, <4>3 DEF Leaf
      <4>6. GetEntry(m, r, v) = [at |-> c, i |-> Ix(v, 0)]
        BY <4>2 DEF EndsAt
      <4>7. \A x : ~HugeAt(m, r, v, x)
        BY <3>4, <3>8
      <4>8. ASSUME NEW x, Maps(m, r, v, x) PROVE Leads(m, c, Ix(v, 0), x)
        BY <3>4, <4>8 DEF Maps
      <4>9. CASE e0 = NoEntry
        <5>1. Entry(m, r, v) = NoEntry /\ Tr(m, r, v) = [f |-> NotMapped, user |-> FALSE]
          BY ONLY <1>4, <4>2, <4>9, EndsClosed DEF e0
        <5>2. \A x : ~Maps(m, r, v, x)
          BY <4>8, <4>9 DEF Leads, e0
        <5> QED
          BY <4>7, <5>1, <5>2 DEF Absent
      <4>10. CASE e0 # NoEntry
        <5>1. Leads(m, c, Ix(v, 0), e0.f) /\ lv[c] # 3
          BY <1>1, <1>2, <4>4, <4>10 DEF e0
        <5>2. e0.user = ~h
          BY <1>1, <4>4, <5>1 DEF Tables, Levels, Half, e0
        <5>3. h \in BOOLEAN
          BY DEF h, KernelSlot
        <5>4. e0.user /\ (e3.user /\ e2.user /\ e1.user) <=> ~h
          BY ONLY <2>2, <3>2, <4>4, <5>2, <5>3
        <5>5. Tr(m, r, v) = [f |-> e0.f, user |-> e0.user /\ (e3.user /\ e2.user /\ e1.user)]
          BY ONLY <4>2 DEF EndsAt, e0, e1, e2, e3
        <5>6. Tr(m, r, v) = [f |-> e0.f, user |-> ~h]
          BY ONLY <5>4, <5>5
        <5>7. \A x : Maps(m, r, v, x) => x = e0.f
          BY <4>8, <5>1 DEF Leads
        <5>8. IsSmall(m, r, v, c, e0.f)
          BY <4>4, <4>5, <4>6, <4>7, <5>1, <5>6, <5>7 DEF IsSmall, h
        <5> QED
          BY <5>8
      <4> QED
        BY <4>9, <4>10
    <3> QED
      BY <3>6, <3>7, <3>8
  <2> QED
    BY <2>3, <2>4
<1> QED
  BY <1>8, <1>9
-----------------------------------------------------------------------------
(* The inductive invariant. The PML4s are those of the address spaces that *)
(* are made; no small page lies under a 2 MB entry; the kernel's half of   *)
(* each is the kernel's own; what boot has mapped is mapped.               *)
Good(m, u, p, lv, hf) ==
  /\ Tables(m, u, lv, hf)
  /\ p \in [Spaces -> DOMAIN m \cup {NotMapped}] /\ p[kernel] # NotMapped
  /\ \A a \in Spaces : p[a] # NotMapped => IsRoot(m, lv, p[a])
  /\ \A a, b \in Spaces : p[a] # NotMapped /\ p[a] = p[b] => a = b
  /\ \A t \in DOMAIN m : lv[t] = 3 => \E a \in Spaces : p[a] = t

Kept(m, u, p) ==
  /\ \A a \in Spaces : p[a] # NotMapped =>
       /\ \A v \in SmallPages : \A e : ~HugeAt(m, p[a], v, e)
       /\ \A i \in Slots : KernelSlot(i) => m[p[a]][i] = m[p[kernel]][i]
  /\ HugeAt(m, p[kernel], DirectPage, Huge(0)) /\ HugeAt(m, p[kernel], LfbPage, Huge(Device))
  /\ \E f \in u \ Reserved : Maps(m, p[kernel], BufferPage, f)

PInv == \E lv, hf : Good(mem, used, pml4, lv, hf) /\ Kept(mem, used, pml4)

LEMMA MapsExtends ==
  ASSUME NEW m, NEW u, NEW lv, NEW hf, NEW m1, NEW lv1, NEW hf1,
         Extends(m, u, lv, hf, m1, lv1, hf1), DOMAIN m \subseteq u,
         NEW r \in DOMAIN m, NEW v \in Pages, NEW f, Maps(m, r, v, f)
  PROVE  Maps(m1, r, v, f)
<1>1. PICK t0 \in DOMAIN m : Leaf(m, r, v, t0) /\ Leads(m, t0, Ix(v, 0), f)
  BY DEF Maps
<1>2. Leaf(m1, r, v, t0)
  BY <1>1, LeafExtends
<1>3. t0 \in DOMAIN m1 /\ Leads(m1, t0, Ix(v, 0), f)
  BY <1>1, IxType DEF Extends, Leads
<1> QED
  BY <1>2, <1>3 DEF Maps

(* Two PML4s with the same entry for a page show the same page.            *)
LEMMA SharedWays ==
  ASSUME NEW m, NEW r, NEW q, NEW v, m[r][Ix(v, 3)] = m[q][Ix(v, 3)]
  PROVE  /\ \A x : Leaf(m, r, v, x) <=> Leaf(m, q, v, x)
         /\ \A x : Maps(m, r, v, x) <=> Maps(m, q, v, x)
         /\ \A x : HugeAt(m, r, v, x) <=> HugeAt(m, q, v, x)
<1>1. \A x : Leads(m, r, Ix(v, 3), x) <=> Leads(m, q, Ix(v, 3), x)
  BY DEF Leads
<1>2. \A x : Dir(m, r, v, x) <=> Dir(m, q, v, x)
  BY ONLY <1>1 DEF Dir
<1>3. \A x : Leaf(m, r, v, x) <=> Leaf(m, q, v, x)
  BY ONLY <1>2 DEF Leaf
<1>4. \A x : HugeAt(m, r, v, x) <=> HugeAt(m, q, v, x)
  BY ONLY <1>2 DEF HugeAt
<1>5. \A x : Maps(m, r, v, x) <=> Maps(m, q, v, x)
  BY ONLY <1>3 DEF Maps
<1> QED
  BY ONLY <1>3, <1>4, <1>5

(* Every PML4 entry that a kernel page goes through is in use.             *)
LEMMA KernelEntries ==
  ASSUME NEW m, NEW u, NEW p, Kept(m, u, p), NEW v \in KernelPages \cup BootPages
  PROVE  m[p[kernel]][Ix(v, 3)] # NoEntry
<1>1. ASSUME NEW w \in BootPages PROVE m[p[kernel]][Ix(w, 3)] # NoEntry
  <2>1. \E x : HugeAt(m, p[kernel], w, x) \/ Maps(m, p[kernel], w, x)
    BY DEF BootPages, HugePages, Kept
  <2> QED
    BY <2>1 DEF HugeAt, Maps, Leaf, Dir, Leads
<1>2. CASE v \in KernelPages
  <2>1. PICK w \in BootPages : Ix(v, 3) = Ix(w, 3)
    BY <1>2, PagingShape DEF BootPages
  <2> QED
    BY <1>1, <2>1
<1> QED
  BY <1>1, <1>2

(* Page v is the one page that was added, in address space a or, for a     *)
(* kernel page, in all; the one that was removed.                          *)
Touched(a, v, b, w) == w = v /\ (b = a \/ KernelSlot(Ix(v, 3)))
Added(m, p, a, v, f, m1) ==
  \A b \in Spaces, w \in SmallPages : \A x : p[b] # NotMapped =>
    (Maps(m1, p[b], w, x) <=> (Maps(m, p[b], w, x) \/ (Touched(a, v, b, w) /\ x = f)))
Removed(m, p, a, v, m1) ==
  \A b \in Spaces, w \in SmallPages : \A x : p[b] # NotMapped =>
    (Maps(m1, p[b], w, x) <=> (Maps(m, p[b], w, x) /\ ~Touched(a, v, b, w)))

(* Only one page leads to an entry of a page table.                        *)
LEMMA OnePage ==
  ASSUME NEW m, NEW u, NEW p, NEW lv, NEW hf, Good(m, u, p, lv, hf),
         NEW a \in Spaces, p[a] # NotMapped, NEW b \in Spaces, p[b] # NotMapped,
         NEW v \in SmallPages, NEW w \in SmallPages,
         NEW t, Leaf(m, p[a], v, t), Leaf(m, p[b], w, t), Ix(v, 0) = Ix(w, 0)
  PROVE  Touched(a, v, b, w)
<1>1. /\ Ix(v, 1) = Ix(w, 1) /\ Ix(v, 2) = Ix(w, 2) /\ Ix(v, 3) = Ix(w, 3)
      /\ p[a] = p[b] \/ KernelSlot(Ix(v, 3))
  BY LeafUnique DEF Good, Pages
<1>2. a = b \/ KernelSlot(Ix(v, 3))
  BY <1>1 DEF Good
<1>3. ~Apart(v, w, 0..3)
  <2>1. \A l \in 0..3 : l = 0 \/ l = 1 \/ l = 2 \/ l = 3
    OBVIOUS
  <2> QED
    BY <1>1, <2>1 DEF Apart
<1> QED
  BY <1>2, <1>3, PagingShape DEF Touched
LEMMA GrownGood ==
  ASSUME NEW m, NEW u, NEW p, NEW lv, NEW hf, Good(m, u, p, lv, hf),
         NEW r, NEW v, NEW f, NEW s1, NEW lv1, NEW hf1, Grown(m, u, lv, hf, r, v, f, s1, lv1, hf1)
  PROVE  Good(s1.mem, s1.used, p, lv1, hf1)
<1>1. /\ Tables(s1.mem, s1.used, lv1, hf1) /\ DOMAIN m \subseteq DOMAIN s1.mem
      /\ \A t \in DOMAIN m : lv1[t] = lv[t]
      /\ \A t \in DOMAIN s1.mem : t \notin DOMAIN m => lv1[t] # 3
  BY DEF Grown, Extends
<1>2. p \in [Spaces -> DOMAIN s1.mem \cup {NotMapped}]
  <2>1. DOMAIN m \cup {NotMapped} \subseteq DOMAIN s1.mem \cup {NotMapped}
    BY <1>1
  <2> QED
    BY <2>1 DEF Good
<1>3. \A a \in Spaces : p[a] # NotMapped => IsRoot(s1.mem, lv1, p[a])
  BY <1>1 DEF Good, IsRoot
<1>4. \A t \in DOMAIN s1.mem : lv1[t] = 3 => \E a \in Spaces : p[a] = t
  BY <1>1 DEF Good
<1> QED
  BY <1>1, <1>2, <1>3, <1>4 DEF Good

(* vmm_map_page of page v in address space a.                              *)
LEMMA MapKeeps ==
  ASSUME NEW m, NEW u, NEW p, NEW lv, NEW hf, Good(m, u, p, lv, hf), Kept(m, u, p),
         NEW a \in Spaces, p[a] # NotMapped, NEW v \in SmallPages,
         NEW f \in Frames \ u, NEW s1, NEW lv1, NEW hf1,
         Grown(m, u, lv, hf, p[a], v, f, s1, lv1, hf1)
  PROVE  /\ Good(s1.mem, s1.used, p, lv1, hf1) /\ Kept(s1.mem, s1.used, p)
         /\ Added(m, p, a, v, f, s1.mem)
<1> DEFINE m1 == s1.mem
<1>1. Good(m1, s1.used, p, lv1, hf1)
  BY GrownGood
<1> HIDE DEF m1
<1>2. /\ Extends(m, u, lv, hf, m1, lv1, hf1) /\ DOMAIN m \subseteq u /\ u \subseteq s1.used
      /\ Tables(m, u, lv, hf) /\ Tables(m1, s1.used, lv1, hf1)
  BY <1>1 DEF Grown, Good, Tables, TablesType, m1
<1>3. ASSUME NEW b \in Spaces, p[b] # NotMapped
      PROVE  p[b] \in DOMAIN m /\ IsRoot(m, lv, p[b]) /\ IsRoot(m1, lv1, p[b])
  BY <1>1, <1>3 DEF Good, IsRoot
<1>4. kernel \in Spaces /\ p[kernel] # NotMapped
  BY DEF Good, Spaces
<1>5. SmallPages \subseteq Pages /\ HugePages \subseteq Pages /\ BufferPage \in SmallPages
  BY DEF Pages, SmallPages
<1>6. ASSUME NEW b \in Spaces, p[b] # NotMapped, NEW w \in Pages, NEW x
      PROVE  HugeAt(m1, p[b], w, x) <=> HugeAt(m, p[b], w, x)
  BY <1>2, <1>3, <1>6, HugeExtends
<1>7. ASSUME NEW b \in Spaces, p[b] # NotMapped, NEW w \in SmallPages, NEW x, Maps(m, p[b], w, x)
      PROVE  Maps(m1, p[b], w, x)
  BY <1>2, <1>3, <1>5, <1>7, MapsExtends
<1>8. ASSUME NEW b \in Spaces, p[b] # NotMapped, NEW i \in Slots, KernelSlot(i)
      PROVE  m1[p[b]][i] = m1[p[kernel]][i]
  <2>1. m[p[b]][i] = m[p[kernel]][i]
    BY <1>8 DEF Kept
  <2>2. CASE i # Ix(v, 3)
    <3>1. ASSUME NEW t \in DOMAIN m, lv[t] = 3 PROVE m1[t][i] = m[t][i]
      BY <2>2, <3>1 DEF Grown, m1
    <3> QED
      BY <1>3, <1>4, <1>8, <2>1, <3>1 DEF IsRoot
  <2>3. CASE i = Ix(v, 3)
    <3>1. v \in KernelPages \cup BootPages
      BY <1>8, <2>3, PagingShape DEF SmallPages, BootPages
    <3>2. m[p[kernel]][i] # NoEntry
      BY <2>3, <3>1, KernelEntries
    <3>3. ASSUME NEW t \in DOMAIN m, lv[t] = 3, m[t][i] # NoEntry PROVE m1[t][i] = m[t][i]
      <4>1. ~m[t][i].huge
        BY <1>2, <3>3 DEF Tables, Levels
      <4>2. Leads(m, t, i, m[t][i].f)
        BY <3>3, <4>1 DEF Leads
      <4> QED
        BY <1>2, <4>2 DEF Extends
    <3> QED
      BY <1>3, <1>4, <1>8, <2>1, <3>2, <3>3 DEF IsRoot
  <2> QED
    BY <2>2, <2>3
<1>9. Kept(m1, s1.used, p)
  <2>1. ASSUME NEW b \in Spaces, p[b] # NotMapped, NEW w \in SmallPages, NEW e
        PROVE  ~HugeAt(m1, p[b], w, e)
    BY <1>5, <1>6, <2>1 DEF Kept
  <2>2. HugeAt(m1, p[kernel], DirectPage, Huge(0)) /\ HugeAt(m1, p[kernel], LfbPage, Huge(Device))
    BY <1>4, <1>5, <1>6 DEF Kept, HugePages
  <2>3. \E x \in s1.used \ Reserved : Maps(m1, p[kernel], BufferPage, x)
    BY <1>2, <1>4, <1>5, <1>7 DEF Kept
  <2> QED
    BY ONLY <1>8, <2>1, <2>2, <2>3 DEF Kept
<1>10. PICK t0 \in DOMAIN m1 :
         /\ Leaf(m1, p[a], v, t0) /\ Leads(m1, t0, Ix(v, 0), f)
         /\ \A t \in DOMAIN m1, i \in Slots : \A x :
              lv1[t] = 0 /\ Leads(m1, t, i, x) =>
                (t \in DOMAIN m /\ Leads(m, t, i, x)) \/ (t = t0 /\ i = Ix(v, 0) /\ x = f)
  BY DEF Grown, m1
<1>11. ASSUME NEW b \in Spaces, p[b] # NotMapped, NEW w \in SmallPages, NEW x,
              Maps(m1, p[b], w, x)
       PROVE  Maps(m, p[b], w, x) \/ (Touched(a, v, b, w) /\ x = f)
  <2>1. PICK t \in DOMAIN m1 : Leaf(m1, p[b], w, t) /\ Leads(m1, t, Ix(w, 0), x)
    BY <1>11 DEF Maps
  <2>2. lv1[t] = 0 /\ Ix(w, 0) \in Slots
    <3>1. w \in Pages /\ IsRoot(m1, lv1, p[b])
      BY <1>3, <1>5, <1>11
    <3> QED
      BY <1>2, <2>1, <3>1, LeafLevels, IxType
  <2>3. CASE t \in DOMAIN m /\ Leads(m, t, Ix(w, 0), x)
    <3>1. Leaf(m, p[b], w, t)
      BY <1>2, <1>3, <1>5, <1>11, <2>1, <2>3, LeafExtends
    <3> QED
      BY <2>3, <3>1 DEF Maps
  <2>4. CASE t = t0 /\ Ix(w, 0) = Ix(v, 0) /\ x = f
    BY <1>1, <1>10, <1>11, <2>1, <2>4, OnePage
  <2> QED
    BY <1>10, <2>1, <2>2, <2>3, <2>4
<1>12. ASSUME NEW b \in Spaces, p[b] # NotMapped, KernelSlot(Ix(v, 3)) \/ b = a
       PROVE  Maps(m1, p[b], v, f)
  <2>1. Maps(m1, p[a], v, f)
    BY <1>10 DEF Maps
  <2>2. CASE KernelSlot(Ix(v, 3))
    <3>1. m1[p[b]][Ix(v, 3)] = m1[p[a]][Ix(v, 3)]
      BY <1>5, <1>8, <1>12, <2>2, IxType
    <3> QED
      BY <2>1, <3>1, SharedWays
  <2> QED
    BY <1>12, <2>1, <2>2
<1>13. Added(m, p, a, v, f, m1)
  BY ONLY <1>7, <1>11, <1>12 DEF Added, Touched
<1> QED
  BY <1>1, <1>9, <1>13 DEF m1
(* What leaves the upper tables alone leaves the ways to page tables alone. *)
LEMMA SameWays ==
  ASSUME NEW m, NEW u, NEW lv, NEW hf, Tables(m, u, lv, hf), NEW r, IsRoot(m, lv, r),
         NEW m1, DOMAIN m \subseteq DOMAIN m1,
         \A t \in DOMAIN m, i \in Slots : lv[t] # 0 => m1[t][i] = m[t][i],
         NEW v \in Pages
  PROVE  /\ \A x : Leaf(m1, r, v, x) <=> Leaf(m, r, v, x)
         /\ \A x : HugeAt(m1, r, v, x) <=> HugeAt(m, r, v, x)
<1>1. /\ Ix(v, 3) \in Slots /\ Ix(v, 2) \in Slots /\ Ix(v, 1) \in Slots
      /\ r \in DOMAIN m /\ lv[r] = 3
  BY IxType DEF IsRoot
<1>2. ASSUME NEW t \in DOMAIN m, lv[t] # 0, NEW i \in Slots
      PROVE  /\ m1[t][i] = m[t][i]
             /\ \A x : Leads(m1, t, i, x) <=> Leads(m, t, i, x)
  BY <1>2 DEF Leads
<1>3. ASSUME NEW t2, Leads(m, r, Ix(v, 3), t2) PROVE t2 \in DOMAIN m /\ lv[t2] # 0
  BY <1>1, <1>3 DEF Tables, Levels
<1>4. \A t2 : Leads(m1, r, Ix(v, 3), t2) <=> Leads(m, r, Ix(v, 3), t2)
  BY <1>1, <1>2
<1>5. \A t2 \in DOMAIN m : \A x : lv[t2] # 0 =>
        (Leads(m1, t2, Ix(v, 2), x) <=> Leads(m, t2, Ix(v, 2), x))
  BY <1>1, <1>2
<1>6. \A x : Dir(m1, r, v, x) <=> Dir(m, r, v, x)
  BY ONLY <1>3, <1>4, <1>5, DOMAIN m \subseteq DOMAIN m1 DEF Dir
<1>7. ASSUME NEW t1, Dir(m, r, v, t1) PROVE t1 \in DOMAIN m /\ lv[t1] # 0
  BY <1>7, DirLevels
<1>8. \A t1 \in DOMAIN m : lv[t1] # 0 =>
        /\ m1[t1][Ix(v, 1)] = m[t1][Ix(v, 1)]
        /\ \A x : Leads(m1, t1, Ix(v, 1), x) <=> Leads(m, t1, Ix(v, 1), x)
  BY <1>1, <1>2
<1>9. \A x : Leaf(m1, r, v, x) <=> Leaf(m, r, v, x)
  BY ONLY <1>6, <1>7, <1>8, DOMAIN m \subseteq DOMAIN m1 DEF Leaf
<1>10. \A x : HugeAt(m1, r, v, x) <=> HugeAt(m, r, v, x)
  BY ONLY <1>6, <1>7, <1>8, DOMAIN m \subseteq DOMAIN m1 DEF HugeAt
<1> QED
  BY <1>9, <1>10

(* vmm_unmap_page of page v in address space a.                            *)
LEMMA UnmapKeeps ==
  ASSUME NEW m, NEW u, NEW p, NEW lv, NEW hf, Good(m, u, p, lv, hf), Kept(m, u, p),
         NEW a \in Spaces, p[a] # NotMapped, NEW v \in SmallPages, v # BufferPage,
         NEW t, Leaf(m, p[a], v, t), NEW f, Leads(m, t, Ix(v, 0), f),
         NEW m1, m1 = Put(m, t, Ix(v, 0), NoEntry)
  PROVE  /\ Good(m1, u \ {f}, p, lv, hf) /\ Kept(m1, u \ {f}, p)
         /\ Removed(m, p, a, v, m1)
<1>1. SmallPages \subseteq Pages /\ HugePages \subseteq Pages /\ BufferPage \in SmallPages
  BY DEF Pages, SmallPages
<1>2. Tables(m, u, lv, hf) /\ kernel \in Spaces /\ p[kernel] # NotMapped
  BY DEF Good, Spaces
<1>3. ASSUME NEW b \in Spaces, p[b] # NotMapped PROVE IsRoot(m, lv, p[b])
  BY <1>3 DEF Good
<1>4. t \in DOMAIN m /\ lv[t] = 0 /\ Ix(v, 0) \in Slots
  BY <1>1, <1>2, <1>3, LeafLevels, IxType
<1>5. /\ Tables(m1, u \ {f}, lv, hf) /\ DOMAIN m1 = DOMAIN m
      /\ \A s \in DOMAIN m, j \in Slots :
           m1[s][j] = IF s = t /\ j = Ix(v, 0) THEN NoEntry ELSE m[s][j]
  <2>1. Emptied(m, u, lv, hf, t, Ix(v, 0), f, Put(m, t, Ix(v, 0), NoEntry))
    BY ONLY <1>2, <1>4, Leads(m, t, Ix(v, 0), f), ClearPage
  <2> QED
    BY ONLY <2>1, m1 = Put(m, t, Ix(v, 0), NoEntry) DEF Emptied
<1>6. Good(m1, u \ {f}, p, lv, hf)
  BY <1>5 DEF Good, IsRoot
<1>7. \A s \in DOMAIN m, j \in Slots : lv[s] # 0 => m1[s][j] = m[s][j]
  BY <1>4, <1>5
<1>8. ASSUME NEW b \in Spaces, p[b] # NotMapped, NEW w \in Pages
      PROVE  /\ \A x : Leaf(m1, p[b], w, x) <=> Leaf(m, p[b], w, x)
             /\ \A x : HugeAt(m1, p[b], w, x) <=> HugeAt(m, p[b], w, x)
  <2>1. IsRoot(m, lv, p[b]) /\ DOMAIN m \subseteq DOMAIN m1
    BY <1>3, <1>5, <1>8
  <2> QED
    BY ONLY <1>2, <1>7, <2>1, w \in Pages, SameWays
<1>9. ASSUME NEW s \in DOMAIN m, NEW j \in Slots, NEW x
      PROVE  Leads(m1, s, j, x) <=> Leads(m, s, j, x) /\ ~(s = t /\ j = Ix(v, 0))
  BY <1>5 DEF Leads
<1>10. ASSUME NEW b \in Spaces, p[b] # NotMapped, NEW w \in SmallPages, NEW x
       PROVE  Maps(m1, p[b], w, x) <=> Maps(m, p[b], w, x) /\ ~Touched(a, v, b, w)
  <2>1. w \in Pages /\ Ix(w, 0) \in Slots
    BY <1>1, IxType
  <2>2. ASSUME Maps(m1, p[b], w, x), Touched(a, v, b, w) PROVE FALSE
    <3>1. PICK s \in DOMAIN m : Leaf(m, p[b], w, s) /\ Leads(m1, s, Ix(w, 0), x)
      BY <1>5, <1>8, <1>10, <2>1, <2>2 DEF Maps
    <3>2. w = v /\ (b = a \/ KernelSlot(Ix(v, 3)))
      BY <2>2 DEF Touched
    <3>3. Leaf(m, p[b], v, t)
      <4>1. CASE b = a
        BY <4>1
      <4>2. CASE KernelSlot(Ix(v, 3))
        <5>1. m[p[b]][Ix(v, 3)] = m[p[a]][Ix(v, 3)]
          BY <1>1, <1>10, <4>2, IxType DEF Kept
        <5> QED
          BY <5>1, SharedWays
      <4> QED
        BY <3>2, <4>1, <4>2
    <3>4. s = t
      BY <3>1, <3>2, <3>3 DEF Leaf, Dir, Leads
    <3> QED
      BY <1>9, <2>1, <3>1, <3>2, <3>4
  <2>3. ASSUME Maps(m1, p[b], w, x) PROVE Maps(m, p[b], w, x)
    <3>1. PICK s \in DOMAIN m : Leaf(m, p[b], w, s) /\ Leads(m1, s, Ix(w, 0), x)
      BY <1>5, <1>8, <1>10, <2>1, <2>3 DEF Maps
    <3> QED
      BY <1>9, <2>1, <3>1 DEF Maps
  <2>4. ASSUME Maps(m, p[b], w, x), ~Touched(a, v, b, w) PROVE Maps(m1, p[b], w, x)
    <3>1. PICK s \in DOMAIN m : Leaf(m, p[b], w, s) /\ Leads(m, s, Ix(w, 0), x)
      BY <2>4 DEF Maps
    <3>2. ~(s = t /\ Ix(w, 0) = Ix(v, 0))
      BY <1>10, <2>4, <3>1, OnePage
    <3>3. Leaf(m1, p[b], w, s) /\ s \in DOMAIN m1
      BY <1>5, <1>8, <1>10, <2>1, <3>1
    <3>4. Leads(m1, s, Ix(w, 0), x)
      BY <1>9, <2>1, <3>1, <3>2
    <3> QED
      BY <3>3, <3>4 DEF Maps
  <2> QED
    BY <2>2, <2>3, <2>4
<1>11. Removed(m, p, a, v, m1)
  BY ONLY <1>10 DEF Removed
<1>12. Kept(m1, u \ {f}, p)
  <2>1. ASSUME NEW b \in Spaces, p[b] # NotMapped, NEW w \in SmallPages, NEW e
        PROVE  ~HugeAt(m1, p[b], w, e)
    BY <1>1, <1>8, <2>1 DEF Kept
  <2>2. ASSUME NEW b \in Spaces, p[b] # NotMapped, NEW i \in Slots, KernelSlot(i)
        PROVE  m1[p[b]][i] = m1[p[kernel]][i]
    <3>1. lv[p[b]] # 0 /\ lv[p[kernel]] # 0 /\ p[b] \in DOMAIN m /\ p[kernel] \in DOMAIN m
      BY <1>2, <1>3, <2>2 DEF IsRoot
    <3> QED
      BY <1>7, <2>2, <3>1 DEF Kept
  <2>3. HugeAt(m1, p[kernel], DirectPage, Huge(0)) /\ HugeAt(m1, p[kernel], LfbPage, Huge(Device))
    BY <1>1, <1>2, <1>8 DEF Kept, HugePages
  <2>4. PICK x \in u \ Reserved : Maps(m, p[kernel], BufferPage, x)
    BY DEF Kept
  <2>5. ~Touched(a, v, kernel, BufferPage)
    BY DEF Touched
  <2>6. Maps(m1, p[kernel], BufferPage, x)
    BY <1>1, <1>2, <1>10, <2>4, <2>5
  <2>7. x # f
    <3>1. PICK s \in DOMAIN m : Leaf(m, p[kernel], BufferPage, s) /\ Leads(m, s, Ix(BufferPage, 0), x)
      BY <2>4 DEF Maps
    <3>2. SUFFICES ASSUME x = f PROVE FALSE
      OBVIOUS
    <3>3. s = t /\ Ix(BufferPage, 0) = Ix(v, 0)
      BY <1>1, <1>2, <1>4, <3>1, <3>2, IxType DEF Tables, Unique
    <3> QED
      BY <1>1, <1>2, <2>5, <3>1, <3>3, OnePage
  <2>8. \E y \in (u \ {f}) \ Reserved : Maps(m1, p[kernel], BufferPage, y)
    BY <2>4, <2>6, <2>7
  <2> QED
    BY ONLY <2>1, <2>2, <2>3, <2>8 DEF Kept
<1> QED
  BY <1>6, <1>11, <1>12
(* create_user_process: the new PML4 has the kernel's half and no more.    *)
Copied(m, p, q, m1, p1) ==
  /\ \A b \in Spaces, w \in SmallPages : \A x :
       p[b] # NotMapped => (Maps(m1, p1[b], w, x) <=> Maps(m, p[b], w, x))
  /\ \A w \in UserPages : \A x : ~Maps(m1, p1[q], w, x)

(* m1 is m with the table n, which has the kernel's half of r.             *)
HasCopy(m, u, lv, r, n, m1) ==
  /\ DOMAIN m1 = DOMAIN m \cup {n} /\ n \notin DOMAIN m
  /\ \A t \in DOMAIN m : m1[t] = m[t]
  /\ \A i \in Slots : m1[n][i] = IF KernelSlot(i) THEN m[r][i] ELSE NoEntry
  /\ \E lv1, hf1 : Tables(m1, u \cup {n}, lv1, hf1) /\ lv1[n] = 3
                    /\ \A t \in DOMAIN m : lv1[t] = lv[t]

LEMMA CopyTables ==
  ASSUME NEW m, NEW u, NEW lv, NEW hf, Tables(m, u, lv, hf), NEW r, IsRoot(m, lv, r),
         NEW n \in Frames \ u, NEW m1, m1 = AddTable(m, n, NewPML4(m[r]))
  PROVE  HasCopy(m, u, lv, r, n, m1)
<1> DEFINE lv1 == [t \in DOMAIN m \cup {n} |-> IF t = n THEN 3 ELSE lv[t]]
           hf1 == [t \in DOMAIN m \cup {n} |-> IF t = n THEN TRUE ELSE hf[t]]
<1>1. /\ Reserved \subseteq u /\ u \subseteq Frames /\ DOMAIN m \subseteq u \ Reserved
      /\ m \in [DOMAIN m -> [Slots -> PageEntries]]
      /\ lv \in [DOMAIN m -> 0..3] /\ hf \in [DOMAIN m -> BOOLEAN]
  BY DEF Tables, TablesType
<1>2. n \notin DOMAIN m /\ n \notin Reserved /\ r \in DOMAIN m /\ lv[r] = 3 /\ r # n
  BY <1>1 DEF IsRoot
<1>3. m[r] \in [Slots -> PageEntries]
  BY <1>1, <1>2
<1>4. /\ NewPML4(m[r]) \in [Slots -> PageEntries]
      /\ \A i \in Slots : NewPML4(m[r])[i] = IF KernelSlot(i) THEN m[r][i] ELSE NoEntry
  BY <1>3, Numbers DEF NewPML4
<1>5. /\ DOMAIN m1 = DOMAIN m \cup {n} /\ m1[n] = NewPML4(m[r])
      /\ \A t \in DOMAIN m : m1[t] = m[t]
  BY <1>2 DEF AddTable
<1>6. \A i \in Slots : m1[n][i] = IF KernelSlot(i) THEN m[r][i] ELSE NoEntry
  BY <1>4, <1>5
<1>7. m1 \in [DOMAIN m1 -> [Slots -> PageEntries]]
  <2>1. m1 = [t \in DOMAIN m \cup {n} |-> IF t = n THEN NewPML4(m[r]) ELSE m[t]]
    BY DEF AddTable
  <2>2. \A t \in DOMAIN m : m[t] \in [Slots -> PageEntries]
    BY <1>1
  <2> QED
    BY ONLY <1>4, <1>5, <2>1, <2>2
<1>8. /\ \A t \in DOMAIN m : lv1[t] = lv[t] /\ hf1[t] = hf[t]
      /\ lv1[n] = 3 /\ hf1[n] = TRUE
      /\ lv1 \in [DOMAIN m1 -> 0..3] /\ hf1 \in [DOMAIN m1 -> BOOLEAN]
  <2>1. lv1 \in [DOMAIN m \cup {n} -> 0..3]
    BY <1>1
  <2>2. hf1 \in [DOMAIN m \cup {n} -> BOOLEAN]
    BY <1>1
  <2> QED
    BY <1>2, <1>5, <2>1, <2>2
<1> HIDE DEF lv1, hf1
<1>9. TablesType(m1, u \cup {n}, lv1, hf1)
  BY <1>1, <1>2, <1>5, <1>7, <1>8 DEF TablesType
(* What entry i of table t leads to, the kernel's PML4 led to already.     *)
<1>10. ASSUME NEW t \in DOMAIN m1, NEW i \in Slots, NEW x, Leads(m1, t, i, x)
       PROVE  \E s \in DOMAIN m :
                /\ Leads(m, s, i, x) /\ lv[s] = lv1[t] /\ m1[t][i] = m[s][i]
                /\ Half(lv1, hf1, t, i) = Half(lv, hf, s, i)
                /\ (t = s \/ (t = n /\ s = r /\ KernelSlot(i)))
  <2>1. CASE t = n
    <3>1. KernelSlot(i) /\ m1[t][i] = m[r][i]
      BY <1>6, <1>10, <2>1 DEF Leads
    <3> QED
      BY <1>2, <1>8, <1>10, <2>1, <3>1 DEF Leads, Half
  <2>2. CASE t \in DOMAIN m
    BY <1>5, <1>8, <1>10, <2>2 DEF Leads, Half
  <2> QED
    BY <1>5, <2>1, <2>2
<1>11. ASSUME NEW t \in DOMAIN m1, NEW i \in Slots
       PROVE  /\ m1[t][i].huge => lv1[t] = 1 /\ m1[t][i].user = FALSE
              /\ \A x : Leads(m1, t, i, x) =>
                   /\ x \in (u \cup {n}) \ Reserved
                   /\ m1[t][i].user = ~Half(lv1, hf1, t, i)
                   /\ lv1[t] = 0 => x \notin DOMAIN m1
                   /\ lv1[t] > 0 => x \in DOMAIN m1 /\ lv1[x] = lv1[t] - 1
                                    /\ hf1[x] = Half(lv1, hf1, t, i)
  <2>1. m1[t][i].huge => lv1[t] = 1 /\ m1[t][i].user = FALSE
    <3>1. CASE t = n
      <4>1. ~m[r][i].huge
        BY <1>2 DEF Tables, Levels
      <4> QED
        BY <1>6, <3>1, <4>1, Numbers
    <3>2. CASE t \in DOMAIN m
      BY <1>5, <1>8, <3>2 DEF Tables, Levels
    <3> QED
      BY <1>5, <3>1, <3>2
  <2>2. ASSUME NEW x, Leads(m1, t, i, x)
        PROVE  /\ x \in (u \cup {n}) \ Reserved
               /\ m1[t][i].user = ~Half(lv1, hf1, t, i)
               /\ lv1[t] = 0 => x \notin DOMAIN m1
               /\ lv1[t] > 0 => x \in DOMAIN m1 /\ lv1[x] = lv1[t] - 1
                                /\ hf1[x] = Half(lv1, hf1, t, i)
    <3>1. PICK s \in DOMAIN m :
            /\ Leads(m, s, i, x) /\ lv[s] = lv1[t] /\ m1[t][i] = m[s][i]
            /\ Half(lv1, hf1, t, i) = Half(lv, hf, s, i)
      BY <1>10, <2>2
    <3>2. /\ x \in u \ Reserved /\ m[s][i].user = ~Half(lv, hf, s, i)
          /\ lv[s] = 0 => x \notin DOMAIN m
          /\ lv[s] > 0 => x \in DOMAIN m /\ lv[x] = lv[s] - 1 /\ hf[x] = Half(lv, hf, s, i)
      BY <3>1 DEF Tables, Levels
    <3> QED
      BY <1>5, <1>8, <3>1, <3>2
  <2> QED
    BY ONLY <2>1, <2>2
<1>12. Levels(m1, u \cup {n}, lv1, hf1)
  BY ONLY <1>11 DEF Levels
<1>13. ASSUME NEW t \in DOMAIN m1, NEW s \in DOMAIN m1, NEW i \in Slots, NEW j \in Slots, NEW x,
              Leads(m1, t, i, x), Leads(m1, s, j, x)
       PROVE  \/ t = s /\ i = j
              \/ lv1[t] = 3 /\ lv1[s] = 3 /\ i = j /\ KernelSlot(i)
  <2>1. PICK t2 \in DOMAIN m :
          /\ Leads(m, t2, i, x) /\ lv[t2] = lv1[t]
          /\ (t = t2 \/ (t = n /\ t2 = r /\ KernelSlot(i)))
    BY <1>10, <1>13
  <2>2. PICK s2 \in DOMAIN m :
          /\ Leads(m, s2, j, x) /\ lv[s2] = lv1[s]
          /\ (s = s2 \/ (s = n /\ s2 = r /\ KernelSlot(j)))
    BY <1>10, <1>13
  <2>3. \/ t2 = s2 /\ i = j
        \/ lv[t2] = 3 /\ lv[s2] = 3 /\ i = j /\ KernelSlot(i)
    BY <2>1, <2>2 DEF Tables, Unique
  <2> QED
    BY <1>2, <2>1, <2>2, <2>3
<1>14. Unique(m1, lv1)
  BY ONLY <1>13 DEF Unique
<1>15. Tables(m1, u \cup {n}, lv1, hf1)
  BY <1>9, <1>12, <1>14 DEF Tables
<1> QED
  BY ONLY <1>2, <1>5, <1>6, <1>8, <1>15 DEF HasCopy
LEMMA CreateKeeps ==
  ASSUME NEW m, NEW u, NEW p, NEW lv, NEW hf, Good(m, u, p, lv, hf), Kept(m, u, p),
         NEW q \in Spaces, p[q] = NotMapped, NEW n \in Frames \ u,
         NEW m1, m1 = AddTable(m, n, NewPML4(m[p[kernel]])), NEW p1, p1 = [p EXCEPT ![q] = n]
  PROVE  /\ \E lv1, hf1 : Good(m1, u \cup {n}, p1, lv1, hf1)
         /\ Kept(m1, u \cup {n}, p1) /\ Copied(m, p, q, m1, p1)
<1> DEFINE r == p[kernel]
<1>1. /\ Tables(m, u, lv, hf) /\ kernel \in Spaces /\ r # NotMapped /\ r \in DOMAIN m
      /\ IsRoot(m, lv, r) /\ lv[r] = 3
  BY DEF Good, Spaces, IsRoot
<1>2. m1 = AddTable(m, n, NewPML4(m[r])) /\ n \in Frames \ u
  OBVIOUS
<1>a. HasCopy(m, u, lv, r, n, m1)
  BY ONLY <1>1, <1>2, CopyTables
<1>3. /\ DOMAIN m1 = DOMAIN m \cup {n} /\ n \notin DOMAIN m
      /\ \A t \in DOMAIN m : m1[t] = m[t]
      /\ \A i \in Slots : m1[n][i] = IF KernelSlot(i) THEN m[r][i] ELSE NoEntry
  BY ONLY <1>a DEF HasCopy
<1>4. PICK lv1, hf1 : Tables(m1, u \cup {n}, lv1, hf1) /\ lv1[n] = 3
                      /\ \A t \in DOMAIN m : lv1[t] = lv[t]
  BY ONLY <1>a DEF HasCopy
<1>5. (\A t \in DOMAIN m : lv1[t] = lv[t]) /\ lv1[n] = 3
  BY <1>4
<1>6. n # NotMapped
  BY Numbers
<1>7. /\ \A b \in Spaces : b # q => p1[b] = p[b]
      /\ p1[q] = n /\ p1 \in [Spaces -> DOMAIN m1 \cup {NotMapped}] /\ q # kernel
      /\ p1[kernel] = r
  <2>1. p \in [Spaces -> DOMAIN m \cup {NotMapped}]
    BY DEF Good
  <2>2. q # kernel
    BY <1>1
  <2> QED
    BY <1>1, <1>3, <2>1, <2>2
<1>8. ASSUME NEW b \in Spaces, p[b] # NotMapped
      PROVE  b # q /\ p1[b] = p[b] /\ IsRoot(m, lv, p[b]) /\ p[b] \in DOMAIN m
  BY <1>7, <1>8 DEF Good, IsRoot
<1>9. Good(m1, u \cup {n}, p1, lv1, hf1)
  <2>1. \A b \in Spaces : p1[b] # NotMapped => IsRoot(m1, lv1, p1[b])
    BY <1>3, <1>5, <1>7, <1>8 DEF IsRoot
  <2>2. ASSUME NEW b \in Spaces, NEW c \in Spaces, p1[b] # NotMapped, p1[b] = p1[c] PROVE b = c
    BY <1>3, <1>7, <1>8, <2>2 DEF Good
  <2>3. ASSUME NEW t \in DOMAIN m1, lv1[t] = 3 PROVE \E b \in Spaces : p1[b] = t
    <3>1. CASE t = n
      BY <1>7, <3>1
    <3>2. CASE t \in DOMAIN m
      <4>1. PICK b \in Spaces : p[b] = t
        BY <1>5, <2>3, <3>2 DEF Good
      <4>2. p[b] # NotMapped
        BY <1>1, <3>2, <4>1, Numbers DEF Tables, TablesType
      <4> QED
        BY <1>8, <4>1, <4>2
    <3> QED
      BY <1>3, <3>1, <3>2
  <2>4. p1[kernel] # NotMapped
    BY <1>1, <1>7
  <2> QED
    BY ONLY <1>4, <1>7, <2>1, <2>2, <2>3, <2>4 DEF Good
<1>10. SmallPages \subseteq Pages /\ HugePages \subseteq Pages /\ BufferPage \in SmallPages
       /\ UserPages \subseteq SmallPages
  BY DEF Pages, SmallPages
<1>11. ASSUME NEW b \in Spaces, p[b] # NotMapped, NEW w \in Pages
       PROVE  /\ \A x : Leaf(m1, p[b], w, x) <=> Leaf(m, p[b], w, x)
              /\ \A x : HugeAt(m1, p[b], w, x) <=> HugeAt(m, p[b], w, x)
              /\ \A x : Maps(m1, p[b], w, x) <=> Maps(m, p[b], w, x)
  <2>1. /\ IsRoot(m, lv, p[b]) /\ DOMAIN m \subseteq DOMAIN m1
        /\ \A t \in DOMAIN m, i \in Slots : lv[t] # 0 => m1[t][i] = m[t][i]
    BY <1>3, <1>8, <1>11
  <2>2. /\ \A x : Leaf(m1, p[b], w, x) <=> Leaf(m, p[b], w, x)
        /\ \A x : HugeAt(m1, p[b], w, x) <=> HugeAt(m, p[b], w, x)
    BY ONLY <1>1, <2>1, w \in Pages, SameWays
  <2>3. \A t : Leaf(m, p[b], w, t) => t \in DOMAIN m
    BY <1>1, <2>1, LeafLevels
  <2>4. \A t \in DOMAIN m : \A x : Leads(m1, t, Ix(w, 0), x) <=> Leads(m, t, Ix(w, 0), x)
    BY <1>3 DEF Leads
  <2>5. \A x : Maps(m1, p[b], w, x) <=> Maps(m, p[b], w, x)
    BY ONLY <1>3, <2>2, <2>3, <2>4 DEF Maps
  <2> QED
    BY <2>2, <2>5
<1>12. ASSUME NEW w \in Pages, KernelSlot(Ix(w, 3))
       PROVE  /\ \A x : HugeAt(m1, n, w, x) <=> HugeAt(m1, r, w, x)
              /\ \A x : Maps(m1, n, w, x) <=> Maps(m1, r, w, x)
  <2>1. m1[n][Ix(w, 3)] = m1[r][Ix(w, 3)]
    BY <1>1, <1>3, <1>12, IxType
  <2> QED
    BY <2>1, SharedWays
<1>13. ASSUME NEW w \in Pages, ~KernelSlot(Ix(w, 3)), NEW x
       PROVE  ~HugeAt(m1, n, w, x) /\ ~Maps(m1, n, w, x)
  <2>1. m1[n][Ix(w, 3)] = NoEntry
    BY <1>3, <1>13, IxType
  <2> QED
    BY <2>1 DEF HugeAt, Maps, Leaf, Dir, Leads
<1>14. Copied(m, p, q, m1, p1)
  <2>1. ASSUME NEW b \in Spaces, NEW w \in SmallPages, NEW x, p[b] # NotMapped
        PROVE  Maps(m1, p1[b], w, x) <=> Maps(m, p[b], w, x)
    BY <1>8, <1>10, <1>11, <2>1
  <2>2. ASSUME NEW w \in UserPages, NEW x PROVE ~Maps(m1, p1[q], w, x)
    BY <1>7, <1>10, <1>13, PagingShape
  <2> QED
    BY ONLY <2>1, <2>2 DEF Copied
<1>15. Kept(m1, u \cup {n}, p1)
  <2>1. ASSUME NEW b \in Spaces, p1[b] # NotMapped, NEW w \in SmallPages, NEW e
        PROVE  ~HugeAt(m1, p1[b], w, e)
    <3>1. CASE b = q
      BY <1>1, <1>7, <1>10, <1>11, <1>12, <1>13, <3>1 DEF Kept
    <3>2. CASE b # q
      BY <1>7, <1>10, <1>11, <2>1, <3>2 DEF Kept
    <3> QED
      BY <3>1, <3>2
  <2>2. ASSUME NEW b \in Spaces, p1[b] # NotMapped, NEW i \in Slots, KernelSlot(i)
        PROVE  m1[p1[b]][i] = m1[p1[kernel]][i]
    <3>1. CASE b = q
      BY <1>1, <1>3, <1>7, <2>2, <3>1
    <3>2. CASE b # q
      <4>1. p[b] # NotMapped /\ p1[b] = p[b]
        BY <1>7, <2>2, <3>2
      <4>2. m1[p[b]] = m[p[b]] /\ m1[r] = m[r]
        BY <1>1, <1>3, <1>8, <4>1
      <4>3. m[p[b]][i] = m[r][i]
        BY <2>2, <4>1 DEF Kept
      <4> QED
        BY <1>7, <4>1, <4>2, <4>3
    <3> QED
      BY <3>1, <3>2
  <2>3. /\ HugeAt(m1, p1[kernel], DirectPage, Huge(0))
        /\ HugeAt(m1, p1[kernel], LfbPage, Huge(Device))
    BY <1>1, <1>7, <1>10, <1>11 DEF Kept, HugePages
  <2>4. \E x \in (u \cup {n}) \ Reserved : Maps(m1, p1[kernel], BufferPage, x)
    BY <1>1, <1>7, <1>10, <1>11 DEF Kept
  <2> QED
    BY ONLY <2>1, <2>2, <2>3, <2>4 DEF Kept
<1> QED
  BY <1>9, <1>14, <1>15
-----------------------------------------------------------------------------
(* Boot: an empty PML4, two 2 MB pages and the back buffer.                *)
NoPages(m, u, p) ==
  \A v \in KernelPages : \A x : ~Maps(m, p[kernel], v, x)

LEMMA EmptyGood ==
  ASSUME NEW r \in Frames \ Reserved
  PROVE  LET m == [t \in {r} |-> EmptyTable]
             lv == [t \in {r} |-> 3]
             hf == [t \in {r} |-> TRUE]
         IN /\ Tables(m, Reserved \cup {r}, lv, hf) /\ IsRoot(m, lv, r)
            /\ \A t : IsRoot(m, lv, t) => t = r
            /\ \A i \in Slots : \A x : ~Leads(m, r, i, x)
            /\ \A v \in Pages : \A x : ~HugeAt(m, r, v, x)
<1> DEFINE m == [t \in {r} |-> EmptyTable]
           lv == [t \in {r} |-> 3]
           hf == [t \in {r} |-> TRUE]
<1>1. Reserved \subseteq Frames
  BY PmmShape DEF Frames
<1>2. EmptyTable \in [Slots -> PageEntries] /\ \A j \in Slots : EmptyTable[j] = NoEntry
  BY Numbers DEF EmptyTable, Slots
<1>3. DOMAIN m = {r} /\ m[r] = EmptyTable /\ m \in [{r} -> [Slots -> PageEntries]]
  BY <1>2
<1>4. lv[r] = 3 /\ lv \in [{r} -> 0..3] /\ hf \in [{r} -> BOOLEAN]
  OBVIOUS
<1> HIDE DEF m, lv, hf
<1>5. \A t \in DOMAIN m, i \in Slots : m[t][i] = NoEntry
  BY <1>2, <1>3
<1>6. \A t \in DOMAIN m, i \in Slots : \A x : ~Leads(m, t, i, x) /\ ~m[t][i].huge
  BY <1>5, Numbers DEF Leads
<1>7. TablesType(m, Reserved \cup {r}, lv, hf)
  BY <1>1, <1>3, <1>4 DEF TablesType
<1>8. Levels(m, Reserved \cup {r}, lv, hf)
  BY ONLY <1>6 DEF Levels
<1>9. Unique(m, lv)
  BY ONLY <1>6 DEF Unique
<1>10. IsRoot(m, lv, r) /\ \A t : IsRoot(m, lv, t) => t = r
  BY ONLY <1>3, <1>4 DEF IsRoot
<1>11. ASSUME NEW v \in Pages, NEW x PROVE ~HugeAt(m, r, v, x)
  BY <1>3, <1>6, IxType DEF HugeAt, Dir
<1> QED
  BY <1>3, <1>6, <1>7, <1>8, <1>9, <1>10, <1>11 DEF Tables, m, lv, hf
LEMMA Booted ==
  ASSUME Init
  PROVE  PInv /\ NoPages(mem, used, pml4) /\ \A a \in Procs : pml4[a] = NotMapped
<1> DEFINE r == NextFrame(Reserved)
           m0 == [t \in {r} |-> EmptyTable]
           lv0 == [t \in {r} |-> 3]
           hf0 == [t \in {r} |-> TRUE]
           s0 == [mem |-> m0, used |-> Mark(Reserved, r), at |-> r]
           d == MapHuge(s0, DirectPage, 0)
           s1 == From(r, d)
           s2 == MapHuge(s1, LfbPage, Device)
           f == NextFrame(s2.used)
           s3 == [mem |-> s2.mem, used |-> Mark(s2.used, f), at |-> r]
           s == MapPage(s3, BufferPage, f, FALSE)
<1>1. /\ mem = s.mem /\ used = s.used
      /\ pml4 = [a \in Spaces |-> IF a = kernel THEN r ELSE NotMapped]
  BY DEF Init, BootMaps
<1>2. /\ s0.mem = m0 /\ s0.used = Reserved \cup {r} /\ s0.at = r
      /\ s1.mem = d.mem /\ s1.used = d.used /\ s1.at = r
  BY DEF Mark, From
<1>3. s3 = [mem |-> s2.mem, used |-> Mark(s2.used, f), at |-> r]
  OBVIOUS
<1> HIDE DEF r, m0, lv0, hf0, s0, d, s1, s2, f, s3, s
<1>4. r \in Frames \ Reserved /\ Room(Reserved \cup {r}) >= 8
  <2>1. Reserved \in SUBSET Frames /\ Room(Reserved) >= 9 /\ Room(Reserved) \in Nat
    BY PmmShape, PagingShape, RoomType DEF Room, Frames
  <2>2. Room(Reserved) >= 1
    BY ONLY <2>1
  <2>3. r \in Frames \ Reserved /\ Room(Reserved \cup {r}) = Room(Reserved) - 1
    BY ONLY <2>1, <2>2, NextFrameFacts DEF r
  <2> QED
    BY ONLY <2>1, <2>3
<1>5. /\ Tables(m0, s0.used, lv0, hf0) /\ IsRoot(m0, lv0, r)
      /\ \A t : IsRoot(m0, lv0, t) => t = r
      /\ \A i \in Slots : \A x : ~Leads(m0, r, i, x)
      /\ \A v \in Pages : \A x : ~HugeAt(m0, r, v, x)
      /\ DOMAIN m0 = {r}
  BY <1>2, <1>4, EmptyGood DEF m0, lv0, hf0
<1>6. /\ DirectPage \in Pages /\ LfbPage \in Pages /\ BufferPage \in Pages
      /\ KernelSlot(Ix(DirectPage, 3)) /\ KernelSlot(Ix(LfbPage, 3)) /\ KernelSlot(Ix(BufferPage, 3))
      /\ SmallPages \subseteq Pages
  BY PagingShape DEF Pages, HugePages, SmallPages
<1>7. /\ Apart(DirectPage, LfbPage, 1..3)
      /\ \A v \in SmallPages : Apart(v, DirectPage, 1..3) /\ Apart(v, LfbPage, 1..3)
  BY PagingShape DEF HugePages
<1>8. PICK lv1, hf1 : Hung(s0, lv0, hf0, r, DirectPage, Huge(0), d, lv1, hf1)
  <2>1. Tables(s0.mem, s0.used, lv0, hf0) /\ IsRoot(s0.mem, lv0, s0.at) /\ Room(s0.used) >= 2
    <3>1. Room(Reserved \cup {r}) >= 2
      BY <1>4, RoomType
    <3> QED
      BY <1>2, <1>5, <3>1
  <2>2. 0 \in {0, Device} /\ d = MapHuge(s0, DirectPage, 0)
    BY DEF d
  <2>3. \E x, y : Hung(s0, lv0, hf0, s0.at, DirectPage, Huge(0), d, x, y)
    BY ONLY <1>6, <2>1, <2>2, MapHugeFacts
  <2> QED
    BY <1>2, <2>3
<1>9. /\ Tables(d.mem, d.used, lv1, hf1) /\ s0.used \subseteq d.used /\ Room(d.used) >= 6
      /\ r \in DOMAIN d.mem /\ \A t \in DOMAIN d.mem : lv1[t] = 3 <=> t = r
      /\ \A t \in DOMAIN d.mem, i \in Slots : \A x : lv1[t] = 0 => ~Leads(d.mem, t, i, x)
      /\ HugeAt(d.mem, r, DirectPage, Huge(0))
      /\ \A v \in SmallPages : \A x : ~HugeAt(d.mem, r, v, x)
  <2>1. Room(d.used) >= Room(s0.used) - 2
    BY <1>8 DEF Hung
  <2>2. Room(d.used) >= 6
    BY <1>2, <1>4, <2>1, RoomType
  <2>3. \A v \in SmallPages : \A x : ~HugeAt(d.mem, r, v, x)
    BY <1>2, <1>5, <1>6, <1>7, <1>8 DEF Hung
  <2>4. \A t \in DOMAIN d.mem, i \in Slots : \A x : lv1[t] = 0 => ~Leads(d.mem, t, i, x)
    BY <1>2, <1>5, <1>8 DEF Hung, Quiet
  <2>5. \A t \in DOMAIN d.mem : lv1[t] = 3 <=> t = r
    BY <1>2, <1>5, <1>8 DEF Hung
  <2> QED
    BY <1>8, <2>2, <2>3, <2>4, <2>5 DEF Hung
<1>10. PICK lv2, hf2 : Hung(s1, lv1, hf1, r, LfbPage, Huge(Device), s2, lv2, hf2)
  <2>1. Tables(s1.mem, s1.used, lv1, hf1) /\ IsRoot(s1.mem, lv1, s1.at) /\ Room(s1.used) >= 2
    <3>1. Room(d.used) >= 2
      BY <1>9, RoomType
    <3> QED
      BY <1>2, <1>9, <3>1 DEF IsRoot
  <2>2. Device \in {0, Device} /\ s2 = MapHuge(s1, LfbPage, Device)
    BY DEF s2
  <2>3. \E x, y : Hung(s1, lv1, hf1, s1.at, LfbPage, Huge(Device), s2, x, y)
    BY ONLY <1>6, <2>1, <2>2, MapHugeFacts
  <2> QED
    BY <1>2, <2>3
<1>11. /\ Tables(s2.mem, s2.used, lv2, hf2) /\ Room(s2.used) >= 4
       /\ r \in DOMAIN s2.mem /\ \A t \in DOMAIN s2.mem : lv2[t] = 3 <=> t = r
       /\ \A t \in DOMAIN s2.mem, i \in Slots : \A x : lv2[t] = 0 => ~Leads(s2.mem, t, i, x)
       /\ HugeAt(s2.mem, r, DirectPage, Huge(0)) /\ HugeAt(s2.mem, r, LfbPage, Huge(Device))
       /\ \A v \in SmallPages : \A x : ~HugeAt(s2.mem, r, v, x)
  <2>1. Room(s2.used) >= Room(s1.used) - 2
    BY <1>10 DEF Hung
  <2>2. Room(s2.used) >= 4
    BY <1>2, <1>9, <2>1, RoomType
  <2>3. \A v \in SmallPages : \A x : ~HugeAt(s2.mem, r, v, x)
    BY <1>2, <1>6, <1>7, <1>9, <1>10 DEF Hung
  <2>4. \A t \in DOMAIN s2.mem, i \in Slots : \A x : lv2[t] = 0 => ~Leads(s2.mem, t, i, x)
    BY <1>2, <1>9, <1>10 DEF Hung, Quiet
  <2>5. \A t \in DOMAIN s2.mem : lv2[t] = 3 <=> t = r
    BY <1>2, <1>9, <1>10 DEF Hung, IsRoot
  <2>6. HugeAt(s2.mem, r, DirectPage, Huge(0))
    BY <1>2, <1>6, <1>7, <1>9, <1>10 DEF Hung
  <2> QED
    BY <1>10, <2>2, <2>3, <2>4, <2>5, <2>6 DEF Hung
<1>12. f \in Frames \ s2.used /\ Room(s2.used \cup {f}) >= 3 /\ Reserved \subseteq s2.used
  <2>1. s2.used \in SUBSET Frames /\ Reserved \subseteq s2.used /\ Room(s2.used) \in Nat
    BY <1>11, RoomType DEF Tables, TablesType
  <2>2. Room(s2.used) >= 1
    BY <1>11, <2>1
  <2>3. f \in Frames \ s2.used /\ Room(s2.used \cup {f}) = Room(s2.used) - 1
    BY ONLY <2>1, <2>2, NextFrameFacts DEF f
  <2> QED
    BY <1>11, <2>1, <2>3
<1>13. IsRoot(s2.mem, lv2, r)
  BY <1>11 DEF IsRoot
<1>14. PICK lv, hf : Grown(s2.mem, s2.used, lv2, hf2, r, BufferPage, f, s, lv, hf)
  <2>1. \A x : ~HugeAt(s2.mem, r, BufferPage, x)
    BY <1>11 DEF SmallPages
  <2>2. \A x : ~Maps(s2.mem, r, BufferPage, x)
    <3>1. ASSUME NEW x, Maps(s2.mem, r, BufferPage, x) PROVE FALSE
      <4>1. PICK t \in DOMAIN s2.mem :
              Leaf(s2.mem, r, BufferPage, t) /\ Leads(s2.mem, t, Ix(BufferPage, 0), x)
        BY <3>1 DEF Maps
      <4>2. lv2[t] = 0 /\ Ix(BufferPage, 0) \in Slots
        BY <1>6, <1>11, <1>13, <4>1, LeafLevels, IxType
      <4> QED
        BY <1>11, <4>1, <4>2
    <3> QED
      BY <3>1
  <2> DEFINE h == KernelSlot(Ix(BufferPage, 3))
  <2>3. h = KernelSlot(Ix(BufferPage, 3)) /\ (~h) = FALSE
    BY <1>6 DEF KernelSlot
  <2> HIDE DEF h
  <2>4. Tables(s2.mem, s2.used, lv2, hf2)
    BY <1>11
  <2>5. \E x, y : Grown(s2.mem, s2.used, lv2, hf2, r, BufferPage, f,
                        MapPage([mem |-> s2.mem, used |-> Mark(s2.used, f), at |-> r],
                                BufferPage, f, ~h), x, y)
    BY ONLY <1>6, <1>12, <1>13, <2>1, <2>2, <2>3, <2>4, MapPageFacts
  <2>6. s = MapPage([mem |-> s2.mem, used |-> Mark(s2.used, f), at |-> r], BufferPage, f, ~h)
    BY <1>3, <2>3 DEF s
  <2> QED
    BY ONLY <2>5, <2>6
<1>15. /\ pml4[kernel] = r /\ \A a \in Spaces : a # kernel => pml4[a] = NotMapped
       /\ kernel \in Spaces /\ r # NotMapped
       /\ pml4 \in [Spaces -> DOMAIN s2.mem \cup {NotMapped}]
  BY <1>1, <1>4, <1>11, Numbers DEF Spaces
<1>16. Good(s2.mem, s2.used, pml4, lv2, hf2)
  BY <1>11, <1>13, <1>15 DEF Good
<1>17. Good(s.mem, s.used, pml4, lv, hf)
  BY <1>14, <1>16, GrownGood
<1>18. ASSUME NEW v \in Pages, NEW x PROVE HugeAt(s.mem, r, v, x) <=> HugeAt(s2.mem, r, v, x)
  <2>1. Extends(s2.mem, s2.used, lv2, hf2, s.mem, lv, hf) /\ DOMAIN s2.mem \subseteq s2.used
    BY <1>11, <1>14 DEF Grown, Tables, TablesType
  <2> QED
    BY <1>11, <2>1, HugeExtends
<1>19. PICK t0 \in DOMAIN s.mem :
         /\ Leaf(s.mem, r, BufferPage, t0) /\ Leads(s.mem, t0, Ix(BufferPage, 0), f)
         /\ \A t \in DOMAIN s.mem, i \in Slots : \A x :
              lv[t] = 0 /\ Leads(s.mem, t, i, x) =>
                (t \in DOMAIN s2.mem /\ Leads(s2.mem, t, i, x))
                  \/ (t = t0 /\ i = Ix(BufferPage, 0) /\ x = f)
  BY <1>14 DEF Grown
<1>20. Kept(s.mem, s.used, pml4)
  <2>1. f \in s.used \ Reserved /\ Maps(s.mem, r, BufferPage, f)
    BY <1>12, <1>14, <1>19 DEF Grown, Maps
  <2>2. \A v \in SmallPages : \A e : ~HugeAt(s.mem, r, v, e)
    BY <1>6, <1>11, <1>18
  <2>3. HugeAt(s.mem, r, DirectPage, Huge(0)) /\ HugeAt(s.mem, r, LfbPage, Huge(Device))
    BY <1>6, <1>11, <1>18
  <2> QED
    BY <1>15, <2>1, <2>2, <2>3 DEF Kept
<1>21. NoPages(s.mem, s.used, pml4)
  <2>1. ASSUME NEW v \in KernelPages, NEW x, Maps(s.mem, r, v, x) PROVE FALSE
    <3>1. PICK t \in DOMAIN s.mem : Leaf(s.mem, r, v, t) /\ Leads(s.mem, t, Ix(v, 0), x)
      BY <2>1 DEF Maps
    <3>2. v \in SmallPages /\ v \in Pages /\ BufferPage \in SmallPages
      BY <1>6 DEF SmallPages
    <3>3. lv[t] = 0 /\ Ix(v, 0) \in Slots
      <4>1. Tables(s.mem, s.used, lv, hf) /\ IsRoot(s.mem, lv, r)
        BY <1>15, <1>17 DEF Good
      <4> QED
        BY <3>1, <3>2, <4>1, LeafLevels, IxType
    <3>4. CASE t = t0 /\ Ix(v, 0) = Ix(BufferPage, 0)
      <4>1. Touched(kernel, BufferPage, kernel, v)
        BY <1>15, <1>17, <1>19, <3>1, <3>2, <3>4, OnePage
      <4> QED
        BY <4>1, PagingShape DEF Touched
    <3>5. CASE t \in DOMAIN s2.mem /\ Leads(s2.mem, t, Ix(v, 0), x)
      <4>1. lv2[t] = 0
        BY <1>14, <3>3, <3>5 DEF Grown, Extends
      <4> QED
        BY <1>11, <3>3, <3>5, <4>1
    <3> QED
      BY <1>19, <3>1, <3>3, <3>4, <3>5
  <2> QED
    BY <1>15, <2>1 DEF NoPages
<1>22. PInv /\ NoPages(mem, used, pml4)
  BY <1>1, <1>17, <1>20, <1>21 DEF PInv
<1>23. \A a \in Procs : pml4[a] = NotMapped
  BY <1>15, PagingShape DEF Spaces
<1> QED
  BY <1>22, <1>23
-----------------------------------------------------------------------------
(* The operations keep the invariant, and change what they are meant to.   *)
VmPages == KernelPages \cup UserPages

LEMMA VmPagesFacts ==
  /\ VmPages \subseteq SmallPages /\ SmallPages \subseteq Pages /\ BufferPage \notin VmPages
  /\ kernel \in Spaces /\ Procs \subseteq Spaces
BY PagingShape DEF VmPages, Pages, SmallPages, Spaces

LEMMA MapStep ==
  ASSUME PInv, NEW a \in Spaces, NEW v \in VmPages, NEW user, user = ~KernelSlot(Ix(v, 3)),
         VmmMapPage(a, v, user)
  PROVE  /\ PInv' /\ Made(a) /\ pml4' = pml4 /\ \A x : ~Maps(mem, pml4[a], v, x)
         /\ \E f \in Frames \ used : Added(mem, pml4, a, v, f, mem')
<1> DEFINE r == pml4[a]
           f == NextFrame(used)
           s == MapPage([mem |-> mem, used |-> Mark(used, f), at |-> r], v, f, user)
           h == KernelSlot(Ix(v, 3))
<1>1. PICK lv, hf : Good(mem, used, pml4, lv, hf) /\ Kept(mem, used, pml4)
  BY DEF PInv
<1>2. /\ r # NotMapped /\ Room(used) >= 4 /\ Entry(mem, r, v) = NoEntry
      /\ mem' = s.mem /\ used' = s.used /\ pml4' = pml4
  BY DEF VmmMapPage, Made, EnoughFrames, Room, Mapped, Entry
<1>3. v \in SmallPages /\ v \in Pages
  BY VmPagesFacts
<1> HIDE DEF r, f, h
<1>4. /\ Tables(mem, used, lv, hf) /\ IsRoot(mem, lv, r) /\ used \in SUBSET Frames
      /\ \A e : ~HugeAt(mem, r, v, e)
  BY <1>1, <1>2, <1>3 DEF Good, Kept, Tables, TablesType, r
<1>5. \A x : ~Maps(mem, r, v, x)
  <2>1. CASE Absent(mem, r, v)
    BY <2>1 DEF Absent
  <2>2. CASE \E e : IsHuge(mem, r, v, e)
    BY <1>4, <2>2 DEF IsHuge
  <2>3. CASE \E t, x : IsSmall(mem, r, v, t, x)
    BY <1>2, <2>3 DEF IsSmall, Entry, Leads
  <2> QED
    BY <1>3, <1>4, <2>1, <2>2, <2>3, WalkFacts
<1>6. f \in Frames \ used /\ Room(used \cup {f}) >= 3
  <2>1. Room(used) >= 1 /\ Room(used) \in Nat
    BY <1>2, RoomType
  <2>2. f \in Frames \ used /\ Room(used \cup {f}) = Room(used) - 1
    BY ONLY <1>4, <2>1, NextFrameFacts DEF f
  <2> QED
    BY ONLY <1>2, <2>1, <2>2
<1>7. PICK lv1, hf1 : Grown(mem, used, lv, hf, r, v, f, s, lv1, hf1)
  <2>1. h = KernelSlot(Ix(v, 3)) /\ user = ~h
    BY DEF h
  <2>2. \E x, y : Grown(mem, used, lv, hf, r, v, f,
                        MapPage([mem |-> mem, used |-> Mark(used, f), at |-> r], v, f, ~h), x, y)
    BY ONLY <1>3, <1>4, <1>5, <1>6, <2>1, MapPageFacts
  <2> QED
    BY ONLY <2>1, <2>2
<1> HIDE DEF s
<1>8. /\ Good(s.mem, s.used, pml4, lv1, hf1) /\ Kept(s.mem, s.used, pml4)
      /\ Added(mem, pml4, a, v, f, s.mem)
  <2>1. /\ a \in Spaces /\ pml4[a] # NotMapped
        /\ Grown(mem, used, lv, hf, pml4[a], v, f, s, lv1, hf1)
    BY <1>2, <1>7 DEF r
  <2> QED
    BY ONLY <1>1, <1>3, <1>6, <2>1, MapKeeps
<1>9. PInv'
  BY <1>2, <1>8 DEF PInv
<1> QED
  BY <1>2, <1>5, <1>6, <1>8, <1>9 DEF Made, r

LEMMA UnmapStep ==
  ASSUME PInv, NEW a \in Spaces, NEW v \in VmPages, VmmUnmapPage(a, v)
  PROVE  /\ PInv' /\ Made(a) /\ pml4' = pml4
         /\ \E x : Maps(mem, pml4[a], v, x)
         /\ Removed(mem, pml4, a, v, mem')
<1> DEFINE r == pml4[a]
           e == GetEntry(mem, r, v)
<1>1. PICK lv, hf : Good(mem, used, pml4, lv, hf) /\ Kept(mem, used, pml4)
  BY DEF PInv
<1>2. /\ r # NotMapped /\ Entry(mem, r, v) # NoEntry /\ pml4' = pml4
      /\ mem' = Put(mem, e.at, e.i, NoEntry) /\ used' = AfterFree(used, {mem[e.at][e.i].f})
  BY DEF VmmUnmapPage, Made, Mapped, Entry, Cleared
<1>3. v \in SmallPages /\ v \in Pages /\ v # BufferPage
  BY VmPagesFacts
<1> HIDE DEF r, e
<1>4. /\ Tables(mem, used, lv, hf) /\ IsRoot(mem, lv, r)
      /\ \A x : ~HugeAt(mem, r, v, x)
  BY <1>1, <1>2, <1>3 DEF Good, Kept, r
<1>5. PICK t, f : IsSmall(mem, r, v, t, f)
  <2>1. ~Absent(mem, r, v)
    BY <1>2 DEF Absent
  <2>2. ~\E x : IsHuge(mem, r, v, x)
    BY <1>4 DEF IsHuge
  <2> QED
    BY <1>3, <1>4, <2>1, <2>2, WalkFacts
<1>6. /\ t \in DOMAIN mem /\ Leaf(mem, r, v, t) /\ Leads(mem, t, Ix(v, 0), f)
      /\ e.at = t /\ e.i = Ix(v, 0)
  BY <1>5 DEF IsSmall, e
<1>7. f \in used \ Reserved /\ f \in Frames
  BY <1>3, <1>4, <1>6, IxType DEF Tables, TablesType, Levels
<1>8. mem' = Put(mem, t, Ix(v, 0), NoEntry) /\ used' = used \ {f}
  <2>1. mem[e.at][e.i].f = f /\ f # NotMapped
    BY <1>6, <1>7, Numbers DEF Leads
  <2>2. used' = used \ {f}
    BY <1>2, <2>1 DEF AfterFree, UnmapResult
  <2> QED
    BY <1>2, <1>6, <2>2
<1>9. /\ Good(mem', used \ {f}, pml4, lv, hf) /\ Kept(mem', used \ {f}, pml4)
      /\ Removed(mem, pml4, a, v, mem')
  <2>1. a \in Spaces /\ pml4[a] # NotMapped /\ Leaf(mem, pml4[a], v, t)
    BY <1>2, <1>6 DEF r
  <2> QED
    BY ONLY <1>1, <1>3, <1>6, <1>8, <2>1, UnmapKeeps
<1>10. PInv'
  BY <1>2, <1>8, <1>9 DEF PInv
<1>11. Maps(mem, pml4[a], v, f)
  BY <1>6 DEF Maps, r
<1> QED
  BY <1>2, <1>9, <1>10, <1>11 DEF Made, r

LEMMA CreateStep ==
  ASSUME PInv, NEW q \in Procs, CreateUserProcess(q)
  PROVE  /\ PInv' /\ ~Made(q)
         /\ \E n \in Frames \ used : pml4' = [pml4 EXCEPT ![q] = n]
         /\ Copied(mem, pml4, q, mem', pml4')
<1> DEFINE n == NextFrame(used)
<1>1. PICK lv, hf : Good(mem, used, pml4, lv, hf) /\ Kept(mem, used, pml4)
  BY DEF PInv
<1>2. /\ pml4[q] = NotMapped /\ n # 0 /\ used' = used \cup {n}
      /\ mem' = AddTable(mem, n, NewPML4(mem[pml4[kernel]]))
      /\ pml4' = [pml4 EXCEPT ![q] = n]
  BY DEF CreateUserProcess, Made, Mark
<1>3. used \in SUBSET Frames
  BY <1>1 DEF Good, Tables, TablesType
<1>4. Room(used) >= 1
  <2>1. FreeFrames(used) # {}
    BY <1>2 DEF NextFrame
  <2>2. IsFiniteSet(FreeFrames(used))
    <3>1. IsFiniteSet(Frames)
      BY PmmShape, FS_Interval DEF Frames
    <3> QED
      BY <3>1, FS_Subset DEF FreeFrames
  <2>3. Room(used) # 0
    BY <2>1, <2>2, FS_EmptySet DEF Room
  <2> QED
    BY <2>3, RoomType
<1>5. n \in Frames \ used
  BY ONLY <1>3, <1>4, NextFrameFacts
<1> HIDE DEF n
<1>6. /\ \E x, y : Good(mem', used \cup {n}, pml4', x, y)
      /\ Kept(mem', used \cup {n}, pml4') /\ Copied(mem, pml4, q, mem', pml4')
  <2>1. q \in Spaces
    BY VmPagesFacts
  <2> QED
    BY ONLY <1>1, <1>2, <1>5, <2>1, CreateKeeps
<1>7. PInv'
  BY <1>2, <1>6 DEF PInv
<1> QED
  BY <1>2, <1>5, <1>6, <1>7 DEF Made

LEMMA PagingStep == PInv /\ [Next]_vars => PInv'
<1> SUFFICES ASSUME PInv, [Next]_vars PROVE PInv'
  OBVIOUS
<1>1. ASSUME NEW q \in Procs, CreateUserProcess(q) PROVE PInv'
  BY <1>1, CreateStep
<1>2. ASSUME NEW a \in Spaces, NEW v \in KernelPages, VmmMapPage(a, v, FALSE) PROVE PInv'
  <2>1. v \in VmPages /\ FALSE = ~KernelSlot(Ix(v, 3))
    BY PagingShape DEF VmPages
  <2> QED
    BY ONLY PInv, <1>2, <2>1, a \in Spaces, MapStep
<1>3. ASSUME NEW a \in Spaces, NEW v \in VmPages, VmmUnmapPage(a, v) PROVE PInv'
  BY <1>3, UnmapStep
<1>4. ASSUME NEW q \in Procs, NEW v \in UserPages, VmmMapPage(q, v, TRUE) PROVE PInv'
  <2>1. v \in VmPages /\ TRUE = ~KernelSlot(Ix(v, 3)) /\ q \in Spaces
    BY PagingShape, VmPagesFacts DEF VmPages
  <2> QED
    BY ONLY PInv, <1>4, <2>1, MapStep
<1>5. CASE UNCHANGED vars
  BY <1>5 DEF vars, PInv
<1> QED
  BY <1>1, <1>2, <1>3, <1>4, <1>5, VmPagesFacts DEF Next, VmPages

(* The tables are trees in every reachable state: each table and page      *)
(* hangs on one entry of the level above and in the half of the address    *)
(* space it belongs to, whatever vmm_map_page adds and vmm_unmap_page      *)
(* takes away; the PML4s share the kernel's half and what boot has mapped. *)
THEOREM PagingInductive == Spec => []PInv
<1>1. Init => PInv
  BY Booted
<1> QED
  BY <1>1, PagingStep, PTL DEF Spec

-----------------------------------------------------------------------------
(* The translation of a page follows from where it leads.                  *)
LEMMA TrSame ==
  ASSUME NEW m, NEW u, NEW lv, NEW hf, Tables(m, u, lv, hf), NEW r, IsRoot(m, lv, r),
         NEW m1, NEW u1, NEW lv1, NEW hf1, Tables(m1, u1, lv1, hf1), NEW q, IsRoot(m1, lv1, q),
         NEW v \in Pages, \A x : Maps(m, r, v, x) <=> Maps(m1, q, v, x),
         \A x : HugeAt(m, r, v, x) <=> HugeAt(m1, q, v, x)
  PROVE  Tr(m, r, v) = Tr(m1, q, v)
<1>1. Absent(m, r, v) \/ (\E e : IsHuge(m, r, v, e)) \/ (\E t, f : IsSmall(m, r, v, t, f))
  BY WalkFacts
<1>2. Absent(m1, q, v) \/ (\E e : IsHuge(m1, q, v, e)) \/ (\E t, f : IsSmall(m1, q, v, t, f))
  BY WalkFacts
<1>3. /\ \A t, f : IsSmall(m, r, v, t, f) => Maps(m, r, v, f)
      /\ \A t, f : IsSmall(m1, q, v, t, f) => Maps(m1, q, v, f)
  BY DEF IsSmall, Maps
<1>4. CASE Absent(m, r, v)
  BY <1>2, <1>3, <1>4 DEF Absent, IsHuge
<1>5. CASE \E e : IsHuge(m, r, v, e)
  BY <1>2, <1>3, <1>5 DEF Absent, IsHuge, IsSmall
<1>6. CASE \E t, f : IsSmall(m, r, v, t, f)
  BY <1>2, <1>3, <1>6 DEF Absent, IsHuge, IsSmall
<1> QED
  BY <1>1, <1>4, <1>5, <1>6

LEMMA TrValue ==
  ASSUME NEW m, NEW u, NEW lv, NEW hf, Tables(m, u, lv, hf), NEW r, IsRoot(m, lv, r),
         NEW v \in Pages
  PROVE  /\ \A x : HugeAt(m, r, v, x) => Tr(m, r, v) = [f |-> x.f, user |-> FALSE]
         /\ \A x : Maps(m, r, v, x) =>
              Tr(m, r, v) = [f |-> x, user |-> ~KernelSlot(Ix(v, 3))]
         /\ (\A x : ~HugeAt(m, r, v, x) /\ ~Maps(m, r, v, x)) =>
              Tr(m, r, v) = [f |-> NotMapped, user |-> FALSE]
<1>1. Absent(m, r, v) \/ (\E e : IsHuge(m, r, v, e)) \/ (\E t, f : IsSmall(m, r, v, t, f))
  BY WalkFacts
<1>2. \A t, f : IsSmall(m, r, v, t, f) => Maps(m, r, v, f)
  BY DEF IsSmall, Maps
<1>3. CASE Absent(m, r, v)
  BY <1>3 DEF Absent
<1>4. CASE \E e : IsHuge(m, r, v, e)
  BY <1>4 DEF IsHuge
<1>5. CASE \E t, f : IsSmall(m, r, v, t, f)
  BY <1>2, <1>5 DEF IsSmall
<1> QED
  BY <1>1, <1>3, <1>4, <1>5

LEMMA TranslateIsTr == \A a, v : Translate(a, v) = Tr(mem, pml4[a], v)
BY DEF Translate, Tr

LEMMA SharedNow == PInv => KernelShared
<1> SUFFICES ASSUME PInv PROVE KernelShared
  OBVIOUS
<1>1. PICK lv, hf : Good(mem, used, pml4, lv, hf) /\ Kept(mem, used, pml4)
  BY DEF PInv
<1>2. /\ Tables(mem, used, lv, hf) /\ kernel \in Spaces /\ pml4[kernel] # NotMapped
      /\ \A a \in Spaces : pml4[a] # NotMapped => IsRoot(mem, lv, pml4[a])
  BY <1>1, VmPagesFacts DEF Good
<1> DEFINE KP == KernelPages \cup HugePages \cup {BufferPage}
<1>3. /\ \A v \in KP : v \in Pages /\ KernelSlot(Ix(v, 3)) /\ Ix(v, 3) \in Slots
      /\ DirectPage \in KP /\ LfbPage \in KP /\ BufferPage \in KP
  BY PagingShape, IxType DEF Pages, SmallPages, HugePages
<1> HIDE DEF KP
<1>4. ASSUME NEW a \in Spaces, pml4[a] # NotMapped, NEW v \in KP
      PROVE  /\ Translate(a, v) = Translate(kernel, v) /\ ~Translate(a, v).user
             /\ \A x : Maps(mem, pml4[a], v, x) <=> Maps(mem, pml4[kernel], v, x)
             /\ \A x : HugeAt(mem, pml4[a], v, x) <=> HugeAt(mem, pml4[kernel], v, x)
  <2>1. mem[pml4[a]][Ix(v, 3)] = mem[pml4[kernel]][Ix(v, 3)]
    BY <1>1, <1>3, <1>4 DEF Kept
  <2>2. /\ \A x : Maps(mem, pml4[a], v, x) <=> Maps(mem, pml4[kernel], v, x)
        /\ \A x : HugeAt(mem, pml4[a], v, x) <=> HugeAt(mem, pml4[kernel], v, x)
    BY <2>1, SharedWays
  <2>3. IsRoot(mem, lv, pml4[a]) /\ IsRoot(mem, lv, pml4[kernel]) /\ v \in Pages
    BY <1>2, <1>3, <1>4
  <2>4. Tr(mem, pml4[a], v) = Tr(mem, pml4[kernel], v)
    BY ONLY <1>2, <2>2, <2>3, TrSame
  <2>5. ~Tr(mem, pml4[a], v).user
    <3>1. /\ \A x : HugeAt(mem, pml4[a], v, x) => Tr(mem, pml4[a], v) = [f |-> x.f, user |-> FALSE]
          /\ \A x : Maps(mem, pml4[a], v, x) =>
               Tr(mem, pml4[a], v) = [f |-> x, user |-> ~KernelSlot(Ix(v, 3))]
          /\ (\A x : ~HugeAt(mem, pml4[a], v, x) /\ ~Maps(mem, pml4[a], v, x)) =>
               Tr(mem, pml4[a], v) = [f |-> NotMapped, user |-> FALSE]
      BY ONLY <1>2, <2>3, TrValue
    <3>2. KernelSlot(Ix(v, 3))
      BY <1>3
    <3>3. CASE \E x : HugeAt(mem, pml4[a], v, x)
      <4>1. PICK x : Tr(mem, pml4[a], v) = [f |-> x.f, user |-> FALSE]
        BY <3>1, <3>3
      <4> QED
        BY <4>1
    <3>4. CASE \E x : Maps(mem, pml4[a], v, x)
      <4>1. PICK x : Tr(mem, pml4[a], v) = [f |-> x, user |-> ~KernelSlot(Ix(v, 3))]
        BY <3>1, <3>4
      <4>2. Tr(mem, pml4[a], v).user = ~KernelSlot(Ix(v, 3))
        BY <4>1
      <4> QED
        BY ONLY <3>2, <4>2
    <3>5. CASE \A x : ~HugeAt(mem, pml4[a], v, x) /\ ~Maps(mem, pml4[a], v, x)
      BY ONLY <3>1, <3>5
    <3> QED
      BY ONLY <3>3, <3>4, <3>5
  <2> QED
    BY <2>2, <2>4, <2>5, TranslateIsTr
<1>5. ASSUME NEW a \in Spaces, pml4[a] # NotMapped
      PROVE  /\ Translate(a, DirectPage).f = 0 /\ Translate(a, LfbPage).f = Device
             /\ Translate(a, BufferPage).f \in used \ Reserved
  <2>1. IsRoot(mem, lv, pml4[a])
    BY <1>2, <1>5
  <2>2. HugeAt(mem, pml4[a], DirectPage, Huge(0)) /\ HugeAt(mem, pml4[a], LfbPage, Huge(Device))
    BY <1>1, <1>3, <1>4, <1>5 DEF Kept
  <2>3. PICK f \in used \ Reserved : Maps(mem, pml4[a], BufferPage, f)
    BY <1>1, <1>3, <1>4, <1>5 DEF Kept
  <2>4. Tr(mem, pml4[a], DirectPage).f = 0 /\ Tr(mem, pml4[a], LfbPage).f = Device
    BY <1>2, <1>3, <2>1, <2>2, TrValue DEF Huge
  <2>5. Tr(mem, pml4[a], BufferPage).f = f
    BY <1>2, <1>3, <2>1, <2>3, TrValue
  <2> QED
    BY <2>3, <2>4, <2>5, TranslateIsTr
<1> QED
  BY <1>4, <1>5 DEF KernelShared, Made, KP

(* Every address space has the kernel's pages as the kernel has them, and  *)
(* user code reaches none of them; boot's direct mapping, framebuffer and  *)
(* back buffer stay mapped in each: create_user_process may copy the PML4  *)
(* once because no later vmm_map_page changes a kernel entry of a PML4.    *)
THEOREM KernelAlwaysShared == Spec => []KernelShared
BY PagingInductive, SharedNow, PTL

LEMMA OneParentNow == PInv => OneParent
<1> SUFFICES ASSUME PInv PROVE OneParent
  OBVIOUS
<1>1. PICK lv, hf : Good(mem, used, pml4, lv, hf)
  BY DEF PInv
<1>2. Slots = 0..(Fan - 1)
  BY DEF Slots
<1>3. ASSUME NEW z \in References
      PROVE  /\ z[1] \in DOMAIN mem /\ z[2] \in Slots
             /\ Leads(mem, z[1], z[2], mem[z[1]][z[2]].f)
  BY <1>2 DEF References, Leads
<1>4. \A z \in References : mem[z[1]][z[2]].f \in used \ Reserved
  BY <1>1, <1>3 DEF Good, Tables, Levels
<1>5. ASSUME NEW t \in DOMAIN mem, lv[t] = 3 PROVE t \in Roots
  <2>1. PICK a \in Spaces : pml4[a] = t
    BY <1>1, <1>5 DEF Good
  <2>2. t # NotMapped
    BY <1>1, Numbers DEF Good, Tables, TablesType
  <2> QED
    BY <2>1, <2>2 DEF Roots, Made
<1>6. ASSUME NEW y \in References, NEW z \in References,
             y # z, mem[y[1]][y[2]].f = mem[z[1]][z[2]].f
      PROVE  {y[1], z[1]} \subseteq Roots /\ y[2] = z[2] /\ KernelSlot(y[2])
  <2>1. y[1] # z[1] \/ y[2] # z[2]
    BY <1>6 DEF References
  <2>2. Leads(mem, y[1], y[2], mem[y[1]][y[2]].f) /\ Leads(mem, z[1], z[2], mem[y[1]][y[2]].f)
    BY <1>3, <1>6
  <2>3. lv[y[1]] = 3 /\ lv[z[1]] = 3 /\ y[2] = z[2] /\ KernelSlot(y[2])
    BY <1>1, <1>3, <2>1, <2>2 DEF Good, Tables, Unique
  <2> QED
    BY <1>3, <1>5, <2>3
<1> QED
  BY <1>4, <1>6 DEF OneParent

(* No two entries of any page tables lead to one frame, but for the        *)
(* kernel's of the PML4s, and every frame led to is marked as used: freeing *)
(* a page's frame in vmm_unmap_page never frees a table or another's page. *)
THEOREM AlwaysOneParent == Spec => []OneParent
BY PagingInductive, OneParentNow, PTL
-----------------------------------------------------------------------------
(* The flat maps that the tables m and the PML4s p stand for.              *)
NoPage == [f |-> NotMapped, user |-> FALSE]
FlatK(m, p) == [v \in KernelPages |-> Tr(m, p[kernel], v)]
FlatU(m, p) ==
  [q \in Procs |-> [v \in UserPages |-> IF p[q] # NotMapped THEN Tr(m, p[q], v) ELSE NoPage]]
FlatInUse(k, um) ==
  {k[v].f : v \in KernelPages} \cup UNION {{um[q][v].f : v \in UserPages} : q \in Procs}

Page(f, v) == [f |-> f, user |-> ~KernelSlot(Ix(v, 3))]

(* Each page that is mapped shows its frame, which is in use.              *)
Value(m, u, p) ==
  \A a \in Spaces, v \in VmPages : p[a] # NotMapped =>
    /\ \A x : Maps(m, p[a], v, x) => Tr(m, p[a], v) = Page(x, v) /\ x \in u \ Reserved
    /\ (\A x : ~Maps(m, p[a], v, x)) => Tr(m, p[a], v) = NoPage

LEMMA ValueOf ==
  ASSUME NEW m, NEW u, NEW p, NEW lv, NEW hf, Good(m, u, p, lv, hf), Kept(m, u, p)
  PROVE  Value(m, u, p)
<1>1. ASSUME NEW a \in Spaces, NEW v \in VmPages, p[a] # NotMapped
      PROVE  /\ \A x : Maps(m, p[a], v, x) => Tr(m, p[a], v) = Page(x, v) /\ x \in u \ Reserved
             /\ (\A x : ~Maps(m, p[a], v, x)) => Tr(m, p[a], v) = NoPage
  <2>1. /\ Tables(m, u, lv, hf) /\ IsRoot(m, lv, p[a]) /\ v \in Pages
        /\ \A x : ~HugeAt(m, p[a], v, x)
    BY <1>1, VmPagesFacts DEF Good, Kept
  <2>2. /\ \A x : Maps(m, p[a], v, x) => Tr(m, p[a], v) = Page(x, v)
        /\ (\A x : ~Maps(m, p[a], v, x)) => Tr(m, p[a], v) = NoPage
    BY <2>1, TrValue DEF Page, NoPage
  <2>3. ASSUME NEW x, Maps(m, p[a], v, x) PROVE x \in u \ Reserved
    BY <2>1, <2>3, IxType DEF Maps, Tables, Levels
  <2> QED
    BY <2>2, <2>3
<1> QED
  BY ONLY <1>1 DEF Value

LEMMA SameTr ==
  ASSUME NEW m, NEW u, NEW p, Value(m, u, p), NEW m1, NEW u1, NEW p1, Value(m1, u1, p1),
         NEW a \in Spaces, NEW v \in VmPages, p[a] # NotMapped, p1[a] # NotMapped,
         \A x : Maps(m1, p1[a], v, x) <=> Maps(m, p[a], v, x)
  PROVE  Tr(m1, p1[a], v) = Tr(m, p[a], v)
<1>1. CASE \E x : Maps(m, p[a], v, x)
  BY <1>1 DEF Value
<1>2. CASE \A x : ~Maps(m, p[a], v, x)
  BY <1>2 DEF Value
<1> QED
  BY <1>1, <1>2

LEMMA InUseIsUsed ==
  ASSUME NEW m, NEW u, NEW p, Value(m, u, p), p[kernel] # NotMapped
  PROVE  FlatInUse(FlatK(m, p), FlatU(m, p)) \subseteq u \cup {NotMapped}
<1>1. ASSUME NEW a \in Spaces, NEW v \in VmPages, p[a] # NotMapped
      PROVE  Tr(m, p[a], v).f \in u \cup {NotMapped}
  <2>1. CASE \E x : Maps(m, p[a], v, x)
    <3>1. PICK x : Maps(m, p[a], v, x)
      BY <2>1
    <3>2. Tr(m, p[a], v) = Page(x, v) /\ x \in u
      BY <1>1, <3>1 DEF Value
    <3> QED
      BY ONLY <3>2 DEF Page
  <2>2. CASE \A x : ~Maps(m, p[a], v, x)
    BY <1>1, <2>2 DEF Value, NoPage
  <2> QED
    BY <2>1, <2>2
<1>2. ASSUME NEW v \in KernelPages PROVE FlatK(m, p)[v].f \in u \cup {NotMapped}
  BY <1>1, VmPagesFacts DEF FlatK, VmPages
<1>3. ASSUME NEW q \in Procs, NEW v \in UserPages PROVE FlatU(m, p)[q][v].f \in u \cup {NotMapped}
  <2>1. q \in Spaces /\ v \in VmPages
    BY VmPagesFacts DEF VmPages
  <2>2. FlatU(m, p)[q][v] = IF p[q] # NotMapped THEN Tr(m, p[q], v) ELSE NoPage
    BY DEF FlatU
  <2>3. NoPage.f = NotMapped
    BY DEF NoPage
  <2> QED
    BY <1>1, <2>1, <2>2, <2>3
<1> QED
  BY ONLY <1>2, <1>3 DEF FlatInUse

LEMMA TwoHalves ==
  /\ \A v \in KernelPages : KernelSlot(Ix(v, 3)) /\ \A w \in UserPages : w # v
  /\ \A v \in UserPages : ~KernelSlot(Ix(v, 3)) /\ \A w \in KernelPages : w # v
  /\ \A f : /\ \A v \in KernelPages : Page(f, v) = [f |-> f, user |-> FALSE]
            /\ \A v \in UserPages : Page(f, v) = [f |-> f, user |-> TRUE]
BY PagingShape DEF Page

(* A kernel page is mapped: in one map, for all.                           *)
LEMMA FlatMapKernel ==
  ASSUME NEW m, NEW u, NEW p, Value(m, u, p), NEW m1, NEW u1, Value(m1, u1, p),
         NEW a \in Spaces, NEW v \in KernelPages, NEW f, Added(m, p, a, v, f, m1),
         p[kernel] # NotMapped, \A x : ~Maps(m, p[kernel], v, x)
  PROVE  /\ FlatK(m, p)[v] = NoPage
         /\ FlatK(m1, p) = [FlatK(m, p) EXCEPT ![v] = Page(f, v)]
         /\ FlatU(m1, p) = FlatU(m, p)
<1>1. kernel \in Spaces /\ Procs \subseteq Spaces /\ v \in VmPages
      /\ KernelPages \subseteq VmPages /\ UserPages \subseteq VmPages /\ VmPages \subseteq SmallPages
  BY VmPagesFacts DEF VmPages
<1>2. FlatK(m, p)[v] = NoPage
  BY <1>1 DEF FlatK, Value
<1>3. ASSUME NEW b \in Spaces, NEW w \in VmPages, w # v, p[b] # NotMapped
      PROVE  Tr(m1, p[b], w) = Tr(m, p[b], w)
  <2>1. \A x : Maps(m1, p[b], w, x) <=> Maps(m, p[b], w, x)
    BY <1>1, <1>3 DEF Added, Touched
  <2> QED
    BY <1>3, <2>1, SameTr
<1>4. Tr(m1, p[kernel], v) = Page(f, v)
  <2>1. Maps(m1, p[kernel], v, f)
    BY <1>1, TwoHalves DEF Added, Touched
  <2> QED
    BY <1>1, <2>1 DEF Value
<1>5. FlatK(m1, p) = [FlatK(m, p) EXCEPT ![v] = Page(f, v)]
  BY <1>1, <1>3, <1>4 DEF FlatK
<1>6. FlatU(m1, p) = FlatU(m, p)
  BY <1>1, <1>3, TwoHalves DEF FlatU
<1> QED
  BY <1>2, <1>5, <1>6

LEMMA FlatUnmapKernel ==
  ASSUME NEW m, NEW u, NEW p, Value(m, u, p), NEW m1, NEW u1, Value(m1, u1, p),
         NEW a \in Spaces, NEW v \in KernelPages, Removed(m, p, a, v, m1),
         p[kernel] # NotMapped, \E x : Maps(m, p[kernel], v, x), NotMapped \notin u
  PROVE  /\ FlatK(m, p)[v] # NoPage
         /\ FlatK(m1, p) = [FlatK(m, p) EXCEPT ![v] = NoPage]
         /\ FlatU(m1, p) = FlatU(m, p)
<1>1. kernel \in Spaces /\ Procs \subseteq Spaces /\ v \in VmPages
      /\ KernelPages \subseteq VmPages /\ UserPages \subseteq VmPages /\ VmPages \subseteq SmallPages
  BY VmPagesFacts DEF VmPages
<1>2. FlatK(m, p)[v] # NoPage
  <2>1. PICK x : Maps(m, p[kernel], v, x)
    OBVIOUS
  <2>2. Tr(m, p[kernel], v) = Page(x, v) /\ x # NotMapped
    BY <1>1, <2>1 DEF Value
  <2> QED
    BY <2>2 DEF FlatK, Page, NoPage
<1>3. ASSUME NEW b \in Spaces, NEW w \in VmPages, w # v, p[b] # NotMapped
      PROVE  Tr(m1, p[b], w) = Tr(m, p[b], w)
  <2>1. \A x : Maps(m1, p[b], w, x) <=> Maps(m, p[b], w, x)
    BY <1>1, <1>3 DEF Removed, Touched
  <2> QED
    BY <1>3, <2>1, SameTr
<1>4. Tr(m1, p[kernel], v) = NoPage
  <2>1. \A x : ~Maps(m1, p[kernel], v, x)
    BY <1>1, TwoHalves DEF Removed, Touched
  <2> QED
    BY <1>1, <2>1 DEF Value
<1>5. FlatK(m1, p) = [FlatK(m, p) EXCEPT ![v] = NoPage]
  BY <1>1, <1>3, <1>4 DEF FlatK
<1>6. FlatU(m1, p) = FlatU(m, p)
  BY <1>1, <1>3, TwoHalves DEF FlatU
<1> QED
  BY <1>2, <1>5, <1>6

(* A user page is mapped: in its own process and nowhere else.             *)
LEMMA FlatMapUser ==
  ASSUME NEW m, NEW u, NEW p, Value(m, u, p), NEW m1, NEW u1, Value(m1, u1, p),
         NEW q \in Procs, NEW v \in UserPages, NEW f, Added(m, p, q, v, f, m1),
         p[kernel] # NotMapped, p[q] # NotMapped, \A x : ~Maps(m, p[q], v, x)
  PROVE  /\ FlatU(m, p)[q][v] = NoPage
         /\ FlatU(m1, p) = [FlatU(m, p) EXCEPT ![q][v] = Page(f, v)]
         /\ FlatK(m1, p) = FlatK(m, p)
<1>1. kernel \in Spaces /\ Procs \subseteq Spaces /\ v \in VmPages
      /\ KernelPages \subseteq VmPages /\ UserPages \subseteq VmPages /\ VmPages \subseteq SmallPages
  BY VmPagesFacts DEF VmPages
<1>2. FlatU(m, p)[q][v] = NoPage
  <2>1. Tr(m, p[q], v) = NoPage
    BY <1>1 DEF Value
  <2> QED
    BY <2>1 DEF FlatU
<1>3. ASSUME NEW b \in Spaces, NEW w \in VmPages, ~(w = v /\ b = q), p[b] # NotMapped
      PROVE  Tr(m1, p[b], w) = Tr(m, p[b], w)
  <2>1. ~Touched(q, v, b, w)
    BY <1>3, TwoHalves DEF Touched
  <2>2. \A x : Maps(m1, p[b], w, x) <=> Maps(m, p[b], w, x)
    BY <1>1, <1>3, <2>1 DEF Added
  <2> QED
    BY <1>3, <2>2, SameTr
<1>4. Tr(m1, p[q], v) = Page(f, v)
  <2>1. Maps(m1, p[q], v, f)
    BY <1>1 DEF Added, Touched
  <2> QED
    BY <1>1, <2>1 DEF Value
<1>5. \A b \in Procs : b # q => FlatU(m1, p)[b] = FlatU(m, p)[b]
  BY <1>1, <1>3 DEF FlatU
<1>6. FlatU(m1, p) = [FlatU(m, p) EXCEPT ![q][v] = Page(f, v)]
  <2>1. FlatU(m1, p)[q] = [FlatU(m, p)[q] EXCEPT ![v] = Page(f, v)]
    BY <1>1, <1>3, <1>4 DEF FlatU
  <2>2. /\ DOMAIN FlatU(m, p) = Procs /\ DOMAIN FlatU(m1, p) = Procs
        /\ FlatU(m1, p) = [b \in Procs |-> FlatU(m1, p)[b]]
        /\ FlatU(m, p) = [b \in Procs |-> FlatU(m, p)[b]]
    BY DEF FlatU
  <2> QED
    BY ONLY <1>5, <2>1, <2>2
<1>7. FlatK(m1, p) = FlatK(m, p)
  BY <1>1, <1>3, TwoHalves DEF FlatK
<1> QED
  BY <1>2, <1>6, <1>7

LEMMA FlatUnmapUser ==
  ASSUME NEW m, NEW u, NEW p, Value(m, u, p), NEW m1, NEW u1, Value(m1, u1, p),
         NEW q \in Procs, NEW v \in UserPages, Removed(m, p, q, v, m1),
         p[kernel] # NotMapped, p[q] # NotMapped, \E x : Maps(m, p[q], v, x),
         NotMapped \notin u
  PROVE  /\ FlatU(m, p)[q][v] # NoPage
         /\ FlatU(m1, p) = [FlatU(m, p) EXCEPT ![q][v] = NoPage]
         /\ FlatK(m1, p) = FlatK(m, p)
<1>1. kernel \in Spaces /\ Procs \subseteq Spaces /\ v \in VmPages
      /\ KernelPages \subseteq VmPages /\ UserPages \subseteq VmPages /\ VmPages \subseteq SmallPages
  BY VmPagesFacts DEF VmPages
<1>2. FlatU(m, p)[q][v] # NoPage
  <2>1. PICK x : Maps(m, p[q], v, x)
    OBVIOUS
  <2>2. Tr(m, p[q], v) = Page(x, v) /\ x # NotMapped
    BY <1>1, <2>1 DEF Value
  <2>3. FlatU(m, p)[q][v] = Tr(m, p[q], v)
    BY DEF FlatU
  <2> QED
    BY <2>2, <2>3 DEF Page, NoPage
<1>3. ASSUME NEW b \in Spaces, NEW w \in VmPages, ~(w = v /\ b = q), p[b] # NotMapped
      PROVE  Tr(m1, p[b], w) = Tr(m, p[b], w)
  <2>1. ~Touched(q, v, b, w)
    BY <1>3, TwoHalves DEF Touched
  <2>2. \A x : Maps(m1, p[b], w, x) <=> Maps(m, p[b], w, x)
    BY <1>1, <1>3, <2>1 DEF Removed
  <2> QED
    BY <1>3, <2>2, SameTr
<1>4. Tr(m1, p[q], v) = NoPage
  <2>1. \A x : ~Maps(m1, p[q], v, x)
    BY <1>1 DEF Removed, Touched
  <2> QED
    BY <1>1, <2>1 DEF Value
<1>5. \A b \in Procs : b # q => FlatU(m1, p)[b] = FlatU(m, p)[b]
  BY <1>1, <1>3 DEF FlatU
<1>6. FlatU(m1, p) = [FlatU(m, p) EXCEPT ![q][v] = NoPage]
  <2>1. FlatU(m1, p)[q] = [FlatU(m, p)[q] EXCEPT ![v] = NoPage]
    BY <1>1, <1>3, <1>4 DEF FlatU
  <2>2. /\ DOMAIN FlatU(m, p) = Procs /\ DOMAIN FlatU(m1, p) = Procs
        /\ FlatU(m1, p) = [b \in Procs |-> FlatU(m1, p)[b]]
        /\ FlatU(m, p) = [b \in Procs |-> FlatU(m, p)[b]]
    BY DEF FlatU
  <2> QED
    BY ONLY <1>5, <2>1, <2>2
<1>7. FlatK(m1, p) = FlatK(m, p)
  BY <1>1, <1>3, TwoHalves DEF FlatK
<1> QED
  BY <1>2, <1>6, <1>7

(* A new process sees the kernel's pages, and has none of its own.         *)
LEMMA FlatCreate ==
  ASSUME NEW m, NEW u, NEW p, Value(m, u, p), NEW m1, NEW u1, NEW p1, Value(m1, u1, p1),
         NEW q \in Procs, p[q] = NotMapped, p[kernel] # NotMapped,
         p1[q] # NotMapped, \A b \in Spaces : b # q => p1[b] = p[b], Copied(m, p, q, m1, p1)
  PROVE  FlatK(m1, p1) = FlatK(m, p) /\ FlatU(m1, p1) = FlatU(m, p)
<1>1. kernel \in Spaces /\ Procs \subseteq Spaces
      /\ KernelPages \subseteq VmPages /\ UserPages \subseteq VmPages /\ VmPages \subseteq SmallPages
  BY VmPagesFacts DEF VmPages
<1>2. /\ p1[q] # NotMapped
      /\ \A b \in Spaces : b # q => p1[b] = p[b]
  OBVIOUS
<1>3. ASSUME NEW b \in Spaces, NEW w \in VmPages, p[b] # NotMapped
      PROVE  p1[b] = p[b] /\ Tr(m1, p1[b], w) = Tr(m, p[b], w)
  <2>1. p1[b] = p[b]
    BY <1>2, <1>3
  <2>2. \A x : Maps(m1, p1[b], w, x) <=> Maps(m, p[b], w, x)
    BY <1>1, <1>3 DEF Copied
  <2>3. p1[b] # NotMapped
    BY <1>3, <2>1
  <2>4. Tr(m1, p1[b], w) = Tr(m, p[b], w)
    BY ONLY Value(m, u, p), Value(m1, u1, p1), b \in Spaces, w \in VmPages, <1>3, <2>2, <2>3,
            SameTr
  <2> QED
    BY <2>1, <2>4
<1>4. ASSUME NEW w \in UserPages PROVE Tr(m1, p1[q], w) = NoPage
  <2>1. \A x : ~Maps(m1, p1[q], w, x)
    BY DEF Copied
  <2> QED
    BY <1>1, <1>2, <2>1 DEF Value
<1>5. FlatK(m1, p1) = FlatK(m, p)
  BY <1>1, <1>3 DEF FlatK
<1>6. FlatU(m1, p1) = FlatU(m, p)
  <2>1. ASSUME NEW b \in Procs, NEW w \in UserPages
        PROVE  (IF p1[b] # NotMapped THEN Tr(m1, p1[b], w) ELSE NoPage)
                 = (IF p[b] # NotMapped THEN Tr(m, p[b], w) ELSE NoPage)
    <3>1. CASE b = q
      BY <1>2, <1>4, <3>1
    <3>2. CASE b # q
      BY <1>1, <1>2, <1>3, <3>2
    <3> QED
      BY <3>1, <3>2
  <2> QED
    BY ONLY <2>1 DEF FlatU
<1> QED
  BY <1>5, <1>6

LEMMA FlatNow ==
  /\ [v \in KernelPages |-> Translate(kernel, v)] = FlatK(mem, pml4)
  /\ [q \in Procs |-> [v \in UserPages |->
        IF Made(q) THEN Translate(q, v) ELSE [f |-> NotMapped, user |-> FALSE]]]
       = FlatU(mem, pml4)
<1>1. \A a, v : Translate(a, v) = Tr(mem, pml4[a], v)
  BY TranslateIsTr
<1> QED
  BY ONLY <1>1 DEF FlatK, FlatU, NoPage, Made

LEMMA FlatNext ==
  /\ [v \in KernelPages |-> Translate(kernel, v)]' = FlatK(mem', pml4')
  /\ [q \in Procs |-> [v \in UserPages |->
        IF Made(q) THEN Translate(q, v) ELSE [f |-> NotMapped, user |-> FALSE]]]'
       = FlatU(mem', pml4')
<1>1. \A a, v : Translate(a, v)' = Tr(mem', pml4'[a], v)
  BY DEF Translate, Tr
<1> QED
  BY ONLY <1>1 DEF FlatK, FlatU, NoPage, Made

(* What PInv says of the flat maps.                                        *)
FlatOK(m, u, p) ==
  /\ Value(m, u, p) /\ p[kernel] # NotMapped /\ NotMapped \notin u
  /\ DOMAIN p = Spaces
  /\ \A a \in Spaces, v \in KernelPages : p[a] # NotMapped =>
       \A x : Maps(m, p[a], v, x) <=> Maps(m, p[kernel], v, x)

LEMMA FlatOKOf ==
  ASSUME NEW m, NEW u, NEW p, NEW lv, NEW hf, Good(m, u, p, lv, hf), Kept(m, u, p)
  PROVE  FlatOK(m, u, p)
<1>1. Value(m, u, p)
  BY ValueOf
<1>2. p[kernel] # NotMapped /\ NotMapped \notin u /\ DOMAIN p = Spaces
  BY Numbers DEF Good, Tables, TablesType
<1>3. ASSUME NEW a \in Spaces, NEW v \in KernelPages, p[a] # NotMapped
      PROVE  \A x : Maps(m, p[a], v, x) <=> Maps(m, p[kernel], v, x)
  <2>1. v \in Pages /\ KernelSlot(Ix(v, 3))
    BY VmPagesFacts, TwoHalves DEF VmPages
  <2>2. Ix(v, 3) \in Slots
    BY <2>1, IxType
  <2>3. m[p[a]][Ix(v, 3)] = m[p[kernel]][Ix(v, 3)]
    BY <1>3, <2>1, <2>2 DEF Kept
  <2> QED
    BY ONLY <2>3, SharedWays
<1> QED
  BY ONLY <1>1, <1>2, <1>3 DEF FlatOK

LEMMA FlatOKNow == PInv => FlatOK(mem, used, pml4)
BY FlatOKOf DEF PInv

LEMMA FlatOKNext == PInv' => FlatOK(mem', used', pml4')
BY FlatOKOf DEF PInv

(* The maps of Flat, before and after a step.                              *)
FlatStep ==
  LET km == [v \in KernelPages |-> Translate(kernel, v)]
      um == [q \in Procs |-> [v \in UserPages |->
               IF Made(q) THEN Translate(q, v) ELSE [f |-> NotMapped, user |-> FALSE]]]
      mk == {q \in Procs : Made(q)}
  IN /\ km = FlatK(mem, pml4) /\ km' = FlatK(mem', pml4')
     /\ um = FlatU(mem, pml4) /\ um' = FlatU(mem', pml4')
     /\ mk = {q \in Procs : pml4[q] # NotMapped} /\ mk' = {q \in Procs : pml4'[q] # NotMapped}

LEMMA FlatStepHolds == FlatStep
<1>1. {q \in Procs : Made(q)}' = {q \in Procs : pml4'[q] # NotMapped}
  BY DEF Made
<1>2. {q \in Procs : Made(q)} = {q \in Procs : pml4[q] # NotMapped}
  BY DEF Made
<1> QED
  BY ONLY <1>1, <1>2, FlatNow, FlatNext DEF FlatStep

LEMMA MapKernelFlat ==
  ASSUME PInv, NEW a \in Spaces, NEW v \in KernelPages, VmmMapPage(a, v, FALSE)
  PROVE  Flat!MapKernel(v)
<1>1. v \in VmPages /\ FALSE = ~KernelSlot(Ix(v, 3))
  BY TwoHalves DEF VmPages
<1>2. /\ PInv' /\ Made(a) /\ pml4' = pml4 /\ \A x : ~Maps(mem, pml4[a], v, x)
      /\ \E f \in Frames \ used : Added(mem, pml4, a, v, f, mem')
  BY ONLY PInv, a \in Spaces, VmmMapPage(a, v, FALSE), <1>1, MapStep
<1>3. PICK f \in Frames \ used : Added(mem, pml4, a, v, f, mem')
  BY <1>2
<1>4. FlatOK(mem, used, pml4) /\ FlatOK(mem', used', pml4)
  BY <1>2, FlatOKNow, FlatOKNext
<1>5. /\ FlatK(mem, pml4)[v] = NoPage
      /\ FlatK(mem', pml4) = [FlatK(mem, pml4) EXCEPT ![v] = Page(f, v)]
      /\ FlatU(mem', pml4) = FlatU(mem, pml4)
  <2>1. /\ Value(mem, used, pml4) /\ Value(mem', used', pml4) /\ pml4[kernel] # NotMapped
        /\ \A x : ~Maps(mem, pml4[kernel], v, x)
    BY <1>2, <1>4 DEF FlatOK, Made
  <2> QED
    BY ONLY <1>3, <2>1, a \in Spaces, v \in KernelPages, FlatMapKernel
<1>6. f \in Frames \ FlatInUse(FlatK(mem, pml4), FlatU(mem, pml4))
  <2>1. FlatInUse(FlatK(mem, pml4), FlatU(mem, pml4)) \subseteq used \cup {NotMapped}
    BY <1>4, InUseIsUsed DEF FlatOK
  <2> QED
    BY <2>1, Numbers
<1>7. Page(f, v).f = f /\ Page(f, v).user = FALSE /\ v \in DOMAIN FlatK(mem, pml4)
  BY TwoHalves DEF FlatK
<1> QED
  BY ONLY <1>2, <1>5, <1>6, <1>7, FlatStepHolds
     DEF FlatStep, Flat!MapKernel, Flat!InUse, FlatInUse, NoPage

LEMMA UnmapKernelFlat ==
  ASSUME PInv, NEW a \in Spaces, NEW v \in KernelPages, VmmUnmapPage(a, v)
  PROVE  Flat!UnmapKernel(v)
<1>1. v \in VmPages
  BY DEF VmPages
<1>2. /\ PInv' /\ Made(a) /\ pml4' = pml4
      /\ \E x : Maps(mem, pml4[a], v, x)
      /\ Removed(mem, pml4, a, v, mem')
  BY <1>1, UnmapStep
<1>3. FlatOK(mem, used, pml4) /\ FlatOK(mem', used', pml4)
  BY <1>2, FlatOKNow, FlatOKNext
<1>4. /\ FlatK(mem, pml4)[v] # NoPage
      /\ FlatK(mem', pml4) = [FlatK(mem, pml4) EXCEPT ![v] = NoPage]
      /\ FlatU(mem', pml4) = FlatU(mem, pml4)
  <2>1. /\ Value(mem, used, pml4) /\ Value(mem', used', pml4) /\ pml4[kernel] # NotMapped
        /\ NotMapped \notin used /\ \E x : Maps(mem, pml4[kernel], v, x)
    BY <1>2, <1>3 DEF FlatOK, Made
  <2> QED
    BY ONLY <1>2, <2>1, a \in Spaces, v \in KernelPages, FlatUnmapKernel
<1> QED
  BY ONLY <1>2, <1>4, FlatStepHolds DEF FlatStep, Flat!UnmapKernel, NoPage

LEMMA MapUserFlat ==
  ASSUME PInv, NEW q \in Procs, NEW v \in UserPages, VmmMapPage(q, v, TRUE)
  PROVE  Flat!MapUser(q, v)
<1>1. v \in VmPages /\ q \in Spaces /\ TRUE = ~KernelSlot(Ix(v, 3))
  BY TwoHalves, VmPagesFacts DEF VmPages
<1>2. /\ PInv' /\ Made(q) /\ pml4' = pml4 /\ \A x : ~Maps(mem, pml4[q], v, x)
      /\ \E f \in Frames \ used : Added(mem, pml4, q, v, f, mem')
  BY ONLY PInv, VmmMapPage(q, v, TRUE), <1>1, MapStep
<1>3. PICK f \in Frames \ used : Added(mem, pml4, q, v, f, mem')
  BY <1>2
<1>4. FlatOK(mem, used, pml4) /\ FlatOK(mem', used', pml4)
  BY <1>2, FlatOKNow, FlatOKNext
<1>5. /\ FlatU(mem, pml4)[q][v] = NoPage
      /\ FlatU(mem', pml4) = [FlatU(mem, pml4) EXCEPT ![q][v] = Page(f, v)]
      /\ FlatK(mem', pml4) = FlatK(mem, pml4)
  <2>1. /\ Value(mem, used, pml4) /\ Value(mem', used', pml4)
        /\ pml4[kernel] # NotMapped /\ pml4[q] # NotMapped
    BY <1>2, <1>4 DEF FlatOK, Made
  <2> QED
    BY ONLY <1>2, <1>3, <2>1, q \in Procs, v \in UserPages, FlatMapUser
<1>6. f \in Frames \ FlatInUse(FlatK(mem, pml4), FlatU(mem, pml4))
  <2>1. FlatInUse(FlatK(mem, pml4), FlatU(mem, pml4)) \subseteq used \cup {NotMapped}
    BY <1>4, InUseIsUsed DEF FlatOK
  <2> QED
    BY <2>1, Numbers
<1>7. /\ Page(f, v).f = f /\ Page(f, v).user = TRUE
      /\ q \in DOMAIN FlatU(mem, pml4) /\ v \in DOMAIN FlatU(mem, pml4)[q]
  BY TwoHalves DEF FlatU
<1>8. FlatU(mem', pml4)[q][v] = Page(f, v)
  BY ONLY <1>5, <1>7
<1>9. q \in {x \in Procs : pml4[x] # NotMapped}
  BY <1>2 DEF Made
<1>10. FlatU(mem', pml4) = [FlatU(mem, pml4) EXCEPT ![q][v] = FlatU(mem', pml4)[q][v]]
  BY ONLY <1>5, <1>8
<1>11. /\ FlatU(mem', pml4)[q][v].f \in Frames \ FlatInUse(FlatK(mem, pml4), FlatU(mem, pml4))
       /\ FlatU(mem', pml4)[q][v].user
  BY ONLY <1>6, <1>7, <1>8
<1> DEFINE um == [x \in Procs |-> [w \in UserPages |->
                   IF Made(x) THEN Translate(x, w) ELSE [f |-> NotMapped, user |-> FALSE]]]
<1>12. um = FlatU(mem, pml4) /\ um' = FlatU(mem', pml4')
  BY ONLY FlatStepHolds DEF FlatStep
<1> HIDE DEF um
<1>13. FlatInUse(FlatK(mem, pml4), FlatU(mem, pml4)) = Flat!InUse
  BY ONLY FlatStepHolds DEF FlatStep, FlatInUse, Flat!InUse
<1>14. /\ um[q][v] = NoPage /\ um'[q][v].f \in Frames \ Flat!InUse /\ um'[q][v].user
       /\ um' = [um EXCEPT ![q][v] = um'[q][v]]
  BY ONLY <1>2, <1>5, <1>10, <1>11, <1>12, <1>13
<1>15. /\ q \in {x \in Procs : Made(x)}
       /\ UNCHANGED <<[w \in KernelPages |-> Translate(kernel, w)], {x \in Procs : Made(x)}>>
  BY ONLY <1>2, <1>5, <1>9, FlatStepHolds DEF FlatStep
<1> QED
  BY ONLY <1>14, <1>15 DEF um, Flat!MapUser, NoPage

LEMMA UnmapUserFlat ==
  ASSUME PInv, NEW q \in Procs, NEW v \in UserPages, VmmUnmapPage(q, v)
  PROVE  Flat!UnmapUser(q, v)
<1>1. v \in VmPages /\ q \in Spaces
  BY VmPagesFacts DEF VmPages
<1>2. /\ PInv' /\ Made(q) /\ pml4' = pml4
      /\ \E x : Maps(mem, pml4[q], v, x)
      /\ Removed(mem, pml4, q, v, mem')
  BY <1>1, UnmapStep
<1>3. FlatOK(mem, used, pml4) /\ FlatOK(mem', used', pml4)
  BY <1>2, FlatOKNow, FlatOKNext
<1>4. /\ FlatU(mem, pml4)[q][v] # NoPage
      /\ FlatU(mem', pml4) = [FlatU(mem, pml4) EXCEPT ![q][v] = NoPage]
      /\ FlatK(mem', pml4) = FlatK(mem, pml4)
  <2>1. /\ Value(mem, used, pml4) /\ Value(mem', used', pml4) /\ pml4[kernel] # NotMapped
        /\ pml4[q] # NotMapped /\ NotMapped \notin used
    BY <1>2, <1>3 DEF FlatOK, Made
  <2> QED
    BY ONLY <1>2, <2>1, q \in Procs, v \in UserPages, FlatUnmapUser
<1>5. q \in {x \in Procs : pml4[x] # NotMapped}
  BY <1>2 DEF Made
<1> QED
  BY ONLY <1>2, <1>4, <1>5, FlatStepHolds DEF FlatStep, Flat!UnmapUser, NoPage

LEMMA CreateFlat ==
  ASSUME PInv, NEW q \in Procs, CreateUserProcess(q)
  PROVE  Flat!Create(q)
<1>1. PICK n \in Frames \ used : /\ PInv' /\ ~Made(q) /\ pml4' = [pml4 EXCEPT ![q] = n]
                                 /\ Copied(mem, pml4, q, mem', pml4')
  BY CreateStep
<1>2. FlatOK(mem, used, pml4) /\ FlatOK(mem', used', pml4')
  BY <1>1, FlatOKNow, FlatOKNext
<1>3. FlatK(mem', pml4') = FlatK(mem, pml4) /\ FlatU(mem', pml4') = FlatU(mem, pml4)
  <2>1. /\ Value(mem, used, pml4) /\ Value(mem', used', pml4') /\ pml4[kernel] # NotMapped
        /\ pml4[q] = NotMapped /\ DOMAIN pml4 = Spaces /\ n # NotMapped
    BY <1>1, <1>2, Numbers DEF FlatOK, Made
  <2>2. /\ pml4'[q] # NotMapped /\ \A b \in Spaces : b # q => pml4'[b] = pml4[b]
        /\ Copied(mem, pml4, q, mem', pml4')
    BY <1>1, <2>1, VmPagesFacts
  <2> QED
    BY ONLY <2>1, <2>2, q \in Procs, FlatCreate
<1>4. /\ q \notin {x \in Procs : pml4[x] # NotMapped}
      /\ {x \in Procs : pml4'[x] # NotMapped} = {x \in Procs : pml4[x] # NotMapped} \cup {q}
  <2>1. pml4[q] = NotMapped /\ DOMAIN pml4 = Spaces /\ Procs \subseteq Spaces /\ n # NotMapped
    BY <1>1, <1>2, VmPagesFacts, Numbers DEF FlatOK, Made
  <2>2. pml4'[q] = n /\ \A x \in Procs : x # q => pml4'[x] = pml4[x]
    BY <1>1, <2>1
  <2> QED
    BY ONLY <2>1, <2>2, q \in Procs
<1> QED
  BY ONLY <1>3, <1>4, FlatStepHolds DEF FlatStep, Flat!Create

(* The page tables implement the flat maps: whatever tables a call of      *)
(* vmm_map_page has to make or finds, and through whichever PML4 it goes,  *)
(* it changes the one page it is meant for and gives it a frame of its own. *)
THEOREM TablesAreFlat == Spec => IsFlat
<1>1. Init => Flat!Init
  <2> SUFFICES ASSUME Init PROVE Flat!Init
    OBVIOUS
  <2>1. PInv /\ NoPages(mem, used, pml4) /\ \A a \in Procs : pml4[a] = NotMapped
    BY Booted
  <2>2. FlatOK(mem, used, pml4)
    BY <2>1, FlatOKNow
  <2>3. \A v \in KernelPages : Tr(mem, pml4[kernel], v) = NoPage
    BY <2>1, <2>2, VmPagesFacts DEF FlatOK, Value, NoPages, VmPages
  <2>4. FlatK(mem, pml4) = [v \in KernelPages |-> NoPage]
    BY ONLY <2>3 DEF FlatK
  <2>5. FlatU(mem, pml4) = [q \in Procs |-> [v \in UserPages |-> NoPage]]
    BY ONLY <2>1 DEF FlatU
  <2>6. {q \in Procs : pml4[q] # NotMapped} = {}
    BY <2>1
  <2> QED
    BY ONLY <2>4, <2>5, <2>6, FlatStepHolds DEF FlatStep, Flat!Init, NoPage
<1>2. PInv /\ [Next]_vars => [Flat!Next]_(Flat!vars)
  <2> SUFFICES ASSUME PInv, [Next]_vars PROVE [Flat!Next]_(Flat!vars)
    OBVIOUS
  <2>1. ASSUME NEW q \in Procs, CreateUserProcess(q) PROVE Flat!Next
    BY <2>1, CreateFlat DEF Flat!Next
  <2>2. ASSUME NEW a \in Spaces, NEW v \in KernelPages,
               VmmMapPage(a, v, FALSE) \/ VmmUnmapPage(a, v)
        PROVE  Flat!Next
    BY <2>2, MapKernelFlat, UnmapKernelFlat DEF Flat!Next
  <2>3. ASSUME NEW q \in Procs, NEW v \in UserPages,
               VmmMapPage(q, v, TRUE) \/ VmmUnmapPage(q, v)
        PROVE  Flat!Next
    BY <2>3, MapUserFlat, UnmapUserFlat DEF Flat!Next
  <2>4. CASE UNCHANGED vars
    <3>1. mem' = mem /\ pml4' = pml4
      BY <2>4 DEF vars
    <3>2. UNCHANGED Flat!vars
      BY ONLY <3>1, FlatStepHolds DEF FlatStep, Flat!vars
    <3> QED
      BY <3>2
  <2> QED
    BY <2>1, <2>2, <2>3, <2>4 DEF Next
<1> QED
  BY <1>1, <1>2, PagingInductive, PTL DEF Spec, IsFlat, Flat!Spec
=============================================================================
