-------------------------- MODULE PageTablesProofs --------------------------
(***************************************************************************)
(* Proofs about module PageTables, for tables and pools of any size, any   *)
(* hole and any ranges.                                                    *)
(***************************************************************************)
EXTENDS PageTables, Integers, TLAPS

\* The first level: one L2 table to an index, the static ones where mmu::init
\* put them, and those of the pool taken in order.
L1OK ==
  /\ DOMAIN l1 = 0..L1Size - 1
  /\ l2Next \in 0..L2Pool
  /\ \A i \in 0..L1Size - 1 : l1[i] = None \/ \E t \in L2Tables : l1[i] = Table(t)
  /\ \A i \in 0..StaticL1 - 1 : l1[i] = Table(i)
  /\ \A i, k \in 0..L1Size - 1 : i # k /\ l1[i] # None => l1[i] # l1[k]
  /\ \A i \in StaticL1..L1Size - 1 : l1[i] # None => l1[i].at < StaticL1 + l2Next

\* The second level: one L3 table to an entry, of those taken so far.
L2Shape == DOMAIN l2 = L2Tables /\ \A t \in L2Tables : DOMAIN l2[t] = 0..L2Size - 1

L3Count == l3Next \in 0..L3Pool \/ (l3Next = L3Pool + 1 /\ panic # "none")

L2Kinds ==
  \A t \in L2Tables, j \in 0..L2Size - 1 :
    \/ l2[t][j] = None
    \/ l2[t][j].kind = "block"
    \/ \E k \in L3Tables : l2[t][j] = Table(k) /\ k < l3Next

L2Apart ==
  \A t, u \in L2Tables, i, j \in 0..L2Size - 1 :
    (t # u \/ i # j) /\ l2[t][i].kind = "table" => l2[t][i] # l2[u][j]

L2OK == L2Shape /\ L3Count /\ L2Kinds /\ L2Apart

L3OK == DOMAIN l3 = L3Tables /\ \A k \in L3Tables : DOMAIN l3[k] = 0..L3Size - 1

Jobs == [left : Nat, v : Nat, p : Nat, perm : Perms \cup {BootAttr},
         vaddr : Nat, paddr : Nat, size : Nat]

\* A stopped kernel has no range in hand.
JobOK == job \in Jobs /\ (panic # "none" => job.left = 0)

\* Where the range in hand is: its next page follows the pages done, which the
\* walk gives as they were asked for.  Beyond the last L1 index only the
\* virtual page is counted up.
RangeInHand ==
  job.left > 0 =>
    /\ FirstOfRange(job.vaddr) <= job.v
    /\ job.v + job.left = EndOfRange(job.vaddr, job.size)
    /\ L1Idx(job.v) < L1Size => job.p = job.paddr + job.v - FirstOfRange(job.vaddr)
    /\ \A w \in VirtualPages :
         FirstOfRange(job.vaddr) <= w /\ w < job.v =>
           Translate(w) = Page(job.paddr + w - FirstOfRange(job.vaddr), job.perm)

Structure == L1OK /\ L2OK /\ L3OK

\* The inductive invariant.
IInv == Structure /\ JobOK /\ RangeInHand

-----------------------------------------------------------------------------
(* Division, and how the walk names a page.                                *)

\* What \div and % are, as one fact for the provers.
LEMMA DivMod ==
  ASSUME NEW v \in Nat, NEW k \in Nat \ {0}
  PROVE  v \div k \in Nat /\ v % k \in 0..k - 1 /\ v % k = v - k * (v \div k)
<1>1. v \div k \in Nat /\ v % k \in 0..k - 1
  OBVIOUS
<1>2. v % k = v - k * (v \div k)
  OBVIOUS
<1> QED
  BY <1>1, <1>2

\* Dividing by a product is dividing twice: a page's L1 index by way of L2.
LEMMA DivDiv ==
  ASSUME NEW v \in Nat, NEW a \in Nat \ {0}, NEW b \in Nat \ {0}
  PROVE  v \div (a * b) = (v \div b) \div a
OBVIOUS

\* A later page has no earlier index.
LEMMA DivMonotone ==
  ASSUME NEW v \in Nat, NEW w \in Nat, NEW k \in Nat \ {0}, v <= w
  PROVE  v \div k <= w \div k
OBVIOUS

\* One table further on is one index more.
LEMMA DivPlus ==
  ASSUME NEW v \in Nat, NEW k \in Nat \ {0}
  PROVE  (v + k) \div k = (v \div k) + 1
OBVIOUS

\* A page is before the start of table s when its index is.
LEMMA DivLess ==
  ASSUME NEW v \in Nat, NEW k \in Nat \ {0}, NEW s \in Nat
  PROVE  v < s * k <=> v \div k < s
OBVIOUS

\* The three indices of a page are in the ranges of their tables; the L1 index
\* of a translated page is one of the static ones.
LEMMA Indices ==
  ASSUME NEW v \in Nat
  PROVE  /\ L1Idx(v) \in Nat /\ L2Idx(v) \in 0..L2Size - 1 /\ L3Idx(v) \in 0..L3Size - 1
         /\ v \in VirtualPages <=> L1Idx(v) < StaticL1
<1>1. /\ L2Size \in Nat \ {0} /\ L3Size \in Nat \ {0} /\ StaticL1 \in Nat
      /\ L1Pages = L2Size * L3Size
  BY PageTablesAssumption DEF L1Pages
<1>2. L1Pages \in Nat \ {0}
  BY <1>1
<1>3. L1Idx(v) \in Nat
  BY <1>2, DivMod DEF L1Idx
<1>4. v \div L3Size \in Nat /\ L3Idx(v) \in 0..L3Size - 1
  BY <1>1, DivMod DEF L3Idx
<1>5. L2Idx(v) \in 0..L2Size - 1
  BY <1>1, <1>4, DivMod DEF L2Idx
<1>6. v < StaticL1 * L1Pages <=> L1Idx(v) < StaticL1
  BY <1>1, <1>2, DivLess DEF L1Idx
<1>7. StaticL1 * L1Pages \in Nat
  BY <1>1, <1>2
<1> QED
  BY <1>3, <1>4, <1>5, <1>6, <1>7 DEF VirtualPages

\* Two pages with the same indices are one: a write through the walk changes
\* no other page.
LEMMA IndicesNamePage ==
  ASSUME NEW v \in Nat, NEW w \in Nat,
         L1Idx(v) = L1Idx(w), L2Idx(v) = L2Idx(w), L3Idx(v) = L3Idx(w)
  PROVE  v = w
<1>1. L2Size \in Nat \ {0} /\ L3Size \in Nat \ {0}
  BY PageTablesAssumption
<1> DEFINE bv == v \div L3Size
           bw == w \div L3Size
<1>3. bv \in Nat /\ bw \in Nat
  BY <1>1, DivMod
<1>4. L1Idx(v) = bv \div L2Size /\ L1Idx(w) = bw \div L2Size
  BY <1>1, DivDiv DEF L1Idx, L1Pages
<1>5. v % L3Size = w % L3Size /\ bv % L2Size = bw % L2Size
  BY DEF L2Idx, L3Idx
<1> HIDE DEF bv, bw
<1>6. bv = bw
  <2>1. /\ bv % L2Size = bv - L2Size * (bv \div L2Size)
        /\ bw % L2Size = bw - L2Size * (bw \div L2Size)
    BY <1>1, <1>3, DivMod
  <2>2. bv \div L2Size \in Nat /\ bw \div L2Size = bv \div L2Size
    BY <1>1, <1>3, <1>4, DivMod
  <2> QED
    BY <1>1, <1>3, <1>5, <2>1, <2>2
<1>7. /\ v % L3Size = v - L3Size * bv /\ w % L3Size = w - L3Size * bw
  BY <1>1, DivMod DEF bv, bw
<1> QED
  BY <1>1, <1>3, <1>5, <1>6, <1>7

-----------------------------------------------------------------------------
(* Tables.                                                                 *)

\* Entries of different kinds differ, and tables with different numbers.
LEMMA EntriesDiffer ==
  /\ None.kind = "none"
  /\ \A k : Table(k).kind = "table" /\ Table(k).at = k /\ Table(k) # None
  /\ \A p : Block(p).kind = "block" /\ Block(p).base = p
  /\ \A j, k : Table(j) = Table(k) => j = k
<1>1. \A k : Table(k).kind = "table" /\ Table(k).at = k
  BY DEF Table
<1>2. \A p : Block(p).kind = "block" /\ Block(p).base = p
  BY DEF Block
<1>3. None.kind = "none"
  BY DEF None
<1>4. \A j, k : Table(j) = Table(k) => j = k
  <2>1. ASSUME NEW j, NEW k, Table(j) = Table(k) PROVE j = k
    <3>1. Table(j).at = j /\ Table(k).at = k
      BY <1>1
    <3> QED
      BY <2>1, <3>1
  <2> QED
    BY <2>1
<1>5. \A k : Table(k) # None
  <2>1. ASSUME NEW k, Table(k) = None PROVE FALSE
    <3>1. Table(k).kind = "table"
      BY <1>1
    <3> QED
      BY <1>3, <2>1, <3>1
  <2> QED
    BY <2>1
<1> QED
  BY <1>1, <1>2, <1>3, <1>4, <1>5

\* The tables of the pools, and the sizes, as numbers.
LEMMA TableSets ==
  /\ L2Tables = 0..StaticL1 + L2Pool - 1 /\ L3Tables = 0..L3Pool - 1
  /\ {StaticL1, L1Size, L2Size, L3Size} \subseteq Nat \ {0} /\ StaticL1 <= L1Size
  /\ L2Pool \in Nat /\ L3Pool \in Nat
BY PageTablesAssumption DEF L2Tables, L3Tables

\* Making sure of an L2 table takes at most one, which no other index has.
LEMMA EnsureL2Keeps ==
  ASSUME L1OK, JobOK, HasL2, EnsureL2(job.v)
  PROVE  /\ L1OK'
         /\ L1Idx(job.v) \in 0..L1Size - 1 /\ L2Of(job.v) \in L2Tables
         /\ l1'[L1Idx(job.v)] = Table(L2Of(job.v))
<1> DEFINE i == L1Idx(job.v)
           n == StaticL1 + l2Next
<1>1. job.v \in Nat /\ i \in 0..L1Size - 1
  <2>1. job.v \in Nat
    BY DEF JobOK, Jobs
  <2>2. i \in Nat /\ i < L1Size
    BY <2>1, Indices DEF HasL2, InRange
  <2> QED
    BY <2>1, <2>2, TableSets
<1>2. /\ DOMAIN l1 = 0..L1Size - 1 /\ l2Next \in 0..L2Pool
      /\ \A k \in 0..L1Size - 1 : l1[k] = None \/ \E t \in L2Tables : l1[k] = Table(t)
  BY DEF L1OK
<1>3. CASE ~NeedsL2(job.v)
  <2>1. l1' = l1 /\ l2Next' = l2Next
    BY <1>3 DEF EnsureL2
  <2>2. L1OK'
    BY <2>1 DEF L1OK
  <2>3. PICK t \in L2Tables : l1[i] = Table(t)
    BY <1>1, <1>2, <1>3 DEF NeedsL2
  <2>4. L2Of(job.v) = t
    BY <1>3, <2>3, EntriesDiffer DEF L2Of
  <2> QED
    BY <1>1, <2>1, <2>2, <2>3, <2>4
<1>4. CASE NeedsL2(job.v)
  <2>1. /\ l1[i] = None /\ l2Next < L2Pool /\ l2Next' = l2Next + 1
        /\ l1' = [l1 EXCEPT ![i] = Table(n)] /\ L2Of(job.v) = n
    BY <1>4 DEF HasL2, NeedsL2, EnsureL2, L2Of
  <2>2. n \in L2Tables /\ l2Next' \in 0..L2Pool
    BY <1>2, <2>1, TableSets
  <2>3. /\ DOMAIN l1' = 0..L1Size - 1 /\ l1'[i] = Table(n)
        /\ \A k \in 0..L1Size - 1 : k # i => l1'[k] = l1[k]
    BY <1>1, <1>2, <2>1
  <2>4. i >= StaticL1
    BY <1>1, <2>1, EntriesDiffer, TableSets DEF L1OK
  <2>5. \A k \in 0..L1Size - 1 : l1[k] # None => \E t \in L2Tables : l1[k] = Table(t) /\ t < n
    <3>1. ASSUME NEW k \in 0..L1Size - 1, l1[k] # None
          PROVE  \E t \in L2Tables : l1[k] = Table(t) /\ t < n
      <4>1. PICK t \in L2Tables : l1[k] = Table(t)
        BY <1>2, <3>1
      <4>2. CASE k < StaticL1
        <5>1. Table(t) = Table(k)
          BY <3>1, <4>1, <4>2, TableSets DEF L1OK
        <5>2. t = k
          BY <5>1, EntriesDiffer
        <5> QED
          BY <1>2, <4>1, <4>2, <5>2, TableSets
      <4>3. CASE k >= StaticL1
        <5>1. l1[k].at < n
          BY <3>1, <4>3, TableSets DEF L1OK
        <5> QED
          BY <4>1, <5>1, EntriesDiffer
      <4> QED
        BY <3>1, <4>2, <4>3, TableSets
    <3> QED
      BY <3>1
  <2>6. \A k \in 0..L1Size - 1 : l1'[k] = None \/ \E t \in L2Tables : l1'[k] = Table(t)
    BY <1>2, <2>2, <2>3
  <2>7. \A k \in 0..StaticL1 - 1 : l1'[k] = Table(k)
    BY <2>3, <2>4, TableSets DEF L1OK
  <2>8. ASSUME NEW k \in 0..L1Size - 1, NEW m \in 0..L1Size - 1, k # m, l1'[k] # None
        PROVE  l1'[k] # l1'[m]
    <3>1. \A x \in 0..L1Size - 1 : l1[x] # Table(n)
      <4>1. n \in Nat
        BY <1>2, TableSets
      <4> QED
        BY <2>5, <4>1, EntriesDiffer, TableSets
    <3>2. CASE k = i \/ m = i
      BY <2>3, <2>8, <3>1, <3>2
    <3>3. CASE k # i /\ m # i
      BY <2>3, <2>8, <3>3 DEF L1OK
    <3> QED
      BY <3>2, <3>3
  <2>9. \A k \in StaticL1..L1Size - 1 : l1'[k] # None => l1'[k].at < StaticL1 + l2Next'
    <3>1. ASSUME NEW k \in StaticL1..L1Size - 1, l1'[k] # None
          PROVE  l1'[k].at < StaticL1 + l2Next'
      <4>1. n \in Nat /\ StaticL1 + l2Next' = n + 1 /\ k \in 0..L1Size - 1
        BY <1>2, <2>1, TableSets
      <4>2. CASE k = i
        BY <2>3, <4>1, <4>2, EntriesDiffer
      <4>3. CASE k # i
        <5>1. l1'[k] = l1[k] /\ l1[k] # None
          BY <2>3, <3>1, <4>1, <4>3
        <5>2. PICK t \in L2Tables : l1[k] = Table(t) /\ t < n
          BY <2>5, <4>1, <5>1
        <5>3. t \in Nat /\ l1[k].at = t
          BY <5>2, EntriesDiffer, TableSets
        <5> QED
          BY <4>1, <5>1, <5>2, <5>3
      <4> QED
        BY <4>2, <4>3
    <3> QED
      BY <3>1
  <2>10. L1OK'
    BY <2>2, <2>3, <2>6, <2>7, <2>8, <2>9 DEF L1OK
  <2> QED
    BY <1>1, <2>1, <2>2, <2>3, <2>10
<1> QED
  BY <1>3, <1>4

\* An L3 table taken for an entry is in no other entry.
LEMMA TakeL3Keeps ==
  ASSUME L2OK, l3Next < L3Pool, NEW t \in L2Tables, NEW j \in 0..L2Size - 1,
         l2' = [l2 EXCEPT ![t][j] = Table(l3Next)], l3Next' = l3Next + 1
  PROVE  /\ L2OK' /\ l3Next \in L3Tables /\ l2'[t][j] = Table(l3Next)
         /\ \A u \in L2Tables, k \in 0..L2Size - 1 :
              (u # t \/ k # j) => l2'[u][k] = l2[u][k] /\ l2[u][k] # Table(l3Next)
<1>1. l3Next \in L3Tables /\ l3Next' \in 0..L3Pool /\ l3Next \in Nat
  <2>1. L3Pool \in Nat /\ L3Tables = 0..L3Pool - 1
    BY TableSets
  <2>2. l3Next \in Nat
    BY <2>1 DEF L2OK, L3Count
  <2> QED
    BY <2>1, <2>2
<1>2. /\ DOMAIN l2' = L2Tables /\ \A u \in L2Tables : DOMAIN l2'[u] = 0..L2Size - 1
      /\ l2'[t][j] = Table(l3Next)
      /\ \A u \in L2Tables, k \in 0..L2Size - 1 : (u # t \/ k # j) => l2'[u][k] = l2[u][k]
  <2>1. DOMAIN l2 = L2Tables /\ \A u \in L2Tables : DOMAIN l2[u] = 0..L2Size - 1
    BY DEF L2OK, L2Shape
  <2> DEFINE row == [l2[t] EXCEPT ![j] = Table(l3Next)]
  <2>2. /\ DOMAIN row = 0..L2Size - 1 /\ row[j] = Table(l3Next)
        /\ \A k \in 0..L2Size - 1 : k # j => row[k] = l2[t][k]
    BY <2>1
  <2>3. l2' = [l2 EXCEPT ![t] = row]
    OBVIOUS
  <2> HIDE DEF row
  <2>4. /\ DOMAIN l2' = L2Tables /\ l2'[t] = row
        /\ \A u \in L2Tables : u # t => l2'[u] = l2[u]
    BY <2>1, <2>3
  <2> QED
    BY <2>1, <2>2, <2>4
<1>3. \A u \in L2Tables, k \in 0..L2Size - 1 : l2[u][k] # Table(l3Next)
  <2>1. ASSUME NEW u \in L2Tables, NEW k \in 0..L2Size - 1, l2[u][k] = Table(l3Next)
        PROVE  FALSE
    <3>1. PICK m \in L3Tables : l2[u][k] = Table(m) /\ m < l3Next
      BY <2>1, EntriesDiffer DEF L2OK, L2Kinds
    <3>2. m = l3Next
      BY <2>1, <3>1, EntriesDiffer
    <3> QED
      BY <1>1, <3>1, <3>2
  <2> QED
    BY <2>1
<1>4. ASSUME NEW u \in L2Tables, NEW k \in 0..L2Size - 1
      PROVE  \/ l2'[u][k] = None
             \/ l2'[u][k].kind = "block"
             \/ \E m \in L3Tables : l2'[u][k] = Table(m) /\ m < l3Next'
  <2>1. CASE u = t /\ k = j
    BY <1>1, <1>2, <2>1
  <2>2. CASE u # t \/ k # j
    <3>1. CASE \E m \in L3Tables : l2[u][k] = Table(m) /\ m < l3Next
      <4>1. PICK m \in L3Tables : l2[u][k] = Table(m) /\ m < l3Next
        BY <3>1
      <4>2. m \in Nat /\ m < l3Next'
        BY <1>1, <4>1, TableSets
      <4> QED
        BY <1>2, <2>2, <4>1, <4>2
    <3> QED
      BY <1>2, <2>2, <3>1 DEF L2OK, L2Kinds
  <2> QED
    BY <2>1, <2>2
<1>5. ASSUME NEW u \in L2Tables, NEW m \in L2Tables, NEW i \in 0..L2Size - 1,
             NEW k \in 0..L2Size - 1, u # m \/ i # k, l2'[u][i].kind = "table"
      PROVE  l2'[u][i] # l2'[m][k]
  <2>1. CASE u = t /\ i = j
    BY <1>2, <1>3, <1>5, <2>1
  <2>2. CASE m = t /\ k = j
    BY <1>2, <1>3, <1>5, <2>2
  <2>3. CASE ~(u = t /\ i = j) /\ ~(m = t /\ k = j)
    BY <1>2, <1>5, <2>3 DEF L2OK, L2Apart
  <2> QED
    BY <2>1, <2>2, <2>3
<1>6. L2OK'
  <2>1. L3Count'
    BY <1>1 DEF L3Count
  <2>2. L2Shape'
    BY <1>2 DEF L2Shape
  <2>3. L2Kinds'
    BY <1>4 DEF L2Kinds
  <2>4. L2Apart'
    BY <1>5 DEF L2Apart
  <2> QED
    BY <2>1, <2>2, <2>3, <2>4 DEF L2OK
<1> QED
  BY <1>1, <1>2, <1>3, <1>6

-----------------------------------------------------------------------------
(* The walk.                                                               *)

\* What the walk finds for page w from the L2 entry e and the L3 tables.
Walked(e, tables, w) ==
  CASE e.kind = "none"  -> None
    [] e.kind = "block" -> Page(e.base + L3Idx(w), BootAttr)
    [] e.kind = "table" -> tables[e.at][L3Idx(w)]

\* What a walk gives below an entry of each kind.
LEMMA WalkedCases ==
  ASSUME NEW tables, NEW w
  PROVE  /\ Walked(None, tables, w) = None
         /\ \A e : e.kind = "block" => Walked(e, tables, w) = Page(e.base + L3Idx(w), BootAttr)
         /\ \A k : Walked(Table(k), tables, w) = tables[k][L3Idx(w)]
<1>1. Walked(None, tables, w) = None
  BY DEF Walked, None
<1>2. ASSUME NEW e, e.kind = "block"
      PROVE  Walked(e, tables, w) = Page(e.base + L3Idx(w), BootAttr)
  BY <1>2 DEF Walked
<1>3. ASSUME NEW k PROVE Walked(Table(k), tables, w) = tables[k][L3Idx(w)]
  BY DEF Walked, Table
<1> QED
  BY <1>1, <1>2, <1>3

\* A translated page has a static L2 table, whose number is its L1 index.
LEMMA StaticTable ==
  ASSUME NEW w \in VirtualPages
  PROVE  /\ w \in Nat /\ L1Idx(w) \in 0..StaticL1 - 1 /\ L1Idx(w) \in 0..L1Size - 1
         /\ L1Idx(w) \in L2Tables /\ L2Idx(w) \in 0..L2Size - 1 /\ L3Idx(w) \in 0..L3Size - 1
<1>1. w \in Nat
  BY DEF VirtualPages
<1>2. L1Idx(w) \in Nat /\ L1Idx(w) < StaticL1
  BY <1>1, Indices
<1>3. L1Idx(w) \in 0..StaticL1 - 1 /\ L1Idx(w) \in 0..L1Size - 1 /\ L1Idx(w) \in L2Tables
  BY <1>2, TableSets
<1> QED
  BY <1>1, <1>3, Indices

\* The static part of L1 leads to its own L2 tables, so a translation is
\* decided by the entry of the L2 table.
LEMMA TranslateWalks ==
  ASSUME L1OK, NEW w \in VirtualPages
  PROVE  Translate(w) = Walked(l2[L1Idx(w)][L2Idx(w)], l3, w)
<1>1. l1[L1Idx(w)].at = L1Idx(w)
  BY StaticTable, EntriesDiffer DEF L1OK
<1> QED
  BY <1>1 DEF Translate, Walked

\* The same after a step.
LEMMA NextTranslateWalks ==
  ASSUME L1OK', NEW w \in VirtualPages
  PROVE  Translate(w)' = Walked(l2'[L1Idx(w)][L2Idx(w)], l3', w)
<1>1. l1'[L1Idx(w)].at = L1Idx(w)
  BY StaticTable, EntriesDiffer DEF L1OK
<1> QED
  BY <1>1 DEF Translate, Walked

\* What a step does to the translated space: nothing, or the next page of the
\* range in hand.
MapsNone == \A w \in VirtualPages : Translate(w)' = Translate(w)
MapsOne  == \A w \in VirtualPages :
              Translate(w)' = IF w = job.v THEN Page(job.p, job.perm) ELSE Translate(w)

\* Steps that leave the L2 and L3 tables alone change no translation, even if
\* they hand out an L2 table.
LEMMA NoWriteNoChange ==
  ASSUME L1OK, L1OK', l2' = l2, l3' = l3
  PROVE  MapsNone
<1>1. ASSUME NEW w \in VirtualPages PROVE Translate(w)' = Translate(w)
  BY TranslateWalks, NextTranslateWalks
<1> QED
  BY <1>1 DEF MapsNone

\* After the step, L3 table k is what entry j of L2 table t points to, and
\* nothing else is or was.
PointsHere(t, j, k) ==
  /\ l2'[t][j] = Table(k)
  /\ \A u \in L2Tables, i \in 0..L2Size - 1 :
       (u # t \/ i # j) => l2'[u][i] = l2[u][i] /\ l2[u][i] # Table(k)

\* The pages old are those the walk finds through entry j of L2 table t.
HoldsPages(old, t, j) ==
  /\ DOMAIN old = 0..L3Size - 1
  /\ \A w \in VirtualPages :
       L1Idx(w) = t /\ L2Idx(w) = j => old[L3Idx(w)] = Walked(l2[t][j], l3, w)

\* Entry j of L2 table t, the one of the page in hand, points to L3 table k,
\* which no other entry has; k holds what the walk gave the pages of the entry
\* before, but for the page in hand.  Then this page alone has changed.
LEMMA WriteMapsOne ==
  ASSUME L1OK, L1OK', L2OK, L3OK, job.v \in Nat, L1Idx(job.v) \in 0..L1Size - 1,
         NEW t \in L2Tables, l1'[L1Idx(job.v)] = Table(t),
         NEW j, j = L2Idx(job.v), NEW k \in L3Tables, PointsHere(t, j, k),
         NEW old, HoldsPages(old, t, j), WritePage(k, old)
  PROVE  MapsOne /\ L3OK'
<1> DEFINE new == [old EXCEPT ![L3Idx(job.v)] = Page(job.p, job.perm)]
<1>1. l3' = [l3 EXCEPT ![k] = new]
  BY DEF WritePage
<1>2. /\ DOMAIN new = 0..L3Size - 1 /\ new[L3Idx(job.v)] = Page(job.p, job.perm)
      /\ \A i \in 0..L3Size - 1 : i # L3Idx(job.v) => new[i] = old[i]
  BY Indices DEF HoldsPages
<1> HIDE DEF new
<1>3. /\ DOMAIN l3' = L3Tables /\ l3'[k] = new
      /\ \A m \in L3Tables : m # k => l3'[m] = l3[m]
  BY <1>1 DEF L3OK
<1>4. L3OK'
  BY <1>2, <1>3 DEF L3OK
<1>5. ASSUME NEW w \in VirtualPages, L1Idx(w) = L1Idx(job.v) PROVE t = L1Idx(w)
  <2>1. l1'[L1Idx(w)] = Table(L1Idx(w))
    BY StaticTable DEF L1OK
  <2> QED
    BY <1>5, <2>1, EntriesDiffer
<1>6. ASSUME NEW w \in VirtualPages, L1Idx(w) = t PROVE L1Idx(w) = L1Idx(job.v)
  <2>1. l1'[L1Idx(w)] = Table(t)
    BY <1>6, StaticTable DEF L1OK
  <2>2. l1'[L1Idx(w)] # None
    BY <2>1, EntriesDiffer
  <2> QED
    BY <2>1, <2>2, StaticTable DEF L1OK
<1>7. ASSUME NEW w \in VirtualPages
      PROVE  Translate(w)' = IF w = job.v THEN Page(job.p, job.perm) ELSE Translate(w)
  <2>1. /\ Translate(w) = Walked(l2[L1Idx(w)][L2Idx(w)], l3, w)
        /\ Translate(w)' = Walked(l2'[L1Idx(w)][L2Idx(w)], l3', w)
    BY TranslateWalks, NextTranslateWalks
  <2>2. CASE L1Idx(w) = t /\ L2Idx(w) = j
    <3>1. Translate(w)' = new[L3Idx(w)]
      <4>1. Walked(Table(k), l3', w) = l3'[k][L3Idx(w)]
        BY DEF Walked, Table
      <4>2. l2'[L1Idx(w)][L2Idx(w)] = Table(k)
        BY <2>2 DEF PointsHere
      <4> QED
        BY <1>3, <2>1, <4>1, <4>2
    <3>2. CASE L3Idx(w) = L3Idx(job.v)
      <4>1. w = job.v
        BY <1>6, <2>2, <3>2, IndicesNamePage, StaticTable
      <4> QED
        BY <1>2, <3>1, <3>2, <4>1
    <3>3. CASE L3Idx(w) # L3Idx(job.v)
      <4>1. w # job.v /\ new[L3Idx(w)] = old[L3Idx(w)]
        BY <1>2, <3>3, StaticTable
      <4> QED
        BY <2>1, <2>2, <3>1, <4>1 DEF HoldsPages
    <3> QED
      BY <3>2, <3>3
  <2>3. CASE ~(L1Idx(w) = t /\ L2Idx(w) = j)
    <3> DEFINE e == l2[L1Idx(w)][L2Idx(w)]
    <3>1. w # job.v
      BY <1>5, <2>3
    <3>2. l2'[L1Idx(w)][L2Idx(w)] = e /\ e # Table(k)
      BY <2>3, StaticTable DEF PointsHere
    <3>3. e = None \/ e.kind = "block" \/ \E m \in L3Tables : e = Table(m) /\ m < l3Next
      BY StaticTable DEF L2OK, L2Kinds
    <3> HIDE DEF e
    <3>4. Walked(e, l3', w) = Walked(e, l3, w)
      <4>1. CASE e = None
        <5>1. Walked(None, l3', w) = None /\ Walked(None, l3, w) = None
          BY WalkedCases
        <5> QED
          BY <4>1, <5>1
      <4>2. CASE e.kind = "block"
        <5>1. /\ Walked(e, l3', w) = Page(e.base + L3Idx(w), BootAttr)
              /\ Walked(e, l3, w) = Page(e.base + L3Idx(w), BootAttr)
          BY <4>2 DEF Walked
        <5> QED
          BY <5>1
      <4>3. CASE \E m \in L3Tables : e = Table(m) /\ m < l3Next
        <5>1. PICK m \in L3Tables : e = Table(m)
          BY <4>3
        <5>2. m # k
          BY <3>2, <5>1
        <5>3. l3'[m] = l3[m]
          BY <1>3, <5>2
        <5>4. Walked(Table(m), l3', w) = l3'[m][L3Idx(w)] /\ Walked(Table(m), l3, w) = l3[m][L3Idx(w)]
          BY DEF Walked, Table
        <5> QED
          BY <5>1, <5>3, <5>4
      <4> QED
        BY <3>3, <4>1, <4>2, <4>3
    <3> QED
      BY <2>1, <3>1, <3>2, <3>4 DEF e
  <2> QED
    BY <2>2, <2>3
<1> QED
  BY <1>4, <1>7 DEF MapsOne

-----------------------------------------------------------------------------
(* The turns of the loop.                                                  *)

\* A turn maps the page in hand, or stops the kernel and changes no translation.
TurnDone == \/ Advance /\ panic' = panic /\ MapsOne
            \/ job' = Idle /\ panic' # "none" /\ MapsNone

\* The page a turn of the loop is about has indices inside its tables.
LEMMA PageInHand ==
  ASSUME JobOK, InRange
  PROVE  /\ job.v \in Nat /\ L1Idx(job.v) \in 0..L1Size - 1 /\ L2Idx(job.v) \in 0..L2Size - 1
         /\ panic = "none"
<1>1. job.v \in Nat /\ job.left \in Nat
  BY DEF JobOK, Jobs
<1>2. L1Idx(job.v) \in Nat /\ L1Idx(job.v) < L1Size
  BY <1>1, Indices DEF InRange
<1>3. panic = "none"
  BY <1>1 DEF JobOK, InRange
<1>4. L1Idx(job.v) \in 0..L1Size - 1
  BY <1>2, TableSets
<1> QED
  BY <1>1, <1>3, <1>4, Indices

\* Outside the static tables an L2 table just taken translates nothing.
LEMMA FreshL2NotStatic ==
  ASSUME L1OK, NeedsL2(job.v), NEW w \in VirtualPages
  PROVE  L1Idx(w) # L2Of(job.v)
<1>1. L2Of(job.v) = StaticL1 + l2Next /\ l2Next \in 0..L2Pool
  BY DEF L2Of, L1OK
<1> QED
  BY <1>1, StaticTable, TableSets

\* A turn that writes into an L3 table that is there.
LEMMA MapInTableTurn ==
  ASSUME Structure, JobOK, MapInTable
  PROVE  Structure' /\ TurnDone
<1> DEFINE t == L2Of(job.v)
           j == L2Idx(job.v)
<1>1. HasL2 /\ InRange /\ L1OK /\ L2OK /\ L3OK
  BY DEF MapInTable, HasL2, Structure
<1>2. ~NeedsL2(job.v) /\ L2Entry(job.v) = l2[t][j]
  BY EntriesDiffer DEF MapInTable, L2Entry
<1>3. /\ L1OK' /\ t \in L2Tables /\ l1'[L1Idx(job.v)] = Table(t)
      /\ job.v \in Nat /\ L1Idx(job.v) \in 0..L1Size - 1 /\ j \in 0..L2Size - 1
  <2>1. EnsureL2(job.v)
    BY <1>2 DEF MapInTable, EnsureL2
  <2> QED
    BY <1>1, <2>1, EnsureL2Keeps, PageInHand
<1>4. PICK k \in L3Tables : l2[t][j] = Table(k)
  <2>1. l2[t][j].kind = "table"
    BY <1>2 DEF MapInTable
  <2> HIDE DEF t, j
  <2> QED
    BY <1>1, <1>3, <2>1, EntriesDiffer DEF L2OK, L2Kinds
<1>5. L2Entry(job.v).at = k /\ L2Entry(job.v).kind = "table"
  BY <1>2, <1>4, EntriesDiffer
<1>6. WritePage(k, l3[k]) /\ l2' = l2 /\ l3Next' = l3Next /\ panic' = panic /\ Advance
  BY <1>5 DEF MapInTable
<1>7. L2OK'
  BY <1>1, <1>6 DEF L2OK, L2Shape, L3Count, L2Kinds, L2Apart
<1>8. PointsHere(t, j, k)
  <2>1. \A u \in L2Tables, i \in 0..L2Size - 1 :
          (u # t \/ i # j) => l2'[u][i] = l2[u][i] /\ l2[u][i] # Table(k)
    BY <1>1, <1>3, <1>4, <1>5, <1>2, <1>6 DEF L2OK, L2Apart
  <2> QED
    BY <1>4, <1>6, <2>1 DEF PointsHere
<1>9. ASSUME NEW w \in VirtualPages, L1Idx(w) = t, L2Idx(w) = j
      PROVE  l3[k][L3Idx(w)] = Walked(l2[t][j], l3, w)
  <2>1. Walked(Table(k), l3, w) = l3[k][L3Idx(w)]
    BY DEF Walked, Table
  <2> QED
    BY <1>4, <2>1
<1>10. HoldsPages(l3[k], t, j)
  BY <1>1, <1>9 DEF L3OK, HoldsPages
<1> HIDE DEF t
<1>11. MapsOne /\ L3OK'
  BY <1>1, <1>3, <1>6, <1>8, <1>10, WriteMapsOne
<1> QED
  BY <1>3, <1>6, <1>7, <1>11 DEF Structure, TurnDone

\* Stopping: nothing that translates is touched.
LEMMA PanicTurn ==
  ASSUME Structure, JobOK, HasL2, EnsureL2(job.v), NEW message, message # "none", Panic(message),
         l2' = l2, l3Next' \in {l3Next, l3Next + 1}
  PROVE  Structure' /\ TurnDone
<1>1. /\ L1OK /\ L2OK /\ L3OK /\ InRange /\ l3' = l3 /\ job' = Idle /\ panic' # "none"
  BY DEF Structure, HasL2, Panic
<1>2. L1OK'
  BY <1>1, EnsureL2Keeps
<1>3. l3Next \in 0..L3Pool
  BY <1>1, PageInHand DEF L2OK, L3Count
<1>4. L3Count'
  BY <1>1, <1>3, TableSets DEF L3Count
<1>5. L2Kinds'
  <2>1. ASSUME NEW t \in L2Tables, NEW j \in 0..L2Size - 1, NEW k \in L3Tables, k < l3Next
        PROVE  k < l3Next'
    BY <1>3, <2>1, TableSets
  <2> QED
    BY <1>1, <2>1 DEF L2OK, L2Kinds
<1>6. L2OK' /\ L3OK'
  BY <1>1, <1>4, <1>5 DEF L2OK, L2Shape, L2Apart, L3OK
<1> QED
  BY <1>1, <1>2, <1>6, NoWriteNoChange DEF Structure, TurnDone

\* An L3 table is taken for the entry, with the pages the walk gave before.
LEMMA TakeTurn ==
  ASSUME Structure, JobOK, HasL2, EnsureL2(job.v), l3Next < L3Pool,
         NEW old, HoldsPages(old, L2Of(job.v), L2Idx(job.v)),
         TakeL3(old), Advance, panic' = panic
  PROVE  Structure' /\ TurnDone
<1> DEFINE t == L2Of(job.v)
           j == L2Idx(job.v)
<1>1. L1OK /\ L2OK /\ L3OK /\ InRange
  BY DEF Structure, HasL2
<1>2. /\ L1OK' /\ t \in L2Tables /\ l1'[L1Idx(job.v)] = Table(t)
      /\ job.v \in Nat /\ L1Idx(job.v) \in 0..L1Size - 1 /\ j \in 0..L2Size - 1
  BY <1>1, EnsureL2Keeps, PageInHand
<1>3. /\ l2' = [l2 EXCEPT ![t][j] = Table(l3Next)] /\ l3Next' = l3Next + 1
      /\ WritePage(l3Next, old)
  BY DEF TakeL3, Taken
<1>4. HoldsPages(old, t, j) /\ j = L2Idx(job.v)
  OBVIOUS
<1> HIDE DEF t, j
<1>5. /\ L2OK' /\ l3Next \in L3Tables /\ l2'[t][j] = Table(l3Next)
      /\ \A u \in L2Tables, k \in 0..L2Size - 1 :
           (u # t \/ k # j) => l2'[u][k] = l2[u][k] /\ l2[u][k] # Table(l3Next)
  BY <1>1, <1>2, <1>3, TakeL3Keeps
<1>6. PointsHere(t, j, l3Next)
  BY <1>5 DEF PointsHere
<1>7. MapsOne /\ L3OK'
  BY <1>1, <1>2, <1>3, <1>4, <1>5, <1>6, WriteMapsOne
<1> QED
  BY <1>2, <1>5, <1>7 DEF Structure, TurnDone

\* A turn that takes an L3 table from the pool, or panics for want of one.
LEMMA MapInNewTableTurn ==
  ASSUME Structure, JobOK, MapInNewTable
  PROVE  Structure' /\ TurnDone
<1>1. HasL2 /\ EnsureL2(job.v) /\ L2Entry(job.v) = None
  BY DEF MapInNewTable
<1>2. CASE l3Next >= L3Pool
  BY <1>1, <1>2, PanicTurn DEF MapInNewTable
<1>3. CASE ~(l3Next >= L3Pool)
  <2>1. TakeL3(FreshTable) /\ Advance /\ panic' = panic
    BY <1>3 DEF MapInNewTable
  <2>2. l3Next < L3Pool
    BY <1>3, TableSets DEF Structure, L2OK, L3Count
  <2>3. DOMAIN FreshTable = 0..L3Size - 1 /\ \A i \in 0..L3Size - 1 : FreshTable[i] = None
    BY DEF FreshTable
  <2>4. ASSUME NEW w \in VirtualPages, L1Idx(w) = L2Of(job.v)
        PROVE  FreshTable[L3Idx(w)] = Walked(l2[L2Of(job.v)][L2Idx(job.v)], l3, w)
    <3>1. ~NeedsL2(job.v)
      BY <2>4, FreshL2NotStatic DEF Structure
    <3>2. l2[L2Of(job.v)][L2Idx(job.v)] = None
      BY <1>1, <3>1 DEF L2Entry
    <3>3. Walked(None, l3, w) = None
      BY DEF Walked, None
    <3> QED
      BY <2>3, <3>2, <3>3, StaticTable
  <2>5. HoldsPages(FreshTable, L2Of(job.v), L2Idx(job.v))
    BY <2>3, <2>4 DEF HoldsPages
  <2> QED
    BY <1>1, <2>1, <2>2, <2>5, TakeTurn
<1> QED
  BY <1>2, <1>3

\* A turn that splits a block into an L3 table, or panics for want of one.
LEMMA MapInSplitBlockTurn ==
  ASSUME Structure, JobOK, MapInSplitBlock
  PROVE  Structure' /\ TurnDone
<1> DEFINE e == L2Entry(job.v)
<1>1. HasL2 /\ EnsureL2(job.v) /\ e.kind = "block"
  BY DEF MapInSplitBlock
<1>2. e = l2[L2Of(job.v)][L2Idx(job.v)]
  BY <1>1, EntriesDiffer DEF L2Entry
<1>3. CASE l3Next + 1 >= L3Pool
  BY <1>1, <1>3, PanicTurn DEF MapInSplitBlock
<1>4. CASE ~(l3Next + 1 >= L3Pool)
  <2>1. TakeL3(SplitBlock(e.base)) /\ Advance /\ panic' = panic
    BY <1>4 DEF MapInSplitBlock
  <2>2. l3Next < L3Pool
    BY <1>4, TableSets DEF Structure, L2OK, L3Count
  <2> DEFINE old == SplitBlock(e.base)
  <2>3. DOMAIN old = 0..L3Size - 1 /\ \A i \in 0..L3Size - 1 : old[i] = Page(e.base + i, BootAttr)
    BY DEF SplitBlock
  <2>4. ASSUME NEW w \in VirtualPages
        PROVE  old[L3Idx(w)] = Walked(e, l3, w)
    <3>1. Walked(e, l3, w) = Page(e.base + L3Idx(w), BootAttr)
      BY <1>1 DEF Walked
    <3> HIDE DEF old, e
    <3> QED
      BY <2>3, <3>1, StaticTable
  <2>5. HoldsPages(old, L2Of(job.v), L2Idx(job.v))
    BY <1>2, <2>3, <2>4 DEF HoldsPages
  <2> HIDE DEF old
  <2> QED
    BY <1>1, <2>1, <2>2, <2>5, TakeTurn DEF old
<1> QED
  BY <1>3, <1>4

-----------------------------------------------------------------------------
(* The range in hand.                                                      *)

\* The pages of a range: none is before the first, there are none if the range
\* is empty, and the page of each byte asked for is one of them.
LEMMA RangeBounds ==
  ASSUME NEW vaddr \in Nat, NEW size \in Nat
  PROVE  /\ FirstOfRange(vaddr) \in Nat /\ EndOfRange(vaddr, size) \in Nat
         /\ FirstOfRange(vaddr) <= EndOfRange(vaddr, size)
         /\ \A b \in 0..size - 1 : LET v == (vaddr + b) \div PageSize
                                   IN  /\ v \in Nat /\ FirstOfRange(vaddr) <= v
                                       /\ v < EndOfRange(vaddr, size)
<1> DEFINE end == vaddr + size + PageSize - 1
<1>1. PageSize \in Nat \ {0}
  BY PageTablesAssumption
<1>2. end \in Nat /\ vaddr <= end
  BY <1>1
<1>3. /\ FirstOfRange(vaddr) \in Nat /\ EndOfRange(vaddr, size) \in Nat
      /\ FirstOfRange(vaddr) <= EndOfRange(vaddr, size)
  <2> HIDE DEF end
  <2>1. vaddr \div PageSize \in Nat /\ end \div PageSize \in Nat
        /\ vaddr \div PageSize <= end \div PageSize
    BY <1>1, <1>2, DivMod, DivMonotone
  <2> QED
    BY <2>1 DEF FirstOfRange, EndOfRange, end
<1>4. ASSUME NEW b \in 0..size - 1
      PROVE  LET v == (vaddr + b) \div PageSize
             IN  v \in Nat /\ FirstOfRange(vaddr) <= v /\ v < EndOfRange(vaddr, size)
  <2> DEFINE x == vaddr + b
             v == x \div PageSize
  <2>1. x \in Nat /\ vaddr <= x /\ x + PageSize \in Nat /\ x + PageSize <= end
    BY <1>1
  <2> HIDE DEF x, end
  <2>2. v \in Nat /\ FirstOfRange(vaddr) <= v
    BY <1>1, <2>1, DivMod, DivMonotone DEF FirstOfRange
  <2>3. (x + PageSize) \div PageSize = v + 1
    BY <1>1, <2>1, DivPlus
  <2>4. (x + PageSize) \div PageSize <= end \div PageSize
    BY <1>1, <1>2, <2>1, DivMonotone
  <2>5. end \div PageSize = EndOfRange(vaddr, size)
    BY DEF end, EndOfRange
  <2> QED
    BY <1>3, <2>2, <2>3, <2>4, <2>5 DEF x
<1> QED
  BY <1>3, <1>4

\* Between calls there is nothing left to map.
LEMMA IdleIsJob == Idle \in Jobs /\ Idle.left = 0
BY DEF Idle, Jobs

\* A call that ends leaves no range in hand.
LEMMA IdleKeeps ==
  ASSUME job' = Idle
  PROVE  JobOK' /\ RangeInHand'
<1>1. job' \in Jobs /\ job'.left = 0
  BY IdleIsJob
<1> QED
  BY <1>1 DEF JobOK, RangeInHand

\* A call takes a range in hand, unless it is empty.
LEMMA MapRangeKeeps ==
  ASSUME JobOK, NEW vaddr \in Nat, NEW p \in PhysPages, NEW size \in 0..MaxSize,
         NEW perm \in Perms, MapRange(vaddr, p, size, perm)
  PROVE  JobOK' /\ RangeInHand'
<1> DEFINE first == FirstOfRange(vaddr)
           end   == EndOfRange(vaddr, size)
<1>1. size \in Nat /\ p \in Nat
  BY PageTablesAssumption
<1>2. first \in Nat /\ end \in Nat /\ first <= end
  BY <1>1, RangeBounds
<1>3. CASE job' = Idle
  BY <1>3, IdleKeeps
<1>4. CASE /\ end - first # 0
           /\ job' = [left |-> end - first, v |-> first, p |-> p, perm |-> perm,
                      vaddr |-> vaddr, paddr |-> p, size |-> size]
  <2>1. /\ job'.left = end - first /\ job'.v = first /\ job'.p = p /\ job'.paddr = p
        /\ job'.vaddr = vaddr /\ job'.size = size
    BY <1>4
  <2>2. job' \in Jobs
    <3>1. end - first \in Nat
      BY <1>2
    <3> HIDE DEF first, end
    <3> QED
      BY <1>1, <1>2, <1>4, <3>1 DEF Jobs
  <2>3. panic' = "none"
    BY DEF MapRange
  <2>4. \A w \in VirtualPages : ~(first <= w /\ w < first)
    BY <1>2 DEF VirtualPages
  <2>5. first + (end - first) = end /\ p = p + first - first
    BY <1>1, <1>2
  <2> HIDE DEF first, end
  <2>6. RangeInHand'
    BY <1>2, <2>1, <2>4, <2>5 DEF RangeInHand, first, end
  <2> QED
    BY <2>2, <2>3, <2>6 DEF JobOK
<1> QED
  BY <1>3, <1>4 DEF MapRange

\* The page in hand done, the next one is in hand and what is done stays done.
LEMMA AdvanceKeeps ==
  ASSUME JobOK, RangeInHand, InRange, Advance, panic' = panic, MapsOne
  PROVE  JobOK' /\ RangeInHand'
<1> DEFINE first == FirstOfRange(job.vaddr)
<1>1. /\ job \in Jobs /\ job.left \in Nat /\ job.left > 0 /\ job.v \in Nat /\ job.p \in Nat
      /\ job.vaddr \in Nat /\ job.paddr \in Nat /\ job.size \in Nat /\ panic = "none"
  BY PageInHand DEF JobOK, Jobs, InRange
<1>2. CASE job.left = 1
  BY <1>2, IdleKeeps DEF Advance
<1>3. CASE job.left # 1
  <2>1. job' = [job EXCEPT !.left = @ - 1, !.v = @ + 1, !.p = @ + 1]
    BY <1>3 DEF Advance
  <2>2. /\ job'.left = job.left - 1 /\ job'.v = job.v + 1 /\ job'.p = job.p + 1
        /\ job'.perm = job.perm /\ job'.vaddr = job.vaddr /\ job'.paddr = job.paddr
        /\ job'.size = job.size
    BY <1>1, <2>1 DEF Jobs
  <2>3. job' \in Jobs
    <3>1. job.left - 1 \in Nat /\ job.v + 1 \in Nat /\ job.p + 1 \in Nat
      BY <1>1
    <3> QED
      BY <1>1, <2>1, <3>1 DEF Jobs
  <2>4. JobOK'
    BY <1>1, <2>3 DEF JobOK
  <2>5. /\ first <= job.v /\ job.v + job.left = EndOfRange(job.vaddr, job.size)
        /\ job.p = job.paddr + job.v - first /\ first \in Nat
    BY <1>1, RangeBounds DEF RangeInHand, InRange
  <2> HIDE DEF first
  <2>6. ASSUME NEW w \in VirtualPages, first <= w, w < job.v + 1
        PROVE  Translate(w)' = Page(job.paddr + w - first, job.perm)
    <3>1. w \in Nat
      BY StaticTable
    <3>2. CASE w = job.v
      BY <2>5, <3>2 DEF MapsOne
    <3>3. CASE w # job.v
      <4>1. w < job.v
        BY <1>1, <2>6, <3>1, <3>3
      <4>2. Translate(w)' = Translate(w)
        BY <3>3 DEF MapsOne
      <4> QED
        BY <1>1, <2>6, <4>1, <4>2 DEF RangeInHand, first
    <3> QED
      BY <3>2, <3>3
  <2>7. /\ first <= job.v + 1
        /\ job.v + 1 + (job.left - 1) = EndOfRange(job.vaddr, job.size)
        /\ job.p + 1 = job.paddr + (job.v + 1) - first
    BY <1>1, <2>5
  <2>8. RangeInHand'
    BY <2>2, <2>6, <2>7 DEF RangeInHand, first
  <2> QED
    BY <2>4, <2>8
<1> QED
  BY <1>2, <1>3

\* A page beyond the last L1 index is counted and no translated page is one.
LEMMA BeyondKeeps ==
  ASSUME JobOK, RangeInHand, MapBeyondL1
  PROVE  /\ JobOK' /\ RangeInHand' /\ job.v \notin VirtualPages
<1> DEFINE first == FirstOfRange(job.vaddr)
<1>1. /\ job \in Jobs /\ job.left \in Nat /\ job.left > 0 /\ job.v \in Nat /\ job.p \in Nat
      /\ job.vaddr \in Nat /\ job.paddr \in Nat /\ job.size \in Nat
  BY DEF JobOK, Jobs, MapBeyondL1
<1>2. L1Idx(job.v) >= L1Size /\ L1Idx(job.v) \in Nat /\ L1Idx(job.v + 1) \in Nat
  BY <1>1, Indices DEF MapBeyondL1
<1>3. ~(L1Idx(job.v + 1) < L1Size)
  <2>1. L1Pages \in Nat \ {0}
    BY PageTablesAssumption DEF L1Pages
  <2>2. L1Idx(job.v) <= L1Idx(job.v + 1)
    BY <1>1, <2>1, DivMonotone DEF L1Idx
  <2> QED
    BY <1>2, <2>2, TableSets
<1>4. job.v \notin VirtualPages
  <2>1. L1Size \in Nat /\ StaticL1 \in Nat /\ StaticL1 <= L1Size
    BY TableSets
  <2>2. ~(L1Idx(job.v) < StaticL1)
    BY <1>2, <2>1
  <2> QED
    BY <1>1, <2>2, Indices
<1>5. CASE job' = Idle
  BY <1>4, <1>5, IdleKeeps
<1>6. CASE job.left # 1 /\ job' = [job EXCEPT !.left = @ - 1, !.v = @ + 1]
  <2>1. /\ job'.left = job.left - 1 /\ job'.v = job.v + 1 /\ job'.perm = job.perm
        /\ job'.vaddr = job.vaddr /\ job'.paddr = job.paddr /\ job'.size = job.size
    BY <1>1, <1>6 DEF Jobs
  <2>2. job' \in Jobs
    <3>1. job.left - 1 \in Nat /\ job.v + 1 \in Nat
      BY <1>1
    <3> QED
      BY <1>1, <1>6, <3>1 DEF Jobs
  <2>3. JobOK'
    BY <1>1, <2>2 DEF JobOK, MapBeyondL1
  <2>4. first <= job.v /\ job.v + job.left = EndOfRange(job.vaddr, job.size) /\ first \in Nat
    BY <1>1, RangeBounds DEF RangeInHand
  <2> HIDE DEF first
  <2>5. ASSUME NEW w \in VirtualPages, first <= w, w < job.v + 1
        PROVE  Translate(w)' = Page(job.paddr + w - first, job.perm)
    <3>1. w \in Nat /\ w # job.v
      BY <1>4, StaticTable
    <3>2. w < job.v
      BY <1>1, <2>5, <3>1
    <3>3. Translate(w)' = Translate(w)
      BY DEF MapBeyondL1, Translate
    <3> QED
      BY <1>1, <2>5, <3>2, <3>3 DEF RangeInHand, first
  <2>6. /\ first <= job.v + 1
        /\ job.v + 1 + (job.left - 1) = EndOfRange(job.vaddr, job.size)
    BY <1>1, <2>4
  <2>7. RangeInHand'
    BY <1>3, <2>1, <2>5, <2>6 DEF RangeInHand, first
  <2> QED
    BY <1>4, <2>3, <2>7
<1> QED
  BY <1>5, <1>6 DEF MapBeyondL1

-----------------------------------------------------------------------------
(* The invariant.                                                          *)

\* The invariant holds for the tables mmu::init has built.
LEMMA InitIInv == Init => IInv
<1> SUFFICES ASSUME Init PROVE IInv
  OBVIOUS
<1>1. L1OK
  <2>1. /\ DOMAIN l1 = 0..L1Size - 1 /\ l2Next = 0
        /\ \A i \in 0..L1Size - 1 : l1[i] = IF i < StaticL1 THEN Table(i) ELSE None
    BY DEF Init
  <2>2. \A i \in 0..L1Size - 1 : i < StaticL1 => i \in L2Tables
    BY TableSets
  <2>3. \A i \in 0..L1Size - 1 : l1[i] = None \/ \E t \in L2Tables : l1[i] = Table(t)
    BY <2>1, <2>2
  <2>4. \A i \in 0..StaticL1 - 1 : i \in 0..L1Size - 1 /\ l1[i] = Table(i)
    BY <2>1, TableSets
  <2>5. \A i \in StaticL1..L1Size - 1 : i \in 0..L1Size - 1 /\ l1[i] = None
    BY <2>1, TableSets
  <2>6. ASSUME NEW i \in 0..L1Size - 1, NEW k \in 0..L1Size - 1, i # k, l1[i] # None
        PROVE  l1[i] # l1[k]
    BY <2>1, <2>6, EntriesDiffer
  <2>7. l2Next \in 0..L2Pool
    BY <2>1, TableSets
  <2> QED
    BY <2>1, <2>3, <2>4, <2>5, <2>6, <2>7 DEF L1OK
<1>2. L2OK
  <2>1. /\ DOMAIN l2 = L2Tables /\ \A t \in L2Tables : DOMAIN l2[t] = 0..L2Size - 1
        /\ l3Next = 0
    BY DEF Init
  <2>2. \A t \in L2Tables, j \in 0..L2Size - 1 :
          l2[t][j] = None \/ \E p : l2[t][j] = Block(p)
    BY DEF Init
  <2>3. \A t \in L2Tables, j \in 0..L2Size - 1 :
          l2[t][j] = None \/ l2[t][j].kind = "block"
    BY <2>2, EntriesDiffer
  <2>4. \A t \in L2Tables, j \in 0..L2Size - 1 : l2[t][j].kind # "table"
    BY <2>3, EntriesDiffer
  <2>5. L3Count
    BY <2>1, TableSets DEF L3Count
  <2> QED
    BY <2>1, <2>3, <2>4, <2>5 DEF L2OK, L2Shape, L2Kinds, L2Apart
<1>3. L3OK
  BY DEF Init, L3OK
<1>4. JobOK /\ RangeInHand
  BY IdleIsJob DEF Init, JobOK, RangeInHand
<1> QED
  BY <1>1, <1>2, <1>3, <1>4 DEF IInv, Structure

\* One turn of the loop, whichever it is.
LEMMA Turns ==
  ASSUME IInv, MapInNewTable \/ MapInSplitBlock \/ MapInTable
  PROVE  InRange /\ Structure' /\ TurnDone
BY MapInNewTableTurn, MapInSplitBlockTurn, MapInTableTurn
   DEF IInv, MapInNewTable, MapInSplitBlock, MapInTable, HasL2

\* Out of L2 tables: the kernel stops.
LEMMA OutOfL2Stops ==
  ASSUME IInv, OutOfL2
  PROVE  Structure' /\ job' = Idle /\ panic' # "none" /\ MapsNone /\ job.left > 0
<1>1. /\ l1' = l1 /\ l2' = l2 /\ l3' = l3 /\ l2Next' = l2Next /\ l3Next' = l3Next
      /\ job' = Idle /\ panic' # "none" /\ job.left > 0
  BY DEF OutOfL2, Panic, InRange
<1>2. L1OK /\ L2OK /\ L3OK
  BY DEF IInv, Structure
<1>3. L1OK'
  BY <1>1, <1>2 DEF L1OK
<1>4. L2OK'
  BY <1>1, <1>2 DEF L2OK, L2Shape, L3Count, L2Kinds, L2Apart
<1>5. L3OK'
  BY <1>1, <1>2 DEF L3OK
<1> QED
  BY <1>1, <1>2, <1>3, <1>4, <1>5, NoWriteNoChange DEF Structure

\* Steps that change no table change nothing the structure is about.
LEMMA TablesUnchanged ==
  ASSUME Structure, UNCHANGED <<l1, l2, l3, l2Next, l3Next, panic>>
  PROVE  Structure' /\ MapsNone
<1>1. L1OK /\ L2OK /\ L3OK
  BY DEF Structure
<1>2. L1OK'
  BY <1>1 DEF L1OK
<1>3. L2OK'
  BY <1>1 DEF L2OK, L2Shape, L3Count, L2Kinds, L2Apart
<1>4. L3OK'
  BY <1>1 DEF L3OK
<1> QED
  BY <1>1, <1>2, <1>3, <1>4, NoWriteNoChange DEF Structure

\* The first addresses of ranges are numbers.
LEMMA Addresses ==
  ASSUME NEW vaddr \in 0..L1Size * L1Pages * PageSize - 1
  PROVE  vaddr \in Nat
OBVIOUS

\* Every step of map_range preserves the invariant.
LEMMA NextIInv == IInv /\ [Next]_vars => IInv'
<1> SUFFICES ASSUME IInv, [Next]_vars PROVE IInv'
  OBVIOUS
<1>1. Structure /\ JobOK /\ RangeInHand
  BY DEF IInv
<1>2. CASE \E vaddr \in 0..L1Size * L1Pages * PageSize - 1, p \in PhysPages,
              size \in 0..MaxSize, perm \in Perms : MapRange(vaddr, p, size, perm)
  <2>1. PICK vaddr \in 0..L1Size * L1Pages * PageSize - 1, p \in PhysPages,
             size \in 0..MaxSize, perm \in Perms : MapRange(vaddr, p, size, perm)
    BY <1>2
  <2>2. JobOK' /\ RangeInHand'
    BY <1>1, <2>1, Addresses, MapRangeKeeps
  <2>3. UNCHANGED <<l1, l2, l3, l2Next, l3Next, panic>>
    BY <2>1 DEF MapRange
  <2> QED
    BY <1>1, <2>2, <2>3, TablesUnchanged DEF IInv
<1>3. CASE MapBeyondL1
  <2>1. UNCHANGED <<l1, l2, l3, l2Next, l3Next, panic>>
    BY <1>3 DEF MapBeyondL1
  <2> QED
    BY <1>1, <1>3, <2>1, BeyondKeeps, TablesUnchanged DEF IInv
<1>4. CASE OutOfL2
  BY <1>4, OutOfL2Stops, IdleKeeps DEF IInv
<1>5. CASE MapInNewTable \/ MapInSplitBlock \/ MapInTable
  <2>1. InRange /\ Structure' /\ TurnDone
    BY <1>5, Turns
  <2>2. JobOK' /\ RangeInHand'
    BY <1>1, <2>1, AdvanceKeeps, IdleKeeps DEF TurnDone
  <2> QED
    BY <2>1, <2>2 DEF IInv
<1>6. CASE UNCHANGED vars
  <2>1. UNCHANGED <<l1, l2, l3, l2Next, l3Next, panic>> /\ job' = job
    BY <1>6 DEF vars
  <2>2. JobOK' /\ RangeInHand'
    BY <1>1, <2>1 DEF JobOK, RangeInHand, Translate
  <2> QED
    BY <1>1, <2>1, <2>2, TablesUnchanged DEF IInv
<1> QED
  BY <1>2, <1>3, <1>4, <1>5, <1>6 DEF Next, Quiet

\* The invariant holds in every state of every behaviour.
THEOREM Invariance == Spec => []IInv
BY InitIInv, NextIInv, PTL DEF Spec

\* The invariant gives the properties the run checks.
LEMMA IInvImplies == IInv => TypeOK /\ TablesNotShared
<1> SUFFICES ASSUME IInv PROVE TypeOK /\ TablesNotShared
  OBVIOUS
<1>1. L1OK /\ L2OK
  BY DEF IInv, Structure
<1>2. ASSUME NEW s \in Slots
      PROVE  s[1] \in L2Tables /\ s[2] \in 0..L2Size - 1 /\ s = <<s[1], s[2]>>
             /\ EntryAt(s) = l2[s[1]][s[2]]
  BY DEF Slots, EntryAt
<1>3. \A s \in Slots : \/ EntryAt(s) = None
                       \/ EntryAt(s).kind = "block"
                       \/ \E k \in L3Tables : EntryAt(s) = Table(k) /\ k < l3Next
  BY <1>1, <1>2 DEF L2OK, L2Kinds
<1>4. TypeOK
  <2>1. \A i \in 0..L1Size - 1 : l1[i] = None \/ l1[i] \in {Table(t) : t \in L2Tables}
    BY <1>1 DEF L1OK
  <2>2. \A s \in Slots : \/ EntryAt(s) = None
                         \/ EntryAt(s).kind = "block"
                         \/ EntryAt(s) \in {Table(k) : k \in L3Tables}
    BY <1>3
  <2> QED
    BY <1>1, <2>1, <2>2 DEF TypeOK, L1OK, L2OK, L3Count
<1>5. TablesNotShared
  <2>1. ASSUME NEW s \in Slots, NEW t \in Slots, s # t, EntryAt(s).kind = "table"
        PROVE  EntryAt(s) # EntryAt(t)
    <3>1. s[1] # t[1] \/ s[2] # t[2]
      BY <1>2, <2>1
    <3> QED
      BY <1>1, <1>2, <2>1, <3>1 DEF L2OK, L2Apart
  <2>2. ASSUME NEW s \in Slots, EntryAt(s).kind = "table"
        PROVE  EntryAt(s).at < l3Next
    BY <1>3, <2>2, EntriesDiffer
  <2> QED
    BY <1>1, <2>1, <2>2 DEF TablesNotShared, L1OK
<1> QED
  BY <1>4, <1>5

\* Every entry is one of its level's kinds, and the static part of L1 stays.
THEOREM TypeCorrect == Spec => []TypeOK
BY Invariance, IInvImplies, PTL

\* No table is in two entries, and none still to be taken is in any.
THEOREM NoTableShared == Spec => []TablesNotShared
BY Invariance, IInvImplies, PTL

-----------------------------------------------------------------------------
(* What map_range does, seen through the walk.                             *)

\* The steps as the translated space sees them.
LEMMA StepKinds ==
  ASSUME IInv, [Next]_vars
  PROVE  \/ job.left = 0 /\ MapsNone
         \/ job.left > 0 /\ job' = job /\ MapsNone
         \/ job.left > 0 /\ MapBeyondL1 /\ MapsNone
         \/ InRange /\ Advance /\ MapsOne
         \/ job.left > 0 /\ job' = Idle /\ panic' # "none" /\ MapsNone
<1>1. Structure /\ JobOK /\ job.left \in Nat
  BY DEF IInv, JobOK, Jobs
<1>2. CASE \E vaddr \in 0..L1Size * L1Pages * PageSize - 1, p \in PhysPages,
              size \in 0..MaxSize, perm \in Perms : MapRange(vaddr, p, size, perm)
  <2>1. job.left = 0 /\ UNCHANGED <<l1, l2, l3, l2Next, l3Next, panic>>
    BY <1>2 DEF MapRange
  <2> QED
    BY <1>1, <2>1, TablesUnchanged
<1>3. CASE MapBeyondL1
  <2>1. job.left > 0 /\ UNCHANGED <<l1, l2, l3, l2Next, l3Next, panic>>
    BY <1>3 DEF MapBeyondL1
  <2> QED
    BY <1>1, <1>3, <2>1, TablesUnchanged
<1>4. CASE OutOfL2
  BY <1>4, OutOfL2Stops
<1>5. CASE MapInNewTable \/ MapInSplitBlock \/ MapInTable
  <2>1. InRange /\ TurnDone
    BY <1>5, Turns
  <2>2. job.left > 0
    BY <2>1 DEF InRange
  <2> QED
    BY <2>1, <2>2 DEF TurnDone
<1>6. CASE UNCHANGED vars
  <2>1. UNCHANGED <<l1, l2, l3, l2Next, l3Next, panic>> /\ job' = job
    BY <1>6 DEF vars
  <2>2. MapsNone
    BY <1>1, <2>1, TablesUnchanged
  <2> QED
    BY <1>1, <2>1, <2>2
<1> QED
  BY <1>2, <1>3, <1>4, <1>5, <1>6 DEF Next, Quiet

\* The last page done, every byte of the range that can be reached is mapped to
\* what was asked for.
THEOREM RangesMapped == Spec => WholeRangeMapped
<1> DEFINE asked == {(job.vaddr + b) \div PageSize : b \in 0..job.size - 1} \cap VirtualPages
<1>1. ASSUME IInv, [Next]_vars, job.left = 1, job'.left = 0, panic' = "none", NEW v \in asked
      PROVE  Translate(v)' = Page(job.paddr + v - FirstOfRange(job.vaddr), job.perm)
  <2> DEFINE first == FirstOfRange(job.vaddr)
  <2>1. /\ job.v \in Nat /\ job.vaddr \in Nat /\ job.size \in Nat /\ job.paddr \in Nat
    BY <1>1 DEF IInv, JobOK, Jobs
  <2>2. v \in VirtualPages /\ v \in Nat /\ first <= v /\ v < EndOfRange(job.vaddr, job.size)
        /\ first \in Nat
    <3>1. PICK b \in 0..job.size - 1 : v = (job.vaddr + b) \div PageSize
      BY <1>1
    <3> QED
      BY <1>1, <2>1, <3>1, RangeBounds
  <2>3. /\ job.v + 1 = EndOfRange(job.vaddr, job.size)
        /\ L1Idx(job.v) < L1Size => job.p = job.paddr + job.v - first
        /\ v < job.v => Translate(v) = Page(job.paddr + v - first, job.perm)
    BY <1>1, <2>2 DEF IInv, RangeInHand
  <2>4. v < job.v \/ v = job.v
    BY <2>1, <2>2, <2>3
  <2> HIDE DEF first
  <2>5. CASE InRange /\ MapsOne
    <3>1. CASE v = job.v
      BY <2>2, <2>3, <2>5, <3>1 DEF InRange, MapsOne, first
    <3>2. CASE v # job.v
      <4>1. Translate(v)' = Translate(v)
        BY <2>2, <2>5, <3>2 DEF MapsOne
      <4> QED
        BY <2>3, <2>4, <3>2, <4>1 DEF first
    <3> QED
      BY <3>1, <3>2
  <2>6. CASE MapBeyondL1 /\ MapsNone
    <3>1. v # job.v
      BY <1>1, <2>2, <2>6, BeyondKeeps DEF IInv
    <3>2. Translate(v)' = Translate(v)
      BY <2>2, <2>6 DEF MapsNone
    <3> QED
      BY <2>3, <2>4, <3>1, <3>2 DEF first
  <2> QED
    BY <1>1, <2>5, <2>6, StepKinds
<1>2. IInv /\ [Next]_vars =>
        [ job.left = 1 /\ job'.left = 0 /\ panic' = "none" =>
            \A v \in asked :
              Translate(v)' = Page(job.paddr + v - FirstOfRange(job.vaddr), job.perm) ]_vars
  BY <1>1
<1> QED
  BY <1>2, Invariance, PTL DEF Spec, WholeRangeMapped

\* Seen through the walk, every step of map_range is one of the address space:
\* the next page asked for, a page out of reach, the end, or none.
THEOREM ImplementsAddressSpace == Spec => RefinesAddressSpace
<1> DEFINE view == [v \in VirtualPages |-> Translate(v)]
           todo == [left |-> job.left, v |-> job.v, p |-> job.p, perm |-> job.perm]
<1>1. ASSUME IInv, [Next]_vars PROVE [Flat!Next]_<<view, todo>>
  <2>1. /\ todo.left = job.left /\ todo.v = job.v /\ todo.p = job.p /\ todo.perm = job.perm
        /\ todo'.left = job'.left /\ todo'.v = job'.v /\ job.left \in Nat
        /\ todo' = [left |-> job'.left, v |-> job'.v, p |-> job'.p, perm |-> job'.perm]
    BY <1>1 DEF IInv, JobOK, Jobs
  <2>2. ASSUME MapsNone PROVE view' = view
    BY <2>2 DEF MapsNone
  <2>3. CASE job.left = 0 /\ MapsNone
    <3>1. todo.left = 0 /\ view' = view
      BY <2>1, <2>2, <2>3
    <3> QED
      BY <3>1 DEF Flat!Next, Flat!Begin
  <2>4. CASE job' = job /\ MapsNone
    <3>1. view' = view /\ todo' = todo
      BY <2>2, <2>4
    <3> QED
      BY <3>1
  <2>5. CASE job.left > 0 /\ MapBeyondL1 /\ MapsNone
    <3>1. todo.left > 0 /\ todo.v \notin VirtualPages /\ view' = view
      BY <1>1, <2>1, <2>2, <2>5, BeyondKeeps DEF IInv
    <3>2. todo'.left = todo.left - 1 /\ (todo'.left > 0 => todo'.v = todo.v + 1)
      <4>1. CASE job' = Idle /\ job.left = 1
        BY <2>1, <4>1, IdleIsJob
      <4>2. CASE job' = [job EXCEPT !.left = @ - 1, !.v = @ + 1]
        <5>1. job'.left = job.left - 1 /\ job'.v = job.v + 1
          BY <1>1, <4>2 DEF IInv, JobOK, Jobs
        <5> QED
          BY <2>1, <5>1
      <4> QED
        BY <2>5, <4>1, <4>2 DEF MapBeyondL1
    <3> HIDE DEF view, todo
    <3>3. Flat!Skip
      BY <3>1, <3>2 DEF Flat!Skip, view, todo
    <3> QED
      BY <3>3 DEF Flat!Next, view, todo
  <2>6. CASE InRange /\ Advance /\ MapsOne
    <3>1. todo.left > 0
      BY <2>1, <2>6 DEF InRange
    <3>2. view' = [q \in VirtualPages |-> IF q = todo.v THEN Page(todo.p, todo.perm) ELSE view[q]]
      BY <2>1, <2>6 DEF MapsOne
    <3>3. \/ todo.left = 1 /\ todo'.left = 0
          \/ todo' = [left |-> todo.left - 1, v |-> todo.v + 1, p |-> todo.p + 1, perm |-> todo.perm]
      <4>1. CASE job' = Idle /\ job.left = 1
        BY <2>1, <4>1, IdleIsJob
      <4>2. CASE job' = [job EXCEPT !.left = @ - 1, !.v = @ + 1, !.p = @ + 1]
        <5>1. /\ job'.left = job.left - 1 /\ job'.v = job.v + 1 /\ job'.p = job.p + 1
              /\ job'.perm = job.perm
          BY <1>1, <4>2 DEF IInv, JobOK, Jobs
        <5> QED
          BY <2>1, <5>1
      <4> QED
        BY <2>6, <4>1, <4>2 DEF Advance
    <3>4. Flat!MapNext
      BY <3>1, <3>2, <3>3 DEF Flat!MapNext
    <3> QED
      BY <3>4 DEF Flat!Next
  <2>7. CASE job.left > 0 /\ job' = Idle /\ MapsNone
    <3>1. todo.left > 0 /\ todo'.left = 0 /\ view' = view
      BY <2>1, <2>2, <2>7, IdleIsJob
    <3> QED
      BY <3>1 DEF Flat!Next, Flat!GiveUp
  <2> QED
    BY <1>1, <2>3, <2>4, <2>5, <2>6, <2>7, StepKinds
<1>2. IInv /\ [Next]_vars => [Flat!Next]_<<view, todo>>
  BY <1>1
<1> QED
  BY <1>2, Invariance, PTL DEF Spec, RefinesAddressSpace, Flat!Spec

====
