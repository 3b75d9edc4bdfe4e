------------------------- MODULE ProcessMemoryProofs -------------------------
(***************************************************************************)
(* Proofs about module ProcessMemory, for any heap, any size of a page,    *)
(* any lengths, any number of pieces of memory, and whatever addresses     *)
(* programs and the loader ask for.                                        *)
(***************************************************************************)
EXTENDS ProcessMemory, WellFoundedInduction, TLAPS

\* By whose choice of an address a piece is where it is: a program's, mmap's, or the
\* kernel's.
Programs == {"mmap", "fixed"}
Givers   == Programs \cup {"kernel"}

Owners == [by : Givers, va : Nat, start : Nat, len : Nat \ {0}]

Typed ==
  /\ last \in 0..MaxOwners
  /\ DOMAIN owners \subseteq 1..last /\ owners \in [DOMAIN owners -> Owners]
  /\ xlat \in [Pages -> Pages] /\ mem \in [HeapWords -> 0..last]
  /\ nextMmap \in Nat /\ nextMmap >= MmapStart /\ nextMmap % PageWords = 0
  /\ top \in HeapStart..HeapEnd

\* Each piece is in the part of the heap that was in use, its owner's address in
\* the pages there are, and no word is in two.
Apart ==
  /\ \A o \in DOMAIN owners :
       /\ HeapStart <= owners[o].start /\ owners[o].start + owners[o].len <= top
       /\ Page(owners[o].va + owners[o].len - 1) \in Pages
  /\ \A o, q \in DOMAIN owners : o # q => Words(owners[o]) \cap Words(owners[q]) = {}

\* No program was given page p.
Untouched(p) == \A o \in DOMAIN owners : owners[o].by # "kernel" => p \notin Area(o)

\* The kernel finds what it has at its own address wherever no program was given
\* that page.
Identity == \A p \in Pages : Untouched(p) => xlat[p] = p

\* The kernel has its pieces by their own address, and what mmap gave out lies
\* before the address it has come to.
Placed ==
  \A o \in DOMAIN owners :
    /\ owners[o].by = "kernel" => owners[o].va = owners[o].start
    /\ owners[o].by = "mmap" => /\ owners[o].va % PageWords = 0
                                /\ owners[o].va + owners[o].len <= nextMmap

\* The len words from va on are found from start on.
FoundAt(map, va, start, len) == \A i \in 0..len - 1 : Phys(map, va + i) = start + i

\* A piece holds what its owner put there, and its owner reaches it.
Held(o)    == \A i \in 0..owners[o].len - 1 : mem[owners[o].start + i] = o
Reached(o) == FoundAt(xlat, owners[o].va, owners[o].start, owners[o].len)

Kept == \A o \in DOMAIN owners : Held(o) /\ (Replaced(o) \/ Reached(o))

\* The inductive invariant.
IInv == Typed /\ Apart /\ Identity /\ Placed /\ (PlacedApart => Kept)

-----------------------------------------------------------------------------
(* Pages.                                                                  *)

\* The assumption on the constants, part by part.
LEMMA Constants ==
  /\ PageWords \in Nat \ {0} /\ LastPage \in Nat \ {0} /\ MaxOwners \in Nat \ {0}
  /\ HeapStart \in Nat /\ MmapStart \in Nat /\ HeapEnd \in Nat
  /\ HeapStart < MmapStart /\ MmapStart < HeapEnd /\ HeapEnd <= LastPage * PageWords
  /\ HeapStart % PageWords = 0 /\ MmapStart % PageWords = 0 /\ HeapEnd % PageWords = 0
  /\ Fixed \subseteq Nat
  /\ Lens \subseteq Nat \ {0} /\ Sizes \subseteq Nat \ {0}
BY MemoryAssumption

\* A word is in its page.
LEMMA DivMod ==
  ASSUME NEW v \in Nat, NEW k \in Nat \ {0}
  PROVE  v \div k \in Nat /\ v % k \in 0..k - 1 /\ v = k * (v \div k) + (v % k)
OBVIOUS

\* A greater word is not in an earlier page.
LEMMA DivMonotone ==
  ASSUME NEW v \in Nat, NEW w \in Nat, NEW k \in Nat \ {0}, v <= w
  PROVE  v \div k <= w \div k
OBVIOUS

\* Whole pages before a word move its page and not its place in it.
LEMMA DivPlus ==
  ASSUME NEW s \in Nat, NEW i \in Nat, NEW k \in Nat \ {0}
  PROVE  (k * s + i) \div k = s + (i \div k) /\ (k * s + i) % k = i % k
OBVIOUS

\* A word is before the start of page s when its page is.
LEMMA DivLess ==
  ASSUME NEW v \in Nat, NEW k \in Nat \ {0}, NEW s \in Nat
  PROVE  v < k * s <=> v \div k < s
OBVIOUS

\* Page s starts before x if it is not after the page of the word before x.
LEMMA StartsBefore ==
  ASSUME NEW x \in Nat \ {0}, NEW s \in Nat, NEW k \in Nat \ {0}
  PROVE  /\ s * k < ((x + k - 1) \div k) * k <=> s <= (x - 1) \div k
         /\ ((x + k - 1) \div k) * k = k * ((x - 1) \div k) + k
<1> DEFINE y == x - 1
           d == y \div k
<1>1. y \in Nat /\ x + k - 1 = k * 1 + y
  OBVIOUS
<1>2. (k * 1 + y) \div k = 1 + d /\ d \in Nat
  <2> HIDE DEF y
  <2>1. 1 \in Nat /\ y \in Nat
    BY <1>1
  <2>2. (k * 1 + y) \div k = 1 + (y \div k)
    BY <2>1, DivPlus
  <2>3. y \div k \in Nat
    BY <2>1, DivMod
  <2> QED
    BY <2>2, <2>3
<1>3. (x + k - 1) \div k = 1 + d
  BY <1>1, <1>2
<1> HIDE DEF y, d
<1>4. s * k < (1 + d) * k <=> s <= d
  <2>1. s <= d => s * k < (1 + d) * k
    BY <1>2
  <2>2. d < s => (1 + d) * k <= s * k
    BY <1>2
  <2> QED
    BY <1>2, <2>1, <2>2
<1>5. (1 + d) * k = k * d + k
  BY <1>2
<1> QED
  BY <1>3, <1>4, <1>5 DEF d, y

\* A word is its page and its place in it.
LEMMA PageProperties ==
  ASSUME NEW a \in Nat
  PROVE  Page(a) \in Nat /\ a % PageWords \in Nat /\ a = Page(a) * PageWords + (a % PageWords)
<1> DEFINE d == a \div PageWords
<1>1. d \in Nat /\ a % PageWords \in 0..PageWords - 1 /\ a = PageWords * d + (a % PageWords)
  BY Constants, DivMod
<1>2. PageWords * d = d * PageWords
  <2> HIDE DEF d
  <2> QED
    BY <1>1, Constants
<1>3. Page(a) = d
  BY DEF Page
<1> HIDE DEF d
<1> QED
  BY <1>1, <1>2, <1>3, Constants

\* Pages are in the order of their words; the words before an aligned one are in
\* earlier pages.
LEMMA PageOrder ==
  ASSUME NEW a \in Nat, NEW b \in Nat
  PROVE  /\ a <= b => Page(a) <= Page(b)
         /\ b % PageWords = 0 => (a < b <=> Page(a) < Page(b))
<1>1. a <= b => Page(a) <= Page(b)
  BY Constants, DivMonotone DEF Page
<1>2. ASSUME b % PageWords = 0 PROVE a < b <=> Page(a) < Page(b)
  <2> DEFINE d == b \div PageWords
  <2>1. d \in Nat /\ b = PageWords * d + (b % PageWords)
    BY Constants, DivMod
  <2>2. Page(b) = d /\ Page(a) = a \div PageWords
    BY DEF Page
  <2> HIDE DEF d
  <2>3. PageWords * d \in Nat
    BY <2>1, Constants
  <2>4. b = PageWords * d
    BY <1>2, <2>1, <2>3
  <2>5. a < PageWords * d <=> a \div PageWords < d
    BY <2>1, Constants, DivLess
  <2> QED
    BY <2>2, <2>4, <2>5
<1> QED
  BY <1>1, <1>2

\* The heap is in the pages there are.
LEMMA HeapInPages ==
  ASSUME NEW a \in HeapWords
  PROVE  a \in Nat /\ Page(a) \in Pages /\ Page(a) < LastPage
<1>1. a \in Nat /\ HeapStart <= a /\ a < HeapEnd
  BY Constants DEF HeapWords
<1>2. Page(a) \in Nat
  BY <1>1, PageProperties
<1>3. a < PageWords * LastPage
  <2>1. PageWords * LastPage = LastPage * PageWords /\ LastPage * PageWords \in Nat
    BY Constants
  <2> QED
    BY <1>1, <2>1, Constants
<1>4. Page(a) < LastPage
  <2>1. LastPage \in Nat
    BY Constants
  <2> QED
    BY <1>1, <1>3, <2>1, Constants, DivLess DEF Page
<1> QED
  BY <1>1, <1>2, <1>4, Constants DEF Pages

\* A word of a page that is mapped to itself is found where it is.
LEMMA PhysIdentity ==
  ASSUME NEW map, NEW a \in Nat, map[Page(a)] = Page(a)
  PROVE  Phys(map, a) = a
BY PageProperties DEF Phys

\* A word of an area that is mapped page by page is found at its place in it.
LEMMA PhysMoved ==
  ASSUME NEW map, NEW va \in Nat, NEW start \in Nat, NEW i \in Nat,
         va % PageWords = 0, start % PageWords = 0,
         map[Page(va + i)] = Page(start) + Page(va + i) - Page(va)
  PROVE  Phys(map, va + i) = start + i
<1> DEFINE k == PageWords
           v == va \div k
           s == start \div k
           d == i \div k
           r == i % k
<1>1. k \in Nat \ {0}
  BY Constants
<1>2. v \in Nat /\ va = k * v + (va % k) /\ s \in Nat /\ start = k * s + (start % k)
  BY <1>1, DivMod
<1>3. d \in Nat /\ r \in Nat /\ i = k * d + r
  <2>1. d \in Nat /\ r \in 0..k - 1 /\ i = k * d + r
    BY <1>1, DivMod
  <2> HIDE DEF d, r, k
  <2> QED
    BY <1>1, <2>1
<1>4. va = k * v /\ start = k * s
  <2> HIDE DEF v, s, k
  <2>1. k * v \in Nat /\ k * s \in Nat
    BY <1>1, <1>2
  <2> QED
    BY <1>2, <2>1 DEF k
<1>5. (k * v + i) \div k = v + d /\ (k * v + i) % k = r
  <2> HIDE DEF v
  <2> QED
    BY <1>1, <1>2, DivPlus
<1>6. Page(va + i) = v + d /\ (va + i) % PageWords = r /\ Page(va) = v /\ Page(start) = s
  BY <1>4, <1>5 DEF Page
<1> HIDE DEF v, s, d, r
<1>7. map[Page(va + i)] = s + d
  BY <1>2, <1>3, <1>6
<1>8. Phys(map, va + i) = (s + d) * k + r
  BY <1>6, <1>7 DEF Phys
<1>9. (s + d) * k = k * s + k * d /\ k * s \in Nat /\ k * d \in Nat
  <2> HIDE DEF k
  <2> QED
    BY <1>1, <1>2, <1>3
<1> HIDE DEF k
<1> QED
  BY <1>3, <1>4, <1>8, <1>9

\* What is stored in an area whose owner finds it at start is stored there.
LEMMA StoredThere ==
  ASSUME NEW contents, NEW map, NEW va \in Nat, NEW start \in Nat, NEW len \in Nat, NEW value,
         FoundAt(map, va, start, len)
  PROVE  Stored(contents, map, va, len, value)
           = [a \in HeapWords |-> IF a \in start..start + len - 1 THEN value ELSE contents[a]]
<1> DEFINE hit == {Phys(map, va + i) : i \in 0..len - 1}
<1>1. hit = {start + i : i \in 0..len - 1}
  BY DEF FoundAt
<1>2. \A a \in start..start + len - 1 : a - start \in 0..len - 1 /\ a = start + (a - start)
  OBVIOUS
<1>3. \A i \in 0..len - 1 : start + i \in start..start + len - 1
  OBVIOUS
<1>4. hit = start..start + len - 1
  BY <1>1, <1>2, <1>3
<1>5. Stored(contents, map, va, len, value)
        = [a \in HeapWords |-> IF a \in hit THEN value ELSE contents[a]]
  BY DEF Stored
<1> QED
  BY <1>4, <1>5

\* map_range maps the pages of the area to the pages from start on.
LEMMA MapRangeProperties ==
  ASSUME NEW va \in Nat, NEW start \in Nat, NEW len \in Nat \ {0}
  PROVE  MapRange(va, start, len)
           = [p \in Pages |-> IF p \in Page(va)..Page(va + len - 1)
                              THEN Page(start) + p - Page(va) ELSE xlat[p]]
<1>1. /\ Page(va) \in Nat /\ va + len \in Nat \ {0} /\ va + len - 1 \in Nat
      /\ Page(va + len - 1) \in Nat
  <2>1. va + len \in Nat \ {0} /\ va + len - 1 \in Nat
    OBVIOUS
  <2> QED
    BY <2>1, PageProperties
<1>2. ASSUME NEW p \in Pages
      PROVE  p * PageWords < RoundUp(va + len) <=> p <= Page(va + len - 1)
  <2> DEFINE x == va + len
  <2>1. x \in Nat \ {0} /\ p \in Nat /\ PageWords \in Nat \ {0}
    BY <1>1, Constants DEF Pages
  <2> HIDE DEF x
  <2>2. p * PageWords < RoundUp(x) <=> p <= Page(x - 1)
    BY <2>1, StartsBefore DEF RoundUp, Page
  <2> QED
    BY <2>2 DEF x
<1>3. ASSUME NEW p \in Pages
      PROVE  (Page(va) <= p /\ p * PageWords < RoundUp(va + len)) <=> p \in Page(va)..Page(va + len - 1)
  BY <1>1, <1>2, Constants DEF Pages
<1> QED
  BY <1>3 DEF MapRange

\* A word is at most one page later than the whole pages before it, and not even
\* that in an aligned area.
LEMMA PagesOfArea ==
  ASSUME NEW va \in Nat, NEW i \in Nat
  PROVE  /\ i \div PageWords \in Nat
         /\ va % PageWords = 0 => Page(va + i) = Page(va) + (i \div PageWords)
         /\ Page(va + i) <= Page(va) + (i \div PageWords) + 1
<1> DEFINE k == PageWords
           v == va \div k
           r == va % k
           d == i \div k
           e == i % k
<1>1. k \in Nat \ {0}
  BY Constants
<1>2. /\ v \in Nat /\ r \in 0..k - 1 /\ va = k * v + r
      /\ d \in Nat /\ e \in 0..k - 1 /\ i = k * d + e
  BY <1>1, DivMod
<1>3. va % PageWords = r /\ Page(va) = v /\ i \div PageWords = d /\ Page(va + i) = (va + i) \div k
  BY DEF Page
<1> HIDE DEF v, r, d, e, k
<1>4. k * v \in Nat /\ k * d \in Nat
  BY <1>1, <1>2
<1>5. ASSUME r = 0 PROVE (va + i) \div k = v + d
  <2>1. va = k * v
    BY <1>2, <1>4, <1>5
  <2>2. (k * v + i) \div k = v + (i \div k)
    BY <1>1, <1>2, DivPlus
  <2> QED
    BY <2>1, <2>2 DEF d
<1>6. (va + i) \div k < v + d + 2
  <2>1. v + d + 2 \in Nat /\ va + i \in Nat
    BY <1>2
  <2>2. k * (v + d + 2) = k * v + k * d + k + k
    BY <1>1, <1>2
  <2>3. va + i < k * (v + d + 2)
    <3>1. r < k /\ e < k /\ r \in Nat /\ e \in Nat /\ k \in Nat
      BY <1>1, <1>2
    <3> QED
      BY <1>2, <1>4, <2>2, <3>1
  <2> QED
    BY <1>1, <2>1, <2>3, DivLess
<1>7. (va + i) \div k \in Nat
  BY <1>1, <1>2, DivMod
<1> QED
  BY <1>2, <1>3, <1>5, <1>6, <1>7

-----------------------------------------------------------------------------
(* The heap.                                                               *)

\* A set of natural numbers has its least element.
LEMMA MinIsIn ==
  ASSUME NEW S \in SUBSET Nat, S # {}
  PROVE  Min(S) \in S
<1>1. \E x \in S : \A y \in S : ~ (<<y, x>> \in OpToRel(<, Nat))
  BY NatLessThanWellFounded, WFMin
<1>2. PICK x \in S : \A y \in S : ~ (<<y, x>> \in OpToRel(<, Nat))
  BY <1>1
<1>3. \A y \in S : ~(y < x)
  BY <1>2 DEF OpToRel
<1>4. \A y \in S : x <= y
  BY <1>3
<1> QED
  BY <1>4 DEF Min

\* Of two numbers the greatest.
LEMMA MaxOfTwo ==
  ASSUME NEW a \in Nat, NEW b \in Nat
  PROVE  Max({a, b}) \in {a, b} /\ a <= Max({a, b}) /\ b <= Max({a, b})
<1>1. \E x \in {a, b} : \A y \in {a, b} : x >= y
  <2>1. CASE a <= b
    BY <2>1
  <2>2. CASE b <= a
    BY <2>2
  <2> QED
    BY <2>1, <2>2
<1>2. Max({a, b}) \in {a, b} /\ \A y \in {a, b} : Max({a, b}) >= y
  BY <1>1 DEF Max
<1> QED
  BY <1>2

\* A new piece is in the heap and shares no word with the others.
LEMMA GiveProperties ==
  ASSUME Typed, Apart, NEW by \in Givers, NEW va \in Nat, NEW align \in Nat,
         NEW len \in Nat \ {0}, NEW start \in Fits(len, align), Give(by, va, start, len),
         Page(va + len - 1) \in Pages
  PROVE  /\ last' = last + 1 /\ last' \in 0..MaxOwners /\ last' \notin DOMAIN owners
         /\ start \in HeapWords /\ start % align = 0
         /\ start + len <= top' /\ top <= top' /\ top' \in HeapStart..HeapEnd
         /\ DOMAIN owners' = DOMAIN owners \cup {last'} /\ DOMAIN owners' \subseteq 1..last'
         /\ owners' \in [DOMAIN owners' -> Owners]
         /\ owners'[last'].by = by /\ owners'[last'].va = va
         /\ owners'[last'].start = start /\ owners'[last'].len = len
         /\ \A o \in DOMAIN owners :
              /\ owners'[o] = owners[o] /\ o # last' /\ o < last'
              /\ Words(owners[o]) \cap (start..start + len - 1) = {}
         /\ Apart'
<1>1. /\ last \in Nat /\ MaxOwners \in Nat /\ HeapStart \in Nat /\ HeapEnd \in Nat
      /\ DOMAIN owners \subseteq 1..last /\ owners \in [DOMAIN owners -> Owners]
      /\ top \in HeapStart..HeapEnd
  BY Constants DEF Typed
<1>2. /\ last' = last + 1 /\ last < MaxOwners
      /\ top' = Max({top, start + len})
  BY DEF Give
<1>3. last' \in 0..MaxOwners /\ last' \notin DOMAIN owners /\ \A o \in DOMAIN owners : o < last'
  BY <1>1, <1>2
<1>4. /\ start \in HeapWords /\ start % align = 0 /\ start + len <= HeapEnd
      /\ \A o \in DOMAIN owners : Words(owners[o]) \cap (start..start + len - 1) = {}
  BY DEF Fits, Range
<1>5. start \in Nat /\ HeapStart <= start
  BY <1>1, <1>4 DEF HeapWords
<1>6. start + len <= top' /\ top <= top' /\ top' \in HeapStart..HeapEnd
  <2>1. top \in Nat /\ start + len \in Nat
    BY <1>1, <1>5
  <2>2. /\ Max({top, start + len}) \in {top, start + len}
        /\ top <= Max({top, start + len}) /\ start + len <= Max({top, start + len})
    BY <2>1, MaxOfTwo
  <2> QED
    BY <1>1, <1>2, <1>4, <1>5, <2>2
<1> DEFINE n == [by |-> by, va |-> va, start |-> start, len |-> len]
<1>7. owners' = [o \in DOMAIN owners \cup {last'} |-> IF o = last' THEN n ELSE owners[o]]
  BY DEF Give
<1>8. n \in Owners /\ n.by = by /\ n.va = va /\ n.start = start /\ n.len = len
  BY <1>5 DEF Owners
<1> HIDE DEF n
<1>9. /\ DOMAIN owners' = DOMAIN owners \cup {last'} /\ owners'[last'] = n
      /\ \A o \in DOMAIN owners : owners'[o] = owners[o]
  BY <1>3, <1>7
<1>10. owners' \in [DOMAIN owners' -> Owners]
  BY <1>1, <1>7, <1>8
<1>11. DOMAIN owners' \subseteq 1..last'
  BY <1>1, <1>2, <1>9
<1>12. ASSUME NEW o \in DOMAIN owners'
       PROVE  /\ HeapStart <= owners'[o].start /\ owners'[o].start + owners'[o].len <= top'
              /\ Page(owners'[o].va + owners'[o].len - 1) \in Pages
  <2>1. CASE o = last'
    BY <1>5, <1>6, <1>8, <1>9, <2>1
  <2>2. CASE o \in DOMAIN owners
    <3>1. /\ HeapStart <= owners[o].start /\ owners[o].start + owners[o].len <= top
          /\ Page(owners[o].va + owners[o].len - 1) \in Pages
      BY <2>2 DEF Apart
    <3>2. owners[o].start \in Nat /\ owners[o].len \in Nat
      BY <1>1, <2>2 DEF Owners
    <3> QED
      BY <1>1, <1>6, <1>9, <2>2, <3>1, <3>2
  <2> QED
    BY <1>9, <2>1, <2>2
<1>13. ASSUME NEW o \in DOMAIN owners', NEW q \in DOMAIN owners', o # q
       PROVE  Words(owners'[o]) \cap Words(owners'[q]) = {}
  <2>1. Words(n) = start..start + len - 1
    BY <1>8 DEF Words
  <2>2. \A x, y \in DOMAIN owners : x # y => Words(owners[x]) \cap Words(owners[y]) = {}
    BY DEF Apart
  <2> QED
    BY <1>4, <1>9, <1>13, <2>1, <2>2
<1> QED
  BY <1>2, <1>3, <1>4, <1>6, <1>8, <1>9, <1>10, <1>11, <1>12, <1>13 DEF Apart

\* The words of a piece are in the part of the heap that is in use.
LEMMA WordsInUse ==
  ASSUME NEW start \in HeapWords, NEW len \in Nat, NEW t \in HeapStart..HeapEnd, start + len <= t,
         NEW a \in start..start + len - 1
  PROVE  a \in HeapWords /\ a \in HeapStart..t - 1
<1>1. HeapStart \in Nat /\ HeapEnd \in Nat
  BY Constants
<1>2. start \in HeapStart..HeapEnd - 1
  BY DEF HeapWords
<1>3. a \in HeapStart..HeapEnd - 1 /\ a \in HeapStart..t - 1
  BY <1>1, <1>2
<1> QED
  BY <1>3 DEF HeapWords

\* What is stored keeps the type of the words.
LEMMA StoredTyped ==
  ASSUME NEW n \in Nat, NEW m \in Nat, m <= n, NEW contents \in [HeapWords -> 0..m],
         NEW map, NEW va, NEW len, NEW value \in 0..n
  PROVE  Stored(contents, map, va, len, value) \in [HeapWords -> 0..n]
<1> DEFINE hit == {Phys(map, va + i) : i \in 0..len - 1}
<1>1. Stored(contents, map, va, len, value)
        = [a \in HeapWords |-> IF a \in hit THEN value ELSE contents[a]]
  BY DEF Stored
<1> HIDE DEF hit
<1>2. \A a \in HeapWords : contents[a] \in 0..n
  OBVIOUS
<1> QED
  BY <1>1, <1>2

\* An area is mapped to the pages of the piece, which are in the heap.
LEMMA MapRangeTyped ==
  ASSUME xlat \in [Pages -> Pages], NEW va \in Nat, NEW start \in Nat, NEW len \in Nat \ {0},
         start % PageWords = 0, start + len - 1 \in HeapWords
  PROVE  MapRange(va, start, len) \in [Pages -> Pages]
<1> DEFINE d == (len - 1) \div PageWords
<1>1. len - 1 \in Nat
  OBVIOUS
<1>2. va + len - 1 = va + (len - 1) /\ start + len - 1 = start + (len - 1)
  OBVIOUS
<1>3. /\ Page(va + len - 1) <= Page(va) + d + 1 /\ Page(start + len - 1) = Page(start) + d
      /\ d \in Nat
  BY <1>1, <1>2, PagesOfArea
<1>4. Page(start + len - 1) < LastPage /\ Page(va) \in Nat /\ Page(start) \in Nat
  BY HeapInPages, PageProperties
<1>5. Page(va + len - 1) \in Nat
  BY <1>1, <1>2, PageProperties
<1> HIDE DEF d
<1>6. ASSUME NEW p \in Page(va)..Page(va + len - 1)
      PROVE  Page(start) + p - Page(va) \in Pages
  <2> DEFINE a == Page(va)
             b == Page(va + len - 1)
             s == Page(start)
  <2>1. /\ a \in Nat /\ b \in Nat /\ s \in Nat /\ d \in Nat /\ p \in a..b /\ LastPage \in Nat
        /\ b <= a + d + 1 /\ s + d < LastPage
    BY <1>3, <1>4, <1>5, Constants
  <2> HIDE DEF a, b, s
  <2>2. s + p - a \in 0..LastPage
    BY <2>1
  <2> QED
    BY <2>2 DEF a, s, Pages
<1>7. MapRange(va, start, len)
           = [p \in Pages |-> IF p \in Page(va)..Page(va + len - 1)
                              THEN Page(start) + p - Page(va) ELSE xlat[p]]
  BY MapRangeProperties
<1> QED
  BY <1>6, <1>7

\* What a program is given: a piece that is somewhere in the heap, mapped where
\* the program wants it.
LEMMA PlaceProperties ==
  ASSUME Typed, NEW by, NEW va \in Nat, NEW len \in Nat \ {0}, Place(by, va, len)
  PROVE  /\ Page(va + len - 1) \in Pages
         /\ \E start \in Fits(len, PageWords) :
              /\ Give(by, va, start, len) /\ xlat' = MapRange(va, start, len)
              /\ mem' = Stored(Stored(mem, xlat, start, len, 0), xlat', va, len, last')
<1>1. Fits(len, PageWords) \in SUBSET Nat /\ Fits(len, PageWords) # {}
  BY HeapInPages DEF Fits, Place
<1>2. Min(Fits(len, PageWords)) \in Fits(len, PageWords)
  BY <1>1, MinIsIn
<1> QED
  BY <1>2 DEF Place

\* Every variable keeps its type when a program is given memory.
LEMMA PlaceKeepsTypes ==
  ASSUME Typed, Apart, NEW by \in Programs, NEW va \in Nat, NEW len \in Nat \ {0},
         Place(by, va, len),
         nextMmap' \in Nat, nextMmap' >= MmapStart, nextMmap' % PageWords = 0
  PROVE  Typed' /\ Apart'
<1>1. PICK start \in Fits(len, PageWords) :
             /\ Give(by, va, start, len) /\ xlat' = MapRange(va, start, len)
             /\ mem' = Stored(Stored(mem, xlat, start, len, 0), xlat', va, len, last')
  BY PlaceProperties
<1>2. /\ Page(va + len - 1) \in Pages /\ PageWords \in Nat
      /\ by \in Givers
  BY PlaceProperties, Constants DEF Givers
<1>3. /\ last' = last + 1 /\ last' \in 0..MaxOwners
      /\ start \in HeapWords /\ start % PageWords = 0
      /\ start + len <= top' /\ top' \in HeapStart..HeapEnd
      /\ DOMAIN owners' \subseteq 1..last' /\ owners' \in [DOMAIN owners' -> Owners]
      /\ Apart'
  <2>1. /\ last' = last + 1 /\ last' \in 0..MaxOwners
        /\ start + len <= top' /\ top' \in HeapStart..HeapEnd
    BY <1>1, <1>2, GiveProperties
  <2>2. DOMAIN owners' \subseteq 1..last' /\ owners' \in [DOMAIN owners' -> Owners]
    BY <1>1, <1>2, GiveProperties
  <2>3. Apart'
    BY <1>1, <1>2, GiveProperties
  <2> QED
    BY <2>1, <2>2, <2>3 DEF Fits
<1>4. start \in Nat /\ start + len - 1 \in HeapWords
  BY <1>3, HeapInPages, Constants DEF HeapWords
<1>5. xlat' \in [Pages -> Pages]
  BY <1>1, <1>3, <1>4, MapRangeTyped DEF Typed
<1>6. mem' \in [HeapWords -> 0..last']
  <2>1. last \in Nat /\ mem \in [HeapWords -> 0..last]
    BY DEF Typed
  <2>2. Stored(mem, xlat, start, len, 0) \in [HeapWords -> 0..last]
    BY <2>1, StoredTyped
  <2>3. last' \in Nat /\ last <= last' /\ last' \in 0..last'
    BY <1>3, <2>1
  <2> QED
    BY <1>1, <2>1, <2>2, <2>3, StoredTyped
<1> QED
  BY <1>3, <1>5, <1>6 DEF Typed

\* The kernel takes a piece at its own address.
LEMMA KernelAllocProperties ==
  ASSUME Typed, KernelAlloc
  PROVE  \E len \in Nat \ {0} : \E start \in Fits(len, 1) :
           /\ Give("kernel", start, start, len) /\ Page(start + len - 1) \in Pages
           /\ mem' = Stored(mem, xlat, start, len, last')
           /\ xlat' = xlat /\ nextMmap' = nextMmap
<1>1. PICK len \in Sizes :
        /\ Fits(len, 1) # {}
        /\ LET start == Min(Fits(len, 1))
           IN /\ Give("kernel", start, start, len)
              /\ mem' = Stored(mem, xlat, start, len, last')
        /\ UNCHANGED <<xlat, nextMmap>>
  BY DEF KernelAlloc
<1>2. len \in Nat \ {0}
  BY Constants
<1>3. Fits(len, 1) \in SUBSET Nat
  BY HeapInPages DEF Fits
<1> DEFINE start == Min(Fits(len, 1))
<1>4. start \in Fits(len, 1)
  BY <1>1, <1>3, MinIsIn
<1>5. Give("kernel", start, start, len) /\ mem' = Stored(mem, xlat, start, len, last')
  BY <1>1
<1> HIDE DEF start
<1>6. start + len - 1 \in HeapWords
  BY <1>2, <1>4, Constants DEF Fits, HeapWords
<1>7. Page(start + len - 1) \in Pages
  BY <1>6, HeapInPages
<1> QED
  BY <1>1, <1>2, <1>4, <1>5, <1>7

\* Every variable keeps its type when the kernel takes or frees memory.
LEMMA KernelKeepsTypes ==
  ASSUME Typed, Apart, KernelAlloc \/ KernelFree
  PROVE  Typed' /\ Apart'
<1>1. CASE KernelAlloc
  <2>1. PICK len \in Nat \ {0} : \E start \in Fits(len, 1) :
               /\ Give("kernel", start, start, len) /\ Page(start + len - 1) \in Pages
               /\ mem' = Stored(mem, xlat, start, len, last')
               /\ xlat' = xlat /\ nextMmap' = nextMmap
    BY <1>1, KernelAllocProperties
  <2>2. PICK start \in Fits(len, 1) :
               /\ Give("kernel", start, start, len) /\ Page(start + len - 1) \in Pages
               /\ mem' = Stored(mem, xlat, start, len, last')
               /\ xlat' = xlat /\ nextMmap' = nextMmap
    BY <2>1
  <2>3. start \in Nat /\ 1 \in Nat /\ "kernel" \in Givers
    BY HeapInPages DEF Fits, Givers
  <2>4. /\ last' = last + 1 /\ last' \in 0..MaxOwners
        /\ top' \in HeapStart..HeapEnd
        /\ DOMAIN owners' \subseteq 1..last' /\ owners' \in [DOMAIN owners' -> Owners]
        /\ Apart'
    BY <2>3, <2>2, GiveProperties
  <2>5. mem' \in [HeapWords -> 0..last']
    <3>1. last \in Nat /\ mem \in [HeapWords -> 0..last]
      BY DEF Typed
    <3>2. last' \in Nat /\ last <= last' /\ last' \in 0..last'
      BY <2>4, <3>1
    <3> QED
      BY <2>2, <3>1, <3>2, StoredTyped
  <2> QED
    BY <2>4, <2>5, <2>2 DEF Typed
<1>2. CASE KernelFree
  <2>1. PICK f \in DOMAIN owners : owners' = [o \in DOMAIN owners \ {f} |-> owners[o]]
    BY <1>2 DEF KernelFree, Restrict
  <2>2. UNCHANGED <<last, xlat, mem, nextMmap, top>>
    BY <1>2 DEF KernelFree
  <2>3. /\ DOMAIN owners' = DOMAIN owners \ {f}
        /\ \A o \in DOMAIN owners' : owners'[o] = owners[o]
    BY <2>1
  <2>4. owners' \in [DOMAIN owners' -> Owners] /\ DOMAIN owners' \subseteq 1..last
    BY <2>1, <2>3 DEF Typed
  <2>5. Apart'
    BY <2>2, <2>3 DEF Apart, Words
  <2> QED
    BY <2>2, <2>4, <2>5 DEF Typed
<1> QED
  BY <1>1, <1>2

-----------------------------------------------------------------------------
(* Who finds what.                                                         *)

\* A piece of the heap on pages that no program was given is found at its own
\* address.
LEMMA PieceFound ==
  ASSUME Identity, NEW start \in HeapWords, NEW len \in Nat, start + len <= HeapEnd,
         \A a \in start..start + len - 1 : Untouched(Page(a))
  PROVE  FoundAt(xlat, start, start, len)
<1>1. ASSUME NEW i \in 0..len - 1
      PROVE  Phys(xlat, start + i) = start + i
  <2>1. start + i \in HeapWords /\ start + i \in start..start + len - 1
    BY Constants DEF HeapWords
  <2>2. start + i \in Nat /\ Page(start + i) \in Pages /\ Untouched(Page(start + i))
    BY <2>1, HeapInPages
  <2>3. xlat[Page(start + i)] = Page(start + i)
    BY <2>2 DEF Identity
  <2> QED
    BY <2>2, <2>3, PhysIdentity
<1> QED
  BY <1>1 DEF FoundAt

\* Filling a new piece leaves the words of all others.
LEMMA OthersHold ==
  ASSUME Typed, Apart, NEW by \in Givers, NEW va \in Nat, NEW align \in Nat, NEW len \in Nat \ {0},
         NEW start \in Fits(len, align), Give(by, va, start, len), Page(va + len - 1) \in Pages,
         NEW contents, NEW n, n = last',
         mem' = [a \in HeapWords |-> IF a \in start..start + len - 1 THEN n ELSE contents[a]],
         \A a \in HeapWords \ (start..start + len - 1) : contents[a] = mem[a]
  PROVE  Held(n)' /\ \A o \in DOMAIN owners : Held(o) => Held(o)'
<1>1. /\ start \in HeapWords /\ start + len <= HeapEnd
      /\ owners'[n].start = start /\ owners'[n].len = len
      /\ \A o \in DOMAIN owners :
           /\ owners'[o] = owners[o] /\ Words(owners[o]) \cap (start..start + len - 1) = {}
  <2>1. owners'[n].start = start
    BY GiveProperties
  <2>2. owners'[n].len = len
    BY GiveProperties
  <2>3. \A o \in DOMAIN owners :
           /\ owners'[o] = owners[o] /\ Words(owners[o]) \cap (start..start + len - 1) = {}
    BY GiveProperties
  <2> QED
    BY <2>1, <2>2, <2>3 DEF Fits
<1>2. start \in Nat /\ HeapStart <= start /\ HeapEnd \in Nat /\ HeapStart \in Nat
  BY <1>1, Constants DEF HeapWords
<1>3. \A i \in 0..len - 1 : start + i \in HeapWords /\ start + i \in start..start + len - 1
  BY <1>1, <1>2 DEF HeapWords
<1>4. Held(n)'
  BY <1>1, <1>3 DEF Held
<1>5. ASSUME NEW o \in DOMAIN owners, Held(o) PROVE Held(o)'
  <2> DEFINE s == owners[o].start
             l == owners[o].len
  <2>1. s \in Nat /\ l \in Nat /\ HeapStart <= s /\ s + l <= top /\ top \in HeapStart..HeapEnd
    BY DEF Typed, Apart, Owners
  <2>2. Words(owners[o]) = s..s + l - 1
    BY DEF Words
  <2>3. owners'[o] = owners[o] /\ (s..s + l - 1) \cap (start..start + len - 1) = {}
    BY <1>1, <2>2
  <2>4. \A i \in 0..l - 1 : mem[s + i] = o
    BY <1>5 DEF Held
  <2> HIDE DEF s, l
  <2>5. ASSUME NEW i \in 0..l - 1 PROVE mem'[s + i] = o
    <3>1. s + i \in HeapWords /\ s + i \in s..s + l - 1
      BY <1>2, <2>1 DEF HeapWords
    <3>2. s + i \notin start..start + len - 1
      BY <2>3, <3>1
    <3> QED
      BY <2>4, <3>1, <3>2
  <2>6. owners'[o].start = s /\ owners'[o].len = l
    BY <2>3 DEF s, l
  <2> QED
    BY <2>5, <2>6 DEF Held
<1> QED
  BY <1>4, <1>5

\* A word of the heap that was in use was so ever after.
LEMMA LaterTop ==
  ASSUME NEW s \in Nat, NEW m \in Nat, NEW n \in Nat, m <= n, NEW a \in s..m - 1
  PROVE  a \in s..n - 1
OBVIOUS

\* What is so of the pieces of the others stays so when a piece is given away: they
\* are where they were, and what was mapped over stays so.
LEMMA OthersKeep ==
  ASSUME Typed, Apart, NEW by \in Givers, NEW va \in Nat, NEW align \in Nat,
         NEW len \in Nat \ {0}, NEW start \in Fits(len, align), Give(by, va, start, len),
         Page(va + len - 1) \in Pages, NEW n, n = last'
  PROVE  /\ \A o \in DOMAIN owners : /\ Area(o)' = Area(o)
                                     /\ Replaced(o) => Replaced(o)'
                                     /\ Reached(o) /\ xlat' = xlat => Reached(o)'
         /\ Area(n)' = Page(va)..Page(va + len - 1)
         /\ \A p \in Pages : Untouched(p)' => Untouched(p)
         /\ PlacedApart' => PlacedApart
<1>1. /\ DOMAIN owners' = DOMAIN owners \cup {last'}
      /\ \A o \in DOMAIN owners : owners'[o] = owners[o]
      /\ top \in Nat /\ top' \in Nat /\ top <= top' /\ HeapStart \in Nat
  <2>1. top \in HeapStart..HeapEnd /\ top' \in HeapStart..HeapEnd /\ top <= top'
    BY GiveProperties DEF Typed
  <2>2. HeapStart \in Nat /\ HeapEnd \in Nat
    BY Constants
  <2>3. top \in Nat /\ top' \in Nat
    BY <2>1, <2>2
  <2> QED
    BY <2>1, <2>2, <2>3, GiveProperties
<1>2. \A o \in DOMAIN owners : Area(o)' = Area(o)
  BY <1>1 DEF Area
<1>3. ASSUME NEW o \in DOMAIN owners, Replaced(o) PROVE Replaced(o)'
  BY <1>1, <1>2, <1>3 DEF Replaced
<1>4. ASSUME NEW o \in DOMAIN owners, Reached(o), xlat' = xlat PROVE Reached(o)'
  BY <1>1, <1>4 DEF Reached
<1>5. Area(n)' = Page(va)..Page(va + len - 1)
  <2>1. owners'[n].va = va
    BY GiveProperties
  <2>2. owners'[n].len = len
    BY GiveProperties
  <2> QED
    BY <2>1, <2>2 DEF Area
<1>6. ASSUME NEW p \in Pages, Untouched(p)' PROVE Untouched(p)
  BY <1>1, <1>2, <1>6 DEF Untouched
<1>7. ASSUME PlacedApart' PROVE PlacedApart
  <2>1. ASSUME NEW o \in DOMAIN owners, owners[o].by # "kernel"
        PROVE  /\ owners[o].by = "fixed" => owners[o].va % PageWords = 0
               /\ \A a \in HeapStart..top - 1 : Page(a) \notin Area(o)
    <3>1. o \in DOMAIN owners' /\ owners'[o].by # "kernel"
      BY <1>1, <2>1
    <3>2. /\ owners'[o].by = "fixed" => owners'[o].va % PageWords = 0
          /\ \A a \in HeapStart..top' - 1 : Page(a) \notin Area(o)'
      BY <1>7, <3>1 DEF PlacedApart
    <3>3. top \in Nat /\ top' \in Nat /\ top <= top' /\ HeapStart \in Nat
      BY <1>1
    <3>4. ASSUME NEW a \in HeapStart..top - 1 PROVE Page(a) \notin Area(o)
      <4>1. a \in HeapStart..top' - 1
        BY <3>3, LaterTop
      <4> QED
        BY <1>2, <3>2, <4>1
    <3> QED
      BY <1>1, <3>2, <3>4
  <2> QED
    BY <2>1 DEF PlacedApart
<1> QED
  BY <1>2, <1>3, <1>4, <1>5, <1>6, <1>7

\* While programs have none of its pages the heap that is in use is untouched.
LEMMA HeapUntouched ==
  ASSUME PlacedApart, NEW a \in HeapStart..top - 1
  PROVE  Untouched(Page(a))
BY DEF PlacedApart, Untouched

\* The kernel's own memory takes nothing from anybody.
LEMMA KernelAllocKeeps ==
  ASSUME IInv, KernelAlloc
  PROVE  Identity' /\ Placed' /\ (PlacedApart' => Kept')
<1>1. PICK len \in Nat \ {0} : \E start \in Fits(len, 1) :
             /\ Give("kernel", start, start, len) /\ Page(start + len - 1) \in Pages
             /\ mem' = Stored(mem, xlat, start, len, last')
             /\ xlat' = xlat /\ nextMmap' = nextMmap
  BY KernelAllocProperties DEF IInv
<1> PICK by \in Givers : by = "kernel"
  BY DEF Givers
<1>2. PICK start \in Fits(len, 1) :
             /\ Give(by, start, start, len) /\ Page(start + len - 1) \in Pages
             /\ mem' = Stored(mem, xlat, start, len, last')
             /\ xlat' = xlat /\ nextMmap' = nextMmap
  BY <1>1
<1> PICK n : n = last'
  OBVIOUS
<1>3. /\ start \in Nat /\ 1 \in Nat /\ start + len <= HeapEnd /\ start \in HeapWords
      /\ Typed /\ Apart
  BY HeapInPages DEF Fits, IInv
<1>4. /\ DOMAIN owners' = DOMAIN owners \cup {n} /\ \A o \in DOMAIN owners : owners'[o] = owners[o]
      /\ start + len <= top' /\ top' \in HeapStart..HeapEnd
  BY <1>2, <1>3, GiveProperties
<1>5. owners'[n].by = "kernel" /\ owners'[n].va = start /\ owners'[n].start = start /\ owners'[n].len = len
  <2>1. owners'[n].by = by
    BY <1>2, <1>3, GiveProperties
  <2>2. owners'[n].va = start
    BY <1>2, <1>3, GiveProperties
  <2>3. owners'[n].start = start
    BY <1>2, <1>3, GiveProperties
  <2>4. owners'[n].len = len
    BY <1>2, <1>3, GiveProperties
  <2> QED
    BY <2>1, <2>2, <2>3, <2>4
<1>6. /\ \A o \in DOMAIN owners : Area(o)' = Area(o)
      /\ \A o \in DOMAIN owners : Replaced(o) => Replaced(o)'
      /\ \A o \in DOMAIN owners : Reached(o) => Reached(o)'
      /\ \A p \in Pages : Untouched(p)' => Untouched(p)
      /\ PlacedApart' => PlacedApart
  BY <1>2, <1>3, OthersKeep
<1>7. Identity'
  BY <1>2, <1>6 DEF Identity, IInv
<1>8. Placed'
  BY <1>2, <1>4, <1>5 DEF Placed, IInv
<1>9. ASSUME PlacedApart' PROVE Kept'
  <2>1. Kept
    BY <1>6, <1>9 DEF IInv
  <2>2. ASSUME NEW a \in start..start + len - 1 PROVE Untouched(Page(a))
    <3>1. a \in HeapWords /\ a \in HeapStart..top' - 1
      BY <1>3, <1>4, WordsInUse
    <3>2. Page(a) \in Pages
      BY <3>1, HeapInPages
    <3>3. Untouched(Page(a))'
      BY <1>9, <3>1 DEF PlacedApart, Untouched
    <3> QED
      BY <1>6, <3>2, <3>3
  <2>3. FoundAt(xlat, start, start, len)
    BY <1>3, <2>2, PieceFound DEF IInv
  <2>4. mem' = [a \in HeapWords |-> IF a \in start..start + len - 1 THEN n ELSE mem[a]]
    <3>1. len \in Nat
      OBVIOUS
    <3>2. Stored(mem, xlat, start, len, n)
            = [a \in HeapWords |-> IF a \in start..start + len - 1 THEN n ELSE mem[a]]
      BY <1>3, <2>3, <3>1, StoredThere
    <3> QED
      BY <1>2, <3>2
  <2>5. Held(n)' /\ \A o \in DOMAIN owners : Held(o) => Held(o)'
    BY <1>2, <1>3, <2>4, OthersHold
  <2>6. Reached(n)'
    BY <1>2, <1>5, <2>3 DEF Reached
  <2> QED
    BY <1>4, <1>6, <2>1, <2>5, <2>6 DEF Kept
<1> QED
  BY <1>7, <1>8, <1>9

\* A program that is given memory, at the address it names or at the one mmap has
\* come to, takes nothing from anybody but what lay there before it.
LEMMA PlaceKeeps ==
  ASSUME IInv, NEW by \in Programs, NEW va \in Nat, NEW len \in Nat \ {0},
         Place(by, va, len), nextMmap' \in Nat, nextMmap <= nextMmap',
         by = "mmap" => va = nextMmap /\ va + len <= nextMmap'
  PROVE  Identity' /\ Placed' /\ (PlacedApart' => Kept')
<1> DEFINE A == Page(va)..Page(va + len - 1)
<1>1. PICK start \in Fits(len, PageWords) :
             /\ Give(by, va, start, len) /\ xlat' = MapRange(va, start, len)
             /\ mem' = Stored(Stored(mem, xlat, start, len, 0), xlat', va, len, last')
  BY PlaceProperties DEF IInv
<1>2. /\ Page(va + len - 1) \in Pages /\ PageWords \in Nat /\ Typed /\ Apart
      /\ by \in Givers /\ by # "kernel"
  BY PlaceProperties, Constants DEF IInv, Givers, Programs
<1> PICK n : n = last'
  OBVIOUS
<1>3. /\ DOMAIN owners' = DOMAIN owners \cup {n}
      /\ \A o \in DOMAIN owners : owners'[o] = owners[o] /\ o < n
      /\ start \in HeapWords /\ start % PageWords = 0
      /\ start + len <= top' /\ top' \in HeapStart..HeapEnd
  <2>1. DOMAIN owners' = DOMAIN owners \cup {n} /\ \A o \in DOMAIN owners : owners'[o] = owners[o] /\ o < n
    BY <1>1, <1>2, GiveProperties
  <2>2. start \in HeapWords /\ start % PageWords = 0
    BY DEF Fits
  <2>3. start + len <= top' /\ top' \in HeapStart..HeapEnd
    BY <1>1, <1>2, GiveProperties
  <2> QED
    BY <2>1, <2>2, <2>3
<1>4. owners'[n].by = by /\ owners'[n].va = va /\ owners'[n].start = start /\ owners'[n].len = len
  <2>1. owners'[n].by = by
    BY <1>1, <1>2, GiveProperties
  <2>2. owners'[n].va = va
    BY <1>1, <1>2, GiveProperties
  <2>3. owners'[n].start = start
    BY <1>1, <1>2, GiveProperties
  <2>4. owners'[n].len = len
    BY <1>1, <1>2, GiveProperties
  <2> QED
    BY <2>1, <2>2, <2>3, <2>4
<1>5. /\ \A o \in DOMAIN owners : Area(o)' = Area(o) /\ (Replaced(o) => Replaced(o)')
      /\ Area(n)' = A
      /\ \A p \in Pages : Untouched(p)' => Untouched(p)
      /\ PlacedApart' => PlacedApart
  BY <1>1, <1>2, OthersKeep
<1>6. start \in Nat /\ start + len <= HeapEnd /\ nextMmap \in Nat /\ nextMmap % PageWords = 0
  BY <1>2, <1>3, HeapInPages DEF Fits, Typed
<1>7. /\ va + len - 1 \in Nat /\ Page(va) \in Nat /\ Page(va + len - 1) \in Nat
      /\ Page(va + len - 1) <= LastPage /\ LastPage \in Nat
  <2>1. va + len - 1 \in Nat
    OBVIOUS
  <2> QED
    BY <1>2, <2>1, PageProperties, Constants DEF Pages
<1>8. xlat' = [p \in Pages |-> IF p \in A THEN Page(start) + p - Page(va) ELSE xlat[p]]
  BY <1>1, <1>6, MapRangeProperties
<1>9. Identity'
  <2> SUFFICES ASSUME NEW p \in Pages, Untouched(p)' PROVE xlat'[p] = p
    BY DEF Identity
  <2>1. p \notin A
    <3> HIDE DEF A
    <3> QED
      BY <1>2, <1>3, <1>4, <1>5 DEF Untouched
  <2>2. xlat[p] = p
    BY <1>5 DEF Identity, IInv
  <2> HIDE DEF A
  <2> QED
    BY <1>8, <2>1, <2>2
<1>10. Placed'
  <2>1. ASSUME NEW o \in DOMAIN owners
        PROVE  /\ owners'[o].by = "kernel" => owners'[o].va = owners'[o].start
               /\ owners'[o].by = "mmap" => /\ owners'[o].va % PageWords = 0
                                            /\ owners'[o].va + owners'[o].len <= nextMmap'
    <3>1. owners'[o] = owners[o] /\ owners[o].va \in Nat /\ owners[o].len \in Nat
      BY <1>2, <1>3 DEF Typed, Owners
    <3>2. /\ owners[o].by = "kernel" => owners[o].va = owners[o].start
          /\ owners[o].by = "mmap" => /\ owners[o].va % PageWords = 0
                                      /\ owners[o].va + owners[o].len <= nextMmap
      BY DEF Placed, IInv
    <3> QED
      BY <1>6, <3>1, <3>2
  <2>2. /\ owners'[n].by = "kernel" => owners'[n].va = owners'[n].start
        /\ owners'[n].by = "mmap" => /\ owners'[n].va % PageWords = 0
                                     /\ owners'[n].va + owners'[n].len <= nextMmap'
    BY <1>2, <1>4, <1>6
  <2> QED
    BY <1>3, <2>1, <2>2 DEF Placed
<1>11. ASSUME PlacedApart' PROVE Kept'
  <2>1. Kept
    BY <1>5, <1>11 DEF IInv
  <2>2. /\ va % PageWords = 0
        /\ \A a \in HeapStart..top' - 1 : Page(a) \notin A
    <3>1. /\ by = "fixed" => va % PageWords = 0
          /\ \A a \in HeapStart..top' - 1 : Page(a) \notin A
      <4> HIDE DEF A
      <4> QED
        BY <1>2, <1>3, <1>4, <1>5, <1>11 DEF PlacedApart
    <3> QED
      BY <1>6, <3>1 DEF Programs
  <2>3. FoundAt(xlat, start, start, len)
    <3>1. ASSUME NEW a \in start..start + len - 1 PROVE Untouched(Page(a))
      <4>1. a \in HeapWords /\ a \in HeapStart..top' - 1
        BY <1>3, WordsInUse
      <4>2. Page(a) \in Pages
        BY <4>1, HeapInPages
      <4>3. Untouched(Page(a))'
        BY <1>11, <4>1 DEF PlacedApart, Untouched
      <4> QED
        BY <1>5, <4>2, <4>3
    <3>2. len \in Nat
      OBVIOUS
    <3> QED
      BY <1>3, <1>6, <3>1, <3>2, PieceFound DEF IInv
  <2>4. FoundAt(xlat', va, start, len)
    <3>1. ASSUME NEW i \in 0..len - 1 PROVE Phys(xlat', va + i) = start + i
      <4>1. i \in Nat /\ va + i \in Nat /\ va <= va + i /\ va + i <= va + len - 1
        OBVIOUS
      <4>2. Page(va + i) \in Nat /\ Page(va) <= Page(va + i) /\ Page(va + i) <= Page(va + len - 1)
        BY <1>7, <4>1, PageOrder, PageProperties
      <4>3. Page(va + i) \in A /\ Page(va + i) \in Pages
        BY <1>7, <4>2 DEF Pages
      <4>4. xlat'[Page(va + i)] = Page(start) + Page(va + i) - Page(va)
        <5> HIDE DEF A
        <5> QED
          BY <1>8, <4>3
      <4> QED
        BY <1>3, <1>6, <2>2, <4>1, <4>4, PhysMoved
    <3> QED
      BY <3>1 DEF FoundAt
  <2>5. Held(n)' /\ \A o \in DOMAIN owners : Held(o) => Held(o)'
    <3> DEFINE z == Stored(mem, xlat, start, len, 0)
    <3>1. len \in Nat
      OBVIOUS
    <3>2. z = [a \in HeapWords |-> IF a \in start..start + len - 1 THEN 0 ELSE mem[a]]
      <4> PICK zero : zero = 0
        OBVIOUS
      <4>1. Stored(mem, xlat, start, len, zero)
              = [a \in HeapWords |-> IF a \in start..start + len - 1 THEN zero ELSE mem[a]]
        BY <1>6, <2>3, <3>1, StoredThere
      <4> QED
        BY <4>1
    <3>3. \A a \in HeapWords \ (start..start + len - 1) : z[a] = mem[a]
      BY <3>2
    <3> HIDE DEF z
    <3>4. Stored(z, xlat', va, len, n)
            = [a \in HeapWords |-> IF a \in start..start + len - 1 THEN n ELSE z[a]]
      BY <1>6, <2>4, <3>1, StoredThere
    <3>5. mem' = [a \in HeapWords |-> IF a \in start..start + len - 1 THEN n ELSE z[a]]
      BY <1>1, <3>4 DEF z
    <3> QED
      BY <1>1, <1>2, <3>3, <3>5, OthersHold
  <2>6. Reached(n)'
    BY <1>4, <2>4 DEF Reached
  <2>7. ASSUME NEW o \in DOMAIN owners, Reached(o) PROVE Replaced(o)' \/ Reached(o)'
    <3> DEFINE v == owners[o].va
               l == owners[o].len
    <3>1. /\ v \in Nat /\ l \in Nat \ {0} /\ v + l - 1 \in Nat /\ owners'[o] = owners[o]
          /\ Page(v + l - 1) \in Pages
          /\ HeapStart <= owners[o].start /\ owners[o].start + l <= top'
          /\ owners[o].start \in Nat /\ owners[o].by \in Givers /\ o < n
      <4>1. /\ v \in Nat /\ l \in Nat \ {0} /\ owners[o].start \in Nat
            /\ owners[o].by \in Givers
        BY <1>2 DEF Typed, Owners
      <4>2. owners'[o] = owners[o] /\ o < n /\ Page(v + l - 1) \in Pages
        BY <1>2, <1>3 DEF Apart
      <4>3. HeapStart <= owners'[o].start /\ owners'[o].start + owners'[o].len <= top'
        <5>1. Apart' /\ o \in DOMAIN owners'
          BY <1>1, <1>2, <1>3, GiveProperties
        <5> QED
          BY <5>1 DEF Apart
      <4>4. v + l - 1 \in Nat
        BY <4>1
      <4> QED
        BY <4>1, <4>2, <4>3, <4>4
    <3>2. ASSUME NEW i \in 0..l - 1
          PROVE  v + i \in Nat /\ Page(v + i) \in Page(v)..Page(v + l - 1) /\ Page(v + i) \in Pages
      <4>1. v + i \in Nat /\ v <= v + i /\ v + i <= v + l - 1
        BY <3>1
      <4>2. /\ Page(v + i) \in Nat /\ Page(v) <= Page(v + i) /\ Page(v + i) <= Page(v + l - 1)
            /\ Page(v) \in Nat /\ Page(v + l - 1) \in Nat
        BY <3>1, <4>1, PageOrder, PageProperties
      <4> QED
        BY <3>1, <4>1, <4>2, <1>7 DEF Pages
    <3>3. ASSUME \A i \in 0..l - 1 : Page(v + i) \notin A PROVE Reached(o)'
      <4>1. ASSUME NEW i \in 0..l - 1 PROVE Phys(xlat', v + i) = Phys(xlat, v + i)
        <5>1. xlat'[Page(v + i)] = xlat[Page(v + i)]
          <6> HIDE DEF A
          <6> QED
            BY <1>8, <3>2, <3>3
        <5> QED
          BY <5>1 DEF Phys
      <4>2. owners'[o].va = v /\ owners'[o].len = l /\ owners'[o].start = owners[o].start
        BY <3>1
      <4> QED
        BY <2>7, <4>1, <4>2 DEF Reached, FoundAt
    <3>4. CASE owners[o].by = "kernel"
      <4>1. v = owners[o].start
        BY <3>4 DEF Placed, IInv
      <4>2. ASSUME NEW i \in 0..l - 1 PROVE Page(v + i) \notin A
        <5>1. v + i \in HeapStart..top' - 1
          BY <1>3, <3>1, <4>1, Constants
        <5> HIDE DEF A
        <5> QED
          BY <2>2, <5>1
      <4> QED
        BY <3>3, <4>2
    <3>5. CASE by = "mmap" /\ owners[o].by = "mmap"
      <4>1. v + l <= va /\ va % PageWords = 0
        BY <2>2, <3>5 DEF Placed, IInv
      <4>2. ASSUME NEW i \in 0..l - 1 PROVE Page(v + i) \notin A
        <5>1. v + i \in Nat /\ v + i < va
          BY <3>1, <4>1
        <5>2. Page(v + i) < Page(va) /\ Page(v + i) \in Nat
          BY <4>1, <5>1, PageOrder, PageProperties
        <5> QED
          BY <1>7, <5>2
      <4> QED
        BY <3>3, <4>2
    <3>6. CASE owners[o].by # "kernel" /\ "fixed" \in {owners[o].by, by}
      <4>1. ASSUME NEW i \in 0..l - 1, Page(v + i) \in A PROVE Replaced(o)'
        <5>1. Page(v + i) \in Area(o)'
          BY <1>5, <3>2 DEF Area
        <5>2. Area(n)' \cap Area(o)' # {}
          <6> HIDE DEF A
          <6> QED
            BY <1>5, <4>1, <5>1
        <5>3. /\ n \in DOMAIN owners' /\ n > o /\ owners'[n].by # "kernel"
              /\ "fixed" \in {owners'[o].by, owners'[n].by}
          BY <1>2, <1>3, <1>4, <3>1, <3>6
        <5> QED
          BY <5>2, <5>3 DEF Replaced
      <4> HIDE DEF A
      <4> QED
        BY <3>3, <4>1
    <3> HIDE DEF A
    <3> QED
      BY <3>1, <3>4, <3>5, <3>6 DEF Givers, Programs
  <2>8. ASSUME NEW o \in DOMAIN owners PROVE Held(o)' /\ (Replaced(o)' \/ Reached(o)')
    BY <1>5, <2>1, <2>5, <2>7, <2>8 DEF Kept
  <2> QED
    BY <1>3, <2>5, <2>6, <2>8 DEF Kept
<1> QED
  BY <1>9, <1>10, <1>11

\* What the kernel frees was nobody else's.
LEMMA KernelFreeKeeps ==
  ASSUME IInv, KernelFree
  PROVE  Identity' /\ Placed' /\ (PlacedApart' => Kept')
<1>1. PICK f \in DOMAIN owners :
             owners[f].by = "kernel" /\ owners' = [o \in DOMAIN owners \ {f} |-> owners[o]]
  BY DEF KernelFree, Restrict
<1>2. UNCHANGED <<last, xlat, mem, nextMmap, top>>
  BY DEF KernelFree
<1>3. /\ DOMAIN owners' = DOMAIN owners \ {f}
      /\ \A o \in DOMAIN owners' : owners'[o] = owners[o] /\ Area(o)' = Area(o)
  BY <1>1 DEF Area
<1>4. \A o \in DOMAIN owners : owners[o].by # "kernel" => o \in DOMAIN owners'
  BY <1>1, <1>3
<1>5. Identity'
  <2>1. \A p : Untouched(p)' => Untouched(p)
    BY <1>3, <1>4 DEF Untouched
  <2> QED
    BY <1>2, <2>1 DEF Identity, IInv
<1>6. Placed'
  BY <1>2, <1>3 DEF Placed, IInv
<1>7. ASSUME PlacedApart' PROVE Kept'
  <2>1. PlacedApart
    BY <1>2, <1>3, <1>4, <1>7 DEF PlacedApart
  <2>2. Kept
    BY <2>1 DEF IInv
  <2>3. ASSUME NEW o \in DOMAIN owners' PROVE Held(o)' /\ (Replaced(o)' \/ Reached(o)')
    <3>1. o \in DOMAIN owners /\ owners'[o] = owners[o] /\ Area(o)' = Area(o)
      BY <1>3
    <3>2. Held(o)'
      BY <1>2, <2>2, <3>1 DEF Held, Kept
    <3>3. ASSUME Replaced(o) PROVE Replaced(o)'
      <4>1. PICK q \in DOMAIN owners :
                   /\ q > o /\ owners[q].by # "kernel" /\ Area(q) \cap Area(o) # {}
                   /\ "fixed" \in {owners[o].by, owners[q].by}
        BY <3>3 DEF Replaced
      <4>2. q \in DOMAIN owners' /\ owners'[q] = owners[q] /\ Area(q)' = Area(q)
        BY <1>3, <1>4, <4>1
      <4> QED
        BY <3>1, <4>1, <4>2 DEF Replaced
    <3>4. ASSUME Reached(o) PROVE Reached(o)'
      BY <1>2, <3>1, <3>4 DEF Reached
    <3> QED
      BY <2>2, <3>1, <3>2, <3>3, <3>4 DEF Kept
  <2> QED
    BY <2>3 DEF Kept
<1> QED
  BY <1>5, <1>6, <1>7

\* mmap goes on to a later page.
LEMMA MmapStepProperties ==
  ASSUME NEW a \in Nat, a % PageWords = 0, NEW len \in Nat \ {0}
  PROVE  /\ a + MmapStep(len) \in Nat /\ a + len <= a + MmapStep(len)
         /\ (a + MmapStep(len)) % PageWords = 0
<1> DEFINE k == PageWords
           d == (len - 1) \div k
           r == (len - 1) % k
           v == a \div k
<1>1. k \in Nat \ {0} /\ len - 1 \in Nat
  BY Constants
<1>2. d \in Nat /\ r \in 0..k - 1 /\ len - 1 = k * d + r
  BY <1>1, DivMod
<1>3. v \in Nat /\ a = k * v + (a % k)
  BY <1>1, DivMod
<1>4. MmapStep(len) = k * d + k
  <2>1. 0 \in Nat
    OBVIOUS
  <2> QED
    BY <1>1, <2>1, StartsBefore DEF MmapStep, RoundUp
<1> HIDE DEF d, r, v, k
<1>5. k * d \in Nat /\ k * v \in Nat
  BY <1>1, <1>2, <1>3
<1>6. a = k * v
  BY <1>3, <1>5 DEF k
<1>7. a + MmapStep(len) = k * (v + d + 1) + 0
  BY <1>1, <1>2, <1>3, <1>4, <1>6
<1>8. v + d + 1 \in Nat /\ 0 \in Nat
  BY <1>2, <1>3
<1>9. (k * (v + d + 1) + 0) % k = 0
  <2> DEFINE w == v + d + 1
  <2>1. w \in Nat
    BY <1>8
  <2> HIDE DEF w
  <2>2. PICK zero \in Nat : zero = 0
    OBVIOUS
  <2>3. (k * w + zero) % k = zero % k
    <3>1. k \in Nat \ {0}
      BY <1>1
    <3> QED
      BY <2>1, <2>2, <3>1
  <2>4. zero % k = 0
    BY <1>1, <2>2
  <2> QED
    BY <2>2, <2>3, <2>4 DEF w
<1>10. MmapStep(len) \in Nat /\ len <= MmapStep(len)
  BY <1>1, <1>2, <1>4, <1>5
<1> QED
  BY <1>7, <1>9, <1>10 DEF k

\* mmap with no address, whether there is memory or not.
LEMMA MmapKeeps ==
  ASSUME IInv, MmapAnywhere
  PROVE  IInv'
<1>1. PICK len \in Lens :
        /\ nextMmap' = nextMmap + MmapStep(len)
        /\ \/ Place("mmap", nextMmap, len)
           \/ UNCHANGED <<owners, last, xlat, mem, top>>
  BY DEF MmapAnywhere
<1>2. /\ Typed /\ Apart /\ len \in Nat \ {0} /\ nextMmap \in Nat /\ nextMmap >= MmapStart
      /\ nextMmap % PageWords = 0 /\ MmapStart \in Nat /\ "mmap" \in Programs
  BY Constants DEF IInv, Typed, Programs
<1>3. nextMmap' \in Nat /\ nextMmap + len <= nextMmap' /\ nextMmap' % PageWords = 0
  BY <1>1, <1>2, MmapStepProperties
<1>4. nextMmap' >= MmapStart /\ nextMmap <= nextMmap'
  BY <1>2, <1>3
<1>5. CASE Place("mmap", nextMmap, len)
  <2>1. Typed' /\ Apart'
    BY <1>2, <1>3, <1>4, <1>5, PlaceKeepsTypes
  <2>2. Identity' /\ Placed' /\ (PlacedApart' => Kept')
    BY <1>2, <1>3, <1>4, <1>5, PlaceKeeps
  <2> QED
    BY <2>1, <2>2 DEF IInv
<1>6. CASE UNCHANGED <<owners, last, xlat, mem, top>>
  <2>1. Typed' /\ Apart'
    BY <1>2, <1>3, <1>4, <1>6 DEF Typed, Apart
  <2>2. Identity' /\ (PlacedApart' => Kept')
    BY <1>6 DEF IInv, Identity, Untouched, PlacedApart, Area, Kept, Held, Replaced, Reached
  <2>3. Placed'
    <3>1. ASSUME NEW o \in DOMAIN owners, owners[o].by = "mmap"
          PROVE  owners[o].va + owners[o].len <= nextMmap'
      <4>1. owners[o].va + owners[o].len \in Nat
        BY <1>2 DEF Typed, Owners
      <4>2. owners[o].va + owners[o].len <= nextMmap
        BY <3>1 DEF Placed, IInv
      <4> QED
        BY <1>2, <1>3, <1>4, <4>1, <4>2
    <3> QED
      BY <1>6, <3>1 DEF Placed, IInv
  <2> QED
    BY <2>1, <2>2, <2>3 DEF IInv
<1> QED
  BY <1>1, <1>5, <1>6

\* mmap with an address, or a segment of the loader or of the shared region.
LEMMA FixedKeeps ==
  ASSUME IInv, PlaceFixed
  PROVE  IInv'
<1>1. PICK va \in Fixed, len \in Lens : Place("fixed", va, len)
  BY DEF PlaceFixed
<1>2. /\ Typed /\ Apart /\ len \in Nat \ {0} /\ va \in Nat
      /\ nextMmap' = nextMmap /\ nextMmap \in Nat /\ nextMmap >= MmapStart
      /\ nextMmap % PageWords = 0 /\ "fixed" \in Programs /\ "fixed" # "mmap"
  BY Constants DEF IInv, Typed, PlaceFixed, Programs
<1>3. nextMmap <= nextMmap'
  BY <1>2
<1>4. Typed' /\ Apart'
  BY <1>1, <1>2, PlaceKeepsTypes
<1>5. Identity' /\ Placed' /\ (PlacedApart' => Kept')
  BY <1>1, <1>2, <1>3, PlaceKeeps
<1> QED
  BY <1>4, <1>5 DEF IInv

-----------------------------------------------------------------------------
(* The theorems.                                                           *)

\* At first nobody has anything, and every page is mapped to itself.
LEMMA InitIInv == Init => IInv
<1> SUFFICES ASSUME Init PROVE IInv
  OBVIOUS
<1>1. DOMAIN owners = {} /\ owners \in [DOMAIN owners -> Owners]
  BY DEF Init
<1>2. /\ last = 0 /\ nextMmap = MmapStart /\ top = HeapStart
      /\ xlat = [p \in Pages |-> p] /\ mem = [a \in HeapWords |-> 0]
  BY DEF Init
<1>3. Typed
  BY <1>1, <1>2, Constants DEF Typed
<1>4. Apart
  BY <1>1 DEF Apart
<1>5. Identity /\ Placed /\ Kept
  BY <1>1, <1>2 DEF Identity, Placed, Kept
<1> QED
  BY <1>3, <1>4, <1>5 DEF IInv

\* Every step keeps the inductive invariant.
LEMMA NextIInv == IInv /\ [Next]_vars => IInv'
<1> SUFFICES ASSUME IInv, [Next]_vars PROVE IInv'
  OBVIOUS
<1>1. CASE KernelAlloc \/ KernelFree
  <2>1. Typed' /\ Apart'
    BY <1>1, KernelKeepsTypes DEF IInv
  <2>2. Identity' /\ Placed' /\ (PlacedApart' => Kept')
    BY <1>1, KernelAllocKeeps, KernelFreeKeeps
  <2> QED
    BY <2>1, <2>2 DEF IInv
<1>2. CASE MmapAnywhere
  BY <1>2, MmapKeeps
<1>3. CASE PlaceFixed
  BY <1>3, FixedKeeps
<1>4. CASE UNCHANGED vars
  <2>1. UNCHANGED <<owners, last, xlat, mem, nextMmap, top>>
    BY <1>4 DEF vars
  <2>2. Typed' /\ Apart'
    BY <2>1 DEF IInv, Typed, Apart
  <2>3. Identity' /\ Placed' /\ (PlacedApart => Kept)'
    BY <2>1 DEF IInv, Identity, Untouched, Placed, PlacedApart, Area, Kept, Held, Replaced, Reached
  <2> QED
    BY <2>2, <2>3 DEF IInv
<1> QED
  BY <1>1, <1>2, <1>3, <1>4 DEF Next

\* The inductive invariant holds in every behaviour.
THEOREM Invariance == Spec => []IInv
BY InitIInv, NextIInv, PTL DEF Spec

\* Every variable keeps its type, whatever memory programs ask for: map_range
\* only makes pages out of pages, also where the address is in the middle of one,
\* and the heap gives out no more than it has.
THEOREM TypeCorrect == Spec => []TypeOK
<1>1. IInv => TypeOK
  BY DEF IInv, Typed, TypeOK, Range
<1> QED
  BY <1>1, Invariance, PTL

\* For whatever addresses programs and the loader ask (process.rs:525,
\* macho.rs:216-251): as long as what they were given is whole pages by which the
\* kernel does not use the heap, the kernel and the programs find in their memory
\* what they put there, but for what a program had mapped over.
THEOREM MemoryIsKept == Spec => []OwnersKeepTheirWords
<1>1. IInv => OwnersKeepTheirWords
  <2> SUFFICES ASSUME IInv, PlacedApart, NEW o \in DOMAIN owners, ~Replaced(o),
                      NEW i \in 0..owners[o].len - 1
               PROVE  mem[Phys(xlat, owners[o].va + i)] = o
    BY DEF OwnersKeepTheirWords
  <2>1. Held(o) /\ Reached(o)
    BY DEF IInv, Kept
  <2> QED
    BY <2>1 DEF Held, Reached, FoundAt
<1> QED
  BY <1>1, Invariance, PTL
=============================================================================
