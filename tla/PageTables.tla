----------------------------- MODULE PageTables -----------------------------
(***************************************************************************)
(* The kernel's translation tables (mmu.rs): the identity map of 2 MB      *)
(* blocks built at boot, with a hole for device space, and map_range,      *)
(* which walks a range page by page, takes L2 and L3 tables from two fixed *)
(* pools and splits a block into pages when the range touches it.          *)
(*                                                                         *)
(* Addresses are counted in units of which PageSize make a page; a page is *)
(* named by its number.  An L1 entry at index i covers L2Size * L3Size     *)
(* pages.  Only the first StaticL1 entries lie in the address space the    *)
(* MMU translates (T0SZ = 32), but map_range fills others as well.         *)
(***************************************************************************)
EXTENDS Naturals

CONSTANTS
  PageSize,      \* 4096
  L3Size,        \* 512: pages of an L3 table
  L2Size,        \* 512: entries of an L2 table
  StaticL1,      \* 4: L1 entries filled at boot, the translated space
  L1Size,        \* 512: entries of L1_TABLE
  L2Pool,        \* 16: tables in L2_POOL
  L3Pool,        \* 256: tables in L3_POOL
  Hole,          \* blocks left unmapped at boot (device space)
  Perms,         \* MapPermission
  BootAttr,      \* the attributes of the boot-time blocks
  PhysPages,     \* physical pages passed to map_range
  MaxSize,       \* bound on the size of a range
  MaxCalls       \* bound on the calls of map_range

ASSUME PageTablesAssumption ==
  /\ {PageSize, L3Size, L2Size, StaticL1, L1Size} \subseteq Nat \ {0}
  /\ StaticL1 <= L1Size
  /\ {L2Pool, L3Pool, MaxSize, MaxCalls} \subseteq Nat
  /\ PhysPages \subseteq Nat /\ BootAttr \notin Perms

VARIABLES
  l1,        \* L1_TABLE: "none", or the L2 table an index points to
  l2,        \* the entries of the L2 tables
  l3,        \* L3_POOL: the pages of its tables
  l2Next,    \* L2_ALLOC_IDX
  l3Next,    \* L3_ALLOC_IDX
  job,       \* the map_range in progress: the pages left, the next one, what backs it,
             \* and the arguments of the call
  calls,     \* auxiliary: map_range calls made
  panic      \* "none", or the message of the panic that stopped the kernel

vars == <<l1, l2, l3, l2Next, l3Next, job, calls, panic>>

None == [kind |-> "none"]
Block(p)   == [kind |-> "block", base |-> p]
Table(k)   == [kind |-> "table", at |-> k]
Page(p, a) == [kind |-> "page", base |-> p, attr |-> a]

\* L2 tables: the static ones, then those of the pool.
L2Tables == 0..StaticL1 + L2Pool - 1
L3Tables == 0..L3Pool - 1

BlockPages == L3Size
L1Pages    == L2Size * L3Size
L1Idx(v) == v \div L1Pages
L2Idx(v) == (v \div L3Size) % L2Size
L3Idx(v) == v % L3Size

Idle == [left |-> 0, v |-> 0, p |-> 0, perm |-> BootAttr, vaddr |-> 0, paddr |-> 0,
         size |-> 0]

\* mmu::init up to the enabling of the MMU.
Init ==
  /\ l1 = [i \in 0..L1Size - 1 |-> IF i < StaticL1 THEN Table(i) ELSE None]
  /\ l2 = [t \in L2Tables |-> [j \in 0..L2Size - 1 |->
             IF t < StaticL1 /\ t * L2Size + j \notin Hole
             THEN Block((t * L2Size + j) * BlockPages) ELSE None]]
  /\ l3 = [k \in L3Tables |-> [i \in 0..L3Size - 1 |-> None]]
  /\ l2Next = 0 /\ l3Next = 0
  /\ job = Idle /\ calls = 0 /\ panic = "none"

-----------------------------------------------------------------------------
(* map_range.                                                              *)

\* A slip: the end not rounded up.
LastOfRangeCut(vaddr, size) == (vaddr + size) \div PageSize

\* The first page of the range and the one after its last.
FirstOfRange(vaddr)      == vaddr \div PageSize
EndOfRange(vaddr, size)  == (vaddr + size + PageSize - 1) \div PageSize

MapRange(vaddr, p, size, perm) ==
  /\ panic = "none" /\ job.left = 0
  /\ calls < MaxCalls
  /\ calls' = calls + 1
  /\ LET first == FirstOfRange(vaddr)
         count == EndOfRange(vaddr, size) - first
     IN  job' = IF count = 0 THEN Idle
                ELSE [left |-> count, v |-> first, p |-> p, perm |-> perm,
                      vaddr |-> vaddr, paddr |-> p, size |-> size]
  /\ UNCHANGED <<l1, l2, l3, l2Next, l3Next, panic>>

\* A slip: every page of a split block is backed by its first.
RepeatedPage(base) == [i \in 0..L3Size - 1 |-> Page(base, BootAttr)]

\* The 512 pages a block becomes, with the block's own attributes.
SplitBlock(base) == [i \in 0..L3Size - 1 |-> Page(base + i, BootAttr)]

FreshTable == [i \in 0..L3Size - 1 |-> None]

Panic(message) ==
  /\ panic' = message
  /\ job' = Idle
  /\ UNCHANGED <<l3, calls>>

\* A slip: a fresh L2 table whatever the L1 entry says.
NeedsL2Always(v) == TRUE

\* The L1 entry of the page is empty.
NeedsL2(v) == l1[L1Idx(v)] = None

\* The L2 table of the page after "Ensure L2 exists".
L2Of(v) == IF NeedsL2(v) THEN StaticL1 + l2Next ELSE l1[L1Idx(v)].at

\* The L2 table of the page is taken from the pool if its L1 entry is empty.
EnsureL2(v) ==
  IF NeedsL2(v)
  THEN /\ l1' = [l1 EXCEPT ![L1Idx(v)] = Table(StaticL1 + l2Next)]
       /\ l2Next' = l2Next + 1
  ELSE UNCHANGED <<l1, l2Next>>

\* The entry the walk finds in that table; a table just taken is zeroed.
L2Entry(v) == IF NeedsL2(v) THEN None ELSE l2[L2Of(v)][L2Idx(v)]

\* Write page v of L3 table k, which holds the pages old.
WritePage(k, old) ==
  l3' = [l3 EXCEPT ![k] = [old EXCEPT ![L3Idx(job.v)] = Page(job.p, job.perm)]]

\* A slip: the table taken is the one taken last.
LastTaken == IF l3Next = 0 THEN 0 ELSE l3Next - 1

\* The L3 table taken for an empty entry or a split.
Taken == l3Next

TakeL3(pages) ==
  /\ l3Next' = l3Next + 1
  /\ l2' = [l2 EXCEPT ![L2Of(job.v)][L2Idx(job.v)] = Table(Taken)]
  /\ WritePage(Taken, pages)

Advance == job' = IF job.left = 1 THEN Idle
                  ELSE [job EXCEPT !.left = @ - 1, !.v = @ + 1, !.p = @ + 1]

\* One turn of the loop for a page that L1_TABLE has no index for.
MapBeyondL1 ==
  /\ job.left > 0 /\ L1Idx(job.v) >= L1Size
  /\ job' = IF job.left = 1 THEN Idle ELSE [job EXCEPT !.left = @ - 1, !.v = @ + 1]
  /\ UNCHANGED <<l1, l2, l3, l2Next, l3Next, calls, panic>>

InRange == job.left > 0 /\ L1Idx(job.v) < L1Size

OutOfL2 ==
  /\ InRange /\ NeedsL2(job.v) /\ l2Next >= L2Pool
  /\ Panic("Out of L2 tables!")
  /\ UNCHANGED <<l1, l2, l2Next, l3Next>>

HasL2 == InRange /\ (NeedsL2(job.v) => l2Next < L2Pool)

\* The entry is empty: a zeroed L3 table is taken.
MapInNewTable ==
  /\ HasL2 /\ L2Entry(job.v) = None
  /\ EnsureL2(job.v)
  /\ IF l3Next >= L3Pool
     THEN Panic("Out of L3 tables!") /\ UNCHANGED <<l2, l3Next>>
     ELSE TakeL3(FreshTable) /\ Advance /\ UNCHANGED <<calls, panic>>

\* The entry is a block: it is split into a table of its pages.  The index is
\* counted up before it is tested.
MapInSplitBlock ==
  /\ HasL2 /\ L2Entry(job.v).kind = "block"
  /\ EnsureL2(job.v)
  /\ IF l3Next + 1 >= L3Pool
     THEN Panic("Out of L3 tables!") /\ l3Next' = l3Next + 1 /\ UNCHANGED l2
     ELSE TakeL3(SplitBlock(L2Entry(job.v).base)) /\ Advance /\ UNCHANGED <<calls, panic>>

\* The entry is a table already.
MapInTable ==
  /\ HasL2 /\ L2Entry(job.v).kind = "table"
  /\ WritePage(L2Entry(job.v).at, l3[L2Entry(job.v).at])
  /\ Advance
  /\ UNCHANGED <<l1, l2, l2Next, l3Next, calls, panic>>

\* Nothing more happens: the kernel is stopped, or the bound on calls reached.
Quiet ==
  /\ panic # "none" \/ (job.left = 0 /\ calls = MaxCalls)
  /\ UNCHANGED vars

Next ==
  \/ \E vaddr \in 0..L1Size * L1Pages * PageSize - 1, p \in PhysPages,
        size \in 0..MaxSize, perm \in Perms : MapRange(vaddr, p, size, perm)
  \/ MapBeyondL1 \/ OutOfL2 \/ MapInNewTable \/ MapInSplitBlock \/ MapInTable
  \/ Quiet

Spec == Init /\ [][Next]_vars

-----------------------------------------------------------------------------
(* Properties.                                                             *)

\* The walk the MMU does.
VirtualPages == 0..StaticL1 * L1Pages - 1

Translate(v) ==
  LET entry == l2[l1[L1Idx(v)].at][L2Idx(v)] IN
  CASE entry.kind = "none"  -> None
    [] entry.kind = "block" -> Page(entry.base + L3Idx(v), BootAttr)
    [] entry.kind = "table" -> l3[entry.at][L3Idx(v)]

Slots == {<<t, j>> : t \in L2Tables, j \in 0..L2Size - 1}
EntryAt(s) == l2[s[1]][s[2]]

\* The type invariant: every entry is one of its level's kinds, and the
\* static part of L1 is never changed.
TypeOK ==
  /\ \A i \in 0..L1Size - 1 : l1[i] = None \/ l1[i] \in {Table(t) : t \in L2Tables}
  /\ \A i \in 0..StaticL1 - 1 : l1[i] = Table(i)
  /\ \A s \in Slots : \/ EntryAt(s) = None
                      \/ EntryAt(s).kind = "block"
                      \/ EntryAt(s) \in {Table(k) : k \in L3Tables}
  /\ l2Next \in 0..L2Pool
  /\ l3Next \in 0..L3Pool \/ (l3Next = L3Pool + 1 /\ panic # "none")

\* No two entries share a table: mapping one page can not change what another
\* block's pages translate to, and a table in use is never handed out again.
TablesNotShared ==
  /\ \A i, k \in 0..L1Size - 1 : i # k /\ l1[i] # None => l1[i] # l1[k]
  /\ \A s, t \in Slots : s # t /\ EntryAt(s).kind = "table" => EntryAt(s) # EntryAt(t)
  /\ \A s \in Slots : EntryAt(s).kind = "table" => EntryAt(s).at < l3Next
  /\ \A i \in StaticL1..L1Size - 1 : l1[i] # None => l1[i].at < StaticL1 + l2Next

\* When a range is done, every byte asked for that the MMU can reach is in a
\* page backed by the right page of the run asked for, with the permission
\* asked for, across the ends of tables and blocks and from unaligned starts.
WholeRangeMapped ==
  [][ job.left = 1 /\ job'.left = 0 /\ panic' = "none" =>
        \A v \in {(job.vaddr + b) \div PageSize : b \in 0..job.size - 1} \cap VirtualPages :
          Translate(v)' = Page(job.paddr + v - FirstOfRange(job.vaddr), job.perm) ]_vars

\* Seen through the walk, map_range sets the pages it was asked for, in order,
\* and nothing else: taking a table and splitting a block are invisible.
Flat == INSTANCE AddressSpace WITH
          Pages <- VirtualPages, Entry <- Page,
          view <- [v \in VirtualPages |-> Translate(v)],
          todo <- [left |-> job.left, v |-> job.v, p |-> job.p, perm |-> job.perm]
RefinesAddressSpace == Flat!Spec
=============================================================================
