--------------------------- MODULE ProcessMemory ---------------------------
(***************************************************************************)
(* Who has which memory: the heap (heap.rs), the one translation of all    *)
(* processes (mmu.rs, as AddressSpace promises it), and the calls that     *)
(* take memory from the heap and map it for a program: mmap and            *)
(* shared_region_map_and_slide_np (process.rs) and the loader (macho.rs).  *)
(* The kernel uses the heap at its own address, and a program at the       *)
(* address it was given: the two meet, because mmap gives out addresses of *)
(* which the kernel maps the heap as well (0x70000000 is in the middle of  *)
(* the heap).  Addresses are counted in words of which a page has a few.   *)
(***************************************************************************)
EXTENDS Integers, FiniteSets, FiniteSetsExt, Functions

CONSTANTS
  PageWords,           \* words of a page
  HeapStart, HeapEnd,  \* words of the heap: 0x60000000 and 512 MiB on
  MmapStart,           \* 0x70000000
  LastPage,            \* bound on the addresses: those of 4 GiB
  Fixed,               \* where programs and the loader ask for memory to be
  Lens, Sizes,         \* lengths of mappings and of objects of the kernel
  MaxOwners            \* bound on the pieces of memory ever taken

ASSUME MemoryAssumption ==
  /\ {PageWords, LastPage, MaxOwners} \subseteq Nat \ {0}
  /\ HeapStart < MmapStart /\ MmapStart < HeapEnd /\ HeapEnd <= LastPage * PageWords
  /\ \A a \in {HeapStart, HeapEnd, MmapStart} : a \in Nat /\ a % PageWords = 0
  /\ Fixed \subseteq Nat /\ Lens \cup Sizes \subseteq Nat \ {0}

VARIABLES
  owners,    \* who has a piece of the heap: id -> [by, va, start, len]
  last,      \* the last id
  xlat,      \* the translation, page -> page
  mem,       \* the words of the heap
  nextMmap,  \* NEXT_MMAP
  top        \* the first word of the heap that was never in use (history)
vars == <<owners, last, xlat, mem, nextMmap, top>>

Pages     == 0..LastPage
HeapWords == HeapStart..HeapEnd - 1
Page(a)    == a \div PageWords
RoundUp(a) == ((a + PageWords - 1) \div PageWords) * PageWords

Init ==
  /\ owners = <<>> /\ last = 0 /\ xlat = [p \in Pages |-> p]
  /\ mem = [a \in HeapWords |-> 0] /\ nextMmap = MmapStart /\ top = HeapStart

-----------------------------------------------------------------------------
(* The allocator, an external crate: the first hole that is large enough.  *)

Words(o) == o.start..o.start + o.len - 1

Fits(len, align) ==
  {a \in HeapWords : /\ a % align = 0 /\ a + len <= HeapEnd
                     /\ \A o \in Range(owners) : Words(o) \cap (a..a + len - 1) = {}}

\* The piece is somebody's from now on: the kernel's, or a program's at an
\* address that mmap chose or that was asked for.
Give(by, va, start, len) ==
  /\ last < MaxOwners /\ last' = last + 1
  /\ owners' = [o \in DOMAIN owners \cup {last'} |->
                  IF o = last' THEN [by |-> by, va |-> va, start |-> start, len |-> len]
                  ELSE owners[o]]
  /\ top' = Max({top, start + len})

-----------------------------------------------------------------------------
(* The translation, and what is reached through it.                        *)

\* A slip: the physical pages are counted from the first page of all.
MapRangeFromZero(va, start, len) ==
  [p \in Pages |-> IF Page(va) <= p /\ p * PageWords < RoundUp(va + len)
                   THEN Page(start) + p ELSE xlat[p]]
\* map_range: the start is rounded down, the end up, and the piece begins at the
\* start of the first page also where the address does not.
MapRange(va, start, len) ==
  [p \in Pages |-> IF Page(va) <= p /\ p * PageWords < RoundUp(va + len)
                   THEN Page(start) + p - Page(va) ELSE xlat[p]]

Phys(map, a) == map[Page(a)] * PageWords + (a % PageWords)

\* Memory after a value was stored from va on.
Stored(contents, map, va, len, value) ==
  LET hit == {Phys(map, va + i) : i \in 0..len - 1}
  IN [a \in HeapWords |-> IF a \in hit THEN value ELSE contents[a]]

-----------------------------------------------------------------------------
(* The kernel's own objects, stacks and buffers.                           *)

KernelAlloc ==
  \E len \in Sizes :
    /\ Fits(len, 1) # {}
    /\ LET start == Min(Fits(len, 1))
       IN /\ Give("kernel", start, start, len)
          /\ mem' = Stored(mem, xlat, start, len, last')
    /\ UNCHANGED <<xlat, nextMmap>>

KernelFree ==
  /\ \E o \in DOMAIN owners :
       /\ owners[o].by = "kernel"
       /\ owners' = Restrict(owners, DOMAIN owners \ {o})
  /\ UNCHANGED <<last, xlat, mem, nextMmap, top>>

-----------------------------------------------------------------------------
(* Memory for programs: zeroed at the heap's address, mapped, and filled   *)
(* from the file, or by the program, at the program's address.             *)

Place(by, va, len) ==
  LET start  == Min(Fits(len, PageWords))
      zeroed == Stored(mem, xlat, start, len, 0)
  IN /\ Fits(len, PageWords) # {}
     /\ Page(va + len - 1) \in Pages                  \* bound
     /\ Give(by, va, start, len)
     /\ xlat' = MapRange(va, start, len)
     /\ mem' = Stored(zeroed, xlat', va, len, last')

\* A slip: the next mapping starts where the last one ended.
MmapStepExact(len) == len
MmapStep(len) == RoundUp(len)

\* mmap with no address; the address is used up even if there is no memory.
MmapAnywhere ==
  \E len \in Lens :
    /\ nextMmap' = nextMmap + MmapStep(len)
    /\ \/ Place("mmap", nextMmap, len)
       \/ /\ Fits(len, PageWords) = {} /\ Page(nextMmap') \in Pages  \* ENOMEM
          /\ UNCHANGED <<owners, last, xlat, mem, top>>

\* mmap with an address, a segment of the shared region or of a program: any
\* address, in the middle of a page, in the heap, or where mmap will come to.
\* With no memory left mmap changes nothing, and the loader stops the kernel.
PlaceFixed ==
  /\ \E va \in Fixed, len \in Lens : Place("fixed", va, len)
  /\ UNCHANGED nextMmap

Next == KernelAlloc \/ KernelFree \/ MmapAnywhere \/ PlaceFixed

Spec == Init /\ [][Next]_vars

-----------------------------------------------------------------------------
TypeOK ==
  /\ last \in 0..MaxOwners /\ DOMAIN owners \subseteq 1..last
  /\ xlat \in [Pages -> Pages] /\ DOMAIN mem = HeapWords /\ Range(mem) \subseteq 0..last
  /\ nextMmap >= MmapStart /\ top \in HeapStart..HeapEnd

Area(o) == Page(owners[o].va)..Page(owners[o].va + owners[o].len - 1)

\* Replaced: mapped over since, by a program that chose one of the two addresses.
Replaced(o) ==
  \E q \in DOMAIN owners :
    /\ q > o /\ owners[q].by # "kernel" /\ Area(q) \cap Area(o) # {}
    /\ "fixed" \in {owners[o].by, owners[q].by}

\* So far programs have asked for whole pages, and no page of theirs has, at its
\* own address, a word of the heap that was ever in use.
PlacedApart ==
  \A o \in DOMAIN owners : owners[o].by # "kernel" =>
    /\ owners[o].by = "fixed" => owners[o].va % PageWords = 0
    /\ \A a \in HeapStart..top - 1 : Page(a) \notin Area(o)

\* Until a program is given a page that the kernel uses the heap by, as mmap's
\* own addresses are once the heap has grown to them, or asks for the middle of a
\* page, all that the kernel and the programs have put into their memory is what
\* they find there (process.rs:523-541, 828-870, macho.rs:216-251).  No call takes
\* a page or an address away from another but where a program chose the address.
OwnersKeepTheirWords ==
  PlacedApart =>
    \A o \in DOMAIN owners :
      Replaced(o) \/ \A i \in 0..owners[o].len - 1 :
                        mem[Phys(xlat, owners[o].va + i)] = o
=============================================================================
