--------------------------- MODULE VirtioBlkProofs ---------------------------
(***************************************************************************)
(* Proofs about module VirtioBlk, for any queue of at least three          *)
(* descriptors, any width of the ring indices the queue divides, any       *)
(* sector size, disk and places of buffers, and any answers of the device. *)
(***************************************************************************)
EXTENDS VirtioBlk, SequenceTheorems, TLAPS

Table   == 0..QueueSize - 1
Indices == 0..IdxMod - 1
Descriptors == [what : {"none", "req", "data", "status"}, slot : Slots \cup {Junk},
                len : Nat, next : Table]

DescTyped ==
  /\ desc \in [Table -> Descriptors]
  /\ \A i \in Table : desc[i].what = "data" => desc[i].slot \in Slots
  /\ \A i \in Table : desc[i].what # "none" => req \in Nat

RingTyped ==
  /\ nextDesc \in Table /\ seen \in Indices /\ used \in Indices /\ lastUsed \in Indices
  /\ avail \in [ring : [Table -> Table], idx : Indices]

RestTyped ==
  /\ inflight \subseteq Requests /\ mem \in [Slots -> Seq(Int)]
  /\ status \in {Junk, 0, 1, 255} /\ phase \in {"idle", "polling"} /\ broken \in BOOLEAN
  /\ timeouts \in 0..MaxTimeouts + 1
  /\ phase = "polling" =>
       /\ timeouts <= MaxTimeouts
       /\ call \in [offset : Nat, len : Nat \ {0}, slot : Slots]

\* The request of the read in progress, as the device should see it, and the
\* bytes it should leave in the buffer.
Length    == DmaLen(call.offset, call.len)
Wanted    == [sector |-> StartSector(call.offset), slot |-> call.slot, len |-> Length,
              nr |-> lastUsed]
DiskBytes == Bytes(StartSector(call.offset) * SectorSize, Length)

\* The three descriptors in the table at h are those of the read in progress.
ChainAt(h) ==
  /\ desc[h].what = "req" /\ desc[h].next = After(h)
  /\ desc[After(h)].what = "data" /\ desc[After(h)].next = After(After(h))
  /\ desc[After(h)].slot = call.slot /\ desc[After(h)].len = Length
  /\ desc[After(After(h))].what = "status"

\* Where the request is while the driver polls: in the ring, with the device, or
\* answered.
InRing ==
  /\ seen = lastUsed /\ used = lastUsed /\ inflight = {} /\ status = 255
  /\ ChainAt(Head0) /\ req = StartSector(call.offset)
WithDevice ==
  /\ seen = avail.idx /\ used = lastUsed /\ inflight = {Wanted} /\ status = 255
Done ==
  /\ seen = avail.idx /\ used = avail.idx /\ inflight = {}
  /\ status = 0 => mem[call.slot] = DiskBytes

\* As long as no read has timed out.
InStep ==
  timeouts = 0 =>
    /\ ~broken
    /\ phase = "idle" =>
         /\ inflight = {} /\ seen = avail.idx /\ used = avail.idx /\ lastUsed = avail.idx
         /\ result.ok => result.bytes = Bytes(call.offset, call.len)
    /\ phase = "polling" =>
         /\ NextIdx(lastUsed) = avail.idx
         /\ Len(mem[call.slot]) <= Length
         /\ InRing \/ WithDevice \/ Done

\* The inductive invariant.
IInv == DescTyped /\ RingTyped /\ RestTyped /\ InStep /\ (status = 0 => answered)

-----------------------------------------------------------------------------
(* Arithmetic.                                                             *)

\* The assumption on the constants, part by part.
LEMMA Constants ==
  /\ QueueSize \in Nat /\ QueueSize >= 3 /\ SectorSize \in Nat \ {0}
  /\ IdxMod \in Nat \ {0} /\ IdxMod % QueueSize = 0 /\ IdxMod >= 2
  /\ DiskSectors \in Nat /\ MaxLen \in Nat \ {0} /\ MaxTimeouts \in Nat
<1>1. QueueSize \in Nat /\ QueueSize >= 3 /\ IdxMod \in Nat \ {0} /\ IdxMod % QueueSize = 0
  BY VirtioAssumption
<1>2. IdxMod >= 2
  BY <1>1
<1> QED
  BY <1>1, <1>2, VirtioAssumption

\* The index after one of k, round the table or the ring.
LEMMA NextInRange ==
  ASSUME NEW k \in Nat, k >= 2, NEW i \in 0..k - 1
  PROVE  (i + 1) % k \in 0..k - 1 /\ (i + 1) % k = IF i = k - 1 THEN 0 ELSE i + 1
OBVIOUS

\* An index of the rings names an entry of the table.
LEMMA EntryInTable ==
  ASSUME NEW i \in Nat
  PROVE  i % QueueSize \in Table
BY Constants DEF Table

\* The three descriptors of a chain are different ones of the table.
LEMMA AfterProperties ==
  ASSUME NEW h \in Table
  PROVE  /\ After(h) \in Table /\ After(After(h)) \in Table
         /\ h # After(h) /\ h # After(After(h)) /\ After(h) # After(After(h))
<1>1. ASSUME NEW i \in Table
      PROVE  After(i) \in Table /\ After(i) = IF i = QueueSize - 1 THEN 0 ELSE i + 1
  <2>1. QueueSize \in Nat /\ QueueSize >= 2
    BY Constants
  <2> QED
    BY <2>1, NextInRange DEF After, Table
<1> QED
  BY <1>1, Constants DEF Table

\* The next ring index is another one.
LEMMA NextIdxProperties ==
  ASSUME NEW i \in Indices
  PROVE  NextIdx(i) \in Indices /\ NextIdx(i) # i
<1>1. NextIdx(i) \in Indices /\ NextIdx(i) = IF i = IdxMod - 1 THEN 0 ELSE i + 1
  BY Constants, NextInRange DEF NextIdx, Indices
<1> QED
  BY <1>1, Constants DEF Indices

\* Division leaves less than the divisor.
LEMMA DivMod ==
  ASSUME NEW v \in Nat, NEW k \in Nat \ {0}
  PROVE  v \div k \in Nat /\ v % k \in 0..k - 1 /\ v = k * (v \div k) + (v % k)
OBVIOUS

\* Multiplication over a difference, and a product of natural numbers.
LEMMA Product ==
  ASSUME NEW a \in Nat, NEW b \in Nat, NEW k \in Nat, a <= b
  PROVE  (b - a) * k \in Nat /\ (b - a) * k = k * b - k * a /\ a * k = k * a /\ k * a \in Nat
OBVIOUS

\* The sectors a read covers begin at or before its first byte and end at or
\* after its last one.
LEMMA SectorsCover ==
  ASSUME NEW offset \in Nat, NEW len \in Nat \ {0}
  PROVE  /\ StartSector(offset) \in Nat /\ DmaLen(offset, len) \in Nat
         /\ offset % SectorSize \in Nat
         /\ offset = StartSector(offset) * SectorSize + (offset % SectorSize)
         /\ (offset % SectorSize) + len <= DmaLen(offset, len)
<1> DEFINE k == SectorSize
           s == offset \div k
           r == offset % k
           x == offset + len + k - 1
           e == x \div k
           t == x % k
<1>1. k \in Nat \ {0} /\ x \in Nat /\ offset <= x
  BY Constants
<1>2. s \in Nat /\ r \in 0..k - 1 /\ offset = k * s + r
  BY <1>1, DivMod
<1>3. e \in Nat /\ t \in 0..k - 1 /\ x = k * e + t
  <2> HIDE DEF x
  <2> QED
    BY <1>1, DivMod
<1>4. s <= e
  <2> HIDE DEF x
  <2> QED
    BY <1>1
<1>5. /\ (e - s) * k \in Nat /\ (e - s) * k = k * e - k * s
      /\ s * k = k * s /\ k * s \in Nat /\ k * e \in Nat
  <2> HIDE DEF s, e
  <2>1. (e - s) * k \in Nat /\ (e - s) * k = k * e - k * s /\ s * k = k * s /\ k * s \in Nat
    BY <1>1, <1>2, <1>3, <1>4, Product
  <2>2. k * e \in Nat
    BY <1>1, <1>3, Product
  <2> QED
    BY <2>1, <2>2
<1>6. r + len <= (e - s) * k /\ offset = s * k + r
  <2> DEFINE ks == k * s
             ke == k * e
  <2>1. offset = ks + r /\ offset + len + k - 1 = ke + t /\ ks \in Nat /\ ke \in Nat
    BY <1>2, <1>3, <1>5
  <2>2. (e - s) * k = ke - ks /\ s * k = ks
    BY <1>5
  <2> HIDE DEF ks, ke, s, e, r, t
  <2>3. r + len <= ke - ks
    BY <1>1, <1>2, <1>3, <2>1
  <2> QED
    BY <2>1, <2>2, <2>3
<1> QED
  BY <1>2, <1>5, <1>6 DEF StartSector, EndSector, DmaLen

-----------------------------------------------------------------------------
(* Buffers.                                                                *)

\* The bytes of the disk from first on.
LEMMA BytesProperties ==
  ASSUME NEW first \in Int, NEW n \in Nat
  PROVE  /\ Bytes(first, n) \in Seq(Int) /\ Len(Bytes(first, n)) = n
         /\ Bytes(first, n) = [i \in 1..n |-> first + i - 1]
<1>1. Bytes(first, n) = [i \in 1..n |-> first + i - 1]
  BY DEF Bytes
<1>2. Bytes(first, n) \in [1..n -> Int]
  BY <1>1
<1>3. Bytes(first, n) \in Seq(Int)
  BY <1>2, SeqDef
<1>4. Len(Bytes(first, n)) = n
  BY <1>2, <1>3, LenProperties
<1> QED
  BY <1>1, <1>3, <1>4

\* What the device writes covers the buffer when it is at least as long.
LEMMA DmaProperties ==
  ASSUME NEW old \in Seq(Int), NEW new \in Seq(Int)
  PROVE  /\ Dma(old, new) \in Seq(Int)
         /\ Len(old) <= Len(new) => Dma(old, new) = new
<1> DEFINE n == IF Len(old) > Len(new) THEN Len(old) ELSE Len(new)
<1>1. Len(old) \in Nat /\ Len(new) \in Nat /\ old \in [1..Len(old) -> Int] /\ new \in [1..Len(new) -> Int]
  BY LenProperties
<1>2. Dma(old, new) = [i \in 1..n |-> IF i <= Len(new) THEN new[i] ELSE old[i]]
  BY DEF Dma
<1>3. \A i \in 1..n : (IF i <= Len(new) THEN new[i] ELSE old[i]) \in Int
  BY <1>1
<1>4. n \in Nat /\ Dma(old, new) \in [1..n -> Int]
  BY <1>1, <1>2, <1>3
<1>5. Dma(old, new) \in Seq(Int)
  <2> HIDE DEF n
  <2> QED
    BY <1>4, SeqDef
<1>6. ASSUME Len(old) <= Len(new) PROVE Dma(old, new) = new
  <2>1. n = Len(new)
    <3>1. ~(Len(old) > Len(new))
      <4> DEFINE lo == Len(old)
                 ln == Len(new)
      <4>1. lo \in Nat /\ ln \in Nat /\ lo <= ln
        BY <1>1, <1>6
      <4> HIDE DEF lo, ln
      <4>2. ~(lo > ln)
        BY <4>1
      <4> QED
        BY <4>2 DEF lo, ln
    <3> QED
      BY <3>1
  <2>2. \A i \in 1..Len(new) : Dma(old, new)[i] = new[i]
    <3> HIDE DEF n
    <3> QED
      BY <1>1, <1>2, <2>1
  <2> HIDE DEF n
  <2> QED
    BY <1>1, <1>4, <2>1, <2>2
<1> QED
  BY <1>5, <1>6

\* read_at copies the bytes it was asked for out of the sectors it read.
LEMMA CopiedBytes ==
  ASSUME NEW offset \in Nat, NEW len \in Nat \ {0}
  PROVE  SubSeq(Bytes(StartSector(offset) * SectorSize, DmaLen(offset, len)),
                (offset % SectorSize) + 1, (offset % SectorSize) + len) = Bytes(offset, len)
<1> DEFINE f == StartSector(offset) * SectorSize
           r == offset % SectorSize
           n == DmaLen(offset, len)
           b == Bytes(f, n)
           s == SubSeq(b, r + 1, r + len)
<1>1. r \in Nat /\ n \in Nat /\ r + len <= n /\ offset = f + r
  BY SectorsCover
<1>2. f \in Nat
  <2>1. StartSector(offset) \in Nat /\ SectorSize \in Nat
    BY SectorsCover, Constants
  <2> QED
    BY <2>1, Product
<1> HIDE DEF f, r, n
<1>3. b = [i \in 1..n |-> f + i - 1] /\ b \in Seq(Int)
  BY <1>1, <1>2, BytesProperties
<1> HIDE DEF b
<1>4. \A i \in (r + 1)..(r + len) : b[i] \in Int
  BY <1>1, <1>2, <1>3
<1>5. r + 1 \in Int /\ r + len \in Int
  BY <1>1
<1>6. /\ s \in Seq(Int)
      /\ Len(s) = IF r + 1 <= r + len THEN (r + len) - (r + 1) + 1 ELSE 0
      /\ \A i \in 1..(r + len) - (r + 1) + 1 : s[i] = b[(r + 1) + i - 1]
  BY <1>4, <1>5, SubSeqProperties
<1> HIDE DEF s
<1>7. Len(s) = len /\ \A i \in 1..len : s[i] = b[r + i]
  BY <1>1, <1>6
<1>8. s \in [1..len -> Int]
  BY <1>6, <1>7, LenProperties
<1>9. \A i \in 1..len : s[i] = offset + i - 1
  <2>1. ASSUME NEW i \in 1..len PROVE b[r + i] = offset + i - 1
    <3>1. r + i \in 1..n
      BY <1>1
    <3>2. b[r + i] = f + (r + i) - 1
      BY <1>3, <3>1
    <3> QED
      BY <1>1, <1>2, <3>2
  <2> QED
    BY <1>7, <2>1
<1>10. Bytes(offset, len) = [i \in 1..len |-> offset + i - 1]
  BY DEF Bytes
<1>11. s = Bytes(offset, len)
  BY <1>8, <1>9, <1>10
<1> QED
  BY <1>11 DEF s, b, f, n, r

-----------------------------------------------------------------------------
(* The driver.                                                             *)

\* A request's chain in the table, its three descriptors linked.
LEMMA ChainProperties ==
  ASSUME desc \in [Table -> Descriptors], NEW h \in Table, NEW slot \in Slots, NEW n \in Nat,
         NEW c, c = Chain(h, slot, n)
  PROVE  /\ c \in [Table -> Descriptors]
         /\ c[h].what = "req" /\ c[h].next = After(h)
         /\ c[After(h)].what = "data" /\ c[After(h)].next = After(After(h))
         /\ c[After(h)].slot = slot /\ c[After(h)].len = n
         /\ c[After(After(h))].what = "status"
         /\ \A i \in Table \ {h, After(h), After(After(h))} : c[i] = desc[i]
<1> DEFINE a == After(h)
           b == After(After(h))
           x == [what |-> "req", slot |-> Junk, len |-> 0, next |-> a]
           y == [what |-> "data", slot |-> slot, len |-> n, next |-> b]
           z == [what |-> "status", slot |-> Junk, len |-> 1, next |-> 0]
<1>1. a \in Table /\ b \in Table /\ h # a /\ h # b /\ a # b /\ 0 \in Table
  BY AfterProperties, Constants DEF Table
<1>2. c = [desc EXCEPT ![h] = x, ![a] = y, ![b] = z]
  BY DEF Chain
<1>3. x.what = "req" /\ x.next = a /\ y.what = "data" /\ y.next = b /\ y.slot = slot /\ y.len = n
      /\ z.what = "status"
  OBVIOUS
<1> HIDE DEF a, b
<1>4. x \in Descriptors /\ y \in Descriptors /\ z \in Descriptors
  BY <1>1 DEF Descriptors
<1> HIDE DEF x, y, z
<1>5. /\ c \in [Table -> Descriptors] /\ c[h] = x /\ c[a] = y /\ c[b] = z
      /\ \A i \in Table \ {h, a, b} : c[i] = desc[i]
  BY <1>1, <1>2, <1>4
<1> QED
  BY <1>3, <1>5 DEF a, b

\* A new request is in the ring for the device to find.
LEMMA SubmitKeeps ==
  ASSUME IInv, NEW offset \in Nat, NEW len \in Nat \ {0}, NEW slot \in Slots,
         Submit(offset, len, slot)
  PROVE  IInv'
<1> DEFINE n == DmaLen(offset, len)
<1>1. n \in Nat /\ StartSector(offset) \in Nat
  BY SectorsCover
<1>2. /\ call' = [offset |-> offset, len |-> len, slot |-> slot]
      /\ call'.offset = offset /\ call'.len = len /\ call'.slot = slot
  BY DEF Submit
<1>3. /\ desc' = Chain(nextDesc, slot, n) /\ nextDesc' = SkipChain(nextDesc)
      /\ avail' = [ring |-> [avail.ring EXCEPT ![avail.idx % QueueSize] = nextDesc],
                   idx  |-> NextIdx(avail.idx)]
      /\ req' = StartSector(offset) /\ status' = 255
      /\ mem' = [mem EXCEPT ![slot] = [i \in 1..n |-> Junk]]
      /\ phase = "idle" /\ phase' = "polling" /\ timeouts <= MaxTimeouts
      /\ UNCHANGED <<lastUsed, timeouts, used, seen, inflight, broken>>
  BY DEF Submit, NewStatus, deviceVars
<1>4. /\ nextDesc \in Table /\ avail.idx \in Indices /\ avail.ring \in [Table -> Table]
      /\ avail.idx % QueueSize \in Table
  <2>1. nextDesc \in Table /\ avail.idx \in Indices /\ avail.ring \in [Table -> Table]
    BY DEF IInv, RingTyped
  <2>2. avail.idx \in Nat
    BY <2>1 DEF Indices
  <2> QED
    BY <2>1, <2>2, EntryInTable
<1> DEFINE h == nextDesc
<1>5. /\ desc' \in [Table -> Descriptors]
      /\ desc'[h].what = "req" /\ desc'[h].next = After(h)
      /\ desc'[After(h)].what = "data" /\ desc'[After(h)].next = After(After(h))
      /\ desc'[After(h)].slot = slot /\ desc'[After(h)].len = n
      /\ desc'[After(After(h))].what = "status"
      /\ \A i \in Table \ {h, After(h), After(After(h))} : desc'[i] = desc[i]
  <2>1. desc \in [Table -> Descriptors]
    BY DEF IInv, DescTyped
  <2> HIDE DEF n
  <2> QED
    BY <1>1, <1>3, <1>4, <2>1, ChainProperties
<1>6. DescTyped'
  <2>1. \A i \in Table : desc[i].what = "data" => desc[i].slot \in Slots
    BY DEF IInv, DescTyped
  <2>2. \A i \in Table : desc'[i].what = "data" => desc'[i].slot \in Slots
    <3> HIDE DEF n
    <3> QED
      BY <1>5, <2>1
  <2> QED
    BY <1>1, <1>3, <1>5, <2>2 DEF DescTyped
<1>7. RingTyped'
  <2>1. SkipChain(h) \in Table
    BY <1>4, AfterProperties DEF SkipChain
  <2>2. NextIdx(avail.idx) \in Indices
    BY <1>4, NextIdxProperties
  <2>3. [avail.ring EXCEPT ![avail.idx % QueueSize] = h] \in [Table -> Table]
    BY <1>4
  <2>4. avail' \in [ring : [Table -> Table], idx : Indices]
    BY <1>3, <2>2, <2>3
  <2> QED
    BY <1>3, <2>1, <2>4 DEF RingTyped, IInv
<1>8. [i \in 1..n |-> Junk] \in Seq(Int) /\ Len([i \in 1..n |-> Junk]) = n
  <2>1. [i \in 1..n |-> Junk] \in [1..n -> Int]
    BY DEF Junk
  <2> HIDE DEF n
  <2>2. [i \in 1..n |-> Junk] \in Seq(Int)
    BY <1>1, <2>1, SeqDef
  <2> QED
    BY <1>1, <2>1, <2>2, LenProperties
<1>9. mem \in [Slots -> Seq(Int)] /\ mem' \in [Slots -> Seq(Int)] /\ Len(mem'[slot]) = n
  <2>1. mem \in [Slots -> Seq(Int)]
    BY DEF IInv, RestTyped
  <2> DEFINE z == [i \in 1..n |-> Junk]
  <2>2. mem' = [mem EXCEPT ![slot] = z] /\ z \in Seq(Int) /\ Len(z) = n
    BY <1>3, <1>8
  <2> HIDE DEF z, n
  <2> QED
    BY <2>1, <2>2
<1>10. RestTyped'
  <2>1. timeouts' <= MaxTimeouts' /\ call' \in [offset : Nat, len : Nat \ {0}, slot : Slots]
    BY <1>2, <1>3
  <2> QED
    BY <1>3, <1>9, <2>1 DEF RestTyped, IInv
<1>11. InStep'
  <2> SUFFICES ASSUME timeouts = 0 PROVE InStep'
    BY <1>3 DEF InStep
  <2>1. /\ ~broken /\ inflight = {} /\ seen = avail.idx /\ used = avail.idx /\ lastUsed = avail.idx
    BY <1>3 DEF IInv, InStep
  <2>2. avail'.idx = NextIdx(avail.idx)
    BY <1>3
  <2>3. Length' = n
    BY <1>2 DEF Length
  <2>4. Head0' = h
    <3>1. avail'.ring = [avail.ring EXCEPT ![avail.idx % QueueSize] = h] /\ seen' = avail.idx
      BY <1>3, <2>1
    <3> QED
      BY <1>4, <3>1 DEF Head0
  <2>5. ChainAt(Head0)'
    <3> HIDE DEF n, h
    <3> QED
      BY <1>2, <1>5, <2>3, <2>4 DEF ChainAt
  <2>6. InRing'
    BY <1>2, <1>3, <2>1, <2>5 DEF InRing
  <2>7. Len(mem'[call'.slot]) <= Length'
    <3> HIDE DEF n
    <3> QED
      BY <1>1, <1>2, <1>9, <2>3
  <2> QED
    BY <1>3, <2>1, <2>2, <2>6, <2>7 DEF InStep
<1> QED
  BY <1>3, <1>6, <1>7, <1>10, <1>11 DEF IInv

\* Whatever the read returns, the buffer goes back and the driver is idle.
LEMMA ReturnKeeps ==
  ASSUME IInv, PollDone \/ PollTimeout
  PROVE  DescTyped' /\ RingTyped' /\ RestTyped' /\ (status' = 0 => answered')
<1>1. /\ phase = "polling" /\ phase' = "idle" /\ mem' = [mem EXCEPT ![call.slot] = <<>>]
      /\ UNCHANGED <<desc, nextDesc, avail, req, used, status, answered, seen, inflight, broken>>
      /\ lastUsed' \in {lastUsed, used} /\ timeouts' \in {timeouts, timeouts + 1}
  BY DEF PollDone, PollTimeout, UsedSeen, deviceVars
<1>2. timeouts \in 0..MaxTimeouts + 1 /\ timeouts <= MaxTimeouts /\ MaxTimeouts \in Nat
  BY <1>1, Constants DEF IInv, RestTyped
<1>3. mem' \in [Slots -> Seq(Int)]
  <2>1. mem \in [Slots -> Seq(Int)] /\ <<>> \in Seq(Int)
    BY EmptySeq DEF IInv, RestTyped
  <2> QED
    BY <1>1, <2>1
<1>4. timeouts' \in 0..MaxTimeouts + 1
  BY <1>1, <1>2
<1> QED
  BY <1>1, <1>3, <1>4 DEF IInv, DescTyped, RingTyped, RestTyped

\* A read that is over returns the bytes it was asked for, if the device said
\* so, and leaves the rings empty.
LEMMA PollDoneKeeps ==
  ASSUME IInv, PollDone
  PROVE  IInv'
<1>1. /\ phase = "polling" /\ used # lastUsed /\ lastUsed' = used /\ phase' = "idle"
      /\ result' = [ok |-> StatusOk, bytes |-> IF StatusOk THEN Copied(mem[call.slot]) ELSE <<>>]
      /\ UNCHANGED <<call, timeouts, avail, used, seen, inflight, broken>>
  BY DEF PollDone, UsedSeen, deviceVars
<1>2. InStep'
  <2> SUFFICES ASSUME timeouts = 0 PROVE InStep'
    BY <1>1 DEF InStep
  <2>1. ~broken /\ Done
    BY <1>1 DEF IInv, InStep, InRing, WithDevice
  <2>2. inflight = {} /\ seen = avail.idx /\ used = avail.idx
    BY <2>1 DEF Done
  <2>3. ASSUME result'.ok PROVE result'.bytes = Bytes(call.offset, call.len)
    <3>1. status = 0
      BY <1>1, <2>3 DEF StatusOk
    <3>2. result'.bytes = Copied(DiskBytes)
      BY <1>1, <2>1, <3>1 DEF StatusOk, Done
    <3>3. call.offset \in Nat /\ call.len \in Nat \ {0}
      BY <1>1 DEF IInv, RestTyped
    <3> QED
      BY <3>2, <3>3, CopiedBytes DEF Copied, DiskBytes, Length
  <2> QED
    BY <1>1, <2>1, <2>2, <2>3 DEF InStep
<1> QED
  BY <1>2, ReturnKeeps DEF IInv

\* A read that is given up counts.
LEMMA PollTimeoutKeeps ==
  ASSUME IInv, PollTimeout
  PROVE  IInv'
<1>1. timeouts' = timeouts + 1 /\ timeouts \in Nat
  BY Constants DEF PollTimeout, IInv, RestTyped
<1>2. InStep'
  BY <1>1 DEF InStep
<1> QED
  BY <1>2, ReturnKeeps DEF IInv

-----------------------------------------------------------------------------
(* The device.                                                             *)

\* The device fetches the request in the ring and no other.
LEMMA FetchKeeps ==
  ASSUME IInv, DeviceFetch
  PROVE  IInv'
<1>1. /\ seen # avail.idx /\ seen' = NextIdx(seen) /\ UNCHANGED driverVars /\ UNCHANGED sharedVars
      /\ ~broken /\ broken' \in BOOLEAN
  BY DEF DeviceFetch, IInv, RestTyped
<1> DEFINE h == Head0
           d == desc[desc[h].next]
           r == [sector |-> req, slot |-> d.slot, len |-> d.len, nr |-> seen]
<1>2. /\ seen \in Indices /\ NextIdx(seen) \in Indices /\ h \in Table
      /\ desc \in [Table -> Descriptors]
  <2>1. seen \in Indices /\ avail.ring \in [Table -> Table]
    BY DEF IInv, RingTyped
  <2>2. seen \in Nat
    BY <2>1 DEF Indices
  <2>3. seen % QueueSize \in Table
    BY <2>2, EntryInTable
  <2> QED
    BY <2>1, <2>3, NextIdxProperties DEF Head0, IInv, DescTyped
<1>3. ASSUME WellFormed(h)
      PROVE  r \in Requests
  <2>1. desc[h].what = "req" /\ d.what = "data"
    BY <1>3 DEF WellFormed
  <2>2. desc[h].next \in Table
    BY <1>2 DEF Descriptors
  <2>3. d \in Descriptors /\ d.slot \in Slots
    BY <1>2, <2>1, <2>2 DEF IInv, DescTyped
  <2>4. req \in Nat
    BY <1>2, <2>1 DEF IInv, DescTyped
  <2>5. d.len \in Nat
    BY <2>3 DEF Descriptors
  <2> HIDE DEF d
  <2> QED
    BY <1>2, <2>3, <2>4, <2>5 DEF Requests, Indices
<1>4. inflight' = IF WellFormed(h) THEN inflight \cup {r} ELSE inflight
  BY DEF DeviceFetch
<1>5. inflight' \subseteq Requests
  <2>1. inflight \subseteq Requests
    BY DEF IInv, RestTyped
  <2> HIDE DEF r, h
  <2> QED
    BY <1>3, <1>4, <2>1
<1>6. DescTyped' /\ RingTyped' /\ RestTyped' /\ (status' = 0 => answered')
  BY <1>1, <1>2, <1>5 DEF IInv, DescTyped, RingTyped, RestTyped, driverVars, sharedVars
<1>7. InStep'
  <2> SUFFICES ASSUME timeouts = 0 PROVE InStep'
    BY <1>1 DEF InStep, driverVars
  <2>1. /\ phase = "polling" /\ InRing /\ NextIdx(lastUsed) = avail.idx
        /\ Len(mem[call.slot]) <= Length
    BY <1>1 DEF IInv, InStep, RestTyped, WithDevice, Done
  <2>2. WellFormed(h) /\ d.slot = call.slot /\ d.len = Length
    BY <2>1 DEF InRing, ChainAt, WellFormed
  <2>3. r = Wanted
    BY <2>1, <2>2 DEF InRing, Wanted
  <2>4. inflight' = {Wanted} /\ broken' = broken
    <3>1. inflight = {}
      BY <2>1 DEF InRing
    <3> HIDE DEF r
    <3> QED
      BY <1>4, <2>2, <2>3, <3>1 DEF DeviceFetch
  <2>5. Wanted' = Wanted /\ Length' = Length
    BY <1>1 DEF Wanted, Length, driverVars
  <2>6. WithDevice'
    BY <1>1, <2>1, <2>4, <2>5 DEF WithDevice, InRing, driverVars, sharedVars
  <2>7. /\ phase' = "polling" /\ NextIdx(lastUsed') = avail'.idx /\ ~broken'
        /\ Len(mem'[call'.slot]) <= Length'
    BY <1>1, <2>1, <2>4, <2>5 DEF driverVars, sharedVars
  <2> QED
    BY <2>6, <2>7 DEF InStep
<1> QED
  BY <1>6, <1>7 DEF IInv

\* The device answers the request it has: with its sectors, or with an error.
LEMMA CompleteKeeps ==
  ASSUME IInv, NEW r \in inflight, DeviceComplete(r)
  PROVE  IInv'
<1> DEFINE b == Bytes(r.sector * SectorSize, r.len)
<1>1. /\ inflight' = inflight \ {r} /\ used' = NextIdx(used) /\ UNCHANGED driverVars
      /\ UNCHANGED <<seen, broken>>
  BY DEF DeviceComplete
<1>2. \/ status' = 0 /\ answered' = TRUE /\ mem' = [mem EXCEPT ![r.slot] = Dma(mem[r.slot], b)]
      \/ status' = 1 /\ mem' = mem
  BY DEF DeviceComplete
<1>3. /\ inflight \subseteq Requests /\ r.slot \in Slots /\ r.sector \in Nat /\ r.len \in Nat
      /\ mem \in [Slots -> Seq(Int)]
  BY DEF IInv, RestTyped, Requests
<1>4. b \in Seq(Int) /\ Len(b) = r.len
  <2>1. r.sector * SectorSize \in Nat
    BY <1>3, Constants, Product
  <2> DEFINE f == r.sector * SectorSize
  <2>2. f \in Int /\ r.len \in Nat
    BY <1>3, <2>1
  <2> HIDE DEF f
  <2>3. Bytes(f, r.len) \in Seq(Int) /\ Len(Bytes(f, r.len)) = r.len
    BY <2>2, BytesProperties
  <2> QED
    BY <2>3 DEF f
<1> HIDE DEF b
<1>5. /\ mem[r.slot] \in Seq(Int) /\ Dma(mem[r.slot], b) \in Seq(Int)
      /\ Len(mem[r.slot]) <= Len(b) => Dma(mem[r.slot], b) = b
  BY <1>3, <1>4, DmaProperties
<1>6. mem' \in [Slots -> Seq(Int)]
  BY <1>2, <1>3, <1>5
<1>7. NextIdx(used) \in Indices
  BY NextIdxProperties DEF IInv, RingTyped
<1>8. DescTyped' /\ RingTyped' /\ RestTyped' /\ (status' = 0 => answered')
  <2>1. DescTyped'
    BY <1>1 DEF IInv, DescTyped, driverVars
  <2>2. RingTyped'
    BY <1>1, <1>7 DEF IInv, RingTyped, driverVars
  <2>3. inflight' \subseteq Requests /\ status' \in {0, 1}
    BY <1>1, <1>2, <1>3
  <2>4. RestTyped'
    BY <1>1, <1>6, <2>3 DEF IInv, RestTyped, driverVars
  <2> QED
    BY <1>2, <2>1, <2>2, <2>4
<1>9. InStep'
  <2> SUFFICES ASSUME timeouts = 0 PROVE InStep'
    BY <1>1 DEF InStep, driverVars
  <2>1. /\ phase = "polling" /\ WithDevice /\ NextIdx(lastUsed) = avail.idx /\ ~broken
        /\ Len(mem[call.slot]) <= Length
    BY DEF IInv, InStep, RestTyped, InRing, Done
  <2>2. r = Wanted /\ inflight' = {}
    BY <1>1, <2>1 DEF WithDevice
  <2>3. r.slot = call.slot /\ r.len = Length /\ b = DiskBytes
    BY <2>2 DEF Wanted, DiskBytes, b
  <2>4. /\ status' = 0 => mem'[call.slot] = DiskBytes
        /\ Len(mem'[call.slot]) <= Length
    <3>1. CASE status' = 0
      <4>1. mem' = [mem EXCEPT ![r.slot] = Dma(mem[r.slot], b)] /\ Dma(mem[r.slot], b) = b
        BY <1>2, <1>4, <1>5, <2>1, <2>3, <3>1
      <4>2. mem'[call.slot] = DiskBytes
        BY <1>3, <2>3, <4>1
      <4>3. Len(mem'[call.slot]) = Length /\ Length \in Nat
        BY <1>3, <1>4, <2>3, <4>2
      <4> QED
        BY <4>2, <4>3
    <3>2. CASE status' # 0
      BY <1>2, <2>1, <3>2
    <3> QED
      BY <3>1, <3>2
  <2>5. Length' = Length /\ DiskBytes' = DiskBytes /\ call' = call
    BY <1>1 DEF Length, DiskBytes, driverVars
  <2>6. Done'
    BY <1>1, <2>1, <2>2, <2>4, <2>5 DEF Done, WithDevice, driverVars
  <2>7. /\ phase' = "polling" /\ NextIdx(lastUsed') = avail'.idx /\ ~broken'
        /\ Len(mem'[call'.slot]) <= Length'
    BY <1>1, <2>1, <2>4, <2>5 DEF driverVars
  <2> QED
    BY <2>6, <2>7 DEF InStep
<1> QED
  BY <1>8, <1>9 DEF IInv

-----------------------------------------------------------------------------
(* The theorems.                                                           *)

\* The driver starts with nothing in its rings.
LEMMA InitIInv == Init => IInv
<1> SUFFICES ASSUME Init PROVE IInv
  OBVIOUS
<1>1. 0 \in Table /\ 0 \in Indices /\ MaxTimeouts \in Nat
  BY Constants DEF Table, Indices
<1>2. DescTyped
  BY <1>1 DEF Init, DescTyped, Descriptors, Table
<1>3. RingTyped
  BY <1>1 DEF Init, RingTyped, Table
<1>4. RestTyped
  <2>1. <<>> \in Seq(Int)
    BY EmptySeq
  <2>2. mem \in [Slots -> Seq(Int)]
    BY <2>1 DEF Init
  <2>3. timeouts \in 0..MaxTimeouts + 1 /\ inflight \subseteq Requests
    BY <1>1 DEF Init
  <2>4. status = Junk /\ phase = "idle" /\ broken = FALSE
    BY DEF Init
  <2> QED
    BY <2>2, <2>3, <2>4 DEF RestTyped
<1>5. InStep /\ (status = 0 => answered)
  BY DEF Init, InStep, Junk
<1> QED
  BY <1>2, <1>3, <1>4, <1>5 DEF IInv

\* Every step of the driver and of the device keeps the inductive invariant.
LEMMA NextIInv == IInv /\ [Next]_vars => IInv'
<1> SUFFICES ASSUME IInv, [Next]_vars PROVE IInv'
  OBVIOUS
<1>1. CASE \E offset \in 0..DiskSectors * SectorSize, len \in 1..MaxLen, slot \in Slots :
             Submit(offset, len, slot)
  <2>1. PICK offset \in 0..DiskSectors * SectorSize, len \in 1..MaxLen, slot \in Slots :
               Submit(offset, len, slot)
    BY <1>1
  <2>2. DiskSectors * SectorSize \in Nat
    BY Constants, Product
  <2>3. offset \in Nat /\ len \in Nat \ {0}
    BY <2>2, Constants
  <2> QED
    BY <2>1, <2>3, SubmitKeeps
<1>2. CASE PollDone
  BY <1>2, PollDoneKeeps
<1>3. CASE PollTimeout
  BY <1>3, PollTimeoutKeeps
<1>4. CASE DeviceFetch
  BY <1>4, FetchKeeps
<1>5. CASE \E r \in inflight : DeviceComplete(r)
  BY <1>5, CompleteKeeps
<1>6. CASE UNCHANGED vars
  <2>1. UNCHANGED <<desc, nextDesc, avail, lastUsed, req, call, phase, result, timeouts>>
    BY <1>6 DEF vars, driverVars
  <2>2. UNCHANGED <<seen, inflight, broken, used, status, mem, answered>>
    BY <1>6 DEF vars, deviceVars, sharedVars
  <2>3. Length' = Length /\ Wanted' = Wanted /\ DiskBytes' = DiskBytes /\ Head0' = Head0
    BY <2>1, <2>2 DEF Length, Wanted, DiskBytes, Head0
  <2>4. (InRing' <=> InRing) /\ (WithDevice' <=> WithDevice) /\ (Done' <=> Done)
    BY <2>1, <2>2, <2>3 DEF InRing, ChainAt, WithDevice, Done
  <2> QED
    BY <2>1, <2>2, <2>3, <2>4 DEF IInv, DescTyped, RingTyped, RestTyped, InStep
<1> QED
  BY <1>1, <1>2, <1>3, <1>4, <1>5, <1>6 DEF Next

\* The inductive invariant holds in every behaviour of the driver and the
\* device.
THEOREM Invariance == Spec => []IInv
BY InitIInv, NextIInv, PTL DEF Spec

\* Every variable keeps its type: the ring indices stay in their width, what the
\* device has fetched is a request for a buffer, and descriptors stay in the
\* table.
THEOREM TypeCorrect == Spec => []TypeOK
<1>1. IInv => TypeOK
  <2> SUFFICES ASSUME IInv PROVE TypeOK
    OBVIOUS
  <2>1. \A i \in Table : desc[i].next \in Table
    BY DEF IInv, DescTyped, Descriptors
  <2>2. /\ \A i \in Table : avail.ring[i] \in Table
        /\ nextDesc \in Table /\ avail.idx \in Indices /\ seen \in Indices
        /\ used \in Indices /\ lastUsed \in Indices
    BY DEF IInv, RingTyped
  <2> QED
    BY <2>1, <2>2 DEF IInv, RestTyped, TypeOK, Table, Indices
<1> QED
  BY <1>1, Invariance, PTL

\* A read_at that returns true has filled the caller's buffer with the bytes of
\* the disk it asked for, at any alignment of its two ends, as long as no read
\* has timed out.
THEOREM ReadIsRight == Spec => []ReadGivesDiskBytes
<1>1. IInv => ReadGivesDiskBytes
  BY DEF IInv, InStep, ReadGivesDiskBytes
<1> QED
  BY <1>1, Invariance, PTL

\* As long as no read has timed out the device is left with no buffer when
\* read_sectors returns, and the rings never hold more than one request.
THEOREM NothingOut == Spec => []NothingOutWhenIdle
<1>1. IInv => NothingOutWhenIdle
  BY DEF IInv, InStep, NothingOutWhenIdle
<1> QED
  BY <1>1, Invariance, PTL

\* A read that returns true had a request answered since it was made: the status
\* byte is reset before each request, so an older answer is never read in it.
THEOREM TrueIsAnswered == Spec => TrueOnlyIfAnswered
<1>1. IInv /\ [Next]_vars => [PollDone /\ result'.ok => answered]_vars
  <2> SUFFICES ASSUME IInv, PollDone, result'.ok
               PROVE  answered
    OBVIOUS
  <2>1. result' = [ok |-> StatusOk, bytes |-> IF StatusOk THEN Copied(mem[call.slot]) ELSE <<>>]
    BY DEF PollDone
  <2>2. status = 0
    BY <2>1 DEF StatusOk
  <2> QED
    BY <2>2 DEF IInv
<1> QED
  BY <1>1, Invariance, PTL DEF Spec, TrueOnlyIfAnswered
=============================================================================
