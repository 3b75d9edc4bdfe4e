------------------------------ MODULE VirtioBlk ------------------------------
(***************************************************************************)
(* The virtio block driver (virtio.rs) and the device it talks to: the     *)
(* descriptor table, the available and used rings, the one request header  *)
(* and the one status byte all requests share, and read_at's detour        *)
(* through a temporary buffer for reads that are not whole sectors.        *)
(*                                                                         *)
(* The driver holds its mutex from the call to the return, so it has one   *)
(* call at a time; the device runs beside it, fetches what is available    *)
(* and completes what it fetched in any order.  Memory is the DMA buffers  *)
(* at Slots; the bytes of the disk are their own addresses, so what a      *)
(* buffer holds says where it was read from.  The driver gives up after a  *)
(* million polls: it may do so at any time before a completion shows.      *)
(***************************************************************************)
EXTENDS Integers, Sequences

CONSTANTS
  QueueSize,     \* QUEUE_SIZE, 16
  IdxMod,        \* 2^16: the ring indices are u16
  SectorSize,    \* 512
  DiskSectors,   \* sectors of the disk
  MaxLen,        \* longest read
  Slots,         \* where a DMA buffer can be in memory
  MaxTimeouts    \* bound: no read is begun once more than these have timed out

ASSUME VirtioAssumption ==
  /\ QueueSize \in Nat /\ QueueSize >= 3 /\ SectorSize \in Nat \ {0}
  /\ IdxMod \in Nat \ {0} /\ IdxMod % QueueSize = 0
  /\ DiskSectors \in Nat /\ MaxLen \in Nat \ {0} /\ MaxTimeouts \in Nat

VARIABLES
  desc,       \* the descriptor table: [what, slot, len, next]
  nextDesc,   \* next_desc_idx
  avail,      \* avail.ring and avail.idx
  used,       \* used.idx
  lastUsed,   \* last_used_idx
  req,        \* req_buf.sector
  status,     \* *status_buf
  answered,   \* auxiliary: a request succeeded since the last one was made
  mem,        \* mem[slot]: the bytes at a DMA buffer
  call,       \* the read in progress: [offset, len, slot]
  phase,      \* "idle" or "polling"
  result,     \* what the last read returned: [ok, bytes]
  timeouts,   \* reads that timed out so far
  seen,       \* device: the available index it has come to
  inflight,   \* device: requests fetched and not completed
  broken      \* device: it met a malformed chain and stopped

driverVars == <<desc, nextDesc, avail, lastUsed, req, call, phase, result, timeouts>>
deviceVars == <<seen, inflight, broken>>
sharedVars == <<used, status, mem, answered>>
vars == <<driverVars, deviceVars, sharedVars>>

Junk == -1
Bytes(first, n) == [i \in 1..n |-> first + i - 1]

\* A slip: the index is not kept to 16 bits.
UnwrappedIdx(i) == i + 1

NextIdx(i) == (i + 1) % IdxMod

\* Descriptors are handed out round the table whether or not they are free.
After(i) == (i + 1) % QueueSize

\* VirtioBlk::new: rings zeroed, the request header and status byte allocated.
Init ==
  /\ desc = [i \in 0..QueueSize - 1 |-> [what |-> "none", slot |-> Junk, len |-> 0, next |-> 0]]
  /\ nextDesc = 0
  /\ avail = [ring |-> [i \in 0..QueueSize - 1 |-> 0], idx |-> 0]
  /\ used = 0 /\ lastUsed = 0
  /\ req = Junk /\ status = Junk /\ answered = FALSE
  /\ mem = [s \in Slots |-> <<>>]
  /\ call = [offset |-> 0, len |-> 1, slot |-> CHOOSE s \in Slots : TRUE]
  /\ phase = "idle"
  /\ result = [ok |-> FALSE, bytes |-> <<>>]
  /\ timeouts = 0
  /\ seen = 0 /\ inflight = {} /\ broken = FALSE

-----------------------------------------------------------------------------
(* The driver.                                                             *)

StartSector(offset)    == offset \div SectorSize
EndSector(offset, len) == (offset + len + SectorSize - 1) \div SectorSize
DmaLen(offset, len)    == (EndSector(offset, len) - StartSector(offset)) * SectorSize

\* next_desc_idx after a request's three descriptors.
SkipChain(i) == After(After(After(i)))

\* A slip: the status byte of the request before is left.
StatusLeft == status

\* What *status_buf is set to for a new request.
NewStatus == 255

\* The three descriptors of a request: header, data, status.
Chain(h, slot, len) ==
  [desc EXCEPT ![h] = [what |-> "req", slot |-> Junk, len |-> 0, next |-> After(h)],
               ![After(h)] = [what |-> "data", slot |-> slot, len |-> len, next |-> After(After(h))],
               ![After(After(h))] = [what |-> "status", slot |-> Junk, len |-> 1, next |-> 0]]

\* read_at and read_sectors up to the notification.  A new buffer is zeroed;
\* the heap may put it where an earlier one was.
Submit(offset, len, slot) ==
  LET n == DmaLen(offset, len) IN
  /\ phase = "idle"
  /\ timeouts <= MaxTimeouts
  /\ call' = [offset |-> offset, len |-> len, slot |-> slot]
  /\ mem' = [mem EXCEPT ![slot] = [i \in 1..n |-> Junk]]
  /\ req' = StartSector(offset)
  /\ status' = NewStatus
  /\ answered' = FALSE
  /\ desc' = Chain(nextDesc, slot, n)
  /\ nextDesc' = SkipChain(nextDesc)
  /\ avail' = [ring |-> [avail.ring EXCEPT ![avail.idx % QueueSize] = nextDesc],
               idx  |-> NextIdx(avail.idx)]
  /\ phase' = "polling"
  /\ UNCHANGED <<lastUsed, result, timeouts, deviceVars, used>>

\* Slips: the temporary buffer copied from its start, last_used_idx left.
CopiedFromStart(bytes) == SubSeq(bytes, 1, call.len)
UsedNotSeen == lastUsed

UsedSeen == used
StatusOk == status = 0
Copied(bytes) ==
  SubSeq(bytes, (call.offset % SectorSize) + 1, (call.offset % SectorSize) + call.len)

\* The used index has moved: the read is over, with what the buffer holds.
\* The buffer goes back to its owner, and what it holds is in result.
PollDone ==
  /\ phase = "polling"
  /\ used # lastUsed
  /\ lastUsed' = UsedSeen
  /\ result' = [ok |-> StatusOk, bytes |-> IF StatusOk THEN Copied(mem[call.slot]) ELSE <<>>]
  /\ phase' = "idle"
  /\ mem' = [mem EXCEPT ![call.slot] = <<>>]
  /\ UNCHANGED <<desc, nextDesc, avail, req, call, timeouts, deviceVars, used, status, answered>>

\* A slip: no limit on the polls.
NoTimeout == FALSE /\ UNCHANGED vars

\* A million polls: false is returned and the request stays with the device.
PollTimeout ==
  /\ phase = "polling"
  /\ used = lastUsed
  /\ timeouts' = timeouts + 1
  /\ result' = [ok |-> FALSE, bytes |-> <<>>]
  /\ phase' = "idle"
  /\ mem' = [mem EXCEPT ![call.slot] = <<>>]
  /\ UNCHANGED <<desc, nextDesc, avail, lastUsed, req, call, deviceVars, used, status, answered>>

-----------------------------------------------------------------------------
(* The device: follows the chain at the head the ring names, takes the     *)
(* sector from the header in memory at that moment, and later writes data, *)
(* status and the used index.                                              *)

Head0 == avail.ring[seen % QueueSize]
WellFormed(h) ==
  LET d == desc[h].next IN
  desc[h].what = "req" /\ desc[d].what = "data" /\ desc[desc[d].next].what = "status"

DeviceFetch ==
  /\ ~broken /\ seen # avail.idx
  /\ IF WellFormed(Head0)
     THEN LET d == desc[desc[Head0].next] IN
          /\ inflight' = inflight \cup
               {[sector |-> req, slot |-> d.slot, len |-> d.len, nr |-> seen]}
          /\ UNCHANGED broken
     ELSE broken' = TRUE /\ UNCHANGED inflight
  /\ seen' = NextIdx(seen)
  /\ UNCHANGED <<driverVars, sharedVars>>

OnDisk(r) == r.sector * SectorSize + r.len <= DiskSectors * SectorSize

\* DMA writes r.len bytes at the slot, over whatever is there now.
Dma(old, new) == [i \in 1..(IF Len(old) > Len(new) THEN Len(old) ELSE Len(new)) |->
                    IF i <= Len(new) THEN new[i] ELSE old[i]]

DeviceComplete(r) ==
  /\ inflight' = inflight \ {r}
  /\ used' = NextIdx(used)
  /\ \/ /\ OnDisk(r)
        /\ mem' = [mem EXCEPT ![r.slot] = Dma(@, Bytes(r.sector * SectorSize, r.len))]
        /\ status' = 0 /\ answered' = TRUE
     \/ status' = 1 /\ UNCHANGED <<mem, answered>>
  /\ UNCHANGED <<driverVars, seen, broken>>

Next ==
  \/ \E offset \in 0..DiskSectors * SectorSize, len \in 1..MaxLen, slot \in Slots :
       Submit(offset, len, slot)
  \/ PollDone \/ PollTimeout
  \/ DeviceFetch
  \/ \E r \in inflight : DeviceComplete(r)

\* The driver's own code runs on; nothing is assumed of the device.
Fairness == WF_vars(PollDone) /\ WF_vars(PollTimeout)

Spec == Init /\ [][Next]_vars /\ Fairness

-----------------------------------------------------------------------------
(* Properties.                                                             *)

Requests == [sector : Nat, slot : Slots, len : Nat, nr : 0..IdxMod - 1]

\* The type invariant.
TypeOK ==
  /\ nextDesc \in 0..QueueSize - 1
  /\ avail.idx \in 0..IdxMod - 1 /\ seen \in 0..IdxMod - 1
  /\ used \in 0..IdxMod - 1 /\ lastUsed \in 0..IdxMod - 1
  /\ \A i \in 0..QueueSize - 1 : desc[i].next \in 0..QueueSize - 1
  /\ \A i \in 0..QueueSize - 1 : avail.ring[i] \in 0..QueueSize - 1
  /\ inflight \subseteq Requests
  /\ \A s \in Slots : mem[s] \in Seq(Int)
  /\ status \in {Junk, 0, 1, 255}
  /\ phase \in {"idle", "polling"} /\ timeouts \in 0..MaxTimeouts + 1
  /\ broken \in BOOLEAN

\* As long as no read has timed out, a read_at that returns true has filled
\* the caller's buffer with exactly the bytes of the disk it asked for, for
\* every alignment of its two ends and however often the rings went round.
ReadGivesDiskBytes ==
  timeouts = 0 /\ phase = "idle" /\ result.ok
    => result.bytes = Bytes(call.offset, call.len)

\* As long as no read has timed out, the rings agree that one request is out
\* while the driver polls and none when it has returned: the device is never
\* left with the address of a buffer that goes back to its owner.
NothingOutWhenIdle ==
  timeouts = 0 =>
    /\ phase = "idle" => inflight = {} /\ used = avail.idx
    /\ phase = "polling" => NextIdx(lastUsed) = avail.idx
    /\ ~broken

\* Even after reads have timed out and their late answers came in at any
\* moment, read_at returns true only if some request succeeded after this one
\* was made: an answer from before the call is never taken for a success.
TrueOnlyIfAnswered == [][PollDone /\ result'.ok => answered]_vars

\* Every read returns, though the device may never answer.
EveryReadReturns == phase = "polling" ~> phase = "idle"
=============================================================================
