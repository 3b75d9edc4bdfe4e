----------------------------- MODULE FileStack -----------------------------
(***************************************************************************)
(* A file call of the kernel from the descriptor down to the device: the   *)
(* descriptor table (process.rs), the handle (hfsfs.rs), the fork with its *)
(* extents and its decompressed contents (hfsplus/lib.rs), and the one     *)
(* buffered device that every handle and the catalog share (hfsfs.rs).     *)
(* The device may fail any read.  A call runs to its end on the only CPU,  *)
(* open under the lock of the VFS and the others under the scheduler's, so *)
(* calls do not interleave; a call is as many steps as it makes reads.  A  *)
(* byte is a number: that of the disk at address a is a.  Lengths are      *)
(* scaled down: Header stands for 16 bytes, Word for 4.                    *)
(***************************************************************************)
EXTENDS Integers, Sequences, FiniteSets, FiniteSetsExt, SequencesExt

CONSTANTS
  Volume,      \* the files: name -> [kind, extents, size, chunks]
  Catalog,     \* the fork of the catalog, a plain one
  BlockSize, DiskSize,
  Fds, Std,    \* slots of a descriptor table, and those open from the start
  Cap,         \* capacity of the BufReader
  Piece,       \* the 4096 bytes read at a time by read_to_end and mapping
  DataOffset,  \* where the data of a resource fork starts
  Lens, Offsets, \* lengths and offsets programs ask for
  MaxCalls     \* bound on the calls of a behaviour

Header == 2
Word   == 1
NodeAt == Header      \* a catalog node that is not the first
Kinds  == {"plain", "stored", "zlib", "chunked", "resource", "resource chunked"}

ASSUME FileStackAssumption ==
  /\ {BlockSize, Cap, Piece, DiskSize} \subseteq Nat \ {0}
  /\ DataOffset \in Nat /\ DataOffset >= Header
  /\ Header < Cap /\ Lens \cup Offsets \subseteq Nat
  /\ Std \subseteq Fds /\ Fds \subseteq Nat

VARIABLES
  fds,    \* Process.files: the open descriptors, fd -> handle
  buf,    \* BufReader: its bytes, pos, and the position of the device below
  call,   \* the call under way; its count is that of all calls, for the bound
  rd      \* the read_internal under way
vars == <<fds, buf, call, rd>>

-----------------------------------------------------------------------------
(* The disk and the forks on it.                                           *)

Disk(a, n) == [i \in 1..n |-> a + i - 1]
Junk == 0 - 1

\* The extents of a fork as (address, begin, end), cut at its logical size.
Spans(f) ==
  LET bytes(i) == f.extents[i][2] * BlockSize
      begin[i \in 1..Len(f.extents)] ==
        IF i = 1 THEN 0 ELSE begin[i - 1] + bytes(i - 1)
  IN [i \in DOMAIN f.extents |->
        [addr  |-> f.extents[i][1] * BlockSize,
         begin |-> Min({f.size, begin[i]}),
         end   |-> Min({f.size, begin[i] + bytes(i)})]]

\* The first span that does not end at or before a position, {} past the end.
SpanAt(f, p) == {s \in Range(Spans(f)) : s.begin <= p /\ p < s.end}

ForkBytes(f) ==
  [p \in 1..f.size |-> LET s == CHOOSE x \in SpanAt(f, p - 1) : TRUE
                       IN s.addr + p - 1 - s.begin]

-----------------------------------------------------------------------------
(* Compressed files: what check_compression reads after the header, and    *)
(* what comes out of it.  A compressed byte gives two.                     *)

Inflate(raw) == [i \in 1..2 * Len(raw) |-> (100 + 2 * raw[(i + 1) \div 2]) + (i % 2)]

Exact(at, n, data) == [mode |-> "exact", at |-> at, len |-> n, data |-> data]
Short(at, n)       == [mode |-> "short", at |-> at, len |-> n, data |-> FALSE]
ToEnd(at)          == [mode |-> "toend", at |-> at, len |-> Piece, data |-> TRUE]

\* Count, table of offsets, then each chunk; the last one to the fork's end.
Chunks(f, at) ==
  LET first == at + Word + f.chunks * Word
      size  == (f.size - first) \div f.chunks
  IN <<Exact(at, Word, FALSE), Exact(at + Word, f.chunks * Word, FALSE)>>
       \o [i \in 1..f.chunks |->
             Exact(first + (i - 1) * size,
                   IF i < f.chunks THEN size ELSE f.size - first - (i - 1) * size,
                   TRUE)]

InResource(f) == f.kind \in {"resource", "resource chunked"}
ResourceHeader == <<Short(DataOffset, Word), Short(DataOffset + Word, Header)>>
ResourceData   == DataOffset + Word + Header

Plan(f) ==
  CASE f.kind = "plain"    -> <<>>
    [] f.kind = "stored"   -> <<Exact(Header, f.size - Header, TRUE)>>
    [] f.kind = "zlib"     -> <<ToEnd(Header)>>
    [] f.kind = "chunked"  -> Chunks(f, Header)
    [] f.kind = "resource" -> ResourceHeader \o <<ToEnd(ResourceData)>>
    [] OTHER               -> ResourceHeader \o Chunks(f, ResourceData)

Unpacked(f, raw) == IF f.kind = "stored" THEN raw ELSE Inflate(raw)

\* What a program should see in a file, computed from the disk alone.
Contents(f) ==
  LET bytes == ForkBytes(f)
      part(p) == IF p.mode = "toend" THEN SubSeq(bytes, p.at + 1, f.size)
                 ELSE SubSeq(bytes, p.at + 1, p.at + p.len)
  IN IF f.kind = "plain" THEN bytes
     ELSE Unpacked(f, FlattenSeq([i \in DOMAIN Plan(f) |->
                        IF Plan(f)[i].data THEN part(Plan(f)[i]) ELSE <<>>]))

\* A sound volume: a fork lies in its extents and these on the disk, and what a
\* compressed file says of itself is in the file.  /dev/random is no path of
\* it (vfs.rs:57).
ASSUME VolumeAssumption ==
  /\ "/dev/random" \notin DOMAIN Volume
  /\ \A f \in {Volume[n] : n \in DOMAIN Volume} \cup {Catalog} :
       /\ f.kind \in Kinds /\ f.size \in 0..DiskSize /\ f.chunks \in Nat
       /\ f.extents \in Seq(Nat \X (Nat \ {0}))
       /\ \A i \in DOMAIN f.extents :
            (f.extents[i][1] + f.extents[i][2]) * BlockSize <= DiskSize
       /\ \A p \in 0..f.size - 1 : SpanAt(f, p) # {}
       /\ f.kind \in {"chunked", "resource chunked"} => f.chunks > 0
       /\ f.kind # "plain" => f.size >= Header
       /\ \A i \in DOMAIN Plan(f) :
            LET p == Plan(f)[i]
            IN p.at <= f.size /\ (p.mode # "toend" => p.len >= 0 /\ p.at + p.len <= f.size)

-----------------------------------------------------------------------------
(* State.  A handle's cache is {} or the set of the one byte sequence that *)
(* stands for the file once it is decompressed.                            *)

Handle(name) == [name |-> name, pos |-> 0, cache |-> {}, size |-> Volume[name].size]
RandomFile   == [name |-> "/dev/random", pos |-> 0, cache |-> {}, size |-> 0]

Idle == [op |-> "idle", count |-> 0, fd |-> 0, name |-> "none", len |-> 0, offset |-> 0, was |-> RandomFile,
         failed |-> FALSE, stage |-> "none", step |-> 0, raw |-> <<>>, mem |-> <<>>]
NoRead == [want |-> 0, got |-> <<>>, need |-> 0]

Init ==
  /\ fds = [fd \in Std |-> RandomFile]
  /\ buf = [data |-> <<>>, pos |-> 0, inner |-> 0]
  /\ call = Idle /\ rd = NoRead

h        == fds[call.fd]
File     == Volume[h.name]
Fork     == IF call.stage = "catalog" THEN Catalog ELSE File
Position == IF call.stage = "catalog" THEN NodeAt ELSE h.pos

\* read_internal starts: want bytes from a position of the handle's fork.
ReadInternal(stage, n) ==
  /\ call' = [call EXCEPT !.stage = stage]
  /\ rd' = [NoRead EXCEPT !.want = n]

-----------------------------------------------------------------------------
(* The calls.                                                              *)

Ready    == call.op = "idle" /\ call.count < MaxCalls
New(op)  == [Idle EXCEPT !.op = op, !.count = call.count + 1]

\* open and stat64 look the path up through the catalog before anything else.
Lookup(op, name) ==
  /\ Ready
  /\ call' = [New(op) EXCEPT !.name = name, !.stage = "catalog"]
  /\ rd' = [NoRead EXCEPT !.want = Header]
  /\ UNCHANGED <<fds, buf>>
Open(name) == Lookup("open", name)
Stat(name) == Lookup("stat", name)

Close(fd) ==
  /\ Ready
  /\ fds' = [x \in DOMAIN fds \ {fd} |-> fds[x]]
  /\ call' = [call EXCEPT !.count = @ + 1]
  /\ UNCHANGED <<buf, rd>>

\* x0 and the program's memory hold the result.
Return(c, data) == call' = [c EXCEPT !.stage = "returned", !.mem = data] /\ rd' = NoRead

Eret ==
  /\ call.stage = "returned"
  /\ call' = [Idle EXCEPT !.count = call.count] /\ UNCHANGED <<fds, buf, rd>>

\* A call on an open file enters Fork::read.
Enter(op, fd, len, offset) ==
  [New(op) EXCEPT !.fd = fd, !.len = len, !.offset = offset,
                  !.was = fds[fd], !.stage = "enter"]

IsFile(fd) == fd \in DOMAIN fds /\ fds[fd].name \in DOMAIN Volume

\* read, pread and mmap of a file all call handle.read(slice), and none of them
\* looks at an offset.
HandleRead(op, fd, len, offset) ==
  /\ Ready
  /\ IF IsFile(fd)
     THEN call' = Enter(op, fd, len, offset) /\ UNCHANGED rd
     ELSE Return(New("random"),
                 IF fd \in DOMAIN fds THEN [i \in 1..len |-> Junk] ELSE <<>>)
  /\ UNCHANGED <<fds, buf>>
Read(fd, len)          == HandleRead("read", fd, len, 0)
Pread(fd, len, offset) == HandleRead("pread", fd, len, offset)
Mmap(fd, len, offset)  == HandleRead("mmap", fd, len, offset)

\* A slip: the segment is read from where the handle is.
NotSought(x, offset) == x
Sought(x, offset) == [x EXCEPT !.pos = offset]
ToMap(fd, size, offset) == Min({size, fds[fd].size - offset})

\* shared_region_map_and_slide_np with one mapping (count = 1; the size of the
\* file is read once for all of them): seek, then read in pieces.
SharedRegionMap(fd, size, offset) ==
  /\ Ready /\ IsFile(fd) /\ offset < fds[fd].size /\ size > 0
  /\ fds' = [fds EXCEPT ![fd] = Sought(@, offset)]
  /\ call' = Enter("region", fd, ToMap(fd, size, offset), offset)
  /\ UNCHANGED <<buf, rd>>

-----------------------------------------------------------------------------
(* Fork::read and check_compression.                                       *)

ReadLen == IF call.op = "region" THEN Min({Piece, call.len - Len(call.mem)})
           ELSE call.len

\* Fork::read returns to the handle, which makes 0 bytes of an error.  A
\* mapping goes on to its next piece whatever a read gave: what was not read
\* stays as it was allocated.
ForkReturns(handle, data, failed) ==
  LET now    == [call EXCEPT !.failed = @ \/ failed]
      unread == [i \in 1..ReadLen - Len(data) |-> Junk]
      mem    == call.mem \o data \o unread
  IN /\ fds' = [fds EXCEPT ![call.fd] = handle]
     /\ IF call.op # "region" THEN Return(now, data)
        ELSE IF Len(mem) = call.len THEN Return(now, mem)
        ELSE /\ call' = [now EXCEPT !.mem = mem, !.stage = "enter", !.raw = <<>>]
             /\ rd' = NoRead

\* The contents are in memory: no read of the device.
CopyFromCache ==
  /\ call.stage = "enter"
  /\ \E cache \in h.cache :
       LET data == SubSeq(cache, h.pos + 1, Min({h.pos + ReadLen, Len(cache)}))
       IN ForkReturns([h EXCEPT !.pos = @ + Len(data)], data, FALSE)
  /\ UNCHANGED buf

\* "Only check for compression at the beginning of the file."
CheckCompression ==
  /\ call.stage = "enter" /\ h.cache = {} /\ h.pos = 0
  /\ ReadInternal("header", Header)
  /\ UNCHANGED <<fds, buf>>

ReadPlain ==
  /\ call.stage = "enter" /\ h.cache = {} /\ h.pos # 0
  /\ ReadInternal("data", ReadLen)
  /\ UNCHANGED <<fds, buf>>

-----------------------------------------------------------------------------
(* read_internal: seek to the extent, read_exact from the BufReader.       *)

Reading == call.stage \in {"catalog", "header", "unpack", "data"}
Cursor  == Position + Len(rd.got)
Done    == /\ Reading /\ rd.need = 0
           /\ Len(rd.got) = rd.want \/ SpanAt(Fork, Cursor) = {}

\* BufReader::seek(Start) forgets what is buffered.
\* A slip: what was buffered is still served.
BufSeekKeeps(addr) == [buf EXCEPT !.inner = addr]
BufSeek(addr) == [data |-> <<>>, pos |-> 0, inner |-> addr]

SeekExtent ==
  /\ Reading /\ rd.need = 0 /\ Len(rd.got) < rd.want
  /\ \E s \in SpanAt(Fork, Cursor) :
       /\ buf' = BufSeek(s.addr + Cursor - s.begin)
       /\ rd' = [rd EXCEPT !.need = Min({s.end - Cursor, rd.want - Len(rd.got)})]
  /\ UNCHANGED <<fds, call>>

Buffered == buf.pos < Len(buf.data)
\* A slip: the whole buffer is copied.
ServedAll(need, available) == available
ServedLen(need, available) == Min({need, available})

\* BufReader::read: what is buffered first; nothing buffered, a read as long
\* as the buffer goes past it, and a shorter one fills it.
Asked == IF rd.need >= Cap THEN rd.need ELSE Cap

Served ==
  IF Buffered THEN SubSeq(buf.data, buf.pos + 1,
                          buf.pos + ServedLen(rd.need, Len(buf.data) - buf.pos))
  ELSE Disk(buf.inner, ServedLen(rd.need, Asked))

BufRead ==
  /\ rd.need > 0
  /\ Buffered \/ buf.inner + Asked <= DiskSize
  /\ rd' = [rd EXCEPT !.got = @ \o Served, !.need = @ - Len(Served)]
  /\ buf' = IF Buffered THEN [buf EXCEPT !.pos = @ + Len(Served)]
            ELSE IF rd.need >= Cap THEN [buf EXCEPT !.inner = @ + Asked]
            ELSE [data |-> Disk(buf.inner, Cap), pos |-> Len(Served), inner |-> buf.inner + Cap]
  /\ UNCHANGED <<fds, call>>

\* The device fails, as it does past its end.  A refill that fails has reset
\* pos and not cap, and may have overwritten the buffer.
DeviceFails ==
  /\ rd.need > 0 /\ ~Buffered
  /\ \/ rd.need >= Cap /\ UNCHANGED buf
     \/ rd.need < Cap /\ \E data \in {buf.data, [i \in DOMAIN buf.data |-> Junk]} :
                           buf' = [buf EXCEPT !.pos = 0, !.data = data]

-----------------------------------------------------------------------------
(* What each caller of read_internal does with its result.  On success     *)
(* the position has moved by what was read, on an error it has not.        *)

Moved == [h EXCEPT !.pos = @ + Len(rd.got)]
Step  == Plan(File)[call.step]

\* vfs::open is done: the handle goes to the lowest free slot, or is dropped.
Installed(slots, name) ==
  LET free == Fds \ DOMAIN slots
  IN IF free = {} THEN slots
     ELSE [x \in DOMAIN slots \cup {Min(free)} |->
             IF x \in DOMAIN slots THEN slots[x] ELSE Handle(name)]

Found ==
  /\ Done /\ call.stage = "catalog"
  /\ fds' = IF call.op = "open" THEN Installed(fds, call.name) ELSE fds
  /\ Return(call, <<>>) /\ UNCHANGED buf
NotFound ==
  /\ call.stage = "catalog" /\ DeviceFails
  /\ Return(call, <<>>) /\ UNCHANGED fds

\* Too short for a header, or without the magic: from position 0 as it is.
HeaderPlain ==
  /\ Done /\ call.stage = "header"
  /\ Len(rd.got) < Header \/ File.kind = "plain"
  /\ ReadInternal("data", ReadLen)
  /\ UNCHANGED <<fds, buf>>    \* position moved and set back to 0

\* The next read of the plan starts where the plan says.
\* A slip: it starts where the handle is.
NextReadInPlace(step) == fds' = fds /\ rd' = [NoRead EXCEPT !.want = Plan(File)[step].len]
NextRead(step) ==
  /\ fds' = [fds EXCEPT ![call.fd].pos = Plan(File)[step].at]
  /\ rd' = [NoRead EXCEPT !.want = Plan(File)[step].len]

HeaderCompressed ==
  /\ Done /\ call.stage = "header"
  /\ Len(rd.got) = Header /\ File.kind # "plain"
  /\ call' = [call EXCEPT !.stage = "unpack", !.step = 1]
  /\ NextRead(1)
  /\ UNCHANGED buf

\* decompressed_cache and logical_size are set, the position goes back to 0.
Unpack(raw, failed) ==
  LET out == Unpacked(File, raw)
  IN /\ fds' = [fds EXCEPT ![call.fd] =
                  [h EXCEPT !.pos = 0, !.cache = {out},
                            !.size = IF InResource(File) THEN Len(out)
                                     ELSE Len(Contents(File))]]
     /\ call' = [call EXCEPT !.stage = "enter", !.failed = @ \/ failed]
     /\ rd' = NoRead

StepRead ==
  /\ Done /\ call.stage = "unpack" /\ Step.mode # "toend"
  /\ LET raw == IF Step.data THEN call.raw \o rd.got ELSE call.raw
     IN IF call.step = Len(Plan(File)) THEN Unpack(raw, FALSE)
        ELSE /\ call' = [call EXCEPT !.step = @ + 1, !.raw = raw]
             /\ NextRead(call.step + 1)
  /\ UNCHANGED buf

\* read_to_end stops when a read gives nothing.
\* A slip: read_to_end only stops on an error.
NeverAtEnd(n) == FALSE
AtEnd(n) == n = 0
ReadToEndMore ==
  /\ Done /\ call.stage = "unpack" /\ Step.mode = "toend" /\ ~AtEnd(Len(rd.got))
  /\ call' = [call EXCEPT !.raw = @ \o rd.got]
  /\ fds' = [fds EXCEPT ![call.fd] = Moved]
  /\ rd' = [NoRead EXCEPT !.want = Piece]
  /\ UNCHANGED buf
ReadToEndDone ==
  /\ Done /\ call.stage = "unpack" /\ Step.mode = "toend" /\ AtEnd(Len(rd.got))
  /\ Unpack(call.raw, FALSE) /\ UNCHANGED buf

\* read_to_end takes an error for the end, and inflates what it has.
ReadToEndFails ==
  /\ call.stage = "unpack" /\ Step.mode = "toend" /\ DeviceFails
  /\ Unpack(call.raw, TRUE)

\* A chunk of a resource fork cannot be read: the file passes for plain.
ResourceChunkFails ==
  /\ call.stage = "unpack" /\ Step.mode = "exact" /\ InResource(File) /\ DeviceFails
  /\ fds' = [fds EXCEPT ![call.fd].pos = 0]
  /\ call' = [call EXCEPT !.stage = "data", !.failed = TRUE]
  /\ rd' = [NoRead EXCEPT !.want = ReadLen]

\* Any other error goes up to the handle, which returns 0; the position
\* stays where the failed read began.
ReadFails ==
  /\ \/ call.stage \in {"header", "data"}
     \/ /\ call.stage = "unpack" /\ Step.mode # "toend"
        /\ Step.mode = "exact" => ~InResource(File)
  /\ DeviceFails
  /\ ForkReturns(h, <<>>, TRUE)

DataRead ==
  /\ Done /\ call.stage = "data"
  /\ ForkReturns(Moved, rd.got, FALSE) /\ UNCHANGED buf

-----------------------------------------------------------------------------

Call ==
  \/ \E name \in DOMAIN Volume : Open(name) \/ Stat(name)
  \/ \E fd \in Fds : Close(fd)
  \/ \E fd \in Fds, len \in Lens : Read(fd, len)
  \/ \E fd \in Fds, len \in Lens, offset \in Offsets :
       Pread(fd, len, offset) \/ Mmap(fd, len, offset) \/ SharedRegionMap(fd, len, offset)

Work ==
  \/ CopyFromCache \/ CheckCompression \/ ReadPlain
  \/ SeekExtent \/ BufRead
  \/ Found \/ NotFound \/ HeaderPlain \/ HeaderCompressed
  \/ StepRead \/ ReadToEndMore \/ ReadToEndDone \/ ReadToEndFails
  \/ ResourceChunkFails \/ ReadFails \/ DataRead \/ Eret

Next == Call \/ Work

\* A call that has begun runs on: it has the CPU and a lock, and the block
\* driver answers every read or gives up.
Spec == Init /\ [][Next]_vars /\ WF_vars(Work)

-----------------------------------------------------------------------------
(* Properties.                                                             *)

IsHandle(x) ==
  /\ x.name \in DOMAIN Volume \cup {"/dev/random"}
  /\ x.pos \in 0..DiskSize * 2 /\ x.size \in 0..DiskSize * 2
  /\ Cardinality(x.cache) <= 1

\* The type invariant; a read never gets more than it asked for.
TypeOK ==
  /\ DOMAIN fds \subseteq Fds /\ \A fd \in DOMAIN fds : IsHandle(fds[fd])
  /\ Len(buf.data) \in {0, Cap} /\ buf.pos \in 0..Len(buf.data) /\ buf.inner \in 0..DiskSize
  /\ call.op \in {"idle", "open", "stat", "read", "pread", "mmap", "region", "random"}
  /\ call.stage \in {"none", "catalog", "enter", "header", "unpack", "data", "returned"}
  /\ (call.op = "idle") <=> (call.stage = "none")
  /\ rd.need \in 0..rd.want /\ Len(rd.got) + rd.need <= rd.want

Returned(op) == call.stage = "returned" /\ call.op \in op

\* A handle that can be trusted when a read of it returns: its file is plain,
\* or its contents were in memory, or were brought there by this very call,
\* from the start of the file and with no failure of the device.
Trusted ==
  \/ File.kind = "plain"
  \/ call.was.cache = {Contents(File)}
  \/ call.was = Handle(h.name) /\ ~call.failed

\* read(2) returns the bytes of the file that follow the handle's position, as
\* many as asked for or left, and moves the position past them; only where
\* the device failed may it return none, and then it has not moved.  This
\* over extents, the buffer all handles share, the catalog reads that come
\* between, failed refills, and contents that are unpacked on the way.
ReadGivesFileBytes ==
  Returned({"read"}) /\ Trusted =>
    LET all  == Contents(File)
        from == call.was.pos
        n    == Min({call.len, Len(all) - from})
    IN \/ call.mem = SubSeq(all, from + 1, from + n) /\ h.pos = from + n
       \/ call.failed /\ call.mem = <<>> /\ h.pos = from

\* "pread(fd, buf, len, offset)", "mmap(addr, len, prot, flags, fd, offset)": the
\* bytes these two calls give are the file's from the offset on.
OffsetIsRespected ==
  Returned({"pread", "mmap"}) /\ Trusted /\ ~call.failed =>
    LET all == Contents(File)
    IN call.mem = SubSeq(all, call.offset + 1, Min({call.offset + call.len, Len(all)}))

\* A segment of the shared region holds the file's bytes from its offset on,
\* when the file is plain or unpacked and the device did not fail.
RegionHoldsFile ==
  /\ Returned({"region"}) /\ Trusted /\ ~call.failed
  /\ File.kind = "plain" \/ call.was.cache # {}
  => call.mem = SubSeq(Contents(File), call.offset + 1, call.offset + call.len)

\* Every call returns, whatever the device does.
CallsReturn == (call.op # "idle") ~> (call.op = "idle")

\* Whatever the device did while a file was unpacked, the contents kept for its
\* handle are the start of the file's: at worst they are cut short, where an
\* error passed for the end (lib.rs:880), never shifted, mixed or doubled.
CacheIsPrefix ==
  \A fd \in DOMAIN fds : \A contents \in fds[fd].cache :
    IsPrefix(contents, Contents(Volume[fds[fd].name]))
=============================================================================
