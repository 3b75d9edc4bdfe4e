# A verification development for gravity-os

gravity-os boots the user space of an old iOS on a kernel of its own.  The
repository holds that kernel (`src/src/kernel`), the libraries that read
Apple's file formats (`src/src/lib`), a dynamic linker, and the tools that
download a firmware and build the disk image the kernel boots from
(`src/src/tools`).  This directory holds TLA+ modules translated from that
source, the TLC configurations that check them, and TLAPS proofs.

## 1. Inventory

| part | source | state it keeps | operations | what makes it correct |
|---|---|---|---|---|
| scheduler, context switch | `kernel/src/scheduler.rs`, `switch.s`, `main.rs` | the queue of processes, the current one, a saved register file and a kernel stack per process, the CPU's registers | `add_process`, `schedule_next`, `__switch_to`, `kernel_thread_starter` | no process is lost, doubled or overtaken; a switch saves and loads the right contexts; a program resumes where it left |
| exceptions, system call dispatch | `vectors.s`, `process.rs` | the trap frame on the kernel stack, the exception counter | entry, dispatch, fault dump, return | the frame goes back to the program it came from; faults stop the kernel, ordinary calls do not |
| Mach IPC | `ipc.rs` | per process: ports and their queues, the next port name | `allocate_port`, `mach_msg` (send, host RPC, receive) | bounded queues, no message lost but by overflow, none doubled, an RPC gets its own reply |
| block driver | `virtio.rs`, `block.rs` | descriptor, available and used rings, their indices, a shared request header and status byte | `read_at`, `read_sectors` | the bytes of the disk for every alignment, an answer or a failure for every read |
| page tables | `mmu.rs` | L1, L2, L3 tables and the two pools they come from | `init`, `map_range` | exactly the pages asked for change their translation; no table is used twice |
| file calls | `process.rs`, `vfs.rs` | 32 descriptors per process | `open`, `read`, `pread`, `close`, `fstat`, `mmap` | a read returns the bytes at the descriptor's position and advances it |
| HFS+ adapter | `hfsfs.rs` | one buffered device shared by all handles | `read`, `seek` | the buffer never serves bytes of another place of the disk |
| HFS+ library | `lib/hfsplus` | position, extents and decompressed contents of a fork; B-trees on disk | fork reads, B-tree search, path lookup, directory listing | search finds exactly what the tree holds; compressed files read as their contents |
| disk images | `lib/apple-dmg` | of a writer: the tables so far, sectors and bytes counted; of a reader: the table, the position, a cache of chunks and the order of its use | add a partition, finish; copy a partition; read, seek | what is written is read back; reads and seeks are those of a flat run of bytes, whatever is cached or failed |
| decryption | `lib/vfdecrypt` | keys, chunk number, bytes given out, the chunk at hand | `decrypt_parallel`, `Read` | chunk *i* is decrypted with the vector of *i*; the data comes out in order and all of it |
| setup tool | `tools/gravity-setup` | three files in a work directory, threads copying chunks | download, extract, decrypt, build the image | a run that ends well leaves the chunks of one filesystem, and nothing else, in the image, after any history of failed runs |
| dynamic linker | `lib/dyld` | images, their rebase and bind opcodes | load, rebase, bind | |
| downloader, other tools | `lib/ipsw-downloader`, `tools/ipsw`, `tools/linker-wrapper` | none | requests, parsing, command lines | |
| memory of programs | `heap.rs`, `macho.rs`, `process.rs` (`mmap`, shared region) | the heap, the next address of `mmap` | load a segment, map memory or a file | no call takes memory or an address from another |
| boot, console | `boot.s`, `mem.rs`, `uart.rs`, `main.rs` | | once, at boot | |

The rows without a last column are those nothing is stated about yet, or code
that runs once in a straight line.

### How the parts meet

* One CPU, interrupts masked.  `kmain` creates the first process and switches
  to it for good; from then on kernel code runs only inside
  `handle_sync_exception`, entered by `sync_handler` on the kernel stack of the
  process that made the exception.
* One lock, `SCHEDULER`, guards the processes, and with them their descriptors
  and their Mach ports.  A system call takes it before it looks at them and holds it over
  every read of an open file (`open` looks the path up under the lock of the
  VFS).  The exception is `sys_yield`, which takes two raw pointers out, lets
  the lock go and switches.
* A file call goes from the descriptor table through `hfsfs` and the HFS+
  library to the block driver.  The catalog, every file and the extents of
  every fork are read through the same `BufReader` over the same device.
* The block driver has a lock of its own, held from the call to the answer.
  The only thing in the running kernel that goes on beside the CPU is the
  device, which fetches descriptors and writes memory when it likes.
* The page tables are written by the loader, by `mmap` and by
  `shared_region_map_and_slide_np`, out of two pools that nothing gives back to.
* The heap lies at addresses that programs are given too: `mmap` counts up from
  0x70000000, the middle of the heap, and there is one translation for the
  kernel and every program.
* `gravity-setup` makes the image that the block device serves.  Its stages
  meet only in the files of a work directory, which outlive a killed run.  One
  of them is the output of `vfdecrypt`, which `apple-dmg` opens.

### What is hard here

The order of steps around the switch, where the lock is gone and the pointers
are kept; the saved state of programs that others run in between; the answer
of a device that comes after the driver gave up; the buffer under all files
when a refill of it failed; a position that must not move when a read fails;
queues, pools and a 16-bit ring at their limits; a block of 2 MB that becomes
512 pages while in use; a search that ends exactly at the last record of a
leaf; a run of the tool that starts from what a killed run left; threads that
decrypt the chunks of a batch in any order; a shortcut to the chunk read last
that must give what a search would.  Each is
listed, at its line, under `hazards` in `PROJECT.json`, with the properties
that would catch it going wrong.

## 2. Modules

| module | models | rests on |
|---|---|---|
| `RoundRobin` | what the run queue promises: a ring of processes | |
| `Scheduler` | run queue, context switch, exception entry and exit, yield, spawn, exit | refines `RoundRobin` |
| `SchedulerProofs` | proofs about `Scheduler` | extends it |
| `MachIpc` | ports, queues, `mach_msg`, host RPCs | |
| `MachIpcProofs` | proofs about `MachIpc` | extends it |
| `VirtioBlk` | block driver and device | |
| `VirtioBlkProofs` | proofs about `VirtioBlk` | extends it |
| `AddressSpace` | what `map_range` promises: a map of pages | |
| `PageTables` | the three levels of tables and their pools | refines `AddressSpace` |
| `PageTablesProofs` | proofs about `PageTables` and the refinement | extends it |
| `FileStack`, `MCFileStack` | descriptors, handles, forks, decompression, shared buffer | |
| `FileStackProofs` | proofs about `FileStack` | extends it |
| `Catalog`, `MCCatalog` | B-tree search, paths, folder listing | |
| `SetupPipeline`, `MCSetupPipeline` | `gravity-setup` | |
| `SetupPipelineProofs` | proofs about `SetupPipeline` | extends it |
| `ProcessMemory` | heap, `mmap`, loader and shared region over one translation | uses what `AddressSpace` promises |
| `ProcessMemoryProofs` | proofs about `ProcessMemory` | extends it |
| `VfDecrypt` | `vfdecrypt`: `decrypt_parallel` and `Read` | |
| `DmgFile`, `DmgWriter` | what is in a disk image, and writing one | |
| `FlatPartition` | what the partition reader promises: bytes and a position | |
| `DmgReader` | copying, reading and searching a partition, with its cache | refines `FlatPartition`, in `DiskImage` |
| `DiskImage`, `MCDiskImage` | write, encrypt, decrypt, read | composes `DmgWriter`, `VfDecrypt`, `DmgReader` |
| `DiskImageProofs` | proofs about the whole way, from writer to reader | extends `DiskImage` |

A module with small constants gives them in its `.cfg`; where the constant is
a volume, a set of records or a table of chunks, an `MC` module defines it.  Definitions
introduced by the words "A slip" are not used by the specifications: each is
the form a definition would have with a plausible bug in it, and shows that
the property named with it in `PROJECT.json` notices.

### Scheduler

State: `queue`, `current`, `nextPid` and `is64` are the scheduler and its
counter.  Registers are reduced to whose they are: `ctx[t]` is the saved
`CpuContext` of thread `t`, with the thread whose registers were stored in it
and where that thread resumes; `frame[t]` the trap frame at the top of its
kernel stack; `onCpu` the thread whose registers are in the CPU; `user` the
program whose state is in the CPU while user code runs; `tls` the two TLS
registers.  `pending` holds the two pointers that `schedule_next` hands out.

Control is a phase.  `KmainStart` is the end of `kmain`; `Svc`, `UserFault`,
`KernelFault` and `DumpFault` are the exceptions, each counted as the code
counts it; `SysYield`, `SysSpawn`, `SysExit` and `OtherSyscall` are the
dispatcher's arms; `SwitchTo` is `__switch_to` up to `kernel_thread_starter`
or the return into `sys_yield`; `Eret` is the tail of `sync_handler`.
`SysYield` and `SwitchTo` are two steps because the lock is released between
them.  The phases in `Stopped` are the `wfe` loops; nothing leaves them.

A process also has a `ProcessState`.  The code only ever sets it to `Ready`
and never reads it, so it is not modelled.

### MachIpc

One port space is enough: a call uses the space of the current process and
holds the lock.  `ports` is the map of names to queues.  `MachMsgSend`,
`MachMsgReceive` and `MachMsgSendReceive` are one call with the send option,
the receive option or both; the last does the receive on what the send left,
which is where a host RPC finds its answer.  A message is the number of the
send that made it, its length and whether it is a reply: `handle_host_rpc`
writes replies of one size, whose fields no property is about.  A receive
takes the newest message (`Vec::pop`), as the code does.

### VirtioBlk

Driver and device are two actors.  `Submit` is `read_at` and `read_sectors` up
to the notification, `PollDone` and `PollTimeout` are the two ways out of the
polling loop; `DeviceFetch` and `DeviceComplete` are the device, which takes
the sector from the one shared header when it fetches, completes in any order,
and may say that it failed.  What the driver does after a timeout is what the
code does: nothing is taken back, the descriptors and the header are used
again, and `last_used_idx` is left behind.  A byte of the disk is its own
address, so a buffer says where its bytes came from.

### AddressSpace and PageTables

`Init` is the tables `mmu::init` has built when it turns the MMU on; the ranges
it maps after that are calls like any other.  `MapRange` starts a call;
each later step is one turn of its loop: `MapInTable`, `MapInNewTable`,
`MapInSplitBlock`, the panic for want of a table, and `MapBeyondL1` for
indices the top table does not have.  `Translate` is the walk of the MMU
and is used by properties only.  Sizes are parameters: a page, a table, both
pools and the part of L1 that the MMU looks at.

### FileStack

`fds` is the descriptor table of one process, a handle being its position, its
decompressed contents and the size it reports; `buf` is the one `BufReader`
with the position of the device under it; `call` is the system call under way
and `rd` the `read_internal` under way.  `Open`, `Stat`, `Close`, `Read`,
`Pread`, `Mmap` and `SharedRegionMap` start calls.  The first three of these are
one read at the position of the descriptor (`HandleRead`): the offset that
`pread` and `mmap` are given is remembered and, as in the code, not used.  Then `CheckCompression`,
`HeaderPlain`, `HeaderCompressed`, `StepRead` and the `ReadToEnd` actions are
`check_compression` with its formats, `SeekExtent` and `BufRead` are
`read_internal` on the buffer, and `CopyFromCache` is the read of a file whose
contents are in memory.  The last resort of `check_compression`, a resource
fork that is itself one zlib stream (`lib.rs:1046`), is not modelled.  `DeviceFails` can replace any read of the device and
takes the caller's error path.  What a compressed file's blocks inflate to is
a function of the bytes read, so that wrong bytes give wrong contents.

The open of a file reads a node of the catalog that is not the first, which
stands for the whole lookup here; the lookup itself is `Catalog`.

### Catalog

The tree is chosen in `Init`: the records sorted, cut into leaves in every
possible way, with as many levels of index as that takes, names folded or not.
A query reads one node a step.  `Descend`, `NextLeaf` and `NoSuchKey` are
`get_record`; the `Found` actions are what `get_path_record` and `list_dir` do
with what it gives, `RangeDescend` and `RangeLeaf` are `get_record_range`.
`NodeFails` is an error of the read below.

### SetupPipeline

A file of the work directory is a number of pieces of one build.  `Run` starts
the tool with arguments the user chooses; `Skip` and the stages are `main` in
its order, `WriteInBackground` is the write that `tokio::fs` has accepted and
not done.  `CreateImage` finds the partition and empties the image, or panics
when the first chunk is none that could hold a volume header (`NoPartition`).
`TakeChunk`, `CopyChunk` and `ChunkError` are the threads that fill the image.
`ChunkType` is what a build's table says of each chunk: one of an unknown type
is an error, raw and zlib chunks are copied, and all others are done with when
their type is known, those the code cannot unpack (Adc, Bzlib, Lzfse)
included: it passes over them (`main.rs:432`).  The code holds no copy to the
mapping, so `CopyOutside` lets one past its end kill the process or pass
unnoticed.  `Kill`, `Fail` and `Remove` are a killed process, an error of the
system and a user who deletes a file.

### ProcessMemory

Addresses are words, of which a page has a few.  `owners` is who has a piece of
the heap and at what address it is used: `KernelAlloc` and `KernelFree` use a
piece at its own address, `MmapAnywhere` and `PlaceFixed` map it first and have
the program fill it there; `by` in `owners` is who chose the address.  `PlaceFixed` is a segment the loader places, a
mapping of the shared region or an `mmap` with an address: the same four steps
in three places, take memory, zero it, map it and fill it.  `xlat` is the one
translation, changed as `PageTables` was shown to change it, and `mem` the
words of the heap, reached through it.  The allocator is an external crate; it
is modelled as giving the first hole that is large enough.

### VfDecrypt

An encrypted byte is known by its place in the data.  `DecryptChunk` gives the
plain byte if the block of the cipher it is in is chained to the block before
it, or is the first of its chunk and has the vector of that chunk's number;
anything else comes out garbled.  `DecryptParallel`, `FillBatch`, `Filled`,
`Worker` and `WriteBatch` are the loop of `decrypt_parallel`: a read may give
less than was asked for, each chunk of a batch is taken by some thread, and an
error may end it after a part of the batch was written.  `Read` is the other
way out, a piece at a time; `short` records that some read below it ended
inside a chunk.  `New` tells the two formats apart by the mark at the start or
at the end of the file.

### DmgFile, DmgWriter, DmgReader, FlatPartition and DiskImage

A file is a row of cells: a byte of a raw chunk, a piece of a compressed one,
the list of tables, or a half of the trailer.  A compressed chunk is as many
cells as the compressor chose, each knowing the bytes it was made of; only all
of them in order inflate.  `AddPartition` cuts a partition into chunks and
enters each into a table, whose `AddChunk` counts sectors from the start of the
partition; `Finish` writes list and trailer.  `Open`, `CopyPartition` and
`IntoPartitionReader` are `DmgReader`; `Read`, `ReadChunk`, `ReadPastEnd`,
`LoadFails` and `SeekAny` are the partition reader, with `ChunkAt` for
`get_chunk_at_pos` and `CacheUse` for `load_chunk`.  A read that finds a chunk
used up calls itself, so each call is a step.  Kinds of chunk the code does not
implement stop it, as `unimplemented!()` does.

`FlatPartition` has no chunks: a read gives bytes from the position on and
moves past them, a call that fails moves nothing.  Sectors that a chunk claims
and does not hold are holes, which a read passes over.

`DiskImage` puts the three together as they meet in files: what `DmgWriter`
wrote, or an image made elsewhere, is encrypted (by its maker, external), goes
through `VfDecrypt`, and what comes out is opened by `DmgReader`.  A byte that
came out garbled is noise to it.

## 3. Runs

| run | what it asks | bounds | why they are enough |
|---|---|---|---|
| `scheduler` | no process lost, doubled or overtaken; switches between owners; programs resume where they left; the queue is a ring | 4 processes, 11 exceptions | four processes give a queue of three, the first in which front, middle and back differ; 11 exceptions let all be spawned and yield round once |
| `mach_ipc` | queues bounded and ordered, nothing lost or doubled, an RPC returns its reply | 5 messages, 2 ports with a queue limit of 1 | the limit is passed on both ports, then messages are dropped, put back and received |
| `virtio_blk` | right bytes for every alignment, an answer from before is no success, every read returns | 2 sectors of 2 bytes, ring of 4, indices modulo 4, 1 timeout and what follows it | descriptors, rings and indices wrap at different times; a late answer can meet the next request at each step of it |
| `page_tables` | the pages asked for change and no other, tables are not shared, all of the range is mapped | 4 L1 entries of which 2 are translated, tables of 2, pools of 1 and 4, 2 calls of up to 5 units | a range crosses an L3 table, an L2 table and the end of the translated space, splits blocks and empties both pools |
| `file_stack` | a read gives the bytes at the position or nothing; what is unpacked starts as the file does; a segment holds the file; calls return | a file of each kind, 2 free descriptors, a buffer of 3, 4 calls | open, a call on one descriptor, a call on another and a call that uses what they left in buffer and handle |
| `catalog` | paths, listings, one node a level, an end | 9 records, up to 2 names, index nodes of 2 | trees of one, two and three levels; a folder's records over one leaf, several, and at the end of one |
| `disk_image` | plain data in order; a partition is read, copied and searched as the bytes it was made of; the cache holds what was used last | 4 images (two partitions written in up to 2 chunks; one with 6 chunks of every kind; one with a short chunk; one of an unknown kind), 5 encryptions, a cache of 2, reads of up to 3 bytes | several batches of several chunks with a short last one; more chunks than the cache; a partition that is not the first; positions before, in, between and past the chunks |
| `process_memory` | everyone finds the words they stored | heap of 4 pages of 2 words, 5 pieces of memory, lengths of 1 and 3, fixed addresses below the heap, in the middle of a page, and in the heap where `mmap` begins | pieces that end inside a page, freed and taken again, `mmap` twice, a fixed mapping over another and over `mmap`'s, the heap full, the heap grown to pages that were given out |
| `setup` | a run that ends well leaves the chunks of one filesystem and zeros; whole files are kept | 4 builds (as made by Apple, with a chunk passed over, with an unknown one, with no partition to be found), 3 offsets of which the last is too great, files of 2 pieces, 3 chunks, 2 threads, 3 runs | a partial file of each kind, then a run that meets it, then one more; a copy inside, at the end and past the end of the image |

The three runs below are expected to end in a violation.  Each checks one
statement that a comment or a message of the repository makes, against what
the code does.

| run | statement | what the code does |
|---|---|---|
| `scheduler_tls` | `switch.s` restores the next context; the TLS base of a thread is set when it starts | the TLS registers are set at a thread's first start only; resumed after another has started, it runs with the other's |
| `file_pread` | "pread(fd, buf, len, offset)", "mmap(addr, len, prot, flags, fd, offset)" | both read at the position of the descriptor and move it; the offset is not looked at |
| `setup_skip` | "IPSW already downloaded, skipping." | said of any file of that name, and a killed download leaves a part of one |

Two other disagreements were met that no run shows, because the models do what
the code does.  The split of a block says "Out of L3 tables!" with the last
table still free, since the index is counted up before it is tested
(`mmu.rs:251`, action `MapInSplitBlock`).  The counter of exceptions stops the
kernel at the 101st, with the comment "Probably a loop in exception handler"
(`process.rs:28`), but counts every system call and is never set back (action
`Count`).

### Fairness

Safety properties need none.  Three runs check that something ends:

* `virtio_blk`: weak fairness of `PollDone` and `PollTimeout`.  The driver
  holds the CPU and counts its polls to a million; nothing is assumed of the
  device, not even that it ever fetches.
* `file_stack`: weak fairness of the steps of a call that has begun.  It holds
  the CPU and a lock, and by `EveryReadReturns` the driver below returns.
  Which of success and failure a read has is not assumed.
* `catalog`: weak fairness of the steps of a query.  It is a loop of the thread
  that asked; that a node fails is never required.

Nothing is claimed of `scheduler`: a program may run for ever without a system
call, and no timer takes the CPU from it.

### Restrictions that are part of a property

* `ReadGivesDiskBytes` and `NothingOutWhenIdle` speak of reads before the first
  timeout.  After one, the late answer may be taken for the next request's;
  `TrueOnlyIfAnswered` says what is left of the promise then.
* `ReadGivesFileBytes` speaks of `read`, since `pread` and `mmap` give other
  bytes than those they are asked for (`file_pread`), and of handles that are `Trusted`: plain files, files
  whose contents are in memory, and files unpacked in the same call from the
  start without an error.  A compressed file whose first read fails half way
  is left as the code leaves it, at a position inside its compressed bytes.
* `RegionHoldsFile` leaves out a compressed file that is not unpacked yet: the
  size the mapping is cut to is then the size of the compressed fork.
* `CacheIsPrefix` does not say that all of a file is unpacked: an error in the
  middle of it is taken for its end (`lib.rs:880`), and what was read is kept.
* `OwnersKeepTheirWords` speaks of `PlacedApart`: so far every fixed address
  was that of a page, and no page of a program has, at its own address, a word
  of the heap that was ever in use.  The code looks at neither
  (`process.rs:525`), and the second ends without any program's doing when the
  heap has grown into addresses that `mmap` has given out (at 256 MiB): from
  then on the kernel's own objects are at addresses that are mapped elsewhere,
  and they do lose words.  The model goes on there, nothing is claimed.  Where a
  program maps over another mapping by naming an address, or `mmap` comes to
  an address that was named before, the words there are not the earlier owner's
  any more (`Replaced`).  A length is not 0.
* `PlaintextInOrder` speaks of `Read` only while no read below it ended within a
  chunk: each is taken for one chunk (`lib.rs:441`).  Of the last bytes, those
  short of a block of the cipher come out as they are in the file.  The key is
  the right one, and a file is read through `Read` or through
  `decrypt_parallel`, not both.
* `RefinesFlatPartition` and `CopyIsThePartition` speak of images whose tables
  are sorted and have no gaps.  An image of the old format is decrypted with
  its trailing header in place, so the reader does not find the trailer and
  refuses it, in the model as in the code.
* `ListingIsTheFolder` includes the folder's own thread record, as `list_dir`
  returns it.
* `PathFindsItsRecord` says "the file's record", not that the record's fields
  are read rightly.
* `ImageIsAFilesystem` asks for one build's filesystem, not the build the run
  was called with: after a change of `--build` in a directory with files the
  tool uses them, as `setup_skip` shows.  The filesystem is its raw and zlib
  chunks: where one is packed otherwise the run ends well with zeros there,
  which the property says and nothing in the repository forbids.  It says what
  is in the image only where the filesystem fits it (`Fits`), since past the
  end of the mapping the behaviour is undefined.

## 4. Proofs

Eight modules of proofs, one for each model they extend, hold for every value
of the constants that satisfies the named assumption of the model. The
assumptions are what the code has by construction: sizes and limits are natural
numbers, those that are divided by are not 0, a virtio queue has room for the
three descriptors of a request and divides the range of its indices, the heap
begins and ends with a page, the block of an encrypted image is a multiple of
the cipher's. Two are of the data: `VolumeAssumption` of
`FileStack` says that the volume is a sound one, each fork inside its extents,
these on the disk, and the table of a compressed file inside its fork.
`SourcesAssumption` of `DiskImage` says that partitions to be written are whole
sectors, and that an image made elsewhere has tables that describe its
partitions: chunks one after the other from the first sector to the last, each
with data that gives the bytes of its part, or fewer where it has less than its
sectors. Of a chunk of a kind the code does not implement it asks nothing. Of
the images `DmgWriter` makes nothing is assumed: that they are like this is
proved. TLC evaluates each of them on a run.

None of the safety properties is inductive by itself. Each module states an
`IInv` (`Inv` in `FileStackProofs`) that is, proves `Init => IInv` and a lemma
for each action with a step for each part of `IInv` it can disturb, and derives
the theorems from it. `Invariance` says that it holds throughout, in each of
them; `TypeCorrect` is `Spec => []TypeOK`.

### SchedulerProofs

That a program resumes where it left says nothing of programs that do not run,
and only what is known of those can be known of the next one.  `IInv` adds
`FramesHoldResumePoints`: the frame on the stack of a thread suspended in
`sys_yield` is the place its program must resume at, as is that of the thread
inside the kernel, and a thread that was never on the CPU has made no system
call; and `ControlState`: before the first switch there is no process, and the
target of a switch is never `kmain`.

| theorem | statement |
|---|---|
| `NoProcessLost` | `Spec => []EachProcessOnce` |
| `SwitchSafe` | `Spec => []SwitchIsBetweenOwners`: the pointers kept over the unlock are right when used |
| `ContextPreserved` | `Spec => []ResumesWhereItLeft` |
| `FirstComeFirstServed` | `Spec => NoOvertaking` |
| `ImplementsRoundRobin` | `Spec => RefinesRoundRobin`; a yield rotates the ring |

### MachIpcProofs

`IInv` is `Sound`, of the map of queues, and `Gone`, of the message the last
call returned.  `Sound` is bounded, ordered, and no send on two ports; it is
stated of any map, because a call that sends and receives does the second on
what the first left, a state nobody else sees.  A message put back by a
receive without room is in its place again because it was the newest.

| theorem | statement |
|---|---|
| `QueuesStayOrdered` | `Spec => []QueuesInSendOrder` |
| `NoMessageTwice` | `Spec => []EachMessageOnce` |
| `NoMessageLost` | `Spec => LeavesByReceiptOrOverflow` |
| `RpcGetsItsOwnReply` | `Spec => RpcReturnsItsReply` |

### VirtioBlkProofs

`InStep` says where the one request is while nothing has timed out: in the
available ring, with the device, or answered, with the ring indices one apart
or equal accordingly.  The indices are numbers modulo the width of a
register, which the queue divides, so that slot and index wrap together.
After a timeout only the typing and `status = 0 => answered` are left, which
is what `TrueIsAnswered` needs.

| theorem | statement |
|---|---|
| `ReadIsRight` | `Spec => []ReadGivesDiskBytes` |
| `NothingOut` | `Spec => []NothingOutWhenIdle` |
| `TrueIsAnswered` | `Spec => TrueOnlyIfAnswered` |

### PageTablesProofs

`Structure` says of each level that a table is reached from one entry, and that
those reached are the ones taken from the pool so far; `JobOK` is the position
in the range, `RangeInHand` what the walk gives for the part of it that is done.
That a step leaves every other page's translation alone follows from the
tables being apart, so refinement and range rest on the sharing.

| theorem | statement |
|---|---|
| `NoTableShared` | `Spec => []TablesNotShared` |
| `RangesMapped` | `Spec => WholeRangeMapped` |
| `ImplementsAddressSpace` | `Spec => RefinesAddressSpace` |

### SetupPipelineProofs

`FilesInWork` says which file a stage is adding to and that what `tokio` has
not written yet still fits; `PoolOK` that a chunk is waiting, in one thread's hand
or done; `ChunksInPlace` that, while nothing failed, the image is the filesystem
but for the chunks waiting or in hand, as far as it fits.  Of the tables
nothing is assumed: a chunk may be of any type and at any place.

| theorem | statement |
|---|---|
| `ImageIsWhole` | `Spec => []ImageIsAFilesystem` |
| `WholeFilesStay` | `Spec => WholeFilesAreKept` |

### ProcessMemoryProofs

Programs may ask for any address.  `Typed` and `Apart` (pieces of the heap
share no word and lie below its top), `Identity` (a page no program was given
is mapped to itself) and `Placed` (the kernel has its pieces at their own
address, `mmap`'s lie before the address it has come to) hold throughout;
`Kept`, that a piece holds its owner's words and is reached at its owner's
address unless it was replaced, while `PlacedApart` does.  `PlacedApart` never
becomes true again once it is false, so it may be assumed of the state before a
step when it holds after: then the heap in use is on pages of the kernel's own,
which a step cannot have mapped away.

| theorem | statement |
|---|---|
| `MemoryIsKept` | `Spec => []OwnersKeepTheirWords` |

### DiskImageProofs

What came out is right only if what is still inside is: `Sound` says where in
the data the input stands, that the batch starts at a chunk, is whole but for
its last chunk, and which chunks of it the threads have decrypted; for `Read`,
that the piece at hand is the data from the bytes given out, and that the input
is at a boundary of a chunk unless a read was short.  `Init` does not
establish it: it begins when an image is there, hence the case in `IInv`.

The cache has an invariant of its own, `CacheInv`: what is cached is the set
of the chunks used last, in the order of the code's own list.  It holds
whatever the tables of the image say.

That a partition comes back takes the whole way, and each part of `AllInv` is
proved from those before it:

* `WriterInv`: while `add_partition` goes piece by piece, every table that is
  done `Describes` its partition from the data written so far, and more data
  does not disturb it; what is finished is an image of the source;
* `ImageMade`, with `Parallel`: no cell past the last whole block of the cipher
  comes out plain.  With `PlaintextInOrder` this gives `TablesAre`: a
  list of tables that is found in what came out is the one that was written,
  and the data it speaks of is there;
* `ReaderInv`: the table at hand describes the partition, and each entry of the
  cache is what its chunk has.

`CopyIsRight` follows by comparing what is gathered chunk by chunk with what
is gathered byte by byte, at the end of each chunk.  `ImplementsFlatPartition` goes
action by action: a position whose sector a chunk covers is in that chunk, what
a read gives of it is a part of the partition, what it passes over at the end of
the chunk are holes, and the size a search is measured from is the length of
the partition, `TotalSizeIs`.  That size is a sum over a *set* of chunks, a
fold: it is proved equal to the sum in order by removing one member at a time
(`SumsMeet`), sets and sequences both by the least counterexample.

| theorem | statement |
|---|---|
| `AllInvariance` | `Spec => []AllInv` |
| `PlaintextIsInOrder` | `Spec => []PlaintextInOrder`: for `decrypt_parallel` whatever reads return, for `Read` while none stopped short |
| `CacheIsLru` | `Spec => []CacheIsMostRecent` |
| `CopyIsRight` | `Spec => []CopyIsThePartition` |
| `ImplementsFlatPartition` | `Spec => RefinesFlatPartition` |

### FileStackProofs

A read crosses extents, refills and formats in many steps, and each only knows
what the one before left in the buffer and in the handle, which other calls
used in between.  `Inv` says of

* every handle (`GoodHandle`): it is raw, at a position within its fork with
  the fork's size, or it holds a prefix of the file's contents;
* the read under way (`ReadOK`): the bytes got are those of the fork from the
  position on, and where more are needed, they are in one extent and the
  buffer, or the device when nothing is buffered, stands at the next of them.
  Between reads nothing is said of what the buffer holds: it may be another
  file's bytes, or what a failed refill left.  That is enough because a read
  seeks first, and a seek forgets the buffer;
* the unpacking under way (`UnpackOK`): at step *k* of the plan `raw` is what
  its first *k* - 1 reads gather, and for a read to the end the pieces so far;
* the promise of the call (`ReadPromise`, `RegionPromise`): what of
  `ReadGivesFileBytes` and `RegionHoldsFile` must hold half way for them to
  hold at the end, such as that a handle that was at the start when a
  call began, and has met no error, is at the start again once unpacked.

`Gathered`, the begin of an extent and the concatenation of chunks are
recursive functions; that they exist and what they give is proved by the
least counterexample.

| theorem | statement |
|---|---|
| `ReadIsRight` | `Spec => []ReadGivesFileBytes` |
| `CacheIsRight` | `Spec => []CacheIsPrefix` |
| `RegionIsRight` | `Spec => []RegionHoldsFile` |

### Only model-checked

* Liveness (`EveryReadReturns`, `CallsReturn`, `QueriesEnd`): the prover
  does not reach it.
* Everything in `Catalog`: its trees are laid out by counting which records
  are below which, and its answers are compared with walks of the records by
  name, so a proof is first of all one about the layout; it has not been done.

Invariants over sequences that do need induction on a position (which batch a
byte of the data is in, how far a range is mapped) are proved by the least
counterexample, from the well-foundedness of `<` on the natural numbers.

## 5. What is not modelled

* Boot, the console, the device tree, PCI, the negotiation with the device
  and the commpage: they run once, before there is a second actor.
* The parsing of Mach-O files, one pass over load commands; the stack and TLS
  the first process gets, mapped where they are before any program runs.  What
  they ask of the heap and of the page tables is `PlaceFixed` and `map_range`.
* System calls that return a constant or copy a value out, and the signal
  mask: no signal is ever delivered.
* The fields of structures on disk, the Unicode tables that fold names, and
  what zlib does: data without control.  `Catalog` folds letters, `FileStack`
  inflates bytes, by functions that keep different inputs apart.
* More than one CPU, and interrupts: the kernel starts no other CPU and masks
  interrupts throughout.
* `dyld`: nothing in the repository loads it.  The kernel opens `/usr/lib/dyld`
  of the firmware, which is Apple's, and `TODO.md` has a dyld in Rust as a thing
  to do.  It is one pass over opcodes at the start of a program.
* Of `apple-dmg`: the FAT filesystem and boot record that `create_dmg` puts into
  an image, checksums, and the fields nothing reads.  Of `vfdecrypt`: getting
  the key out of a passphrase.
* The downloader, `ipsw` and `linker-wrapper`: stateless.

## 6. Plan

Modelled first was what everything else runs under (the scheduler), then what
is beside it (messages, device, memory), then the way down from a file call to
the disk, the tool that makes the disk, and the formats it goes through.  Next:

1. Proofs of what is left: `Catalog`'s searches.
2. `FileStack` over the promise of `VirtioBlk`, and `Catalog` below its `Open`.
3. The opcodes of `dyld` once something loads it.

## 7. Running it

    tlc -config Scheduler.cfg Scheduler.tla
    tlc -config FileStack.cfg MCFileStack.tla
    tlc -config SetupPipeline.cfg MCSetupPipeline.tla
    tlc -config DiskImage.cfg MCDiskImage.tla
    tlapm SchedulerProofs.tla        (and each other *Proofs.tla)

Each run takes less than two minutes on two cores, the longest proof
(`DiskImageProofs`) a quarter of an hour; `PROJECT.json` lists all of
them, the lines of the source each definition stands for, and the hazards.
