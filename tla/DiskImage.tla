----------------------------- MODULE DiskImage -----------------------------
(***************************************************************************)
(* A disk image on its way: written by DmgWriter or given (Apple's), then  *)
(* encrypted, then decrypted as gravity-setup does with decrypt, or read   *)
(* through Read, and what decrypt wrote opened by DmgReader.  Each part is *)
(* a module of its own; here is what passes from one to the next.          *)
(***************************************************************************)
EXTENDS Integers, Sequences, Functions, FiniteSetsExt

CONSTANTS
  Sources,      \* [parts, file]: the bytes of the partitions, and the file that
                \* holds them unless it is still to be written (then <<>>)
  Encryptions,  \* [magics, block, offset, pad]: how the file gets encrypted
  SectorSize, ChunkSectors, MaxStream,
  CipherBlock, BatchLimit, BlockV1, TrailerV1, Wants,
  CacheMax, Lengths, Deltas, MaxPast, Hole

ASSUME DiskImageAssumption ==
  /\ {SectorSize, ChunkSectors, MaxStream, CacheMax} \subseteq Nat \ {0}
  /\ {CipherBlock, BatchLimit, BlockV1, TrailerV1} \subseteq Nat \ {0}
  /\ BlockV1 % CipherBlock = 0
  /\ Wants \cup Lengths \cup {MaxPast} \subseteq Nat /\ Deltas \subseteq Int
  /\ \A e \in Encryptions :
       {e.block, e.pad} \subseteq Nat \ {0} /\ e.offset \in Nat /\ e.block % CipherBlock = 0
  /\ \A s \in Sources :
       s.parts \in Seq(Seq(Int)) /\ s.file \in Seq(Range(s.file))

VARIABLES
  source, index,                                        \* what is sent, and which
  parts, w, sectorNumber, compressedOffset, tables, writer,
  img, at, chunkNo, totalOut, buffer, bufferPos, todo, output, phase, short,
  reader, chunks, copied, pos, cache, cacheOrder, want, got, used

Writer == INSTANCE DmgWriter
Vf     == INSTANCE VfDecrypt

\* The file decrypt leaves: what came out as plain is what went in.
Decrypted ==
  [i \in DOMAIN output |-> IF output[i] \in {Vf!Plain(x) : x \in 0..Len(w) - 1}
                           THEN w[output[i][2] + 1] ELSE <<"noise">>]

Reader == INSTANCE DmgReader WITH file <- Decrypted

Flat == INSTANCE FlatPartition WITH content <- source.parts[index], Error <- Reader!Err

-----------------------------------------------------------------------------
(* What an image is.  The data d of one is its cells up to the tables.     *)

ChunkRecords == [kind : Writer!Kinds, sector : Nat, count : Nat, offset : Nat, length : Nat]

\* Where a chunk begins and ends in its partition.
From(c) == c.sector * SectorSize
Upto(c) == (c.sector + c.count) * SectorSize

\* The data says that a chunk has the bytes b.
Holds(d, c, b) ==
  \/ /\ c.kind \in {"zero", "ignore"}
     /\ Len(b) = c.count * SectorSize /\ \A j \in 1..Len(b) : b[j] = 0
  \/ c.kind \in {"comment", "term"} /\ Len(b) = 0
  \/ /\ c.kind = "raw" /\ Len(b) = c.length /\ c.offset + c.length <= Len(d)
     /\ \A j \in 1..c.length : d[c.offset + j] = <<"raw", b[j]>>
  \/ /\ c.kind = "zlib" /\ c.length > 0 /\ c.offset + c.length <= Len(d)
     /\ \A j \in 1..c.length : d[c.offset + j] = <<"stream", b, j, c.length>>

\* They are the bytes of its part of the partition, and holes follow.
Fills(b, c, part) ==
  /\ From(c) + Len(b) <= Upto(c)
  /\ \A j \in 1..Len(b) : part[From(c) + j] = b[j] /\ b[j] \in Nat \ {Hole}
  /\ \A p \in From(c) + Len(b) + 1..Upto(c) : part[p] = Hole

ChunkOK(d, c, part) ==
  /\ Upto(c) <= Len(part) /\ (c.kind = "term" => c.count = 0)
  /\ c.kind # "adc" => \E n \in 0..c.count * SectorSize :
       LET b == SubSeq(part, From(c) + 1, From(c) + n) IN Holds(d, c, b) /\ Fills(b, c, part)

\* A table has chunks one after the other that give all of the partition.
Sectors(list) == IF list = <<>> THEN 0 ELSE list[Len(list)].sector + list[Len(list)].count
Follows(list, i) == list[i].sector = IF i = 1 THEN 0 ELSE list[i - 1].sector + list[i - 1].count
Describes(d, list, part) ==
  /\ list \in Seq(ChunkRecords) /\ Len(part) = Sectors(list) * SectorSize
  /\ \A i \in DOMAIN list : Follows(list, i) /\ ChunkOK(d, list[i], part)

IsData(d) == d \in Seq(Range(d)) /\ \A i \in DOMAIN d : d[i][1] \in {"raw", "stream"}
IsImage(f, d, list) == IsData(d) /\ f = d \o Writer!Trailer(list, Len(d))

\* Partitions to be written are bytes in whole sectors; a file that is given is
\* an image with a table for each of its partitions.
ASSUME SourcesAssumption ==
  \A s \in Sources :
    IF s.file = <<>>
    THEN \A p \in DOMAIN s.parts :
           s.parts[p] \in Seq(Nat \ {Hole}) /\ Len(s.parts[p]) % SectorSize = 0
    ELSE \E d \in {SubSeq(s.file, 1, n) : n \in 0..Len(s.file) - 1} :
           LET list == s.file[Len(d) + 1][2]
           IN /\ IsImage(s.file, d, list)
              /\ \A p \in DOMAIN s.parts : Describes(d, list[p].chunks, s.parts[p])

-----------------------------------------------------------------------------
sourceVars == <<source, index>>
writerVars == <<parts, w, sectorNumber, compressedOffset, tables, writer>>
vfState    == <<at, chunkNo, totalOut, buffer, bufferPos, todo, output, phase, short>>
readerVars == <<reader, chunks, copied, pos, cache, cacheOrder, want, got, used>>
vars == <<sourceVars, writerVars, img, vfState, readerVars>>

Init ==
  /\ source \in Sources /\ index \in DOMAIN source.parts
  /\ w = source.file /\ sectorNumber = 0 /\ compressedOffset = 0 /\ tables = <<>>
  /\ IF source.file = <<>> THEN parts = source.parts /\ writer = "writing"
     ELSE parts = <<>> /\ writer = "finished"
  /\ img = <<>> /\ Vf!VfInit /\ Reader!ReaderInit

\* External: an image of the file, each chunk of it enciphered.
Encrypt ==
  /\ writer = "finished" /\ img = <<>>
  /\ \E e \in Encryptions :
       LET padded == ((Len(w) + e.pad - 1) \div e.pad) * e.pad
           tail   == IF e.magics = {"cdsaencr"} THEN TrailerV1 ELSE 0
       IN img' = [magics |-> e.magics, block |-> e.block, offset |-> e.offset,
                  size |-> Len(w), len |-> e.offset + padded + tail]
  /\ UNCHANGED <<sourceVars, writerVars, vfState, readerVars>>

Next ==
  \/ Writer!WriterNext /\ UNCHANGED <<sourceVars, img, vfState, readerVars>>
  \/ Encrypt
  \/ /\ img # <<>> /\ Vf!VfNext
     /\ UNCHANGED <<sourceVars, writerVars, readerVars>>
  \/ /\ phase = "done" /\ Reader!ReaderNext
     /\ UNCHANGED <<source, writerVars, img, vfState>>

Spec == Init /\ [][Next]_vars

-----------------------------------------------------------------------------
TypeOK == img # <<>> => Vf!VfTypeOK /\ Reader!ReaderTypeOK

PlaintextInOrder == img # <<>> => Vf!PlaintextInOrder

CacheIsMostRecent == Reader!CacheIsMostRecent

\* A partition of an image, written, encrypted and decrypted, is read and
\* searched through DmgPartitionReader as the flat run of bytes it was made of,
\* whatever chunks it is cut into, whatever is cached and whatever reads fail.
RefinesFlatPartition == Flat!Spec

\* The bytes that are there.
WithoutHoles(bytes) ==
  Reader!FlattenSeq([p \in DOMAIN bytes |-> IF bytes[p] = Hole THEN <<>> ELSE <<bytes[p]>>])

\* Copied whole (partition_data, copy_partition_to) it is the same bytes.
CopyIsThePartition ==
  copied \notin {<<>>, Reader!Err} => copied = WithoutHoles(source.parts[index])
=============================================================================
