------------------------------ MODULE DmgFile ------------------------------
(***************************************************************************)
(* What is in a disk image, for its writer and its reader (lib/apple-dmg): *)
(* the chunks of the partitions, a property list with the tables that say  *)
(* where each chunk is, and a trailer that says where the list is.  A cell *)
(* of a file is a byte of a raw chunk, a piece of a compressed one, the    *)
(* list, or a half of the trailer.                                         *)
(***************************************************************************)
EXTENDS Integers, Sequences, FiniteSetsExt, SequencesExt

CONSTANTS SectorSize,    \* 512
          ChunkSectors   \* 2048, the sectors the writer puts into a chunk

Kinds == {"zero", "ignore", "raw", "comment", "zlib", "adc", "term"}

Raw(bytes)       == [i \in DOMAIN bytes |-> <<"raw", bytes[i]>>]
Stream(bytes, n) == [i \in 1..n |-> <<"stream", bytes, i, n>>]
Noise            == 0 - 1    \* what no writer wrote

\* BlkxChunk, and a BlkxTable with the sectors it counts.
Chunk(kind, sector, count, offset, length) ==
  [kind |-> kind, sector |-> sector, count |-> count, offset |-> offset, length |-> length]
EmptyTable == [sectors |-> 0, chunks |-> <<>>]

\* BlkxTable::add_chunk: sectors are counted from the start of the partition.
AddChunkAsIs(table, chunk) ==  \* A slip: the number the writer gave it.
  [sectors |-> table.sectors + chunk.count, chunks |-> Append(table.chunks, chunk)]
AddChunk(table, chunk) ==
  [sectors |-> table.sectors + chunk.count,
   chunks  |-> Append(table.chunks, [chunk EXCEPT !.sector = table.sectors])]

\* The property list and the trailer, the last bytes of which mean nothing.
KolySize == 2
Trailer(tables, at) == << <<"plist", tables>>, <<"koly", at, 1>>, <<"reserved">> >>
=============================================================================
