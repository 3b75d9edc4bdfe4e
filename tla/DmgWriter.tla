----------------------------- MODULE DmgWriter -----------------------------
(***************************************************************************)
(* Writing a disk image: DmgWriter of lib/apple-dmg/lib.rs.  Partitions    *)
(* are added one after the other, cut into chunks that are compressed to a *)
(* length nobody knows beforehand.                                         *)
(***************************************************************************)
EXTENDS DmgFile

CONSTANT MaxStream   \* most cells a chunk compresses to

VARIABLES
  parts,             \* the partitions that are still to be added
  w,                 \* the cells written
  sectorNumber, compressedOffset, tables,
  writer             \* "writing", "finished" or "failed"

NumPieces(bytes) ==
  (Len(bytes) + ChunkSectors * SectorSize - 1) \div (ChunkSectors * SectorSize)
Piece(bytes, i) ==
  LET n == ChunkSectors * SectorSize
  IN SubSeq(bytes, (i - 1) * n + 1, Min({i * n, Len(bytes)}))

\* One turn of add_partition's loop: a piece is compressed to a length, written
\* and entered into the table.
AddPiece(acc, piece, length) ==
  LET sectors == Len(piece) \div SectorSize
  IN [w      |-> acc.w \o Stream(piece, length),
      sector |-> acc.sector + sectors,
      offset |-> acc.offset + length,
      table  |-> AddChunk(acc.table, Chunk("zlib", acc.sector, sectors, acc.offset, length))]

\* The loop over the pieces, compressed to these lengths.
Pieces(bytes, lens) ==
  LET after[i \in 0..NumPieces(bytes)] ==
        IF i = 0 THEN [w |-> w, sector |-> sectorNumber, offset |-> compressedOffset,
                       table |-> EmptyTable]
        ELSE AddPiece(after[i - 1], Piece(bytes, i), lens[i])
  IN after[NumPieces(bytes)]

AddPartition ==
  /\ writer = "writing" /\ parts # <<>>
  /\ \E lens \in [1..NumPieces(Head(parts)) -> 1..MaxStream] :
       LET end == Pieces(Head(parts), lens)
       IN /\ w' = end.w /\ sectorNumber' = end.sector /\ compressedOffset' = end.offset
          /\ tables' = Append(tables,
                              AddChunk(end.table, Chunk("term", end.sector, 0, end.offset, 0)))
  /\ parts' = Tail(parts) /\ UNCHANGED writer

Finish ==
  /\ writer = "writing" /\ parts = <<>> /\ writer' = "finished"
  /\ w' = w \o Trailer(tables, Len(w))
  /\ UNCHANGED <<parts, sectorNumber, compressedOffset, tables>>

\* An error of the file ends it: create_fat32 drops the writer.
WriteFails ==
  /\ writer = "writing" /\ writer' = "failed"
  /\ UNCHANGED <<parts, w, sectorNumber, compressedOffset, tables>>

WriterNext == AddPartition \/ Finish \/ WriteFails
=============================================================================
