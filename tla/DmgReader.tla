----------------------------- MODULE DmgReader -----------------------------
(***************************************************************************)
(* Reading a disk image (lib/apple-dmg/lib.rs): DmgReader, which copies    *)
(* whole partitions, and DmgPartitionReader, which reads anywhere in one   *)
(* and keeps the chunks it used last.  The file below may fail any read.   *)
(* A read that finds nothing in a chunk goes on with the next by calling   *)
(* itself, a step for each.                                                *)
(***************************************************************************)
EXTENDS DmgFile, FiniteSets, Functions

CONSTANTS CacheMax,      \* MAX_CACHE_CHUNKS, 256
          Lengths,       \* lengths asked of read
          Deltas,        \* distances given to seek
          MaxPast        \* bound on how far past the end a seek goes

VARIABLES
  file,                  \* the cells of the file
  index,                 \* the partition that is opened
  reader,                \* "closed", "image", "partition", "failed" or "panic"
  chunks,                \* its table
  copied,                \* what partition_data or copy_partition_to gave
  pos,
  cache, cacheOrder,     \* chunk -> its bytes, and the chunks, oldest use first
  want,                  \* the length of the read under way, 0 for none
  got,                   \* what the last call gave
  used                   \* every chunk that was read, by its last use (history)

Err == <<0 - 2>>    \* instead of bytes

ReaderInit ==
  /\ reader = "closed" /\ chunks = <<>> /\ copied = <<>> /\ pos = 0
  /\ cache = <<>> /\ cacheOrder = <<>> /\ want = 0 /\ got = <<>> /\ used = <<>>

-----------------------------------------------------------------------------
(* Opening.                                                                *)

\* KolyTrailer::read_from and the list it points to: the tables, or nothing.
Tables ==
  LET koly == file[Len(file) - KolySize + 1]
      list == file[koly[2] + 1]
  IN IF Len(file) < KolySize \/ koly[1] # "koly" THEN <<>>
     ELSE IF list[1] # "plist" THEN <<>> ELSE list[2]

Open ==
  /\ reader = "closed"
  /\ \/ reader' = "image" /\ Tables # <<>> /\ chunks' = Tables[index].chunks
     \/ reader' = "failed" /\ chunks' = chunks    \* not an image, or an error
  /\ UNCHANGED <<index, copied, pos, cache, cacheOrder, want, got, used>>

-----------------------------------------------------------------------------
(* The bytes of a chunk.                                                   *)

ZeroesPerSector(n) == [i \in 1..n \div SectorSize |-> 0]  \* A slip: sectors for bytes.
Zeroes(n) == [i \in 1..n |-> 0]
Cells(c)  == SubSeq(file, c.offset + 1, Min({Len(file), c.offset + c.length}))
RawBytes(cells) == [i \in DOMAIN cells |-> IF cells[i][1] = "raw" THEN cells[i][2] ELSE Noise]
IsStream(cells) == /\ cells # <<>> /\ cells[1][1] = "stream"
                   /\ cells = Stream(cells[1][2], Len(cells)) \* all of one

FromFile(c) == c.kind \in {"raw", "zlib"}

\* sector: a stream over the chunk; what it gives to the end, or an error.
Sector(c) ==
  CASE c.kind \in {"zero", "ignore"} -> Zeroes(c.count * SectorSize)
    [] c.kind \in {"comment", "term"} -> <<>>
    [] c.kind = "raw"  -> RawBytes(Cells(c))
    [] c.kind = "zlib" -> IF IsStream(Cells(c)) THEN Cells(c)[1][2] ELSE Err

\* partition_data and copy_partition_to: every chunk of the table in turn.
CopyPartition ==
  /\ reader = "image" /\ copied = <<>>
  /\ \A i \in DOMAIN chunks : chunks[i].kind # "adc"
  /\ \/ /\ \A i \in DOMAIN chunks : Sector(chunks[i]) # Err
        /\ copied' = FlattenSeq([i \in DOMAIN chunks |-> Sector(chunks[i])])
     \/ (\E i \in DOMAIN chunks : FromFile(chunks[i])) /\ copied' = Err
  /\ UNCHANGED <<index, reader, chunks, pos, cache, cacheOrder, want, got, used>>

CopyPanics ==  \* unimplemented!()
  /\ reader = "image" /\ \E i \in DOMAIN chunks : chunks[i].kind = "adc"
  /\ reader' = "panic"
  /\ UNCHANGED <<index, chunks, copied, pos, cache, cacheOrder, want, got, used>>

IntoPartitionReader ==
  /\ reader = "image" /\ reader' = "partition"
  /\ UNCHANGED <<index, chunks, copied, pos, cache, cacheOrder, want, got, used>>

TotalSize ==
  SectorSize * MapThenSumSet(LAMBDA i : chunks[i].count,
                             {i \in DOMAIN chunks : chunks[i].kind # "term"})

-----------------------------------------------------------------------------
(* The reader of a partition.                                              *)

Covers(i, sector) == /\ i \in DOMAIN chunks
                     /\ chunks[i].sector <= sector
                     /\ sector < chunks[i].sector + chunks[i].count

\* get_chunk_at_pos: the last chunk read, the one after it, or a search of the
\* table, which is sorted.
ChunkAt(p) ==
  LET sector == p \div SectorSize
      recent == IF cacheOrder = <<>> THEN {} ELSE {Last(cacheOrder), Last(cacheOrder) + 1}
      near   == {i \in recent : Covers(i, sector)}
  IN IF near # {} THEN {Min(near)} ELSE {i \in DOMAIN chunks : Covers(i, sector)}

\* What load_chunk puts into the cache: read_exact does not give a part.
Loaded(c) == IF c.kind = "raw" /\ Len(Cells(c)) < c.length THEN Err ELSE Sector(c)

\* A slip: a hit leaves the order alone.
StayInPlace(order, i) == IF i \in Range(order) THEN order ELSE Append(order, i)
ToBack(order, i) == Append(RemoveFirst(order, i), i)

\* The cache after chunk i was used; the oldest leaves when it is full.
CacheUse(i) ==
  LET full == i \notin DOMAIN cache /\ Cardinality(DOMAIN cache) >= CacheMax
      out  == IF full THEN {Head(cacheOrder)} ELSE {}
      keep == (DOMAIN cache \cup {i}) \ out
  IN /\ cacheOrder' = ToBack(IF full THEN Tail(cacheOrder) ELSE cacheOrder, i)
     /\ cache' = [j \in keep |-> IF j \in DOMAIN cache THEN cache[j] ELSE Loaded(chunks[i])]
     /\ used' = Append(RemoveFirst(used, i), i)

Read(n) ==
  /\ reader = "partition" /\ want = 0
  /\ want' = n /\ got' = IF n = 0 THEN <<>> ELSE got
  /\ UNCHANGED <<index, reader, chunks, copied, pos, cache, cacheOrder, used>>

ReadPastEnd ==
  /\ want > 0 /\ ChunkAt(pos) = {}
  /\ want' = 0 /\ got' = <<>>
  /\ UNCHANGED <<index, reader, chunks, copied, pos, cache, cacheOrder, used>>

\* load_chunk fails before it has touched the cache.
LoadFails ==
  /\ want > 0
  /\ \E i \in ChunkAt(pos) : i \notin DOMAIN cache /\ FromFile(chunks[i])
  /\ want' = 0 /\ got' = Err
  /\ UNCHANGED <<index, reader, chunks, copied, pos, cache, cacheOrder, used>>

LoadPanics ==  \* unimplemented!()
  /\ want > 0 /\ \E i \in ChunkAt(pos) : chunks[i].kind \in {"adc", "term"}
  /\ want' = 0 /\ reader' = "panic"
  /\ UNCHANGED <<index, chunks, copied, pos, cache, cacheOrder, got, used>>

ReadChunk ==
  /\ want > 0
  /\ \E i \in ChunkAt(pos) :
       /\ i \in DOMAIN cache \/ (chunks[i].kind \notin {"adc", "term"} /\ Loaded(chunks[i]) # Err)
       /\ CacheUse(i)
       /\ LET data == cache'[i]
              from == pos - chunks[i].sector * SectorSize
              n    == Min({want, Len(data) - from})
          IN \/ /\ n > 0 /\ want' = 0
                /\ got' = SubSeq(data, from + 1, from + n) /\ pos' = pos + n
             \/ /\ n <= 0 /\ UNCHANGED <<want, got>>   \* available == 0
                /\ pos' = (chunks[i].sector + chunks[i].count) * SectorSize
  /\ UNCHANGED <<index, reader, chunks, copied>>

\* A slip: a seek before the start is not refused.
SeekUnchecked(p) ==
  /\ reader = "partition" /\ want = 0 /\ p <= TotalSize + MaxPast
  /\ got' = <<>> /\ pos' = p
  /\ UNCHANGED <<index, reader, chunks, copied, cache, cacheOrder, want, used>>

Seek(p) ==
  /\ reader = "partition" /\ want = 0 /\ p <= TotalSize + MaxPast
  /\ IF p < 0 THEN got' = Err /\ pos' = pos ELSE got' = <<>> /\ pos' = p
  /\ UNCHANGED <<index, reader, chunks, copied, cache, cacheOrder, want, used>>

SeekAny(d) == Seek(d) \/ Seek(pos + d) \/ Seek(TotalSize + d)

ReaderNext ==
  \/ Open \/ CopyPartition \/ CopyPanics \/ IntoPartitionReader
  \/ ReadPastEnd \/ LoadFails \/ LoadPanics \/ ReadChunk
  \/ \E n \in Lengths : Read(n)
  \/ \E d \in Deltas : SeekAny(d)

-----------------------------------------------------------------------------
ReaderTypeOK ==
  /\ reader \in {"closed", "image", "partition", "failed", "panic"}
  /\ pos \in Nat /\ want \in Lengths \cup {0}
  /\ DOMAIN cache \subseteq DOMAIN chunks /\ Err \notin Range(cache)
  /\ \A i \in DOMAIN chunks : chunks[i].kind \in Kinds

\* The cache holds the chunks that were used last, up to its limit, and the
\* order of their eviction is that of their use (lib.rs:195-243), whatever
\* reads failed in between.
CacheIsMostRecent ==
  /\ ToSet(cacheOrder) = DOMAIN cache
  /\ cacheOrder = SubSeq(used, Max({0, Len(used) - CacheMax}) + 1, Len(used))
=============================================================================
