----------------------------- MODULE VfDecrypt -----------------------------
(***************************************************************************)
(* The decryption of an encrypted disk image (lib/vfdecrypt/lib.rs).  The  *)
(* data is cut into chunks, each enciphered as one CBC chain from a vector *)
(* that is made of its number.  decrypt_parallel reads batches, has the    *)
(* chunks of a batch decrypted by a pool of threads and writes the batch;  *)
(* Read hands the data out a piece at a time.  The reader below may return *)
(* less than was asked for, and fail.                                      *)
(*                                                                         *)
(* A byte is known by where it stands in the data, as ciphertext or plain; *)
(* the key is the right one.                                               *)
(***************************************************************************)
EXTENDS Integers, Sequences, FiniteSetsExt, SequencesExt

CONSTANTS
  CipherBlock,   \* bytes of a block of the cipher (16)
  BatchLimit,    \* 4 MiB
  BlockV1, TrailerV1, \* chunk (4096) and trailing header of the old format
  Wants          \* lengths asked of Read

VARIABLES
  img,        \* the image: [magics, block, size, offset, len]
  at,         \* position of the input
  chunkNo, totalOut,
  buffer, bufferPos, \* what was read, decrypted or not
  todo,       \* the chunks of the batch that no thread has decrypted yet
  output,     \* the bytes that came out
  phase,
  short       \* some read of Read ended before the chunk and the file did

Phases == {"closed", "open", "filling", "decrypting", "reading", "done", "taken", "failed"}

Cipher(x) == <<"cipher", x>>
Plain(x)  == <<"plain", x>>
Garbled   == <<"garbled">>

-----------------------------------------------------------------------------
(* The header, at the start of the file or at its end.                     *)

HdrVersion == IF "encrcdsa" \in img.magics THEN 2
              ELSE IF "cdsaencr" \in img.magics THEN 1 ELSE 0
BlockLen   == IF HdrVersion = 2 THEN img.block ELSE BlockV1
DataSize   == IF HdrVersion = 2 THEN img.size ELSE img.len - TrailerV1
DataOffset == IF HdrVersion = 2 THEN img.offset ELSE 0

\* The n bytes of the file from position a on.
FileBytes(a, n) == [i \in 1..n |-> Cipher(a - DataOffset + i - 1)]

-----------------------------------------------------------------------------
(* One chain: a block comes out plain if the one before it is the one it   *)
(* was enciphered after, or the vector of its chunk for the first.  What   *)
(* is left over at the end is not touched.                                 *)

DecryptChunk(k, data) ==
  LET whole == (Len(data) \div CipherBlock) * CipherBlock
      first(i) == ((i - 1) \div CipherBlock) * CipherBlock + 1
      place(i) == data[first(i)][2]
      Chained(i) == IF first(i) = 1 THEN place(i) = k * BlockLen
                    ELSE place(i) % BlockLen # 0
      Enciphered(i) == /\ place(i) % CipherBlock = 0
                       /\ HdrVersion = 1 => place(i) + CipherBlock <= DataSize
  IN [i \in DOMAIN data |->
        IF i > whole THEN data[i]
        ELSE IF Enciphered(i) /\ Chained(i) THEN Plain(data[i][2]) ELSE Garbled]

-----------------------------------------------------------------------------
VfInit ==
  /\ at = 0 /\ chunkNo = 0 /\ totalOut = 0 /\ buffer = <<>> /\ bufferPos = 0
  /\ todo = {} /\ output = <<>> /\ phase = "closed" /\ short = FALSE

\* VfDecryptor::new.
New ==
  /\ phase = "closed"
  /\ phase' \in (IF HdrVersion = 0 THEN {"failed"} ELSE {"open", "failed"})
  /\ at' = IF phase' = "open" THEN DataOffset ELSE at
  /\ UNCHANGED <<img, chunkNo, totalOut, buffer, bufferPos, todo, output, short>>

-----------------------------------------------------------------------------
(* decrypt_parallel.                                                       *)

BatchSize == Max({(BatchLimit \div BlockLen) * BlockLen, BlockLen})

ToRead == IF HdrVersion = 2 THEN Min({BatchSize, Max({DataSize - totalOut, 0})})
          ELSE BatchSize

DecryptParallel ==
  /\ phase = "open" /\ phase' = "filling"
  /\ UNCHANGED <<img, at, chunkNo, totalOut, buffer, bufferPos, todo, output, short>>

\* One read of the loop that fills the batch.
FillBatch ==
  /\ phase = "filling" /\ Len(buffer) < ToRead /\ at < img.len
  /\ \E r \in 1..Min({ToRead - Len(buffer), img.len - at}) :
       buffer' = buffer \o FileBytes(at, r) /\ at' = at + r
  /\ UNCHANGED <<img, chunkNo, totalOut, bufferPos, todo, output, phase, short>>

NumChunksOne(n) == 1  \* A slip: a batch counts for one.
NumChunks(n) == (n + BlockLen - 1) \div BlockLen

Filled ==
  /\ phase = "filling" /\ (Len(buffer) = ToRead \/ at >= img.len)
  /\ IF buffer = <<>> THEN phase' = "done" /\ todo' = {}
     ELSE /\ phase' = "decrypting"
          /\ todo' = 0..NumChunks(Len(buffer)) - 1
  /\ UNCHANGED <<img, at, chunkNo, totalOut, buffer, bufferPos, output, short>>

\* A thread of the pool takes any chunk of the batch.
Worker(i) ==
  LET first == i * BlockLen + 1
      last  == Min({Len(buffer), (i + 1) * BlockLen})
      plain == DecryptChunk(chunkNo + i, SubSeq(buffer, first, last))
  IN /\ phase = "decrypting" /\ todo' = todo \ {i}
     /\ buffer' = [j \in DOMAIN buffer |->
                     IF j \in first..last THEN plain[j - first + 1] ELSE buffer[j]]
     /\ UNCHANGED <<img, at, chunkNo, totalOut, bufferPos, output, phase, short>>

\* write_all of the batch, or of a part of it before an error.
WriteBatch ==
  /\ phase = "decrypting" /\ todo = {}
  /\ \/ /\ output' = output \o buffer /\ buffer' = <<>> /\ phase' = "filling"
        /\ chunkNo' = chunkNo + NumChunks(Len(buffer))
        /\ totalOut' = totalOut + Len(buffer)
     \/ /\ \E n \in {0, Len(buffer) - 1} : output' = output \o SubSeq(buffer, 1, n)
        /\ phase' = "failed" /\ UNCHANGED <<chunkNo, totalOut, buffer>>
  /\ UNCHANGED <<img, at, bufferPos, todo, short>>

-----------------------------------------------------------------------------
(* Read.                                                                   *)

AtEnd == HdrVersion = 2 /\ totalOut >= DataSize

\* What the copy at the end of read hands over.
HandOver(data, from, want) ==
  LET n == Min({want, Len(data) - from})
  IN /\ output' = output \o SubSeq(data, from + 1, from + n)
     /\ bufferPos' = from + n /\ totalOut' = totalOut + n

\* The part of a decrypted chunk that is data.
Kept(data) == IF HdrVersion = 2 /\ DataSize - totalOut < Len(data)
              THEN SubSeq(data, 1, DataSize - totalOut) ELSE data

ReadBuffered(want) ==
  /\ ~AtEnd /\ bufferPos < Len(buffer)
  /\ HandOver(buffer, bufferPos, want)
  /\ UNCHANGED <<img, at, chunkNo, buffer, todo, short>>

ReadChunk(want) ==
  /\ ~AtEnd /\ bufferPos >= Len(buffer) /\ at < img.len
  /\ \E r \in 1..Min({BlockLen, img.len - at}) :
       LET data == Kept(DecryptChunk(chunkNo, FileBytes(at, r)))
       IN /\ at' = at + r /\ buffer' = data
          /\ short' = (short \/ r < Min({BlockLen, img.len - at}))
          /\ HandOver(data, 0, want)
  /\ chunkNo' = chunkNo + 1
  /\ UNCHANGED <<img, todo>>

Read(want) ==
  /\ phase \in {"open", "reading"} /\ phase' = "reading"
  /\ ReadBuffered(want) \/ ReadChunk(want)

\* A read that gives nothing: the caller has it all.
ReadEnd ==
  /\ phase \in {"open", "reading"} /\ phase' = "taken"
  /\ AtEnd \/ (bufferPos >= Len(buffer) /\ at >= img.len)
  /\ UNCHANGED <<img, at, chunkNo, totalOut, buffer, bufferPos, todo, output, short>>

\* Any read of the input may fail; the error is the caller's.
InputFails ==
  /\ \/ phase = "filling" /\ Len(buffer) < ToRead
     \/ phase \in {"open", "reading"} /\ ~AtEnd /\ bufferPos >= Len(buffer)
  /\ phase' = "failed"
  /\ UNCHANGED <<img, at, chunkNo, totalOut, buffer, bufferPos, todo, output, short>>

-----------------------------------------------------------------------------
VfNext ==
  \/ New \/ InputFails \/ DecryptParallel \/ FillBatch \/ Filled \/ WriteBatch \/ ReadEnd
  \/ \E i \in todo : Worker(i)
  \/ \E want \in Wants : Read(want)

-----------------------------------------------------------------------------
VfTypeOK ==
  /\ at \in 0..img.len /\ chunkNo \in Nat /\ totalOut \in Nat
  /\ bufferPos \in 0..Len(buffer) /\ todo \subseteq 0..BatchSize
  /\ phase \in Phases /\ short \in BOOLEAN

\* Whatever the reads below return and in whatever order the threads run,
\* what decrypt_parallel has written is the plain data in order, the part of a
\* cipher block at the very end of it aside, and all of it when it ends well.
\* So is what Read hands out if no read below it stopped within a chunk
\* (lib.rs:441 takes each for one chunk).
PlaintextInOrder ==
  LET whole == (DataSize \div CipherBlock) * CipherBlock
  IN ~short /\ phase # "closed" =>
       /\ \A i \in 1..Min({Len(output), whole}) : output[i] = Plain(i - 1)
       /\ HdrVersion = 2 => Len(output) <= DataSize
       /\ phase \in {"done", "taken"} => Len(output) >= Min({DataSize, img.len - DataOffset})
=============================================================================
