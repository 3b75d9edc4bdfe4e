------------------------ MODULE SetupPipelineProofs ------------------------
(***************************************************************************)
(* Proofs about module SetupPipeline, for any builds, chunks and places in *)
(* the image, any number of threads and any number of runs.                *)
(***************************************************************************)
EXTENDS SetupPipeline, Integers, FiniteSetTheorems, TLAPS

Records == [of : Builds \cup {Junk}, len : 0..Pieces]

FilesTyped ==
  /\ file \in [Files -> Records \cup {None}]
  /\ unwritten \in {0, 1}

\* The file a stage adds to is there, and what tokio has yet to write still
\* fits; nothing is left to write when a run starts or ends.
FilesInWork ==
  /\ stage \in {"idle", "download"} => unwritten = 0
  /\ stage = "receive" \/ unwritten > 0 =>
       file["ipsw"] \in Records /\ file["ipsw"].len + unwritten <= Pieces
  /\ stage = "unzip" => file["encrypted"] \in Records
  /\ stage = "plain" => file["rootfs"] \in Records
  /\ stage # "idle" => args.build \in Builds /\ args.offset \in Offsets

ImageTyped == image \in [Cells -> {Zero, Absent} \cup {Data(b, k) : b \in Builds, k \in Chunks}]

\* The threads hold different chunks, each taken once, and none outside the
\* last stage.
PoolOK ==
  /\ taken \subseteq Chunks /\ left \subseteq Chunks /\ left \cap taken = {}
  /\ IsFiniteSet(taken) /\ Cardinality(taken) <= Threads
  /\ broken \in BOOLEAN
  /\ stage # "chunks" => left = {} /\ taken = {} /\ broken = FALSE

\* The chunks that no thread has taken or has in hand.
Waiting == left \cup taken

\* What the image holds of the chunks in S.
Holds(build, offset, S) ==
  [c \in Cells |-> IF c - offset \in S THEN Data(build, c - offset) ELSE Zero]

\* While no chunk has failed, those taken are of known types, and the image of a
\* filesystem that fits is that filesystem but for the chunks still waiting,
\* whose cells are zero.
ChunksInPlace ==
  stage = "chunks" =>
    /\ Sound("rootfs") /\ taken \subseteq CopiedChunks(Source)
    /\ broken = FALSE => \A k \in Chunks \ left : Type(k) # "unknown"
    /\ broken = FALSE /\ Fits(Source, args.offset) =>
         image = Holds(Source, args.offset, CopiedChunks(Source) \ Waiting)

\* The inductive invariant.
IInv == FilesTyped /\ FilesInWork /\ ImageTyped /\ PoolOK /\ ChunksInPlace /\ ImageIsAFilesystem

-----------------------------------------------------------------------------
(* The files of the work directory.                                        *)

\* The assumption on the constants, part by part.
LEMMA Constants ==
  /\ Pieces \in Nat \ {0} /\ Threads \in Nat \ {0} /\ ImageSize \in Nat \ {0}
  /\ Offsets \subseteq Nat /\ Chunks \subseteq Nat
BY SetupAssumption

\* What a file that is there can hold, and that an absent one counts as empty.
LEMMA RecordFields ==
  /\ \A r \in Records : r.of \in Builds \cup {Junk} /\ r.len \in 0..Pieces
  /\ None.len = 0
  /\ \A b \in Builds \cup {Junk}, n \in 0..Pieces : [of |-> b, len |-> n] \in Records
BY DEF Records, None

\* A file that is created is empty; the others stay.
LEMMA CreateProperties ==
  ASSUME FilesTyped, NEW f \in Files, NEW build \in Builds \cup {Junk}, Create(f, build)
  PROVE  /\ file' \in [Files -> Records \cup {None}]
         /\ file'[f] \in Records /\ file'[f].len = 0
         /\ \A g \in Files : g # f => file'[g] = file[g]
<1>1. 0 \in 0..Pieces
  BY Constants
<1>2. [of |-> build, len |-> 0] \in Records
  BY <1>1, RecordFields
<1> DEFINE r == [of |-> build, len |-> 0]
<1>3. file' = [file EXCEPT ![f] = r] /\ r.len = 0
  BY DEF Create
<1> HIDE DEF r
<1>4. r \in Records
  BY <1>2 DEF r
<1> QED
  BY <1>3, <1>4 DEF FilesTyped

\* A file that grows by n pieces and has room for them; the others stay.
LEMMA GrowProperties ==
  ASSUME FilesTyped, NEW f \in Files, NEW n \in Nat, file[f] \in Records,
         file[f].len + n <= Pieces, file' = [file EXCEPT ![f].len = @ + n]
  PROVE  /\ file' \in [Files -> Records \cup {None}]
         /\ file'[f] \in Records /\ file'[f].len = file[f].len + n
         /\ \A g \in Files : g # f => file'[g] = file[g]
<1> DEFINE r == [file[f] EXCEPT !.len = @ + n]
<1>1. file[f].len \in 0..Pieces /\ file[f].len + n \in 0..Pieces
  BY Constants, RecordFields
<1>2. r \in Records /\ r.len = file[f].len + n
  BY <1>1 DEF Records
<1>3. file' = [file EXCEPT ![f] = r]
  OBVIOUS
<1> HIDE DEF r
<1> QED
  BY <1>2, <1>3 DEF FilesTyped

\* What each step does to the files: it leaves them alone, creates one that is
\* not there, or adds to one that is not whole; a user removes one while no run
\* is going on.
FileStep ==
  \/ file' = file
  \/ \E f \in Files, b \in Builds \cup {Junk} : ~Exists(f) /\ Create(f, b)
  \/ \E f \in Files, n \in Nat :
       /\ file[f] \in Records /\ file[f].len < Pieces /\ file[f].len + n <= Pieces
       /\ file' = [file EXCEPT ![f].len = @ + n]
  \/ stage = "idle"

\* The files keep their types, and each stage finds its own as it needs it.
LEMMA FilesKeep ==
  ASSUME IInv, [Next]_vars
  PROVE  FilesTyped' /\ FilesInWork' /\ FileStep
<1>1. /\ FilesTyped /\ FilesInWork /\ Pieces \in Nat \ {0}
      /\ file \in [Files -> Records \cup {None}] /\ unwritten \in {0, 1}
  BY Constants DEF IInv, FilesTyped
<1>2. CASE UNCHANGED <<file, unwritten, stage, args>>
  BY <1>1, <1>2 DEF FilesTyped, FilesInWork, FileStep
<1>3. CASE \E b \in Builds, o \in Offsets : Run(b, o)
  <2>1. PICK b \in Builds, o \in Offsets : Run(b, o)
    BY <1>3
  <2>2. args'.build = b /\ args'.offset = o /\ stage' = "download" /\ unwritten' = 0 /\ file' = file
    BY <1>1, <2>1 DEF Run, FilesInWork
  <2> QED
    BY <1>1, <2>2 DEF FilesTyped, FilesInWork, FileStep
<1>4. CASE \E f \in Files : Remove(f)
  BY <1>1, <1>4 DEF Remove, FilesTyped, FilesInWork, FileStep
<1>5. CASE Die
  BY <1>1, <1>5 DEF Die, FilesTyped, FilesInWork, FileStep
<1>6. CASE \/ Fail \/ Exit \/ CreateImage \/ EndChunks \/ CheckVolume
           \/ Skip("ipsw", "download", "extract") \/ Skip("encrypted", "extract", "decrypt")
           \/ Skip("rootfs", "decrypt", "create") \/ EndDownload \/ EndExtract \/ EndDecrypt
  <2>1. UNCHANGED <<file, unwritten, args>> /\ stage # "idle"
    BY <1>6 DEF Fail, Exit, CreateImage, EndChunks, CheckVolume, Skip, EndDownload, EndExtract,
                EndDecrypt, Step
  <2>2. stage' \notin {"receive", "unzip", "plain"} /\ (stage' \in {"idle", "download"} => unwritten = 0)
    BY <1>6 DEF Fail, Exit, CreateImage, EndChunks, CheckVolume, Skip, EndDownload, EndExtract,
                EndDecrypt, Step
  <2> QED
    BY <1>1, <2>1, <2>2 DEF FilesTyped, FilesInWork, FileStep
<1>7. CASE StartDownload
  <2>1. PICK b \in Builds \cup {Junk} : Create("ipsw", b)
    BY <1>1, <1>7 DEF StartDownload, FilesInWork
  <2>2. /\ unwritten' = 0 /\ stage' = "receive" /\ args' = args /\ stage = "download"
        /\ ~Exists("ipsw")
    BY <1>1, <1>7 DEF StartDownload, Step, FilesInWork, AlreadyThere
  <2>3. "ipsw" \in Files
    BY DEF Files
  <2>4. /\ file' \in [Files -> Records \cup {None}]
        /\ file'["ipsw"] \in Records /\ file'["ipsw"].len + 0 <= Pieces
    BY <1>1, <2>1, <2>3, CreateProperties
  <2> QED
    BY <1>1, <2>1, <2>2, <2>3, <2>4 DEF FilesTyped, FilesInWork, FileStep
<1>8. CASE ReceivePiece
  <2>1. /\ stage = "receive" /\ stage' = "receive" /\ args' = args /\ unwritten' = 1
        /\ file["ipsw"].len + unwritten < Pieces /\ file["ipsw"] \in Records
        /\ file' = [file EXCEPT !["ipsw"].len = @ + unwritten]
    BY <1>1, <1>8 DEF ReceivePiece, Step, FilesInWork
  <2>2. /\ "ipsw" \in Files /\ unwritten \in Nat /\ file["ipsw"].len \in Nat
        /\ file["ipsw"].len + unwritten <= Pieces
    BY <1>1, <2>1, RecordFields DEF Files
  <2>3. /\ file' \in [Files -> Records \cup {None}]
        /\ file'["ipsw"] \in Records /\ file'["ipsw"].len = file["ipsw"].len + unwritten
    BY <1>1, <2>1, <2>2, GrowProperties
  <2>4. file'["ipsw"].len + 1 <= Pieces /\ file["ipsw"].len < Pieces
    BY <1>1, <2>1, <2>2, <2>3
  <2> QED
    BY <1>1, <2>1, <2>2, <2>3, <2>4 DEF FilesTyped, FilesInWork, FileStep
<1>9. CASE WriteInBackground
  <2>1. /\ unwritten = 1 /\ unwritten' = 0 /\ args' = args /\ stage' = stage
        /\ file["ipsw"].len + unwritten <= Pieces /\ file["ipsw"] \in Records
        /\ file' = [file EXCEPT !["ipsw"].len = @ + unwritten]
    BY <1>1, <1>9 DEF WriteInBackground, FilesInWork
  <2>2. {"ipsw", "encrypted", "rootfs"} = Files /\ unwritten \in Nat /\ file["ipsw"].len \in Nat
    BY <1>1, <2>1, RecordFields DEF Files
  <2>3. /\ file' \in [Files -> Records \cup {None}]
        /\ file'["ipsw"] \in Records /\ file'["ipsw"].len = file["ipsw"].len + unwritten
        /\ file'["encrypted"] = file["encrypted"] /\ file'["rootfs"] = file["rootfs"]
    BY <1>1, <2>1, <2>2, GrowProperties
  <2>4. file'["ipsw"].len + 0 <= Pieces /\ file["ipsw"].len < Pieces
    BY <1>1, <2>1, <2>2, <2>3
  <2> QED
    BY <1>1, <2>1, <2>2, <2>3, <2>4 DEF FilesTyped, FilesInWork, FileStep
<1>10. CASE StartExtract /\ OpensArchive
  <2>1. /\ Create("encrypted", file["ipsw"].of) /\ file["ipsw"].of \in Builds \cup {Junk}
        /\ ~Exists("encrypted") /\ stage' = "unzip"
        /\ unwritten' = unwritten /\ args' = args /\ stage = "extract"
    BY <1>10 DEF StartExtract, OpensArchive, Sound, Step, AlreadyThere
  <2>2. {"ipsw", "encrypted", "rootfs"} = Files
    BY DEF Files
  <2>3. /\ file' \in [Files -> Records \cup {None}]
        /\ file'["encrypted"] \in Records /\ file'["ipsw"] = file["ipsw"]
    BY <1>1, <2>1, <2>2, CreateProperties
  <2> QED
    BY <1>1, <2>1, <2>2, <2>3 DEF FilesTyped, FilesInWork, FileStep
<1>11. CASE StartExtract /\ ~OpensArchive
  <2>1. /\ UNCHANGED <<file, unwritten, args>> /\ stage = "extract" /\ stage' = "failed"
    BY <1>11 DEF StartExtract, Step
  <2> QED
    BY <1>1, <2>1 DEF FilesTyped, FilesInWork, FileStep
<1>12. CASE ExtractPiece
  <2>1. /\ stage = "unzip" /\ stage' = "unzip" /\ args' = args /\ unwritten' = unwritten
        /\ file["encrypted"].len < file["ipsw"].len /\ file["encrypted"] \in Records
        /\ file' = [file EXCEPT !["encrypted"].len = @ + 1]
    BY <1>1, <1>12 DEF ExtractPiece, Step, FilesInWork
  <2>2. /\ {"ipsw", "encrypted", "rootfs"} = Files /\ file["encrypted"].len \in Nat
        /\ file["ipsw"].len \in 0..Pieces
    BY <1>1, <2>1, RecordFields DEF Files
  <2>3. file["encrypted"].len < Pieces /\ file["encrypted"].len + 1 <= Pieces /\ 1 \in Nat
    BY <1>1, <2>1, <2>2
  <2>4. /\ file' \in [Files -> Records \cup {None}]
        /\ file'["encrypted"] \in Records /\ file'["ipsw"] = file["ipsw"]
    BY <1>1, <2>1, <2>2, <2>3, GrowProperties
  <2> QED
    BY <1>1, <2>1, <2>2, <2>3, <2>4 DEF FilesTyped, FilesInWork, FileStep
<1>13. CASE StartDecrypt
  <2> DEFINE b == IF file["encrypted"].of = args.build THEN args.build ELSE Junk
  <2>1. /\ Create("rootfs", b) /\ ~Exists("rootfs") /\ stage' \in {"failed", "plain"}
        /\ unwritten' = unwritten /\ args' = args /\ stage = "decrypt"
    BY <1>13 DEF StartDecrypt, Step, AlreadyThere
  <2>2. b \in Builds \cup {Junk}
    BY <1>1, <2>1 DEF FilesInWork
  <2> HIDE DEF b
  <2>3. {"ipsw", "encrypted", "rootfs"} = Files
    BY DEF Files
  <2>4. /\ file' \in [Files -> Records \cup {None}]
        /\ file'["rootfs"] \in Records /\ file'["ipsw"] = file["ipsw"]
    BY <1>1, <2>1, <2>2, <2>3, CreateProperties
  <2> QED
    BY <1>1, <2>1, <2>2, <2>3, <2>4 DEF FilesTyped, FilesInWork, FileStep
<1>14. CASE DecryptPiece
  <2>1. /\ stage = "plain" /\ stage' = "plain" /\ args' = args /\ unwritten' = unwritten
        /\ file["rootfs"].len < file["encrypted"].len /\ file["rootfs"] \in Records
        /\ file' = [file EXCEPT !["rootfs"].len = @ + 1]
    BY <1>1, <1>14 DEF DecryptPiece, Step, FilesInWork
  <2>2. /\ {"ipsw", "encrypted", "rootfs"} = Files /\ file["rootfs"].len \in Nat
        /\ file["encrypted"].len \in 0..Pieces
    BY <1>1, <2>1, RecordFields DEF Files
  <2>3. file["rootfs"].len < Pieces /\ file["rootfs"].len + 1 <= Pieces /\ 1 \in Nat
    BY <1>1, <2>1, <2>2
  <2>4. /\ file' \in [Files -> Records \cup {None}]
        /\ file'["rootfs"] \in Records /\ file'["ipsw"] = file["ipsw"]
    BY <1>1, <2>1, <2>2, <2>3, GrowProperties
  <2> QED
    BY <1>1, <2>1, <2>2, <2>3, <2>4 DEF FilesTyped, FilesInWork, FileStep
<1>15. CASE \/ \E k \in Chunks : TakeChunk(k) \/ CopyChunk(k) \/ ChunkError(k) \/ CopyOutside(k)
            \/ NoMoreRuns \/ UNCHANGED vars
  <2>1. UNCHANGED <<file, unwritten, stage, args>> \/ Die
    BY <1>15 DEF TakeChunk, CopyChunk, ChunkError, CopyOutside, NoMoreRuns, vars
  <2> QED
    BY <1>2, <1>5, <2>1
<1> QED
  BY <1>3, <1>4, <1>5, <1>6, <1>7, <1>8, <1>9, <1>10, <1>11, <1>12, <1>13, <1>14, <1>15
     DEF Next, Kill, NoPartition

\* A whole file stays as it is while a run goes on.
LEMMA WholeKept ==
  ASSUME IInv, [Next]_vars
  PROVE  \A f \in Files : Whole(f) /\ stage # "idle" => file'[f] = file[f]
<1>1. FilesTyped /\ FileStep /\ Pieces \in Nat \ {0}
  BY FilesKeep, Constants DEF IInv
<1>2. CASE file' = file
  BY <1>2
<1>3. CASE \E f \in Files, b \in Builds \cup {Junk} : ~Exists(f) /\ Create(f, b)
  <2>1. PICK f \in Files, b \in Builds \cup {Junk} : ~Exists(f) /\ Create(f, b)
    BY <1>3
  <2>2. ~Whole(f)
    BY <1>1, <2>1, RecordFields DEF Exists, Whole
  <2>3. \A g \in Files : g # f => file'[g] = file[g]
    BY <1>1, <2>1, CreateProperties
  <2> QED
    BY <2>2, <2>3
<1>4. CASE \E f \in Files, n \in Nat :
             /\ file[f] \in Records /\ file[f].len < Pieces /\ file[f].len + n <= Pieces
             /\ file' = [file EXCEPT ![f].len = @ + n]
  <2>1. PICK f \in Files, n \in Nat :
               /\ file[f] \in Records /\ file[f].len < Pieces /\ file[f].len + n <= Pieces
               /\ file' = [file EXCEPT ![f].len = @ + n]
    BY <1>4
  <2>2. ~Whole(f)
    BY <1>1, <2>1 DEF Whole
  <2>3. \A g \in Files : g # f => file'[g] = file[g]
    BY <1>1, <2>1, GrowProperties
  <2> QED
    BY <2>2, <2>3
<1> QED
  BY <1>1, <1>2, <1>3, <1>4 DEF FileStep
-----------------------------------------------------------------------------
(* The pool of threads and the image.                                      *)

\* The threads of the pool keep to their chunks.
LEMMA PoolKeeps ==
  ASSUME IInv, [Next]_vars
  PROVE  PoolOK'
<1>1. PoolOK /\ Threads \in Nat \ {0} /\ IsFiniteSet({}) /\ Cardinality({}) = 0
  BY Constants, FS_EmptySet DEF IInv
<1>2. CASE UNCHANGED <<stage, left, taken, broken>>
  BY <1>1, <1>2 DEF PoolOK
<1>3. CASE \E k \in Chunks : TakeChunk(k)
  <2>1. PICK k \in Chunks : TakeChunk(k)
    BY <1>3
  <2>2. Cardinality(taken) \in Nat
    BY <1>1, FS_CardinalityType DEF PoolOK
  <2>3. /\ IsFiniteSet(taken \cup {k})
        /\ Cardinality(taken \cup {k}) = Cardinality(taken)
             \/ Cardinality(taken \cup {k}) = Cardinality(taken) + 1
    BY <1>1, FS_AddElement DEF PoolOK
  <2>4. IsFiniteSet(taken') /\ Cardinality(taken') <= Threads
    BY <1>1, <2>1, <2>2, <2>3 DEF TakeChunk, PoolOK
  <2>5. taken' \subseteq Chunks /\ left' \subseteq Chunks /\ left' \cap taken' = {}
    BY <1>1, <2>1 DEF TakeChunk, PoolOK
  <2>6. stage' = "chunks" /\ broken' \in BOOLEAN
    BY <1>1, <2>1 DEF TakeChunk, PoolOK
  <2> QED
    BY <2>4, <2>5, <2>6 DEF PoolOK
<1>4. CASE \E k \in Chunks : CopyChunk(k) \/ ChunkError(k) \/ (CopyOutside(k) /\ ~Die)
  <2>1. PICK k \in Chunks : CopyChunk(k) \/ ChunkError(k) \/ (CopyOutside(k) /\ ~Die)
    BY <1>4
  <2>2. /\ k \in taken /\ taken' = taken \ {k} /\ left' = left /\ stage' = stage
        /\ broken' = broken \/ broken' = TRUE
    BY <2>1 DEF CopyChunk, ChunkError, CopyOutside
  <2>3. Cardinality(taken) \in Nat
    BY <1>1, FS_CardinalityType DEF PoolOK
  <2>4. IsFiniteSet(taken') /\ Cardinality(taken') = Cardinality(taken) - 1
    BY <1>1, <2>2, FS_RemoveElement DEF PoolOK
  <2>5. stage = "chunks"
    BY <1>1, <2>2 DEF PoolOK
  <2>6. taken' \subseteq Chunks /\ left' \subseteq Chunks /\ left' \cap taken' = {}
    BY <1>1, <2>2 DEF PoolOK
  <2>7. IsFiniteSet(taken') /\ Cardinality(taken') <= Threads
    BY <1>1, <2>3, <2>4 DEF PoolOK
  <2>8. stage' = "chunks" /\ broken' \in BOOLEAN
    BY <1>1, <2>2, <2>5 DEF PoolOK
  <2> QED
    BY <2>6, <2>7, <2>8 DEF PoolOK
<1>5. CASE Die \/ EndChunks
  <2>1. left' = {} /\ taken' = {} /\ broken' = FALSE
    BY <1>5 DEF Die, EndChunks
  <2>2. IsFiniteSet(taken') /\ Cardinality(taken') <= Threads
    BY <1>1, <2>1
  <2>3. taken' \subseteq Chunks /\ left' \subseteq Chunks /\ left' \cap taken' = {}
    BY <2>1
  <2> QED
    BY <2>1, <2>2, <2>3 DEF PoolOK
<1>6. CASE CreateImage
  <2>1. stage = "create" /\ taken' = taken /\ broken' = broken
    BY <1>6 DEF CreateImage
  <2>2. left = {} /\ taken = {} /\ broken = FALSE
    BY <1>1, <2>1 DEF PoolOK
  <2>3. (stage' = "chunks" /\ left' = Chunks) \/ (stage' # "chunks" /\ left' = left)
    BY <1>6 DEF CreateImage
  <2> QED
    BY <1>1, <2>1, <2>2, <2>3 DEF PoolOK
<1>7. CASE \/ \E b \in Builds, o \in Offsets : Run(b, o)
           \/ \E f \in Files : Remove(f)
           \/ Fail \/ Exit \/ CheckVolume
           \/ Skip("ipsw", "download", "extract") \/ Skip("encrypted", "extract", "decrypt")
           \/ Skip("rootfs", "decrypt", "create")
           \/ StartDownload \/ ReceivePiece \/ EndDownload
           \/ StartExtract \/ ExtractPiece \/ EndExtract
           \/ StartDecrypt \/ DecryptPiece \/ EndDecrypt
  <2>1. UNCHANGED chunkVars /\ stage # "chunks" /\ stage' # "chunks"
    BY <1>7 DEF Run, Remove, Fail, Exit, CheckVolume, Skip, StartDownload, ReceivePiece,
                EndDownload, StartExtract, ExtractPiece, EndExtract, StartDecrypt, DecryptPiece,
                EndDecrypt, Step
  <2> QED
    BY <1>1, <2>1 DEF PoolOK, chunkVars
<1>8. CASE WriteInBackground \/ NoMoreRuns \/ UNCHANGED vars
  <2>1. UNCHANGED <<stage, left, taken, broken>>
    BY <1>8 DEF WriteInBackground, NoMoreRuns, vars, chunkVars
  <2> QED
    BY <1>2, <2>1
<1> QED
  BY <1>3, <1>4, <1>5, <1>6, <1>7, <1>8 DEF Next, Kill, NoPartition

\* A copied chunk fills its own cell, and no other cell of the image changes.
LEMMA CopyFillsItsCell ==
  ASSUME IInv, stage = "chunks", NEW k \in Chunks, CopyChunk(k)
  PROVE  /\ args.offset \in Nat /\ Source \in Builds /\ file' = file /\ args' = args
         /\ k \in Nat /\ k \in taken /\ args.offset + k \in Cells
         /\ image' = [image EXCEPT ![args.offset + k] = Data(Source, k)]
<1>1. args.offset \in Offsets /\ Sound("rootfs")
  BY DEF IInv, FilesInWork, ChunksInPlace
<1>2. args.offset \in Nat /\ k \in Nat
  BY <1>1, Constants
<1> QED
  BY <1>1, <1>2 DEF CopyChunk, OutputPos, Sound, Source

\* The cells of the image keep their types.
LEMMA ImageKeepsType ==
  ASSUME IInv, [Next]_vars
  PROVE  ImageTyped'
<1> DEFINE V == {Zero, Absent} \cup {Data(b, k) : b \in Builds, k \in Chunks}
<1>1. image \in [Cells -> V]
  BY DEF IInv, ImageTyped
<1>2. CASE image' = image
  BY <1>1, <1>2 DEF ImageTyped
<1>3. CASE CreateImage /\ image' # image
  <2>1. image' = [c \in Cells |-> Zero]
    BY <1>3 DEF CreateImage, FreshImage
  <2> QED
    BY <2>1 DEF ImageTyped
<1>4. CASE \E k \in Chunks : CopyChunk(k)
  <2>1. PICK k \in Chunks : CopyChunk(k)
    BY <1>4
  <2>2. stage = "chunks"
    BY <2>1 DEF CopyChunk, IInv, PoolOK
  <2>3. Source \in Builds /\ image' = [image EXCEPT ![args.offset + k] = Data(Source, k)]
    BY <2>1, <2>2, CopyFillsItsCell
  <2>4. Data(Source, k) \in V
    BY <2>3
  <2> HIDE DEF V
  <2>5. image' \in [Cells -> V]
    BY <1>1, <2>3, <2>4
  <2> QED
    BY <2>5 DEF ImageTyped, V
<1>5. ASSUME image' # image
      PROVE  CreateImage \/ \E k \in Chunks : CopyChunk(k)
  BY <1>5 DEF Next, vars, Run, Remove, Kill, NoPartition, Die, Fail, Exit, Skip, Step, StartDownload, ReceivePiece,
     WriteInBackground, EndDownload, StartExtract, ExtractPiece, EndExtract, StartDecrypt,
     DecryptPiece, EndDecrypt, TakeChunk, CopyOutside, ChunkError, EndChunks, CheckVolume, NoMoreRuns
<1> QED
  BY <1>2, <1>3, <1>4, <1>5

\* A copy in the image adds its chunk to what the image holds.
LEMMA HoldsOneMore ==
  ASSUME NEW b, NEW o \in Nat, NEW k \in Nat, NEW S, o + k \in Cells,
         image = Holds(b, o, S), image' = [image EXCEPT ![o + k] = Data(b, k)]
  PROVE  image' = Holds(b, o, S \cup {k})
<1>1. Cells \subseteq Int
  BY Constants DEF Cells
<1>2. ASSUME NEW c \in Cells
      PROVE  image'[c] = IF c - o \in S \cup {k} THEN Data(b, c - o) ELSE Zero
  <2>1. CASE c = o + k
    <3>1. c - o = k
      BY <1>1, <2>1
    <3> QED
      BY <2>1, <3>1 DEF Holds
  <2>2. CASE c # o + k
    <3>1. c - o # k
      BY <1>1, <2>2
    <3> QED
      BY <2>2, <3>1 DEF Holds
  <2> QED
    BY <2>1, <2>2
<1> QED
  BY <1>2 DEF Holds

\* While the pool works, each step keeps the image in step with the chunks that
\* wait.
LEMMA ChunksKeep ==
  ASSUME IInv, [Next]_vars
  PROVE  ChunksInPlace'
<1>1. PoolOK /\ PoolOK'
  BY PoolKeeps DEF IInv
<1>2. \A f \in Files : Whole(f) /\ stage # "idle" => file'[f] = file[f]
  BY WholeKept
<1>3. CASE stage = "chunks" /\ stage' = "chunks"
  <2>1. /\ Sound("rootfs") /\ taken \subseteq CopiedChunks(Source)
        /\ broken = FALSE => \A k \in Chunks \ left : Type(k) # "unknown"
        /\ broken = FALSE /\ Fits(Source, args.offset) =>
             image = Holds(Source, args.offset, CopiedChunks(Source) \ Waiting)
    BY <1>3 DEF IInv, ChunksInPlace
  <2>2. file'["rootfs"] = file["rootfs"]
    BY <1>2, <1>3, <2>1 DEF Sound, Files
  <2>3. Sound("rootfs")' /\ Source' = Source /\ \A k \in Chunks : Type(k)' = Type(k)
    BY <2>1, <2>2 DEF Sound, Whole, Source, Type
  <2>4. CASE \E k \in Chunks : CopyChunk(k)
    <3>1. PICK k \in Chunks : CopyChunk(k)
      BY <2>4
    <3>2. /\ args.offset \in Nat /\ args' = args /\ k \in Nat /\ k \in taken
          /\ args.offset + k \in Cells
          /\ image' = [image EXCEPT ![args.offset + k] = Data(Source, k)]
      BY <1>3, <3>1, CopyFillsItsCell
    <3>3. left' = left /\ taken' = taken \ {k} /\ broken' = broken
      BY <3>1 DEF CopyChunk
    <3>4. CopiedChunks(Source) \ Waiting' = (CopiedChunks(Source) \ Waiting) \cup {k}
      BY <1>1, <2>1, <3>2, <3>3 DEF PoolOK, Waiting
    <3>5. broken = FALSE /\ Fits(Source, args.offset) =>
            image' = Holds(Source, args.offset, (CopiedChunks(Source) \ Waiting) \cup {k})
      BY <2>1, <3>2, HoldsOneMore
    <3>6. taken' \subseteq CopiedChunks(Source)
      BY <2>1, <3>3
    <3> QED
      BY <2>1, <2>3, <3>2, <3>3, <3>4, <3>5, <3>6 DEF ChunksInPlace
  <2>5. CASE \E k \in Chunks : TakeChunk(k)
    <3>1. PICK k \in Chunks : TakeChunk(k)
      BY <2>5
    <3>2. /\ left' = left \ {k} /\ k \in left /\ broken = FALSE /\ UNCHANGED <<image, args>>
          /\ broken' = (Type(k) = "unknown")
          /\ taken' = IF Type(k) \in Copied THEN taken \cup {k} ELSE taken
      BY <1>1, <3>1 DEF TakeChunk, PoolOK
    <3>3. (k \in CopiedChunks(Source)) = (Type(k) \in Copied)
      BY DEF CopiedChunks, Type
    <3>4. CopiedChunks(Source) \ Waiting' = CopiedChunks(Source) \ Waiting
      BY <3>2, <3>3 DEF Waiting
    <3>5. taken' \subseteq CopiedChunks(Source)
      BY <2>1, <3>2, <3>3
    <3>6. broken' = FALSE => \A j \in Chunks \ left' : Type(j) # "unknown"
      BY <2>1, <3>2
    <3> QED
      BY <2>1, <2>3, <3>2, <3>4, <3>5, <3>6 DEF ChunksInPlace
  <2>6. CASE \E k \in Chunks : ChunkError(k)
    <3>1. broken' = TRUE /\ taken' \subseteq taken
      BY <2>6 DEF ChunkError
    <3>2. taken' \subseteq CopiedChunks(Source)
      BY <2>1, <3>1
    <3> QED
      BY <2>3, <3>1, <3>2 DEF ChunksInPlace
  <2>7. CASE \E k \in Chunks : CopyOutside(k)
    <3>1. PICK k \in Chunks : CopyOutside(k)
      BY <2>7
    <3>2. /\ k \in taken /\ args.offset + k \notin Cells /\ taken' = taken \ {k}
          /\ UNCHANGED <<image, args, left, broken>>
      BY <1>3, <3>1 DEF CopyOutside, OutputPos, Die
    <3>3. ~Fits(Source, args.offset)
      BY <2>1, <3>2 DEF Fits
    <3>4. taken' \subseteq CopiedChunks(Source)
      BY <2>1, <3>2
    <3>5. ~Fits(Source', args'.offset)
      BY <2>3, <3>2, <3>3 DEF Fits, CopiedChunks
    <3> QED
      BY <2>1, <2>3, <3>2, <3>4, <3>5 DEF ChunksInPlace, Fits, CopiedChunks
  <2>8. CASE WriteInBackground \/ NoMoreRuns \/ UNCHANGED vars
    <3>1. UNCHANGED <<image, args, left, taken, broken>>
      BY <2>8 DEF WriteInBackground, NoMoreRuns, vars, chunkVars
    <3> QED
      BY <2>1, <2>3, <3>1 DEF ChunksInPlace, Waiting
  <2> QED
    BY <1>3, <2>4, <2>5, <2>6, <2>7, <2>8 DEF Next, Run, Remove, Kill, NoPartition, Die, Fail, Exit,
       Skip, Step, StartDownload, ReceivePiece, EndDownload, StartExtract, ExtractPiece, EndExtract,
       StartDecrypt, DecryptPiece, EndDecrypt, CreateImage, EndChunks, CheckVolume
<1>4. CASE stage # "chunks" /\ stage' = "chunks"
  <2>1. CreateImage
    BY <1>4 DEF Next, vars, Run, Remove, Kill, NoPartition, Die, Fail, Exit, Skip, Step,
       StartDownload, ReceivePiece, WriteInBackground, EndDownload, StartExtract, ExtractPiece,
       EndExtract, StartDecrypt, DecryptPiece, EndDecrypt, TakeChunk, CopyChunk, CopyOutside,
       ChunkError, EndChunks, CheckVolume, NoMoreRuns
  <2>2. /\ Sound("rootfs") /\ file' = file /\ args' = args /\ taken' = taken
        /\ image' = [c \in Cells |-> Zero] /\ left' = Chunks
    BY <1>4, <2>1 DEF CreateImage, FreshImage
  <2>3. Sound("rootfs")' /\ Source' = Source /\ taken' = {}
    BY <1>1, <1>4, <2>2 DEF Sound, Whole, Source, PoolOK
  <2>4. CopiedChunks(Source) \ Waiting' = {}
    BY <2>2 DEF Waiting, CopiedChunks
  <2>5. image' = Holds(Source, args.offset, CopiedChunks(Source) \ Waiting')
    BY <2>2, <2>4 DEF Holds
  <2> QED
    BY <2>2, <2>3, <2>5 DEF ChunksInPlace
<1> QED
  BY <1>3, <1>4 DEF ChunksInPlace

\* The image is whole when the pool ends well, and stays so to the end.
LEMMA ImageKeeps ==
  ASSUME IInv, [Next]_vars
  PROVE  ImageIsAFilesystem'
<1>1. PoolOK /\ ImageIsAFilesystem
  BY DEF IInv
<1>2. CASE stage \in {"check", "done"} /\ stage' \in {"check", "done"}
  <2>1. taken = {} /\ \A k \in Chunks : k \notin taken
    BY <1>1, <1>2 DEF PoolOK
  <2>2. WriteInBackground \/ UNCHANGED <<file, image, args>>
    BY <1>2, <2>1 DEF Next, vars, Run, Remove, Kill, NoPartition, Die, Fail, Exit, Skip, Step,
       StartDownload, ReceivePiece, EndDownload, StartExtract, ExtractPiece, EndExtract,
       StartDecrypt, DecryptPiece, EndDecrypt, TakeChunk, CopyChunk, CopyOutside, ChunkError,
       CreateImage, EndChunks, CheckVolume, NoMoreRuns
  <2>3. WriteInBackground => UNCHANGED <<image, args>> /\ file'["rootfs"] = file["rootfs"]
    BY DEF WriteInBackground, IInv, FilesTyped, Files
  <2>4. /\ UNCHANGED <<image, args>> /\ Source' = Source
        /\ \A k \in Chunks : Type(k)' = Type(k)
    BY <2>2, <2>3 DEF Source, Type
  <2> QED
    BY <1>1, <1>2, <2>4 DEF ImageIsAFilesystem, Filesystem, Fits, CopiedChunks
<1>3. CASE stage \notin {"check", "done"} /\ stage' \in {"check", "done"}
  <2>1. EndChunks
    BY <1>3 DEF Next, vars, Run, Remove, Kill, NoPartition, Die, Fail, Exit, Skip, Step,
       StartDownload, ReceivePiece, WriteInBackground, EndDownload, StartExtract, ExtractPiece,
       EndExtract, StartDecrypt, DecryptPiece, EndDecrypt, TakeChunk, CopyChunk, CopyOutside,
       ChunkError, CreateImage, CheckVolume, NoMoreRuns
  <2>2. /\ stage = "chunks" /\ broken = FALSE /\ left = {} /\ taken = {}
        /\ UNCHANGED <<file, image, args>>
    BY <1>1, <1>3, <2>1 DEF EndChunks, AllThreadsDone, PoolOK
  <2>3. /\ Source \in Builds /\ \A k \in Chunks : Type(k) # "unknown"
        /\ Fits(Source, args.offset) =>
             image = Holds(Source, args.offset, CopiedChunks(Source) \ Waiting)
    BY <2>2 DEF IInv, ChunksInPlace, Sound, Source
  <2>4. CopiedChunks(Source) \ Waiting = CopiedChunks(Source)
    BY <2>2 DEF Waiting
  <2>5. Fits(Source, args.offset) => image = Filesystem(Source, args.offset)
    BY <2>3, <2>4 DEF Filesystem, Holds
  <2>6. Source' = Source /\ \A k \in Chunks : Type(k)' = Type(k)
    BY <2>2 DEF Source, Type
  <2> QED
    BY <2>2, <2>3, <2>5, <2>6 DEF ImageIsAFilesystem, Filesystem, Fits, CopiedChunks
<1> QED
  BY <1>2, <1>3 DEF ImageIsAFilesystem

-----------------------------------------------------------------------------
(* The theorems.                                                           *)

\* Before the first run there are no files and no image.
LEMMA InitIInv == Init => IInv
<1> SUFFICES ASSUME Init PROVE IInv
  OBVIOUS
<1>1. FilesTyped /\ FilesInWork /\ ImageTyped
  BY DEF Init, FilesTyped, FilesInWork, ImageTyped
<1>2. PoolOK
  <2>1. left = {} /\ taken = {} /\ broken = FALSE
    BY DEF Init
  <2>2. IsFiniteSet(taken) /\ Cardinality(taken) <= Threads
    BY <2>1, Constants, FS_EmptySet
  <2> QED
    BY <2>1, <2>2 DEF PoolOK
<1> QED
  BY <1>1, <1>2 DEF Init, IInv, ChunksInPlace, ImageIsAFilesystem

\* The inductive invariant holds in every behaviour, of runs that fail or are
\* killed anywhere as of those that end well.
THEOREM Invariance == Spec => []IInv
<1>1. IInv /\ [Next]_vars => IInv'
  BY FilesKeep, PoolKeeps, ImageKeepsType, ChunksKeep, ImageKeeps DEF IInv
<1> QED
  BY <1>1, InitIInv, PTL DEF Spec

\* Every variable keeps its type: what tokio has not yet written is at most one
\* piece, no chunk is both to be taken and in hand, and no more are in hand than
\* there are threads.
THEOREM TypeCorrect == Spec => []TypeOK
<1>1. IInv => TypeOK
  BY DEF IInv, FilesTyped, ImageTyped, PoolOK, Records, TypeOK
<1> QED
  BY <1>1, Invariance, PTL

\* A run that ends well has met no chunk of unknown type, and if the filesystem
\* of rootfs.dmg fits the image has left it there (create_disk_image, and the
\* chunks its threads write), whatever the runs before it left behind: each
\* chunk the code copies, and zeros for every other, those it passes over too.
THEOREM ImageIsWhole == Spec => []ImageIsAFilesystem
<1>1. IInv => ImageIsAFilesystem
  BY DEF IInv
<1> QED
  BY <1>1, Invariance, PTL

\* A whole file of the work directory changes only by the user's hand: every
\* stage looks for its file before it creates it, and adds only to a file that
\* still lacks pieces, tokio's last write included.
THEOREM WholeFilesStay == Spec => WholeFilesAreKept
<1>1. IInv /\ [Next]_vars => [ \A f \in Files : Whole(f) /\ stage # "idle" => file'[f] = file[f] ]_vars
  BY WholeKept
<1> QED
  BY <1>1, Invariance, PTL DEF Spec, WholeFilesAreKept
=============================================================================
