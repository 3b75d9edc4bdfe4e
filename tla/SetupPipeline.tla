--------------------------- MODULE SetupPipeline ---------------------------
(***************************************************************************)
(* gravity-setup: the run that turns a firmware build into a disk image.   *)
(* Its stages leave firmware.ipsw, rootfs_encrypted.dmg and rootfs.dmg in  *)
(* the work directory, and a later run skips a stage whose file exists.    *)
(* A run may fail at any stage or be killed; the user starts another,      *)
(* perhaps for another build or another place in the image, or first       *)
(* removes a file.  The last stage writes the chunks of the root           *)
(* filesystem into the mapped image from several threads.                  *)
(*                                                                         *)
(* A file of Pieces pieces is the firmware (or the filesystem made from    *)
(* it) of the build in .of, of which the first .len pieces are written.    *)
(***************************************************************************)
EXTENDS Integers, FiniteSets

CONSTANTS
  Builds,      \* --build, with the --key that belongs to it
  Offsets,     \* --rootfs_offset_mb, in cells of the image
  Pieces,      \* pieces of a file of the work directory
  Chunks,      \* the chunks of the HFS+ partition, numbered by the cell they fill
  ChunkType,   \* what each build's table says of the type of each chunk
  ImageSize,   \* --size_mb, in cells
  Threads,     \* threads of the pool that writes the image
  MaxRuns      \* bound on the runs started

ASSUME SetupAssumption ==
  /\ {Pieces, Threads, MaxRuns, ImageSize} \subseteq Nat \ {0}
  /\ Offsets \subseteq Nat /\ Chunks \subseteq Nat
  /\ ChunkType \in [Builds -> [Chunks -> {"zero", "ignore", "raw", "zlib", "comment", "term",
                                         "adc", "bzlib", "lzfse", "unknown"}]]

VARIABLES
  file,       \* the files of the work directory
  unwritten,  \* pieces of firmware.ipsw that tokio has yet to write
  image,      \* the cells of the disk image
  args,       \* the arguments of the current run
  stage,      \* where the run is; "idle" between runs
  left,       \* chunks no thread has taken yet
  taken,      \* chunks read and not yet copied to the image
  broken,     \* a chunk has failed
  runs        \* runs started

vars == <<file, unwritten, image, args, stage, left, taken, broken, runs>>
chunkVars == <<left, taken, broken>>

Files == {"ipsw", "encrypted", "rootfs"}
None  == [of |-> "none", len |-> 0]
Junk  == "junk"            \* an error page, or bytes decrypted with a wrong key
Cells == 0..ImageSize - 1

\* What a cell of the image holds: a chunk of a build's filesystem, or nothing.
Data(build, k) == [of |-> build, chunk |-> k]
Zero   == [of |-> "zero", chunk |-> 0]
Absent == [of |-> "absent", chunk |-> 0]   \* there is no image

Exists(f) == file[f] # None
Whole(f)  == file[f].len = Pieces
Sound(f)  == Whole(f) /\ file[f].of \in Builds

Source  == file["rootfs"].of         \* the build whose filesystem is at hand
Type(k) == ChunkType[Source][k]
Copied  == {"raw", "zlib"}

Init ==
  /\ file = [f \in Files |-> None]
  /\ unwritten = 0
  /\ image = [c \in Cells |-> Absent]
  /\ args = [build |-> CHOOSE b \in Builds : TRUE, offset |-> CHOOSE o \in Offsets : TRUE]
  /\ stage = "idle" /\ runs = 0
  /\ left = {} /\ taken = {} /\ broken = FALSE

-----------------------------------------------------------------------------
(* The user and the outside.                                               *)

Run(build, offset) ==
  /\ stage = "idle" /\ runs < MaxRuns
  /\ runs' = runs + 1
  /\ args' = [build |-> build, offset |-> offset]
  /\ stage' = "download"
  /\ UNCHANGED <<file, unwritten, image, chunkVars>>

Remove(f) ==
  /\ stage = "idle" /\ Exists(f)
  /\ file' = [file EXCEPT ![f] = None]
  /\ UNCHANGED <<unwritten, image, args, stage, runs, chunkVars>>

\* The process ends at once: what tokio has not written is lost.
Die ==
  /\ stage' = "idle" /\ unwritten' = 0
  /\ left' = {} /\ taken' = {} /\ broken' = FALSE
  /\ UNCHANGED <<file, image, args, runs>>

Kill == stage # "idle" /\ Die

\* An error of a file, of the network or of the volume check.
Fail ==
  /\ stage \in {"download", "receive", "extract", "unzip", "decrypt", "plain", "create", "check"}
  /\ stage' = "failed"
  /\ UNCHANGED <<file, unwritten, image, args, runs, chunkVars>>

\* The runtime waits for tokio's last write before the process ends.
Exit ==
  /\ stage \in {"failed", "done"} /\ unwritten = 0
  /\ stage' = "idle"
  /\ UNCHANGED <<file, unwritten, image, args, runs, chunkVars>>

-----------------------------------------------------------------------------
(* The stages that leave a file.                                           *)

\* A slip: a stage does its work whether or not its file is there.
NeverThere(f) == FALSE

AlreadyThere(f) == Exists(f)

\* "already downloaded, skipping."
Skip(f, here, next) ==
  /\ stage = here /\ AlreadyThere(f)
  /\ stage' = next
  /\ UNCHANGED <<file, unwritten, image, args, runs, chunkVars>>

\* File::create empties a file that is there.
Create(f, build) == file' = [file EXCEPT ![f] = [of |-> build, len |-> 0]]

Step(next) == stage' = next /\ UNCHANGED <<image, args, runs, chunkVars>>

\* The status of the response is not looked at, so its body may be an error page.
StartDownload ==
  /\ stage = "download" /\ ~ AlreadyThere("ipsw")
  /\ \E body \in {args.build, Junk} : Create("ipsw", body)
  /\ Step("receive") /\ UNCHANGED unwritten

\* A slip: the pieces pile up in the background.
ReceiveWithoutWaiting ==
  /\ stage = "receive" /\ file["ipsw"].len + unwritten < Pieces
  /\ unwritten' = unwritten + 1
  /\ Step("receive") /\ UNCHANGED file

\* write_all waits for the piece before, and leaves this one to the pool.
ReceivePiece ==
  /\ stage = "receive" /\ file["ipsw"].len + unwritten < Pieces
  /\ file' = [file EXCEPT !["ipsw"].len = @ + unwritten]
  /\ unwritten' = 1
  /\ Step("receive")

WriteInBackground ==
  /\ unwritten > 0
  /\ file' = [file EXCEPT !["ipsw"].len = @ + unwritten]
  /\ unwritten' = 0
  /\ UNCHANGED <<image, args, stage, runs, chunkVars>>

\* The stream has ended; the file is dropped without a flush.
EndDownload ==
  /\ stage = "receive" /\ file["ipsw"].len + unwritten = Pieces
  /\ Step("extract") /\ UNCHANGED <<file, unwritten>>

\* ZipArchive::new finds the directory at the end of the archive.
OpensArchive == Sound("ipsw")

StartExtract ==
  /\ stage = "extract" /\ ~ AlreadyThere("encrypted")
  /\ IF OpensArchive
     THEN Create("encrypted", file["ipsw"].of) /\ Step("unzip")
     ELSE Step("failed") /\ UNCHANGED file
  /\ UNCHANGED unwritten

ExtractPiece ==
  /\ stage = "unzip" /\ file["encrypted"].len < file["ipsw"].len
  /\ file' = [file EXCEPT !["encrypted"].len = @ + 1]
  /\ Step("unzip") /\ UNCHANGED unwritten

EndExtract ==
  /\ stage = "unzip" /\ file["encrypted"].len = file["ipsw"].len
  /\ Step("decrypt") /\ UNCHANGED <<file, unwritten>>

\* The output is created before the header of the input is looked at.
StartDecrypt ==
  /\ stage = "decrypt" /\ ~ AlreadyThere("rootfs")
  /\ Create("rootfs", IF file["encrypted"].of = args.build THEN args.build ELSE Junk)
  /\ Step(IF file["encrypted"].len = 0 THEN "failed" ELSE "plain")
  /\ UNCHANGED unwritten

\* decrypt ends without an error where the input ends.
DecryptPiece ==
  /\ stage = "plain" /\ file["rootfs"].len < file["encrypted"].len
  /\ file' = [file EXCEPT !["rootfs"].len = @ + 1]
  /\ Step("plain") /\ UNCHANGED unwritten

EndDecrypt ==
  /\ stage = "plain" /\ file["rootfs"].len = file["encrypted"].len
  /\ Step("create") /\ UNCHANGED <<file, unwritten>>

-----------------------------------------------------------------------------
(* create_disk_image, and the check of the volume after it.                *)

\* A slip: the image file is opened without truncating it.
NotTruncated == [c \in Cells |-> IF image[c] = Absent THEN Zero ELSE image[c]]

\* truncate(true) and set_len: a file of zeros.
FreshImage == [c \in Cells |-> Zero]

\* The partition is found by the first chunk that is not a comment, which must
\* be of a type the reader gives bytes for: it begins with the volume header.
OpensPartition ==
  \E k \in Chunks : /\ Type(k) \in Copied
                    /\ \A j \in Chunks : j < k => Type(j) = "comment"

\* DmgReader::open finds the trailer at the end of rootfs.dmg.
CreateImage ==
  /\ stage = "create" /\ (Sound("rootfs") => OpensPartition)
  /\ IF Sound("rootfs")
     THEN /\ stage' = "chunks" /\ image' = FreshImage /\ left' = Chunks
     ELSE /\ stage' = "failed" /\ UNCHANGED <<image, left>>
  /\ UNCHANGED <<file, unwritten, args, runs, taken, broken>>

\* unimplemented!() in sector, or hfs_table.unwrap(): a panic aborts.
NoPartition == stage = "create" /\ Sound("rootfs") /\ ~ OpensPartition /\ Die

\* A thread takes a chunk and reads it.  One of an unknown type is an error; all
\* types but Raw and Zlib are done with that, Adc, Bzlib and Lzfse too.
TakeChunk(k) ==
  /\ stage = "chunks" /\ ~ broken
  /\ k \in left /\ Cardinality(taken) < Threads
  /\ left' = left \ {k}
  /\ broken' = (Type(k) = "unknown")
  /\ taken' = IF Type(k) \in Copied THEN taken \cup {k} ELSE taken
  /\ UNCHANGED <<file, unwritten, image, args, stage, runs>>

OutputPos(k) == args.offset + k

CopyChunk(k) ==
  /\ k \in taken /\ OutputPos(k) \in Cells
  /\ image' = [image EXCEPT ![OutputPos(k)] = Data(Source, k)]
  /\ taken' = taken \ {k}
  /\ UNCHANGED <<file, unwritten, args, stage, runs, left, broken>>

\* Nothing holds the copy to the mapping.  Outside it the behaviour is undefined:
\* the process dies, or the bytes are lost in other memory and nobody notices.
CopyOutside(k) ==
  /\ k \in taken /\ OutputPos(k) \notin Cells
  /\ \/ Die
     \/ /\ taken' = taken \ {k}
        /\ UNCHANGED <<file, unwritten, image, args, stage, runs, left, broken>>

\* A chunk that can not be read or inflated: no thread takes another.
ChunkError(k) ==
  /\ k \in taken
  /\ broken' = TRUE /\ taken' = taken \ {k}
  /\ UNCHANGED <<file, unwritten, image, args, stage, runs, left>>

\* try_for_each returns when no thread has a chunk in hand; the flush of the
\* mapping after it may fail.
AllThreadsDone == taken = {} /\ (left = {} \/ broken)

EndChunks ==
  /\ stage = "chunks" /\ AllThreadsDone
  /\ stage' \in IF broken THEN {"failed"} ELSE {"check", "failed"}
  /\ left' = {} /\ taken' = {} /\ broken' = FALSE
  /\ UNCHANGED <<file, unwritten, image, args, runs>>

\* Step 6 only reads the image; then main returns Ok.
CheckVolume ==
  /\ stage = "check" /\ Step("done") /\ UNCHANGED <<file, unwritten>>

\* The bound on runs is reached.
NoMoreRuns == stage = "idle" /\ runs = MaxRuns /\ UNCHANGED vars

Next ==
  \/ \E b \in Builds, o \in Offsets : Run(b, o)
  \/ \E f \in Files : Remove(f)
  \/ Kill \/ Fail \/ Exit
  \/ Skip("ipsw", "download", "extract")
  \/ Skip("encrypted", "extract", "decrypt")
  \/ Skip("rootfs", "decrypt", "create")
  \/ StartDownload \/ ReceivePiece \/ WriteInBackground \/ EndDownload
  \/ StartExtract \/ ExtractPiece \/ EndExtract
  \/ StartDecrypt \/ DecryptPiece \/ EndDecrypt
  \/ CreateImage \/ NoPartition
  \/ \E k \in Chunks : TakeChunk(k) \/ CopyChunk(k) \/ CopyOutside(k) \/ ChunkError(k)
  \/ EndChunks \/ CheckVolume \/ NoMoreRuns

Spec == Init /\ [][Next]_vars

-----------------------------------------------------------------------------
(* Properties.                                                             *)

\* The type invariant.
TypeOK ==
  /\ \A f \in Files : \/ file[f] = None
                      \/ file[f] \in [of : Builds \cup {Junk}, len : 0..Pieces]
  /\ unwritten \in {0, 1}
  /\ image \in [Cells -> {Zero, Absent} \cup {Data(b, k) : b \in Builds, k \in Chunks}]
  /\ taken \subseteq Chunks /\ left \cap taken = {}
  /\ Cardinality(taken) <= Threads

CopiedChunks(build) == {k \in Chunks : ChunkType[build][k] \in Copied}

Fits(build, offset) == \A k \in CopiedChunks(build) : offset + k \in Cells

Filesystem(build, offset) ==
  [c \in Cells |-> IF c - offset \in CopiedChunks(build) THEN Data(build, c - offset) ELSE Zero]

\* A run that ends well has met no chunk of unknown type, and if the filesystem
\* fits the image has left exactly that of rootfs.dmg in it, every raw and zlib
\* chunk in its place and zeros everywhere else, whatever failed or killed runs,
\* at whatever offset, left behind.  Zeros are also what is in the place of a
\* chunk packed as Adc, Bzlib or Lzfse, which the code passes over.
ImageIsAFilesystem ==
  stage \in {"check", "done"} =>
    /\ Source \in Builds /\ \A k \in Chunks : Type(k) # "unknown"
    /\ Fits(Source, args.offset) => image = Filesystem(Source, args.offset)

\* Work that is done is not done again: a whole file changes only by the
\* user's hand.
WholeFilesAreKept ==
  [][ \A f \in Files : Whole(f) /\ stage # "idle" => file'[f] = file[f] ]_vars

\* "IPSW already downloaded, skipping.": the firmware asked for is there, whole,
\* when its download is skipped.
SkipsOnlyWhatIsDone ==
  [][ stage = "download" /\ stage' = "extract" =>
        Whole("ipsw") /\ file["ipsw"].of = args.build ]_vars
=============================================================================
