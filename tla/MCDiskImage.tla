---------------------------- MODULE MCDiskImage ----------------------------
(***************************************************************************)
(* Images to send: one of two partitions that is written, one like Apple's *)
(* with every kind of chunk, one with a raw chunk that is shorter than its *)
(* sectors and one with a kind that is not implemented.                    *)
(***************************************************************************)
EXTENDS DiskImage, SequencesExt

MCHole == 0 - 3
MCDeltas == {0 - 1, 0, 1, 3}

Bytes(from, n) == [i \in 1..n |-> from + i - 1]

Written == [parts |-> <<Bytes(11, 2), Bytes(21, 8)>>, file |-> <<>>]

Given(content, data, list) ==
  [parts |-> <<content>>,
   file  |-> data \o Writer!Trailer(<<[sectors |-> Len(content) \div SectorSize,
                                       chunks  |-> list]>>, Len(data))]

Apple ==
  Given(<<0, 0, 31, 32, 0, 0, 33, 34, 35, 36>>,
        Writer!Raw(<<31, 32>>) \o Writer!Stream(<<33, 34, 35, 36>>, 1),
        <<Writer!Chunk("zero", 0, 1, 0, 0), Writer!Chunk("raw", 1, 1, 0, 2),
          Writer!Chunk("comment", 2, 0, 2, 0), Writer!Chunk("ignore", 2, 1, 2, 0),
          Writer!Chunk("zlib", 3, 2, 2, 1), Writer!Chunk("term", 5, 0, 3, 0)>>)

Holed ==
  Given(<<41, MCHole, MCHole, MCHole, 42, 43>>,
        Writer!Raw(<<41>>) \o Writer!Stream(<<42, 43>>, 2),
        <<Writer!Chunk("raw", 0, 2, 0, 1), Writer!Chunk("zlib", 2, 1, 1, 2),
          Writer!Chunk("term", 3, 0, 3, 0)>>)

Unknown ==
  Given(<<0, 0, 51, 52>>, Writer!Raw(<<51, 52>>),
        <<Writer!Chunk("zero", 0, 1, 0, 0), Writer!Chunk("adc", 1, 1, 0, 2)>>)

MCSources == {Written, Apple, Holed, Unknown}

MCEncryptions ==
  {[magics |-> {"encrcdsa"}, block |-> 4, offset |-> 1, pad |-> 4],
   [magics |-> {"encrcdsa", "cdsaencr"}, block |-> 2, offset |-> 2, pad |-> 2],
   [magics |-> {"cdsaencr"}, block |-> 4, offset |-> 0, pad |-> 2],
   [magics |-> {"encrcdsa"}, block |-> 10, offset |-> 0, pad |-> 2],
   [magics |-> {}, block |-> 4, offset |-> 0, pad |-> 4]}
=============================================================================
