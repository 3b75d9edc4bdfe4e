--------------------------- MODULE DiskImageProofs ---------------------------
(***************************************************************************)
(* Proofs about module DiskImage, for any image that is written or given,  *)
(* any size of chunk, batch and cipher block and any order of the threads: *)
(* what decrypt_parallel writes is the plain data in order however its     *)
(* reads are cut, and so is what Read hands out as long as no read below   *)
(* it stopped short of a chunk; the reader's cache is the chunks used last; the state    *)
(* has its types; a partition copied whole is its bytes; and the reader of *)
(* a partition implements the flat run of bytes of module FlatPartition.   *)
(***************************************************************************)
EXTENDS DiskImage, SequenceTheorems, FiniteSetTheorems, WellFoundedInduction, TLAPS

\* What is still to be written, and what is written, are sequences.
FileTyped ==
  /\ parts \in Seq(Seq(Int))
  /\ w \in Seq(Range(w))

\* The numbers in the header of an image.
ImageTyped ==
  img # <<>> =>
    /\ img.block \in Nat \ {0} /\ img.block % CipherBlock = 0
    /\ img.offset \in Nat /\ img.size \in Nat /\ img.len \in Nat
    /\ img.len >= img.offset + img.size

Cells == ({"cipher", "plain"} \X Nat) \cup {Vf!Garbled}

Typed ==
  /\ at \in Nat /\ chunkNo \in Nat /\ totalOut \in Nat
  /\ buffer \in Seq(Cells) /\ bufferPos \in 0..Len(buffer)
  /\ output \in Seq(Cells) /\ phase \in Vf!Phases /\ short \in BOOLEAN
  /\ todo \subseteq Nat

\* The part of the data that is whole blocks of the cipher, and the cell s that
\* comes out for place x.
Whole      == (Vf!DataSize \div CipherBlock) * CipherBlock
Good(s, x) == x < Whole => s = Vf!Plain(x)
GoodFrom(data, x) == \A j \in 1..Len(data) : Good(data[j], x + j - 1)

\* As much came out as the data has.
Within(n) == Vf!HdrVersion = 2 => n <= Vf!DataSize

OutputGood == GoodFrom(output, 0) /\ Within(Len(output))

Fresh ==
  phase \in {"closed", "open"} =>
    /\ at = (IF phase = "closed" THEN 0 ELSE Vf!DataOffset)
    /\ chunkNo = 0 /\ totalOut = 0 /\ buffer = <<>> /\ bufferPos = 0
    /\ todo = {} /\ output = <<>> /\ ~short

Started ==
  phase \in {"open", "filling", "decrypting", "reading"} =>
    /\ Vf!HdrVersion \in {1, 2} /\ at >= Vf!DataOffset /\ at <= img.len
    /\ Len(output) = totalOut

\* There is no more data for decrypt_parallel to read.
NoMore == at >= img.len \/ (Vf!HdrVersion = 2 /\ totalOut >= Vf!DataSize)

\* A batch is the next data of the image, and starts with a chunk.
BatchRead ==
  /\ ~short /\ bufferPos = 0
  /\ at = Vf!DataOffset + totalOut + Len(buffer)
  /\ Len(buffer) <= Vf!ToRead
  /\ totalOut = chunkNo * Vf!BlockLen \/ (buffer = <<>> /\ NoMore)

Filling ==
  phase = "filling" =>
    /\ BatchRead /\ todo = {}
    /\ \A j \in 1..Len(buffer) : buffer[j] = Vf!Cipher(totalOut + j - 1)

\* Each chunk of a batch is as it was read, or decrypted, as the threads have it.
Decrypting ==
  phase = "decrypting" =>
    /\ BatchRead /\ buffer # <<>>
    /\ Len(buffer) = Vf!ToRead \/ at >= img.len
    /\ todo \subseteq 0..Vf!NumChunks(Len(buffer)) - 1
    /\ \A j \in 1..Len(buffer) :
         IF (j - 1) \div Vf!BlockLen \in todo
         THEN buffer[j] = Vf!Cipher(totalOut + j - 1)
         ELSE Good(buffer[j], totalOut + j - 1)

\* What Read has in hand ends where the input is, or where the data does; the
\* input is at the start of a chunk, or at its end.
Reading ==
  phase \in {"open", "reading"} /\ ~short =>
    /\ totalOut >= bufferPos
    /\ GoodFrom(buffer, totalOut - bufferPos)
    /\ Within(totalOut - bufferPos + Len(buffer))
    /\ \/ Vf!DataOffset + totalOut - bufferPos + Len(buffer) = at
       \/ Vf!HdrVersion = 2 /\ totalOut - bufferPos + Len(buffer) = Vf!DataSize
    /\ at = Vf!DataOffset + chunkNo * Vf!BlockLen \/ at >= img.len

Complete ==
  phase \in {"done", "taken"} /\ ~short =>
    Len(output) >= Vf!DataSize \/ Len(output) >= img.len - Vf!DataOffset

Sound == Typed /\ Fresh /\ (~short /\ phase # "closed" => OutputGood) /\ Started
           /\ Filling /\ Decrypting /\ Reading /\ Complete

\* The inductive invariant.
IInv == FileTyped /\ ImageTyped /\ (IF img = <<>> THEN Vf!VfInit ELSE Sound)

-----------------------------------------------------------------------------
(* Arithmetic.                                                             *)

\* The assumption on the constants, part by part.
LEMMA Constants ==
  /\ CipherBlock \in Nat \ {0} /\ BatchLimit \in Nat \ {0} /\ BlockV1 \in Nat \ {0}
  /\ TrailerV1 \in Nat \ {0} /\ BlockV1 % CipherBlock = 0
  /\ SectorSize \in Nat \ {0} /\ ChunkSectors \in Nat \ {0} /\ MaxStream \in Nat \ {0}
  /\ Wants \subseteq Nat
BY DiskImageAssumption

\* What \div and % are, as one fact for the provers.
LEMMA DivMod ==
  ASSUME NEW v \in Int, NEW k \in Nat \ {0}
  PROVE  /\ v \div k \in Int /\ v % k \in 0..k - 1 /\ v = k * (v \div k) + (v % k)
         /\ v \in Nat => v \div k \in Nat
OBVIOUS

\* Of two numbers the least.
LEMMA MinOfTwo ==
  ASSUME NEW a \in Int, NEW b \in Int
  PROVE  Vf!Min({a, b}) = IF a <= b THEN a ELSE b
<1>1. CASE a <= b
  <2>1. \A x \in {a, b} : (\A y \in {a, b} : x <= y) <=> x = a
    BY <1>1
  <2> QED
    BY <1>1, <2>1 DEF Vf!Min
<1>2. CASE ~(a <= b)
  <2>1. \A x \in {a, b} : (\A y \in {a, b} : x <= y) <=> x = b
    BY <1>2
  <2> QED
    BY <1>2, <2>1 DEF Vf!Min
<1> QED
  BY <1>1, <1>2

\* Of two numbers the greatest.
LEMMA MaxOfTwo ==
  ASSUME NEW a \in Int, NEW b \in Int
  PROVE  Vf!Max({a, b}) = IF a >= b THEN a ELSE b
<1>1. CASE a >= b
  <2>1. \A x \in {a, b} : (\A y \in {a, b} : x >= y) <=> x = a
    BY <1>1
  <2> QED
    BY <1>1, <2>1 DEF Vf!Max
<1>2. CASE ~(a >= b)
  <2>1. \A x \in {a, b} : (\A y \in {a, b} : x >= y) <=> x = b
    BY <1>2
  <2> QED
    BY <1>2, <2>1 DEF Vf!Max
<1> QED
  BY <1>1, <1>2

\* A set of natural numbers has its least element.
LEMMA LeastIn ==
  ASSUME NEW S \in SUBSET Nat, S # {}
  PROVE  \E x \in S : \A y \in S : x <= y
<1>1. \E x \in S : \A y \in S : ~ (<<y, x>> \in OpToRel(<, Nat))
  BY NatLessThanWellFounded, WFMin
<1>2. PICK x \in S : \A y \in S : ~ (<<y, x>> \in OpToRel(<, Nat))
  BY <1>1
<1>3. \A y \in S : ~(y < x)
  BY <1>2 DEF OpToRel
<1> QED
  BY <1>3

\* What starts with a block of the cipher is not cut by a whole one.
LEMMA WholeBlocks ==
  ASSUME NEW x \in Nat, NEW e \in Int, NEW c \in Nat \ {0}, x < (e \div c) * c
  PROVE  x - (x % c) + c <= (e \div c) * c /\ (e \div c) * c <= e
<1> DEFINE q == e \div c
           v == x \div c
           r == x % c
<1>1. q \in Int /\ q * c <= e
  <2>1. e % c \in 0..c - 1 /\ q \in Int /\ e = c * q + (e % c)
    BY DivMod
  <2> HIDE DEF q
  <2> QED
    BY <2>1
<1>2. v \in Nat /\ r \in 0..c - 1 /\ x = c * v + r
  <2>1. x \in Int /\ x \in Nat
    OBVIOUS
  <2> QED
    BY <2>1, DivMod
<1>3. x < q * c
  OBVIOUS
<1> HIDE DEF q, v, r
<1>4. v < q
  BY <1>1, <1>2, <1>3
<1>5. v + 1 <= q /\ v + 1 \in Int
  BY <1>1, <1>2, <1>4
<1>6. c * (v + 1) <= q * c
  BY <1>1, <1>2, <1>5
<1>7. c * (v + 1) = c * v + c
  BY <1>2
<1>8. x - r = c * v
  BY <1>2
<1> QED
  BY <1>1, <1>2, <1>6, <1>7, <1>8 DEF q, r

\* A multiple of k and less than k more.
LEMMA MultipleOf ==
  ASSUME NEW k \in Nat \ {0}, NEW m \in Nat, NEW r \in 0..k - 1
  PROVE  (k * m + r) % k = r /\ (k * m + r) \div k = m
OBVIOUS

\* A number that k divides is so many times k.
LEMMA TimesOf ==
  ASSUME NEW b \in Nat \ {0}, NEW k \in Nat \ {0}, b % k = 0
  PROVE  b \div k \in Nat \ {0} /\ b = k * (b \div k)
<1>1. b \in Int /\ b \in Nat
  OBVIOUS
<1>2. b \div k \in Nat /\ b = k * (b \div k) + (b % k)
  BY <1>1, DivMod
<1>3. b = k * (b \div k)
  <2> DEFINE m == b \div k
  <2>1. m \in Nat /\ b = k * m + 0
    BY <1>2
  <2> HIDE DEF m
  <2> QED
    BY <2>1 DEF m
<1>4. b \div k # 0
  <2> DEFINE m == b \div k
  <2>1. m \in Nat /\ b = k * m
    BY <1>2, <1>3
  <2> HIDE DEF m
  <2> QED
    BY <2>1 DEF m
<1> QED
  BY <1>2, <1>3, <1>4

-----------------------------------------------------------------------------
(* The image and its bytes.                                                *)

\* What the header says, in either format.
LEMMA ImageFacts ==
  ASSUME ImageTyped, img # <<>>
  PROVE  /\ Vf!HdrVersion \in {0, 1, 2} /\ img.len \in Nat
         /\ Vf!BlockLen \in Nat \ {0} /\ Vf!BlockLen % CipherBlock = 0
         /\ Vf!DataOffset \in Nat /\ Vf!DataOffset <= img.len
         /\ Vf!DataSize \in Int /\ (Vf!HdrVersion = 2 => Vf!DataSize \in Nat)
         /\ Vf!HdrVersion \in {1, 2} => Vf!DataSize <= img.len - Vf!DataOffset
<1>1. /\ img.block \in Nat \ {0} /\ img.block % CipherBlock = 0
      /\ img.offset \in Nat /\ img.size \in Nat /\ img.len \in Nat
      /\ img.len >= img.offset + img.size
  BY DEF ImageTyped
<1>2. Vf!HdrVersion \in {0, 1, 2}
  BY DEF Vf!HdrVersion
<1>3. CASE Vf!HdrVersion = 2
  BY <1>1, <1>3, Constants DEF Vf!BlockLen, Vf!DataOffset, Vf!DataSize
<1>4. CASE Vf!HdrVersion # 2
  BY <1>1, <1>2, <1>4, Constants DEF Vf!BlockLen, Vf!DataOffset, Vf!DataSize
<1> QED
  BY <1>3, <1>4

\* The cells of the data.
LEMMA CellFacts ==
  /\ \A x : Vf!Cipher(x)[2] = x
  /\ \A x \in Nat : Vf!Cipher(x) \in Cells /\ Vf!Plain(x) \in Cells
  /\ Vf!Garbled \in Cells
BY DEF Cells, Vf!Cipher, Vf!Plain

\* Bytes of the file are enciphered data.
LEMMA FileBytesProperties ==
  ASSUME ImageTyped, img # <<>>, NEW a \in Nat, NEW n \in Nat, a >= Vf!DataOffset
  PROVE  /\ Vf!FileBytes(a, n) \in Seq(Cells) /\ Len(Vf!FileBytes(a, n)) = n
         /\ \A i \in 1..n : Vf!FileBytes(a, n)[i] = Vf!Cipher(a - Vf!DataOffset + i - 1)
<1> DEFINE F(i) == Vf!Cipher(a - Vf!DataOffset + i - 1)
           s == [i \in 1..n |-> F(i)]
<1>1. Vf!FileBytes(a, n) = s
  BY DEF Vf!FileBytes
<1>2. \A i \in 1..n : F(i) \in Cells
  <2> TAKE i \in 1..n
  <2>1. a - Vf!DataOffset + i - 1 \in Nat
    BY ImageFacts
  <2> QED
    BY <2>1, CellFacts
<1>3. \A i \in 1..n : s[i] = F(i)
  OBVIOUS
<1> HIDE DEF F
<1>4. s \in Seq(Cells) /\ Len(s) = n
  BY <1>2, IsASeq
<1> QED
  BY <1>1, <1>3, <1>4 DEF F

\* A chunk decrypted after its own number is plain, but for what is left at its
\* end of less than a block of the cipher; the data has no whole block there.
LEMMA DecryptChunkProperties ==
  ASSUME ImageTyped, img # <<>>, Vf!HdrVersion \in {1, 2},
         NEW k \in Nat, NEW data \in Seq(Cells), Len(data) <= Vf!BlockLen,
         \A j \in 1..Len(data) : data[j] = Vf!Cipher(k * Vf!BlockLen + j - 1),
         Len(data) = Vf!BlockLen \/ k * Vf!BlockLen + Len(data) >= Vf!DataSize
  PROVE  LET plain == Vf!DecryptChunk(k, data)
         IN  /\ plain \in Seq(Cells) /\ Len(plain) = Len(data)
             /\ GoodFrom(plain, k * Vf!BlockLen)
<1> DEFINE B == Vf!BlockLen
           C == CipherBlock
           n == Len(data)
           whole == (n \div C) * C
           first(i) == ((i - 1) \div C) * C + 1
           place(i) == data[first(i)][2]
           Chained(i) == IF first(i) = 1 THEN place(i) = k * B ELSE place(i) % B # 0
           Enciphered(i) == /\ place(i) % C = 0
                            /\ Vf!HdrVersion = 1 => place(i) + C <= Vf!DataSize
           F(i) == IF i > whole THEN data[i]
                   ELSE IF Enciphered(i) /\ Chained(i) THEN Vf!Plain(data[i][2]) ELSE Vf!Garbled
           plain == Vf!DecryptChunk(k, data)
<1>1. n \in Nat /\ DOMAIN data = 1..n
  BY LenProperties
<1>2. plain = [i \in 1..n |-> F(i)]
  BY <1>1 DEF Vf!DecryptChunk
<1>3. C \in Nat \ {0} /\ B \in Nat \ {0} /\ Vf!DataSize \in Int /\ n <= B
  BY Constants, ImageFacts
<1>4. PICK m \in Nat \ {0} : B = C * m
  <2>1. B % C = 0
    BY ImageFacts
  <2> HIDE DEF B, C
  <2>2. B \in Nat \ {0} /\ C \in Nat \ {0}
    BY <1>3
  <2> QED
    <3>1. B \div C \in Nat \ {0} /\ B = C * (B \div C)
      BY <2>1, <2>2, TimesOf
    <3> QED
      BY <3>1
<1>5. k * B \in Nat
  BY <1>3
<1>6. ASSUME NEW i \in 1..n
      PROVE  data[i] \in Cells /\ data[i] = Vf!Cipher(k * B + i - 1) /\ data[i][2] = k * B + i - 1
  BY <1>1, CellFacts, ElementOfSeq
<1>12. Whole = (Vf!DataSize \div C) * C
  BY DEF Whole
<1>14. n = B \/ k * B + n >= Vf!DataSize
  OBVIOUS
<1> HIDE DEF B, C, n
<1>7. ASSUME NEW i \in 1..n PROVE F(i) \in Cells
  <2>1. k * B + i - 1 \in Nat
    BY <1>1, <1>5
  <2> HIDE DEF Enciphered, Chained, whole
  <2> QED
    BY <2>1, <1>6, CellFacts
<1>8. ASSUME NEW i \in 1..n, k * B + i - 1 < Whole
      PROVE  F(i) = Vf!Plain(k * B + i - 1)
  <2> DEFINE q == (i - 1) \div C
             r == (i - 1) % C
             x == k * B + i - 1
  <2>1. i - 1 \in Nat /\ q \in Nat /\ r \in 0..C - 1 /\ i - 1 = C * q + r
    <3>1. i - 1 \in Nat /\ i - 1 \in Int
      BY <1>1
    <3> QED
      BY <1>3, <3>1, DivMod
  <2> HIDE DEF q, r
  <2>2. k * m \in Nat /\ k * m + q \in Nat /\ C * q \in Nat
    BY <1>3, <1>4, <2>1
  <2>3. k * B = C * (k * m)
    BY <1>3, <1>4
  <2>4. x = C * (k * m + q) + r
    <3>1. C * (k * m + q) = C * (k * m) + C * q
      BY <1>3, <2>1, <2>2
    <3> QED
      BY <1>5, <2>1, <2>2, <2>3, <3>1
  <2>5. x % C = r
    <3>1. PICK u \in Nat : u = k * m + q
      BY <2>2
    <3>2. C \in Nat \ {0} /\ r \in 0..C - 1
      BY <1>3, <2>1
    <3>3. (C * u + r) % C = r
      BY <3>2, MultipleOf
    <3> QED
      BY <2>4, <3>1, <3>3
  <2>6. x \in Nat /\ x < Whole
    BY <1>1, <1>5, <1>8
  <2>7. x - r + C <= Whole /\ Whole <= Vf!DataSize
    BY <1>3, <1>12, <2>5, <2>6, WholeBlocks
  <2>8. Whole \in Int
    <3>1. Vf!DataSize \div C \in Int
      BY <1>3, DivMod
    <3> QED
      BY <1>3, <1>12, <3>1
  <2>9. C * (q + 1) <= n
    <3>1. CASE n = B
      <4>1. C * q < C * m
        <5>1. PICK a \in Nat, b \in Nat : a = C * q /\ b = C * m
          BY <1>3, <1>4, <2>2
        <5>2. i - 1 = a + r /\ i <= b /\ r \in Nat
          BY <1>1, <1>3, <1>4, <2>1, <3>1, <5>1
        <5> QED
          BY <5>1, <5>2
      <4>2. q < m
        BY <1>3, <1>4, <2>1, <4>1
      <4>3. q + 1 <= m
        BY <1>4, <2>1, <4>2
      <4>4. C * (q + 1) <= C * m
        BY <1>3, <1>4, <2>1, <4>3
      <4> QED
        BY <1>4, <3>1, <4>4
    <3>2. CASE k * B + n >= Vf!DataSize
      <4>1. x - r + C <= k * B + n
        BY <1>1, <1>3, <1>5, <2>1, <2>6, <2>7, <2>8, <3>2
      <4>2. x - r = k * B + C * q
        BY <1>5, <2>1, <2>2
      <4>3. C * (q + 1) = C * q + C
        BY <1>3, <2>1
      <4> QED
        BY <1>1, <1>3, <1>5, <2>2, <4>1, <4>2, <4>3
    <3> QED
      BY <1>14, <3>1, <3>2
  <2>10. ~(i > whole)
    <3> DEFINE d == n \div C
    <3>1. d \in Nat /\ n % C \in 0..C - 1 /\ n = C * d + (n % C)
      <4>1. n \in Int
        BY <1>1
      <4> QED
        BY <1>1, <1>3, <4>1, DivMod
    <3> HIDE DEF d
    <3>2. C * (q + 1) < C * (d + 1)
      <4>1. C * (d + 1) = C * d + C /\ C * d \in Nat /\ C * (q + 1) \in Nat
        BY <1>3, <2>1, <3>1
      <4>2. n < C * d + C
        BY <1>1, <1>3, <3>1, <4>1
      <4> QED
        BY <1>1, <1>3, <2>9, <4>1, <4>2
    <3>3. q + 1 <= d
      BY <1>3, <2>1, <3>1, <3>2
    <3>4. C * (q + 1) <= d * C
      BY <1>3, <2>1, <3>1, <3>3
    <3>5. i <= C * (q + 1)
      BY <1>1, <1>3, <2>1
    <3>6. d * C \in Nat /\ C * (q + 1) \in Nat
      BY <1>3, <2>1, <3>1
    <3> QED
      BY <1>1, <3>4, <3>5, <3>6 DEF d
  <2>11. first(i) = C * q + 1 /\ first(i) \in 1..n
    <3>1. first(i) = C * q + 1
      BY <1>3, <2>1 DEF q
    <3> QED
      BY <1>1, <1>3, <2>1, <2>2, <2>9, <3>1
  <2>12. place(i) = k * B + C * q
    <3> HIDE DEF first
    <3>1. data[first(i)][2] = k * B + first(i) - 1
      BY <1>6, <2>11
    <3> QED
      BY <1>5, <2>2, <2>11, <3>1
  <2> HIDE DEF first, place, whole
  <2>13. Enciphered(i)
    <3>1. PICK zero \in 0..C - 1 : zero = 0
      BY <1>3
    <3>2. place(i) = C * (k * m + q) + zero
      <4>1. C * (k * m + q) = C * (k * m) + C * q
        BY <1>3, <2>1, <2>2
      <4> QED
        BY <1>5, <2>2, <2>3, <2>12, <3>1, <4>1
    <3>3. place(i) % C = 0
      <4>1. PICK v \in Nat : v = k * m + q
        BY <2>2
      <4>2. (C * v + zero) % C = zero
        BY <1>3, <4>1, <3>1, MultipleOf
      <4> QED
        BY <3>1, <3>2, <4>1, <4>2
    <3>4. place(i) + C <= Vf!DataSize
      <4>1. x - r = k * B + C * q
        BY <1>5, <2>1, <2>2
      <4> QED
        BY <1>3, <1>5, <2>2, <2>7, <2>8, <2>12, <4>1
    <3> QED
      BY <3>3, <3>4
  <2>14. Chained(i)
    <3>1. CASE C * q = 0
      BY <1>5, <2>2, <2>11, <2>12, <3>1
    <3>2. CASE C * q # 0
      <4>1. C * q \in 0..B - 1
        BY <1>1, <1>3, <2>1, <2>2
      <4>2. (B * k + C * q) % B = C * q
        BY <1>3, <4>1, MultipleOf
      <4>3. place(i) = B * k + C * q
        BY <1>3, <2>2, <2>12
      <4>4. first(i) # 1
        BY <2>2, <2>11, <3>2
      <4> QED
        BY <3>2, <4>2, <4>3, <4>4
    <3> QED
      BY <3>1, <3>2
  <2> HIDE DEF Enciphered, Chained
  <2> QED
    BY <1>6, <2>10, <2>13, <2>14
<1> HIDE DEF F, plain
<1>9. plain \in Seq(Cells) /\ Len(plain) = n
  <2>1. [i \in 1..n |-> F(i)] \in Seq(Cells) /\ Len([i \in 1..n |-> F(i)]) = n
    BY <1>1, <1>7, IsASeq
  <2> QED
    BY <1>2, <2>1
<1>10. ASSUME NEW j \in 1..n, k * B + j - 1 < Whole PROVE plain[j] = Vf!Plain(k * B + j - 1)
  BY <1>2, <1>8, <1>10
<1>11. GoodFrom(plain, k * B)
  BY <1>9, <1>10 DEF GoodFrom, Good
<1> QED
  BY <1>9, <1>11 DEF plain, n, B

-----------------------------------------------------------------------------
(* Writing: the file is a sequence of cells however many pieces there are. *)

\* A sequence is one of its own elements.
LEMMA SeqOfOwn ==
  ASSUME NEW T, NEW s \in Seq(T)
  PROVE  s \in Seq(Range(s))
<1>1. Len(s) \in Nat /\ DOMAIN s = 1..Len(s) /\ s \in [1..Len(s) -> T]
  BY LenProperties
<1>2. \A i \in 1..Len(s) : s[i] \in Range(s)
  BY <1>1 DEF Range
<1>3. [i \in 1..Len(s) |-> s[i]] \in Seq(Range(s))
  BY <1>1, <1>2, IsASeq
<1> QED
  BY <1>1, <1>3

\* One sequence after another is a sequence.
LEMMA ConcatIsSeq ==
  ASSUME NEW s, NEW t, s \in Seq(Range(s)), t \in Seq(Range(t))
  PROVE  s \o t \in Seq(Range(s \o t))
<1> DEFINE T == Range(s) \cup Range(t)
<1>1. s \in Seq(T) /\ t \in Seq(T)
  <2>1. Range(s) \subseteq T /\ Range(t) \subseteq T
    OBVIOUS
  <2> HIDE DEF T
  <2> QED
    BY <2>1, SeqMonotonic
<1> HIDE DEF T
<1>2. s \o t \in Seq(T)
  BY <1>1, ConcatProperties
<1> QED
  BY <1>2, SeqOfOwn

\* What a piece is compressed to is a sequence.
LEMMA StreamIsSeq ==
  ASSUME NEW bytes, NEW n \in Nat
  PROVE  Writer!Stream(bytes, n) \in Seq(Range(Writer!Stream(bytes, n)))
<1> DEFINE F(i) == <<"stream", bytes, i, n>>
           T == {F(i) : i \in 1..n}
<1>1. \A i \in 1..n : F(i) \in T
  OBVIOUS
<1>2. Writer!Stream(bytes, n) = [i \in 1..n |-> F(i)]
  BY DEF Writer!Stream
<1> HIDE DEF F, T
<1>3. [i \in 1..n |-> F(i)] \in Seq(T)
  BY <1>1, IsASeq
<1> QED
  BY <1>2, <1>3, SeqOfOwn

\* The loop of add_partition: what it has after each piece is what it had before
\* and that piece.
LEMMA PiecesLoop ==
  ASSUME NEW bytes, NEW lens, Writer!NumPieces(bytes) \in Nat
  PROVE  \E after :
           /\ Writer!Pieces(bytes, lens) = after[Writer!NumPieces(bytes)]
           /\ after[0].w = w
           /\ after[0] = [w |-> w, sector |-> sectorNumber, offset |-> compressedOffset,
                          table |-> Writer!EmptyTable]
           /\ \A i \in 1..Writer!NumPieces(bytes) :
                after[i] = Writer!AddPiece(after[i - 1], Writer!Piece(bytes, i), lens[i])
<1> DEFINE N == Writer!NumPieces(bytes)
           Base == [w |-> w, sector |-> sectorNumber, offset |-> compressedOffset,
                    table |-> Writer!EmptyTable]
           Step(acc, i) == Writer!AddPiece(acc, Writer!Piece(bytes, i), lens[i])
           Loop(g, n) == g = [i \in 0..n |-> IF i = 0 THEN Base ELSE Step(g[i - 1], i)]
           Bad == {n \in Nat : ~ \E g : Loop(g, n)}
           after == CHOOSE g : Loop(g, N)
<1>1. Writer!Pieces(bytes, lens) = after[N]
  BY DEF Writer!Pieces
<1>2. Base.w = w
  OBVIOUS
<1>3. N \in Nat
  OBVIOUS
<1> HIDE DEF Base, Step, N
<1>4. Bad = {}
  <2> SUFFICES ASSUME Bad # {} PROVE FALSE
    OBVIOUS
  <2>1. PICK n \in Bad : \A k \in Bad : n <= k
    <3>1. Bad \in SUBSET Nat
      OBVIOUS
    <3> HIDE DEF Bad
    <3> QED
      BY <3>1, LeastIn
  <2>2. CASE n = 0
    <3> DEFINE g == [i \in 0..n |-> Base]
    <3>1. Loop(g, n)
      BY <2>2
    <3> QED
      BY <3>1
  <2>3. CASE n # 0
    <3>1. n \in Nat /\ n - 1 \in Nat /\ n - 1 \notin Bad
      <4>1. n \in Nat
        OBVIOUS
      <4> HIDE DEF Bad
      <4> QED
        BY <2>1, <2>3, <4>1
    <3>2. PICK g : Loop(g, n - 1)
      BY <3>1
    <3> DEFINE h == [i \in 0..n |-> IF i = n THEN Step(g[n - 1], n) ELSE g[i]]
    <3>3. \A i \in 0..n - 1 : g[i] = IF i = 0 THEN Base ELSE Step(g[i - 1], i)
      BY <3>2
    <3>4. ASSUME NEW i \in 0..n PROVE h[i] = IF i = 0 THEN Base ELSE Step(h[i - 1], i)
      <4>1. CASE i = n
        <5>1. h[i] = Step(g[n - 1], n) /\ h[n - 1] = g[n - 1]
          BY <3>1, <4>1
        <5> QED
          BY <2>3, <4>1, <5>1
      <4>2. CASE i # n
        <5>1. i \in 0..n - 1 /\ h[i] = g[i]
          BY <3>1, <4>2
        <5>2. i # 0 => h[i - 1] = g[i - 1]
          BY <3>1, <4>2
        <5> QED
          BY <3>3, <5>1, <5>2
      <4> QED
        BY <4>1, <4>2
    <3>5. Loop(h, n)
      <4> DEFINE f == [i \in 0..n |-> IF i = 0 THEN Base ELSE Step(h[i - 1], i)]
      <4>1. DOMAIN h = 0..n /\ DOMAIN f = 0..n /\ \A i \in 0..n : h[i] = f[i]
        BY <3>4
      <4>2. h = [i \in 0..n |-> h[i]] /\ f = [i \in 0..n |-> f[i]]
        OBVIOUS
      <4> HIDE DEF h
      <4>3. h = f
        BY <4>1, <4>2
      <4> QED
        BY <4>3
    <3> HIDE DEF h
    <3> QED
      BY <3>5
  <2> QED
    BY <2>2, <2>3
<1>5. Loop(after, N)
  BY <1>3, <1>4
<1> HIDE DEF after
<1>6. after[0] = Base /\ \A i \in 1..N : after[i] = Step(after[i - 1], i)
  <2>1. \A i \in 0..N : after[i] = IF i = 0 THEN Base ELSE Step(after[i - 1], i)
    BY <1>5
  <2>2. 0 \in 0..N /\ \A i \in 1..N : i \in 0..N /\ i # 0
    BY <1>3
  <2> QED
    BY <2>1, <2>2
<1> QED
  BY <1>1, <1>2, <1>6 DEF N, Step, Base
\* A piece is written at the end of the file.
LEMMA AddPieceWrites ==
  ASSUME NEW acc, NEW piece, NEW length
  PROVE  Writer!AddPiece(acc, piece, length).w = acc.w \o Writer!Stream(piece, length)
BY DEF Writer!AddPiece

\* add_partition leaves a sequence.
LEMMA PiecesIsSeq ==
  ASSUME FileTyped, NEW bytes \in Seq(Int),
         NEW lens \in [1..Writer!NumPieces(bytes) -> 1..MaxStream]
  PROVE  Writer!Pieces(bytes, lens).w \in Seq(Range(Writer!Pieces(bytes, lens).w))
<1> DEFINE N == Writer!NumPieces(bytes)
<1>1. N \in Nat
  <2> DEFINE k == ChunkSectors * SectorSize
  <2>1. Len(bytes) \in Nat /\ k \in Nat \ {0}
    BY LenProperties, Constants
  <2> HIDE DEF k
  <2>2. (Len(bytes) + k - 1) \div k \in Nat
    <3>1. Len(bytes) + k - 1 \in Nat /\ Len(bytes) + k - 1 \in Int
      BY <2>1
    <3> QED
      BY <2>1, <3>1, DivMod
  <2> QED
    BY <2>2 DEF Writer!NumPieces, k
<1>2. PICK after :
           /\ Writer!Pieces(bytes, lens) = after[N]
           /\ after[0].w = w
           /\ \A i \in 1..N : after[i] = Writer!AddPiece(after[i - 1], Writer!Piece(bytes, i), lens[i])
  BY <1>1, PiecesLoop
<1>3. \A i \in 1..N : lens[i] \in Nat
  BY Constants
<1> HIDE DEF N
<1>4. ASSUME NEW i \in 1..N, after[i - 1].w \in Seq(Range(after[i - 1].w))
      PROVE  after[i].w \in Seq(Range(after[i].w))
  <2> DEFINE s == after[i - 1].w
             t == Writer!Stream(Writer!Piece(bytes, i), lens[i])
  <2>1. after[i].w = s \o t
    <3>1. PICK acc, piece, length :
                 acc = after[i - 1] /\ piece = Writer!Piece(bytes, i) /\ length = lens[i]
      OBVIOUS
    <3>2. after[i] = Writer!AddPiece(acc, piece, length)
      BY <1>2, <3>1
    <3>3. Writer!AddPiece(acc, piece, length).w = acc.w \o Writer!Stream(piece, length)
      BY AddPieceWrites
    <3> QED
      BY <3>1, <3>2, <3>3
  <2>2. t \in Seq(Range(t))
    BY <1>3, StreamIsSeq
  <2>3. s \in Seq(Range(s))
    BY <1>4
  <2> HIDE DEF s, t
  <2> QED
    BY <2>1, <2>2, <2>3, ConcatIsSeq
<1> DEFINE Bad == {i \in Nat : i <= N /\ after[i].w \notin Seq(Range(after[i].w))}
<1>5. Bad = {}
  <2> SUFFICES ASSUME Bad # {} PROVE FALSE
    OBVIOUS
  <2>1. PICK n \in Bad : \A k \in Bad : n <= k
    <3>1. Bad \in SUBSET Nat
      OBVIOUS
    <3> HIDE DEF Bad
    <3> QED
      BY <3>1, LeastIn
  <2>2. n \in Nat /\ n <= N /\ after[n].w \notin Seq(Range(after[n].w))
    OBVIOUS
  <2>3. n # 0
    BY <1>2, <2>2 DEF FileTyped
  <2>4. n \in 1..N /\ n - 1 \in Nat /\ n - 1 <= N
    BY <1>1, <2>2, <2>3
  <2>5. n - 1 \notin Bad
    <3> HIDE DEF Bad
    <3> QED
      BY <2>1, <2>2
  <2>6. after[n - 1].w \in Seq(Range(after[n - 1].w))
    BY <2>4, <2>5
  <2> QED
    BY <1>4, <2>2, <2>4, <2>6
<1>6. N \in Nat /\ N <= N /\ N \notin Bad
  BY <1>1, <1>5
<1>7. after[N].w \in Seq(Range(after[N].w))
  BY <1>6
<1> QED
  BY <1>2, <1>7

\* The steps of DmgWriter keep the file a sequence.
LEMMA WriterKeeps ==
  ASSUME FileTyped, Writer!WriterNext
  PROVE  FileTyped'
<1>1. CASE Writer!AddPartition
  <2>1. parts # <<>> /\ parts' = Tail(parts)
    BY <1>1 DEF Writer!AddPartition
  <2>2. Head(parts) \in Seq(Int) /\ parts' \in Seq(Seq(Int))
    BY <2>1, HeadTailProperties DEF FileTyped
  <2>3. PICK lens \in [1..Writer!NumPieces(Head(parts)) -> 1..MaxStream] :
               w' = Writer!Pieces(Head(parts), lens).w
    BY <1>1 DEF Writer!AddPartition
  <2>4. Writer!Pieces(Head(parts), lens).w \in Seq(Range(Writer!Pieces(Head(parts), lens).w))
    BY <2>2, PiecesIsSeq
  <2> QED
    BY <2>2, <2>3, <2>4 DEF FileTyped
<1>2. CASE Writer!Finish
  <2> DEFINE t == Writer!Trailer(tables, Len(w))
  <2>1. w' = w \o t /\ parts' = parts
    BY <1>2 DEF Writer!Finish
  <2>2. \E T : t \in Seq(T)
    <3> DEFINE a == <<"plist", tables>>
               b == <<"koly", Len(w), 1>>
               c == <<"reserved">>
    <3>1. t = <<a, b, c>>
      BY DEF Writer!Trailer
    <3> HIDE DEF a, b, c, t
    <3>2. t \in Seq({a, b, c})
      BY <3>1
    <3> QED
      BY <3>2
  <2>3. t \in Seq(Range(t))
    BY <2>2, SeqOfOwn
  <2> HIDE DEF t
  <2>4. w \o t \in Seq(Range(w \o t))
    BY <2>3, ConcatIsSeq DEF FileTyped
  <2> QED
    BY <2>1, <2>4 DEF FileTyped
<1>3. CASE Writer!WriteFails
  BY <1>3 DEF Writer!WriteFails, FileTyped
<1> QED
  BY <1>1, <1>2, <1>3 DEF Writer!WriterNext

-----------------------------------------------------------------------------
(* Decrypting.                                                             *)

\* A step that keeps the image keeps what its header says.
LEMMA SameImage ==
  ASSUME img' = img
  PROVE  /\ Vf!HdrVersion' = Vf!HdrVersion /\ Vf!BlockLen' = Vf!BlockLen
         /\ Vf!DataSize' = Vf!DataSize /\ Vf!DataOffset' = Vf!DataOffset
         /\ Whole' = Whole /\ Vf!BatchSize' = Vf!BatchSize
<1>1. Vf!HdrVersion' = Vf!HdrVersion
  BY DEF Vf!HdrVersion
<1>2. Vf!BlockLen' = Vf!BlockLen /\ Vf!DataSize' = Vf!DataSize /\ Vf!DataOffset' = Vf!DataOffset
  BY <1>1 DEF Vf!BlockLen, Vf!DataSize, Vf!DataOffset
<1>3. Whole' = Whole
  BY <1>2 DEF Whole
<1>4. Vf!BatchSize' = Vf!BatchSize
  BY <1>2 DEF Vf!BatchSize
<1> QED
  BY <1>1, <1>2, <1>3, <1>4

\* With it, what is good stays good.
LEMMA SameGood ==
  ASSUME img' = img
  PROVE  /\ OutputGood' <=> GoodFrom(output', 0) /\ Within(Len(output'))
         /\ \A n : Within(n)' <=> Within(n)
<1>1. \A n : (Vf!HdrVersion' = 2 => n <= Vf!DataSize') <=> (Vf!HdrVersion = 2 => n <= Vf!DataSize)
  BY SameImage
<1> QED
  BY <1>1, SameImage DEF OutputGood, GoodFrom, Good, Within

\* Nothing is good.
LEMMA EmptyGood ==
  ASSUME ImageTyped, img # <<>>
  PROVE  /\ <<>> \in Seq(Cells) /\ Len(<<>>) = 0
         /\ \A x : GoodFrom(<<>>, x)
         /\ Within(0)
<1>1. <<>> \in Seq(Cells) /\ Len(<<>>) = 0 /\ 1..0 = {}
  OBVIOUS
<1>2. Vf!HdrVersion = 2 => 0 <= Vf!DataSize
  BY ImageFacts
<1> QED
  BY <1>1, <1>2 DEF GoodFrom, Within

\* VfDecryptor::new.
LEMMA NewKeeps ==
  ASSUME ImageTyped, img # <<>>, Sound, Vf!New
  PROVE  Sound'
<1>1. /\ img' = img /\ phase = "closed" /\ phase' \in {"open", "failed"}
      /\ Vf!HdrVersion = 0 => phase' = "failed"
      /\ at' = IF phase' = "open" THEN Vf!DataOffset ELSE at
      /\ UNCHANGED <<chunkNo, totalOut, buffer, bufferPos, todo, output, short>>
  BY DEF Vf!New
<1>2. /\ at = 0 /\ chunkNo = 0 /\ totalOut = 0 /\ buffer = <<>> /\ bufferPos = 0
      /\ todo = {} /\ output = <<>> /\ short = FALSE
  BY <1>1 DEF Sound, Fresh, Typed
<1>3. /\ Vf!HdrVersion \in {0, 1, 2} /\ Vf!DataOffset \in Nat /\ Vf!DataOffset <= img.len
      /\ Vf!BlockLen \in Nat \ {0}
  BY ImageFacts
<1>4. Vf!HdrVersion' = Vf!HdrVersion /\ Vf!DataOffset' = Vf!DataOffset /\ Vf!BlockLen' = Vf!BlockLen
      /\ Vf!DataSize' = Vf!DataSize /\ Whole' = Whole
  BY <1>1, SameImage
<1>5. Typed'
  BY <1>1, <1>2, <1>3, EmptyGood DEF Sound, Typed, Vf!Phases
<1>6. Fresh'
  BY <1>1, <1>2, <1>4 DEF Fresh
<1>7. OutputGood'
  BY <1>1, <1>2, SameGood, EmptyGood
<1>8. Started'
  BY <1>1, <1>2, <1>3, <1>4, EmptyGood DEF Started
<1>9. Reading'
  <2> SUFFICES ASSUME phase' = "open" PROVE Reading'
    BY <1>1 DEF Reading
  <2>1. GoodFrom(<<>>, 0) /\ Within(0) /\ Len(<<>>) = 0
    BY EmptyGood
  <2>2. GoodFrom(buffer, 0 - 0)' /\ Within(0 - 0 + 0)'
    BY <1>1, <1>2, <1>4, <2>1 DEF GoodFrom, Good, Within
  <2>3. 0 * Vf!BlockLen = 0
    BY <1>3
  <2> QED
    BY <1>1, <1>2, <1>3, <1>4, <2>1, <2>2, <2>3 DEF Reading
<1>10. Filling' /\ Decrypting' /\ Complete'
  BY <1>1 DEF Filling, Decrypting, Complete
<1> QED
  BY <1>5, <1>6, <1>7, <1>8, <1>9, <1>10 DEF Sound

\* Good data after good data is good.
LEMMA GoodConcat ==
  ASSUME NEW a \in Seq(Cells), NEW b \in Seq(Cells), NEW x \in Nat, NEW y \in Nat,
         GoodFrom(a, x), GoodFrom(b, y), y = x + Len(a)
  PROVE  a \o b \in Seq(Cells) /\ Len(a \o b) = Len(a) + Len(b) /\ GoodFrom(a \o b, x)
<1>1. /\ Len(a) \in Nat /\ Len(b) \in Nat
      /\ a \o b \in Seq(Cells) /\ Len(a \o b) = Len(a) + Len(b)
      /\ \A i \in 1..Len(a) + Len(b) : (a \o b)[i] = IF i <= Len(a) THEN a[i] ELSE b[i - Len(a)]
  BY LenProperties, ConcatProperties
<1>2. ASSUME NEW j \in 1..Len(a) + Len(b) PROVE Good((a \o b)[j], x + j - 1)
  <2>1. CASE j <= Len(a)
    <3>1. j \in 1..Len(a) /\ (a \o b)[j] = a[j]
      BY <1>1, <2>1
    <3> QED
      BY <3>1 DEF GoodFrom
  <2>2. CASE ~(j <= Len(a))
    <3>1. PICK k \in 1..Len(b) : k = j - Len(a)
      BY <1>1, <2>2
    <3>2. (a \o b)[j] = b[k] /\ x + j - 1 = y + k - 1
      BY <1>1, <2>2, <3>1
    <3>3. Good(b[k], y + k - 1)
      BY DEF GoodFrom
    <3> QED
      BY <3>2, <3>3
  <2> QED
    BY <2>1, <2>2
<1> QED
  BY <1>1, <1>2 DEF GoodFrom

\* A part of good data is good, and is typed whether it is or not.
LEMMA PartOf ==
  ASSUME NEW data \in Seq(Cells), NEW from \in Nat, NEW n \in Nat, from + n <= Len(data)
  PROVE  LET part == SubSeq(data, from + 1, from + n)
         IN  /\ part \in Seq(Cells) /\ Len(part) = n
             /\ \A i \in 1..n : part[i] = data[from + i]
             /\ \A x \in Nat : GoodFrom(data, x) => GoodFrom(part, x + from)
<1> DEFINE part == SubSeq(data, from + 1, from + n)
<1>1. Len(data) \in Nat
  BY LenProperties
<1>2. part \in Seq(Cells) /\ Len(part) = n /\ \A i \in 1..n : part[i] = data[from + i]
  <2>1. from + 1 \in 1..Len(data) + 1 /\ from + n \in from + 1 - 1..Len(data)
    BY <1>1
  <2>2. \A i \in from + 1..from + n : data[i] \in Cells
    BY <1>1, ElementOfSeq
  <2>3. part \in Seq(Cells) /\ Len(part) = n
    BY <1>1, <2>1, <2>2, SubSeqProperties
  <2>4. \A i \in 1..n : part[i] = data[from + i]
    <3>1. PICK lo \in Int, hi \in Int : lo = from + 1 /\ hi = from + n
      OBVIOUS
    <3>2. \A i \in 1..hi - lo + 1 : SubSeq(data, lo, hi)[i] = data[lo + i - 1]
      BY <2>2, <3>1, SubSeqProperties
    <3>3. \A i \in 1..n : i \in 1..hi - lo + 1 /\ lo + i - 1 = from + i
      BY <3>1
    <3> QED
      BY <3>1, <3>2, <3>3
  <2> QED
    BY <2>3, <2>4
<1> HIDE DEF part
<1>3. ASSUME NEW x \in Nat, GoodFrom(data, x) PROVE GoodFrom(part, x + from)
  <2>1. ASSUME NEW j \in 1..n PROVE Good(part[j], x + from + j - 1)
    <3>1. PICK k \in 1..Len(data) : k = from + j
      BY <1>1
    <3>2. Good(data[k], x + k - 1)
      BY <1>3 DEF GoodFrom
    <3>3. part[j] = data[k] /\ x + k - 1 = x + from + j - 1
      BY <1>2, <3>1
    <3> QED
      BY <3>2, <3>3
  <2> QED
    BY <1>2, <2>1 DEF GoodFrom
<1> QED
  BY <1>2, <1>3 DEF part

\* A batch is whole chunks.
LEMMA BatchFacts ==
  ASSUME ImageTyped, img # <<>>
  PROVE  \E m \in Nat \ {0} : Vf!BatchSize = Vf!BlockLen * m /\ Vf!BatchSize \in Nat \ {0}
<1> DEFINE B == Vf!BlockLen
           d == BatchLimit \div B
<1>1. B \in Nat \ {0}
  BY ImageFacts
<1>2. d \in Nat
  <2>1. BatchLimit \in Nat /\ BatchLimit \in Int
    BY Constants
  <2> HIDE DEF B
  <2> QED
    BY <1>1, <2>1, DivMod
<1>3. Vf!BatchSize = Vf!Max({d * B, B})
  BY DEF Vf!BatchSize
<1> HIDE DEF B, d
<1>4. d * B \in Int /\ B \in Int
  BY <1>1, <1>2
<1>5. Vf!BatchSize = IF d * B >= B THEN d * B ELSE B
  BY <1>3, <1>4, MaxOfTwo
<1>6. CASE d = 0
  <2>1. Vf!BatchSize = B * 1 /\ B \in Nat \ {0}
    BY <1>1, <1>5, <1>6
  <2> QED
    BY <2>1 DEF B
<1>7. CASE d # 0
  <2>1. d >= 1 /\ d * B = B * d /\ B * d >= B * 1
    BY <1>1, <1>2, <1>7
  <2>2. Vf!BatchSize = B * d /\ B * d \in Nat \ {0}
    BY <1>1, <1>2, <1>5, <2>1
  <2> QED
    BY <1>2, <1>7, <2>2 DEF B
<1> QED
  BY <1>6, <1>7

\* What decrypt_parallel asks for: a batch, or what is left of the data.
LEMMA ToReadFacts ==
  ASSUME ImageTyped, img # <<>>, totalOut \in Nat
  PROVE  /\ Vf!ToRead \in Nat /\ Vf!BatchSize \in Nat /\ Vf!ToRead <= Vf!BatchSize
         /\ \/ Vf!ToRead = Vf!BatchSize
            \/ Vf!HdrVersion = 2 /\ totalOut + Vf!ToRead >= Vf!DataSize
         /\ Vf!HdrVersion = 2 /\ totalOut <= Vf!DataSize => totalOut + Vf!ToRead <= Vf!DataSize
         /\ Vf!HdrVersion = 2 /\ totalOut >= Vf!DataSize => Vf!ToRead = 0
<1> DEFINE S == Vf!DataSize
           left == Vf!Max({S - totalOut, 0})
<1>1. Vf!BatchSize \in Nat \ {0}
  BY BatchFacts
<1>2. CASE Vf!HdrVersion = 2
  <2>1. S \in Nat
    BY <1>2, ImageFacts
  <2>2. Vf!ToRead = Vf!Min({Vf!BatchSize, left})
    BY <1>2 DEF Vf!ToRead
  <2>3. left = IF S - totalOut >= 0 THEN S - totalOut ELSE 0
    <3>1. PICK v \in Int : v = S - totalOut
      BY <2>1
    <3>2. PICK zero \in Int : zero = 0
      OBVIOUS
    <3>3. Vf!Max({v, zero}) = IF v >= zero THEN v ELSE zero
      BY MaxOfTwo
    <3> QED
      BY <3>1, <3>2, <3>3
  <2> HIDE DEF S, left
  <2>4. left \in Int /\ Vf!BatchSize \in Int
    BY <1>1, <2>1, <2>3
  <2>5. Vf!ToRead = IF Vf!BatchSize <= left THEN Vf!BatchSize ELSE left
    BY <2>2, <2>4, MinOfTwo
  <2>6. Vf!ToRead \in Nat
    BY <1>1, <2>1, <2>3, <2>5
  <2>7. Vf!ToRead = Vf!BatchSize \/ totalOut + Vf!ToRead >= S
    BY <1>1, <2>1, <2>3, <2>5
  <2>8. totalOut <= S => totalOut + Vf!ToRead <= S
    BY <1>1, <2>1, <2>3, <2>5
  <2>9. totalOut >= S => Vf!ToRead = 0
    BY <1>1, <2>1, <2>3, <2>5
  <2>10. Vf!ToRead <= Vf!BatchSize
    BY <2>4, <2>5
  <2> QED
    BY <1>1, <1>2, <2>6, <2>7, <2>8, <2>9, <2>10 DEF S
<1>3. CASE Vf!HdrVersion # 2
  BY <1>1, <1>3 DEF Vf!ToRead
<1> QED
  BY <1>2, <1>3

\* The number of the chunks of a batch.
LEMMA ChunkCount ==
  ASSUME ImageTyped, img # <<>>, NEW n \in Nat
  PROVE  LET c == Vf!NumChunks(n)
             B == Vf!BlockLen
         IN  /\ c \in Nat /\ n <= c * B /\ c * B < n + B
             /\ \A m \in Nat : n = B * m => c * B = n
<1> DEFINE c == Vf!NumChunks(n)
           B == Vf!BlockLen
           r == (n + B - 1) % B
<1>1. B \in Nat \ {0}
  BY ImageFacts
<1>2. c \in Nat /\ r \in 0..B - 1 /\ n + B - 1 = B * c + r
  <2>1. PICK v \in Nat : v = n + B - 1
    BY <1>1
  <2>2. v \in Int /\ v \in Nat /\ c = v \div B /\ r = v % B
    BY <2>1 DEF Vf!NumChunks
  <2> HIDE DEF c, B, r
  <2>3. v \div B \in Nat /\ v % B \in 0..B - 1 /\ v = B * (v \div B) + (v % B)
    BY <1>1, <2>2, DivMod
  <2> QED
    BY <2>1, <2>2, <2>3
<1> HIDE DEF c, B, r
<1>3. c * B = B * c /\ B * c \in Nat
  BY <1>1, <1>2
<1>4. n <= c * B /\ c * B < n + B
  BY <1>1, <1>2, <1>3
<1>5. ASSUME NEW m \in Nat, n = B * m PROVE c * B = n
  <2>1. B * m <= B * c /\ B * c < B * m + B
    BY <1>3, <1>4, <1>5
  <2>2. B * (m + 1) = B * m + B /\ B * m \in Nat
    BY <1>1
  <2>3. B * c < B * (m + 1)
    BY <2>1, <2>2
  <2>4. m <= c /\ c < m + 1
    BY <1>1, <1>2, <2>1, <2>3
  <2>5. c = m
    BY <1>2, <2>4
  <2> QED
    BY <1>3, <1>5, <2>5
<1> QED
  BY <1>2, <1>4, <1>5 DEF c, B

\* A part of a chunk read from the file decrypts to as many cells.
LEMMA DecryptChunkTyped ==
  ASSUME ImageTyped, img # <<>>, NEW k \in Nat, NEW a \in Nat, NEW r \in Nat, a >= Vf!DataOffset
  PROVE  LET plain == Vf!DecryptChunk(k, Vf!FileBytes(a, r))
         IN  plain \in Seq(Cells) /\ Len(plain) = r
<1> DEFINE data == Vf!FileBytes(a, r)
           C == CipherBlock
           whole == (r \div C) * C
           first(i) == ((i - 1) \div C) * C + 1
           place(i) == data[first(i)][2]
           Chained(i) == IF first(i) = 1 THEN place(i) = k * Vf!BlockLen
                         ELSE place(i) % Vf!BlockLen # 0
           Enciphered(i) == /\ place(i) % C = 0
                            /\ Vf!HdrVersion = 1 => place(i) + C <= Vf!DataSize
           F(i) == IF i > whole THEN data[i]
                   ELSE IF Enciphered(i) /\ Chained(i) THEN Vf!Plain(data[i][2]) ELSE Vf!Garbled
           plain == Vf!DecryptChunk(k, data)
<1>1. data \in Seq(Cells) /\ Len(data) = r /\ DOMAIN data = 1..r
  BY FileBytesProperties, LenProperties
<1>2. \A i \in 1..r : data[i] = Vf!Cipher(a - Vf!DataOffset + i - 1)
  BY FileBytesProperties
<1>3. plain = [i \in 1..r |-> F(i)]
  BY <1>1 DEF Vf!DecryptChunk
<1> HIDE DEF data, Enciphered, Chained, whole
<1>4. ASSUME NEW i \in 1..r PROVE F(i) \in Cells
  <2>1. PICK x \in Nat : x = a - Vf!DataOffset + i - 1
    BY ImageFacts
  <2>2. data[i] = Vf!Cipher(x) /\ data[i][2] = x
    BY <1>2, <2>1, CellFacts
  <2> QED
    BY <2>2, CellFacts
<1> HIDE DEF F, plain
<1>5. [i \in 1..r |-> F(i)] \in Seq(Cells) /\ Len([i \in 1..r |-> F(i)]) = r
  BY <1>4, IsASeq
<1> QED
  BY <1>3, <1>5 DEF plain, data

\* What is decrypted while the decryptor is open.
LEMMA OutputWhenOpen ==
  ASSUME Sound, ~short, phase # "closed"
  PROVE  GoodFrom(output, 0) /\ Within(Len(output))
BY DEF Sound, OutputGood

\* decrypt_parallel begins.
LEMMA DecryptParallelKeeps ==
  ASSUME ImageTyped, img # <<>>, Sound, Vf!DecryptParallel
  PROVE  Sound'
<1>1. /\ img' = img /\ phase = "open" /\ phase' = "filling"
      /\ UNCHANGED <<at, chunkNo, totalOut, buffer, bufferPos, todo, output, short>>
  BY DEF Vf!DecryptParallel
<1>2. /\ at = Vf!DataOffset /\ chunkNo = 0 /\ totalOut = 0 /\ buffer = <<>> /\ bufferPos = 0
      /\ todo = {} /\ output = <<>> /\ short = FALSE
  BY <1>1 DEF Sound, Fresh, Typed
<1>3. Typed'
  BY <1>1 DEF Sound, Typed, Vf!Phases
<1>4. OutputGood'
  BY <1>1, <1>2, SameGood, EmptyGood
<1>5. Started'
  BY <1>1, SameImage DEF Sound, Started
<1>6. Filling'
  <2>1. Vf!ToRead' = Vf!ToRead
    BY <1>1, SameImage DEF Vf!ToRead
  <2>2. Vf!ToRead \in Nat
    BY <1>2, ToReadFacts DEF Sound, Typed
  <2>3. Vf!DataOffset \in Nat /\ Vf!BlockLen \in Nat \ {0} /\ 0 * Vf!BlockLen = 0
    BY ImageFacts
  <2>4. Len(<<>>) = 0
    OBVIOUS
  <2>5. BatchRead'
    BY <1>1, <1>2, <2>1, <2>2, <2>3, <2>4, SameImage DEF BatchRead
  <2>6. 1..Len(buffer') = {}
    BY <1>1, <1>2, <2>4
  <2> QED
    BY <1>1, <1>2, <2>5, <2>6 DEF Filling
<1>7. Fresh' /\ Decrypting' /\ Reading' /\ Complete'
  BY <1>1 DEF Fresh, Decrypting, Reading, Complete
<1> QED
  BY <1>3, <1>4, <1>5, <1>6, <1>7 DEF Sound

\* A step to an end, with all that came out before it.
LEMMA EndKeeps ==
  ASSUME ImageTyped, img # <<>>, Sound, img' = img, phase # "closed",
         phase' \in {"done", "taken", "failed"},
         UNCHANGED <<at, chunkNo, totalOut, buffer, bufferPos, output, short>>, todo' \subseteq Nat,
         Complete'
  PROVE  Sound'
<1>1. Typed'
  BY DEF Sound, Typed, Vf!Phases
<1>2. ~short' => OutputGood'
  <2> SUFFICES ASSUME ~short' PROVE OutputGood'
    OBVIOUS
  <2>1. GoodFrom(output, 0) /\ Within(Len(output))
    BY OutputWhenOpen
  <2> QED
    BY <2>1, SameGood
<1>3. Fresh' /\ Started' /\ Filling' /\ Decrypting' /\ Reading'
  BY DEF Fresh, Started, Filling, Decrypting, Reading
<1> QED
  BY <1>1, <1>2, <1>3 DEF Sound

\* A read of the input fails.
LEMMA InputFailsKeeps ==
  ASSUME ImageTyped, img # <<>>, Sound, Vf!InputFails
  PROVE  Sound'
<1>1. /\ img' = img /\ phase \in {"filling", "open", "reading"} /\ phase' = "failed"
      /\ UNCHANGED <<at, chunkNo, totalOut, buffer, bufferPos, todo, output, short>>
  BY DEF Vf!InputFails
<1>2. Complete'
  BY <1>1 DEF Complete
<1>3. todo' \subseteq Nat
  BY <1>1 DEF Sound, Typed
<1> QED
  BY <1>1, <1>2, <1>3, EndKeeps

\* Read gives nothing more.
LEMMA ReadEndKeeps ==
  ASSUME ImageTyped, img # <<>>, Sound, Vf!ReadEnd
  PROVE  Sound'
<1>1. /\ img' = img /\ phase \in {"open", "reading"} /\ phase' = "taken"
      /\ Vf!AtEnd \/ (bufferPos >= Len(buffer) /\ at >= img.len)
      /\ UNCHANGED <<at, chunkNo, totalOut, buffer, bufferPos, todo, output, short>>
  BY DEF Vf!ReadEnd
<1>2. todo' \subseteq Nat
  BY <1>1 DEF Sound, Typed
<1>3. ASSUME ~short PROVE Len(output) >= Vf!DataSize \/ Len(output) >= img.len - Vf!DataOffset
  <2>1. /\ Len(output) = totalOut /\ totalOut \in Nat /\ bufferPos \in 0..Len(buffer)
        /\ at \in Nat /\ Len(buffer) \in Nat
    <3>1. Len(output) = totalOut
      BY <1>1 DEF Sound, Started
    <3> QED
      BY <3>1, LenProperties DEF Sound, Typed
  <2>2. \/ Vf!DataOffset + totalOut - bufferPos + Len(buffer) = at
        \/ Vf!HdrVersion = 2 /\ totalOut - bufferPos + Len(buffer) = Vf!DataSize
    BY <1>1, <1>3 DEF Sound, Reading
  <2>3. Vf!DataOffset \in Nat /\ Vf!DataSize \in Int /\ img.len \in Nat
    BY ImageFacts
  <2>4. CASE Vf!AtEnd
    BY <2>1, <2>4 DEF Vf!AtEnd
  <2>5. CASE bufferPos >= Len(buffer) /\ at >= img.len
    BY <2>1, <2>2, <2>3, <2>5
  <2> QED
    BY <1>1, <2>4, <2>5
<1>4. Complete'
  BY <1>1, <1>3, SameImage DEF Complete
<1> QED
  BY <1>1, <1>2, <1>4, EndKeeps

\* One read of the loop that fills the batch.
LEMMA FillBatchKeeps ==
  ASSUME ImageTyped, img # <<>>, Sound, Vf!FillBatch
  PROVE  Sound'
<1>1. /\ img' = img /\ phase = "filling" /\ phase' = "filling"
      /\ Len(buffer) < Vf!ToRead /\ at < img.len
      /\ UNCHANGED <<chunkNo, totalOut, bufferPos, todo, output, short>>
  BY DEF Vf!FillBatch
<1>2. /\ at \in Nat /\ chunkNo \in Nat /\ totalOut \in Nat /\ buffer \in Seq(Cells)
      /\ output \in Seq(Cells) /\ Len(buffer) \in Nat
  BY LenProperties DEF Sound, Typed
<1>3. /\ Vf!ToRead \in Nat /\ (Vf!HdrVersion = 2 /\ totalOut >= Vf!DataSize => Vf!ToRead = 0)
      /\ img.len \in Nat /\ Vf!DataOffset \in Nat /\ Vf!ToRead' = Vf!ToRead
  <2>1. Vf!ToRead' = Vf!ToRead
    BY <1>1, SameImage DEF Vf!ToRead
  <2> QED
    BY <1>2, <2>1, ToReadFacts, ImageFacts
<1>4. PICK r \in Nat : /\ r >= 1 /\ Len(buffer) + r <= Vf!ToRead /\ at + r <= img.len
                       /\ buffer' = buffer \o Vf!FileBytes(at, r) /\ at' = at + r
  <2>1. PICK u \in Int : u = Vf!ToRead - Len(buffer)
    <3>1. Vf!ToRead \in Int /\ Len(buffer) \in Int
      BY <1>2, <1>3
    <3> QED
      BY <3>1
  <2>2. PICK v \in Int : v = img.len - at
    BY <1>2, <1>3
  <2>3. PICK r \in 1..Vf!Min({u, v}) : buffer' = buffer \o Vf!FileBytes(at, r) /\ at' = at + r
    BY <2>1, <2>2 DEF Vf!FillBatch
  <2>4. r \in Nat /\ r >= 1 /\ r <= u /\ r <= v
    <3>1. Vf!Min({u, v}) = IF u <= v THEN u ELSE v
      BY MinOfTwo
    <3> QED
      BY <2>3, <3>1
  <2>5. Len(buffer) + r <= Vf!ToRead /\ at + r <= img.len
    BY <1>2, <1>3, <2>1, <2>2, <2>4
  <2> QED
    BY <2>3, <2>4, <2>5
<1>5. /\ ~short /\ bufferPos = 0 /\ at = Vf!DataOffset + totalOut + Len(buffer)
      /\ totalOut = chunkNo * Vf!BlockLen \/ (buffer = <<>> /\ NoMore)
      /\ todo = {} /\ \A j \in 1..Len(buffer) : buffer[j] = Vf!Cipher(totalOut + j - 1)
  BY <1>1 DEF Sound, Filling, BatchRead
<1>6. totalOut = chunkNo * Vf!BlockLen
  <2>1. ~NoMore
    BY <1>1, <1>2, <1>3 DEF NoMore
  <2> QED
    BY <1>5, <2>1
<1>7. /\ Vf!FileBytes(at, r) \in Seq(Cells) /\ Len(Vf!FileBytes(at, r)) = r
      /\ \A i \in 1..r : Vf!FileBytes(at, r)[i] = Vf!Cipher(at - Vf!DataOffset + i - 1)
  <2>1. at >= Vf!DataOffset
    BY <1>1 DEF Sound, Started
  <2> QED
    BY <1>2, <1>4, <2>1, FileBytesProperties
<1>8. /\ buffer' \in Seq(Cells) /\ Len(buffer') = Len(buffer) + r
      /\ \A i \in 1..Len(buffer) + r :
           buffer'[i] = IF i <= Len(buffer) THEN buffer[i] ELSE Vf!FileBytes(at, r)[i - Len(buffer)]
  <2>1. PICK more \in Seq(Cells) : more = Vf!FileBytes(at, r) /\ Len(more) = r
    BY <1>7
  <2>2. buffer' = buffer \o more /\ buffer \in Seq(Cells)
    BY <1>2, <1>4, <2>1
  <2>3. /\ buffer' \in Seq(Cells) /\ Len(buffer') = Len(buffer) + r
        /\ \A i \in 1..Len(buffer) + r :
             buffer'[i] = IF i <= Len(buffer) THEN buffer[i] ELSE more[i - Len(buffer)]
    <3>1. /\ buffer \o more \in Seq(Cells) /\ Len(buffer \o more) = Len(buffer) + Len(more)
          /\ \A i \in 1..Len(buffer) + Len(more) :
               (buffer \o more)[i] = IF i <= Len(buffer) THEN buffer[i] ELSE more[i - Len(buffer)]
      BY <2>2, ConcatProperties
    <3> QED
      BY <2>1, <2>2, <3>1
  <2> QED
    BY <2>1, <2>3
<1>9. Typed'
  <2>1. 0 \in 0..Len(buffer')
    BY <1>2, <1>8
  <2>2. phase' \in Vf!Phases /\ short' \in BOOLEAN /\ todo' \subseteq Nat
    BY <1>1 DEF Sound, Typed, Vf!Phases
  <2> QED
    BY <1>1, <1>2, <1>4, <1>5, <1>8, <2>1, <2>2 DEF Typed
<1>10. OutputGood'
  <2>1. GoodFrom(output, 0) /\ Within(Len(output))
    BY <1>1, <1>5, OutputWhenOpen
  <2> QED
    BY <1>1, <2>1, SameGood
<1>11. Started'
  <2>1. Vf!HdrVersion \in {1, 2} /\ at >= Vf!DataOffset /\ Len(output) = totalOut
    BY <1>1 DEF Sound, Started
  <2> QED
    BY <1>1, <1>2, <1>3, <1>4, <2>1, SameImage DEF Started
<1>12. Filling'
  <2>1. at' = Vf!DataOffset + totalOut + Len(buffer')
    BY <1>2, <1>3, <1>4, <1>5, <1>8
  <2>2. BatchRead'
    BY <1>1, <1>3, <1>4, <1>5, <1>6, <1>8, <2>1, SameImage DEF BatchRead
  <2>3. ASSUME NEW j \in 1..Len(buffer) + r PROVE buffer'[j] = Vf!Cipher(totalOut + j - 1)
    <3>1. CASE j <= Len(buffer)
      BY <1>2, <1>5, <1>8, <3>1
    <3>2. CASE ~(j <= Len(buffer))
      <4>1. PICK i \in 1..r : i = j - Len(buffer)
        BY <1>2, <3>2
      <4>2. at - Vf!DataOffset + i - 1 = totalOut + j - 1
        BY <1>2, <1>3, <1>5, <4>1
      <4> QED
        BY <1>7, <1>8, <3>2, <4>1, <4>2
    <3> QED
      BY <3>1, <3>2
  <2> QED
    BY <1>1, <1>5, <1>8, <2>2, <2>3 DEF Filling
<1>13. Fresh' /\ Decrypting' /\ Reading' /\ Complete'
  BY <1>1 DEF Fresh, Decrypting, Reading, Complete
<1> QED
  BY <1>9, <1>10, <1>11, <1>12, <1>13 DEF Sound

\* A place of a batch is in one of its chunks.
LEMMA ChunkOf ==
  ASSUME ImageTyped, img # <<>>, NEW n \in Nat, NEW j \in 1..n
  PROVE  (j - 1) \div Vf!BlockLen \in 0..Vf!NumChunks(n) - 1
<1> DEFINE B == Vf!BlockLen
           c == Vf!NumChunks(n)
           q == (j - 1) \div B
<1>1. B \in Nat \ {0} /\ c \in Nat /\ n <= c * B
  BY ImageFacts, ChunkCount
<1>2. q \in Nat /\ j - 1 >= B * q
  <2>1. PICK v \in Nat : v = j - 1
    OBVIOUS
  <2>2. v \in Int /\ v \in Nat /\ q = v \div B
    BY <2>1
  <2> HIDE DEF B, c, q
  <2>3. v \div B \in Nat /\ v % B \in 0..B - 1 /\ v = B * (v \div B) + (v % B)
    BY <1>1, <2>2, DivMod
  <2>4. B * q \in Nat
    BY <1>1, <2>2, <2>3
  <2> QED
    BY <2>1, <2>2, <2>3, <2>4
<1> HIDE DEF B, c, q
<1>3. B * q < B * c
  <2>1. B * q \in Nat /\ c * B \in Nat /\ c * B = B * c
    BY <1>1, <1>2
  <2> QED
    BY <1>1, <1>2, <2>1
<1>4. q < c
  BY <1>1, <1>2, <1>3
<1> QED
  BY <1>1, <1>2, <1>4 DEF B, c, q

\* A batch is filled, or there is no more to fill it with.
LEMMA FilledKeeps ==
  ASSUME ImageTyped, img # <<>>, Sound, Vf!Filled
  PROVE  Sound'
<1>1. /\ img' = img /\ phase = "filling" /\ (Len(buffer) = Vf!ToRead \/ at >= img.len)
      /\ IF buffer = <<>> THEN phase' = "done" /\ todo' = {}
         ELSE phase' = "decrypting" /\ todo' = 0..Vf!NumChunks(Len(buffer)) - 1
      /\ UNCHANGED <<at, chunkNo, totalOut, buffer, bufferPos, output, short>>
  BY DEF Vf!Filled
<1>2. /\ at \in Nat /\ chunkNo \in Nat /\ totalOut \in Nat /\ buffer \in Seq(Cells)
      /\ output \in Seq(Cells) /\ Len(buffer) \in Nat
  BY LenProperties DEF Sound, Typed
<1>3. BatchRead /\ \A j \in 1..Len(buffer) : buffer[j] = Vf!Cipher(totalOut + j - 1)
  BY <1>1 DEF Sound, Filling
<1>4. Len(output) = totalOut
  BY <1>1 DEF Sound, Started
<1>5. /\ img.len \in Nat /\ Vf!DataOffset \in Nat /\ Vf!DataSize \in Int
      /\ Vf!BatchSize \in Nat \ {0}
      /\ Vf!ToRead = Vf!BatchSize \/ totalOut + Vf!ToRead >= Vf!DataSize
  BY <1>2, ImageFacts, BatchFacts, ToReadFacts
<1>6. CASE buffer = <<>>
  <2>1. Len(buffer) = 0 /\ at = Vf!DataOffset + totalOut + Len(buffer)
    BY <1>3, <1>6 DEF BatchRead
  <2>2. Len(output) >= Vf!DataSize \/ Len(output) >= img.len - Vf!DataOffset
    BY <1>1, <1>2, <1>4, <1>5, <2>1
  <2>3. Complete'
    BY <1>1, <2>2, SameImage DEF Complete
  <2> QED
    BY <1>1, <1>6, <2>3, EndKeeps
<1>7. CASE buffer # <<>>
  <2>1. phase' = "decrypting" /\ todo' = 0..Vf!NumChunks(Len(buffer)) - 1
    BY <1>1, <1>7
  <2>2. Vf!NumChunks(Len(buffer)) \in Nat
    BY <1>2, ChunkCount
  <2>3. Typed'
    <3>1. todo' \subseteq Nat
      BY <2>1, <2>2
    <3> QED
      BY <1>1, <2>1, <3>1 DEF Sound, Typed, Vf!Phases
  <2>4. OutputGood'
    <3>1. GoodFrom(output, 0) /\ Within(Len(output))
      BY <1>1, <1>3, OutputWhenOpen DEF BatchRead
    <3> QED
      BY <1>1, <3>1, SameGood
  <2>5. Started'
    BY <1>1, SameImage DEF Sound, Started
  <2>6. Decrypting'
    <3>1. Vf!ToRead' = Vf!ToRead /\ Vf!NumChunks(Len(buffer))' = Vf!NumChunks(Len(buffer))
      BY <1>1, SameImage DEF Vf!ToRead, Vf!NumChunks
    <3>2. BatchRead'
      BY <1>1, <1>3, <3>1, SameImage DEF BatchRead, NoMore
    <3>3. \A j \in 1..Len(buffer) : (j - 1) \div Vf!BlockLen \in todo'
      BY <1>2, <2>1, ChunkOf
    <3>4. \A j \in 1..Len(buffer') : /\ (j - 1) \div Vf!BlockLen' \in todo'
                                     /\ buffer'[j] = Vf!Cipher(totalOut' + j - 1)
      BY <1>1, <1>3, <3>3, SameImage
    <3>5. todo' \subseteq 0..Vf!NumChunks(Len(buffer))' - 1
      BY <2>1, <3>1
    <3> QED
      BY <1>1, <1>7, <3>1, <3>2, <3>4, <3>5 DEF Decrypting
  <2>7. Fresh' /\ Filling' /\ Reading' /\ Complete'
    BY <2>1 DEF Fresh, Filling, Reading, Complete
  <2> QED
    BY <2>3, <2>4, <2>5, <2>6, <2>7 DEF Sound
<1> QED
  BY <1>6, <1>7

\* Where a place of a batch is not in the part a thread has, it is in another chunk.
LEMMA PlaceInChunk ==
  ASSUME NEW B \in Nat \ {0}, NEW i \in Nat, NEW n \in Nat, NEW j \in 1..n
  PROVE  (j - 1) \div B = i <=> i * B + 1 <= j /\ j <= (i + 1) * B
<1> DEFINE q == (j - 1) \div B
           r == (j - 1) % B
<1>1. q \in Nat /\ r \in 0..B - 1 /\ j - 1 = B * q + r
  <2>1. PICK v \in Nat : v = j - 1
    OBVIOUS
  <2>2. v \in Int /\ v \in Nat /\ q = v \div B /\ r = v % B
    BY <2>1
  <2> HIDE DEF q, r
  <2>3. v \div B \in Nat /\ v % B \in 0..B - 1 /\ v = B * (v \div B) + (v % B)
    BY <2>2, DivMod
  <2> QED
    BY <2>1, <2>2, <2>3
<1> HIDE DEF q, r
<1>2. B * q \in Nat /\ B * i \in Nat /\ i * B = B * i /\ (i + 1) * B = B * i + B
  BY <1>1
<1>3. ASSUME q = i PROVE i * B + 1 <= j /\ j <= (i + 1) * B
  BY <1>1, <1>2, <1>3
<1>4. ASSUME i * B + 1 <= j, j <= (i + 1) * B PROVE q = i
  <2>1. B * i < B * q + B /\ B * q < B * i + B
    BY <1>1, <1>2, <1>4
  <2>2. B * (q + 1) = B * q + B /\ B * (i + 1) = B * i + B
    BY <1>1
  <2>3. i < q + 1
    BY <1>1, <2>1, <2>2
  <2>4. q < i + 1
    BY <1>1, <2>1, <2>2
  <2> QED
    BY <1>1, <2>3, <2>4
<1> QED
  BY <1>3, <1>4 DEF q

\* The part of the batch that a thread has: where it ends, and its cells.
LastOf(i)     == Vf!Min({Len(buffer), (i + 1) * Vf!BlockLen})
ThreadPart(i) == SubSeq(buffer, i * Vf!BlockLen + 1, LastOf(i))

\* It is the next chunk of the data, or what there is of it, as it was read.
LEMMA WorkerPart ==
  ASSUME ImageTyped, img # <<>>, Sound, NEW i \in todo, Vf!Worker(i)
  PROVE  /\ i * Vf!BlockLen \in Nat /\ i * Vf!BlockLen < Len(buffer)
         /\ (i + 1) * Vf!BlockLen = i * Vf!BlockLen + Vf!BlockLen /\ chunkNo * Vf!BlockLen \in Nat
         /\ (chunkNo + i) * Vf!BlockLen = totalOut + i * Vf!BlockLen
         /\ LastOf(i) = IF Len(buffer) <= i * Vf!BlockLen + Vf!BlockLen
                        THEN Len(buffer) ELSE i * Vf!BlockLen + Vf!BlockLen
         /\ \E len \in Nat :
              /\ LastOf(i) = i * Vf!BlockLen + len
              /\ len >= 1 /\ len <= Vf!BlockLen /\ LastOf(i) <= Len(buffer)
              /\ ThreadPart(i) \in Seq(Cells) /\ Len(ThreadPart(i)) = len
              /\ \A j \in 1..len :
                   ThreadPart(i)[j] = Vf!Cipher((chunkNo + i) * Vf!BlockLen + j - 1)
<1> DEFINE B == Vf!BlockLen
           n == Len(buffer)
           first == i * B + 1
           last == LastOf(i)
           data == ThreadPart(i)
<1>1. phase = "decrypting"
  BY DEF Vf!Worker
<1>2. /\ at \in Nat /\ chunkNo \in Nat /\ totalOut \in Nat /\ buffer \in Seq(Cells)
      /\ n \in Nat /\ i \in Nat
  BY LenProperties DEF Sound, Typed
<1>3. /\ BatchRead /\ buffer # <<>> /\ todo \subseteq 0..Vf!NumChunks(n) - 1
      /\ \A j \in 1..n :
           IF (j - 1) \div B \in todo THEN buffer[j] = Vf!Cipher(totalOut + j - 1)
           ELSE Good(buffer[j], totalOut + j - 1)
  BY <1>1 DEF Sound, Decrypting
<1>4. totalOut = chunkNo * B
  BY <1>3 DEF BatchRead
<1>5. B \in Nat \ {0}
  BY ImageFacts
<1>8. /\ Vf!NumChunks(n) \in Nat /\ Vf!NumChunks(n) * B < n + B
      /\ i \in 0..Vf!NumChunks(n) - 1
  BY <1>2, <1>3, ChunkCount
<1>9. \A j \in 1..n : (j - 1) \div B = i <=> first <= j /\ j <= (i + 1) * B
  BY <1>2, <1>5, PlaceInChunk
<1>17. last = Vf!Min({n, (i + 1) * B}) /\ data = SubSeq(buffer, i * B + 1, last)
  BY DEF LastOf, ThreadPart
<1> HIDE DEF B, n, last, data
<1>10. i * B \in Nat /\ i * B < n /\ (i + 1) * B = i * B + B /\ chunkNo * B \in Nat
       /\ (chunkNo + i) * B = totalOut + i * B
  <2> DEFINE c == Vf!NumChunks(n)
  <2>1. c \in Nat /\ c * B < n + B /\ i + 1 <= c
    BY <1>2, <1>8
  <2> HIDE DEF c
  <2>2. (i + 1) * B = i * B + B /\ i * B \in Nat /\ c * B \in Nat
    BY <1>2, <1>5, <2>1
  <2>3. i * B < n
    <3>1. (i + 1) * B <= c * B
      BY <1>2, <1>5, <2>1
    <3> QED
      BY <1>2, <1>5, <2>1, <2>2, <3>1
  <2>4. (chunkNo + i) * B = chunkNo * B + i * B
    BY <1>2, <1>5
  <2> QED
    BY <1>2, <1>4, <1>5, <2>2, <2>3, <2>4
<1>11. last = IF n <= i * B + B THEN n ELSE i * B + B
  <2>1. PICK v \in Int : v = (i + 1) * B
    BY <1>2, <1>5
  <2>2. n \in Int /\ Vf!Min({n, v}) = IF n <= v THEN n ELSE v
    BY <1>2, MinOfTwo
  <2> QED
    BY <1>10, <1>17, <2>1, <2>2
<1>12. PICK len \in Nat : last = i * B + len /\ len >= 1 /\ len <= B /\ last <= n
  <2>1. PICK k \in Nat : k = i * B
    BY <1>10
  <2>2. last - k \in Nat /\ last = k + (last - k) /\ last - k >= 1 /\ last - k <= B /\ last <= n
    BY <1>2, <1>5, <1>10, <1>11, <2>1
  <2> QED
    BY <2>1, <2>2
<1>13. /\ data \in Seq(Cells) /\ Len(data) = len
       /\ \A j \in 1..len : data[j] = buffer[i * B + j]
  <2>1. PICK from \in Nat : from = i * B
    BY <1>10
  <2>2. from + len <= Len(buffer)
    BY <1>12, <2>1 DEF n
  <2>3. LET part == SubSeq(buffer, from + 1, from + len)
        IN part \in Seq(Cells) /\ Len(part) = len /\ \A j \in 1..len : part[j] = buffer[from + j]
    BY <1>2, <2>2, PartOf
  <2> QED
    BY <1>12, <1>17, <2>1, <2>3
<1> HIDE DEF first
<1>19. first = i * B + 1
  BY DEF first
<1>14. \A j \in 1..len : data[j] = Vf!Cipher((chunkNo + i) * B + j - 1)
  <2> TAKE j \in 1..len
  <2>1. PICK k \in 1..n : k = i * B + j
    BY <1>2, <1>10, <1>12
  <2>2. (k - 1) \div B = i
    BY <1>2, <1>5, <1>9, <1>10, <1>12, <1>19, <2>1
  <2>3. buffer[k] = Vf!Cipher(totalOut + k - 1)
    BY <1>3, <2>2
  <2>4. totalOut + k - 1 = (chunkNo + i) * B + j - 1
    <3>1. PICK a \in Nat : a = i * B
      BY <1>10
    <3>2. (chunkNo + i) * B = totalOut + a /\ k = a + j
      BY <1>10, <2>1, <3>1
    <3> QED
      BY <1>2, <1>12, <3>2
  <2> QED
    BY <1>13, <2>1, <2>3, <2>4
<1> QED
  BY <1>10, <1>11, <1>12, <1>13, <1>14 DEF B, n, last, data

\* A thread decrypts a chunk of the batch.
LEMMA WorkerKeeps ==
  ASSUME ImageTyped, img # <<>>, Sound, NEW i \in todo, Vf!Worker(i)
  PROVE  Sound'
<1> DEFINE B == Vf!BlockLen
           n == Len(buffer)
           first == i * B + 1
           last == Vf!Min({n, (i + 1) * B})
           data == SubSeq(buffer, first, last)
           plain == Vf!DecryptChunk(chunkNo + i, data)
<1>1. /\ img' = img /\ phase = "decrypting" /\ phase' = "decrypting" /\ todo' = todo \ {i}
      /\ buffer' = [j \in DOMAIN buffer |->
                      IF j \in first..last THEN plain[j - first + 1] ELSE buffer[j]]
      /\ UNCHANGED <<at, chunkNo, totalOut, bufferPos, output, short>>
  BY DEF Vf!Worker
<1>2. /\ at \in Nat /\ chunkNo \in Nat /\ totalOut \in Nat /\ buffer \in Seq(Cells)
      /\ output \in Seq(Cells) /\ n \in Nat /\ DOMAIN buffer = 1..n /\ i \in Nat
  BY LenProperties DEF Sound, Typed
<1>3. /\ BatchRead /\ buffer # <<>> /\ (n = Vf!ToRead \/ at >= img.len)
      /\ todo \subseteq 0..Vf!NumChunks(n) - 1
      /\ \A j \in 1..n :
           IF (j - 1) \div B \in todo THEN buffer[j] = Vf!Cipher(totalOut + j - 1)
           ELSE Good(buffer[j], totalOut + j - 1)
  BY <1>1 DEF Sound, Decrypting
<1>4. totalOut = chunkNo * B /\ at = Vf!DataOffset + totalOut + n /\ ~short /\ n <= Vf!ToRead
  BY <1>3 DEF BatchRead
<1>5. /\ Vf!HdrVersion \in {1, 2} /\ B \in Nat \ {0} /\ img.len \in Nat
      /\ Vf!DataOffset \in Nat /\ Vf!DataSize \in Int /\ Vf!DataSize <= img.len - Vf!DataOffset
  <2>1. Vf!HdrVersion \in {1, 2}
    BY <1>1 DEF Sound, Started
  <2> QED
    BY <2>1, ImageFacts
<1>6. PICK m \in Nat \ {0} : Vf!BatchSize = B * m
  BY BatchFacts
<1>7. Vf!ToRead = Vf!BatchSize \/ totalOut + Vf!ToRead >= Vf!DataSize
  BY <1>2, ToReadFacts
<1>8. /\ Vf!NumChunks(n) \in Nat /\ Vf!NumChunks(n) * B < n + B
      /\ i \in 0..Vf!NumChunks(n) - 1
  BY <1>2, <1>3, ChunkCount
<1>9. \A j \in 1..n : (j - 1) \div B = i <=> first <= j /\ j <= (i + 1) * B
  BY <1>2, <1>5, PlaceInChunk
<1>17. DOMAIN buffer' = 1..n /\ buffer' = [j \in 1..n |->
                      IF j \in first..last THEN plain[j - first + 1] ELSE buffer[j]]
  BY <1>1, <1>2
<1>18. Vf!ToRead' = Vf!ToRead
  BY <1>1, SameImage DEF Vf!ToRead
<1> HIDE DEF B, n
<1>28. /\ i * B \in Nat /\ i * B < n /\ (i + 1) * B = i * B + B /\ chunkNo * B \in Nat
       /\ (chunkNo + i) * B = totalOut + i * B
       /\ last = IF n <= i * B + B THEN n ELSE i * B + B
       /\ \E len \in Nat : /\ last = i * B + len /\ len >= 1 /\ len <= B /\ last <= n
                           /\ data \in Seq(Cells) /\ Len(data) = len
                           /\ \A j \in 1..len : data[j] = Vf!Cipher((chunkNo + i) * B + j - 1)
  BY WorkerPart DEF LastOf, ThreadPart, B, n
<1> HIDE DEF last, data, first, plain
<1>10. /\ i * B \in Nat /\ i * B < n /\ (i + 1) * B = i * B + B /\ chunkNo * B \in Nat
       /\ (chunkNo + i) * B = totalOut + i * B
  BY <1>28
<1>11. last = IF n <= i * B + B THEN n ELSE i * B + B
  BY <1>28
<1>29. PICK len \in Nat :
         /\ last = i * B + len /\ len >= 1 /\ len <= B /\ last <= n
         /\ data \in Seq(Cells) /\ Len(data) = len
         /\ \A j \in 1..len : data[j] = Vf!Cipher((chunkNo + i) * B + j - 1)
  BY <1>28
<1>12. last = i * B + len /\ len >= 1 /\ len <= B /\ last <= n
  BY <1>29
<1>13. data \in Seq(Cells) /\ Len(data) = len
  BY <1>29
<1>14. \A j \in 1..len : data[j] = Vf!Cipher((chunkNo + i) * B + j - 1)
  BY <1>29
<1>19. first = i * B + 1
  BY DEF first
<1>15. len = B \/ (chunkNo + i) * B + len >= Vf!DataSize
  <2> SUFFICES ASSUME len # B PROVE totalOut + i * B + len >= Vf!DataSize
    BY <1>10
  <2>1. last = n /\ n < i * B + B
    BY <1>2, <1>5, <1>10, <1>11, <1>12
  <2>2. CASE at >= img.len
    BY <1>2, <1>4, <1>5, <1>10, <1>12, <2>1, <2>2
  <2>3. CASE n = Vf!ToRead /\ Vf!ToRead # Vf!BatchSize
    BY <1>2, <1>4, <1>5, <1>7, <1>10, <1>12, <2>1, <2>3
  <2>4. CASE n = Vf!BatchSize
    <3>1. B * i < B * m /\ B * m < B * (i + 1)
      BY <1>2, <1>5, <1>6, <1>10, <2>1, <2>4
    <3>2. i < m /\ m < i + 1
      BY <1>2, <1>5, <1>6, <3>1
    <3> QED
      BY <1>2, <1>6, <3>2
  <2> QED
    BY <1>3, <2>2, <2>3, <2>4
<1>16. /\ plain \in Seq(Cells) /\ Len(plain) = len /\ GoodFrom(plain, (chunkNo + i) * B)
  <2>1. PICK k \in Nat : k = chunkNo + i
    BY <1>2
  <2>2. /\ Len(data) <= Vf!BlockLen
        /\ \A j \in 1..Len(data) : data[j] = Vf!Cipher(k * Vf!BlockLen + j - 1)
        /\ Len(data) = Vf!BlockLen \/ k * Vf!BlockLen + Len(data) >= Vf!DataSize
    BY <1>12, <1>13, <1>14, <1>15, <2>1 DEF B
  <2>3. LET p == Vf!DecryptChunk(k, data)
        IN p \in Seq(Cells) /\ Len(p) = Len(data) /\ GoodFrom(p, k * Vf!BlockLen)
    BY <1>5, <1>13, <2>2, DecryptChunkProperties
  <2> QED
    BY <1>13, <2>1, <2>3 DEF plain, B
<1>20. ASSUME NEW j \in 1..n, j \in first..last
       PROVE  buffer'[j] \in Cells /\ Good(buffer'[j], totalOut + j - 1)
  <2>6. PICK a \in Nat : a = i * B
    BY <1>10
  <2>1. PICK k \in 1..len : k = j - first + 1
    <3>1. first = a + 1 /\ last = a + len /\ len \in Nat
      BY <1>12, <1>19, <2>6
    <3> QED
      BY <1>2, <1>20, <3>1
  <2>2. buffer'[j] = plain[k]
    BY <1>17, <1>20, <2>1
  <2>3. plain[k] \in Cells
    BY <1>16, ElementOfSeq
  <2>4. Good(plain[k], (chunkNo + i) * B + k - 1)
    BY <1>16 DEF GoodFrom
  <2>5. (chunkNo + i) * B + k - 1 = totalOut + j - 1
    <3>1. PICK c \in Nat : c = (chunkNo + i) * B
      BY <1>2, <1>10
    <3>2. c = totalOut + a /\ k = j - (a + 1) + 1
      BY <1>10, <1>19, <2>1, <2>6, <3>1
    <3>3. c + k - 1 = totalOut + j - 1
      <4>1. j \in Int /\ totalOut \in Int
        BY <1>2
      <4> QED
        BY <3>2, <4>1
    <3> QED
      BY <3>1, <3>3
  <2> QED
    BY <2>2, <2>3, <2>4, <2>5
<1>21. ASSUME NEW j \in 1..n, j \notin first..last
       PROVE  /\ buffer'[j] = buffer[j] /\ buffer[j] \in Cells
              /\ (j - 1) \div B # i
  <2>1. ~(first <= j /\ j <= last)
    BY <1>2, <1>10, <1>12, <1>19, <1>21
  <2>2. ~(first <= j /\ j <= (i + 1) * B)
    BY <1>2, <1>5, <1>10, <1>11, <1>12, <1>19, <2>1
  <2>3. buffer[j] \in Cells
    BY <1>2, ElementOfSeq DEF n
  <2> QED
    BY <1>9, <1>17, <1>21, <2>2, <2>3
<1>22. buffer' \in Seq(Cells) /\ Len(buffer') = n
  <2>1. \A j \in 1..n : buffer'[j] \in Cells
    BY <1>20, <1>21
  <2>2. buffer' = [j \in 1..n |-> buffer'[j]]
    BY <1>17
  <2>3. [j \in 1..n |-> buffer'[j]] \in Seq(Cells)
    BY <1>2, <2>1, IsASeq
  <2>4. Len([j \in 1..n |-> buffer'[j]]) = n
    BY <1>2, <2>1, IsASeq
  <2> QED
    BY <2>2, <2>3, <2>4
<1>23. Typed'
  <2>1. bufferPos' \in 0..Len(buffer')
    BY <1>1, <1>3, <1>22, <1>2 DEF BatchRead
  <2> QED
    BY <1>1, <1>22, <2>1 DEF Sound, Typed
<1>24. OutputGood'
  <2>1. GoodFrom(output, 0) /\ Within(Len(output))
    BY <1>1, <1>4, OutputWhenOpen
  <2> QED
    BY <1>1, <2>1, SameGood
<1>25. Started'
  BY <1>1, SameImage DEF Sound, Started
<1>26. Decrypting'
  <2>1. n >= 1
    BY <1>2, <1>10
  <2>2. buffer' # <<>>
    BY <1>22, <2>1
  <2>3. Vf!NumChunks(Len(buffer))' = Vf!NumChunks(n)
    BY <1>1, <1>22, SameImage DEF Vf!NumChunks
  <2>4. BatchRead'
    BY <1>1, <1>3, <1>4, <1>18, <1>22, SameImage DEF BatchRead, B
  <2>5. ASSUME NEW j \in 1..n
        PROVE  IF (j - 1) \div B \in todo' THEN buffer'[j] = Vf!Cipher(totalOut + j - 1)
               ELSE Good(buffer'[j], totalOut + j - 1)
    <3>1. CASE j \in first..last
      <4>1. (j - 1) \div B = i
        BY <1>2, <1>5, <1>9, <1>10, <1>11, <1>12, <1>19, <3>1
      <4> QED
        BY <1>1, <1>20, <3>1, <4>1
    <3>2. CASE j \notin first..last
      <4>1. (j - 1) \div B \in todo' <=> (j - 1) \div B \in todo
        BY <1>1, <1>21, <3>2
      <4> QED
        BY <1>3, <1>21, <3>2, <4>1
    <3> QED
      BY <3>1, <3>2
  <2>6. \A j \in 1..Len(buffer') :
           IF (j - 1) \div Vf!BlockLen' \in todo' THEN buffer'[j] = Vf!Cipher(totalOut' + j - 1)
           ELSE Good(buffer[j], totalOut + j - 1)'
    BY <1>1, <1>22, <2>5, SameImage DEF B, Good
  <2>7. Len(buffer') = Vf!ToRead' \/ at' >= img'.len
    BY <1>1, <1>3, <1>18, <1>22
  <2>8. todo' \subseteq 0..Vf!NumChunks(Len(buffer))' - 1
    BY <1>1, <1>3, <2>3
  <2> QED
    BY <2>2, <2>4, <2>6, <2>7, <2>8 DEF Decrypting
<1>27. Fresh' /\ Filling' /\ Reading' /\ Complete'
  BY <1>1 DEF Fresh, Filling, Reading, Complete
<1> QED
  BY <1>23, <1>24, <1>25, <1>26, <1>27 DEF Sound

\* The batch is written, or a part of it before an error.
LEMMA WriteBatchKeeps ==
  ASSUME ImageTyped, img # <<>>, Sound, Vf!WriteBatch
  PROVE  Sound'
<1> DEFINE B == Vf!BlockLen
           n == Len(buffer)
<1>1. /\ img' = img /\ phase = "decrypting" /\ todo = {}
      /\ \/ /\ output' = output \o buffer /\ buffer' = <<>> /\ phase' = "filling"
            /\ chunkNo' = chunkNo + Vf!NumChunks(n) /\ totalOut' = totalOut + n
         \/ /\ \E k \in {0, n - 1} : output' = output \o SubSeq(buffer, 1, k)
            /\ phase' = "failed" /\ UNCHANGED <<chunkNo, totalOut, buffer>>
      /\ UNCHANGED <<at, bufferPos, todo, short>>
  BY DEF Vf!WriteBatch
<1>2. /\ at \in Nat /\ chunkNo \in Nat /\ totalOut \in Nat /\ buffer \in Seq(Cells)
      /\ output \in Seq(Cells) /\ n \in Nat /\ Len(output) \in Nat
  BY LenProperties DEF Sound, Typed
<1>3. /\ BatchRead /\ buffer # <<>> /\ (n = Vf!ToRead \/ at >= img.len)
      /\ \A j \in 1..n :
           IF (j - 1) \div B \in todo THEN buffer[j] = Vf!Cipher(totalOut + j - 1)
           ELSE Good(buffer[j], totalOut + j - 1)
  BY <1>1 DEF Sound, Decrypting
<1>4. /\ totalOut = chunkNo * B /\ at = Vf!DataOffset + totalOut + n /\ ~short /\ n <= Vf!ToRead
      /\ bufferPos = 0
  BY <1>3 DEF BatchRead
<1>5. /\ Vf!HdrVersion \in {1, 2} /\ at >= Vf!DataOffset /\ at <= img.len /\ Len(output) = totalOut
  BY <1>1 DEF Sound, Started
<1>6. /\ B \in Nat \ {0} /\ img.len \in Nat /\ Vf!DataOffset \in Nat /\ Vf!DataSize \in Int
  BY ImageFacts
<1>7. PICK m \in Nat \ {0} : Vf!BatchSize = B * m
  BY BatchFacts
<1>8. /\ Vf!ToRead \in Nat
      /\ Vf!ToRead = Vf!BatchSize \/ (Vf!HdrVersion = 2 /\ totalOut + Vf!ToRead >= Vf!DataSize)
      /\ Vf!HdrVersion = 2 /\ totalOut <= Vf!DataSize => totalOut + Vf!ToRead <= Vf!DataSize
  BY <1>2, ToReadFacts
<1>9. GoodFrom(buffer, totalOut)
  BY <1>1, <1>3 DEF GoodFrom
<1>10. GoodFrom(output, 0) /\ Within(Len(output))
  BY <1>1, <1>4, OutputWhenOpen
<1>11. ASSUME NEW k \in 0..n PROVE Within(totalOut + k)
  BY <1>2, <1>4, <1>5, <1>6, <1>8, <1>10 DEF Within
<1>12. ASSUME NEW part \in Seq(Cells), NEW k \in 0..n, Len(part) = k, GoodFrom(part, totalOut)
       PROVE  /\ output \o part \in Seq(Cells) /\ Len(output \o part) = totalOut + k
              /\ GoodFrom(output \o part, 0) /\ Within(totalOut + k)
  <2>1. PICK zero \in Nat : zero = 0
    OBVIOUS
  <2>2. GoodFrom(output, zero) /\ totalOut = zero + Len(output)
    BY <1>2, <1>5, <1>10, <2>1
  <2>3. /\ output \o part \in Seq(Cells) /\ Len(output \o part) = Len(output) + Len(part)
        /\ GoodFrom(output \o part, zero)
    BY <1>2, <1>12, <2>2, GoodConcat
  <2> QED
    BY <1>5, <1>11, <1>12, <2>1, <2>3
<1>13. CASE phase' = "filling"
  <2>1. /\ output' = output \o buffer /\ buffer' = <<>>
        /\ chunkNo' = chunkNo + Vf!NumChunks(n) /\ totalOut' = totalOut + n
    BY <1>1, <1>13
  <2>2. /\ output' \in Seq(Cells) /\ Len(output') = totalOut + n
        /\ GoodFrom(output', 0) /\ Within(totalOut + n)
    BY <1>2, <1>9, <1>12, <2>1
  <2>3. Vf!NumChunks(n) \in Nat /\ (\A k \in Nat : n = B * k => Vf!NumChunks(n) * B = n)
    BY <1>2, ChunkCount
  <2>4. Typed'
    <3>1. bufferPos' \in 0..Len(buffer') /\ buffer' \in Seq(Cells)
      BY <1>1, <1>4, <2>1, EmptyGood
    <3>2. chunkNo' \in Nat /\ totalOut' \in Nat
      BY <1>2, <2>1, <2>3
    <3> QED
      BY <1>1, <1>13, <2>2, <3>1, <3>2 DEF Sound, Typed, Vf!Phases
  <2>5. OutputGood'
    BY <1>1, <2>2, SameGood
  <2>6. Started'
    BY <1>1, <1>5, <2>1, <2>2, SameImage DEF Started
  <2>7. Filling'
    <3>1. totalOut' = chunkNo' * B \/ NoMore'
      <4>1. CASE n = Vf!BatchSize
        <5>1. Vf!NumChunks(n) * B = n
          BY <1>7, <2>3, <4>1
        <5> DEFINE c == Vf!NumChunks(n)
        <5>2. c \in Nat /\ c * B = n /\ chunkNo' = chunkNo + c
          BY <2>1, <2>3, <5>1
        <5> HIDE DEF c, B, n
        <5>3. (chunkNo + c) * B = chunkNo * B + c * B
          BY <1>2, <1>6, <5>2
        <5> QED
          BY <1>4, <2>1, <5>2, <5>3
      <4>2. CASE at >= img.len
        BY <1>1, <4>2 DEF NoMore
      <4>3. CASE n = Vf!ToRead /\ Vf!ToRead # Vf!BatchSize
        <5>1. Vf!HdrVersion = 2 /\ totalOut' >= Vf!DataSize
          BY <1>8, <2>1, <4>3
        <5> QED
          BY <1>1, <5>1, SameImage DEF NoMore
      <4> QED
        BY <1>3, <4>1, <4>2, <4>3
    <3>2. Vf!ToRead' \in Nat
      <4>1. ImageTyped' /\ img' # <<>> /\ totalOut' \in Nat
        BY <1>1, <1>2, <2>1 DEF ImageTyped
      <4>2. (/\ ImageTyped /\ img # <<>> /\ totalOut \in Nat => Vf!ToRead \in Nat)'
        BY ToReadFacts, PTL
      <4> QED
        BY <4>1, <4>2
    <3>3. BatchRead'
      <4>1. Len(buffer') = 0 /\ at' = Vf!DataOffset + totalOut' + Len(buffer')
        BY <1>1, <1>2, <1>4, <1>6, <2>1
      <4> QED
        BY <1>1, <1>4, <2>1, <3>1, <3>2, <4>1, SameImage DEF BatchRead
    <3>4. 1..Len(buffer') = {}
      BY <2>1
    <3> QED
      BY <1>1, <3>3, <3>4 DEF Filling
  <2>8. Fresh' /\ Decrypting' /\ Reading' /\ Complete'
    BY <1>13 DEF Fresh, Decrypting, Reading, Complete
  <2> QED
    BY <2>4, <2>5, <2>6, <2>7, <2>8 DEF Sound
<1>14. CASE phase' = "failed"
  <2>1. UNCHANGED <<chunkNo, totalOut, buffer>>
    BY <1>1, <1>14
  <2>2. PICK k \in 0..n : output' = output \o SubSeq(buffer, 1, k)
    <3>1. PICK k \in {0, n - 1} : output' = output \o SubSeq(buffer, 1, k)
      BY <1>1, <1>14
    <3>2. n # 0
      BY <1>2, <1>3, EmptySeq
    <3> HIDE DEF n
    <3>3. k \in 0..n
      BY <1>2, <3>1, <3>2
    <3> QED
      BY <3>1, <3>3
  <2>3. /\ SubSeq(buffer, 1, k) \in Seq(Cells) /\ Len(SubSeq(buffer, 1, k)) = k
        /\ GoodFrom(SubSeq(buffer, 1, k), totalOut)
    <3>1. PICK from \in Nat : from = 0
      OBVIOUS
    <3>2. buffer \in Seq(Cells) /\ k \in Nat /\ from + k <= Len(buffer)
      BY <1>2, <3>1
    <3>3. LET part == SubSeq(buffer, from + 1, from + k)
          IN  /\ part \in Seq(Cells) /\ Len(part) = k
              /\ \A x \in Nat : GoodFrom(buffer, x) => GoodFrom(part, x + from)
      BY <3>2, PartOf
    <3>4. from + 1 = 1 /\ from + k = k /\ totalOut + from = totalOut
      BY <1>2, <3>1, <3>2
    <3> QED
      BY <1>2, <1>9, <3>3, <3>4
  <2>4. /\ output' \in Seq(Cells) /\ Len(output') = totalOut + k
        /\ GoodFrom(output', 0) /\ Within(totalOut + k)
    BY <1>12, <2>2, <2>3
  <2>5. Typed'
    BY <1>1, <1>14, <2>1, <2>4 DEF Sound, Typed, Vf!Phases
  <2>6. OutputGood'
    BY <1>1, <2>4, SameGood
  <2>7. Fresh' /\ Started' /\ Filling' /\ Decrypting' /\ Reading' /\ Complete'
    BY <1>14 DEF Fresh, Started, Filling, Decrypting, Reading, Complete
  <2> QED
    BY <2>5, <2>6, <2>7 DEF Sound
<1> QED
  BY <1>1, <1>13, <1>14

\* What Read hands over follows what came out, and no more than it has.
LEMMA HandOverAppends ==
  ASSUME ImageTyped, img # <<>>, Sound, NEW data \in Seq(Cells), NEW from \in 0..Len(data),
         NEW asked \in Nat, Len(output) = totalOut, Vf!HandOver(data, from, asked)
  PROVE  \E n \in Nat :
           /\ from + n <= Len(data) /\ bufferPos' = from + n /\ totalOut' = totalOut + n
           /\ output' \in Seq(Cells) /\ Len(output') = totalOut'
           /\ \A x \in Nat : /\ x + from = totalOut /\ GoodFrom(data, x) /\ GoodFrom(output, 0)
                             => GoodFrom(output', 0)
<1> DEFINE n == Vf!Min({asked, Len(data) - from})
           part == SubSeq(data, from + 1, from + n)
<1>1. Len(data) \in Nat /\ from \in Nat /\ output \in Seq(Cells) /\ totalOut \in Nat
  BY LenProperties DEF Sound, Typed
<1>2. n \in Nat /\ from + n <= Len(data)
  <2>1. PICK v \in Int : v = Len(data) - from
    <3>1. Len(data) \in Int /\ from \in Int
      BY <1>1
    <3> QED
      BY <3>1
  <2>2. asked \in Int /\ Vf!Min({asked, v}) = IF asked <= v THEN asked ELSE v
    BY MinOfTwo
  <2> QED
    BY <1>1, <2>1, <2>2
<1>3. output' = output \o part /\ bufferPos' = from + n /\ totalOut' = totalOut + n
  BY DEF Vf!HandOver
<1> HIDE DEF n
<1>4. /\ part \in Seq(Cells) /\ Len(part) = n
      /\ \A x \in Nat : GoodFrom(data, x) => GoodFrom(part, x + from)
  <2>1. from \in Nat
    BY <1>1
  <2>2. LET p == SubSeq(data, from + 1, from + n)
        IN  /\ p \in Seq(Cells) /\ Len(p) = n
            /\ \A x \in Nat : GoodFrom(data, x) => GoodFrom(p, x + from)
    BY <1>2, <2>1, PartOf
  <2> QED
    BY <2>2
<1> HIDE DEF part
<1>5. output' \in Seq(Cells) /\ Len(output') = totalOut'
  BY <1>1, <1>2, <1>3, <1>4, ConcatProperties
<1>6. ASSUME NEW x \in Nat, x + from = totalOut, GoodFrom(data, x), GoodFrom(output, 0)
      PROVE  GoodFrom(output', 0)
  <2>1. PICK zero \in Nat : zero = 0
    OBVIOUS
  <2>2. GoodFrom(output, zero) /\ totalOut = zero + Len(output) /\ GoodFrom(part, totalOut)
    <3>1. GoodFrom(part, x + from)
      BY <1>4, <1>6
    <3>2. GoodFrom(part, totalOut)
      BY <1>6, <3>1
    <3> QED
      BY <1>1, <1>6, <2>1, <3>2
  <2>3. GoodFrom(output \o part, zero)
    BY <1>1, <1>4, <2>2, GoodConcat
  <2> QED
    BY <1>3, <2>1, <2>3
<1> QED
  BY <1>2, <1>3, <1>5, <1>6

\* Read gives of what it has in hand.
LEMMA ReadBufferedKeeps ==
  ASSUME ImageTyped, img # <<>>, Sound, NEW asked \in Wants, phase \in {"open", "reading"},
         phase' = "reading", Vf!ReadBuffered(asked)
  PROVE  Sound'
<1>1. /\ img' = img /\ Vf!HandOver(buffer, bufferPos, asked)
      /\ UNCHANGED <<at, chunkNo, buffer, todo, short>>
  BY DEF Vf!ReadBuffered
<1>2. /\ at \in Nat /\ chunkNo \in Nat /\ totalOut \in Nat /\ buffer \in Seq(Cells)
      /\ bufferPos \in 0..Len(buffer) /\ Len(buffer) \in Nat /\ asked \in Nat
  BY LenProperties, Constants DEF Sound, Typed
<1>3. /\ Vf!HdrVersion \in {1, 2} /\ at >= Vf!DataOffset /\ at <= img.len /\ Len(output) = totalOut
  BY DEF Sound, Started
<1>4. PICK n \in Nat :
        /\ bufferPos + n <= Len(buffer) /\ bufferPos' = bufferPos + n /\ totalOut' = totalOut + n
        /\ output' \in Seq(Cells) /\ Len(output') = totalOut'
        /\ \A x \in Nat : /\ x + bufferPos = totalOut /\ GoodFrom(buffer, x) /\ GoodFrom(output, 0)
                          => GoodFrom(output', 0)
  BY <1>1, <1>2, <1>3, HandOverAppends
<1>5. Typed'
  <2>1. totalOut' \in Nat /\ bufferPos' \in 0..Len(buffer')
    BY <1>1, <1>2, <1>4
  <2> QED
    BY <1>1, <1>4, <2>1 DEF Sound, Typed, Vf!Phases
<1>6. Started'
  BY <1>1, <1>3, <1>4, SameImage DEF Started
<1>7. ASSUME ~short PROVE OutputGood' /\ Reading'
  <2>1. /\ totalOut >= bufferPos
        /\ GoodFrom(buffer, totalOut - bufferPos)
        /\ Within(totalOut - bufferPos + Len(buffer))
        /\ \/ Vf!DataOffset + totalOut - bufferPos + Len(buffer) = at
           \/ Vf!HdrVersion = 2 /\ totalOut - bufferPos + Len(buffer) = Vf!DataSize
        /\ at = Vf!DataOffset + chunkNo * Vf!BlockLen \/ at >= img.len
    BY <1>7 DEF Sound, Reading
  <2>2. totalOut' >= bufferPos' /\ totalOut' - bufferPos' = totalOut - bufferPos
    BY <1>2, <1>4, <2>1
  <2>3. OutputGood'
    <3>1. GoodFrom(output, 0)
      BY <1>7, OutputWhenOpen
    <3>2. PICK x \in Nat : x = totalOut - bufferPos
      BY <1>2, <2>1
    <3>3. GoodFrom(output', 0)
      <4>1. x + bufferPos = totalOut
        BY <1>2, <3>2
      <4> QED
        BY <1>4, <2>1, <3>1, <3>2, <4>1
    <3>4. Within(Len(output'))
      <4>1. Vf!HdrVersion = 2 => totalOut - bufferPos + Len(buffer) <= Vf!DataSize /\ Vf!DataSize \in Nat
        BY <2>1, ImageFacts DEF Within
      <4> QED
        BY <1>2, <1>4, <4>1 DEF Within
    <3> QED
      BY <1>1, <3>3, <3>4, SameGood
  <2>4. GoodFrom(buffer, totalOut - bufferPos)'
    BY <1>1, <2>1, <2>2, SameImage DEF GoodFrom, Good
  <2>5. Within(totalOut - bufferPos + Len(buffer))'
    BY <1>1, <2>1, <2>2, SameImage DEF Within
  <2>6. \/ Vf!DataOffset' + totalOut' - bufferPos' + Len(buffer') = at'
        \/ Vf!HdrVersion' = 2 /\ totalOut' - bufferPos' + Len(buffer') = Vf!DataSize'
    <3>1. Vf!DataOffset + totalOut' - bufferPos' + Len(buffer)
            = Vf!DataOffset + totalOut - bufferPos + Len(buffer)
      BY <1>2, <1>4, ImageFacts
    <3> QED
      BY <1>1, <2>1, <2>2, <3>1, SameImage
  <2>7. Reading'
    BY <1>1, <2>1, <2>2, <2>4, <2>5, <2>6, SameImage DEF Reading
  <2> QED
    BY <2>3, <2>7
<1>8. Reading'
  BY <1>1, <1>7 DEF Reading
<1>9. Fresh' /\ Filling' /\ Decrypting' /\ Complete'
  BY DEF Fresh, Filling, Decrypting, Complete
<1> QED
  BY <1>1, <1>5, <1>6, <1>7, <1>8, <1>9 DEF Sound

\* Of a decrypted chunk Read keeps what is data.
LEMMA KeptOf ==
  ASSUME ImageTyped, img # <<>>, totalOut \in Nat, ~Vf!AtEnd, NEW data \in Seq(Cells)
  PROVE  LET kept == Vf!Kept(data)
         IN  /\ kept \in Seq(Cells) /\ Len(kept) \in 0..Len(data)
             /\ GoodFrom(data, totalOut) => GoodFrom(kept, totalOut)
             /\ Within(totalOut + Len(kept))
             /\ \/ Len(kept) = Len(data)
                \/ Vf!HdrVersion = 2 /\ totalOut + Len(kept) = Vf!DataSize
<1> DEFINE S == Vf!DataSize
           kept == Vf!Kept(data)
<1>1. Len(data) \in Nat
  BY LenProperties
<1>2. CASE Vf!HdrVersion = 2 /\ S - totalOut < Len(data)
  <2>1. S \in Nat /\ ~(totalOut >= S)
    BY <1>2, ImageFacts DEF Vf!AtEnd
  <2>2. PICK n \in Nat : n = S - totalOut
    BY <2>1
  <2>3. kept = SubSeq(data, 1, n)
    BY <1>2, <2>2 DEF Vf!Kept
  <2>4. PICK from \in Nat : from = 0
    OBVIOUS
  <2>5. from + n <= Len(data)
    BY <1>1, <1>2, <2>2, <2>4
  <2>6. LET part == SubSeq(data, from + 1, from + n)
        IN  /\ part \in Seq(Cells) /\ Len(part) = n
            /\ \A x \in Nat : GoodFrom(data, x) => GoodFrom(part, x + from)
    BY <2>5, PartOf
  <2>7. from + 1 = 1 /\ from + n = n /\ totalOut + from = totalOut
    BY <2>2, <2>4
  <2>8. kept \in Seq(Cells) /\ Len(kept) = n /\ (GoodFrom(data, totalOut) => GoodFrom(kept, totalOut))
    BY <2>3, <2>6, <2>7
  <2>9. totalOut + n = S /\ n <= Len(data)
    BY <1>1, <1>2, <2>1, <2>2
  <2>10. Within(totalOut + n)
    BY <2>1, <2>9 DEF Within
  <2> HIDE DEF kept, S
  <2> QED
    BY <1>1, <1>2, <2>8, <2>9, <2>10 DEF kept, S
<1>3. CASE ~(Vf!HdrVersion = 2 /\ S - totalOut < Len(data))
  <2>1. kept = data
    BY <1>3 DEF Vf!Kept
  <2>2. Within(totalOut + Len(data))
    <3> SUFFICES ASSUME Vf!HdrVersion = 2 PROVE totalOut + Len(data) <= S
      BY DEF Within
    <3>1. S \in Nat /\ ~(S - totalOut < Len(data))
      BY <1>3, ImageFacts
    <3> QED
      BY <1>1, <3>1
  <2> HIDE DEF kept
  <2>3. Len(data) \in 0..Len(data)
    BY <1>1
  <2> QED
    BY <2>1, <2>2, <2>3 DEF kept
<1> QED
  BY <1>2, <1>3

\* Read reads a chunk, decrypts it and gives of it.
LEMMA ReadChunkKeeps ==
  ASSUME ImageTyped, img # <<>>, Sound, NEW asked \in Wants, phase \in {"open", "reading"},
         phase' = "reading", Vf!ReadChunk(asked)
  PROVE  Sound'
<1> DEFINE B == Vf!BlockLen
           S == Vf!DataSize
           O == Vf!DataOffset
<1>1. /\ img' = img /\ ~Vf!AtEnd /\ bufferPos >= Len(buffer) /\ at < img.len
      /\ chunkNo' = chunkNo + 1 /\ todo' = todo
  BY DEF Vf!ReadChunk
<1>2. /\ at \in Nat /\ chunkNo \in Nat /\ totalOut \in Nat /\ buffer \in Seq(Cells)
      /\ bufferPos \in 0..Len(buffer) /\ Len(buffer) \in Nat /\ asked \in Nat
  BY LenProperties, Constants DEF Sound, Typed
<1>3. /\ Vf!HdrVersion \in {1, 2} /\ at >= O /\ at <= img.len /\ Len(output) = totalOut
  BY DEF Sound, Started
<1>4. /\ B \in Nat \ {0} /\ O \in Nat /\ S \in Int /\ img.len \in Nat /\ S <= img.len - O
      /\ Vf!HdrVersion = 2 => S \in Nat
  BY <1>3, ImageFacts
<1>5. PICK most \in Nat : /\ most = Vf!Min({B, img.len - at}) /\ most <= B /\ at + most <= img.len
                          /\ most = B \/ at + most = img.len
  <2>1. PICK v \in Nat : v = img.len - at
    BY <1>1, <1>2, <1>4
  <2>2. Vf!Min({B, v}) = IF B <= v THEN B ELSE v
    BY <1>4, MinOfTwo
  <2> HIDE DEF B
  <2> QED
    BY <1>2, <1>4, <2>1, <2>2
<1>6. PICK r \in 1..most :
        LET data == Vf!Kept(Vf!DecryptChunk(chunkNo, Vf!FileBytes(at, r)))
        IN  /\ at' = at + r /\ buffer' = data
            /\ short' = (short \/ r < most)
            /\ Vf!HandOver(data, 0, asked)
  BY <1>5 DEF Vf!ReadChunk
<1>7. r \in Nat /\ r <= B /\ at + r <= img.len
  BY <1>2, <1>4, <1>5
<1> DEFINE bytes == Vf!FileBytes(at, r)
           plain == Vf!DecryptChunk(chunkNo, bytes)
           kept  == Vf!Kept(plain)
<1>8. plain \in Seq(Cells) /\ Len(plain) = r
  BY <1>2, <1>3, <1>7, DecryptChunkTyped
<1>9. at' = at + r /\ buffer' = kept /\ short' = (short \/ r < most) /\ Vf!HandOver(kept, 0, asked)
  BY <1>6
<1>10. /\ kept \in Seq(Cells) /\ Len(kept) \in 0..r
       /\ GoodFrom(plain, totalOut) => GoodFrom(kept, totalOut)
       /\ Within(totalOut + Len(kept))
       /\ Len(kept) = r \/ (Vf!HdrVersion = 2 /\ totalOut + Len(kept) = S)
  <2> HIDE DEF plain
  <2> QED
    BY <1>1, <1>2, <1>8, KeptOf
<1>11. bytes \in Seq(Cells) /\ Len(bytes) = r
       /\ \A i \in 1..r : bytes[i] = Vf!Cipher(at - O + i - 1)
  BY <1>2, <1>3, <1>7, FileBytesProperties
<1> HIDE DEF kept
<1>12. PICK n \in Nat :
        /\ n <= Len(kept) /\ bufferPos' = n /\ totalOut' = totalOut + n
        /\ output' \in Seq(Cells) /\ Len(output') = totalOut'
        /\ GoodFrom(kept, totalOut) /\ GoodFrom(output, 0) => GoodFrom(output', 0)
  <2>1. PICK from \in 0..Len(kept) : from = 0
    BY <1>7, <1>10
  <2>2. Vf!HandOver(kept, from, asked)
    BY <1>9, <2>1
  <2>3. PICK n \in Nat :
          /\ from + n <= Len(kept) /\ bufferPos' = from + n /\ totalOut' = totalOut + n
          /\ output' \in Seq(Cells) /\ Len(output') = totalOut'
          /\ \A x \in Nat : /\ x + from = totalOut /\ GoodFrom(kept, x) /\ GoodFrom(output, 0)
                            => GoodFrom(output', 0)
    BY <1>2, <1>3, <1>10, <2>2, HandOverAppends
  <2>4. from + n = n /\ totalOut + from = totalOut
    BY <1>2, <2>1
  <2> QED
    BY <1>2, <2>3, <2>4
<1>13. Typed'
  <2>1. /\ at' \in Nat /\ chunkNo' \in Nat /\ totalOut' \in Nat /\ bufferPos' \in 0..Len(buffer')
        /\ buffer' \in Seq(Cells) /\ output' \in Seq(Cells)
    BY <1>1, <1>2, <1>7, <1>9, <1>10, <1>12
  <2>2. phase' \in Vf!Phases /\ todo' \subseteq Nat
    BY <1>1 DEF Sound, Typed, Vf!Phases
  <2>3. short' \in BOOLEAN
    <3>1. short \in BOOLEAN
      BY DEF Sound, Typed
    <3>2. (short \/ r < most) \in BOOLEAN
      OBVIOUS
    <3> QED
      BY <1>9, <3>2
  <2> QED
    BY <2>1, <2>2, <2>3 DEF Typed
<1>14. Started'
  <2>1. at' >= O /\ at' <= img.len
    BY <1>2, <1>3, <1>4, <1>7, <1>9
  <2> QED
    BY <1>1, <1>3, <1>12, <2>1, SameImage DEF Started
<1>15. ASSUME ~short' PROVE OutputGood' /\ Reading'
  <2>1. ~short /\ r = most
    <3>1. short' = (short \/ r < most)
      BY <1>9
    <3>2. ~short /\ ~(r < most)
      BY <1>15, <3>1, Zenon
    <3> QED
      BY <1>5, <3>2
  <2>2. /\ totalOut >= bufferPos
        /\ \/ O + totalOut - bufferPos + Len(buffer) = at
           \/ Vf!HdrVersion = 2 /\ totalOut - bufferPos + Len(buffer) = S
        /\ at = O + chunkNo * B \/ at >= img.len
    BY <2>1 DEF Sound, Reading
  <2>3. ~(Vf!HdrVersion = 2 /\ totalOut >= S)
    BY <1>1 DEF Vf!AtEnd
  <2> HIDE DEF B, O, S
  <2>4. chunkNo * B \in Nat
    BY <1>2, <1>4
  <2>5. totalOut = chunkNo * B /\ at = O + totalOut
    BY <1>1, <1>2, <1>4, <2>2, <2>3, <2>4
  <2>6. GoodFrom(plain, totalOut)
    <3>1. \A j \in 1..r : bytes[j] = Vf!Cipher(chunkNo * B + j - 1)
      <4> TAKE j \in 1..r
      <4>1. at - O + j - 1 = chunkNo * B + j - 1
        BY <1>2, <1>4, <2>4, <2>5
      <4> QED
        BY <1>11, <4>1
    <3>2. r = B \/ chunkNo * B + r >= S
      BY <1>2, <1>4, <1>5, <1>7, <2>1, <2>4, <2>5
    <3> HIDE DEF bytes
    <3>3. LET p == Vf!DecryptChunk(chunkNo, bytes)
          IN GoodFrom(p, chunkNo * Vf!BlockLen)
      <4>1. /\ Len(bytes) <= Vf!BlockLen
            /\ \A j \in 1..Len(bytes) : bytes[j] = Vf!Cipher(chunkNo * Vf!BlockLen + j - 1)
            /\ Len(bytes) = Vf!BlockLen \/ chunkNo * Vf!BlockLen + Len(bytes) >= Vf!DataSize
        BY <1>7, <1>11, <3>1, <3>2 DEF B, S
      <4> QED
        BY <1>2, <1>3, <1>11, <4>1, DecryptChunkProperties
    <3> QED
      BY <2>5, <3>3 DEF B
  <2>7. GoodFrom(kept, totalOut)
    BY <1>10, <2>6
  <2>8. GoodFrom(output, 0)
    BY <2>1, OutputWhenOpen
  <2>9. Within(Len(output'))
    BY <1>2, <1>4, <1>10, <1>12 DEF Within, S
  <2>10. OutputGood'
    BY <1>1, <1>12, <2>7, <2>8, <2>9, SameGood
  <2>11. totalOut' >= bufferPos' /\ totalOut' - bufferPos' = totalOut
    BY <1>2, <1>12
  <2>12. GoodFrom(buffer, totalOut - bufferPos)'
    BY <1>1, <1>9, <2>7, <2>11, SameImage DEF GoodFrom, Good
  <2>13. Within(totalOut - bufferPos + Len(buffer))'
    BY <1>1, <1>9, <1>10, <2>11, SameImage DEF Within
  <2>14. \/ O + totalOut + Len(kept) = at + r
         \/ Vf!HdrVersion = 2 /\ totalOut + Len(kept) = S
    BY <1>2, <1>4, <1>7, <1>10, <2>5
  <2>15. \/ Vf!DataOffset' + totalOut' - bufferPos' + Len(buffer') = at'
         \/ Vf!HdrVersion' = 2 /\ totalOut' - bufferPos' + Len(buffer') = Vf!DataSize'
    <3>1. O + totalOut' - bufferPos' + Len(kept) = O + totalOut + Len(kept)
      BY <1>2, <1>4, <1>7, <1>10, <1>12
    <3> QED
      BY <1>1, <1>9, <2>11, <2>14, <3>1, SameImage DEF O, S
  <2>16. at' = O + chunkNo' * B \/ at' >= img.len
    <3>1. (chunkNo + 1) * B = chunkNo * B + B
      BY <1>2, <1>4
    <3> QED
      BY <1>1, <1>2, <1>4, <1>5, <1>7, <1>9, <2>1, <2>4, <2>5, <3>1
  <2>17. Reading'
    BY <1>1, <2>11, <2>12, <2>13, <2>15, <2>16, SameImage DEF Reading, O, B
  <2> QED
    BY <2>10, <2>17
<1>16. Reading'
  BY <1>15 DEF Reading
<1>17. Fresh' /\ Filling' /\ Decrypting' /\ Complete'
  BY DEF Fresh, Filling, Decrypting, Complete
<1> QED
  BY <1>13, <1>14, <1>15, <1>16, <1>17 DEF Sound

-----------------------------------------------------------------------------
(* All the steps.                                                          *)

\* Each step of VfDecryptor keeps what is sound.
LEMMA VfKeeps ==
  ASSUME ImageTyped, img # <<>>, Sound, Vf!VfNext
  PROVE  Sound' /\ img' = img
<1>1. CASE Vf!New
  BY <1>1, NewKeeps DEF Vf!New
<1>2. CASE Vf!InputFails
  BY <1>2, InputFailsKeeps DEF Vf!InputFails
<1>3. CASE Vf!DecryptParallel
  BY <1>3, DecryptParallelKeeps DEF Vf!DecryptParallel
<1>4. CASE Vf!FillBatch
  BY <1>4, FillBatchKeeps DEF Vf!FillBatch
<1>5. CASE Vf!Filled
  BY <1>5, FilledKeeps DEF Vf!Filled
<1>6. CASE Vf!WriteBatch
  BY <1>6, WriteBatchKeeps DEF Vf!WriteBatch
<1>7. CASE Vf!ReadEnd
  BY <1>7, ReadEndKeeps DEF Vf!ReadEnd
<1>8. CASE \E i \in todo : Vf!Worker(i)
  <2>1. PICK i \in todo : Vf!Worker(i)
    BY <1>8
  <2>2. img' = img
    BY <2>1 DEF Vf!Worker
  <2> QED
    BY <2>1, <2>2, WorkerKeeps
<1>9. CASE \E asked \in Wants : Vf!Read(asked)
  <2>1. PICK asked \in Wants : Vf!Read(asked)
    BY <1>9
  <2>2. /\ phase \in {"open", "reading"} /\ phase' = "reading"
        /\ Vf!ReadBuffered(asked) \/ Vf!ReadChunk(asked)
    BY <2>1 DEF Vf!Read
  <2>3. img' = img
    BY <2>2 DEF Vf!ReadBuffered, Vf!ReadChunk
  <2> QED
    BY <2>2, <2>3, ReadBufferedKeeps, ReadChunkKeeps
<1> QED
  BY <1>1, <1>2, <1>3, <1>4, <1>5, <1>6, <1>7, <1>8, <1>9 DEF Vf!VfNext

\* An image has room for the data of its file.
LEMMA EncryptImage ==
  ASSUME FileTyped, Encrypt
  PROVE  ImageTyped' /\ img' # <<>>
<1>1. PICK e \in Encryptions :
        LET padded == ((Len(w) + e.pad - 1) \div e.pad) * e.pad
            tail   == IF e.magics = {"cdsaencr"} THEN TrailerV1 ELSE 0
        IN img' = [magics |-> e.magics, block |-> e.block, offset |-> e.offset,
                   size |-> Len(w), len |-> e.offset + padded + tail]
  BY DEF Encrypt
<1> DEFINE n == Len(w)
           q == (n + e.pad - 1) \div e.pad
           tail == IF e.magics = {"cdsaencr"} THEN TrailerV1 ELSE 0
<1>2. /\ img' = [magics |-> e.magics, block |-> e.block, offset |-> e.offset,
                 size |-> n, len |-> e.offset + q * e.pad + tail]
  BY <1>1
<1>3. n \in Nat
  BY LenProperties DEF FileTyped
<1>4. e.block \in Nat \ {0} /\ e.pad \in Nat \ {0} /\ e.offset \in Nat /\ e.block % CipherBlock = 0
  BY DiskImageAssumption
<1>5. tail \in Nat
  BY Constants
<1> DEFINE d == e.pad
<1>6. q \in Nat /\ n <= q * d
  <2>1. PICK v \in Nat : v = n + d - 1
    BY <1>3, <1>4
  <2>2. v \in Int /\ v \in Nat /\ d \in Nat \ {0} /\ q = v \div d
    BY <1>4, <2>1
  <2> HIDE DEF q, d
  <2>3. v \div d \in Nat /\ v % d \in 0..d - 1 /\ v = d * (v \div d) + (v % d)
    BY <2>2, DivMod
  <2>4. q * d = d * q /\ d * q \in Nat
    BY <2>2, <2>3
  <2> HIDE DEF n
  <2> QED
    BY <1>3, <2>1, <2>2, <2>3, <2>4
<1> HIDE DEF n, q, tail
<1>7. /\ img'.block = e.block /\ img'.offset = e.offset /\ img'.size = n
      /\ img'.len = e.offset + q * d + tail
  BY <1>2
<1>8. "len" \in DOMAIN img' /\ DOMAIN <<>> = {}
  BY <1>2
<1>9. img' # <<>>
  BY <1>8
<1>10. q * d \in Nat
  BY <1>4, <1>6
<1>11. img'.len \in Nat /\ img'.len >= img'.offset + img'.size
  BY <1>3, <1>4, <1>5, <1>6, <1>7, <1>10
<1> QED
  BY <1>3, <1>4, <1>7, <1>9, <1>11 DEF ImageTyped

\* An image that is not yet opened is as it should be.
LEMMA EncryptSound ==
  ASSUME FileTyped, Encrypt, Vf!VfInit
  PROVE  Sound'
<1>1. /\ at' = 0 /\ chunkNo' = 0 /\ totalOut' = 0 /\ buffer' = <<>> /\ bufferPos' = 0
      /\ todo' = {} /\ output' = <<>> /\ phase' = "closed" /\ short' = FALSE
  BY DEF Encrypt, vfState, Vf!VfInit
<1>2. Typed'
  <2>1. <<>> \in Seq(Cells) /\ 0 \in 0..Len(<<>>)
    OBVIOUS
  <2> QED
    BY <1>1, <2>1 DEF Typed, Vf!Phases
<1>3. Fresh' /\ Started' /\ Filling' /\ Decrypting' /\ Reading' /\ Complete'
  BY <1>1 DEF Fresh, Started, Filling, Decrypting, Reading, Complete
<1> QED
  BY <1>1, <1>2, <1>3 DEF Sound

\* A step that leaves the decryption alone.
LEMMA VfSame ==
  ASSUME ImageTyped, IF img = <<>> THEN Vf!VfInit ELSE Sound, UNCHANGED <<img, vfState>>
  PROVE  ImageTyped' /\ (IF img = <<>> THEN Vf!VfInit ELSE Sound)'
<1>1. /\ img' = img /\ at' = at /\ chunkNo' = chunkNo /\ totalOut' = totalOut
      /\ buffer' = buffer /\ bufferPos' = bufferPos /\ todo' = todo /\ output' = output
      /\ phase' = phase /\ short' = short
  BY DEF vfState
<1>2. ImageTyped'
  BY <1>1 DEF ImageTyped
<1>3. CASE img = <<>>
  BY <1>1, <1>2, <1>3 DEF Vf!VfInit
<1>4. CASE img # <<>>
  <2>1. Vf!ToRead' = Vf!ToRead /\ Vf!NumChunks(Len(buffer))' = Vf!NumChunks(Len(buffer))
    BY <1>1, SameImage DEF Vf!ToRead, Vf!NumChunks
  <2>2. Typed'
    BY <1>1, <1>4 DEF Sound, Typed
  <2>3. Fresh' /\ Started' /\ Complete'
    BY <1>1, <1>4, SameImage DEF Sound, Fresh, Started, Complete
  <2>4. ~short' /\ phase' # "closed" => OutputGood'
    BY <1>1, <1>4, SameGood DEF Sound, OutputGood
  <2>5. BatchRead' <=> BatchRead
    BY <1>1, <2>1, SameImage DEF BatchRead, NoMore
  <2>6. Filling'
    BY <1>1, <1>4, <2>5 DEF Sound, Filling
  <2>7. Decrypting'
    BY <1>1, <1>4, <2>1, <2>5, SameImage DEF Sound, Decrypting, Good
  <2>8. Reading'
    BY <1>1, <1>4, SameImage DEF Sound, Reading, GoodFrom, Good, Within
  <2> QED
    BY <1>1, <1>2, <1>4, <2>2, <2>3, <2>4, <2>6, <2>7, <2>8 DEF Sound
<1> QED
  BY <1>1, <1>2, <1>3, <1>4

\* It holds at the start.
LEMMA InitIInv ==
  Init => IInv
<1> SUFFICES ASSUME Init PROVE IInv
  OBVIOUS
<1>1. /\ source \in Sources /\ w = source.file /\ img = <<>> /\ Vf!VfInit
      /\ parts = source.parts \/ parts = <<>>
  BY DEF Init
<1>2. source.parts \in Seq(Seq(Int)) /\ source.file \in Seq(Range(source.file))
  BY <1>1, DiskImageAssumption
<1>3. parts \in Seq(Seq(Int))
  BY <1>1, <1>2, EmptySeq
<1> QED
  BY <1>1, <1>2, <1>3 DEF IInv, FileTyped, ImageTyped

\* Every step keeps it.
LEMMA NextIInv ==
  IInv /\ [Next]_vars => IInv'
<1> SUFFICES ASSUME IInv, [Next]_vars PROVE IInv'
  OBVIOUS
<1>1. FileTyped /\ ImageTyped /\ (IF img = <<>> THEN Vf!VfInit ELSE Sound)
  BY DEF IInv
<1>2. ASSUME UNCHANGED writerVars PROVE FileTyped'
  BY <1>1, <1>2 DEF writerVars, FileTyped
<1>3. CASE Writer!WriterNext /\ UNCHANGED <<sourceVars, img, vfState, readerVars>>
  <2>1. FileTyped'
    BY <1>1, <1>3, WriterKeeps
  <2>2. UNCHANGED <<img, vfState>>
    BY <1>3
  <2> QED
    BY <1>1, <2>1, <2>2, VfSame DEF IInv
<1>4. CASE Encrypt
  <2>1. img = <<>> /\ Vf!VfInit /\ UNCHANGED writerVars
    BY <1>1, <1>4 DEF Encrypt
  <2>2. ImageTyped' /\ img' # <<>> /\ Sound'
    BY <1>1, <1>4, <2>1, EncryptImage, EncryptSound
  <2> QED
    BY <1>2, <2>1, <2>2 DEF IInv
<1>5. CASE img # <<>> /\ Vf!VfNext /\ UNCHANGED <<sourceVars, writerVars, readerVars>>
  <2>1. Sound' /\ img' = img
    BY <1>1, <1>5, VfKeeps
  <2>2. ImageTyped'
    BY <1>1, <2>1 DEF ImageTyped
  <2> QED
    BY <1>2, <1>5, <2>1, <2>2 DEF IInv
<1>6. CASE phase = "done" /\ Reader!ReaderNext /\ UNCHANGED <<source, writerVars, img, vfState>>
  <2>1. UNCHANGED <<img, vfState>> /\ UNCHANGED writerVars
    BY <1>6
  <2> QED
    BY <1>1, <1>2, <2>1, VfSame DEF IInv
<1>7. CASE UNCHANGED vars
  <2>1. UNCHANGED <<img, vfState>> /\ UNCHANGED writerVars
    BY <1>7 DEF vars
  <2> QED
    BY <1>1, <1>2, <2>1, VfSame DEF IInv
<1> QED
  BY <1>3, <1>4, <1>5, <1>6, <1>7 DEF Next

\* The inductive invariant is one: where the input, the batch and the position of
\* the reader are in the data of the image, and what of them is decrypted.
THEOREM Invariance == Spec => []IInv
<1>1. Init => IInv
  BY InitIInv
<1>2. IInv /\ [Next]_vars => IInv'
  BY NextIInv
<1> QED
  BY <1>1, <1>2, PTL DEF Spec

\* What the decryption has given is the plain data in order, in its full length
\* when it ends well: for every image, chunk, batch and cipher block, and whatever
\* order the threads run in.  For decrypt_parallel (lib.rs:266-339) that is so
\* however its reads are cut; for Read (lib.rs:390-470), which takes every read
\* for one chunk, only while no read below it has stopped short.
THEOREM PlaintextIsInOrder == Spec => []PlaintextInOrder
<1>1. IInv => PlaintextInOrder
  <2> SUFFICES ASSUME IInv, img # <<>>, ~short, phase # "closed" PROVE
        LET whole == (Vf!DataSize \div CipherBlock) * CipherBlock
        IN  /\ \A i \in 1..Vf!Min({Len(output), whole}) : output[i] = Vf!Plain(i - 1)
            /\ Vf!HdrVersion = 2 => Len(output) <= Vf!DataSize
            /\ phase \in {"done", "taken"} =>
                 Len(output) >= Vf!Min({Vf!DataSize, img.len - Vf!DataOffset})
    BY DEF PlaintextInOrder, Vf!PlaintextInOrder
  <2>1. ImageTyped /\ Sound
    BY DEF IInv
  <2>2. Len(output) \in Nat /\ GoodFrom(output, 0) /\ Within(Len(output))
    <3>1. Len(output) \in Nat
      BY <2>1, LenProperties DEF Sound, Typed
    <3> QED
      BY <2>1, <3>1, OutputWhenOpen
  <2>3. Vf!DataSize \in Int /\ img.len \in Nat /\ Vf!DataOffset \in Nat /\ CipherBlock \in Nat \ {0}
    BY <2>1, ImageFacts, Constants
  <2>4. Whole \in Int
    <3>1. Vf!DataSize \div CipherBlock \in Int
      BY <2>3, DivMod
    <3> QED
      BY <2>3, <3>1 DEF Whole
  <2>5. \A i \in 1..Vf!Min({Len(output), Whole}) : output[i] = Vf!Plain(i - 1)
    <3>1. Vf!Min({Len(output), Whole}) = IF Len(output) <= Whole THEN Len(output) ELSE Whole
      BY <2>2, <2>4, MinOfTwo
    <3> TAKE i \in 1..Vf!Min({Len(output), Whole})
    <3>2. i \in 1..Len(output) /\ 0 + i - 1 < Whole /\ 0 + i - 1 = i - 1
      BY <2>2, <2>4, <3>1
    <3>3. Good(output[i], 0 + i - 1)
      BY <2>2, <3>2 DEF GoodFrom
    <3> QED
      BY <3>2, <3>3 DEF Good
  <2>6. phase \in {"done", "taken"} =>
          Len(output) >= Vf!Min({Vf!DataSize, img.len - Vf!DataOffset})
    <3> SUFFICES ASSUME phase \in {"done", "taken"}
                 PROVE  Len(output) >= Vf!Min({Vf!DataSize, img.len - Vf!DataOffset})
      OBVIOUS
    <3>1. PICK v \in Int : v = img.len - Vf!DataOffset
      BY <2>3
    <3>2. Vf!Min({Vf!DataSize, v}) = IF Vf!DataSize <= v THEN Vf!DataSize ELSE v
      BY <2>3, MinOfTwo
    <3>3. Len(output) >= Vf!DataSize \/ Len(output) >= v
      BY <2>1, <3>1 DEF Sound, Complete
    <3> QED
      BY <2>2, <2>3, <3>1, <3>2, <3>3
  <2> QED
    BY <2>2, <2>5, <2>6 DEF Whole, Within
<1> QED
  BY <1>1, Invariance, PTL

-----------------------------------------------------------------------------
(* The cache of the partition reader.                                      *)

\* A sequence of its own elements, each of them once.
Once(s) == /\ s \in Seq(Range(s))
           /\ \A a, b \in 1..Len(s) : s[a] = s[b] => a = b

\* Removing an element that is not there.
LEMMA RemoveNothing ==
  ASSUME NEW s, NEW i, Once(s), \A p \in 1..Len(s) : s[p] # i
  PROVE  Reader!RemoveFirst(s, i) = s
BY DEF Reader!RemoveFirst

\* Removing the element at place p.
LEMMA RemovePlace ==
  ASSUME NEW s, NEW p \in 1..Len(s), Once(s)
  PROVE  LET t == Reader!RemoveFirst(s, s[p])
         IN  /\ t \in Seq(Range(s)) /\ Len(t) = Len(s) - 1
             /\ \A j \in 1..Len(s) - 1 : t[j] = IF j < p THEN s[j] ELSE s[j + 1]
<1> DEFINE i == s[p]
           I == {q \in 1..Len(s) : s[q] = i}
           T == Range(s)
           t == Reader!RemoveFirst(s, i)
<1>1. Len(s) \in Nat /\ s \in Seq(T) /\ DOMAIN s = 1..Len(s)
  BY LenProperties DEF Once
<1>2. I = {p}
  BY DEF Once
<1>3. Reader!Min({p}) = p
  BY <1>1 DEF Reader!Min
<1>4. Reader!SelectInSeq(s, LAMBDA v : v = i) = p
  <2>1. Reader!SelectInSeq(s, LAMBDA v : v = i) = IF I # {} THEN Reader!Min(I) ELSE 0
    BY DEF Reader!SelectInSeq
  <2> HIDE DEF I
  <2> QED
    BY <1>2, <1>3, <2>1
<1>5. t = SubSeq(s, 1, p - 1) \o SubSeq(s, p + 1, Len(s))
  <2>1. t = Reader!RemoveAt(s, Reader!SelectInSeq(s, LAMBDA v : v = i))
    BY DEF Reader!RemoveFirst
  <2>2. t = Reader!RemoveAt(s, p)
    BY <1>4, <2>1
  <2> QED
    BY <2>2 DEF Reader!RemoveAt
<1> HIDE DEF T, t, i, I
<1>6. \A q \in 1..Len(s) : s[q] \in T
  BY <1>1, ElementOfSeq
<1> DEFINE a == SubSeq(s, 1, p - 1)
           b == SubSeq(s, p + 1, Len(s))
<1>7. /\ a \in Seq(T) /\ Len(a) = p - 1 /\ \A j \in 1..p - 1 : a[j] = s[j]
  <2>1. PICK lo \in Int, hi \in Int : lo = 1 /\ hi = p - 1
    BY <1>1
  <2>2. \A j \in lo..hi : s[j] \in T
    BY <1>1, <1>6, <2>1
  <2>3. /\ SubSeq(s, lo, hi) \in Seq(T)
        /\ Len(SubSeq(s, lo, hi)) = IF lo <= hi THEN hi - lo + 1 ELSE 0
        /\ \A j \in 1..hi - lo + 1 : SubSeq(s, lo, hi)[j] = s[lo + j - 1]
    BY <2>2, SubSeqProperties
  <2>4. a = SubSeq(s, lo, hi)
    BY <2>1
  <2> HIDE DEF a
  <2>5. Len(a) = p - 1
    BY <1>1, <2>1, <2>3, <2>4
  <2>6. \A j \in 1..p - 1 : j \in 1..hi - lo + 1 /\ lo + j - 1 = j
    BY <1>1, <2>1
  <2> QED
    BY <2>3, <2>4, <2>5, <2>6
<1>8. /\ b \in Seq(T) /\ Len(b) = Len(s) - p /\ \A j \in 1..Len(s) - p : b[j] = s[p + j]
  <2>0. p \in Int /\ p + 1 \in Int /\ Len(s) \in Int /\ p <= Len(s)
    BY <1>1
  <2>1. PICK lo \in Int, hi \in Int : lo = p + 1 /\ hi = Len(s)
    BY <2>0
  <2>2. \A j \in lo..hi : s[j] \in T
    BY <1>1, <1>6, <2>1
  <2>3. /\ SubSeq(s, lo, hi) \in Seq(T)
        /\ Len(SubSeq(s, lo, hi)) = IF lo <= hi THEN hi - lo + 1 ELSE 0
        /\ \A j \in 1..hi - lo + 1 : SubSeq(s, lo, hi)[j] = s[lo + j - 1]
    BY <2>2, SubSeqProperties
  <2>4. b = SubSeq(s, lo, hi)
    BY <2>1
  <2> HIDE DEF b
  <2>5. Len(b) = Len(s) - p
    <3>1. Len(b) = IF lo <= hi THEN hi - lo + 1 ELSE 0
      BY <2>3, <2>4
    <3> QED
      BY <2>0, <2>1, <3>1
  <2>6. \A j \in 1..Len(s) - p : j \in 1..hi - lo + 1 /\ lo + j - 1 = p + j
    BY <1>1, <2>1
  <2> QED
    BY <2>3, <2>4, <2>5, <2>6
<1>9. t = a \o b
  BY <1>5
<1> HIDE DEF a, b
<1>10. /\ a \o b \in Seq(T) /\ Len(a \o b) = Len(a) + Len(b)
       /\ \A j \in 1..Len(a) + Len(b) : (a \o b)[j] = IF j <= Len(a) THEN a[j] ELSE b[j - Len(a)]
  BY <1>7, <1>8, ConcatProperties
<1>11. Len(t) = Len(s) - 1
  BY <1>1, <1>7, <1>8, <1>9, <1>10
<1>12. ASSUME NEW j \in 1..Len(s) - 1 PROVE t[j] = IF j < p THEN s[j] ELSE s[j + 1]
  <2>1. t[j] = IF j <= p - 1 THEN a[j] ELSE b[j - (p - 1)]
    BY <1>1, <1>7, <1>8, <1>9, <1>10
  <2>2. CASE j < p
    BY <1>1, <1>7, <2>1, <2>2
  <2>3. CASE ~(j < p)
    <3>1. PICK k \in 1..Len(s) - p : k = j - (p - 1)
      BY <1>1, <2>3
    <3>2. b[k] = s[p + k] /\ p + k = j + 1
      BY <1>1, <1>8, <3>1
    <3> QED
      BY <1>1, <2>1, <2>3, <3>1, <3>2
  <2> QED
    BY <2>2, <2>3
<1> QED
  BY <1>9, <1>10, <1>11, <1>12 DEF t, T, i

\* A chunk that was not used before goes to the back of the order.
LEMMA NewToBack ==
  ASSUME NEW s, NEW i, Once(s), \A p \in 1..Len(s) : s[p] # i
  PROVE  LET t == Reader!ToBack(s, i)
         IN  /\ Once(t) /\ Len(t) = Len(s) + 1 /\ t[Len(s) + 1] = i
             /\ \A j \in 1..Len(s) : t[j] = s[j]
<1> DEFINE t == Reader!ToBack(s, i)
           T == Range(s) \cup {i}
<1>1. t = Append(s, i)
  BY RemoveNothing DEF Reader!ToBack
<1>2. s \in Seq(T)
  <2>1. Range(s) \subseteq T /\ s \in Seq(Range(s))
    BY DEF Once
  <2> HIDE DEF T
  <2> QED
    BY <2>1, SeqMonotonic
<1>3. i \in T /\ Len(s) \in Nat
  BY <1>2, LenProperties
<1> HIDE DEF T, t
<1>4. /\ t \in Seq(T) /\ Len(t) = Len(s) + 1 /\ t[Len(s) + 1] = i
      /\ \A j \in 1..Len(s) : t[j] = s[j]
  BY <1>1, <1>2, <1>3, AppendProperties
<1>5. t \in Seq(Range(t))
  BY <1>4, SeqOfOwn
<1>6. ASSUME NEW a \in 1..Len(t), NEW b \in 1..Len(t), t[a] = t[b] PROVE a = b
  BY <1>3, <1>4, <1>6 DEF Once
<1> QED
  BY <1>4, <1>5, <1>6 DEF t, Once

\* One that was used before leaves its place for the back.
LEMMA OldToBack ==
  ASSUME NEW s, NEW p \in 1..Len(s), Once(s)
  PROVE  LET t == Reader!ToBack(s, s[p])
         IN  /\ Once(t) /\ Len(t) = Len(s) /\ t[Len(s)] = s[p]
             /\ \A j \in 1..Len(s) - 1 : t[j] = IF j < p THEN s[j] ELSE s[j + 1]
<1> DEFINE i == s[p]
           r == Reader!RemoveFirst(s, i)
           t == Reader!ToBack(s, i)
           T == Range(s)
<1>1. Len(s) \in Nat /\ s \in Seq(T) /\ i \in T
  BY LenProperties, ElementOfSeq DEF Once
<1>2. /\ r \in Seq(T) /\ Len(r) = Len(s) - 1
      /\ \A j \in 1..Len(s) - 1 : r[j] = IF j < p THEN s[j] ELSE s[j + 1]
  BY RemovePlace
<1>3. t = Append(r, i)
  BY DEF Reader!ToBack
<1>7. \A q \in 1..Len(s) : s[q] = i => q = p
  BY DEF Once
<1>8. i = s[p]
  OBVIOUS
<1> HIDE DEF r, t, T, i
<1>4. /\ t \in Seq(T) /\ Len(t) = Len(s) /\ t[Len(s)] = i
      /\ \A j \in 1..Len(s) - 1 : t[j] = IF j < p THEN s[j] ELSE s[j + 1]
  <2>1. /\ Append(r, i) \in Seq(T) /\ Len(Append(r, i)) = Len(r) + 1
        /\ Append(r, i)[Len(r) + 1] = i /\ \A j \in 1..Len(r) : Append(r, i)[j] = r[j]
    BY <1>1, <1>2, AppendProperties
  <2>2. Len(r) + 1 = Len(s)
    BY <1>1, <1>2
  <2> QED
    BY <1>1, <1>2, <1>3, <2>1, <2>2
<1>5. t \in Seq(Range(t))
  BY <1>4, SeqOfOwn
<1>6. ASSUME NEW a \in 1..Len(t), NEW b \in 1..Len(t), t[a] = t[b] PROVE a = b
  <2> DEFINE F(j) == IF j = Len(s) THEN p ELSE IF j < p THEN j ELSE j + 1
  <2>1. \A j \in 1..Len(s) : F(j) \in 1..Len(s) /\ t[j] = s[F(j)]
    BY <1>1, <1>4, <1>8
  <2>2. F(a) = F(b)
    <3> HIDE DEF F
    <3>1. F(a) \in 1..Len(s) /\ F(b) \in 1..Len(s) /\ s[F(a)] = s[F(b)]
      BY <1>4, <1>6, <2>1
    <3> QED
      BY <3>1 DEF Once
  <2> QED
    BY <1>1, <1>4, <2>2
<1> QED
  BY <1>4, <1>5, <1>6, <1>8 DEF t, Once, i

\* How many of n chunks that were used have left the cache.
Gone(n) == IF n <= CacheMax THEN 0 ELSE n - CacheMax

\* The order of eviction is what is left of the chunks by their last use, and
\* names the chunks of the cache.
Lru(held, order, recent) ==
  /\ Once(recent) /\ Once(order)
  /\ held = {order[j] : j \in 1..Len(order)}
  /\ Len(order) = Len(recent) - Gone(Len(recent))
  /\ \A j \in 1..Len(order) : order[j] = recent[Gone(Len(recent)) + j]
CacheInv == Lru(DOMAIN cache, cacheOrder, used)

\* A cache has as many chunks as its order names.
LEMMA CacheCount ==
  ASSUME NEW s, Once(s), NEW S, S = {s[j] : j \in 1..Len(s)}
  PROVE  Reader!Cardinality(S) = Len(s)
<1>1. Len(s) \in Nat
  BY LenProperties DEF Once
<1>2. IsFiniteSet(1..Len(s)) /\ Cardinality(1..Len(s)) = Len(s)
  <2>1. PICK lo \in Int, hi \in Int : lo = 1 /\ hi = Len(s)
    BY <1>1
  <2>2. IsFiniteSet(lo..hi) /\ Cardinality(lo..hi) = IF lo > hi THEN 0 ELSE hi - lo + 1
    BY FS_Interval
  <2>3. (IF lo > hi THEN 0 ELSE hi - lo + 1) = Len(s)
    BY <1>1, <2>1
  <2> QED
    BY <2>1, <2>2, <2>3
<1> DEFINE f == [j \in 1..Len(s) |-> s[j]]
<1>3. f \in Bijection(1..Len(s), S)
  <2>1. f \in [1..Len(s) -> S]
    OBVIOUS
  <2>2. \A a, b \in 1..Len(s) : f[a] = f[b] => a = b
    BY DEF Once
  <2>3. \A x \in S : \E j \in 1..Len(s) : f[j] = x
    OBVIOUS
  <2> HIDE DEF f
  <2> QED
    BY <2>1, <2>2, <2>3 DEF Bijection, Injection, Surjection, IsInjective
<1>4. ExistsBijection(1..Len(s), S)
  BY <1>3 DEF ExistsBijection
<1>5. Cardinality(S) = Len(s)
  BY <1>2, <1>4, FS_Bijection
<1>6. Reader!Cardinality(S) = Cardinality(S)
  BY DEF Reader!Cardinality, Cardinality
<1> QED
  BY <1>5, <1>6

\* What is left when the first of a sequence leaves.
LEMMA FirstLeaves ==
  ASSUME NEW s, Once(s), Len(s) # 0
  PROVE  /\ Once(Tail(s)) /\ Len(Tail(s)) = Len(s) - 1
         /\ \A j \in 1..Len(s) - 1 : Tail(s)[j] = s[j + 1]
         /\ Head(s) = s[1]
<1> DEFINE t == Tail(s)
<1>1. Len(s) \in Nat /\ s \in Seq(Range(s)) /\ s # <<>>
  BY LenProperties, EmptySeq DEF Once
<1>2. t \in Seq(Range(s)) /\ Len(t) = Len(s) - 1 /\ Head(s) = s[1]
  BY <1>1, HeadTailProperties
<1>3. \A j \in 1..Len(s) - 1 : t[j] = s[j + 1]
  BY <1>1, <1>2, HeadTailProperties
<1> HIDE DEF t
<1>4. t \in Seq(Range(t))
  BY <1>2, SeqOfOwn
<1>5. ASSUME NEW a \in 1..Len(t), NEW b \in 1..Len(t), t[a] = t[b] PROVE a = b
  <2>1. a + 1 \in 1..Len(s) /\ b + 1 \in 1..Len(s) /\ s[a + 1] = s[b + 1]
    BY <1>1, <1>2, <1>3, <1>5
  <2>2. a + 1 = b + 1
    BY <2>1 DEF Once
  <2> QED
    BY <1>1, <1>2, <2>2
<1> QED
  BY <1>2, <1>3, <1>4, <1>5 DEF Once, t

\* Using a chunk: a hit, a load with room for it, and one for which the oldest leaves.
LEMMA CacheUseKeeps ==
  ASSUME CacheInv, NEW i, Reader!CacheUse(i)
  PROVE  CacheInv'
<1> DEFINE n == Len(used)
           m == Len(cacheOrder)
           full == i \notin DOMAIN cache /\ Reader!Cardinality(DOMAIN cache) >= CacheMax
           order == IF full THEN Tail(cacheOrder) ELSE cacheOrder
           out == IF full THEN {Head(cacheOrder)} ELSE {}
           order2 == Reader!ToBack(order, i)
           used2 == Reader!ToBack(used, i)
<1>1. cacheOrder' = order2 /\ used' = used2 /\ DOMAIN cache' = (DOMAIN cache \cup {i}) \ out
  BY DEF Reader!CacheUse, Reader!ToBack
<1>2. /\ Once(used) /\ Once(cacheOrder) /\ DOMAIN cache = {cacheOrder[j] : j \in 1..m}
      /\ m = n - Gone(n) /\ \A j \in 1..m : cacheOrder[j] = used[Gone(n) + j]
  BY DEF CacheInv, Lru
<1>3. n \in Nat /\ m \in Nat /\ CacheMax \in Nat \ {0}
  BY <1>2, DiskImageAssumption, LenProperties DEF Once
<1>4. Gone(n) = (IF n <= CacheMax THEN 0 ELSE n - CacheMax) /\ Gone(n) \in Nat
  BY <1>3 DEF Gone
<1>5. Reader!Cardinality(DOMAIN cache) = m
  BY <1>2, CacheCount
<1>6. full <=> i \notin DOMAIN cache /\ m >= CacheMax
  BY <1>5
<1> SUFFICES Lru((DOMAIN cache \cup {i}) \ out, order2, used2)
  BY <1>1 DEF CacheInv
<1> HIDE DEF full, order2, used2
<1>7. CASE i \in DOMAIN cache
  <2>1. ~full /\ order = cacheOrder /\ out = {}
    BY <1>6, <1>7
  <2>2. PICK k \in 1..m : cacheOrder[k] = i
    BY <1>2, <1>7
  <2>3. PICK p \in 1..n : p = Gone(n) + k
    BY <1>2, <1>3, <1>4
  <2>4. used[p] = i
    BY <1>2, <2>2, <2>3
  <2>5. /\ Once(order2) /\ Len(order2) = m /\ order2[m] = i
        /\ \A j \in 1..m - 1 : order2[j] = IF j < k THEN cacheOrder[j] ELSE cacheOrder[j + 1]
    BY <1>2, <2>1, <2>2, OldToBack DEF order2
  <2>6. /\ Once(used2) /\ Len(used2) = n /\ used2[n] = i
        /\ \A j \in 1..n - 1 : used2[j] = IF j < p THEN used[j] ELSE used[j + 1]
    BY <1>2, <2>4, OldToBack DEF used2
  <2> HIDE DEF out, order, n, m
  <2>7. ASSUME NEW j \in 1..m PROVE order2[j] = used2[Gone(n) + j]
    <3>1. CASE j = m
      BY <1>2, <1>3, <1>4, <2>5, <2>6, <3>1
    <3>2. CASE j # m /\ j < k
      <4>1. PICK a \in 1..n - 1 : a = Gone(n) + j /\ a < p
        <5>1. Gone(n) + j \in 1..n - 1 /\ Gone(n) + j < p
          BY <1>2, <1>3, <1>4, <2>3, <3>2
        <5> QED
          BY <5>1
      <4>2. j \in 1..m - 1
        BY <1>3, <3>2
      <4> QED
        BY <1>2, <2>5, <2>6, <3>2, <4>1, <4>2
    <3>3. CASE j # m /\ ~(j < k)
      <4>1. PICK a \in 1..n - 1 : a = Gone(n) + j /\ ~(a < p) /\ a + 1 = Gone(n) + (j + 1)
        <5>1. /\ Gone(n) + j \in 1..n - 1 /\ ~(Gone(n) + j < p)
              /\ Gone(n) + j + 1 = Gone(n) + (j + 1)
          BY <1>2, <1>3, <1>4, <2>3, <3>3
        <5> QED
          BY <5>1
      <4>2. j \in 1..m - 1 /\ j + 1 \in 1..m
        BY <1>3, <3>3
      <4>3. order2[j] = cacheOrder[j + 1] /\ used2[a] = used[a + 1]
        BY <2>5, <2>6, <3>3, <4>1, <4>2
      <4>4. cacheOrder[j + 1] = used[Gone(n) + (j + 1)]
        BY <1>2, <4>2
      <4> QED
        BY <4>1, <4>3, <4>4
    <3> QED
      BY <3>1, <3>2, <3>3
  <2>8. DOMAIN cache = {order2[j] : j \in 1..m}
    <3>1. ASSUME NEW j \in 1..m PROVE \E q \in 1..m : order2[q] = cacheOrder[j]
      <4>1. CASE j < k
        <5>1. j \in 1..m - 1
          BY <1>3, <4>1
        <5> QED
          BY <2>5, <4>1, <5>1
      <4>2. CASE j = k
        <5>1. m \in 1..m
          BY <1>3
        <5> QED
          BY <2>2, <2>5, <4>2, <5>1
      <4>3. CASE j > k
        <5>1. PICK q \in 1..m - 1 : q = j - 1 /\ ~(q < k) /\ q + 1 = j
          BY <1>3, <4>3
        <5>2. order2[q] = cacheOrder[j] /\ q \in 1..m
          BY <1>3, <2>5, <5>1
        <5> QED
          BY <5>2
      <4> QED
        BY <1>3, <4>1, <4>2, <4>3
    <3>2. ASSUME NEW q \in 1..m PROVE \E j \in 1..m : order2[q] = cacheOrder[j]
      <4>1. CASE q = m
        BY <2>2, <2>5, <4>1
      <4>2. CASE q # m
        <5>1. q \in 1..m - 1 /\ q \in 1..m /\ q + 1 \in 1..m
          BY <1>3, <4>2
        <5> QED
          BY <2>5, <5>1
      <4> QED
        BY <4>1, <4>2
    <3>3. ASSUME NEW x \in DOMAIN cache PROVE \E q \in 1..m : order2[q] = x
      <4>1. PICK j \in 1..m : cacheOrder[j] = x
        BY <1>2
      <4>2. PICK q \in 1..m : order2[q] = cacheOrder[j]
        BY <3>1
      <4> QED
        BY <4>1, <4>2
    <3>4. ASSUME NEW q \in 1..m PROVE order2[q] \in DOMAIN cache
      BY <1>2, <3>2
    <3> QED
      BY <3>3, <3>4
  <2>9. (DOMAIN cache \cup {i}) \ out = DOMAIN cache
    BY <1>7, <2>1
  <2>10. Len(order2) = Len(used2) - Gone(Len(used2))
    BY <1>2, <2>5, <2>6
  <2> QED
    BY <2>5, <2>6, <2>7, <2>8, <2>9, <2>10 DEF Lru
<1>8. CASE i \notin DOMAIN cache /\ m < CacheMax
  <2>1. ~full /\ order = cacheOrder /\ out = {}
    BY <1>3, <1>6, <1>8
  <2>2. n < CacheMax /\ Gone(n) = 0 /\ m = n /\ Gone(n + 1) = 0
    BY <1>2, <1>3, <1>4, <1>8 DEF Gone
  <2>3. \A j \in 1..m : cacheOrder[j] # i /\ used[j] # i
    <3>1. \A j \in 1..m : cacheOrder[j] # i
      BY <1>2, <1>8
    <3>2. \A j \in 1..m : Gone(n) + j = j
      BY <1>3, <2>2
    <3> QED
      BY <1>2, <3>1, <3>2
  <2>4. /\ Once(order2) /\ Len(order2) = m + 1 /\ order2[m + 1] = i
        /\ \A j \in 1..m : order2[j] = cacheOrder[j]
    BY <1>2, <2>1, <2>3, NewToBack DEF order2
  <2>5. /\ Once(used2) /\ Len(used2) = n + 1 /\ used2[n + 1] = i
        /\ \A j \in 1..n : used2[j] = used[j]
    BY <1>2, <2>2, <2>3, NewToBack DEF used2
  <2> HIDE DEF order, n, m
  <2>6. ASSUME NEW j \in 1..m + 1 PROVE order2[j] = used2[Gone(n + 1) + j]
    <3>1. Gone(n + 1) + j = j
      BY <1>3, <2>2
    <3>2. j \in 1..m \/ j = m + 1
      BY <1>3
    <3>3. ASSUME j \in 1..m PROVE cacheOrder[j] = used[j]
      <4>1. Gone(n) + j = j
        BY <1>3, <2>2
      <4> QED
        BY <1>2, <3>3, <4>1
    <3> QED
      BY <2>2, <2>4, <2>5, <3>1, <3>2, <3>3
  <2>7. DOMAIN cache \cup {i} = {order2[j] : j \in 1..m + 1}
    <3>1. \A j \in 1..m + 1 : j \in 1..m \/ j = m + 1
      BY <1>3
    <3>2. 1..m \subseteq 1..m + 1 /\ m + 1 \in 1..m + 1
      BY <1>3
    <3> QED
      BY <1>2, <2>4, <3>1, <3>2
  <2>8. Len(order2) = Len(used2) - Gone(Len(used2))
    BY <1>3, <2>2, <2>4, <2>5
  <2>9. (DOMAIN cache \cup {i}) \ out = DOMAIN cache \cup {i}
    BY <2>1
  <2> QED
    BY <2>4, <2>5, <2>6, <2>7, <2>8, <2>9 DEF Lru
<1>9. CASE i \notin DOMAIN cache /\ m >= CacheMax
  <2>1. full /\ order = Tail(cacheOrder) /\ out = {Head(cacheOrder)}
    BY <1>6, <1>9
  <2>2. m = CacheMax /\ n >= CacheMax /\ Gone(n) = n - m /\ Gone(n + 1) = n + 1 - m
    BY <1>2, <1>3, <1>4, <1>9 DEF Gone
  <2>3. /\ Once(order) /\ Len(order) = m - 1 /\ Head(cacheOrder) = cacheOrder[1]
        /\ \A j \in 1..m - 1 : order[j] = cacheOrder[j + 1]
    BY <1>2, <1>3, <2>1, <2>2, FirstLeaves
  <2>4. \A j \in 1..m - 1 : j + 1 \in 1..m /\ order[j] # i
    <3>1. \A j \in 1..m - 1 : j + 1 \in 1..m
      BY <1>3
    <3> QED
      BY <1>2, <1>9, <2>3, <3>1
  <2>5. /\ Once(order2) /\ Len(order2) = m /\ order2[m] = i
        /\ \A j \in 1..m - 1 : order2[j] = cacheOrder[j + 1]
    <3> HIDE DEF order, m
    <3>1. /\ Once(order2) /\ Len(order2) = Len(order) + 1 /\ order2[Len(order) + 1] = i
          /\ \A j \in 1..Len(order) : order2[j] = order[j]
      BY <2>3, <2>4, NewToBack DEF order2
    <3>2. Len(order) + 1 = m
      BY <1>3, <2>3
    <3> QED
      BY <2>3, <3>1, <3>2
  <2> HIDE DEF order, n, m
  <2>6. (DOMAIN cache \cup {i}) \ out = {order2[j] : j \in 1..m}
    <3>1. \A j \in 1..m : cacheOrder[j] = cacheOrder[1] <=> j = 1
      <4>1. 1 \in 1..m
        BY <1>3, <2>2
      <4> QED
        BY <1>2, <4>1 DEF Once, m
    <3>2. 1 \in 1..m /\ m \in 1..m
      BY <1>3, <2>2
    <3>3. i # cacheOrder[1]
      BY <1>2, <1>9, <3>2
    <3>4. \A j \in 1..m : j # 1 => \E q \in 1..m - 1 : q + 1 = j
      <4> SUFFICES ASSUME NEW j \in 1..m, j # 1 PROVE \E q \in 1..m - 1 : q + 1 = j
        OBVIOUS
      <4>1. j - 1 \in 1..m - 1 /\ j - 1 + 1 = j
        BY <1>3
      <4> QED
        BY <4>1
    <3>5. \A q \in 1..m - 1 : q \in 1..m /\ q + 1 \in 1..m /\ q + 1 # 1
      BY <1>3
    <3>6. \A q \in 1..m : q \in 1..m - 1 \/ q = m
      BY <1>3
    <3>7. ASSUME NEW x \in (DOMAIN cache \cup {i}) \ out PROVE \E q \in 1..m : order2[q] = x
      <4>1. CASE x = i
        BY <2>5, <3>2, <4>1
      <4>2. CASE x # i
        <5>1. PICK j \in 1..m : cacheOrder[j] = x
          BY <1>2, <4>2
        <5>2. j # 1
          BY <2>1, <2>3, <5>1
        <5>3. PICK q \in 1..m - 1 : q + 1 = j
          BY <3>4, <5>2
        <5> QED
          BY <2>5, <3>5, <5>1, <5>3
      <4> QED
        BY <4>1, <4>2
    <3>8. ASSUME NEW q \in 1..m PROVE order2[q] \in (DOMAIN cache \cup {i}) \ out
      <4>1. CASE q = m
        BY <2>1, <2>3, <2>5, <3>3, <4>1
      <4>2. CASE q \in 1..m - 1
        <5>1. order2[q] = cacheOrder[q + 1] /\ q + 1 \in 1..m /\ q + 1 # 1
          BY <2>5, <3>5, <4>2
        <5>2. order2[q] \in DOMAIN cache /\ order2[q] # cacheOrder[1]
          BY <1>2, <3>1, <5>1
        <5> QED
          BY <2>1, <2>3, <5>2
      <4> QED
        BY <3>6, <4>1, <4>2
    <3> QED
      BY <3>7, <3>8
  <2>7. CASE \E p \in 1..n : used[p] = i
    <3>1. PICK p \in 1..n : used[p] = i
      BY <2>7
    <3>2. p <= n - m
      <4> SUFFICES ASSUME p > n - m PROVE FALSE
        BY <1>3
      <4>1. PICK j \in 1..m : j = p - (n - m)
        BY <1>3, <2>2
      <4>2. cacheOrder[j] = used[p]
        <5>1. Gone(n) + j = p
          BY <1>3, <2>2, <4>1
        <5> QED
          BY <1>2, <5>1
      <4> QED
        BY <1>2, <1>9, <3>1, <4>2
    <3>3. /\ Once(used2) /\ Len(used2) = n /\ used2[n] = i
          /\ \A j \in 1..n - 1 : used2[j] = IF j < p THEN used[j] ELSE used[j + 1]
      BY <1>2, <3>1, OldToBack DEF used2, n
    <3>4. ASSUME NEW j \in 1..m PROVE order2[j] = used2[Gone(n) + j]
      <4>1. CASE j = m
        BY <1>3, <2>2, <2>5, <3>3, <4>1
      <4>2. CASE j # m
        <5>1. j \in 1..m - 1 /\ j + 1 \in 1..m
          BY <1>3, <4>2
        <5>2. PICK a \in 1..n - 1 : a = Gone(n) + j /\ ~(a < p) /\ a + 1 = Gone(n) + (j + 1)
          BY <1>3, <2>2, <3>2, <5>1
        <5>3. order2[j] = cacheOrder[j + 1] /\ used2[a] = used[a + 1]
          BY <2>5, <3>3, <5>1, <5>2
        <5> QED
          BY <1>2, <5>1, <5>2, <5>3
      <4> QED
        BY <4>1, <4>2
    <3>5. Len(order2) = Len(used2) - Gone(Len(used2))
      BY <1>3, <2>2, <2>5, <3>3
    <3> QED
      BY <2>5, <2>6, <3>3, <3>4, <3>5 DEF Lru
  <2>8. CASE \A p \in 1..n : used[p] # i
    <3>1. /\ Once(used2) /\ Len(used2) = n + 1 /\ used2[n + 1] = i
          /\ \A j \in 1..n : used2[j] = used[j]
      BY <1>2, <2>8, NewToBack DEF used2, n
    <3>2. ASSUME NEW j \in 1..m PROVE order2[j] = used2[Gone(n + 1) + j]
      <4>1. CASE j = m
        <5>1. Gone(n + 1) + j = n + 1
          BY <1>3, <2>2, <4>1
        <5> QED
          BY <2>5, <3>1, <4>1, <5>1
      <4>2. CASE j # m
        <5>1. j \in 1..m - 1 /\ j + 1 \in 1..m
          BY <1>3, <4>2
        <5>2. PICK a \in 1..n : a = Gone(n + 1) + j /\ a = Gone(n) + (j + 1)
          BY <1>3, <2>2, <5>1
        <5>3. order2[j] = cacheOrder[j + 1] /\ used2[a] = used[a]
          BY <2>5, <3>1, <5>1, <5>2
        <5> QED
          BY <1>2, <5>1, <5>2, <5>3
      <4> QED
        BY <4>1, <4>2
    <3>3. Len(order2) = Len(used2) - Gone(Len(used2))
      BY <1>3, <2>2, <2>5, <3>1
    <3> QED
      BY <2>5, <2>6, <3>1, <3>2, <3>3 DEF Lru
  <2> QED
    BY <2>7, <2>8
<1> QED
  BY <1>3, <1>7, <1>8, <1>9

\* The steps of the reader: only a chunk that is read touches the cache.
LEMMA ReaderKeeps ==
  ASSUME CacheInv, Reader!ReaderNext
  PROVE  CacheInv'
<1>1. CASE UNCHANGED <<cache, cacheOrder, used>>
  BY <1>1 DEF CacheInv
<1>2. CASE Reader!ReadChunk
  <2>1. PICK i : Reader!CacheUse(i)
    BY <1>2 DEF Reader!ReadChunk
  <2> QED
    BY <2>1, CacheUseKeeps
<1>3. ASSUME Reader!Open \/ Reader!CopyPartition \/ Reader!CopyPanics \/ Reader!IntoPartitionReader
      PROVE  UNCHANGED <<cache, cacheOrder, used>>
  BY <1>3 DEF Reader!Open, Reader!CopyPartition, Reader!CopyPanics, Reader!IntoPartitionReader
<1>4. ASSUME Reader!ReadPastEnd \/ Reader!LoadFails \/ Reader!LoadPanics
      PROVE  UNCHANGED <<cache, cacheOrder, used>>
  BY <1>4 DEF Reader!ReadPastEnd, Reader!LoadFails, Reader!LoadPanics
<1>5. ASSUME \E n \in Lengths : Reader!Read(n) PROVE UNCHANGED <<cache, cacheOrder, used>>
  BY <1>5 DEF Reader!Read
<1>6. ASSUME \E d \in Deltas : Reader!SeekAny(d) PROVE UNCHANGED <<cache, cacheOrder, used>>
  <2>1. \A p : Reader!Seek(p) => UNCHANGED <<cache, cacheOrder, used>>
    BY DEF Reader!Seek
  <2> QED
    BY <1>6, <2>1 DEF Reader!SeekAny
<1> QED
  BY <1>1, <1>2, <1>3, <1>4, <1>5, <1>6 DEF Reader!ReaderNext

\* At the start the cache is empty, and stays so while nothing is read.
LEMMA InitCache ==
  Init => CacheInv
<1> SUFFICES ASSUME Init PROVE CacheInv
  OBVIOUS
<1>1. cache = <<>> /\ cacheOrder = <<>> /\ used = <<>>
  BY DEF Init, Reader!ReaderInit
<1>2. Len(<<>>) = 0 /\ 1..0 = {} /\ DOMAIN <<>> = {} /\ <<>> \in Seq(Range(<<>>))
  OBVIOUS
<1>3. Once(<<>>)
  BY <1>2 DEF Once
<1>4. Gone(0) = 0
  BY DiskImageAssumption DEF Gone
<1>5. {<<>>[j] : j \in 1..Len(<<>>)} = {}
  BY <1>2
<1>6. Len(<<>>) = Len(<<>>) - Gone(Len(<<>>))
  BY <1>2, <1>4
<1> QED
  BY <1>1, <1>2, <1>3, <1>5, <1>6 DEF CacheInv, Lru

\* Every step keeps the order of the cache.
LEMMA NextCache ==
  CacheInv /\ [Next]_vars => CacheInv'
<1> SUFFICES ASSUME CacheInv, [Next]_vars PROVE CacheInv'
  OBVIOUS
<1>1. CASE UNCHANGED readerVars
  BY <1>1 DEF readerVars, CacheInv
<1>2. CASE Reader!ReaderNext
  BY <1>2, ReaderKeeps
<1>3. ASSUME Encrypt PROVE UNCHANGED readerVars
  BY <1>3 DEF Encrypt
<1>4. ASSUME UNCHANGED vars PROVE UNCHANGED readerVars
  BY <1>4 DEF vars
<1> QED
  BY <1>1, <1>2, <1>3, <1>4 DEF Next

\* The cache holds the chunks that were used last, up to its limit, and evicts
\* them in the order of their use: for every limit, whatever the tables say,
\* however reads, failures and searches follow each other (lib.rs:191-232).
THEOREM CacheIsLru == Spec => []CacheIsMostRecent
<1>1. CacheInv => CacheIsMostRecent
  <2> SUFFICES ASSUME CacheInv PROVE
        /\ Reader!ToSet(cacheOrder) = DOMAIN cache
        /\ cacheOrder = SubSeq(used, Reader!Max({0, Len(used) - CacheMax}) + 1, Len(used))
    BY DEF CacheIsMostRecent, Reader!CacheIsMostRecent
  <2> DEFINE n == Len(used)
             m == Len(cacheOrder)
  <2>1. /\ Once(used) /\ Once(cacheOrder) /\ DOMAIN cache = {cacheOrder[j] : j \in 1..m}
        /\ m = n - Gone(n) /\ \A j \in 1..m : cacheOrder[j] = used[Gone(n) + j]
    BY DEF CacheInv, Lru
  <2>2. n \in Nat /\ m \in Nat /\ CacheMax \in Nat \ {0}
    BY <2>1, DiskImageAssumption, LenProperties DEF Once
  <2>3. Reader!ToSet(cacheOrder) = DOMAIN cache
    <3>1. DOMAIN cacheOrder = 1..m
      BY <2>1, LenProperties DEF Once
    <3> HIDE DEF m
    <3> QED
      BY <2>1, <3>1 DEF Reader!ToSet
  <2>4. Reader!Max({0, n - CacheMax}) = Gone(n) /\ Gone(n) \in Nat
    <3>1. PICK zero \in Int : zero = 0
      OBVIOUS
    <3>2. PICK v \in Int : v = n - CacheMax
      BY <2>2
    <3>3. Reader!Max({zero, v}) = IF zero >= v THEN zero ELSE v
      <4>1. Vf!Max({zero, v}) = IF zero >= v THEN zero ELSE v
        BY MaxOfTwo
      <4>2. Reader!Max({zero, v}) = Vf!Max({zero, v})
        BY DEF Reader!Max, Vf!Max
      <4> QED
        BY <4>1, <4>2
    <3> QED
      BY <2>2, <3>1, <3>2, <3>3 DEF Gone
  <2>5. cacheOrder = SubSeq(used, Gone(n) + 1, n)
    <3> DEFINE T == Range(used)
    <3>1. \A j \in 1..n : used[j] \in T
      BY <2>1, ElementOfSeq DEF Once
    <3>2. cacheOrder \in Seq(Range(cacheOrder))
      BY <2>1 DEF Once
    <3> HIDE DEF T, m, n
    <3>3. PICK lo \in Int, hi \in Int : lo = Gone(n) + 1 /\ hi = n
      BY <2>2, <2>4
    <3>4. \A j \in lo..hi : used[j] \in T
      BY <2>2, <2>4, <3>1, <3>3
    <3>5. /\ SubSeq(used, lo, hi) \in Seq(T)
          /\ Len(SubSeq(used, lo, hi)) = IF lo <= hi THEN hi - lo + 1 ELSE 0
          /\ \A j \in 1..hi - lo + 1 : SubSeq(used, lo, hi)[j] = used[lo + j - 1]
      BY <3>4, SubSeqProperties
    <3> DEFINE t == SubSeq(used, lo, hi)
    <3>6. Len(t) = m /\ \A j \in 1..m : t[j] = cacheOrder[j]
      <4>1. hi - lo + 1 = m /\ \A j \in 1..m : lo + j - 1 = Gone(n) + j
        BY <2>1, <2>2, <2>4, <3>3
      <4>2. Len(t) = m
        BY <2>2, <3>3, <3>5, <4>1
      <4> HIDE DEF t
      <4>3. \A j \in 1..m : t[j] = used[lo + j - 1]
        BY <3>5, <4>1 DEF t
      <4> QED
        BY <2>1, <4>1, <4>2, <4>3
    <3>7. t \in Seq(T)
      BY <3>5
    <3> HIDE DEF t
    <3>8. t = cacheOrder
      BY <3>2, <3>6, <3>7, SeqEqual DEF m
    <3> QED
      BY <3>3, <3>8 DEF t
  <2> QED
    BY <2>3, <2>4, <2>5
<1> QED
  BY <1>1, InitCache, NextCache, PTL DEF Spec

-----------------------------------------------------------------------------
(* Tables and what they say of a partition.                                *)

\* Bytes, and that a chunk has some of them that fill its part of the partition.
Solid == Nat \ {Hole}
Gives(d, c, part) == \E b \in Seq(Solid) : Holds(d, c, b) /\ Fills(b, c, part)

\* The data d is what a file f begins with.
Begins(d, f) == Len(d) <= Len(f) /\ \A i \in 1..Len(d) : f[i] = d[i]

\* The place of a chunk in numbers.
LEMMA PlaceOf ==
  ASSUME NEW c \in ChunkRecords
  PROVE  /\ From(c) \in Nat /\ Upto(c) \in Nat /\ From(c) <= Upto(c)
         /\ Upto(c) = From(c) + c.count * SectorSize /\ c.count * SectorSize \in Nat
         /\ c.count = 0 => Upto(c) = From(c)
<1> DEFINE a == c.sector
           b == c.count
           k == SectorSize
<1>1. a \in Nat /\ b \in Nat /\ k \in Nat
  BY Constants DEF ChunkRecords
<1> HIDE DEF a, b, k
<1>2. a * k \in Nat /\ b * k \in Nat /\ (a + b) * k = a * k + b * k /\ (b = 0 => b * k = 0)
  BY <1>1
<1>3. From(c) = a * k /\ Upto(c) = (a + b) * k
  BY DEF From, Upto, a, b, k
<1> QED
  BY <1>2, <1>3 DEF a, b, k

\* More data after it does not change what a chunk has.
LEMMA HoldsMore ==
  ASSUME NEW d, NEW f, Begins(d, f), Len(d) \in Nat, NEW c \in ChunkRecords, NEW b, Holds(d, c, b)
  PROVE  Holds(f, c, b)
<1>0. c.offset \in Nat /\ c.length \in Nat
  BY DEF ChunkRecords
<1>1. CASE c.kind \in {"zero", "ignore"} \/ c.kind \in {"comment", "term"}
  BY <1>1 DEF Holds
<1>2. ASSUME NEW j \in 1..c.length, c.offset + c.length <= Len(d)
      PROVE  f[c.offset + j] = d[c.offset + j] /\ c.offset + c.length <= Len(f)
  BY <1>0, <1>2 DEF Begins
<1>3. c.offset + c.length <= Len(d) => c.offset + c.length <= Len(f)
  BY <1>0 DEF Begins
<1>4. CASE c.kind = "raw"
  BY <1>2, <1>3, <1>4 DEF Holds
<1>5. CASE c.kind = "zlib"
  BY <1>2, <1>3, <1>5 DEF Holds
<1> QED
  BY <1>1, <1>4, <1>5 DEF Holds

\* Sequences with the same elements are the same.
LEMMA SameElements ==
  ASSUME NEW s, NEW t, NEW S, NEW T, s \in Seq(S), t \in Seq(T), Len(s) = Len(t),
         \A i \in 1..Len(s) : s[i] = t[i]
  PROVE  s = t
<1>1. Len(s) \in Nat /\ s = [i \in 1..Len(s) |-> s[i]] /\ t = [i \in 1..Len(t) |-> t[i]]
  BY LenProperties
<1> QED
  BY <1>1

\* A part of a sequence, from a on for n places.
LEMMA PartIs ==
  ASSUME NEW S, NEW s \in Seq(S), NEW a \in Nat, NEW n \in Nat, a + n <= Len(s)
  PROVE  /\ SubSeq(s, a + 1, a + n) \in Seq(S) /\ Len(SubSeq(s, a + 1, a + n)) = n
         /\ \A i \in 1..n : SubSeq(s, a + 1, a + n)[i] = s[a + i]
<1>1. Len(s) \in Nat
  BY LenProperties
<1> DEFINE m == a + 1
           b == a + n
<1>2. m \in Int /\ b \in Int /\ b - m + 1 = n /\ (IF m <= b THEN b - m + 1 ELSE 0) = n
  OBVIOUS
<1>3. \A i \in m..b : s[i] \in S
  <2> SUFFICES ASSUME NEW i \in m..b PROVE s[i] \in S
    OBVIOUS
  <2>1. i \in 1..Len(s)
    BY <1>1
  <2> QED
    BY <2>1, ElementOfSeq
<1>4. \A i \in 1..n : m + i - 1 = a + i
  OBVIOUS
<1> HIDE DEF m, b
<1>5. /\ SubSeq(s, m, b) \in Seq(S) /\ Len(SubSeq(s, m, b)) = n
      /\ \A i \in 1..n : SubSeq(s, m, b)[i] = s[m + i - 1]
  BY <1>2, <1>3, SubSeqProperties
<1>6. \A i \in 1..n : SubSeq(s, m, b)[i] = s[a + i]
  BY <1>4, <1>5
<1> QED
  BY <1>5, <1>6 DEF m, b

\* What is said of a chunk, whatever its bytes are taken from.
LEMMA ChunkOKIs ==
  ASSUME NEW d, NEW c \in ChunkRecords, NEW part \in Seq(Int)
  PROVE  ChunkOK(d, c, part) <=>
           /\ Upto(c) <= Len(part) /\ (c.kind = "term" => c.count = 0)
           /\ c.kind # "adc" => Gives(d, c, part)
<1> DEFINE a == From(c)
           m == c.count * SectorSize
           run(n) == SubSeq(part, a + 1, a + n)
<1>1. a \in Nat /\ m \in Nat /\ Upto(c) = a + m /\ Len(part) \in Nat
  BY PlaceOf, LenProperties
<1>2. ASSUME Upto(c) <= Len(part), NEW n \in 0..m, Holds(d, c, run(n)), Fills(run(n), c, part)
      PROVE  Gives(d, c, part)
  <2>1. n \in Nat /\ a + n <= Len(part)
    BY <1>1, <1>2
  <2> HIDE DEF a
  <2>2. run(n) \in Seq(Int) /\ Len(run(n)) = n
    BY <1>1, <2>1, PartIs
  <2>3. \A j \in 1..n : run(n)[j] \in Solid
    BY <1>2, <2>2 DEF Fills, Solid
  <2> DEFINE b == run(n)
  <2>4. b = [j \in 1..n |-> b[j]]
    BY <2>2, LenProperties
  <2> HIDE DEF run, b
  <2>5. b \in Seq(Solid)
    BY <2>1, <2>3, <2>4, IsASeq DEF b
  <2> QED
    BY <1>2, <2>5 DEF Gives, b
<1>3. ASSUME Upto(c) <= Len(part), NEW b \in Seq(Solid), Holds(d, c, b), Fills(b, c, part)
      PROVE  \E n \in 0..m : Holds(d, c, run(n)) /\ Fills(run(n), c, part)
  <2> DEFINE n == Len(b)
  <2>1. n \in Nat /\ a + n <= Upto(c) /\ \A j \in 1..n : part[a + j] = b[j]
    BY <1>3, LenProperties DEF Fills
  <2>2. n \in 0..m /\ a + n <= Len(part)
    BY <1>1, <1>3, <2>1
  <2> HIDE DEF a, n, m
  <2>3. run(n) \in Seq(Int) /\ Len(run(n)) = n /\ \A j \in 1..n : run(n)[j] = part[a + j]
    BY <1>1, <2>1, <2>2, PartIs
  <2>4. run(n) = b
    <3>1. \A j \in 1..n : run(n)[j] = b[j]
      BY <2>1, <2>3
    <3> HIDE DEF run
    <3> QED
      BY <1>3, <2>3, <3>1, SameElements DEF n
  <2> HIDE DEF run
  <2> QED
    BY <1>3, <2>2, <2>4
<1> HIDE DEF m
<1>4. ChunkOK(d, c, part) <=>
        /\ Upto(c) <= Len(part) /\ (c.kind = "term" => c.count = 0)
        /\ c.kind # "adc" => \E n \in 0..m : Holds(d, c, run(n)) /\ Fills(run(n), c, part)
  BY DEF ChunkOK, m
<1> HIDE DEF run
<1> QED
  BY <1>2, <1>3, <1>4 DEF Gives

\* The cells of a chunk are in the file as they are in its data.
LEMMA CellsAre ==
  ASSUME NEW f, NEW T, f \in Seq(T), f = Decrypted, NEW c \in ChunkRecords,
         c.offset + c.length <= Len(f)
  PROVE  /\ Reader!Cells(c) \in Seq(T) /\ Len(Reader!Cells(c)) = c.length
         /\ \A i \in 1..c.length : Reader!Cells(c)[i] = f[c.offset + i]
<1> DEFINE a == c.offset
           n == c.length
<1>1. a \in Nat /\ n \in Nat /\ Len(f) \in Nat
  BY LenProperties DEF ChunkRecords
<1>2. Vf!Min({Len(f), a + n}) = IF Len(f) <= a + n THEN Len(f) ELSE a + n
  BY <1>1, MinOfTwo
<1>3. Reader!Min({Len(f), a + n}) = Vf!Min({Len(f), a + n})
  BY DEF Reader!Min, Vf!Min
<1>4. Reader!Min({Len(f), a + n}) = a + n
  BY <1>1, <1>2, <1>3
<1>5. Reader!Cells(c) = SubSeq(f, a + 1, a + n)
  BY <1>4 DEF Reader!Cells
<1> HIDE DEF a, n
<1>6. a + n <= Len(f)
  BY DEF a, n
<1>7. /\ SubSeq(f, a + 1, a + n) \in Seq(T) /\ Len(SubSeq(f, a + 1, a + n)) = n
      /\ \A i \in 1..n : SubSeq(f, a + 1, a + n)[i] = f[a + i]
  BY <1>1, <1>6, PartIs
<1>8. /\ Reader!Cells(c) \in Seq(T) /\ Len(Reader!Cells(c)) = n
      /\ \A i \in 1..n : Reader!Cells(c)[i] = f[a + i]
  BY <1>5, <1>7
<1> QED
  BY <1>8 DEF a, n
\* The reader finds in a chunk what the chunk has.
LEMMA SectorIs ==
  ASSUME NEW d, Begins(d, Decrypted), Len(d) \in Nat, NEW T, Decrypted \in Seq(T),
         NEW c \in ChunkRecords, NEW b \in Seq(Solid), Holds(d, c, b)
  PROVE  Reader!Sector(c) = b /\ Reader!Loaded(c) = b /\ b # Reader!Err
<1>1. b # Reader!Err
  <2>1. ASSUME b = Reader!Err PROVE FALSE
    <3>1. Len(Reader!Err) = 1 /\ Reader!Err[1] = 0 - 2
      BY DEF Reader!Err
    <3>2. b[1] \in Solid
      <4>1. 1 \in 1..Len(b)
        BY <2>1, <3>1
      <4> QED
        BY <4>1, ElementOfSeq
    <3> QED
      BY <2>1, <3>1, <3>2 DEF Solid
  <2> QED
    BY <2>1
<1>2. c.offset \in Nat /\ c.length \in Nat /\ c.count \in Nat /\ SectorSize \in Nat /\ Len(b) \in Nat
  BY LenProperties, Constants DEF ChunkRecords
<1>3. Holds(Decrypted, c, b)
  BY HoldsMore
<1>4. CASE c.kind \in {"zero", "ignore"} /\ Len(b) = c.count * SectorSize /\ \A j \in 1..Len(b) : b[j] = 0
  <2>1. Reader!Sector(c) = Reader!Zeroes(c.count * SectorSize) /\ Reader!Loaded(c) = Reader!Sector(c)
    BY <1>4 DEF Reader!Sector, Reader!Loaded
  <2>2. Reader!Zeroes(c.count * SectorSize) = [i \in 1..Len(b) |-> 0]
    BY <1>4 DEF Reader!Zeroes
  <2>3. b = [i \in 1..Len(b) |-> b[i]]
    BY LenProperties
  <2>4. b = [i \in 1..Len(b) |-> 0]
    BY <1>4, <2>3
  <2> QED
    BY <1>1, <2>1, <2>2, <2>4
<1>5. CASE c.kind \in {"comment", "term"} /\ Len(b) = 0
  <2>1. Reader!Sector(c) = <<>> /\ Reader!Loaded(c) = Reader!Sector(c)
    BY <1>5 DEF Reader!Sector, Reader!Loaded
  <2>2. b = <<>>
    BY <1>5, EmptySeq
  <2> QED
    BY <1>1, <2>1, <2>2
<1>6. CASE /\ c.kind = "raw" /\ Len(b) = c.length /\ c.offset + c.length <= Len(Decrypted)
           /\ \A j \in 1..c.length : Decrypted[c.offset + j] = <<"raw", b[j]>>
  <2> DEFINE s == Reader!Cells(c)
  <2>1. /\ s \in Seq(T) /\ Len(s) = c.length
        /\ \A i \in 1..c.length : s[i] = Decrypted[c.offset + i]
    BY <1>6, CellsAre
  <2>2. Reader!Sector(c) = Reader!RawBytes(s) /\ Reader!Loaded(c) = Reader!Sector(c)
    BY <1>2, <1>6, <2>1 DEF Reader!Sector, Reader!Loaded
  <2>3. DOMAIN s = 1..Len(b)
    BY <1>6, <2>1, LenProperties
  <2>4. \A i \in 1..Len(b) : s[i][1] = "raw" /\ s[i][2] = b[i]
    <3> HIDE DEF s
    <3>1. \A i \in 1..Len(b) : s[i] = <<"raw", b[i]>>
      BY <1>6, <2>1
    <3> QED
      BY <3>1
  <2>5. Reader!RawBytes(s) = [i \in 1..Len(b) |-> b[i]]
    <3> HIDE DEF s
    <3> QED
      BY <2>3, <2>4 DEF Reader!RawBytes
  <2>6. b = [i \in 1..Len(b) |-> b[i]]
    BY LenProperties
  <2> QED
    BY <1>1, <2>2, <2>5, <2>6
<1>7. CASE /\ c.kind = "zlib" /\ c.length > 0 /\ c.offset + c.length <= Len(Decrypted)
           /\ \A j \in 1..c.length : Decrypted[c.offset + j] = <<"stream", b, j, c.length>>
  <2> DEFINE s == Reader!Cells(c)
             n == c.length
  <2>1. /\ s \in Seq(T) /\ Len(s) = n
        /\ \A i \in 1..n : s[i] = Decrypted[c.offset + i]
    BY <1>7, CellsAre
  <2>2. \A i \in 1..n : s[i] = <<"stream", b, i, n>>
    BY <1>7, <2>1
  <2>3. s = Reader!Stream(b, n)
    <3>1. s = [i \in 1..n |-> s[i]]
      BY <2>1, LenProperties
    <3> HIDE DEF s, n
    <3> QED
      BY <2>2, <3>1 DEF Reader!Stream
  <2>4. s[1][1] = "stream" /\ s[1][2] = b /\ s # <<>>
    <3>1. 1 \in 1..n
      BY <1>2, <1>7
    <3>2. s[1] = <<"stream", b, 1, n>>
      BY <2>2, <3>1
    <3>3. Len(s) # 0
      BY <1>7, <2>1
    <3>4. Len(<<>>) = 0
      OBVIOUS
    <3>5. s # <<>>
      BY <3>3, <3>4
    <3> QED
      BY <3>2, <3>5
  <2>5. Reader!IsStream(s)
    <3> HIDE DEF s, n
    <3> QED
      BY <2>1, <2>3, <2>4 DEF Reader!IsStream
  <2>6. Reader!Sector(c) = s[1][2] /\ Reader!Loaded(c) = Reader!Sector(c)
    BY <1>7, <2>5 DEF Reader!Sector, Reader!Loaded
  <2> QED
    BY <1>1, <2>4, <2>6
<1> QED
  BY <1>3, <1>4, <1>5, <1>6, <1>7 DEF Holds

-----------------------------------------------------------------------------
(* Tables as they are written.                                             *)

\* A sequence is the beginning of what comes of adding to it.
LEMMA AddedTo ==
  ASSUME NEW S, NEW s \in Seq(S), NEW t \in Seq(S)
  PROVE  /\ s \o t \in Seq(S) /\ Len(s \o t) = Len(s) + Len(t) /\ Begins(s, s \o t)
         /\ Len(s) \in Nat /\ Len(t) \in Nat
         /\ \A j \in 1..Len(t) : (s \o t)[Len(s) + j] = t[j]
<1>1. Len(s) \in Nat /\ Len(t) \in Nat
  BY LenProperties
<1>2. /\ s \o t \in Seq(S) /\ Len(s \o t) = Len(s) + Len(t)
      /\ \A i \in 1..Len(s) + Len(t) : (s \o t)[i] = IF i <= Len(s) THEN s[i] ELSE t[i - Len(s)]
  BY ConcatProperties
<1>3. Begins(s, s \o t)
  BY <1>1, <1>2 DEF Begins
<1>4. ASSUME NEW j \in 1..Len(t) PROVE (s \o t)[Len(s) + j] = t[j]
  <2>1. Len(s) + j \in 1..Len(s) + Len(t) /\ ~(Len(s) + j <= Len(s)) /\ Len(s) + j - Len(s) = j
    BY <1>1
  <2> QED
    BY <1>2, <2>1
<1> QED
  BY <1>1, <1>2, <1>3, <1>4

\* Beginnings of beginnings are beginnings.
LEMMA BeginsAll ==
  ASSUME NEW r, NEW s, NEW t, Begins(r, s), Begins(s, t), Len(r) \in Nat, Len(s) \in Nat, Len(t) \in Nat
  PROVE  Begins(r, t)
<1>1. \A i \in 1..Len(r) : i \in 1..Len(s)
  BY DEF Begins
<1> QED
  BY <1>1 DEF Begins

\* A chunk that is right stays so when data and partition go on.
LEMMA ChunkStays ==
  ASSUME NEW d, NEW f, Begins(d, f), Len(d) \in Nat, NEW c \in ChunkRecords,
         NEW part \in Seq(Int), NEW more \in Seq(Int), Begins(part, more), ChunkOK(d, c, part)
  PROVE  ChunkOK(f, c, more)
<1>1. /\ From(c) \in Nat /\ Upto(c) \in Nat /\ Upto(c) <= Len(part) /\ Len(part) <= Len(more)
      /\ \A p \in 1..Len(part) : more[p] = part[p]
      /\ c.kind = "term" => c.count = 0
      /\ Len(part) \in Nat /\ Len(more) \in Nat
  BY PlaceOf, LenProperties, ChunkOKIs DEF Begins
<1>2. ASSUME c.kind # "adc" PROVE Gives(f, c, more)
  <2>1. PICK b \in Seq(Solid) : Holds(d, c, b) /\ Fills(b, c, part)
    BY <1>2, ChunkOKIs DEF Gives
  <2>2. Holds(f, c, b)
    BY <2>1, HoldsMore
  <2>3. Len(b) \in Nat
    BY LenProperties
  <2> DEFINE x == From(c)
             y == Upto(c)
             n == Len(b)
  <2>4. /\ x + n <= y /\ \A j \in 1..n : part[x + j] = b[j] /\ b[j] \in Nat \ {Hole}
        /\ \A p \in x + n + 1..y : part[p] = Hole
    BY <2>1 DEF Fills
  <2>5. x \in Nat /\ y \in Nat /\ n \in Nat /\ y <= Len(part)
    BY <1>1, <2>3
  <2> HIDE DEF x, y, n
  <2>6. \A j \in 1..n : x + j \in 1..Len(part)
    BY <2>4, <2>5
  <2>7. \A p \in x + n + 1..y : p \in 1..Len(part)
    BY <2>4, <2>5
  <2>8. /\ x + n <= y /\ \A j \in 1..n : more[x + j] = b[j] /\ b[j] \in Nat \ {Hole}
        /\ \A p \in x + n + 1..y : more[p] = Hole
    BY <1>1, <2>4, <2>6, <2>7
  <2>9. Fills(b, c, more)
    BY <2>8 DEF Fills, x, y, n
  <2> QED
    BY <2>2, <2>9 DEF Gives
<1>3. Upto(c) <= Len(more)
  BY <1>1
<1> QED
  BY <1>1, <1>2, <1>3, ChunkOKIs

\* One more chunk, at the end of a table, and one more piece of the partition.
LEMMA OneMore ==
  ASSUME NEW d, NEW list, NEW part \in Seq(Int), Describes(d, list, part),
         NEW f, Begins(d, f), Len(d) \in Nat,
         NEW more \in Seq(Int), Begins(part, more),
         NEW c \in ChunkRecords, c.sector = Sectors(list), Len(more) = Upto(c),
         ChunkOK(f, c, more)
  PROVE  Describes(f, Append(list, c), more) /\ Sectors(Append(list, c)) = c.sector + c.count
<1> DEFINE l == Append(list, c)
           n == Len(list)
<1>1. /\ list \in Seq(ChunkRecords) /\ n \in Nat /\ DOMAIN list = 1..n
      /\ list = <<>> <=> n = 0
  <2>1. list \in Seq(ChunkRecords)
    BY DEF Describes
  <2> QED
    BY <2>1, LenProperties, EmptySeq
<1>2. l \in Seq(ChunkRecords) /\ Len(l) = n + 1 /\ \A i \in 1..n : l[i] = list[i]
  BY <1>1, AppendProperties
<1>3. l[n + 1] = c
  BY <1>1, AppendProperties
<1>4. Sectors(list) = IF n = 0 THEN 0 ELSE list[n].sector + list[n].count
  BY <1>1 DEF Sectors
<1> HIDE DEF l, n
<1>5. Sectors(l) = c.sector + c.count /\ DOMAIN l = 1..n + 1
  <2>1. DOMAIN l = 1..n + 1
    BY <1>2, LenProperties
  <2>2. l # <<>>
    <3>1. Len(l) # 0 /\ Len(<<>>) = 0
      BY <1>1, <1>2
    <3> QED
      BY <3>1
  <2> QED
    BY <1>1, <1>2, <1>3, <2>1, <2>2 DEF Sectors
<1>6. Len(more) = Sectors(l) * SectorSize
  BY <1>5 DEF Upto
<1>7. ASSUME NEW i \in 1..n + 1 PROVE Follows(l, i) /\ ChunkOK(f, l[i], more)
  <2>1. CASE i = n + 1
    <3>1. i = 1 => n = 0
      BY <1>1, <2>1
    <3>2. i # 1 => n # 0 /\ l[i - 1] = list[n]
      BY <1>1, <1>2, <2>1
    <3> QED
      BY <1>3, <1>4, <2>1, <3>1, <3>2 DEF Follows
  <2>2. CASE i # n + 1
    <3>1. i \in 1..n /\ (i # 1 => i - 1 \in 1..n)
      BY <1>1, <2>2
    <3>2. l[i] = list[i] /\ (i # 1 => l[i - 1] = list[i - 1])
      BY <1>2, <3>1
    <3>3. Follows(list, i) /\ ChunkOK(d, list[i], part)
      BY <1>1, <3>1 DEF Describes
    <3>4. list[i] \in ChunkRecords
      BY <1>1, <3>1, ElementOfSeq DEF n
    <3>5. ChunkOK(f, list[i], more)
      BY <1>1, <3>3, <3>4, ChunkStays
    <3> QED
      BY <3>2, <3>3, <3>5 DEF Follows
  <2> QED
    BY <2>1, <2>2
<1> QED
  BY <1>1, <1>2, <1>5, <1>6, <1>7 DEF Describes, l

\* What add_partition has made of the part of the partition it has taken.
Building(acc, part) ==
  /\ IsData(acc.w) /\ acc.offset = Len(acc.w)
  /\ acc.table.sectors = Sectors(acc.table.chunks)
  /\ part \in Seq(Int) /\ Describes(acc.w, acc.table.chunks, part)

\* A compressed piece is data, and more data after it is.
WithStream(d, bytes, n) == d \o Writer!Stream(bytes, n)

\* The cells of the piece follow those that were there.
LEMMA StreamIsData ==
  ASSUME NEW d, IsData(d), NEW bytes, NEW n \in Nat
  PROVE  /\ IsData(WithStream(d, bytes, n)) /\ Len(WithStream(d, bytes, n)) = Len(d) + n
         /\ Begins(d, WithStream(d, bytes, n)) /\ Len(d) \in Nat
         /\ \A j \in 1..n : WithStream(d, bytes, n)[Len(d) + j] = <<"stream", bytes, j, n>>
<1> DEFINE t == Writer!Stream(bytes, n)
           f == WithStream(d, bytes, n)
           S == Range(d) \cup Range(t)
<1>1. d \in Seq(Range(d)) /\ t \in Seq(Range(t))
  BY StreamIsSeq DEF IsData
<1>2. Len(t) = n /\ \A j \in 1..n : t[j] = <<"stream", bytes, j, n>>
  <2>1. t = [j \in 1..n |-> <<"stream", bytes, j, n>>]
    BY DEF Writer!Stream
  <2>2. DOMAIN t = 1..n /\ \A j \in 1..n : t[j] = <<"stream", bytes, j, n>>
    <3> HIDE DEF t
    <3> QED
      BY <2>1
  <2>3. DOMAIN t = 1..Len(t) /\ Len(t) \in Nat
    BY <1>1, LenProperties
  <2> HIDE DEF t
  <2> QED
    BY <2>2, <2>3
<1> HIDE DEF t
<1>3. d \in Seq(S) /\ t \in Seq(S)
  <2>1. Range(d) \subseteq S /\ Range(t) \subseteq S
    OBVIOUS
  <2> HIDE DEF S
  <2> QED
    BY <1>1, <2>1, SeqMonotonic
<1> HIDE DEF S
<1>0. f = d \o t
  BY DEF WithStream, t
<1> HIDE DEF f
<1>4. /\ Len(f) = Len(d) + Len(t) /\ Begins(d, f) /\ Len(d) \in Nat
      /\ \A j \in 1..Len(t) : f[Len(d) + j] = t[j]
  BY <1>0, <1>3, AddedTo
<1>5. f \in Seq(Range(f))
  BY <1>0, <1>1, ConcatIsSeq
<1>6. \A j \in 1..n : f[Len(d) + j] = <<"stream", bytes, j, n>>
  BY <1>2, <1>4
<1>7. ASSUME NEW i \in 1..Len(f) PROVE f[i][1] \in {"raw", "stream"}
  <2>1. CASE i <= Len(d)
    <3>1. i \in DOMAIN d /\ f[i] = d[i]
      BY <1>1, <1>4, <2>1, LenProperties DEF Begins
    <3> QED
      BY <3>1 DEF IsData
  <2>2. CASE ~(i <= Len(d))
    <3>1. PICK j \in 1..n : i = Len(d) + j
      <4>1. i - Len(d) \in 1..n /\ i = Len(d) + (i - Len(d))
        BY <1>2, <1>4, <2>2
      <4> QED
        BY <4>1
    <3>2. f[i] = <<"stream", bytes, j, n>>
      BY <1>6, <3>1
    <3> QED
      BY <3>2
  <2> QED
    BY <2>1, <2>2
<1>8. DOMAIN f = 1..Len(f)
  BY <1>5, LenProperties
<1> QED
  BY <1>2, <1>4, <1>5, <1>6, <1>7, <1>8 DEF IsData, f

\* A piece is compressed, written and entered into the table.
LEMMA AddPieceOK ==
  ASSUME NEW acc, NEW part, Building(acc, part),
         NEW piece \in Seq(Solid), NEW e \in Nat, Len(piece) = e * SectorSize,
         NEW length \in Nat \ {0}
  PROVE  LET next == Writer!AddPiece(acc, piece, length)
         IN  /\ Building(next, part \o piece) /\ Begins(acc.w, next.w)
             /\ Len(acc.w) \in Nat /\ Len(next.w) \in Nat
<1> DEFINE d == acc.w
           list == acc.table.chunks
           f == WithStream(d, piece, length)
           k == SectorSize
           sectors == Len(piece) \div k
           c == [kind |-> "zlib", sector |-> Sectors(list), count |-> e, offset |-> Len(d),
                 length |-> length]
           more == part \o piece
           next == Writer!AddPiece(acc, piece, length)
<1>1. /\ IsData(d) /\ acc.offset = Len(d) /\ acc.table.sectors = Sectors(list)
      /\ part \in Seq(Int) /\ Describes(d, list, part)
  BY DEF Building
<1>2. sectors = e
  <2>1. k \in Nat \ {0}
    BY Constants
  <2>2. e * k = k * e + 0 /\ 0 \in 0..k - 1
    BY <2>1
  <2>3. Len(piece) = k * e + 0
    BY <2>2
  <2> HIDE DEF k
  <2>4. (k * e + 0) \div k = e
    BY <2>1, <2>2, MultipleOf
  <2> QED
    BY <2>3, <2>4
<1> HIDE DEF sectors
<1>3. /\ IsData(f) /\ Len(f) = Len(d) + length /\ Begins(d, f) /\ Len(d) \in Nat
      /\ \A j \in 1..length : f[Len(d) + j] = <<"stream", piece, j, length>>
  <2>1. length \in Nat
    OBVIOUS
  <2> HIDE DEF d
  <2> QED
    BY <1>1, <2>1, StreamIsData
<1>4. /\ next.w = f /\ next.offset = Len(d) + length
      /\ next.table = [sectors |-> Sectors(list) + e, chunks |-> Append(list, c)]
  <2>1. Writer!Chunk("zlib", acc.sector, sectors, acc.offset, length)
          = [kind |-> "zlib", sector |-> acc.sector, count |-> e, offset |-> Len(d), length |-> length]
    BY <1>1, <1>2 DEF Writer!Chunk
  <2> DEFINE c0 == Writer!Chunk("zlib", acc.sector, sectors, acc.offset, length)
  <2>2. [c0 EXCEPT !.sector = Sectors(list)] = c /\ c0.count = e
    <3> HIDE DEF c0, list
    <3> QED
      BY <2>1 DEF c0
  <2>3. Writer!AddChunk(acc.table, c0) = [sectors |-> Sectors(list) + e, chunks |-> Append(list, c)]
    BY <1>1, <2>2 DEF Writer!AddChunk
  <2>4. next.w = f /\ next.offset = acc.offset + length /\ next.table = Writer!AddChunk(acc.table, c0)
    BY DEF Writer!AddPiece, WithStream, sectors
  <2> QED
    BY <1>1, <2>3, <2>4
<1>5. /\ list \in Seq(ChunkRecords) /\ Len(part) = Sectors(list) * k /\ part \in Seq(Int)
      /\ list = <<>> <=> Len(list) = 0
  <2>1. list \in Seq(ChunkRecords) /\ Len(part) = Sectors(list) * k /\ part \in Seq(Int)
    BY <1>1 DEF Describes
  <2> HIDE DEF list
  <2> QED
    BY <2>1, EmptySeq
<1>6. Sectors(list) \in Nat
  <2>1. Len(list) \in Nat
    BY <1>5, LenProperties
  <2>2. Len(list) # 0 => list[Len(list)] \in ChunkRecords
    <3>1. Len(list) # 0 => Len(list) \in 1..Len(list)
      BY <2>1
    <3> QED
      BY <1>5, <3>1, ElementOfSeq
  <2> HIDE DEF list
  <2> QED
    BY <1>5, <2>2 DEF Sectors, ChunkRecords
<1>7. c \in ChunkRecords /\ c.sector = Sectors(list)
  <2>1. "zlib" \in Writer!Kinds
    BY DEF Writer!Kinds
  <2> QED
    BY <1>3, <1>6, <2>1 DEF ChunkRecords
<1>8. piece \in Seq(Int)
  BY SeqMonotonic DEF Solid
<1>9. /\ more \in Seq(Int) /\ Len(more) = Len(part) + Len(piece) /\ Begins(part, more)
      /\ Len(part) \in Nat /\ Len(piece) \in Nat
      /\ \A j \in 1..Len(piece) : more[Len(part) + j] = piece[j]
  BY <1>5, <1>8, AddedTo, ZenonT(40)
<1>10. From(c) = Len(part) /\ Upto(c) = Len(part) + Len(piece)
  <2>1. From(c) = Sectors(list) * k /\ Upto(c) = From(c) + e * k
    BY <1>7, PlaceOf DEF From
  <2> QED
    BY <1>5, <2>1
<1>11. ChunkOK(f, c, more)
  <2>1. Holds(f, c, piece)
    <3>1. c.kind = "zlib" /\ c.length = length /\ c.offset = Len(d) /\ length > 0
      OBVIOUS
    <3>2. length \in Nat /\ Len(d) \in Nat
      BY <1>3
    <3>3. \A j \in 1..c.length : f[c.offset + j] = <<"stream", piece, j, c.length>>
      BY <1>3, <3>1
    <3>4. c.offset + c.length <= Len(f)
      BY <1>3, <3>1, <3>2
    <3> HIDE DEF c, f
    <3> QED
      BY <3>1, <3>3, <3>4 DEF Holds
  <2>2. Fills(piece, c, more)
    <3> HIDE DEF c, more
    <3>1. From(c) + Len(piece) <= Upto(c) /\ From(c) + Len(piece) + 1..Upto(c) = {}
      BY <1>9, <1>10
    <3>2. \A j \in 1..Len(piece) : piece[j] \in Nat \ {Hole}
      BY ElementOfSeq DEF Solid
    <3> QED
      BY <1>9, <1>10, <3>1, <3>2 DEF Fills
  <2>3. Upto(c) <= Len(more)
    BY <1>9, <1>10
  <2>4. c.kind # "term"
    OBVIOUS
  <2> HIDE DEF c, f, more
  <2> QED
    BY <1>7, <1>9, <2>1, <2>2, <2>3, <2>4, ChunkOKIs DEF Gives
<1>12. Describes(f, Append(list, c), more) /\ Sectors(Append(list, c)) = Sectors(list) + e
  <2>1. Len(more) = Upto(c) /\ c.count = e
    BY <1>9, <1>10
  <2> HIDE DEF c, f, more, list, d
  <2> QED
    BY <1>1, <1>3, <1>7, <1>9, <1>11, <2>1, OneMore
<1> HIDE DEF f, c, more, list, d
<1>13. next.table.sectors = Sectors(list) + e /\ next.table.chunks = Append(list, c)
  BY <1>4
<1>14. Building(next, more)
  BY <1>3, <1>4, <1>9, <1>12, <1>13 DEF Building
<1>15. Len(f) \in Nat
  BY <1>3
<1> QED
  BY <1>3, <1>4, <1>14, <1>15 DEF d, more

-----------------------------------------------------------------------------
(* A partition is written piece by piece.                                  *)

\* What can be written, and how much of it is taken with its first i pieces.
ToWrite(part) == part \in Seq(Solid) /\ Len(part) % SectorSize = 0
PieceLen == ChunkSectors * SectorSize
Cut(part, i) == IF i * PieceLen <= Len(part) THEN i * PieceLen ELSE Len(part)
Taken(part, i) == SubSeq(part, 1, Cut(part, i))

\* The pieces of a partition are enough for it, and each of them has something.
LEMMA PieceCount ==
  ASSUME NEW part \in Seq(Solid)
  PROVE  /\ Writer!NumPieces(part) \in Nat /\ PieceLen \in Nat \ {0} /\ Len(part) \in Nat
         /\ Len(part) <= Writer!NumPieces(part) * PieceLen
         /\ \A i \in 0..Writer!NumPieces(part) - 1 : i * PieceLen < Len(part)
<1> DEFINE L == Len(part)
           n == PieceLen
           m == L + n - 1
           q == m \div n
<1>1. L \in Nat
  BY LenProperties
<1>2. n \in Nat \ {0}
  <2>1. PICK a \in Nat \ {0}, b \in Nat \ {0} : a = ChunkSectors /\ b = SectorSize
    BY Constants
  <2>2. a * b \in Nat \ {0}
    OBVIOUS
  <2> QED
    BY <2>1, <2>2 DEF PieceLen
<1>3. Writer!NumPieces(part) = q
  BY DEF Writer!NumPieces, PieceLen
<1> HIDE DEF n, L
<1>4. m \in Nat /\ m \in Int
  BY <1>1, <1>2
<1>5. q \in Nat /\ m % n \in 0..n - 1 /\ m = n * q + (m % n)
  <2> HIDE DEF m
  <2> QED
    BY <1>2, <1>4, DivMod
<1> HIDE DEF q
<1>6. n * q \in Nat /\ q * n = n * q
  BY <1>2, <1>5
<1>7. L <= q * n
  BY <1>1, <1>2, <1>4, <1>5, <1>6
<1>8. ASSUME NEW i \in 0..q - 1 PROVE i * n < L
  <2>1. i \in Nat /\ i + 1 <= q
    BY <1>5
  <2>2. (i + 1) * n <= q * n /\ (i + 1) * n = i * n + n /\ i * n \in Nat
    BY <1>2, <1>5, <2>1
  <2> QED
    BY <1>1, <1>2, <1>5, <1>6, <2>2
<1> QED
  BY <1>1, <1>2, <1>3, <1>5, <1>7, <1>8 DEF n, L

\* The parts of a sequence up to a and from there up to b are the part up to b.
LEMMA PartsMeet ==
  ASSUME NEW S, NEW s \in Seq(S), NEW a \in Nat, NEW b \in Nat, a <= b, b <= Len(s)
  PROVE  /\ SubSeq(s, 1, a) \o SubSeq(s, a + 1, b) = SubSeq(s, 1, b)
         /\ SubSeq(s, 1, a) \in Seq(S) /\ Len(SubSeq(s, 1, a)) = a
         /\ SubSeq(s, a + 1, b) \in Seq(S) /\ Len(SubSeq(s, a + 1, b)) = b - a
<1>1. PICK n \in Nat : b = a + n
  <2>1. b - a \in Nat /\ b = a + (b - a)
    OBVIOUS
  <2> QED
    BY <2>1
<1>2. 0 \in Nat /\ 0 + 1 = 1 /\ 0 + a = a /\ 0 + b = b /\ 0 + a <= Len(s) /\ Len(s) \in Nat
  BY LenProperties
<1> DEFINE x == SubSeq(s, 1, a)
           y == SubSeq(s, a + 1, b)
           z == SubSeq(s, 1, b)
<1>3. x \in Seq(S) /\ Len(x) = a /\ \A i \in 1..a : x[i] = s[i]
  <2>1. PICK o \in Nat : o = 0
    OBVIOUS
  <2>2. /\ SubSeq(s, o + 1, o + a) \in Seq(S) /\ Len(SubSeq(s, o + 1, o + a)) = a
        /\ \A i \in 1..a : SubSeq(s, o + 1, o + a)[i] = s[o + i]
    <3>1. o + a <= Len(s)
      BY <1>2, <2>1
    <3> QED
      BY <3>1, PartIs
  <2>3. o + 1 = 1 /\ o + a = a /\ \A i \in 1..a : o + i = i
    BY <2>1
  <2> QED
    BY <2>2, <2>3
<1>4. y \in Seq(S) /\ Len(y) = n /\ \A i \in 1..n : y[i] = s[a + i]
  <2>1. a + n <= Len(s)
    BY <1>1
  <2>2. /\ SubSeq(s, a + 1, a + n) \in Seq(S) /\ Len(SubSeq(s, a + 1, a + n)) = n
        /\ \A i \in 1..n : SubSeq(s, a + 1, a + n)[i] = s[a + i]
    BY <2>1, PartIs
  <2> QED
    BY <1>1, <2>2
<1>5. z \in Seq(S) /\ Len(z) = b /\ \A i \in 1..b : z[i] = s[i]
  <2>1. PICK o \in Nat : o = 0
    OBVIOUS
  <2>2. /\ SubSeq(s, o + 1, o + b) \in Seq(S) /\ Len(SubSeq(s, o + 1, o + b)) = b
        /\ \A i \in 1..b : SubSeq(s, o + 1, o + b)[i] = s[o + i]
    <3>1. o + b <= Len(s)
      BY <1>2, <2>1
    <3> QED
      BY <3>1, PartIs
  <2>3. o + 1 = 1 /\ o + b = b /\ \A i \in 1..b : o + i = i
    BY <2>1
  <2> QED
    BY <2>2, <2>3
<1> HIDE DEF x, y, z
<1>6. /\ x \o y \in Seq(S) /\ Len(x \o y) = a + n
      /\ \A i \in 1..a + n : (x \o y)[i] = IF i <= a THEN x[i] ELSE y[i - a]
  BY <1>3, <1>4, ConcatProperties, ZenonT(40)
<1>7. \A i \in 1..a + n : (x \o y)[i] = z[i]
  <2> SUFFICES ASSUME NEW i \in 1..a + n PROVE (x \o y)[i] = z[i]
    OBVIOUS
  <2>1. CASE i <= a
    <3>1. i \in 1..a /\ i \in 1..b
      BY <1>1, <2>1
    <3> QED
      BY <1>3, <1>5, <1>6, <2>1, <3>1
  <2>2. CASE ~(i <= a)
    <3>1. i - a \in 1..n /\ a + (i - a) = i /\ i \in 1..b
      BY <1>1, <2>2
    <3> QED
      BY <1>4, <1>5, <1>6, <2>2, <3>1
  <2> QED
    BY <2>1, <2>2
<1>8. x \o y = z
  BY <1>1, <1>5, <1>6, <1>7, SameElements
<1>9. n = b - a
  BY <1>1
<1> QED
  BY <1>3, <1>4, <1>8, <1>9 DEF x, y, z

\* A piece of a partition is whole sectors that come after what is taken.
LEMMA PieceIs ==
  ASSUME NEW part, ToWrite(part), NEW i \in 1..Writer!NumPieces(part)
  PROVE  /\ Writer!Piece(part, i) \in Seq(Solid)
         /\ \E e \in Nat : Len(Writer!Piece(part, i)) = e * SectorSize
         /\ Taken(part, i - 1) \o Writer!Piece(part, i) = Taken(part, i)
<1> DEFINE L == Len(part)
           n == PieceLen
           N == Writer!NumPieces(part)
           k == SectorSize
           a == (i - 1) * n
           b == Cut(part, i)
<1>1. /\ N \in Nat /\ n \in Nat \ {0} /\ L \in Nat /\ L <= N * n
      /\ \A j \in 0..N - 1 : j * n < L
  BY PieceCount DEF ToWrite
<1>2. k \in Nat \ {0} /\ ChunkSectors \in Nat \ {0} /\ n = ChunkSectors * k
  BY Constants DEF PieceLen
<1>3. PICK e \in Nat : L = k * e
  <2>1. L % k = 0
    BY DEF ToWrite
  <2> HIDE DEF L, k
  <2>2. L \in Int /\ L \in Nat
    BY <1>1
  <2>3. L \div k \in Nat /\ L = k * (L \div k) + (L % k)
    BY <1>2, <2>2, DivMod
  <2>4. PICK e \in Nat : e = L \div k
    BY <2>3
  <2>5. L = k * e
    BY <1>2, <2>1, <2>2, <2>3, <2>4
  <2> QED
    BY <2>5
<1>4. part \in Seq(Solid)
  BY DEF ToWrite
<1> HIDE DEF N, n, L, k
<1>5. i - 1 \in 0..N - 1 /\ i - 1 \in Nat /\ i \in Nat
  BY <1>1 DEF N
<1>6. a \in Nat /\ a < L /\ i * n = a + n /\ i * n \in Nat
  BY <1>1, <1>2, <1>5
<1>7. b = (IF i * n <= L THEN i * n ELSE L) /\ b \in Nat /\ a <= b /\ b <= L
  <2>1. b = (IF i * n <= L THEN i * n ELSE L)
    BY DEF Cut, n, L
  <2> HIDE DEF b, a
  <2> QED
    BY <1>1, <1>2, <1>6, <2>1
<1>8. Cut(part, i - 1) = a
  BY <1>1, <1>6 DEF Cut, n, L
<1>9. Writer!Piece(part, i) = SubSeq(part, a + 1, b)
  <2>1. Writer!Min({i * n, L}) = b
    <3>1. PICK u \in Int, v \in Int : u = i * n /\ v = L
      BY <1>1, <1>6
    <3>2. Vf!Min({u, v}) = IF u <= v THEN u ELSE v
      BY MinOfTwo
    <3>3. Writer!Min({u, v}) = Vf!Min({u, v})
      BY DEF Writer!Min, Vf!Min
    <3> QED
      BY <1>7, <3>1, <3>2, <3>3
  <2> QED
    BY <2>1 DEF Writer!Piece, n, L, PieceLen
<1> HIDE DEF a, b
<1>10. /\ SubSeq(part, 1, a) \o SubSeq(part, a + 1, b) = SubSeq(part, 1, b)
       /\ SubSeq(part, a + 1, b) \in Seq(Solid) /\ Len(SubSeq(part, a + 1, b)) = b - a
  BY <1>4, <1>6, <1>7, PartsMeet DEF L
<1>11. \E f \in Nat : b - a = f * k
  <2> DEFINE c == (i - 1) * ChunkSectors
  <2>1. c \in Nat /\ a = c * k
    BY <1>2, <1>5 DEF a
  <2>2. PICK u \in Nat : b = u * k
    <3>1. CASE i * n <= L
      <4>1. i * ChunkSectors \in Nat /\ i * n = (i * ChunkSectors) * k
        BY <1>2, <1>5
      <4> QED
        BY <1>7, <3>1, <4>1
    <3>2. CASE ~(i * n <= L)
      <4>1. k * e = e * k
        BY <1>2
      <4> QED
        BY <1>3, <1>7, <3>2, <4>1
    <3> QED
      BY <3>1, <3>2
  <2> HIDE DEF c
  <2>3. c <= u
    <3>1. c * k <= u * k
      BY <1>7, <2>1, <2>2
    <3> QED
      BY <1>2, <2>1, <3>1
  <2>4. u - c \in Nat /\ (u - c) * k = u * k - c * k
    BY <1>2, <2>1, <2>3
  <2> QED
    BY <2>1, <2>2, <2>4
<1> QED
  BY <1>8, <1>9, <1>10, <1>11 DEF Taken, b, k
\* All the pieces of a partition, written: the table so far gives the partition.
LEMMA PiecesOK ==
  ASSUME IsData(w), compressedOffset = Len(w), NEW part, ToWrite(part),
         NEW lens \in [1..Writer!NumPieces(part) -> 1..MaxStream],
         NEW end, end = Writer!Pieces(part, lens)
  PROVE  Building(end, part) /\ Begins(w, end.w) /\ Len(w) \in Nat /\ Len(end.w) \in Nat
<1> DEFINE N == Writer!NumPieces(part)
<1>1. /\ N \in Nat /\ PieceLen \in Nat \ {0} /\ Len(part) \in Nat /\ part \in Seq(Solid)
      /\ Len(part) <= N * PieceLen
  BY PieceCount DEF ToWrite
<1>2. PICK after :
         /\ end = after[N]
         /\ after[0] = [w |-> w, sector |-> sectorNumber, offset |-> compressedOffset,
                        table |-> Writer!EmptyTable]
         /\ \A i \in 1..N : after[i] = Writer!AddPiece(after[i - 1], Writer!Piece(part, i), lens[i])
  BY <1>1, PiecesLoop, SMTT(20)
<1>3. Len(w) \in Nat
  BY LenProperties DEF IsData
<1>4. \A i \in 1..N : lens[i] \in Nat \ {0}
  BY Constants
<1>5. Taken(part, 0) = <<>> /\ Taken(part, N) = part
  <2>1. 0 * PieceLen = 0 /\ (IF 0 * PieceLen <= Len(part) THEN 0 * PieceLen ELSE Len(part)) = 0
    BY <1>1
  <2>2. Cut(part, 0) = 0 /\ Cut(part, N) = Len(part)
    <3>1. N * PieceLen \in Nat
      BY <1>1
    <3> HIDE DEF N
    <3> QED
      BY <1>1, <2>1, <3>1 DEF Cut
  <2>3. SubSeq(part, 1, 0) = <<>> /\ SubSeq(part, 1, Len(part)) = part
    <3>1. PICK o \in Nat, L \in Nat : o = 0 /\ L = Len(part)
      BY <1>1
    <3>2. SubSeq(part, 1, o) \in Seq(Solid) /\ Len(SubSeq(part, 1, o)) = 0
      BY <1>1, <3>1, PartsMeet
    <3>3. SubSeq(part, o + 1, o + L) \in Seq(Solid) /\ Len(SubSeq(part, o + 1, o + L)) = L
          /\ \A i \in 1..L : SubSeq(part, o + 1, o + L)[i] = part[o + i]
      <4>1. o + L <= Len(part)
        BY <3>1
      <4> QED
        BY <1>1, <4>1, PartIs
    <3>4. o + 1 = 1 /\ o + L = Len(part) /\ \A i \in 1..L : o + i = i
      BY <3>1
    <3>5. SubSeq(part, o + 1, o + L) = part
      <4> DEFINE s == SubSeq(part, o + 1, o + L)
      <4>1. s \in Seq(Solid) /\ Len(s) = Len(part) /\ \A i \in 1..Len(s) : s[i] = part[i]
        BY <3>1, <3>3, <3>4
      <4> HIDE DEF s
      <4>2. s = part
        BY <1>1, <4>1, SameElements
      <4> QED
        BY <4>2 DEF s
    <3> QED
      BY <3>1, <3>2, <3>4, <3>5, EmptySeq
  <2> QED
    BY <2>2, <2>3 DEF Taken
<1> HIDE DEF N
<1> DEFINE Right(i) == /\ Building(after[i], Taken(part, i)) /\ Begins(w, after[i].w)
                       /\ Len(after[i].w) \in Nat
<1>6. Right(0)
  <2> DEFINE acc == after[0]
  <2>1. acc.w = w /\ acc.offset = Len(w) /\ acc.table = Writer!EmptyTable
    BY <1>2
  <2>2. acc.table.sectors = 0 /\ acc.table.chunks = <<>>
    BY <2>1 DEF Writer!EmptyTable
  <2> HIDE DEF acc
  <2>3. Describes(w, <<>>, <<>>) /\ Sectors(<<>>) = 0 /\ <<>> \in Seq(Int)
    <3>1. Sectors(<<>>) = 0
      BY DEF Sectors
    <3>2. 0 * SectorSize = 0
      BY Constants
    <3>3. <<>> \in Seq(ChunkRecords) /\ Len(<<>>) = 0 /\ DOMAIN <<>> = {} /\ <<>> \in Seq(Int)
      OBVIOUS
    <3> QED
      BY <3>1, <3>2, <3>3 DEF Describes
  <2>4. Begins(w, w)
    BY <1>3 DEF Begins
  <2> QED
    BY <1>3, <1>5, <2>1, <2>2, <2>3, <2>4 DEF Building, acc
<1>7. ASSUME NEW i \in 1..N, Right(i - 1) PROVE Right(i)
  <2>1. PICK acc, piece, length :
          acc = after[i - 1] /\ piece = Writer!Piece(part, i) /\ length = lens[i]
    OBVIOUS
  <2>2. PICK sofar : sofar = Taken(part, i - 1)
    OBVIOUS
  <2>3. /\ piece \in Seq(Solid) /\ \E e \in Nat : Len(piece) = e * SectorSize
        /\ sofar \o piece = Taken(part, i)
    BY <2>1, <2>2, PieceIs DEF N
  <2>4. PICK e \in Nat : Len(piece) = e * SectorSize
    BY <2>3
  <2>5. length \in Nat \ {0} /\ Building(acc, sofar)
    BY <1>4, <1>7, <2>1, <2>2
  <2>6. PICK next : next = Writer!AddPiece(acc, piece, length)
    OBVIOUS
  <2>7. /\ Building(next, sofar \o piece) /\ Begins(acc.w, next.w)
        /\ Len(acc.w) \in Nat /\ Len(next.w) \in Nat
    BY <2>3, <2>4, <2>5, <2>6, AddPieceOK
  <2>8. next = after[i]
    BY <1>2, <2>1, <2>6
  <2>9. Begins(w, acc.w)
    BY <1>7, <2>1
  <2>10. Begins(w, next.w)
    BY <1>3, <2>7, <2>9, BeginsAll
  <2> QED
    BY <2>3, <2>7, <2>8, <2>10
<1> HIDE DEF Right
<1> DEFINE Bad == {i \in Nat : i <= N /\ ~Right(i)}
<1>8. Bad = {}
  <2> SUFFICES ASSUME Bad # {} PROVE FALSE
    OBVIOUS
  <2>1. PICK n \in Bad : \A k \in Bad : n <= k
    <3>1. Bad \in SUBSET Nat
      OBVIOUS
    <3> HIDE DEF Bad
    <3> QED
      BY <3>1, LeastIn
  <2>2. n \in Nat /\ n <= N /\ ~Right(n)
    OBVIOUS
  <2>3. n # 0
    BY <1>6, <2>2
  <2>4. n \in 1..N /\ n - 1 \in Nat /\ n - 1 <= N
    BY <1>1, <2>2, <2>3
  <2>5. n - 1 \notin Bad
    <3> HIDE DEF Bad
    <3> QED
      BY <2>1, <2>2
  <2>6. Right(n - 1)
    BY <2>4, <2>5
  <2> QED
    BY <1>7, <2>2, <2>4, <2>6
<1>9. Right(N)
  BY <1>1, <1>8
<1> QED
  BY <1>2, <1>3, <1>5, <1>9 DEF Right

\* What a table says goes on being so as the file goes on.
LEMMA DescribesMore ==
  ASSUME NEW d, NEW f, Begins(d, f), Len(d) \in Nat,
         NEW list, NEW part \in Seq(Int), Describes(d, list, part)
  PROVE  Describes(f, list, part)
<1>1. list \in Seq(ChunkRecords) /\ \A i \in DOMAIN list : list[i] \in ChunkRecords
  <2>1. list \in Seq(ChunkRecords)
    BY DEF Describes
  <2>2. DOMAIN list = 1..Len(list)
    BY <2>1, LenProperties
  <2> QED
    BY <2>1, <2>2, ElementOfSeq
<1>2. Begins(part, part)
  BY LenProperties DEF Begins
<1>3. ASSUME NEW i \in DOMAIN list PROVE ChunkOK(f, list[i], part)
  <2>1. ChunkOK(d, list[i], part)
    BY DEF Describes
  <2> QED
    BY <1>1, <1>2, <2>1, ChunkStays
<1> QED
  BY <1>3 DEF Describes
\* The last chunk of a table has nothing.
LEMMA TermOK ==
  ASSUME NEW acc, NEW part, Building(acc, part), NEW sector,
         NEW table, table = Writer!AddChunk(acc.table, Writer!Chunk("term", sector, 0, acc.offset, 0))
  PROVE  Describes(acc.w, table.chunks, part)
<1> DEFINE d == acc.w
           list == acc.table.chunks
           c == [kind |-> "term", sector |-> Sectors(list), count |-> 0, offset |-> Len(d),
                 length |-> 0]
<1>1. /\ IsData(d) /\ acc.offset = Len(d) /\ acc.table.sectors = Sectors(list)
      /\ part \in Seq(Int) /\ Describes(d, list, part)
  BY DEF Building
<1>2. table.chunks = Append(list, c)
  <2> DEFINE c0 == Writer!Chunk("term", sector, 0, acc.offset, 0)
  <2>1. c0 = [kind |-> "term", sector |-> sector, count |-> 0, offset |-> Len(d), length |-> 0]
    BY <1>1 DEF Writer!Chunk
  <2>2. [c0 EXCEPT !.sector = Sectors(list)] = c
    <3> HIDE DEF c0, list
    <3> QED
      BY <2>1
  <2> QED
    BY <1>1, <2>2 DEF Writer!AddChunk
<1> HIDE DEF d, list
<1>3. /\ list \in Seq(ChunkRecords) /\ Len(part) = Sectors(list) * SectorSize
      /\ list = <<>> <=> Len(list) = 0
  <2>1. list \in Seq(ChunkRecords) /\ Len(part) = Sectors(list) * SectorSize
    BY <1>1 DEF Describes
  <2> QED
    BY <2>1, EmptySeq
<1>4. Sectors(list) \in Nat
  <2>1. Len(list) \in Nat
    BY <1>3, LenProperties
  <2>2. Len(list) # 0 => list[Len(list)] \in ChunkRecords
    <3>1. Len(list) # 0 => Len(list) \in 1..Len(list)
      BY <2>1
    <3> QED
      BY <1>3, <3>1, ElementOfSeq
  <2> QED
    BY <1>3, <2>2 DEF Sectors, ChunkRecords
<1>5. Len(d) \in Nat /\ Begins(d, d) /\ Len(part) \in Nat /\ Begins(part, part)
  BY <1>1, LenProperties DEF IsData, Begins
<1>6. c \in ChunkRecords /\ c.sector = Sectors(list) /\ c.kind = "term" /\ c.count = 0
  <2>1. "term" \in Writer!Kinds
    BY DEF Writer!Kinds
  <2> QED
    BY <1>4, <1>5, <2>1 DEF ChunkRecords
<1>7. From(c) = Len(part) /\ Upto(c) = Len(part)
  <2>1. From(c) = Sectors(list) * SectorSize /\ Upto(c) = From(c)
    BY <1>6, PlaceOf DEF From
  <2> QED
    BY <1>3, <2>1
<1> HIDE DEF c
<1>8. Gives(d, c, part)
  <2>1. <<>> \in Seq(Solid) /\ Len(<<>>) = 0
    OBVIOUS
  <2>2. Holds(d, c, <<>>)
    BY <1>6, <2>1 DEF Holds
  <2>3. Fills(<<>>, c, part)
    <3>1. 1..0 = {} /\ From(c) + 0 <= Upto(c) /\ From(c) + 0 + 1..Upto(c) = {}
      BY <1>5, <1>7
    <3> QED
      BY <2>1, <3>1 DEF Fills
  <2> QED
    BY <2>1, <2>2, <2>3 DEF Gives
<1>9. ChunkOK(d, c, part)
  BY <1>1, <1>5, <1>6, <1>7, <1>8, ChunkOKIs
<1>10. Describes(d, Append(list, c), part)
  BY <1>1, <1>5, <1>6, <1>7, <1>9, OneMore
<1> QED
  BY <1>2, <1>10 DEF d

-----------------------------------------------------------------------------
(* The writer's invariant: its tables give the partitions it has added.    *)

\* While it writes, every table that is done gives its partition, from the data that
\* is there.
InProgress ==
  /\ source.file = <<>> /\ IsData(w) /\ compressedOffset = Len(w)
  /\ \E T : tables \in Seq(T)
  /\ Len(tables) + Len(parts) = Len(source.parts)
  /\ \A k \in 1..Len(parts) : parts[k] = source.parts[Len(tables) + k]
  /\ \A t \in 1..Len(tables) : Describes(w, tables[t].chunks, source.parts[t])

\* A file is an image of partitions with these contents.
IsImageOf(f, contents) ==
  \E d, list : /\ IsImage(f, d, list)
               /\ \A p \in DOMAIN contents : Describes(d, list[p].chunks, contents[p])

\* What is finished is an image of the source.
WriterInv ==
  /\ source \in Sources /\ index \in DOMAIN source.parts
  /\ parts \in Seq(Seq(Int))
  /\ writer \in {"writing", "finished", "failed"}
  /\ writer = "writing" => InProgress
  /\ writer = "finished" => IsImageOf(w, source.parts)

\* The partitions of a source.
LEMMA SourceFacts ==
  ASSUME NEW s \in Sources
  PROVE  /\ s.parts \in Seq(Seq(Int)) /\ DOMAIN s.parts = 1..Len(s.parts) /\ Len(s.parts) \in Nat
         /\ \A p \in 1..Len(s.parts) : s.parts[p] \in Seq(Int)
         /\ s.file = <<>> => \A p \in 1..Len(s.parts) : ToWrite(s.parts[p])
         /\ s.file # <<>> => IsImageOf(s.file, s.parts)
<1>1. s.parts \in Seq(Seq(Int))
  BY DiskImageAssumption
<1>2. DOMAIN s.parts = 1..Len(s.parts) /\ Len(s.parts) \in Nat
  BY <1>1, LenProperties
<1>3. \A p \in 1..Len(s.parts) : s.parts[p] \in Seq(Int)
  BY <1>1, ElementOfSeq
<1>4. s.file = <<>> => \A p \in 1..Len(s.parts) : ToWrite(s.parts[p])
  BY <1>2, SourcesAssumption DEF ToWrite, Solid
<1>5. s.file # <<>> => IsImageOf(s.file, s.parts)
  BY SourcesAssumption DEF IsImageOf
<1> QED
  BY <1>1, <1>2, <1>3, <1>4, <1>5

\* At the start.
LEMMA InitWriter ==
  Init => WriterInv
<1> SUFFICES ASSUME Init PROVE WriterInv
  OBVIOUS
<1>1. /\ source \in Sources /\ index \in DOMAIN source.parts
      /\ w = source.file /\ compressedOffset = 0 /\ tables = <<>>
      /\ IF source.file = <<>> THEN parts = source.parts /\ writer = "writing"
         ELSE parts = <<>> /\ writer = "finished"
  BY DEF Init
<1>2. /\ source.parts \in Seq(Seq(Int)) /\ Len(source.parts) \in Nat
      /\ source.file # <<>> => IsImageOf(source.file, source.parts)
  BY <1>1, SourceFacts
<1>3. CASE source.file # <<>>
  <2>1. parts = <<>> /\ writer = "finished" /\ <<>> \in Seq(Seq(Int))
    BY <1>1, <1>3
  <2> QED
    BY <1>1, <1>2, <1>3, <2>1 DEF WriterInv
<1>4. CASE source.file = <<>>
  <2>1. parts = source.parts /\ writer = "writing" /\ w = <<>>
    BY <1>1, <1>4
  <2>2. IsData(<<>>) /\ Len(<<>>) = 0 /\ <<>> \in Seq({})
    <3>1. <<>> \in Seq({}) /\ DOMAIN <<>> = {} /\ Len(<<>>) = 0
      OBVIOUS
    <3>2. <<>> \in Seq(Range(<<>>))
      BY <3>1, SeqOfOwn
    <3> QED
      BY <3>1, <3>2 DEF IsData
  <2>3. InProgress
    <3>1. \E T : tables \in Seq(T)
      BY <1>1, <2>2
    <3>2. Len(tables) = 0 /\ Len(w) = 0 /\ 1..0 = {} /\ \A k \in Nat : 0 + k = k
      BY <1>1, <2>1, <2>2
    <3>3. Len(tables) + Len(parts) = Len(source.parts)
      BY <1>2, <2>1, <3>2
    <3>4. \A k \in 1..Len(parts) : parts[k] = source.parts[Len(tables) + k]
      BY <2>1, <3>2
    <3>5. \A t \in 1..Len(tables) : Describes(w, tables[t].chunks, source.parts[t])
      BY <3>2
    <3> QED
      BY <1>1, <1>4, <2>1, <2>2, <3>1, <3>2, <3>3, <3>4, <3>5 DEF InProgress
  <2> QED
    BY <1>1, <1>2, <2>1, <2>3 DEF WriterInv
<1> QED
  BY <1>3, <1>4

\* A partition is added: its table is the next.
LEMMA AddPartitionKeeps ==
  ASSUME WriterInv, Writer!AddPartition, UNCHANGED <<source, index>>
  PROVE  WriterInv'
<1>1. /\ writer = "writing" /\ parts # <<>> /\ writer' = "writing" /\ parts' = Tail(parts)
      /\ InProgress /\ parts \in Seq(Seq(Int)) /\ source \in Sources /\ index \in DOMAIN source.parts
      /\ source' = source /\ index' = index
  BY DEF WriterInv, Writer!AddPartition
<1> DEFINE k == Len(tables)
           m == Len(parts)
           part == Head(parts)
<1>2. /\ source.file = <<>> /\ IsData(w) /\ compressedOffset = Len(w)
      /\ k + m = Len(source.parts)
      /\ \A j \in 1..m : parts[j] = source.parts[k + j]
      /\ \A t \in 1..k : Describes(w, tables[t].chunks, source.parts[t])
  BY <1>1 DEF InProgress
<1>3. PICK T : tables \in Seq(T)
  BY <1>1 DEF InProgress
<1>4. /\ Len(source.parts) \in Nat /\ \A p \in 1..Len(source.parts) : ToWrite(source.parts[p])
      /\ \A p \in 1..Len(source.parts) : source.parts[p] \in Seq(Int)
  BY <1>1, <1>2, SourceFacts
<1>5. k \in Nat /\ m \in Nat
  BY <1>1, <1>3, LenProperties
<1>6. /\ m # 0 /\ Tail(parts) \in Seq(Seq(Int)) /\ Len(Tail(parts)) = m - 1
      /\ part = parts[1] /\ \A j \in 1..m - 1 : Tail(parts)[j] = parts[j + 1]
  <2>1. m # 0
    BY <1>1, EmptySeq
  <2> HIDE DEF m, part
  <2> QED
    BY <1>1, <1>5, <2>1, HeadTailProperties DEF m, part
<1>7. part = source.parts[k + 1] /\ k + 1 \in 1..Len(source.parts) /\ ToWrite(part)
  <2>1. 1 \in 1..m /\ k + 1 \in 1..Len(source.parts)
    BY <1>2, <1>5, <1>6
  <2> HIDE DEF k, m, part
  <2> QED
    BY <1>2, <1>4, <1>6, <2>1
<1>8. PICK lens \in [1..Writer!NumPieces(part) -> 1..MaxStream] :
        LET end == Writer!Pieces(part, lens)
        IN /\ w' = end.w /\ sectorNumber' = end.sector /\ compressedOffset' = end.offset
           /\ tables' = Append(tables, Writer!AddChunk(end.table,
                                         Writer!Chunk("term", end.sector, 0, end.offset, 0)))
  BY DEF Writer!AddPartition
<1>9. PICK end : end = Writer!Pieces(part, lens)
  OBVIOUS
<1>10. PICK table : table = Writer!AddChunk(end.table,
                                            Writer!Chunk("term", end.sector, 0, end.offset, 0))
  OBVIOUS
<1>11. w' = end.w /\ compressedOffset' = end.offset /\ tables' = Append(tables, table)
  BY <1>8, <1>9, <1>10
<1> HIDE DEF part, k, m
<1>12. Building(end, part) /\ Begins(w, end.w) /\ Len(w) \in Nat /\ Len(end.w) \in Nat
  BY <1>2, <1>7, <1>8, <1>9, PiecesOK
<1>13. Describes(end.w, table.chunks, part)
  BY <1>10, <1>12, TermOK
<1>14. /\ Len(tables') = k + 1 /\ tables'[k + 1] = table
       /\ \A t \in 1..k : tables'[t] = tables[t]
       /\ \E U : tables' \in Seq(U)
  <2> DEFINE U == T \cup {table}
  <2>1. tables \in Seq(U)
    <3>1. T \subseteq U
      OBVIOUS
    <3> HIDE DEF U
    <3> QED
      BY <1>3, <3>1, SeqMonotonic
  <2>2. table \in U
    OBVIOUS
  <2> HIDE DEF U
  <2>3. /\ Append(tables, table) \in Seq(U) /\ Len(Append(tables, table)) = k + 1
        /\ Append(tables, table)[k + 1] = table
        /\ \A t \in 1..k : Append(tables, table)[t] = tables[t]
    BY <2>1, <2>2, AppendProperties DEF k
  <2> QED
    BY <1>11, <2>3
<1>15. ASSUME NEW t \in 1..Len(tables') PROVE Describes(w', tables'[t].chunks, source.parts[t])
  <2>1. CASE t = k + 1
    BY <1>7, <1>11, <1>13, <1>14, <2>1
  <2>2. CASE t # k + 1
    <3>1. t \in 1..k /\ t \in 1..Len(source.parts)
      BY <1>2, <1>5, <1>14, <2>2
    <3>2. PICK list, p : list = tables[t].chunks /\ p = source.parts[t]
      OBVIOUS
    <3>3. Describes(w, list, p) /\ p \in Seq(Int)
      BY <1>2, <1>4, <3>1, <3>2
    <3>4. Describes(end.w, list, p)
      BY <1>12, <3>3, DescribesMore
    <3> QED
      BY <1>11, <1>14, <3>1, <3>2, <3>4
  <2> QED
    BY <2>1, <2>2
<1>16. Len(tables') + Len(parts') = Len(source.parts)
  <2>1. Len(tables') = k + 1 /\ Len(parts') = m - 1
    BY <1>1, <1>6, <1>14
  <2>2. k + 1 + (m - 1) = k + m
    BY <1>5
  <2> QED
    BY <1>2, <2>1, <2>2
<1>17. \A j \in 1..Len(parts') : parts'[j] = source.parts[Len(tables') + j]
  <2> SUFFICES ASSUME NEW j \in 1..m - 1 PROVE Tail(parts)[j] = source.parts[k + 1 + j]
    BY <1>1, <1>6, <1>14
  <2>1. j + 1 \in 1..m /\ k + 1 + j = k + (j + 1)
    BY <1>5
  <2> QED
    BY <1>2, <1>6, <2>1
<1>18. IsData(w') /\ compressedOffset' = Len(w')
  BY <1>11, <1>12 DEF Building
<1>19. InProgress'
  BY <1>1, <1>2, <1>14, <1>15, <1>16, <1>17, <1>18 DEF InProgress
<1> QED
  BY <1>1, <1>6, <1>19 DEF WriterInv

\* The steps of the writer keep its invariant.
LEMMA WriterRight ==
  ASSUME WriterInv, Writer!WriterNext, UNCHANGED <<source, index>>
  PROVE  WriterInv'
<1>1. CASE Writer!AddPartition
  BY <1>1, AddPartitionKeeps
<1>2. CASE Writer!Finish
  <2>1. /\ writer = "writing" /\ parts = <<>> /\ writer' = "finished" /\ parts' = parts
        /\ w' = w \o Writer!Trailer(tables, Len(w))
    BY <1>2 DEF Writer!Finish
  <2>2. /\ source \in Sources /\ index \in DOMAIN source.parts /\ parts \in Seq(Seq(Int))
        /\ InProgress
    BY <2>1 DEF WriterInv
  <2>3. IsImage(w', w, tables)
    BY <2>1, <2>2 DEF IsImage, InProgress
  <2>4. DOMAIN source.parts = 1..Len(tables)
    <3>1. Len(parts) = 0 /\ Len(tables) + Len(parts) = Len(source.parts) /\ \E T : tables \in Seq(T)
      BY <2>1, <2>2 DEF InProgress
    <3>2. Len(tables) \in Nat
      BY <3>1, LenProperties
    <3>3. Len(tables) = Len(source.parts)
      BY <3>1, <3>2
    <3> QED
      BY <2>2, <3>3, SourceFacts
  <2>5. \A p \in DOMAIN source.parts : Describes(w, tables[p].chunks, source.parts[p])
    BY <2>2, <2>4 DEF InProgress
  <2>6. IsImageOf(w', source.parts)
    BY <2>3, <2>5 DEF IsImageOf
  <2> QED
    BY <2>1, <2>2, <2>6 DEF WriterInv
<1>3. CASE Writer!WriteFails
  BY <1>3 DEF Writer!WriteFails, WriterInv
<1> QED
  BY <1>1, <1>2, <1>3 DEF Writer!WriterNext

-----------------------------------------------------------------------------
(* What comes after the whole blocks of the cipher is never plain, as      *)
(* decrypt_parallel goes.                                                  *)

\* No cell of data, which begins at place x, is plain past the whole blocks.
TailFrom(data, x) ==
  \A j \in 1..Len(data) : x + j - 1 >= Whole => \A p \in Nat : data[j] # Vf!Plain(p)

\* A place in a block of the cipher that ends within e is before the end of the last
\* whole block.
LEMMA BlockWithin ==
  ASSUME NEW c \in Nat \ {0}, NEW u \in Nat, NEW r \in 0..c - 1, NEW e \in Int, c * u + c <= e
  PROVE  c * u + r < (e \div c) * c
<1> DEFINE d == e \div c
           s == e % c
<1>1. d \in Int /\ s \in 0..c - 1 /\ e = c * d + s
  BY DivMod
<1> HIDE DEF d, s
<1>2. c * (u + 1) < c * (d + 1)
  <2>1. c * (u + 1) = c * u + c /\ c * (d + 1) = c * d + c /\ c * d \in Int /\ c * u \in Nat
    BY <1>1
  <2> QED
    BY <1>1, <2>1
<1>3. u + 1 <= d
  <2>1. u + 1 < d + 1
    BY <1>1, <1>2
  <2> QED
    BY <1>1, <2>1
<1>4. c * (u + 1) <= d * c
  BY <1>1, <1>3
<1>5. c * (u + 1) = c * u + c
  OBVIOUS
<1>6. c * u \in Nat /\ d * c \in Int
  BY <1>1
<1> QED
  BY <1>4, <1>5, <1>6 DEF d

\* A chunk decrypted has no plain cell after the last whole block of the data, which
\* it does not reach beyond in the new format.
LEMMA DecryptChunkTail ==
  ASSUME ImageTyped, img # <<>>, Vf!HdrVersion \in {1, 2}, NEW k \in Nat, NEW data \in Seq(Cells),
         \A j \in 1..Len(data) : data[j] = Vf!Cipher(k * Vf!BlockLen + j - 1),
         Vf!HdrVersion = 2 => k * Vf!BlockLen + Len(data) <= Vf!DataSize
  PROVE  /\ Vf!DecryptChunk(k, data) \in [1..Len(data) -> Cells]
         /\ \A j \in 1..Len(data) :
              k * Vf!BlockLen + j - 1 >= Whole =>
                \A p \in Nat : Vf!DecryptChunk(k, data)[j] # Vf!Plain(p)
<1> DEFINE B == Vf!BlockLen
           C == CipherBlock
           n == Len(data)
           whole == (n \div C) * C
           first(i) == ((i - 1) \div C) * C + 1
           place(i) == data[first(i)][2]
           Chained(i) == IF first(i) = 1 THEN place(i) = k * B ELSE place(i) % B # 0
           Enciphered(i) == /\ place(i) % C = 0
                            /\ Vf!HdrVersion = 1 => place(i) + C <= Vf!DataSize
           F(i) == IF i > whole THEN data[i]
                   ELSE IF Enciphered(i) /\ Chained(i) THEN Vf!Plain(data[i][2]) ELSE Vf!Garbled
           plain == Vf!DecryptChunk(k, data)
<1>1. n \in Nat /\ DOMAIN data = 1..n
  BY LenProperties
<1>2. plain = [i \in 1..n |-> F(i)]
  BY <1>1 DEF Vf!DecryptChunk
<1>3. C \in Nat \ {0} /\ B \in Nat \ {0} /\ Vf!DataSize \in Int
  BY Constants, ImageFacts
<1>4. PICK m \in Nat \ {0} : B = C * m
  <2>1. B % C = 0
    BY ImageFacts
  <2> HIDE DEF B, C
  <2>2. B \in Nat \ {0} /\ C \in Nat \ {0}
    BY <1>3
  <2>3. B \div C \in Nat \ {0} /\ B = C * (B \div C)
    BY <2>1, <2>2, TimesOf
  <2> QED
    BY <2>3
<1>5. k * B \in Nat
  BY <1>3
<1>6. ASSUME NEW i \in 1..n
      PROVE  data[i] \in Cells /\ data[i] = Vf!Cipher(k * B + i - 1) /\ data[i][2] = k * B + i - 1
  BY <1>1, CellFacts, ElementOfSeq
<1>7. Whole = (Vf!DataSize \div C) * C
  BY DEF Whole
<1>8. Vf!HdrVersion = 2 => k * B + n <= Vf!DataSize
  OBVIOUS
<1> HIDE DEF B, C, n
<1>9. ASSUME NEW i \in 1..n PROVE F(i) \in Cells
  <2>1. k * B + i - 1 \in Nat
    BY <1>1, <1>5
  <2> HIDE DEF Enciphered, Chained, whole
  <2> QED
    BY <2>1, <1>6, CellFacts
<1>10. ASSUME NEW i \in 1..n, k * B + i - 1 >= Whole PROVE i > whole \/ ~Enciphered(i)
  <2> SUFFICES ASSUME ~(i > whole), Enciphered(i) PROVE FALSE
    OBVIOUS
  <2> DEFINE q == (i - 1) \div C
             r == (i - 1) % C
             d == n \div C
  <2>1. i - 1 \in Nat /\ q \in Nat /\ r \in 0..C - 1 /\ i - 1 = C * q + r
    <3>1. i - 1 \in Nat /\ i - 1 \in Int
      BY <1>1
    <3> QED
      BY <1>3, <3>1, DivMod
  <2>2. d \in Nat /\ n % C \in 0..C - 1 /\ n = C * d + (n % C)
    <3>1. n \in Int
      BY <1>1
    <3> QED
      BY <1>1, <1>3, <3>1, DivMod
  <2>14. ~(i > d * C)
    OBVIOUS
  <2>4. first(i) = C * q + 1
    <3>1. q * C = C * q
      BY <1>3, <2>1
    <3> QED
      BY <3>1
  <2>13. /\ place(i) % C = 0
         /\ Vf!HdrVersion = 1 => place(i) + C <= Vf!DataSize
    OBVIOUS
  <2> HIDE DEF q, r, d, first, Enciphered, whole
  <2>3. i <= d * C
    <3>1. d * C \in Nat
      BY <1>3, <2>2
    <3> QED
      BY <1>1, <2>14, <3>1
  <2>5. k * m \in Nat /\ k * m + q \in Nat /\ C * q \in Nat
    BY <1>3, <1>4, <2>1
  <2>6. C * q + 1 \in 1..n
    BY <1>1, <1>3, <2>1, <2>5
  <2>7. place(i) = k * B + C * q
    <3>1. PICK a \in 1..n : a = C * q + 1
      BY <2>6
    <3>2. data[a][2] = k * B + a - 1
      BY <1>6
    <3>3. k * B + a - 1 = k * B + C * q
      BY <1>5, <2>5, <3>1
    <3> QED
      BY <2>4, <3>1, <3>2, <3>3
  <2>8. k * B + C * q = C * (k * m + q)
    <3>1. k * B = C * (k * m)
      BY <1>3, <1>4
    <3>2. C * (k * m + q) = C * (k * m) + C * q
      BY <1>3, <2>1, <2>5
    <3> QED
      BY <3>1, <3>2
  <2>9. C * q + C <= n
    <3>1. C * q < C * d
      <4>1. d * C = C * d /\ C * d \in Nat
        BY <1>3, <2>2
      <4> QED
        BY <1>1, <1>3, <2>1, <2>3, <2>5, <4>1
    <3>2. q + 1 <= d
      BY <1>3, <2>1, <2>2, <3>1
    <3>3. C * (q + 1) <= C * d /\ C * (q + 1) = C * q + C /\ C * d \in Nat
      BY <1>3, <2>1, <2>2, <3>2
    <3> QED
      BY <1>1, <1>3, <2>2, <2>5, <3>3
  <2>10. k * B + C * q + C <= Vf!DataSize
    <3>1. CASE Vf!HdrVersion = 1
      BY <2>7, <2>13, <3>1
    <3>2. CASE Vf!HdrVersion = 2
      BY <1>1, <1>3, <1>5, <1>8, <2>5, <2>9, <3>2
    <3> QED
      BY <3>1, <3>2
  <2>11. k * B + C * q + r < Whole
    <3>1. PICK u \in Nat : u = k * m + q
      BY <2>5
    <3>2. C * u + C <= Vf!DataSize /\ r \in 0..C - 1 /\ C \in Nat \ {0} /\ Vf!DataSize \in Int
      BY <1>3, <2>1, <2>8, <2>10, <3>1
    <3>3. C * u + r < (Vf!DataSize \div C) * C
      BY <3>2, BlockWithin
    <3> QED
      BY <1>7, <2>8, <3>1, <3>3
  <2>12. Whole \in Int
    <3>1. Vf!DataSize \div C \in Int
      BY <1>3, DivMod
    <3> QED
      BY <1>3, <1>7, <3>1
  <2> QED
    BY <1>1, <1>3, <1>5, <1>10, <2>1, <2>5, <2>11, <2>12
<1>11. ASSUME NEW i \in 1..n, k * B + i - 1 >= Whole, NEW p \in Nat PROVE F(i) # Vf!Plain(p)
  <2>1. i > whole \/ ~Enciphered(i)
    BY <1>10, <1>11
  <2>2. F(i) = data[i] \/ F(i) = Vf!Garbled
    BY <2>1
  <2>3. Vf!Garbled # Vf!Plain(p)
    BY DEF Vf!Garbled, Vf!Plain
  <2>4. data[i] # Vf!Plain(p)
    <3>1. data[i] = Vf!Cipher(k * B + i - 1)
      BY <1>6
    <3> QED
      BY <3>1 DEF Vf!Cipher, Vf!Plain
  <2> QED
    BY <2>2, <2>3, <2>4
<1> HIDE DEF F, plain
<1>12. plain \in [1..n -> Cells]
  BY <1>2, <1>9
<1>13. \A j \in 1..n : k * B + j - 1 >= Whole => \A p \in Nat : plain[j] # Vf!Plain(p)
  BY <1>2, <1>11
<1> QED
  BY <1>12, <1>13 DEF plain, n, B

\* What decrypt_parallel has done so far has no plain cell there; there are chunks
\* to decrypt only in a batch; the input is not past its end.
Parallel ==
  /\ at <= img.len
  /\ phase # "decrypting" => todo = {}
  /\ phase \in {"filling", "decrypting", "done"} => ~short /\ TailFrom(output, 0)
  /\ phase = "decrypting" => TailFrom(buffer, totalOut)

\* While the image is the same, what is asked of output and buffer is the same.
LEMMA SameTail ==
  ASSUME img' = img
  PROVE  /\ TailFrom(output, 0)' <=> TailFrom(output', 0)
         /\ TailFrom(buffer, totalOut)' <=> TailFrom(buffer', totalOut')
BY SameImage DEF TailFrom

\* Data that has no plain cell there goes on with more of it.
LEMMA TailConcat ==
  ASSUME NEW a \in Seq(Cells), NEW b \in Seq(Cells), NEW x \in Nat, TailFrom(a, x), TailFrom(b, x + Len(a))
  PROVE  TailFrom(a \o b, x)
<1>1. Len(a) \in Nat /\ Len(b) \in Nat
  BY LenProperties
<1>2. /\ Len(a \o b) = Len(a) + Len(b)
      /\ \A j \in 1..Len(a) + Len(b) : (a \o b)[j] = IF j <= Len(a) THEN a[j] ELSE b[j - Len(a)]
  BY ConcatProperties
<1>3. ASSUME NEW j \in 1..Len(a \o b), x + j - 1 >= Whole, NEW p \in Nat
      PROVE  (a \o b)[j] # Vf!Plain(p)
  <2>1. CASE j <= Len(a)
    <3>1. j \in 1..Len(a) /\ (a \o b)[j] = a[j]
      BY <1>1, <1>2, <2>1
    <3> QED
      BY <1>3, <3>1 DEF TailFrom
  <2>2. CASE ~(j <= Len(a))
    <3>1. PICK i \in 1..Len(b) : i = j - Len(a)
      BY <1>1, <1>2, <2>2
    <3>2. (a \o b)[j] = b[i] /\ x + Len(a) + i - 1 = x + j - 1
      BY <1>1, <1>2, <2>2, <3>1
    <3> QED
      BY <1>3, <3>2 DEF TailFrom
  <2> QED
    BY <2>1, <2>2
<1> QED
  BY <1>3 DEF TailFrom

\* Cells that are as they were read are not plain.
LEMMA CipherTail ==
  ASSUME NEW data, NEW x, \A j \in 1..Len(data) : data[j] = Vf!Cipher(x + j - 1)
  PROVE  TailFrom(data, x)
BY DEF TailFrom, Vf!Cipher, Vf!Plain

\* A thread decrypts its part of the batch.
LEMMA WorkerTail ==
  ASSUME ImageTyped, img # <<>>, Sound, NEW i \in todo, Vf!Worker(i), TailFrom(buffer, totalOut)
  PROVE  TailFrom(buffer', totalOut')
<1> DEFINE B == Vf!BlockLen
           n == Len(buffer)
           first == i * B + 1
           last == LastOf(i)
           data == ThreadPart(i)
           plain == Vf!DecryptChunk(chunkNo + i, data)
<1>1. /\ phase = "decrypting" /\ totalOut' = totalOut /\ output' = output
      /\ buffer' = [j \in DOMAIN buffer |->
                      IF j \in first..last THEN plain[j - first + 1] ELSE buffer[j]]
  BY DEF Vf!Worker, LastOf, ThreadPart
<1>2. /\ chunkNo \in Nat /\ totalOut \in Nat /\ buffer \in Seq(Cells) /\ i \in Nat
      /\ n \in Nat /\ DOMAIN buffer = 1..n
  BY LenProperties DEF Sound, Typed
<1>3. BatchRead /\ n <= Vf!ToRead /\ ~short
  BY <1>1 DEF Sound, Decrypting, BatchRead
<1>4. Vf!HdrVersion \in {1, 2} /\ Len(output) = totalOut /\ Within(totalOut)
  <2>1. Vf!HdrVersion \in {1, 2} /\ Len(output) = totalOut
    BY <1>1 DEF Sound, Started
  <2>2. Within(Len(output))
    BY <1>1, <1>3, OutputWhenOpen
  <2> QED
    BY <2>1, <2>2
<1>5. Vf!HdrVersion = 2 => totalOut + n <= Vf!DataSize
  <2>1. Vf!HdrVersion = 2 => totalOut + Vf!ToRead <= Vf!DataSize /\ Vf!DataSize \in Nat
    BY <1>2, <1>4, ToReadFacts, ImageFacts DEF Within
  <2>2. Vf!ToRead \in Nat
    BY <1>2, ToReadFacts
  <2> QED
    BY <1>2, <1>3, <2>1, <2>2
<1>6. /\ i * B \in Nat /\ (chunkNo + i) * B = totalOut + i * B
      /\ \E len \in Nat :
           /\ last = i * B + len /\ len >= 1 /\ last <= n
           /\ data \in Seq(Cells) /\ Len(data) = len
           /\ \A j \in 1..len : data[j] = Vf!Cipher((chunkNo + i) * B + j - 1)
  BY WorkerPart DEF B, n
<1> HIDE DEF B, n, last, data
<1>7. PICK len \in Nat :
           /\ last = i * B + len /\ len >= 1 /\ last <= n
           /\ data \in Seq(Cells) /\ Len(data) = len
           /\ \A j \in 1..len : data[j] = Vf!Cipher((chunkNo + i) * B + j - 1)
  BY <1>6
<1>8. PICK a \in Nat : a = i * B
  BY <1>6
<1>9. PICK k \in Nat : k = chunkNo + i
  BY <1>2
<1>10. k * B = totalOut + a
  BY <1>6, <1>8, <1>9
<1>11. \A j \in 1..len : k * B + j - 1 >= Whole => \A p \in Nat : plain[j] # Vf!Plain(p)
  <2>1. Vf!HdrVersion = 2 => k * Vf!BlockLen + Len(data) <= Vf!DataSize
    <3>1. Vf!HdrVersion = 2 => Vf!DataSize \in Nat
      BY ImageFacts
    <3> QED
      BY <1>2, <1>5, <1>7, <1>8, <1>10, <3>1 DEF B
  <2>2. \A j \in 1..Len(data) : data[j] = Vf!Cipher(k * Vf!BlockLen + j - 1)
    BY <1>7, <1>9 DEF B
  <2>3. \A j \in 1..Len(data) : k * Vf!BlockLen + j - 1 >= Whole =>
          \A p \in Nat : Vf!DecryptChunk(k, data)[j] # Vf!Plain(p)
    BY <1>4, <1>7, <2>1, <2>2, DecryptChunkTail
  <2> QED
    BY <1>7, <1>9, <2>3 DEF B
<1> HIDE DEF plain
<1>12. DOMAIN buffer' = 1..n /\ Len(buffer') = n
  <2>1. DOMAIN buffer' = 1..n
    BY <1>1, <1>2
  <2>2. Sound'
    BY WorkerKeeps
  <2>3. buffer' \in Seq(Cells)
    BY <2>2 DEF Sound, Typed
  <2>4. DOMAIN buffer' = 1..Len(buffer') /\ Len(buffer') \in Nat
    BY <2>3, LenProperties
  <2> QED
    BY <1>2, <2>1, <2>4
<1>13. ASSUME NEW j \in 1..n, totalOut + j - 1 >= Whole, NEW p \in Nat PROVE buffer'[j] # Vf!Plain(p)
  <2>1. CASE j \in first..last
    <3>1. PICK l \in 1..len : l = j - first + 1 /\ k * B + l - 1 = totalOut + j - 1
      <4>1. first = a + 1 /\ last = a + len
        BY <1>7, <1>8
      <4> HIDE DEF first
      <4>2. j - first + 1 \in 1..len /\ totalOut + a + (j - first + 1) - 1 = totalOut + j - 1
        BY <1>2, <2>1, <4>1
      <4> QED
        BY <1>10, <4>2
    <3>2. buffer'[j] = plain[l]
      BY <1>1, <1>2, <2>1, <3>1
    <3>3. k * B + l - 1 >= Whole
      BY <1>13, <3>1
    <3> QED
      BY <1>11, <3>2, <3>3
  <2>2. CASE j \notin first..last
    <3>1. buffer'[j] = buffer[j]
      BY <1>1, <1>2, <2>2
    <3> QED
      BY <1>13, <3>1 DEF TailFrom, n
  <2> QED
    BY <2>1, <2>2
<1> QED
  BY <1>1, <1>12, <1>13 DEF TailFrom

\* The steps of the decryption keep it.
LEMMA VfParallel ==
  ASSUME ImageTyped, img # <<>>, Sound, Parallel, Vf!VfNext
  PROVE  Parallel'
<1>1. /\ at \in Nat /\ totalOut \in Nat /\ img.len \in Nat /\ Vf!DataOffset <= img.len
      /\ output \in Seq(Cells) /\ buffer \in Seq(Cells)
  BY ImageFacts DEF Sound, Typed
<1>2. /\ at <= img.len
      /\ phase # "decrypting" => todo = {}
      /\ phase \in {"filling", "decrypting", "done"} => ~short /\ TailFrom(output, 0)
      /\ phase = "decrypting" => TailFrom(buffer, totalOut)
  BY DEF Parallel
<1>3. img' = img
  BY VfKeeps
<1>4. ASSUME at' <= img.len, phase' # "decrypting" => todo' = {},
             phase' \in {"filling", "decrypting", "done"} => ~short' /\ TailFrom(output', 0),
             phase' = "decrypting" => TailFrom(buffer', totalOut')
      PROVE  Parallel'
  BY <1>3, <1>4, SameTail DEF Parallel
<1>5. CASE Vf!New
  <2>1. /\ phase = "closed" /\ phase' \in {"open", "failed"} /\ todo' = todo
        /\ at' = IF phase' = "open" THEN Vf!DataOffset ELSE at
    BY <1>5 DEF Vf!New
  <2> QED
    BY <1>1, <1>2, <1>4, <2>1
<1>6. CASE Vf!InputFails
  <2>1. phase # "decrypting" /\ phase' = "failed" /\ at' = at /\ todo' = todo
    BY <1>6 DEF Vf!InputFails
  <2> QED
    BY <1>2, <1>4, <2>1
<1>7. CASE Vf!DecryptParallel
  <2>1. /\ phase = "open" /\ phase' = "filling" /\ at' = at /\ todo' = todo
        /\ output' = output /\ short' = short
    BY <1>7 DEF Vf!DecryptParallel
  <2>2. output = <<>> /\ ~short
    BY <2>1 DEF Sound, Fresh
  <2>3. TailFrom(output, 0)
    BY <2>2 DEF TailFrom
  <2> QED
    BY <1>2, <1>4, <2>1, <2>2, <2>3
<1>8. CASE Vf!FillBatch
  <2>1. /\ phase = "filling" /\ phase' = "filling" /\ todo' = todo /\ output' = output /\ short' = short
        /\ \E r \in 1..Vf!Min({Vf!ToRead - Len(buffer), img.len - at}) : at' = at + r
    BY <1>8 DEF Vf!FillBatch
  <2>2. at' <= img.len
    <3>1. PICK r \in 1..Vf!Min({Vf!ToRead - Len(buffer), img.len - at}) : at' = at + r
      BY <2>1
    <3>2. PICK u \in Int, v \in Int : u = Vf!ToRead - Len(buffer) /\ v = img.len - at
      <4>1. Vf!ToRead \in Nat /\ Len(buffer) \in Nat
        BY <1>1, ToReadFacts, LenProperties
      <4>2. Vf!ToRead - Len(buffer) \in Int
        <5> HIDE DEF Vf!ToRead
        <5> QED
          BY <4>1
      <4>3. img.len - at \in Int
        BY <1>1
      <4> QED
        BY <4>2, <4>3
    <3>3. Vf!Min({u, v}) = IF u <= v THEN u ELSE v
      BY MinOfTwo
    <3>4. r \in Int /\ r <= v
      BY <3>2, <3>3
    <3> QED
      BY <1>1, <3>1, <3>2, <3>4
  <2> QED
    BY <1>2, <1>4, <2>1, <2>2
<1>9. CASE Vf!Filled
  <2>1. /\ phase = "filling" /\ phase' \in {"done", "decrypting"} /\ at' = at
        /\ phase' = "done" => todo' = {}
        /\ UNCHANGED <<totalOut, buffer, output, short>>
    BY <1>9 DEF Vf!Filled
  <2>2. \A j \in 1..Len(buffer) : buffer[j] = Vf!Cipher(totalOut + j - 1)
    BY <2>1 DEF Sound, Filling
  <2>3. TailFrom(buffer, totalOut)
    BY <2>2, CipherTail
  <2> QED
    BY <1>2, <1>4, <2>1, <2>3
<1>10. CASE Vf!WriteBatch
  <2>1. /\ phase = "decrypting" /\ todo = {} /\ todo' = todo /\ at' = at /\ short' = short
        /\ (phase' = "filling" /\ output' = output \o buffer) \/ phase' = "failed"
    BY <1>10 DEF Vf!WriteBatch
  <2>2. TailFrom(output \o buffer, 0)
    <3>1. PICK zero \in Nat : zero = 0
      OBVIOUS
    <3>2. TailFrom(output, zero) /\ TailFrom(buffer, zero + Len(output))
      <4>1. Len(output) = totalOut
        BY <2>1 DEF Sound, Started
      <4>2. zero + Len(output) = totalOut
        BY <1>1, <3>1, <4>1
      <4> QED
        BY <1>2, <2>1, <3>1, <4>2
    <3>3. TailFrom(output \o buffer, zero)
      BY <1>1, <3>2, TailConcat
    <3> QED
      BY <3>1, <3>3
  <2> QED
    BY <1>2, <1>4, <2>1, <2>2
<1>11. CASE Vf!ReadEnd
  <2>1. phase \in {"open", "reading"} /\ phase' = "taken" /\ at' = at /\ todo' = todo
    BY <1>11 DEF Vf!ReadEnd
  <2> QED
    BY <1>2, <1>4, <2>1
<1>12. ASSUME NEW i \in todo, Vf!Worker(i) PROVE Parallel'
  <2>1. /\ phase = "decrypting" /\ phase' = phase /\ at' = at
        /\ UNCHANGED <<output, short>>
    BY <1>12 DEF Vf!Worker
  <2>2. TailFrom(buffer', totalOut')
    BY <1>2, <1>12, <2>1, WorkerTail
  <2> QED
    BY <1>2, <1>4, <2>1, <2>2
<1>13. ASSUME NEW asked \in Wants, Vf!Read(asked) PROVE Parallel'
  <2>1. /\ phase \in {"open", "reading"} /\ phase' = "reading"
        /\ Vf!ReadBuffered(asked) \/ Vf!ReadChunk(asked)
    BY <1>13 DEF Vf!Read
  <2>2. CASE Vf!ReadBuffered(asked)
    <3>1. at' = at /\ todo' = todo
      BY <2>2 DEF Vf!ReadBuffered
    <3> QED
      BY <1>2, <1>4, <2>1, <3>1
  <2>3. CASE Vf!ReadChunk(asked)
    <3>1. todo' = todo /\ \E r \in 1..Vf!Min({Vf!BlockLen, img.len - at}) : at' = at + r
      BY <2>3 DEF Vf!ReadChunk
    <3>2. at' <= img.len
      <4>1. PICK r \in 1..Vf!Min({Vf!BlockLen, img.len - at}) : at' = at + r
        BY <3>1
      <4>2. PICK u \in Int, v \in Int : u = Vf!BlockLen /\ v = img.len - at
        BY <1>1, ImageFacts
      <4>3. Vf!Min({u, v}) = IF u <= v THEN u ELSE v
        BY MinOfTwo
      <4>4. r \in Int /\ r <= v
        BY <4>2, <4>3
      <4> QED
        BY <1>1, <4>1, <4>2, <4>4
    <3> QED
      BY <1>2, <1>4, <2>1, <3>1, <3>2
  <2> QED
    BY <2>1, <2>2, <2>3
<1> QED
  BY <1>5, <1>6, <1>7, <1>8, <1>9, <1>10, <1>11, <1>12, <1>13 DEF Vf!VfNext

-----------------------------------------------------------------------------
(* From one part to the next.                                              *)

\* An image is made of a file that is finished.
ImageMade == img # <<>> => writer = "finished" /\ Parallel

\* What is unchanged by the steps of the reader.
LEMMA ReaderSame ==
  ASSUME Reader!ReaderNext
  PROVE  index' = index
<1>1. CASE Reader!Open \/ Reader!CopyPartition \/ Reader!CopyPanics \/ Reader!IntoPartitionReader
  BY <1>1 DEF Reader!Open, Reader!CopyPartition, Reader!CopyPanics, Reader!IntoPartitionReader
<1>2. CASE Reader!ReadPastEnd \/ Reader!LoadFails \/ Reader!LoadPanics
  BY <1>2 DEF Reader!ReadPastEnd, Reader!LoadFails, Reader!LoadPanics
<1>3. CASE Reader!ReadChunk
  BY <1>3 DEF Reader!ReadChunk
<1>4. CASE \E n \in Lengths : Reader!Read(n)
  BY <1>4 DEF Reader!Read
<1>5. CASE \E d \in Deltas : Reader!SeekAny(d)
  <2>1. \A p : Reader!Seek(p) => index' = index
    BY DEF Reader!Seek
  <2> QED
    BY <1>5, <2>1 DEF Reader!SeekAny
<1> QED
  BY <1>1, <1>2, <1>3, <1>4, <1>5 DEF Reader!ReaderNext

\* A step that leaves the writer alone.
LEMMA WriterSame ==
  ASSUME WriterInv, UNCHANGED <<source, index, writerVars>>
  PROVE  WriterInv'
<1>1. /\ source' = source /\ index' = index /\ parts' = parts /\ w' = w
      /\ compressedOffset' = compressedOffset /\ tables' = tables /\ writer' = writer
  BY DEF writerVars
<1>2. InProgress => InProgress'
  BY <1>1 DEF InProgress
<1> QED
  BY <1>1, <1>2 DEF WriterInv

\* Every step keeps what is said of the writer.
LEMMA NextWriter ==
  WriterInv /\ [Next]_vars => WriterInv'
<1> SUFFICES ASSUME WriterInv, [Next]_vars PROVE WriterInv'
  OBVIOUS
<1>1. CASE Writer!WriterNext /\ UNCHANGED <<sourceVars, img, vfState, readerVars>>
  <2>1. UNCHANGED <<source, index>>
    BY <1>1 DEF sourceVars
  <2> QED
    BY <1>1, <2>1, WriterRight
<1>2. ASSUME UNCHANGED <<source, index, writerVars>> PROVE WriterInv'
  BY <1>2, WriterSame
<1>3. CASE Encrypt
  BY <1>2, <1>3 DEF Encrypt, sourceVars
<1>4. CASE img # <<>> /\ Vf!VfNext /\ UNCHANGED <<sourceVars, writerVars, readerVars>>
  BY <1>2, <1>4 DEF sourceVars
<1>5. CASE phase = "done" /\ Reader!ReaderNext /\ UNCHANGED <<source, writerVars, img, vfState>>
  BY <1>2, <1>5, ReaderSame
<1>6. CASE UNCHANGED vars
  BY <1>2, <1>6 DEF vars, sourceVars
<1> QED
  BY <1>1, <1>3, <1>4, <1>5, <1>6 DEF Next

\* And of the image.
LEMMA NextImageMade ==
  IInv /\ ImageMade /\ [Next]_vars => ImageMade'
<1> SUFFICES ASSUME IInv, ImageMade, [Next]_vars PROVE ImageMade'
  OBVIOUS
<1>1. FileTyped /\ ImageTyped /\ (IF img = <<>> THEN Vf!VfInit ELSE Sound)
  BY DEF IInv
<1>2. ASSUME img' = img, writer' = writer, UNCHANGED vfState PROVE ImageMade'
  <2>1. /\ at' = at /\ totalOut' = totalOut /\ buffer' = buffer /\ todo' = todo
        /\ output' = output /\ phase' = phase /\ short' = short
    BY <1>2 DEF vfState
  <2>2. Parallel => Parallel'
    BY <1>2, <2>1, SameTail DEF Parallel
  <2> QED
    BY <1>2, <2>2 DEF ImageMade
<1>3. CASE Writer!WriterNext /\ UNCHANGED <<sourceVars, img, vfState, readerVars>>
  <2>1. writer = "writing"
    BY <1>3 DEF Writer!WriterNext, Writer!AddPartition, Writer!Finish, Writer!WriteFails
  <2>2. img = <<>>
    BY <2>1 DEF ImageMade
  <2> QED
    BY <1>3, <2>2 DEF ImageMade
<1>4. CASE Encrypt
  <2>1. writer' = "finished" /\ UNCHANGED vfState /\ Vf!VfInit
    BY <1>1, <1>4 DEF Encrypt, writerVars
  <2>2. at' = 0 /\ todo' = {} /\ phase' = "closed"
    BY <2>1 DEF vfState, Vf!VfInit
  <2>3. img' # <<>> /\ img'.len \in Nat
    BY <1>1, <1>4, EncryptImage DEF ImageTyped
  <2> QED
    BY <2>1, <2>2, <2>3 DEF ImageMade, Parallel
<1>5. CASE img # <<>> /\ Vf!VfNext /\ UNCHANGED <<sourceVars, writerVars, readerVars>>
  <2>1. Parallel'
    BY <1>1, <1>5, VfParallel DEF ImageMade
  <2> QED
    BY <1>5, <2>1 DEF ImageMade, writerVars
<1>6. CASE phase = "done" /\ Reader!ReaderNext /\ UNCHANGED <<source, writerVars, img, vfState>>
  BY <1>2, <1>6 DEF writerVars
<1>7. CASE UNCHANGED vars
  BY <1>2, <1>7 DEF vars, writerVars
<1> QED
  BY <1>3, <1>4, <1>5, <1>6, <1>7 DEF Next

-----------------------------------------------------------------------------
(* What decrypt_parallel leaves is the file, or no image.                  *)

\* The file behind what came out: a cell of it where the output is plain, noise elsewhere.
LEMMA DecryptedIsSeq ==
  ASSUME output \in Seq(Cells), w \in Seq(Range(w))
  PROVE  /\ Decrypted \in Seq(Range(w) \cup {<<"noise">>})
         /\ Len(Decrypted) = Len(output) /\ Len(output) \in Nat
         /\ \A i \in 1..Len(output) :
              Decrypted[i] = IF output[i] \in {Vf!Plain(x) : x \in 0..Len(w) - 1}
                             THEN w[output[i][2] + 1] ELSE <<"noise">>
<1> DEFINE n == Len(output)
           F(i) == IF output[i] \in {Vf!Plain(x) : x \in 0..Len(w) - 1}
                   THEN w[output[i][2] + 1] ELSE <<"noise">>
           T == Range(w) \cup {<<"noise">>}
           s == [i \in 1..n |-> F(i)]
<1>1. n \in Nat /\ DOMAIN output = 1..n /\ Len(w) \in Nat
  BY LenProperties
<1>2. \A i \in 1..n : F(i) \in T
  <2> TAKE i \in 1..n
  <2>1. CASE output[i] \in {Vf!Plain(x) : x \in 0..Len(w) - 1}
    <3>1. PICK x \in 0..Len(w) - 1 : output[i] = Vf!Plain(x)
      BY <2>1
    <3>2. output[i][2] = x /\ x + 1 \in 1..Len(w)
      BY <1>1, <3>1 DEF Vf!Plain
    <3>3. w[x + 1] \in Range(w)
      BY <3>2, ElementOfSeq
    <3> QED
      BY <2>1, <3>2, <3>3
  <2> QED
    BY <2>1
<1>3. Decrypted = s
  BY <1>1 DEF Decrypted
<1>4. \A i \in 1..n : s[i] = F(i)
  OBVIOUS
<1> HIDE DEF F, T
<1>5. s \in Seq(T) /\ Len(s) = n
  BY <1>1, <1>2, IsASeq
<1> QED
  BY <1>1, <1>3, <1>4, <1>5 DEF F, T
\* A cell of it is the file's, or none of a file.
LEMMA DecryptedCell ==
  ASSUME ImageTyped, img # <<>>, Sound, Parallel, phase = "done", w \in Seq(Range(w)),
         NEW i \in 1..Len(output)
  PROVE  Decrypted[i] = IF i - 1 < Whole /\ i <= Len(w) THEN w[i] ELSE <<"noise">>
<1>1. output \in Seq(Cells) /\ Len(output) \in Nat /\ Len(w) \in Nat
  BY LenProperties DEF Sound, Typed
<1>2. GoodFrom(output, 0) /\ TailFrom(output, 0)
  BY DEF Sound, OutputGood, Parallel
<1>3. Decrypted[i] = IF output[i] \in {Vf!Plain(x) : x \in 0..Len(w) - 1}
                     THEN w[output[i][2] + 1] ELSE <<"noise">>
  BY <1>1, DecryptedIsSeq
<1>4. i \in Nat /\ i >= 1 /\ 0 + i - 1 = i - 1
  BY <1>1
<1>5. Whole \in Int
  <2>1. Vf!DataSize \in Int /\ CipherBlock \in Nat \ {0}
    BY ImageFacts, Constants
  <2>2. Vf!DataSize \div CipherBlock \in Int
    BY <2>1, DivMod
  <2> QED
    BY <2>1, <2>2 DEF Whole
<1>6. i - 1 < Whole => output[i] = Vf!Plain(i - 1)
  BY <1>2, <1>4 DEF GoodFrom, Good
<1>7. ~(i - 1 < Whole) => \A p \in Nat : output[i] # Vf!Plain(p)
  <2>1. ~(i - 1 < Whole) => 0 + i - 1 >= Whole
    BY <1>4, <1>5
  <2> QED
    BY <1>2, <2>1 DEF TailFrom
<1>8. Vf!Plain(i - 1)[2] + 1 = i /\ \A x : Vf!Plain(x) = Vf!Plain(i - 1) => x = i - 1
  BY <1>4 DEF Vf!Plain
<1>9. CASE i - 1 < Whole /\ i <= Len(w)
  <2>1. i - 1 \in 0..Len(w) - 1
    BY <1>1, <1>4, <1>9
  <2> QED
    BY <1>3, <1>6, <1>8, <1>9, <2>1
<1>10. CASE i - 1 < Whole /\ ~(i <= Len(w))
  <2>1. ~(i - 1 \in 0..Len(w) - 1)
    BY <1>1, <1>4, <1>10
  <2>2. output[i] \notin {Vf!Plain(x) : x \in 0..Len(w) - 1}
    BY <1>6, <1>8, <1>10, <2>1
  <2> QED
    BY <1>3, <1>10, <2>2
<1>11. CASE ~(i - 1 < Whole)
  <2>1. \A x \in 0..Len(w) - 1 : x \in Nat
    BY <1>1
  <2>2. output[i] \notin {Vf!Plain(x) : x \in 0..Len(w) - 1}
    BY <1>7, <1>11, <2>1
  <2> QED
    BY <1>3, <1>11, <2>2
<1> QED
  BY <1>9, <1>10, <1>11

\* Where the cells of an image are.
LEMMA ImageCells ==
  ASSUME NEW f, NEW d, NEW list, IsImage(f, d, list)
  PROVE  /\ Len(d) \in Nat /\ Len(f) = Len(d) + 3
         /\ \A i \in 1..Len(d) : f[i] = d[i] /\ d[i][1] \in {"raw", "stream"}
         /\ f[Len(d) + 1] = <<"plist", list>> /\ f[Len(d) + 2] = <<"koly", Len(d), 1>>
         /\ f[Len(d) + 3] = <<"reserved">>
<1> DEFINE T == {<<"plist", list>>, <<"koly", Len(d), 1>>, <<"reserved">>}
           S == Range(d) \cup T
           t == Writer!Trailer(list, Len(d))
<1>1. /\ d \in Seq(Range(d)) /\ (\A i \in DOMAIN d : d[i][1] \in {"raw", "stream"})
      /\ f = d \o t
  BY DEF IsImage, IsData
<1>2. t = << <<"plist", list>>, <<"koly", Len(d), 1>>, <<"reserved">> >>
  BY DEF Writer!Trailer
<1>3. t \in Seq(T) /\ Len(t) = 3
  BY <1>2
<1>4. t[1] = <<"plist", list>> /\ t[2] = <<"koly", Len(d), 1>> /\ t[3] = <<"reserved">>
  BY <1>2
<1> HIDE DEF T, t
<1>5. t \in Seq(S) /\ d \in Seq(S)
  <2>1. \A A, B : Seq(A) \subseteq Seq(A \cup B) /\ Seq(B) \subseteq Seq(A \cup B)
    OBVIOUS
  <2> QED
    BY <1>1, <1>3, <2>1
<1> HIDE DEF S
<1>6. /\ Len(d) \in Nat /\ Len(f) = Len(d) + 3 /\ Begins(d, f)
      /\ \A j \in 1..3 : f[Len(d) + j] = t[j]
  <2>1. PICK u \in Seq(S) : u = t
    BY <1>5
  <2>2. /\ Len(d \o u) = Len(d) + Len(u) /\ Begins(d, d \o u) /\ Len(d) \in Nat
        /\ \A j \in 1..Len(u) : (d \o u)[Len(d) + j] = u[j]
    BY <1>5, AddedTo
  <2>3. Len(u) = 3 /\ f = d \o u
    BY <1>1, <1>3, <2>1
  <2> QED
    BY <2>1, <2>2, <2>3
<1>7. DOMAIN d = 1..Len(d)
  BY <1>1, LenProperties
<1>8. 1 \in 1..3 /\ 2 \in 1..3 /\ 3 \in 1..3
  OBVIOUS
<1> QED
  BY <1>1, <1>4, <1>6, <1>7, <1>8 DEF Begins

\* The tables that are found are those of the image, and its data is there.
LEMMA TablesAre ==
  ASSUME ImageTyped, img # <<>>, Sound, Parallel, phase = "done", w \in Seq(Range(w)),
         NEW d, NEW list, IsImage(w, d, list), Reader!Tables # <<>>
  PROVE  Begins(d, Decrypted) /\ Reader!Tables = list
<1> DEFINE n == Len(output)
           m == Len(d)
           f == Decrypted
<1>1. n \in Nat /\ Len(f) = n /\ Len(w) \in Nat
  BY DecryptedIsSeq, LenProperties DEF Sound, Typed
<1>2. /\ m \in Nat /\ Len(w) = m + 3
      /\ \A i \in 1..m : w[i] = d[i] /\ d[i][1] \in {"raw", "stream"}
      /\ w[m + 1] = <<"plist", list>> /\ w[m + 2] = <<"koly", m, 1>> /\ w[m + 3] = <<"reserved">>
  BY ImageCells
<1>3. \A i \in 1..n : f[i] = IF i - 1 < Whole /\ i <= Len(w) THEN w[i] ELSE <<"noise">>
  BY DecryptedCell
<1>4. Reader!KolySize = 2
  BY DEF Reader!KolySize
<1>5. /\ ~(n < 2) /\ f[n - 1][1] = "koly"
      /\ f[f[n - 1][2] + 1][1] = "plist" /\ Reader!Tables = f[f[n - 1][2] + 1][2]
  <2>1. n - 2 + 1 = n - 1
    BY <1>1
  <2>2. ~(Len(f) < 2) /\ f[Len(f) - 2 + 1][1] = "koly"
    BY <1>4 DEF Reader!Tables
  <2>3. /\ f[f[Len(f) - 2 + 1][2] + 1][1] = "plist"
        /\ Reader!Tables = f[f[Len(f) - 2 + 1][2] + 1][2]
    BY <1>4, <2>2 DEF Reader!Tables
  <2> HIDE DEF f, n
  <2> QED
    BY <1>1, <2>1, <2>2, <2>3
<1> HIDE DEF f, n, m
<1>6. n - 1 \in 1..n
  BY <1>1, <1>5
<1>7. n - 1 - 1 < Whole /\ n - 1 <= Len(w) /\ f[n - 1] = w[n - 1]
  <2>1. <<"noise">>[1] # "koly"
    OBVIOUS
  <2> QED
    BY <1>3, <1>5, <1>6, <2>1
<1>8. n - 1 = m + 2
  <2>1. n - 1 \notin 1..m
    BY <1>2, <1>5, <1>7
  <2>2. n - 1 # m + 1 /\ n - 1 # m + 3
    <3>1. w[m + 1][1] = "plist" /\ w[m + 3][1] = "reserved"
      BY <1>2
    <3> QED
      BY <1>5, <1>7, <3>1
  <2> QED
    BY <1>1, <1>2, <1>6, <1>7, <2>1, <2>2
<1>9. ASSUME NEW i \in 1..m + 2 PROVE f[i] = w[i]
  <2>1. i \in 1..n /\ i <= Len(w) /\ i <= n - 1
    BY <1>1, <1>2, <1>8
  <2>2. i - 1 < Whole
    <3>1. Whole \in Int
      <4>1. Vf!DataSize \in Int /\ CipherBlock \in Nat \ {0}
        BY ImageFacts, Constants
      <4>2. Vf!DataSize \div CipherBlock \in Int
        BY <4>1, DivMod
      <4> QED
        BY <4>1, <4>2 DEF Whole
    <3> QED
      BY <1>1, <1>7, <2>1, <3>1
  <2> QED
    BY <1>3, <2>1, <2>2
<1>10. \A i \in 1..m : f[i] = d[i]
  BY <1>2, <1>9
<1>11. f[n - 1][2] + 1 = m + 1 /\ f[m + 1] = <<"plist", list>>
  <2>1. m + 1 \in 1..m + 2
    BY <1>2
  <2>2. f[n - 1][2] = m
    BY <1>2, <1>7, <1>8
  <2> QED
    BY <1>2, <1>9, <2>1, <2>2
<1>12. Reader!Tables = list
  BY <1>5, <1>11
<1>13. m <= n
  BY <1>1, <1>2, <1>8
<1> QED
  BY <1>1, <1>10, <1>12, <1>13 DEF Begins, f, m

-----------------------------------------------------------------------------
(* The reader: its table gives the partition, its cache what is in chunks. *)

\* The table that was found gives the partition, from data that was decrypted.
Opened ==
  \E d : Begins(d, Decrypted) /\ Len(d) \in Nat /\ Describes(d, chunks, source.parts[index])

\* The bytes of a chunk, for its part of the partition.
IsChunk(b, c, part) == b \in Seq(Solid) /\ Fills(b, c, part)

\* A table is there only when it was found, a read is begun only on a partition, and
\* what is cached is what its chunk has.
ReaderInv ==
  /\ reader \in {"closed", "image", "partition", "failed", "panic"}
  /\ reader \in {"closed", "failed"} => chunks = <<>>
  /\ reader \notin {"closed", "failed"} => phase = "done" /\ Opened
  /\ pos \in Nat /\ want \in Lengths \cup {0}
  /\ want # 0 => reader = "partition"
  /\ DOMAIN cache \subseteq DOMAIN chunks
  /\ \A i \in DOMAIN cache : IsChunk(cache[i], chunks[i], source.parts[index])

\* Bytes are no error.
LEMMA SolidIsNoErr ==
  ASSUME NEW b \in Seq(Solid)
  PROVE  b # Reader!Err
<1>1. ASSUME b = Reader!Err PROVE FALSE
  <2>1. Len(Reader!Err) = 1 /\ Reader!Err[1] = 0 - 2
    BY DEF Reader!Err
  <2>2. b[1] \in Solid
    <3>1. 1 \in 1..Len(b)
      BY <1>1, <2>1
    <3> QED
      BY <3>1, ElementOfSeq
  <2> QED
    BY <1>1, <2>1, <2>2 DEF Solid
<1> QED
  BY <1>1

\* The partition that is read, and the table of it.
LEMMA TableFacts ==
  ASSUME WriterInv, Opened
  PROVE  /\ source.parts[index] \in Seq(Int) /\ Len(source.parts[index]) \in Nat
         /\ chunks \in Seq(ChunkRecords) /\ DOMAIN chunks = 1..Len(chunks) /\ Len(chunks) \in Nat
         /\ Len(source.parts[index]) = Sectors(chunks) * SectorSize
         /\ \A i \in DOMAIN chunks :
              /\ chunks[i] \in ChunkRecords /\ Follows(chunks, i)
              /\ Upto(chunks[i]) <= Len(source.parts[index])
              /\ chunks[i].kind = "term" => chunks[i].count = 0
<1>1. source \in Sources /\ index \in DOMAIN source.parts
  BY DEF WriterInv
<1>2. source.parts[index] \in Seq(Int)
  BY <1>1, SourceFacts
<1>3. PICK d : Describes(d, chunks, source.parts[index])
  BY DEF Opened
<1>4. /\ chunks \in Seq(ChunkRecords) /\ Len(source.parts[index]) = Sectors(chunks) * SectorSize
      /\ \A i \in DOMAIN chunks : Follows(chunks, i) /\ ChunkOK(d, chunks[i], source.parts[index])
  BY <1>3 DEF Describes
<1>5. DOMAIN chunks = 1..Len(chunks) /\ Len(chunks) \in Nat /\ Len(source.parts[index]) \in Nat
  BY <1>2, <1>4, LenProperties
<1>6. \A i \in DOMAIN chunks : chunks[i] \in ChunkRecords
  BY <1>4, <1>5, ElementOfSeq
<1>7. \A i \in DOMAIN chunks : /\ Upto(chunks[i]) <= Len(source.parts[index])
                               /\ chunks[i].kind = "term" => chunks[i].count = 0
  BY <1>4 DEF ChunkOK
<1> QED
  BY <1>2, <1>4, <1>5, <1>6, <1>7

\* What is loaded for a chunk is what it has.
LEMMA LoadedIs ==
  ASSUME IInv, img # <<>>, WriterInv, Opened, NEW i \in DOMAIN chunks, chunks[i].kind # "adc"
  PROVE  \E b \in Seq(Solid) :
           /\ Reader!Sector(chunks[i]) = b /\ Reader!Loaded(chunks[i]) = b /\ IsChunk(b, chunks[i], source.parts[index])
<1>1. output \in Seq(Cells) /\ w \in Seq(Range(w))
  BY DEF IInv, FileTyped, Sound, Typed
<1>2. Decrypted \in Seq(Range(w) \cup {<<"noise">>})
  BY <1>1, DecryptedIsSeq
<1>3. PICK d : Begins(d, Decrypted) /\ Len(d) \in Nat /\ Describes(d, chunks, source.parts[index])
  BY DEF Opened
<1>4. chunks[i] \in ChunkRecords /\ source.parts[index] \in Seq(Int)
  BY TableFacts
<1>5. ChunkOK(d, chunks[i], source.parts[index])
  BY <1>3 DEF Describes
<1>6. Gives(d, chunks[i], source.parts[index])
  BY <1>4, <1>5, ChunkOKIs
<1>7. PICK b \in Seq(Solid) : Holds(d, chunks[i], b) /\ Fills(b, chunks[i], source.parts[index])
  BY <1>6 DEF Gives
<1>8. PICK c \in ChunkRecords : c = chunks[i]
  BY <1>4
<1>9. Reader!Sector(c) = b /\ Reader!Loaded(c) = b
  BY <1>2, <1>3, <1>7, <1>8, SectorIs
<1> QED
  BY <1>7, <1>8, <1>9 DEF IsChunk

\* The chunk that is found covers the position.
LEMMA ChunkAtCovers ==
  ASSUME WriterInv, Opened, NEW i \in Reader!ChunkAt(pos)
  PROVE  Reader!Covers(i, pos \div SectorSize) /\ i \in DOMAIN chunks
<1> DEFINE sector == pos \div SectorSize
           recent == IF cacheOrder = <<>> THEN {}
                     ELSE {Reader!Last(cacheOrder), Reader!Last(cacheOrder) + 1}
           near == {j \in recent : Reader!Covers(j, sector)}
<1>1. Reader!ChunkAt(pos) = IF near # {} THEN {Reader!Min(near)}
                            ELSE {j \in DOMAIN chunks : Reader!Covers(j, sector)}
  BY DEF Reader!ChunkAt
<1>2. \A j : Reader!Covers(j, sector) => j \in DOMAIN chunks
  BY DEF Reader!Covers
<1>3. near \subseteq Nat /\ \A j \in near : Reader!Covers(j, sector)
  BY <1>2, TableFacts
<1> HIDE DEF near, sector
<1>4. near # {} => Reader!Min(near) \in near
  <2> SUFFICES ASSUME near # {} PROVE Reader!Min(near) \in near
    OBVIOUS
  <2>1. \E x \in near : \A y \in near : x <= y
    BY <1>3, LeastIn
  <2> QED
    BY <2>1 DEF Reader!Min
<1>5. Reader!Covers(i, sector)
  BY <1>1, <1>3, <1>4
<1> QED
  BY <1>2, <1>5 DEF sector
\* The first of the cache leaves, and it is in the cache.
LEMMA HeadIsHeld ==
  ASSUME CacheInv, Reader!Cardinality(DOMAIN cache) >= CacheMax
  PROVE  Head(cacheOrder) \in DOMAIN cache
<1>1. Once(cacheOrder) /\ DOMAIN cache = {cacheOrder[j] : j \in 1..Len(cacheOrder)}
  BY DEF CacheInv, Lru
<1>2. Reader!Cardinality(DOMAIN cache) = Len(cacheOrder)
  BY <1>1, CacheCount
<1>3. CacheMax \in Nat \ {0} /\ Len(cacheOrder) \in Nat
  BY <1>1, DiskImageAssumption, LenProperties DEF Once
<1>4. Len(cacheOrder) # 0 /\ 1 \in 1..Len(cacheOrder)
  BY <1>2, <1>3
<1>5. Head(cacheOrder) = cacheOrder[1]
  BY <1>1, <1>4, FirstLeaves
<1> QED
  BY <1>1, <1>4, <1>5

\* A chunk that is used is in the cache, which has what is in its chunks.
LEMMA CacheUseFills ==
  ASSUME IInv, img # <<>>, WriterInv, Opened, CacheInv, DOMAIN cache \subseteq DOMAIN chunks,
         \A j \in DOMAIN cache : IsChunk(cache[j], chunks[j], source.parts[index]),
         NEW i \in DOMAIN chunks, Reader!CacheUse(i),
         i \in DOMAIN cache \/ chunks[i].kind \notin {"adc", "term"}
  PROVE  /\ i \in DOMAIN cache' /\ DOMAIN cache' \subseteq DOMAIN chunks
         /\ \A j \in DOMAIN cache' : IsChunk(cache'[j], chunks[j], source.parts[index])
<1> DEFINE full == i \notin DOMAIN cache /\ Reader!Cardinality(DOMAIN cache) >= CacheMax
           out  == IF full THEN {Head(cacheOrder)} ELSE {}
           keep == (DOMAIN cache \cup {i}) \ out
<1>1. cache' = [j \in keep |-> IF j \in DOMAIN cache THEN cache[j] ELSE Reader!Loaded(chunks[i])]
  BY DEF Reader!CacheUse
<1>2. i \notin out
  BY HeadIsHeld
<1> HIDE DEF out
<1>3. i \in keep /\ keep \subseteq DOMAIN chunks /\ \A j \in keep : j \in DOMAIN cache \/ j = i
  BY <1>2
<1>4. i \notin DOMAIN cache => IsChunk(Reader!Loaded(chunks[i]), chunks[i], source.parts[index])
  BY LoadedIs
<1> HIDE DEF keep
<1>5. DOMAIN cache' = keep
  BY <1>1
<1>6. \A j \in keep : cache'[j] = IF j \in DOMAIN cache THEN cache[j] ELSE Reader!Loaded(chunks[i])
  BY <1>1
<1>7. ASSUME NEW j \in keep PROVE IsChunk(cache'[j], chunks[j], source.parts[index])
  BY <1>3, <1>4, <1>6
<1> QED
  BY <1>3, <1>5, <1>7

\* The parts of ReaderInv that a step has to give.
LEMMA ReaderStays ==
  ASSUME ReaderInv, phase = "done", UNCHANGED <<source, writerVars, img, vfState>>, index' = index,
         chunks' = chunks, reader' = reader \/ reader' = "panic" \/ (reader = "image" /\ reader' = "partition"),
         reader \notin {"closed", "failed"},
         pos' \in Nat, want' \in Lengths \cup {0}, want' # 0 => reader' = "partition",
         DOMAIN cache' \subseteq DOMAIN chunks, \A j \in DOMAIN cache' : IsChunk(cache'[j], chunks[j], source.parts[index])
  PROVE  ReaderInv'
<1>1. /\ source' = source /\ w' = w /\ img' = img /\ phase' = phase /\ output' = output
  BY DEF writerVars, vfState
<1>2. Decrypted' = Decrypted
  BY <1>1 DEF Decrypted, Vf!Plain
<1>3. Opened => Opened'
  BY <1>1, <1>2 DEF Opened
<1>5. \A j \in DOMAIN cache' : IsChunk(cache'[j], chunks'[j], source'.parts[index'])
  BY <1>1
<1>6. reader' \in {"closed", "image", "partition", "failed", "panic"} /\ reader' \notin {"closed", "failed"}
  BY DEF ReaderInv
<1>7. phase' = "done" /\ Opened'
  BY <1>1, <1>3 DEF ReaderInv
<1>8. DOMAIN cache' \subseteq DOMAIN chunks'
  OBVIOUS
<1> QED
  BY <1>5, <1>6, <1>7, <1>8 DEF ReaderInv

-----------------------------------------------------------------------------
(* The size that the table says: a sum over the set of its chunks.         *)

\* A member of a set, and the sum over the set from the one without that member.
AnyOf(s) == CHOOSE x \in s : TRUE

SumStep(list, g, s) == IF s = {} THEN 0 ELSE list[AnyOf(s)].count + g[s \ {AnyOf(s)}]

\* The sums over the sets of some chunks.
SumsOf(list, S, g) == g = [s \in SUBSET S |-> SumStep(list, g, s)]

\* They are there.
LEMMA SumsExist ==
  ASSUME NEW S, IsFiniteSet(S), NEW list
  PROVE  \E g : SumsOf(list, S, g)
<1> DEFINE Small(m) == {s \in SUBSET S : Cardinality(s) <= m}
           Loop(g, m) == g = [s \in Small(m) |-> SumStep(list, g, s)]
           Bad == {m \in Nat : ~ \E g : Loop(g, m)}
<1>1. \A s \in SUBSET S : IsFiniteSet(s) /\ Cardinality(s) \in Nat /\ Cardinality(s) <= Cardinality(S)
  BY FS_Subset, FS_CardinalityType
<1>2. ASSUME NEW s \in SUBSET S, s # {}
      PROVE  /\ AnyOf(s) \in s /\ s \ {AnyOf(s)} \in SUBSET S
             /\ Cardinality(s) # 0 /\ Cardinality(s \ {AnyOf(s)}) = Cardinality(s) - 1
  <2>1. AnyOf(s) \in s
    BY <1>2 DEF AnyOf
  <2>2. IsFiniteSet(s)
    BY <1>1
  <2> QED
    BY <1>2, <2>1, <2>2, FS_RemoveElement, FS_EmptySet
<1>3. ASSUME NEW m \in Nat, NEW s \in Small(m), s # {}
      PROVE  s \ {AnyOf(s)} \in Small(m) /\ (m # 0 => s \ {AnyOf(s)} \in Small(m - 1))
  BY <1>1, <1>2, <1>3
<1>4. Bad = {}
  <2> SUFFICES ASSUME Bad # {} PROVE FALSE
    OBVIOUS
  <2>1. PICK m \in Bad : \A k \in Bad : m <= k
    <3>1. Bad \in SUBSET Nat
      OBVIOUS
    <3> HIDE DEF Bad
    <3> QED
      BY <3>1, LeastIn
  <2>2. m \in Nat /\ ~ \E g : Loop(g, m)
    OBVIOUS
  <2>3. CASE m = 0
    <3> DEFINE g == [s \in Small(m) |-> 0]
    <3>1. ASSUME NEW s \in Small(m) PROVE s = {}
      <4>1. s \in SUBSET S /\ Cardinality(s) <= 0 /\ Cardinality(s) \in Nat
        BY <1>1, <2>3
      <4>2. Cardinality(s) = 0
        BY <4>1
      <4> QED
        BY <1>2, <4>1, <4>2
    <3>2. \A s \in Small(m) : SumStep(list, g, s) = 0
      BY <3>1 DEF SumStep
    <3>3. Loop(g, m)
      BY <3>2
    <3> QED
      BY <2>2, <3>3
  <2>4. CASE m # 0
    <3>1. m - 1 \in Nat /\ m - 1 \notin Bad
      <4>1. m - 1 \in Nat /\ ~(m <= m - 1)
        BY <2>2, <2>4
      <4> HIDE DEF Bad
      <4> QED
        BY <2>1, <4>1
    <3>2. PICK g : Loop(g, m - 1)
      BY <3>1
    <3> DEFINE h == [s \in Small(m) |-> SumStep(list, g, s)]
    <3>3. ASSUME NEW s \in Small(m) PROVE SumStep(list, h, s) = SumStep(list, g, s)
      <4>1. CASE s = {}
        BY <4>1 DEF SumStep
      <4>2. CASE s # {}
        <5> DEFINE t == s \ {AnyOf(s)}
        <5>1. t \in Small(m) /\ t \in Small(m - 1)
          BY <1>3, <2>2, <2>4, <4>2
        <5> HIDE DEF t, Small
        <5>2. g[t] = SumStep(list, g, t) /\ h[t] = SumStep(list, g, t)
          BY <3>2, <5>1
        <5> QED
          BY <4>2, <5>2 DEF SumStep, t
      <4> QED
        BY <4>1, <4>2
    <3>4. Loop(h, m)
      <4> HIDE DEF Small
      <4> DEFINE f == [s \in Small(m) |-> SumStep(list, h, s)]
      <4>1. h = f
        BY <3>3
      <4> QED
        BY <4>1
    <3> QED
      BY <2>2, <3>4
  <2> QED
    BY <2>3, <2>4
<1>5. Cardinality(S) \in Nat /\ Small(Cardinality(S)) = SUBSET S
  BY <1>1, FS_CardinalityType
<1>6. \E g : Loop(g, Cardinality(S))
  BY <1>4, <1>5
<1> QED
  BY <1>5, <1>6 DEF SumsOf

\* What comes before chunk k and with it, of those of s.
Counts(list, s, p) ==
  /\ p \in [0..Len(list) -> Int] /\ p[0] = 0
  /\ \A k \in 1..Len(list) : p[k] = p[k - 1] + (IF k \in s THEN list[k].count ELSE 0)

\* The sum over a set is that over the sequence.
LEMMA SumsMeet ==
  ASSUME NEW list \in Seq(ChunkRecords), NEW S \in SUBSET (1..Len(list)), NEW g,
         \A s \in SUBSET S : g[s] = SumStep(list, g, s), NEW p, Counts(list, S, p)
  PROVE  g[S] = p[Len(list)]
<1> DEFINE n == Len(list)
           Wrong(s) == \E q : Counts(list, s, q) /\ g[s] # q[n]
           Bad == {m \in Nat : \E s \in SUBSET S : Cardinality(s) = m /\ Wrong(s)}
<1>1. n \in Nat /\ \A k \in 1..n : list[k].count \in Nat
  <2>1. \A k \in 1..n : list[k] \in ChunkRecords
    BY ElementOfSeq
  <2> QED
    BY <2>1, LenProperties DEF ChunkRecords
<1>2. \A s \in SUBSET S : IsFiniteSet(s) /\ Cardinality(s) \in Nat
  <2>1. IsFiniteSet(1..n)
    BY <1>1, FS_Interval
  <2> HIDE DEF n
  <2>2. IsFiniteSet(S)
    BY <2>1, FS_Subset DEF n
  <2> QED
    BY <2>2, FS_Subset, FS_CardinalityType
<1>3. Bad = {}
  <2> SUFFICES ASSUME Bad # {} PROVE FALSE
    OBVIOUS
  <2>1. PICK m \in Bad : \A k \in Bad : m <= k
    <3>1. Bad \in SUBSET Nat
      OBVIOUS
    <3> HIDE DEF Bad
    <3> QED
      BY <3>1, LeastIn
  <2>2. PICK s \in SUBSET S : Cardinality(s) = m /\ Wrong(s)
    OBVIOUS
  <2>3. PICK q : Counts(list, s, q) /\ g[s] # q[n]
    BY <2>2
  <2>4. /\ \A k \in 0..n : q[k] \in Int
        /\ q[0] = 0
        /\ \A k \in 1..n : q[k] = q[k - 1] + (IF k \in s THEN list[k].count ELSE 0)
    BY <2>3 DEF Counts
  <2>5. g[s] = SumStep(list, g, s) /\ m \in Nat
    OBVIOUS
  <2> HIDE DEF n
  <2>6. CASE s = {}
    <3> DEFINE Off == {k \in Nat : k \in 0..n /\ q[k] # 0}
    <3>1. Off = {}
      <4> SUFFICES ASSUME Off # {} PROVE FALSE
        OBVIOUS
      <4>1. PICK k \in Off : \A j \in Off : k <= j
        <5>1. Off \in SUBSET Nat
          OBVIOUS
        <5> HIDE DEF Off
        <5> QED
          BY <5>1, LeastIn
      <4>2. k \in 0..n /\ q[k] # 0 /\ k \in Nat
        OBVIOUS
      <4>3. k - 1 \in 0..n /\ k - 1 \in Nat /\ ~(k <= k - 1) /\ k \in 1..n
        BY <1>1, <2>4, <4>2
      <4>4. q[k - 1] = 0
        BY <4>1, <4>3
      <4>5. k \notin s
        BY <2>6
      <4>6. q[k] = q[k - 1] + 0
        BY <2>4, <4>3, <4>5
      <4> QED
        BY <4>2, <4>4, <4>6
    <3>2. q[n] = 0
      BY <1>1, <3>1
    <3>3. SumStep(list, g, s) = 0
      BY <2>6 DEF SumStep
    <3> QED
      BY <2>3, <2>5, <3>2, <3>3
  <2>7. CASE s # {}
    <3> DEFINE x == AnyOf(s)
               t == s \ {x}
               r == [k \in 0..n |-> IF k >= x THEN q[k] - list[x].count ELSE q[k]]
    <3>1. x \in s /\ x \in 1..n /\ t \in SUBSET S
      BY <2>7 DEF AnyOf, n
    <3>2. Cardinality(t) \in Nat /\ Cardinality(t) < m
      <4>1. Cardinality(t) = Cardinality(s) - 1
        BY <1>2, <3>1, FS_RemoveElement
      <4> QED
        BY <1>2, <2>2, <3>1, <4>1
    <3> HIDE DEF x
    <3>3. list[x].count \in Nat /\ x \in Nat
      BY <1>1, <3>1
    <3>4. r \in [0..n -> Int] /\ r[0] = 0 /\ r[n] = q[n] - list[x].count
      BY <1>1, <2>4, <3>1, <3>3
    <3>5. ASSUME NEW k \in 1..n
          PROVE  r[k] = r[k - 1] + (IF k \in t THEN list[k].count ELSE 0)
      <4>1. k \in 0..n /\ k - 1 \in 0..n /\ k \in Int /\ list[k].count \in Nat
        BY <1>1
      <4>2. /\ r[k] = IF k >= x THEN q[k] - list[x].count ELSE q[k]
            /\ r[k - 1] = IF k - 1 >= x THEN q[k - 1] - list[x].count ELSE q[k - 1]
        BY <4>1
      <4>3. q[k] = q[k - 1] + (IF k \in s THEN list[k].count ELSE 0) /\ q[k] \in Int /\ q[k - 1] \in Int
        BY <2>4, <4>1
      <4> HIDE DEF r
      <4>4. k \in t <=> k \in s /\ k # x
        OBVIOUS
      <4> HIDE DEF t
      <4>5. CASE k = x
        <5>1. ~(k - 1 >= x) /\ k >= x /\ k \in s /\ k \notin t
          BY <3>1, <3>3, <4>4, <4>5
        <5>2. r[k] = q[k] - list[x].count /\ r[k - 1] = q[k - 1] /\ q[k] = q[k - 1] + list[x].count
          BY <4>2, <4>3, <4>5, <5>1
        <5>3. r[k] = r[k - 1]
          BY <3>3, <4>3, <5>2
        <5>4. r[k - 1] + 0 = r[k - 1]
          BY <4>3, <5>2
        <5> QED
          BY <5>1, <5>3, <5>4
      <4>6. CASE k # x
        <5>1. (k - 1 >= x <=> k >= x) /\ (k \in t <=> k \in s)
          BY <3>3, <4>1, <4>4, <4>6
        <5>2. PICK u \in Int : u = IF k \in s THEN list[k].count ELSE 0
          BY <4>1
        <5>3. u = IF k \in t THEN list[k].count ELSE 0
          BY <5>1, <5>2
        <5>4. q[k] = q[k - 1] + u
          BY <4>3, <5>2
        <5>5. r[k] = r[k - 1] + u
          BY <3>3, <4>2, <4>3, <5>1, <5>4
        <5> QED
          BY <5>3, <5>5
      <4> QED
        BY <4>5, <4>6
    <3> HIDE DEF r
    <3>6. Counts(list, t, r)
      BY <3>4, <3>5 DEF Counts, n
    <3>7. g[t] = r[n]
      <4>1. Cardinality(t) \notin Bad
        <5> HIDE DEF Bad, t
        <5> QED
          BY <2>1, <2>5, <3>2
      <4>2. ~Wrong(t)
        BY <3>1, <3>2, <4>1
      <4> QED
        BY <3>6, <4>2
    <3>8. g[s] = list[x].count + g[t]
      BY <2>5, <2>7 DEF SumStep, x
    <3>9. q[n] \in Int
      BY <1>1, <2>4
    <3> HIDE DEF t
    <3> QED
      BY <2>3, <3>3, <3>4, <3>7, <3>8, <3>9
  <2> QED
    BY <2>6, <2>7
<1>4. ~Wrong(S)
  <2>1. Cardinality(S) \notin Bad /\ Cardinality(S) \in Nat
    BY <1>2, <1>3
  <2> QED
    BY <2>1
<1> QED
  BY <1>4

\* The size that the reader counts is that of the partition.
LEMMA TotalSizeIs ==
  ASSUME WriterInv, Opened
  PROVE  Reader!TotalSize = Len(source.parts[index])
<1> DEFINE S == {i \in DOMAIN chunks : chunks[i].kind # "term"}
           Loop(g) == g = [s \in SUBSET S |-> SumStep(chunks, g, s)]
           e == CHOOSE g : Loop(g)
           n == Len(chunks)
           p == [k \in 0..n |-> IF k = 0 THEN 0 ELSE chunks[k].sector + chunks[k].count]
<1>1. Reader!TotalSize = SectorSize * e[S]
  BY DEF Reader!TotalSize, Reader!MapThenSumSet, Reader!MapThenFoldSet, SumStep, AnyOf
<1>2. /\ chunks \in Seq(ChunkRecords) /\ DOMAIN chunks = 1..n /\ n \in Nat
      /\ Len(source.parts[index]) = Sectors(chunks) * SectorSize
      /\ \A i \in 1..n : /\ chunks[i] \in ChunkRecords /\ Follows(chunks, i)
                         /\ chunks[i].kind = "term" => chunks[i].count = 0
  BY TableFacts
<1>3. \A i \in 1..n : chunks[i].sector \in Nat /\ chunks[i].count \in Nat
  BY <1>2 DEF ChunkRecords
<1> HIDE DEF n
<1>4. S \in SUBSET (1..n) /\ IsFiniteSet(S)
  <2>1. IsFiniteSet(1..n)
    BY <1>2, FS_Interval
  <2>2. S \in SUBSET (1..n)
    BY <1>2
  <2> QED
    BY <2>1, <2>2, FS_Subset
<1>5. \A i \in 1..n : i \notin S => chunks[i].count = 0
  BY <1>2
<1> HIDE DEF S
<1>6. Loop(e)
  <2>1. \E g : Loop(g)
    <3>1. \E g : SumsOf(chunks, S, g)
      BY <1>4, SumsExist
    <3> QED
      BY <3>1 DEF SumsOf
  <2> QED
    BY <2>1
<1> HIDE DEF e
<1>7. \A s \in SUBSET S : e[s] = SumStep(chunks, e, s)
  BY <1>6
<1>8. Counts(chunks, S, p)
  <2>1. p \in [0..n -> Int] /\ p[0] = 0
    BY <1>2, <1>3
  <2>2. ASSUME NEW k \in 1..n
        PROVE  p[k] = p[k - 1] + (IF k \in S THEN chunks[k].count ELSE 0)
    <3>1. k \in 0..n /\ k # 0 /\ k - 1 \in 0..n /\ (k # 1 => k - 1 \in 1..n /\ k - 1 # 0)
      BY <1>2
    <3>2. p[k] = chunks[k].sector + chunks[k].count
      BY <3>1
    <3>3. p[k - 1] = chunks[k].sector
      <4>1. CASE k = 1
        BY <1>2, <3>1, <4>1 DEF Follows
      <4>2. CASE k # 1
        BY <1>2, <3>1, <4>2 DEF Follows
      <4> QED
        BY <4>1, <4>2
    <3>4. (IF k \in S THEN chunks[k].count ELSE 0) = chunks[k].count
      BY <1>5
    <3> HIDE DEF p
    <3> QED
      BY <3>2, <3>3, <3>4
  <2> HIDE DEF p
  <2> QED
    BY <2>1, <2>2 DEF Counts, n
<1>9. p[n] = Sectors(chunks)
  <2>1. CASE n = 0
    <3>1. chunks = <<>>
      BY <1>2, <2>1, EmptySeq DEF n
    <3> QED
      BY <1>2, <2>1, <3>1 DEF Sectors
  <2>2. CASE n # 0
    <3>1. chunks # <<>> /\ n \in 0..n
      BY <1>2, <2>2 DEF n
    <3> QED
      BY <2>2, <3>1 DEF Sectors, n
  <2> QED
    BY <2>1, <2>2
<1> HIDE DEF p
<1>10. e[S] = p[n]
  <2>1. S \in SUBSET (1..Len(chunks))
    BY <1>4 DEF n
  <2>2. e[S] = p[Len(chunks)]
    BY <1>2, <1>7, <1>8, <2>1, SumsMeet
  <2> QED
    BY <2>2 DEF n
<1>11. Sectors(chunks) \in Int
  BY <1>2, <1>8, <1>9 DEF Counts, n
<1> QED
  BY <1>1, <1>2, <1>9, <1>10, <1>11, Constants

-----------------------------------------------------------------------------
(* The steps of the reader.                                                *)

\* Of the bytes asked for and those there are, the lesser number.
LEMMA ReaderMin ==
  ASSUME NEW a \in Int, NEW b \in Int
  PROVE  Reader!Min({a, b}) = IF a <= b THEN a ELSE b
<1>1. Vf!Min({a, b}) = IF a <= b THEN a ELSE b
  BY MinOfTwo
<1>2. Reader!Min({a, b}) = Vf!Min({a, b})
  BY DEF Reader!Min, Vf!Min
<1> QED
  BY <1>1, <1>2

\* A chunk is read: what is used, and where the position is after it.
LEMMA ChunkIsRead ==
  ASSUME IInv, img # <<>>, WriterInv, CacheInv, ReaderInv, Reader!ReadChunk
  PROVE  \E i \in Reader!ChunkAt(pos), data \in Seq(Solid), n \in Int :
           /\ Reader!Covers(i, pos \div SectorSize) /\ i \in DOMAIN chunks
           /\ IsChunk(data, chunks[i], source.parts[index])
           /\ DOMAIN cache' \subseteq DOMAIN chunks
           /\ \A j \in DOMAIN cache' : IsChunk(cache'[j], chunks[j], source.parts[index])
           /\ LET left == Len(data) - (pos - From(chunks[i]))
              IN n = IF want <= left THEN want ELSE left
           /\ \/ /\ n > 0 /\ want' = 0 /\ pos' = pos + n
                 /\ got' = SubSeq(data, pos - From(chunks[i]) + 1, pos - From(chunks[i]) + n)
              \/ n <= 0 /\ want' = want /\ got' = got /\ pos' = Upto(chunks[i])
<1>1. want > 0 /\ want \in Nat /\ pos \in Nat
  BY DiskImageAssumption DEF ReaderInv, Reader!ReadChunk
<1>2. Opened /\ DOMAIN cache \subseteq DOMAIN chunks
      /\ \A j \in DOMAIN cache : IsChunk(cache[j], chunks[j], source.parts[index])
  BY <1>1 DEF ReaderInv
<1>3. PICK i \in Reader!ChunkAt(pos) :
        /\ i \in DOMAIN cache \/ (chunks[i].kind \notin {"adc", "term"} /\ Reader!Loaded(chunks[i]) # Reader!Err)
        /\ Reader!CacheUse(i)
        /\ LET data == cache'[i]
               from == pos - chunks[i].sector * SectorSize
               n    == Reader!Min({want, Len(data) - from})
           IN \/ /\ n > 0 /\ want' = 0
                 /\ got' = SubSeq(data, from + 1, from + n) /\ pos' = pos + n
              \/ /\ n <= 0 /\ UNCHANGED <<want, got>>
                 /\ pos' = (chunks[i].sector + chunks[i].count) * SectorSize
  BY DEF Reader!ReadChunk
<1>4. Reader!Covers(i, pos \div SectorSize) /\ i \in DOMAIN chunks
  BY <1>2, <1>3, ChunkAtCovers
<1>5. /\ i \in DOMAIN cache' /\ DOMAIN cache' \subseteq DOMAIN chunks
      /\ \A j \in DOMAIN cache' : IsChunk(cache'[j], chunks[j], source.parts[index])
  BY <1>2, <1>3, <1>4, CacheUseFills
<1> DEFINE data == cache'[i]
           from == pos - From(chunks[i])
           n == Reader!Min({want, Len(data) - from})
<1>6. IsChunk(data, chunks[i], source.parts[index])
  BY <1>5
<1>7. data \in Seq(Solid) /\ Len(data) \in Nat
  BY <1>6, LenProperties DEF IsChunk
<1>8. From(chunks[i]) \in Nat
  BY <1>2, <1>4, TableFacts, PlaceOf
<1>9. \/ n > 0 /\ want' = 0 /\ got' = SubSeq(data, from + 1, from + n) /\ pos' = pos + n
      \/ n <= 0 /\ want' = want /\ got' = got /\ pos' = Upto(chunks[i])
  BY <1>3 DEF From, Upto
<1> HIDE DEF data
<1>10. from \in Int
  BY <1>1, <1>8
<1> HIDE DEF from
<1>11. PICK left \in Int : left = Len(data) - from
  <2>1. PICK m \in Nat : m = Len(data)
    BY <1>7
  <2>2. m - from \in Int
    BY <1>10
  <2> QED
    BY <2>1, <2>2
<1>12. n = IF want <= left THEN want ELSE left
  BY <1>1, <1>11, ReaderMin
<1>13. n \in Int
  BY <1>1, <1>12
<1> HIDE DEF n
<1> QED
  BY <1>3, <1>4, <1>5, <1>6, <1>7, <1>9, <1>11, <1>12, <1>13 DEF from

\* Every step of the reader keeps its invariant.
LEMMA ReaderRight ==
  ASSUME IInv, img # <<>>, WriterInv, CacheInv, ReaderInv, ImageMade, phase = "done",
         Reader!ReaderNext, UNCHANGED <<source, writerVars, img, vfState>>
  PROVE  ReaderInv'
<1>1. /\ pos \in Nat /\ want \in Lengths \cup {0} /\ Lengths \subseteq Nat
      /\ want # 0 => reader = "partition"
      /\ DOMAIN cache \subseteq DOMAIN chunks
      /\ \A i \in DOMAIN cache : IsChunk(cache[i], chunks[i], source.parts[index])
      /\ reader \notin {"closed", "failed"} => Opened
  BY DiskImageAssumption DEF ReaderInv
<1>2. index' = index
  BY ReaderSame
<1>3. ASSUME reader \notin {"closed", "failed"}, chunks' = chunks,
             reader' = reader \/ reader' = "panic" \/ (reader = "image" /\ reader' = "partition"),
             pos' \in Nat, want' \in Lengths \cup {0}, want' # 0 => reader' = "partition",
             cache' = cache
      PROVE  ReaderInv'
  BY <1>1, <1>2, <1>3, ReaderStays
<1>4. CASE Reader!Open
  <2>1. /\ reader = "closed" /\ pos' = pos /\ want' = want /\ cache' = cache
        /\ \/ reader' = "image" /\ Reader!Tables # <<>> /\ chunks' = Reader!Tables[index].chunks
           \/ reader' = "failed" /\ chunks' = chunks
    BY <1>4 DEF Reader!Open
  <2>2. chunks = <<>> /\ want = 0
    BY <2>1 DEF ReaderInv
  <2>3. DOMAIN cache = {}
    BY <1>1, <2>2
  <2>4. CASE reader' = "failed" /\ chunks' = chunks
    BY <1>1, <2>1, <2>2, <2>3, <2>4 DEF ReaderInv
  <2>5. CASE reader' = "image" /\ Reader!Tables # <<>> /\ chunks' = Reader!Tables[index].chunks
    <3>1. /\ ImageTyped /\ Sound /\ w \in Seq(Range(w)) /\ Parallel /\ writer = "finished"
      BY DEF IInv, FileTyped, ImageMade
    <3>2. PICK d, list : /\ IsImage(w, d, list)
                         /\ \A p \in DOMAIN source.parts : Describes(d, list[p].chunks, source.parts[p])
      BY <3>1 DEF WriterInv, IsImageOf
    <3>3. Begins(d, Decrypted) /\ Reader!Tables = list
      BY <2>5, <3>1, <3>2, TablesAre
    <3>4. Len(d) \in Nat
      BY <3>2, ImageCells
    <3>5. index \in DOMAIN source.parts
      BY DEF WriterInv
    <3>6. Describes(d, chunks', source.parts[index])
      BY <2>5, <3>2, <3>3, <3>5
    <3>7. source' = source /\ phase' = "done" /\ Decrypted' = Decrypted
      BY DEF writerVars, vfState, Decrypted, Vf!Plain
    <3>8. Opened'
      BY <1>2, <3>3, <3>4, <3>6, <3>7 DEF Opened
    <3>9. DOMAIN cache' = {} /\ pos' \in Nat /\ want' = 0
      BY <1>1, <2>1, <2>2, <2>3
    <3> QED
      BY <2>5, <3>7, <3>8, <3>9 DEF ReaderInv
  <2> QED
    BY <2>1, <2>4, <2>5
<1>5. CASE Reader!CopyPartition \/ Reader!CopyPanics \/ Reader!IntoPartitionReader
  <2>1. /\ reader = "image" /\ reader' \in {"image", "panic", "partition"}
        /\ chunks' = chunks /\ pos' = pos /\ want' = want /\ cache' = cache
    BY <1>5 DEF Reader!CopyPartition, Reader!CopyPanics, Reader!IntoPartitionReader
  <2>2. want = 0
    BY <1>1, <2>1
  <2> QED
    BY <1>1, <1>3, <2>1, <2>2
<1>6. CASE Reader!ReadPastEnd \/ Reader!LoadFails \/ Reader!LoadPanics
  <2>1. /\ want > 0 /\ want' = 0 /\ reader' \in {reader, "panic"}
        /\ chunks' = chunks /\ pos' = pos /\ cache' = cache
    BY <1>6 DEF Reader!ReadPastEnd, Reader!LoadFails, Reader!LoadPanics
  <2>2. reader = "partition"
    BY <1>1, <2>1
  <2> QED
    BY <1>1, <1>3, <2>1, <2>2
<1>7. CASE Reader!ReadChunk
  <2>1. PICK i \in Reader!ChunkAt(pos), data \in Seq(Solid), n \in Int :
           /\ i \in DOMAIN chunks
           /\ DOMAIN cache' \subseteq DOMAIN chunks
           /\ \A j \in DOMAIN cache' : IsChunk(cache'[j], chunks[j], source.parts[index])
           /\ \/ n > 0 /\ want' = 0 /\ pos' = pos + n
              \/ n <= 0 /\ want' = want /\ pos' = Upto(chunks[i])
    BY <1>7, ChunkIsRead
  <2>2. want > 0 /\ reader' = reader /\ chunks' = chunks
    BY <1>7 DEF Reader!ReadChunk
  <2>3. reader = "partition" /\ Opened
    BY <1>1, <2>2
  <2>4. Upto(chunks[i]) \in Nat
    BY <2>1, <2>3, TableFacts, PlaceOf
  <2>5. pos' \in Nat /\ want' \in Lengths \cup {0}
    BY <1>1, <2>1, <2>4
  <2> QED
    BY <1>2, <2>1, <2>2, <2>3, <2>5, ReaderStays
<1>8. CASE \E n \in Lengths : Reader!Read(n)
  <2>1. PICK n \in Lengths : Reader!Read(n)
    BY <1>8
  <2>2. /\ reader = "partition" /\ want' = n /\ reader' = reader
        /\ chunks' = chunks /\ pos' = pos /\ cache' = cache
    BY <2>1 DEF Reader!Read
  <2> QED
    BY <1>1, <1>3, <2>2
<1>9. CASE \E d \in Deltas : Reader!SeekAny(d)
  <2>1. PICK d \in Deltas : Reader!SeekAny(d)
    BY <1>9
  <2>2. PICK p : Reader!Seek(p) /\ p \in {d, pos + d, Reader!TotalSize + d}
    BY <2>1 DEF Reader!SeekAny
  <2>3. /\ reader = "partition" /\ want = 0 /\ want' = want /\ reader' = reader
        /\ chunks' = chunks /\ cache' = cache
        /\ IF p < 0 THEN pos' = pos ELSE pos' = p
    BY <2>2 DEF Reader!Seek
  <2>4. Opened
    BY <1>1, <2>3
  <2>5. Reader!TotalSize \in Nat
    BY <2>4, TotalSizeIs, TableFacts
  <2>6. d \in Int
    BY DiskImageAssumption
  <2>7. p \in Int
    <3> HIDE DEF Reader!TotalSize
    <3> QED
      BY <1>1, <2>2, <2>5, <2>6
  <2>8. pos' \in Nat
    BY <1>1, <2>3, <2>7
  <2> QED
    BY <1>1, <1>3, <2>3, <2>8
<1> QED
  BY <1>4, <1>5, <1>6, <1>7, <1>8, <1>9 DEF Reader!ReaderNext
\* Every step keeps what is said of the reader.
LEMMA NextReader ==
  IInv /\ WriterInv /\ CacheInv /\ ImageMade /\ ReaderInv /\ [Next]_vars => ReaderInv'
<1> SUFFICES ASSUME IInv, WriterInv, CacheInv, ImageMade, ReaderInv, [Next]_vars PROVE ReaderInv'
  OBVIOUS
<1>1. img = <<>> => Vf!VfInit
  BY DEF IInv
<1>2. phase = "done" => img # <<>>
  BY <1>1 DEF Vf!VfInit
<1>3. ASSUME UNCHANGED readerVars, index' = index,
             reader \notin {"closed", "failed"} => source' = source /\ phase' = phase /\ Decrypted' = Decrypted
      PROVE  ReaderInv'
  <2>1. /\ reader' = reader /\ chunks' = chunks /\ pos' = pos /\ cache' = cache /\ want' = want
    BY <1>3 DEF readerVars
  <2>2. CASE reader \in {"closed", "failed"}
    <3>1. DOMAIN cache = {}
      <4>1. DOMAIN <<>> = {}
        OBVIOUS
      <4> QED
        BY <2>2, <4>1 DEF ReaderInv
    <3> QED
      BY <2>1, <2>2, <3>1 DEF ReaderInv
  <2>3. CASE reader \notin {"closed", "failed"}
    <3>1. source' = source /\ phase' = phase /\ (Opened => Opened')
      BY <1>3, <2>1, <2>3 DEF Opened
    <3> QED
      BY <1>3, <2>1, <2>3, <3>1 DEF ReaderInv
  <2> QED
    BY <2>2, <2>3
<1>4. reader \notin {"closed", "failed"} => phase = "done" /\ img # <<>> /\ writer = "finished"
  BY <1>2 DEF ReaderInv, ImageMade
<1>5. CASE Writer!WriterNext /\ UNCHANGED <<sourceVars, img, vfState, readerVars>>
  <2>1. writer = "writing"
    BY <1>5 DEF Writer!WriterNext, Writer!AddPartition, Writer!Finish, Writer!WriteFails
  <2> QED
    BY <1>3, <1>4, <1>5, <2>1 DEF sourceVars
<1>6. CASE Encrypt
  <2>1. img = <<>> /\ UNCHANGED <<sourceVars, readerVars>>
    BY <1>6 DEF Encrypt
  <2> QED
    BY <1>3, <1>4, <2>1 DEF sourceVars
<1>7. CASE img # <<>> /\ Vf!VfNext /\ UNCHANGED <<sourceVars, writerVars, readerVars>>
  <2>1. phase # "done"
    BY <1>7 DEF Vf!VfNext, Vf!New, Vf!InputFails, Vf!DecryptParallel, Vf!FillBatch, Vf!Filled,
                Vf!WriteBatch, Vf!ReadEnd, Vf!Read, Vf!Worker
  <2> QED
    BY <1>3, <1>4, <1>7, <2>1 DEF sourceVars
<1>8. CASE phase = "done" /\ Reader!ReaderNext /\ UNCHANGED <<source, writerVars, img, vfState>>
  BY <1>2, <1>8, ReaderRight
<1>9. CASE UNCHANGED vars
  <2>1. UNCHANGED <<sourceVars, writerVars, img, vfState, readerVars>>
    BY <1>9 DEF vars
  <2>2. source' = source /\ index' = index /\ w' = w /\ output' = output /\ phase' = phase
    BY <2>1 DEF sourceVars, writerVars, vfState
  <2>3. Decrypted' = Decrypted
    BY <2>2 DEF Decrypted, Vf!Plain
  <2> QED
    BY <1>3, <2>1, <2>2, <2>3
<1> QED
  BY <1>5, <1>6, <1>7, <1>8, <1>9 DEF Next

\* At the start nothing is opened.
LEMMA InitReader ==
  Init => ReaderInv /\ ImageMade
<1> SUFFICES ASSUME Init PROVE ReaderInv /\ ImageMade
  OBVIOUS
<1>1. reader = "closed" /\ chunks = <<>> /\ pos = 0 /\ cache = <<>> /\ want = 0 /\ img = <<>>
  BY DEF Init, Reader!ReaderInit
<1>2. DOMAIN <<>> = {}
  OBVIOUS
<1> QED
  BY <1>1, <1>2 DEF ReaderInv, ImageMade

\* All of it, which is inductive: a copy or a read is right because the table is, the
\* table because nothing plain is out of place, and that because the file is an image.
AllInv == IInv /\ CacheInv /\ WriterInv /\ ImageMade /\ ReaderInv

\* It holds from one step to the next: every part cites those before it.
THEOREM AllInvariance == Spec => []AllInv
<1>1. Init => AllInv
  BY InitIInv, InitCache, InitWriter, InitReader DEF AllInv
<1>2. AllInv /\ [Next]_vars => AllInv'
  BY NextIInv, NextCache, NextWriter, NextImageMade, NextReader DEF AllInv
<1> QED
  BY <1>1, <1>2, PTL DEF Spec

\* A batch has no more chunks than bytes.
LEMMA BatchChunks ==
  ASSUME ImageTyped, img # <<>>, NEW n \in Nat, n <= Vf!BatchSize
  PROVE  0..Vf!NumChunks(n) - 1 \subseteq 0..Vf!BatchSize
<1>1. Vf!BlockLen \in Nat \ {0} /\ Vf!BatchSize \in Nat
  BY ImageFacts, BatchFacts
<1>2. /\ Vf!NumChunks(n) \in Nat /\ n <= Vf!NumChunks(n) * Vf!BlockLen
      /\ Vf!NumChunks(n) * Vf!BlockLen < n + Vf!BlockLen
  BY ChunkCount
<1> DEFINE c == Vf!NumChunks(n)
           B == Vf!BlockLen
           M == Vf!BatchSize
<1>3. c \in Nat /\ B \in Nat \ {0} /\ c * B < n + B /\ n <= M /\ M \in Nat
  BY <1>1, <1>2
<1> HIDE DEF c, B, M
<1>4. c <= n
  <2> SUFFICES ASSUME ~(c <= n) PROVE FALSE
    OBVIOUS
  <2>1. n + 1 <= c
    BY <1>3
  <2>2. (n + 1) * B <= c * B
    BY <1>3, <2>1
  <2>3. (n + 1) * B = n * B + B /\ n * B >= n
    BY <1>3
  <2>4. c * B \in Nat /\ n * B \in Nat
    BY <1>3
  <2> QED
    BY <1>3, <2>2, <2>3, <2>4
<1>5. 0..c - 1 \subseteq 0..M
  BY <1>3, <1>4
<1> QED
  BY <1>5 DEF c, M

\* The state has its types, whatever is written, encrypted, decrypted and read: the
\* input is never past its end, the threads have no more chunks than the batch, a
\* position is never below zero, and what is cached is no error and in the table.
THEOREM TypeCorrect == Spec => []TypeOK
<1>1. AllInv => TypeOK
  <2> SUFFICES ASSUME AllInv, img # <<>> PROVE Vf!VfTypeOK /\ Reader!ReaderTypeOK
    BY DEF TypeOK
  <2>1. /\ ImageTyped /\ Sound /\ Parallel /\ ReaderInv /\ WriterInv
    BY DEF AllInv, IInv, ImageMade
  <2>2. Vf!VfTypeOK
    <3>1. /\ at \in Nat /\ img.len \in Nat /\ at <= img.len
      BY <2>1, ImageFacts DEF Sound, Typed, Parallel
    <3>2. /\ chunkNo \in Nat /\ totalOut \in Nat /\ bufferPos \in 0..Len(buffer)
          /\ phase \in Vf!Phases /\ short \in BOOLEAN
      BY <2>1 DEF Sound, Typed
    <3>3. todo \subseteq 0..Vf!BatchSize
      <4>1. CASE phase # "decrypting"
        BY <2>1, <4>1 DEF Parallel
      <4>2. CASE phase = "decrypting"
        <5>1. todo \subseteq 0..Vf!NumChunks(Len(buffer)) - 1 /\ Len(buffer) <= Vf!ToRead
          BY <2>1, <4>2 DEF Sound, Decrypting, BatchRead
        <5>2. Vf!ToRead \in Nat /\ Vf!ToRead <= Vf!BatchSize /\ Vf!BatchSize \in Nat
          BY <2>1, ToReadFacts DEF Sound, Typed
        <5>3. PICK n \in Nat : n = Len(buffer)
          BY <2>1, LenProperties DEF Sound, Typed
        <5>4. n <= Vf!BatchSize
          BY <5>1, <5>2, <5>3
        <5>5. 0..Vf!NumChunks(n) - 1 \subseteq 0..Vf!BatchSize
          BY <2>1, <5>4, BatchChunks
        <5> QED
          BY <5>1, <5>3, <5>5
      <4> QED
        BY <4>1, <4>2
    <3> QED
      BY <3>1, <3>2, <3>3 DEF Vf!VfTypeOK
  <2>3. Reader!ReaderTypeOK
    <3>1. /\ reader \in {"closed", "image", "partition", "failed", "panic"}
          /\ pos \in Nat /\ want \in Lengths \cup {0} /\ DOMAIN cache \subseteq DOMAIN chunks
      BY <2>1 DEF ReaderInv
    <3>2. Reader!Err \notin Range(cache)
      <4>1. \A i \in DOMAIN cache : cache[i] \in Seq(Solid)
        BY <2>1 DEF ReaderInv, IsChunk
      <4>2. \A i \in DOMAIN cache : cache[i] # Reader!Err
        BY <4>1, SolidIsNoErr
      <4> QED
        BY <4>2 DEF Range
    <3>3. \A i \in DOMAIN chunks : chunks[i].kind \in Reader!Kinds
      <4>1. CASE reader \in {"closed", "failed"}
        <5>1. chunks = <<>> /\ DOMAIN <<>> = {}
          BY <2>1, <4>1 DEF ReaderInv
        <5> QED
          BY <5>1
      <4>2. CASE reader \notin {"closed", "failed"}
        <5>1. \A i \in DOMAIN chunks : chunks[i] \in ChunkRecords
          BY <2>1, <4>2, TableFacts DEF ReaderInv
        <5> QED
          BY <5>1 DEF ChunkRecords, Writer!Kinds, Reader!Kinds
      <4> QED
        BY <4>1, <4>2
    <3> QED
      BY <3>1, <3>2, <3>3 DEF Reader!ReaderTypeOK, Reader!Range, Range
  <2> QED
    BY <2>2, <2>3
<1> QED
  BY <1>1, AllInvariance, PTL

-----------------------------------------------------------------------------
(* Copying: one chunk after another, one byte after another.               *)

\* Bytes and holes one after another.
Run == Seq(Int)

\* The sequences of a sequence one after another: what each adds to those before it.
LEMMA ConcatsExist ==
  ASSUME NEW N \in Nat, NEW s
  PROVE  \E g : g = [i \in 1..N |-> IF i = 1 THEN s[i] ELSE g[i - 1] \o s[i]]
<1> DEFINE Longer(x, i) == x \o s[i]
           First(i) == s[i]
           Loop(g, n) == g = [i \in 1..n |-> IF i = 1 THEN First(i) ELSE Longer(g[i - 1], i)]
           Bad == {n \in Nat : ~ \E g : Loop(g, n)}
<1>1. Bad = {}
  <2> SUFFICES ASSUME Bad # {} PROVE FALSE
    OBVIOUS
  <2> HIDE DEF Longer, First
  <2>1. PICK n \in Bad : \A k \in Bad : n <= k
    <3>1. Bad \in SUBSET Nat
      OBVIOUS
    <3> HIDE DEF Bad
    <3> QED
      BY <3>1, LeastIn
  <2>2. CASE n = 0
    <3> DEFINE g == [i \in 1..n |-> 0]
    <3>1. 1..n = {}
      BY <2>2
    <3>2. Loop(g, n)
      BY <3>1
    <3> QED
      BY <3>2
  <2>3. CASE n # 0
    <3>1. n \in Nat /\ n - 1 \in Nat /\ n - 1 \notin Bad
      <4>1. n \in Nat
        OBVIOUS
      <4> HIDE DEF Bad
      <4> QED
        BY <2>1, <2>3, <4>1
    <3>2. PICK g : Loop(g, n - 1)
      BY <3>1
    <3> DEFINE e == [i \in 1..n |->
                       IF i = n THEN (IF n = 1 THEN First(n) ELSE Longer(g[n - 1], n)) ELSE g[i]]
    <3>3. \A i \in 1..n - 1 : g[i] = IF i = 1 THEN First(i) ELSE Longer(g[i - 1], i)
      BY <3>2
    <3>4. ASSUME NEW i \in 1..n PROVE e[i] = IF i = 1 THEN First(i) ELSE Longer(e[i - 1], i)
      <4>1. CASE i = n
        <5>1. e[i] = IF n = 1 THEN First(n) ELSE Longer(g[n - 1], n)
          BY <3>1, <4>1
        <5>2. n # 1 => e[n - 1] = g[n - 1]
          BY <3>1
        <5> QED
          BY <4>1, <5>1, <5>2
      <4>2. CASE i # n
        <5>1. i \in 1..n - 1 /\ e[i] = g[i]
          BY <3>1, <4>2
        <5>2. i # 1 => e[i - 1] = g[i - 1]
          BY <3>1, <4>2
        <5> QED
          BY <3>3, <5>1, <5>2
      <4> QED
        BY <4>1, <4>2
    <3>5. Loop(e, n)
      <4> DEFINE d == [i \in 1..n |-> IF i = 1 THEN First(i) ELSE Longer(e[i - 1], i)]
      <4>1. DOMAIN e = 1..n /\ DOMAIN d = 1..n /\ \A i \in 1..n : e[i] = d[i]
        BY <3>4
      <4>2. e = [i \in 1..n |-> e[i]] /\ d = [i \in 1..n |-> d[i]]
        OBVIOUS
      <4> HIDE DEF e
      <4>3. e = d
        BY <4>1, <4>2
      <4> QED
        BY <4>3
    <3> HIDE DEF e
    <3> QED
      BY <3>5
  <2> QED
    BY <2>2, <2>3
<1>2. \E g : Loop(g, N)
  BY <1>1
<1> QED
  BY <1>2

\* What is gathered of s after each of its first N.
Gathers(g, s, N) ==
  g \in [0..N -> Run] /\ g[0] = <<>> /\ \A k \in 1..N : g[k] = g[k - 1] \o s[k]

\* Flattened, a sequence is what is gathered after its last.
LEMMA FlattenIs ==
  ASSUME NEW N \in Nat \ {0}, NEW s, Len(s) = N, \A k \in 1..N : s[k] \in Run
  PROVE  \E g : Gathers(g, s, N) /\ Reader!FlattenSeq(s) = g[N]
<1> DEFINE Loop(e) == e = [i \in 1..N |-> IF i = 1 THEN s[i] ELSE e[i - 1] \o s[i]]
           e == CHOOSE x : Loop(x)
<1>1. Loop(e)
  BY ConcatsExist
<1>2. Reader!FlattenSeq(s) = e[N]
  BY DEF Reader!FlattenSeq
<1> HIDE DEF e
<1>3. DOMAIN e = 1..N /\ \A i \in 1..N : e[i] = IF i = 1 THEN s[i] ELSE e[i - 1] \o s[i]
  <2>1. \A i \in 1..N : e[i] = IF i = 1 THEN s[i] ELSE e[i - 1] \o s[i]
    BY <1>1
  <2>2. DOMAIN e = 1..N
    BY <1>1
  <2> QED
    BY <2>1, <2>2
<1> DEFINE Bad == {n \in Nat : n \in 1..N /\ e[n] \notin Run}
<1>4. Bad = {}
  <2> SUFFICES ASSUME Bad # {} PROVE FALSE
    OBVIOUS
  <2>1. PICK n \in Bad : \A k \in Bad : n <= k
    <3>1. Bad \in SUBSET Nat
      OBVIOUS
    <3> HIDE DEF Bad
    <3> QED
      BY <3>1, LeastIn
  <2>2. n \in 1..N /\ e[n] \notin Run /\ n \in Nat
    OBVIOUS
  <2>3. n # 1
    BY <1>3, <2>2
  <2>4. n - 1 \in 1..N /\ n - 1 \in Nat /\ ~(n <= n - 1)
    BY <2>2, <2>3
  <2>5. e[n - 1] \in Run
    <3>1. n - 1 \notin Bad
      <4> HIDE DEF Bad
      <4> QED
        BY <2>1, <2>4
    <3> QED
      BY <2>4, <3>1
  <2>6. e[n] = e[n - 1] \o s[n]
    BY <1>3, <2>2, <2>3
  <2> QED
    BY <2>2, <2>5, <2>6, ConcatProperties DEF Run
<1>5. \A n \in 1..N : e[n] \in Run
  <2>1. \A n \in 1..N : n \in Nat
    OBVIOUS
  <2> QED
    BY <1>4, <2>1
<1> DEFINE g == [k \in 0..N |-> IF k = 0 THEN <<>> ELSE e[k]]
<1>6. g \in [0..N -> Run]
  <2>1. <<>> \in Run
    BY EmptySeq DEF Run
  <2>2. ASSUME NEW k \in 0..N PROVE (IF k = 0 THEN <<>> ELSE e[k]) \in Run
    <3>1. k # 0 => k \in 1..N
      OBVIOUS
    <3> QED
      BY <1>5, <2>1, <3>1
  <2> QED
    BY <2>2
<1>7. g[0] = <<>> /\ g[N] = e[N]
  OBVIOUS
<1>8. ASSUME NEW k \in 1..N PROVE g[k] = g[k - 1] \o s[k]
  <2>1. g[k] = e[k]
    OBVIOUS
  <2>2. CASE k = 1
    <3>1. g[k - 1] = <<>> /\ e[k] = s[k] /\ s[k] \in Seq(Int)
      BY <1>3, <2>2 DEF Run
    <3> QED
      BY <2>1, <3>1, ConcatEmptySeq
  <2>3. CASE k # 1
    <3>1. k - 1 \in 1..N /\ k - 1 # 0
      BY <2>3
    <3>2. g[k - 1] = e[k - 1]
      BY <3>1
    <3> QED
      BY <1>3, <2>1, <2>3, <3>2
  <2> QED
    BY <2>2, <2>3
<1> HIDE DEF g
<1>9. Gathers(g, s, N)
  BY <1>6, <1>7, <1>8 DEF Gathers
<1> QED
  BY <1>2, <1>7, <1>9

\* Flattened, nothing is nothing.
LEMMA FlattenNone ==
  ASSUME NEW s, s = <<>>
  PROVE  Reader!FlattenSeq(s) = <<>>
<1>1. Len(s) = 0
  OBVIOUS
<1> QED
  BY <1>1 DEF Reader!FlattenSeq

\* A byte of the partition, if it is there.
Solids(part) == [p \in DOMAIN part |-> IF part[p] = Hole THEN <<>> ELSE <<part[p]>>]

\* They are as many as the bytes of the partition, each a run.
LEMMA SolidsAre ==
  ASSUME NEW part \in Seq(Int)
  PROVE  /\ Len(Solids(part)) = Len(part) /\ Len(part) \in Nat
         /\ \A p \in 1..Len(part) :
              /\ Solids(part)[p] \in Run
              /\ Solids(part)[p] = IF part[p] = Hole THEN <<>> ELSE <<part[p]>>
<1> DEFINE F(p) == IF part[p] = Hole THEN <<>> ELSE <<part[p]>>
           n == Len(part)
<1>1. n \in Nat /\ DOMAIN part = 1..n /\ \A p \in 1..n : part[p] \in Int
  BY LenProperties, ElementOfSeq
<1>2. ASSUME NEW p \in 1..n PROVE F(p) \in Run
  <2>1. \A x \in Int : <<x>> \in Seq(Int)
    OBVIOUS
  <2>2. <<>> \in Seq(Int)
    OBVIOUS
  <2> QED
    BY <1>1, <2>1, <2>2 DEF Run
<1>3. Solids(part) = [p \in 1..n |-> F(p)]
  BY <1>1 DEF Solids
<1>4. \A p \in 1..n : [q \in 1..n |-> F(q)][p] = F(p)
  OBVIOUS
<1> HIDE DEF F, n
<1>5. [p \in 1..n |-> F(p)] \in Seq(Run) /\ Len([p \in 1..n |-> F(p)]) = n
  BY <1>1, <1>2, IsASeq
<1>6. Len(Solids(part)) = n /\ \A p \in 1..n : Solids(part)[p] = F(p)
  BY <1>3, <1>4, <1>5
<1> QED
  BY <1>1, <1>2, <1>6 DEF F, n

\* What is gathered with one more byte.
LEMMA OneGathered ==
  ASSUME NEW part \in Seq(Int), NEW g, Gathers(g, Solids(part), Len(part)), NEW q \in 1..Len(part)
  PROVE  /\ g[q] \in Run /\ g[q - 1] \in Run
         /\ part[q] # Hole => g[q] = g[q - 1] \o <<part[q]>>
         /\ part[q] = Hole => g[q] = g[q - 1]
<1>1. Len(part) \in Nat
  BY LenProperties
<1>2. q \in 0..Len(part) /\ q - 1 \in 0..Len(part)
  BY <1>1
<1>3. g[q] \in Run /\ g[q - 1] \in Run /\ g[q] = g[q - 1] \o Solids(part)[q]
  BY <1>2 DEF Gathers
<1>4. Solids(part)[q] = IF part[q] = Hole THEN <<>> ELSE <<part[q]>>
  BY SolidsAre
<1>5. g[q - 1] \o <<>> = g[q - 1]
  BY <1>3, ConcatEmptySeq DEF Run
<1> QED
  BY <1>3, <1>4, <1>5

\* Runs go one after another in any grouping.
LEMMA RunAssociative ==
  ASSUME NEW x \in Run, NEW y \in Run, NEW z \in Run
  PROVE  (x \o y) \o z = x \o (y \o z)
BY ConcatAssociative DEF Run

\* The first bytes of a run, and one more.
LEMMA FirstOf ==
  ASSUME NEW b \in Run, NEW j \in 0..Len(b)
  PROVE  /\ SubSeq(b, 1, j) \in Run /\ Len(SubSeq(b, 1, j)) = j
         /\ \A i \in 1..j : SubSeq(b, 1, j)[i] = b[i]
<1>1. PICK zero \in Nat : zero = 0
  OBVIOUS
<1>2. zero + j <= Len(b) /\ j \in Nat
  BY <1>1, LenProperties DEF Run
<1>3. /\ SubSeq(b, zero + 1, zero + j) \in Seq(Int) /\ Len(SubSeq(b, zero + 1, zero + j)) = j
      /\ \A i \in 1..j : SubSeq(b, zero + 1, zero + j)[i] = b[zero + i]
  BY <1>2, PartIs DEF Run
<1>4. zero + 1 = 1 /\ zero + j = j /\ \A i \in 1..j : zero + i = i
  BY <1>1, <1>2
<1> QED
  BY <1>3, <1>4 DEF Run

\* One byte more than the first j - 1 of them.
LEMMA FirstMore ==
  ASSUME NEW b \in Run, NEW j \in 1..Len(b)
  PROVE  SubSeq(b, 1, j) = SubSeq(b, 1, j - 1) \o <<b[j]>> /\ <<b[j]>> \in Run
<1>1. Len(b) \in Nat /\ b[j] \in Int
  BY LenProperties, ElementOfSeq DEF Run
<1>2. j \in 0..Len(b) /\ j - 1 \in 0..Len(b) /\ j \in Nat
  BY <1>1
<1>3. PICK u \in Run : u = SubSeq(b, 1, j - 1) /\ Len(u) = j - 1 /\ \A i \in 1..j - 1 : u[i] = b[i]
  BY <1>2, FirstOf
<1>4. PICK s \in Run : s = SubSeq(b, 1, j) /\ Len(s) = j /\ \A i \in 1..j : s[i] = b[i]
  BY <1>2, FirstOf
<1>5. PICK v \in Run : v = <<b[j]>> /\ Len(v) = 1 /\ v[1] = b[j]
  <2>1. \A x \in Int : <<x>> \in Seq(Int) /\ Len(<<x>>) = 1 /\ <<x>>[1] = x
    OBVIOUS
  <2> QED
    BY <1>1, <2>1 DEF Run
<1>6. /\ u \o v \in Seq(Int) /\ Len(u \o v) = Len(u) + Len(v)
      /\ \A i \in 1..Len(u) + Len(v) : (u \o v)[i] = IF i <= Len(u) THEN u[i] ELSE v[i - Len(u)]
  BY ConcatProperties DEF Run
<1>7. Len(u \o v) = j
  BY <1>2, <1>3, <1>5, <1>6
<1>8. ASSUME NEW i \in 1..j PROVE (u \o v)[i] = b[i]
  <2>1. (u \o v)[i] = IF i <= j - 1 THEN u[i] ELSE v[i - (j - 1)]
    BY <1>3, <1>6, <1>7
  <2>2. CASE i <= j - 1
    BY <1>2, <1>3, <2>1, <2>2
  <2>3. CASE ~(i <= j - 1)
    <3>1. i = j /\ i - (j - 1) = 1
      BY <1>2, <2>3
    <3> QED
      BY <1>5, <2>1, <2>3, <3>1
  <2> QED
    BY <2>2, <2>3
<1>9. u \o v = s
  BY <1>4, <1>6, <1>7, <1>8, SameElements DEF Run
<1> QED
  BY <1>3, <1>4, <1>5, <1>9

\* Past a chunk its bytes are gathered and no more.
LEMMA ChunkGathered ==
  ASSUME NEW part \in Seq(Int), NEW g, Gathers(g, Solids(part), Len(part)),
         NEW c \in ChunkRecords, Upto(c) <= Len(part), NEW b, IsChunk(b, c, part)
  PROVE  g[Upto(c)] = g[From(c)] \o b
<1> DEFINE L == Len(part)
           a == From(c)
           e == Upto(c)
           m == Len(b)
<1>1. L \in Nat /\ a \in Nat /\ e \in Nat /\ a <= e /\ e <= L
  BY PlaceOf, LenProperties
<1>2. b \in Seq(Solid) /\ m \in Nat
  BY LenProperties DEF IsChunk
<1>3. /\ a + m <= e
      /\ \A j \in 1..m : part[a + j] = b[j] /\ b[j] \in Nat \ {Hole}
      /\ \A p \in a + m + 1..e : part[p] = Hole
  BY DEF IsChunk, Fills
<1>4. \A p \in 0..L : g[p] \in Run
  BY DEF Gathers
<1> HIDE DEF L, a, e, m
<1>6. b \in Run
  <2>1. Solid \subseteq Int
    BY DEF Solid
  <2> QED
    BY <1>2, <2>1, SeqMonotonic DEF Run
<1> DEFINE pre(j) == SubSeq(b, 1, j)
<1>7. \A j \in 0..m : pre(j) \in Run /\ Len(pre(j)) = j
  BY <1>6, FirstOf DEF m
<1>0. \A j \in 1..m : pre(j) = pre(j - 1) \o <<b[j]>> /\ <<b[j]>> \in Run
  BY <1>6, FirstMore DEF m
<1> HIDE DEF pre
<1> DEFINE Bad == {j \in Nat : j \in 0..m /\ g[a + j] # g[a] \o pre(j)}
<1>8. Bad = {}
  <2> SUFFICES ASSUME Bad # {} PROVE FALSE
    OBVIOUS
  <2>1. PICK j \in Bad : \A k \in Bad : j <= k
    <3>1. Bad \in SUBSET Nat
      OBVIOUS
    <3> HIDE DEF Bad
    <3> QED
      BY <3>1, LeastIn
  <2>2. j \in Nat /\ j \in 0..m /\ g[a + j] # g[a] \o pre(j)
    OBVIOUS
  <2>3. CASE j = 0
    <3>1. Len(pre(j)) = 0 /\ pre(j) \in Run
      BY <1>7, <2>2, <2>3
    <3>2. pre(j) = <<>>
      BY <3>1, EmptySeq DEF Run
    <3>3. g[a] \in Seq(Int) /\ a + j = a
      BY <1>1, <1>4, <2>3 DEF Run
    <3>4. g[a] \o <<>> = g[a]
      BY <3>3, ConcatEmptySeq
    <3> QED
      BY <2>2, <3>2, <3>3, <3>4
  <2>4. CASE j # 0
    <3>1. /\ j - 1 \in Nat /\ j - 1 \in 0..m /\ ~(j <= j - 1) /\ j \in 1..m
          /\ a + j \in 1..L /\ a + j - 1 = a + (j - 1) /\ a \in 0..L
      BY <1>1, <1>2, <1>3, <2>2, <2>4
    <3>2. g[a + (j - 1)] = g[a] \o pre(j - 1)
      <4>1. j - 1 \notin Bad
        <5> HIDE DEF Bad
        <5> QED
          BY <2>1, <3>1
      <4> QED
        BY <3>1, <4>1
    <3>3. g[a + j] = g[a + (j - 1)] \o <<b[j]>>
      <4>1. part[a + j] = b[j] /\ b[j] # Hole
        BY <1>3, <3>1
      <4>2. PICK q \in 1..L : q = a + j /\ q - 1 = a + (j - 1)
        BY <3>1
      <4>3. part[q] # Hole => g[q] = g[q - 1] \o <<part[q]>>
        BY OneGathered DEF L
      <4> QED
        BY <4>1, <4>2, <4>3
    <3>4. g[a + j] = (g[a] \o pre(j - 1)) \o <<b[j]>>
      BY <3>2, <3>3
    <3>5. g[a] \in Run /\ pre(j - 1) \in Run /\ <<b[j]>> \in Run
      BY <1>0, <1>4, <1>7, <3>1
    <3>6. g[a + j] = g[a] \o (pre(j - 1) \o <<b[j]>>)
      BY <3>4, <3>5, RunAssociative
    <3>7. pre(j - 1) \o <<b[j]>> = pre(j)
      BY <1>0, <3>1
    <3> QED
      BY <2>2, <3>6, <3>7
  <2> QED
    BY <2>3, <2>4
<1>9. g[a + m] = g[a] \o b
  <2>1. m \in 0..m /\ m \in Nat
    BY <1>2
  <2>2. pre(m) = b
    <3>1. pre(m) \in Seq(Int) /\ Len(pre(m)) = Len(b) /\ \A i \in 1..Len(b) : pre(m)[i] = b[i]
      BY <1>6, <2>1, FirstOf DEF Run, m, pre
    <3> QED
      BY <1>6, <3>1, SameElements DEF Run
  <2> QED
    BY <1>8, <2>1, <2>2
<1> DEFINE Off == {p \in Nat : p \in a + m..e /\ g[p] # g[a + m]}
<1>10. Off = {}
  <2> SUFFICES ASSUME Off # {} PROVE FALSE
    OBVIOUS
  <2>1. PICK p \in Off : \A k \in Off : p <= k
    <3>1. Off \in SUBSET Nat
      OBVIOUS
    <3> HIDE DEF Off
    <3> QED
      BY <3>1, LeastIn
  <2>2. p \in Nat /\ p \in a + m..e /\ g[p] # g[a + m]
    OBVIOUS
  <2>3. /\ p - 1 \in Nat /\ p - 1 \in a + m..e /\ ~(p <= p - 1) /\ p \in a + m + 1..e /\ p \in 1..L
        /\ p - 1 \in 0..L
    BY <1>1, <1>2, <2>2, SMTT(20)
  <2>4. g[p - 1] = g[a + m]
    <3>1. p - 1 \notin Off
      <4> HIDE DEF Off
      <4> QED
        BY <2>1, <2>3
    <3> QED
      BY <2>3, <3>1
  <2>5. part[p] = Hole => g[p] = g[p - 1]
    BY <2>3, OneGathered DEF L
  <2> QED
    BY <1>3, <2>2, <2>3, <2>4, <2>5
<1>11. g[e] = g[a + m]
  <2>1. e \in Nat /\ e \in a + m..e
    BY <1>1, <1>2, <1>3
  <2> QED
    BY <1>10, <2>1
<1> QED
  BY <1>9, <1>11 DEF e, a

\* The chunks of a table one after the other are the partition.
LEMMA CopyIs ==
  ASSUME IInv, img # <<>>, WriterInv, Opened, \A i \in DOMAIN chunks : chunks[i].kind # "adc"
  PROVE  Reader!FlattenSeq([i \in DOMAIN chunks |-> Reader!Sector(chunks[i])])
           = WithoutHoles(source.parts[index])
<1> DEFINE F(i) == Reader!Sector(chunks[i])
           s == [i \in DOMAIN chunks |-> F(i)]
           n == Len(chunks)
           part == source.parts[index]
           L == Len(part)
           past(k) == IF k = 0 THEN 0 ELSE Upto(chunks[k])
<1>1. /\ part \in Seq(Int) /\ L \in Nat /\ chunks \in Seq(ChunkRecords)
      /\ DOMAIN chunks = 1..n /\ n \in Nat /\ L = Sectors(chunks) * SectorSize
      /\ \A i \in 1..n : chunks[i] \in ChunkRecords /\ Follows(chunks, i) /\ Upto(chunks[i]) <= L
  BY TableFacts
<1>2. \A i \in 1..n : IsChunk(F(i), chunks[i], part)
  BY <1>1, LoadedIs
<1> HIDE DEF F, part
<1>3. WithoutHoles(part) = Reader!FlattenSeq(Solids(part))
  BY DEF WithoutHoles, Solids
<1>4. /\ Len(Solids(part)) = L /\ \A p \in 1..L : Solids(part)[p] \in Run
  BY <1>1, SolidsAre
<1>5. ASSUME NEW i \in 1..n PROVE F(i) \in Run
  <2>1. F(i) \in Seq(Solid) /\ Solid \subseteq Int
    BY <1>2 DEF IsChunk, Solid
  <2> QED
    BY <2>1, SeqMonotonic DEF Run
<1>6. s = [i \in 1..n |-> F(i)] /\ \A i \in 1..n : s[i] = F(i)
  BY <1>1
<1>7. Len(s) = n
  BY <1>1, <1>5, <1>6, IsASeq
<1> HIDE DEF s, n, L
<1>8. CASE n = 0
  <2>1. chunks = <<>> /\ Len(s) = 0
    BY <1>1, <1>7, <1>8, EmptySeq DEF n
  <2>2. L = 0
    BY <1>1, <2>1, Constants DEF Sectors
  <2>3. s = <<>>
    <3>1. 1..n = {} /\ [i \in {} |-> F(i)] = <<>>
      BY <1>8
    <3> QED
      BY <1>6, <3>1
  <2>4. Solids(part) = <<>>
    <3>1. part = <<>>
      BY <1>1, <2>2, EmptySeq DEF L
    <3> QED
      BY <3>1 DEF Solids
  <2> QED
    BY <1>3, <2>3, <2>4, FlattenNone DEF s, F, part
<1>9. CASE n # 0
  <2>1. PICK g : Gathers(g, s, n) /\ Reader!FlattenSeq(s) = g[n]
    <3>1. \A k \in 1..n : s[k] \in Run
      BY <1>5, <1>6
    <3>2. n \in Nat \ {0}
      BY <1>1, <1>9
    <3> QED
      BY <1>7, <3>1, <3>2, FlattenIs
  <2>2. PICK h : Gathers(h, Solids(part), L) /\ Reader!FlattenSeq(Solids(part)) = h[L]
    <3>1. CASE L = 0
      <4>1. part = <<>>
        BY <1>1, <3>1, EmptySeq DEF L
      <4>2. Solids(part) = <<>>
        BY <4>1 DEF Solids
      <4>3. Reader!FlattenSeq(Solids(part)) = <<>>
        BY <4>2, FlattenNone
      <4> DEFINE h == [p \in 0..L |-> <<>>]
      <4>4. <<>> \in Run
        BY EmptySeq DEF Run
      <4>5. Gathers(h, Solids(part), L) /\ h[L] = <<>>
        BY <3>1, <4>4 DEF Gathers
      <4> QED
        BY <4>3, <4>5
    <3>2. CASE L # 0
      <4>1. L \in Nat \ {0}
        BY <1>1, <3>2
      <4> QED
        BY <1>4, <4>1, FlattenIs
    <3> QED
      BY <3>1, <3>2
  <2>3. ASSUME NEW k \in 1..n
        PROVE  /\ h[Upto(chunks[k])] = h[From(chunks[k])] \o F(k)
               /\ From(chunks[k]) = past(k - 1) /\ past(k) = Upto(chunks[k])
    <3>1. h[Upto(chunks[k])] = h[From(chunks[k])] \o F(k)
      <4>1. Gathers(h, Solids(part), Len(part)) /\ Upto(chunks[k]) <= Len(part)
        BY <1>1, <2>2 DEF L
      <4> QED
        BY <1>1, <1>2, <4>1, ChunkGathered
    <3>2. k # 0 /\ k \in Nat /\ (k - 1 = 0 <=> k = 1)
      BY <1>1
    <3>3. CASE k = 1
      <4>1. chunks[k].sector = 0
        BY <1>1, <3>3 DEF Follows
      <4> QED
        BY <3>1, <3>2, <3>3, <4>1, Constants DEF From
    <3>4. CASE k # 1
      <4>1. chunks[k].sector = chunks[k - 1].sector + chunks[k - 1].count
        BY <1>1, <3>4 DEF Follows
      <4> QED
        BY <3>1, <3>2, <3>4, <4>1 DEF From, Upto
    <3> QED
      BY <3>3, <3>4
  <2> DEFINE Bad == {k \in Nat : k \in 0..n /\ g[k] # h[past(k)]}
  <2>4. Bad = {}
    <3> SUFFICES ASSUME Bad # {} PROVE FALSE
      OBVIOUS
    <3>1. PICK k \in Bad : \A j \in Bad : k <= j
      <4>1. Bad \in SUBSET Nat
        OBVIOUS
      <4> HIDE DEF Bad
      <4> QED
        BY <4>1, LeastIn
    <3>2. k \in Nat /\ k \in 0..n /\ g[k] # h[past(k)]
      OBVIOUS
    <3>3. k # 0
      BY <2>1, <2>2, <3>2 DEF Gathers
    <3>4. k \in 1..n /\ k - 1 \in Nat /\ k - 1 \in 0..n /\ ~(k <= k - 1)
      BY <1>1, <3>2, <3>3
    <3>5. g[k - 1] = h[past(k - 1)]
      <4>1. k - 1 \notin Bad
        <5> HIDE DEF Bad
        <5> QED
          BY <3>1, <3>4
      <4> QED
        BY <3>4, <4>1
    <3>6. g[k] = g[k - 1] \o F(k)
      BY <1>6, <2>1, <3>4 DEF Gathers
    <3> QED
      BY <2>3, <3>2, <3>4, <3>5, <3>6
  <2>5. g[n] = h[past(n)]
    BY <1>1, <2>4
  <2>6. past(n) = L
    <3>1. chunks # <<>>
      BY <1>9, EmptySeq DEF n
    <3> QED
      BY <1>1, <1>9, <3>1 DEF Sectors, Upto, n
  <2>7. Reader!FlattenSeq(s) = WithoutHoles(part)
    BY <1>3, <2>1, <2>2, <2>5, <2>6
  <2> QED
    BY <2>7 DEF s, F, part
<1> QED
  BY <1>8, <1>9

\* A partition that is copied whole is all of its bytes in order, the holes left out:
\* for every table and every kind of chunk, whatever was written, encrypted and
\* decrypted in whatever order (partition_data and copy_partition_to, lib.rs:98-123).
THEOREM CopyIsRight == Spec => []CopyIsThePartition
<1>1. Init => CopyIsThePartition
  BY DEF Init, Reader!ReaderInit, CopyIsThePartition
<1>2. AllInv /\ CopyIsThePartition /\ [Next]_vars => CopyIsThePartition'
  <2> SUFFICES ASSUME AllInv, CopyIsThePartition, [Next]_vars PROVE CopyIsThePartition'
    OBVIOUS
  <2>1. ASSUME source' = source, index' = index, copied' = copied PROVE CopyIsThePartition'
    BY <2>1 DEF CopyIsThePartition
  <2>2. CASE Writer!WriterNext /\ UNCHANGED <<sourceVars, img, vfState, readerVars>>
    BY <2>1, <2>2 DEF sourceVars, readerVars
  <2>3. CASE Encrypt
    BY <2>1, <2>3 DEF Encrypt, sourceVars, readerVars
  <2>4. CASE img # <<>> /\ Vf!VfNext /\ UNCHANGED <<sourceVars, writerVars, readerVars>>
    BY <2>1, <2>4 DEF sourceVars, readerVars
  <2>5. CASE phase = "done" /\ Reader!ReaderNext /\ UNCHANGED <<source, writerVars, img, vfState>>
    <3>1. source' = source /\ index' = index
      BY <2>5, ReaderSame
    <3>2. CASE Reader!CopyPartition
      <4>1. /\ reader = "image" /\ \A i \in DOMAIN chunks : chunks[i].kind # "adc"
            /\ \/ copied' = Reader!FlattenSeq([i \in DOMAIN chunks |-> Reader!Sector(chunks[i])])
               \/ copied' = Reader!Err
        BY <3>2 DEF Reader!CopyPartition
      <4>2. IInv /\ WriterInv /\ Opened
        BY <4>1 DEF AllInv, ReaderInv
      <4>3. img # <<>>
        BY <2>5, <4>2 DEF IInv, Vf!VfInit
      <4>4. Reader!FlattenSeq([i \in DOMAIN chunks |-> Reader!Sector(chunks[i])])
              = WithoutHoles(source.parts[index])
        BY <4>1, <4>2, <4>3, CopyIs
      <4> QED
        BY <3>1, <4>1, <4>4 DEF CopyIsThePartition
    <3>3. CASE Reader!Open \/ Reader!CopyPanics \/ Reader!IntoPartitionReader \/ Reader!ReadChunk
      BY <2>1, <3>1, <3>3 DEF Reader!Open, Reader!CopyPanics, Reader!IntoPartitionReader, Reader!ReadChunk
    <3>4. CASE Reader!ReadPastEnd \/ Reader!LoadFails \/ Reader!LoadPanics
      BY <2>1, <3>1, <3>4 DEF Reader!ReadPastEnd, Reader!LoadFails, Reader!LoadPanics
    <3>5. CASE \E n \in Lengths : Reader!Read(n)
      BY <2>1, <3>1, <3>5 DEF Reader!Read
    <3>6. CASE \E d \in Deltas : Reader!SeekAny(d)
      <4>1. \A p : Reader!Seek(p) => copied' = copied
        BY DEF Reader!Seek
      <4> QED
        BY <2>1, <3>1, <3>6, <4>1 DEF Reader!SeekAny
    <3> QED
      BY <2>5, <3>2, <3>3, <3>4, <3>5, <3>6 DEF Reader!ReaderNext
  <2>6. CASE UNCHANGED vars
    BY <2>1, <2>6 DEF vars, sourceVars, readerVars
  <2> QED
    BY <2>2, <2>3, <2>4, <2>5, <2>6 DEF Next
<1> QED
  BY <1>1, <1>2, AllInvariance, PTL DEF Spec

-----------------------------------------------------------------------------
(* The reader of a partition and the flat run of bytes it stands for.      *)

\* A chunk that covers the sector of a position has the position in it.
LEMMA CoversPosition ==
  ASSUME NEW c \in ChunkRecords, NEW p \in Nat,
         c.sector <= p \div SectorSize, p \div SectorSize < c.sector + c.count
  PROVE  From(c) <= p /\ p < Upto(c)
<1> DEFINE k == SectorSize
           q == p \div k
           r == p % k
           a == c.sector
           e == c.sector + c.count
<1>1. k \in Nat \ {0} /\ a \in Nat /\ e \in Nat
  BY Constants DEF ChunkRecords
<1>2. q \in Int /\ r \in 0..k - 1 /\ p = k * q + r /\ q \in Nat
  BY <1>1, DivMod, SMTT(20)
<1>3. a <= q /\ q + 1 <= e
  BY <1>1, <1>2
<1>4. From(c) = a * k /\ Upto(c) = e * k
  BY DEF From, Upto
<1> HIDE DEF q, r, k, a, e
<1>5. a * k <= q * k /\ (q + 1) * k <= e * k
  BY <1>1, <1>2, <1>3
<1>6. (q + 1) * k = q * k + k /\ q * k = k * q /\ a * k \in Nat /\ e * k \in Nat /\ k * q \in Nat
  BY <1>1, <1>2
<1> QED
  BY <1>1, <1>2, <1>4, <1>5, <1>6

\* Only at the end of the partition is there no chunk.
LEMMA NoChunkIsEnd ==
  ASSUME WriterInv, Opened, pos \in Nat, Reader!ChunkAt(pos) = {}
  PROVE  pos >= Len(source.parts[index])
<1> DEFINE sector == pos \div SectorSize
           n == Len(chunks)
           recent == IF cacheOrder = <<>> THEN {}
                     ELSE {Reader!Last(cacheOrder), Reader!Last(cacheOrder) + 1}
           near == {j \in recent : Reader!Covers(j, sector)}
           all == {j \in DOMAIN chunks : Reader!Covers(j, sector)}
<1>1. all = {}
  <2>1. Reader!ChunkAt(pos) = IF near # {} THEN {Reader!Min(near)} ELSE all
    BY DEF Reader!ChunkAt
  <2> HIDE DEF near, all
  <2> QED
    BY <2>1
<1>2. /\ chunks \in Seq(ChunkRecords) /\ DOMAIN chunks = 1..n /\ n \in Nat
      /\ Len(source.parts[index]) \in Nat /\ Len(source.parts[index]) = Sectors(chunks) * SectorSize
      /\ \A i \in 1..n : chunks[i] \in ChunkRecords /\ Follows(chunks, i)
  BY TableFacts
<1>3. \A i \in 1..n : chunks[i].sector \in Nat /\ chunks[i].count \in Nat
  BY <1>2 DEF ChunkRecords
<1>4. ASSUME NEW i \in 1..n, chunks[i].sector <= sector PROVE ~(sector < chunks[i].sector + chunks[i].count)
  BY <1>1, <1>2, <1>4 DEF Reader!Covers
<1>5. sector \in Nat /\ pos >= sector * SectorSize
  <2>1. pos \in Int /\ SectorSize \in Nat \ {0}
    BY Constants
  <2>2. sector \in Nat /\ pos % SectorSize \in 0..SectorSize - 1 /\ pos = SectorSize * sector + (pos % SectorSize)
    BY <2>1, DivMod
  <2>3. PICK r \in Nat : r = pos % SectorSize
    BY <2>1, <2>2
  <2> HIDE DEF sector
  <2>4. SectorSize * sector = sector * SectorSize /\ sector * SectorSize \in Nat
    BY <2>1, <2>2
  <2> QED
    BY <2>2, <2>3, <2>4
<1> HIDE DEF sector, all, n
<1> DEFINE Bad == {i \in Nat : i \in 1..n /\ sector < chunks[i].sector + chunks[i].count}
<1>6. Bad = {}
  <2> SUFFICES ASSUME Bad # {} PROVE FALSE
    OBVIOUS
  <2>1. PICK i \in Bad : \A j \in Bad : i <= j
    <3>1. Bad \in SUBSET Nat
      OBVIOUS
    <3> HIDE DEF Bad
    <3> QED
      BY <3>1, LeastIn
  <2>2. i \in Nat /\ i \in 1..n /\ sector < chunks[i].sector + chunks[i].count
    OBVIOUS
  <2>3. ~(chunks[i].sector <= sector)
    BY <1>4, <2>2
  <2>4. CASE i = 1
    <3>1. chunks[i].sector = 0
      BY <1>2, <2>2, <2>4 DEF Follows
    <3> QED
      BY <1>5, <2>3, <3>1
  <2>5. CASE i # 1
    <3>1. chunks[i].sector = chunks[i - 1].sector + chunks[i - 1].count
      BY <1>2, <2>2, <2>5 DEF Follows
    <3>2. i - 1 \in 1..n /\ i - 1 \in Nat /\ ~(i <= i - 1)
      BY <1>2, <2>2, <2>5
    <3>3. i - 1 \notin Bad
      <4> HIDE DEF Bad
      <4> QED
        BY <2>1, <3>2
    <3>4. ~(sector < chunks[i - 1].sector + chunks[i - 1].count)
      BY <3>2, <3>3
    <3>5. chunks[i].sector \in Nat
      BY <1>3, <2>2
    <3> QED
      BY <1>5, <2>3, <3>1, <3>4, <3>5
  <2> QED
    BY <2>4, <2>5
<1>7. Sectors(chunks) \in Nat /\ Sectors(chunks) <= sector
  <2>1. CASE chunks = <<>>
    BY <1>5, <2>1 DEF Sectors
  <2>2. CASE chunks # <<>>
    <3>1. n \in 1..n /\ n \in Nat
      BY <1>2, <2>2, EmptySeq DEF n
    <3>2. Sectors(chunks) = chunks[n].sector + chunks[n].count
      BY <2>2 DEF Sectors, n
    <3>3. ~(sector < chunks[n].sector + chunks[n].count)
      BY <1>6, <3>1
    <3>4. chunks[n].sector + chunks[n].count \in Nat
      BY <1>3, <3>1
    <3> QED
      BY <1>5, <3>2, <3>3, <3>4
  <2> QED
    BY <2>1, <2>2
<1>8. Sectors(chunks) * SectorSize <= sector * SectorSize
  BY <1>5, <1>7, Constants
<1>9. sector * SectorSize \in Nat
  BY <1>5, Constants
<1> QED
  BY <1>2, <1>5, <1>8, <1>9

\* Parts of two sequences are the same when their elements are.
SameFrom(s, u, t, v, n) ==
  u + n <= Len(s) /\ v + n <= Len(t) /\ \A j \in 1..n : s[u + j] = t[v + j]

\* Equal element by element, they are equal.
LEMMA SameParts ==
  ASSUME NEW S, NEW s \in Seq(S), NEW T, NEW t \in Seq(T), NEW u \in Nat, NEW v \in Nat, NEW n \in Nat,
         SameFrom(s, u, t, v, n)
  PROVE  SubSeq(s, u + 1, u + n) = SubSeq(t, v + 1, v + n)
<1> DEFINE a == SubSeq(s, u + 1, u + n)
           b == SubSeq(t, v + 1, v + n)
<1>1. a \in Seq(S) /\ Len(a) = n /\ \A j \in 1..n : a[j] = s[u + j]
  <2>1. u + n <= Len(s)
    BY DEF SameFrom
  <2> QED
    BY <2>1, PartIs
<1>2. b \in Seq(T) /\ Len(b) = n /\ \A j \in 1..n : b[j] = t[v + j]
  <2>1. v + n <= Len(t)
    BY DEF SameFrom
  <2> QED
    BY <2>1, PartIs
<1> HIDE DEF a, b
<1>3. Len(a) = Len(b) /\ \A j \in 1..Len(a) : a[j] = b[j]
  BY <1>1, <1>2 DEF SameFrom
<1>4. a = b
  BY <1>1, <1>2, <1>3, SameElements
<1> QED
  BY <1>4 DEF a, b

\* A chunk that is read gives the next bytes of the partition, or it has only holes from
\* there on.
LEMMA ReadIsFlat ==
  ASSUME IInv, img # <<>>, WriterInv, CacheInv, ReaderInv, Reader!ReadChunk,
         source' = source, index' = index
  PROVE  Flat!Next
<1> DEFINE part == source.parts[index]
           L == Len(part)
<1>1. want > 0 /\ want \in Nat /\ pos \in Nat /\ Opened /\ want \in Lengths
  BY DiskImageAssumption DEF ReaderInv, Reader!ReadChunk
<1>2. PICK i \in Reader!ChunkAt(pos), data \in Seq(Solid), n \in Int :
           /\ Reader!Covers(i, pos \div SectorSize) /\ i \in DOMAIN chunks
           /\ IsChunk(data, chunks[i], part)
           /\ LET left == Len(data) - (pos - From(chunks[i]))
              IN n = IF want <= left THEN want ELSE left
           /\ \/ /\ n > 0 /\ want' = 0 /\ pos' = pos + n
                 /\ got' = SubSeq(data, pos - From(chunks[i]) + 1, pos - From(chunks[i]) + n)
              \/ n <= 0 /\ want' = want /\ got' = got /\ pos' = Upto(chunks[i])
  BY ChunkIsRead
<1>3. PICK c \in ChunkRecords : c = chunks[i]
  BY <1>1, <1>2, TableFacts
<1> DEFINE a == From(c)
           e == Upto(c)
           m == Len(data)
<1>4. a <= pos /\ pos < e
  <2>1. c.sector <= pos \div SectorSize /\ pos \div SectorSize < c.sector + c.count
    BY <1>2, <1>3 DEF Reader!Covers
  <2> QED
    BY <1>1, <2>1, CoversPosition
<1>5. part \in Seq(Int) /\ L \in Nat /\ e <= L /\ a \in Nat /\ e \in Nat /\ m \in Nat
  BY <1>1, <1>2, <1>3, TableFacts, PlaceOf, LenProperties
<1>6. /\ a + m <= e
      /\ \A j \in 1..m : part[a + j] = data[j] /\ data[j] \in Nat \ {Hole}
      /\ \A p \in a + m + 1..e : part[p] = Hole
  BY <1>2, <1>3 DEF IsChunk, Fills
<1>7. /\ n = IF want <= m - (pos - a) THEN want ELSE m - (pos - a)
      /\ \/ n > 0 /\ pos' = pos + n /\ got' = SubSeq(data, pos - a + 1, pos - a + n)
         \/ n <= 0 /\ got' = got /\ pos' = e
  BY <1>2, <1>3
<1> HIDE DEF part, L, a, e, m
<1>8. \A x, y : Flat!OnlyHoles(x, y) <=> x <= y /\ \A k \in x + 1..y : k \in 1..L /\ part[k] = Hole
  BY DEF Flat!OnlyHoles, Flat!Size, part, L
<1>9. CASE n > 0 /\ pos' = pos + n /\ got' = SubSeq(data, pos - a + 1, pos - a + n)
  <2>1. n \in 1..want /\ n <= m - (pos - a) /\ pos + n <= L /\ pos \in pos..L
    BY <1>1, <1>4, <1>5, <1>6, <1>7, <1>9
  <2>2. Flat!OnlyHoles(pos, pos)
    BY <1>1, <1>8
  <2>3. ASSUME NEW k \in pos + 1..pos + n PROVE part[k] = data[k - a] /\ part[k] # Hole
    <3>1. k - a \in 1..m /\ a + (k - a) = k
      BY <1>1, <1>4, <1>5, <2>1
    <3> QED
      BY <1>6, <3>1
  <2>4. SubSeq(data, pos - a + 1, pos - a + n) = SubSeq(part, pos + 1, pos + n)
    <3>1. PICK u \in Nat : u = pos - a
      BY <1>1, <1>4, <1>5
    <3>2. u + n <= Len(data) /\ n \in Nat /\ pos + n <= Len(part)
      BY <1>1, <1>5, <2>1, <3>1 DEF m, L
    <3>5. ASSUME NEW j \in 1..n PROVE data[u + j] = part[pos + j]
      <4>1. PICK k \in pos + 1..pos + n : k = pos + j /\ k - a = u + j
        BY <1>1, <1>5, <3>1, <3>2
      <4>2. part[k] = data[k - a]
        BY <2>3
      <4> QED
        BY <4>1, <4>2
    <3>6. SubSeq(data, u + 1, u + n) = SubSeq(part, pos + 1, pos + n)
      <4>1. PICK v \in Nat : v = pos
        BY <1>1
      <4>2. SameFrom(data, u, part, v, n)
        BY <3>2, <3>5, <4>1 DEF SameFrom
      <4>3. SubSeq(data, u + 1, u + n) = SubSeq(part, v + 1, v + n)
        BY <1>5, <3>2, <4>1, <4>2, SameParts
      <4> QED
        BY <4>1, <4>3
    <3> QED
      BY <3>1, <3>6
  <2>5. Flat!Read(want)
    <3>1. pos \in pos..Flat!Size /\ pos + n <= Flat!Size
      BY <2>1 DEF Flat!Size, part, L
    <3>2. \A k \in pos + 1..pos + n : source.parts[index][k] # Hole
      BY <2>3 DEF part
    <3>3. got' = SubSeq(source.parts[index], pos + 1, pos + n) /\ pos' = pos + n
      BY <1>9, <2>4 DEF part
    <3> QED
      BY <2>1, <2>2, <3>1, <3>2, <3>3 DEF Flat!Read
  <2> QED
    BY <1>1, <2>5 DEF Flat!Next
<1>10. CASE n <= 0 /\ got' = got /\ pos' = e
  <2>1. m - (pos - a) <= 0
    BY <1>1, <1>5, <1>7, <1>10
  <2>2. ASSUME NEW k \in pos + 1..e PROVE k \in 1..L /\ part[k] = Hole
    <3>1. k \in a + m + 1..e /\ k \in 1..L
      BY <1>1, <1>4, <1>5, <2>1
    <3> QED
      BY <1>6, <3>1
  <2>3. Flat!OnlyHoles(pos, e)
    BY <1>1, <1>4, <1>5, <1>8, <2>2
  <2>4. Flat!PassHole
    BY <1>10, <2>3 DEF Flat!PassHole
  <2> QED
    BY <2>4 DEF Flat!Next
<1> QED
  BY <1>7, <1>9, <1>10
\* A step of the reader is one of the flat partition, or it changes nothing of it.
LEMMA ReaderIsFlat ==
  ASSUME AllInv, phase = "done", Reader!ReaderNext, UNCHANGED <<source, writerVars, img, vfState>>
  PROVE  [Flat!Next]_<<source.parts[index], pos, got>>
<1>1. IInv /\ WriterInv /\ CacheInv /\ ReaderInv
  BY DEF AllInv
<1>2. img # <<>>
  BY <1>1 DEF IInv, Vf!VfInit
<1>3. source' = source /\ index' = index
  BY ReaderSame
<1>4. /\ pos \in Nat /\ want \in Lengths \cup {0} /\ Lengths \subseteq Nat
      /\ want # 0 => reader = "partition"
      /\ reader = "partition" => Opened
  BY <1>1, DiskImageAssumption DEF ReaderInv
<1>5. Flat!OnlyHoles(pos, pos)
  <2>1. pos <= pos /\ pos + 1..pos = {}
    BY <1>4
  <2> QED
    BY <2>1 DEF Flat!OnlyHoles
<1>6. ASSUME pos' = pos, got' = got PROVE [Flat!Next]_<<source.parts[index], pos, got>>
  BY <1>3, <1>6
<1>7. source'.parts[index'] = source.parts[index]
  BY <1>3
<1>8. CASE Reader!Open \/ Reader!CopyPartition \/ Reader!CopyPanics \/ Reader!IntoPartitionReader
  BY <1>6, <1>8 DEF Reader!Open, Reader!CopyPartition, Reader!CopyPanics, Reader!IntoPartitionReader
<1>9. CASE Reader!LoadPanics
  BY <1>6, <1>9 DEF Reader!LoadPanics
<1>10. CASE \E n \in Lengths : Reader!Read(n)
  <2>1. PICK n \in Lengths : Reader!Read(n)
    BY <1>10
  <2>2. pos' = pos /\ got' = IF n = 0 THEN <<>> ELSE got
    BY <2>1 DEF Reader!Read
  <2>3. n = 0 => Flat!Read(n)
    BY <1>5, <2>2 DEF Flat!Read
  <2> QED
    BY <1>6, <1>7, <2>2, <2>3 DEF Flat!Next
<1>11. CASE Reader!ReadPastEnd
  <2>1. want > 0 /\ Reader!ChunkAt(pos) = {} /\ got' = <<>> /\ pos' = pos
    BY <1>11 DEF Reader!ReadPastEnd
  <2>2. Opened /\ want \in Lengths
    BY <1>4, <2>1
  <2>3. pos >= Flat!Size
    BY <1>1, <1>4, <2>1, <2>2, NoChunkIsEnd DEF Flat!Size
  <2>4. Flat!Read(want)
    BY <1>5, <2>1, <2>3 DEF Flat!Read
  <2> QED
    BY <1>7, <2>2, <2>4 DEF Flat!Next
<1>12. CASE Reader!LoadFails
  <2>1. got' = Reader!Err /\ pos' = pos
    BY <1>12 DEF Reader!LoadFails
  <2>2. Flat!Fail
    BY <1>5, <2>1 DEF Flat!Fail
  <2> QED
    BY <1>7, <2>2 DEF Flat!Next
<1>13. CASE Reader!ReadChunk
  BY <1>1, <1>2, <1>3, <1>13, ReadIsFlat
<1>14. CASE \E d \in Deltas : Reader!SeekAny(d)
  <2>1. PICK d \in Deltas : Reader!SeekAny(d)
    BY <1>14
  <2>2. PICK p : Reader!Seek(p) /\ p \in {d, pos + d, Reader!TotalSize + d}
    BY <2>1 DEF Reader!SeekAny
  <2>3. reader = "partition" /\ Flat!SeekTo(p)
    BY <2>2 DEF Reader!Seek, Flat!SeekTo
  <2>4. Reader!TotalSize = Flat!Size
    BY <1>1, <1>4, <2>3, TotalSizeIs DEF Flat!Size
  <2>5. Flat!SeekTo(d) \/ Flat!SeekTo(pos + d) \/ Flat!SeekTo(Flat!Size + d)
    <3> HIDE DEF Flat!SeekTo, Flat!Size, Reader!TotalSize
    <3> QED
      BY <2>2, <2>3, <2>4
  <2>6. Flat!Seek
    BY <2>5 DEF Flat!Seek
  <2> QED
    BY <1>7, <2>6 DEF Flat!Next
<1> QED
  BY <1>8, <1>9, <1>10, <1>11, <1>12, <1>13, <1>14 DEF Reader!ReaderNext

\* The reader of a partition (DmgPartitionReader, lib.rs:156-285), whatever chunks it is
\* cut into and whatever is cached, is a flat run of bytes with a position in it: what a
\* read gives are the next bytes of the partition, only holes are passed over, a read
\* that fails loses no byte, and a search goes where it says.
THEOREM ImplementsFlatPartition == Spec => RefinesFlatPartition
<1>1. Init => Flat!Init
  BY DEF Init, Reader!ReaderInit, Flat!Init
<1>2. AllInv /\ [Next]_vars => [Flat!Next]_<<source.parts[index], pos, got>>
  <2> SUFFICES ASSUME AllInv, [Next]_vars PROVE [Flat!Next]_<<source.parts[index], pos, got>>
    OBVIOUS
  <2>1. ASSUME source' = source, index' = index, pos' = pos, got' = got
        PROVE  [Flat!Next]_<<source.parts[index], pos, got>>
    BY <2>1
  <2>2. CASE Writer!WriterNext /\ UNCHANGED <<sourceVars, img, vfState, readerVars>>
    BY <2>1, <2>2 DEF sourceVars, readerVars
  <2>3. CASE Encrypt
    BY <2>1, <2>3 DEF Encrypt, sourceVars, readerVars
  <2>4. CASE img # <<>> /\ Vf!VfNext /\ UNCHANGED <<sourceVars, writerVars, readerVars>>
    BY <2>1, <2>4 DEF sourceVars, readerVars
  <2>5. CASE phase = "done" /\ Reader!ReaderNext /\ UNCHANGED <<source, writerVars, img, vfState>>
    BY <2>5, ReaderIsFlat
  <2>6. CASE UNCHANGED vars
    BY <2>1, <2>6 DEF vars, sourceVars, readerVars
  <2> QED
    BY <2>2, <2>3, <2>4, <2>5, <2>6 DEF Next
<1> QED
  BY <1>1, <1>2, AllInvariance, PTL DEF Spec, RefinesFlatPartition, Flat!Spec

=============================================================================
