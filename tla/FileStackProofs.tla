-------------------------- MODULE FileStackProofs --------------------------
(***************************************************************************)
(* Proofs about module FileStack: what a read of a file gives is in the    *)
(* file, for any sound volume, any descriptor table, any size of buffer,   *)
(* piece and block, any lengths asked for, and any reads that fail.        *)
(***************************************************************************)
EXTENDS FileStack, SequenceTheorems, FiniteSetTheorems, WellFoundedInduction, TLAPS

Names  == DOMAIN Volume
Forks  == {Volume[n] : n \in DOMAIN Volume} \cup {Catalog}
Bytes  == Seq(Int)
Random == "/dev/random"

Handles == [name : Names \cup {Random}, pos : Nat, cache : SUBSET Bytes, size : Nat]
Calls ==
  [op : {"idle", "open", "stat", "read", "pread", "mmap", "region", "random"}, count : Nat,
   fd : Nat, name : Names \cup {"none"}, len : Nat, offset : Nat, was : Handles,
   failed : BOOLEAN, step : Nat, raw : Bytes, mem : Bytes,
   stage : {"none", "catalog", "enter", "header", "unpack", "data", "returned"}]
Reads   == [want : Nat, got : Bytes, need : Nat]
Buffers == [data : Bytes, pos : Nat, inner : 0..DiskSize]

\* A handle reads the fork, or what has been unpacked of it.
RawHandle(f, x) == x.pos <= f.size /\ x.size = f.size
CachedHandle(f, x) ==
  /\ f.kind # "plain" /\ x.pos <= Len(Contents(f))
  /\ \E c \in x.cache : /\ x.cache = {c} /\ IsPrefix(c, Contents(f))
                        /\ x.size \in {Len(c), Len(Contents(f))}

FileHandle(f, x) == IF x.cache = {} THEN RawHandle(f, x) ELSE CachedHandle(f, x)
GoodHandle(x) ==
  IF x.name \in Names THEN FileHandle(Volume[x.name], x)
  ELSE x.pos = 0 /\ x.cache = {} /\ x.size = 0

\* What the first k reads of the plan gather of a compressed file.
PartOf(f, p) ==
  IF p.mode = "toend" THEN SubSeq(ForkBytes(f), p.at + 1, f.size)
  ELSE SubSeq(ForkBytes(f), p.at + 1, p.at + p.len)
DataOf(f, k) == IF Plan(f)[k].data THEN PartOf(f, Plan(f)[k]) ELSE <<>>
Gathered(f) ==
  LET g[k \in 0..Len(Plan(f))] == IF k = 0 THEN <<>> ELSE g[k - 1] \o DataOf(f, k)
  IN g

\* The bytes got so far are those of the fork from the position on, and where
\* more are needed the device, or what it holds in its buffer, is at them.
Agrees(f, p, got) ==
  /\ Len(got) > 0 => p + Len(got) <= f.size
  /\ \A i \in 1..Len(got) : got[i] = ForkBytes(f)[p + i]
Filled(d, x, inner) == \A j \in x + 1..Len(d) : d[j] = inner - Len(d) + j - 1
StandsAt(d, x, inner, k) == inner - (Len(d) - x) = k /\ Filled(d, x, inner)
AtSpan(b, s, p) == StandsAt(b.data, b.pos, b.inner, s.addr + p - s.begin)
ReadOK(f, p, r, b) ==
  /\ Agrees(f, p, r.got)
  /\ r.need > 0 => \E s \in SpanAt(f, p + Len(r.got)) :
                      p + Len(r.got) + r.need <= s.end /\ AtSpan(b, s, p + Len(r.got))

\* Where each stage of Fork::read is.
DataWant(c) == IF c.op = "region" THEN Min({Piece, c.len - Len(c.mem)}) ELSE c.len
UnpackOK(f, c, x, r) ==
  /\ f.kind # "plain" /\ c.step \in 1..Len(Plan(f)) /\ r.want = Plan(f)[c.step].len
  /\ IF Plan(f)[c.step].mode = "toend"
     THEN /\ Plan(f)[c.step].at <= x.pos
          /\ c.raw = Gathered(f)[c.step - 1]
                       \o SubSeq(ForkBytes(f), Plan(f)[c.step].at + 1, x.pos)
     ELSE /\ x.pos = Plan(f)[c.step].at
          /\ c.raw = Gathered(f)[c.step - 1]
StageOK(f, c, x, r) ==
  /\ c.stage = "enter" => (x.cache = {} => c.raw = <<>>)
  /\ c.stage = "header" => x.cache = {} /\ x.pos = 0 /\ c.raw = <<>> /\ r.want = Header
  /\ c.stage = "unpack" => x.cache = {} /\ UnpackOK(f, c, x, r)
  /\ c.stage = "data" => x.cache = {} /\ r.want = DataWant(c)

\* What a read, and a mapping, have kept of their promise.
ReadPromise(f, c, x) ==
  /\ c.was.cache # {} => c.stage = "enter" /\ x = c.was
  /\ f.kind = "plain" => x = c.was
  /\ c.was.cache = {} /\ c.was.pos = 0 /\ ~c.failed /\ f.kind # "plain" =>
       IF x.cache = {} THEN c.stage # "data" /\ (c.stage # "unpack" => x.pos = 0)
       ELSE x.cache = {Contents(f)} /\ x.pos = 0
RegionPromise(f, c, x) ==
  ~c.failed /\ (f.kind = "plain" \/ c.was.cache = {Contents(f)}) =>
    /\ x.cache = c.was.cache /\ x.pos = c.offset + Len(c.mem)
    /\ c.mem = SubSeq(Contents(f), c.offset + 1, c.offset + Len(c.mem))
    /\ c.offset + c.len <= Len(Contents(f))
Promise(f, c, x) ==
  IF c.op = "region" THEN Len(c.mem) < c.len /\ RegionPromise(f, c, x)
  ELSE c.mem = <<>> /\ ReadPromise(f, c, x)

\* A call on an open file, by its handle.
FileStages == {"enter", "header", "unpack", "data"}
FileCall(c, x, r) ==
  /\ c.op \in {"read", "pread", "mmap", "region"}
  /\ x.name \in Names /\ c.was.name = x.name /\ GoodHandle(c.was)
  /\ StageOK(Volume[x.name], c, x, r)
  /\ Promise(Volume[x.name], c, x)

-----------------------------------------------------------------------------
(* The inductive invariant.                                                *)

HandlesOK ==
  /\ DOMAIN fds \subseteq Fds /\ fds \in [DOMAIN fds -> Handles]
  /\ \A fd \in DOMAIN fds : GoodHandle(fds[fd])
BufferOK ==
  /\ buf \in Buffers /\ buf.pos <= Len(buf.data) /\ Len(buf.data) \in {0, Cap}
CallOK ==
  /\ call \in Calls /\ (call.op = "idle" <=> call.stage = "none")
  /\ call.stage = "catalog" => call.op \in {"open", "stat"} /\ call.name \in Names
  /\ call.stage \in FileStages => call.fd \in DOMAIN fds /\ FileCall(call, h, rd)
ReadingOK ==
  /\ rd \in Reads /\ Len(rd.got) + rd.need <= rd.want
  /\ ~Reading => rd = NoRead
  /\ Reading => ReadOK(Fork, Position, rd, buf)

Inv == HandlesOK /\ BufferOK /\ CallOK /\ ReadingOK /\ ReadGivesFileBytes /\ RegionHoldsFile

-----------------------------------------------------------------------------
(* Numbers and sequences.                                                  *)

\* The lesser of two numbers.
LEMMA MinOfTwo ==
  ASSUME NEW a \in Int, NEW b \in Int
  PROVE  Min({a, b}) = IF a <= b THEN a ELSE b
<1>1. CASE a <= b
  <2>1. \A x \in {a, b} : (\A y \in {a, b} : x <= y) <=> x = a
    BY <1>1
  <2> QED
    BY <1>1, <2>1 DEF Min
<1>2. CASE ~(a <= b)
  <2>1. \A x \in {a, b} : (\A y \in {a, b} : x <= y) <=> x = b
    BY <1>2
  <2> QED
    BY <1>2, <2>1 DEF Min
<1> QED
  BY <1>1, <1>2

\* A set of natural numbers has its least element.
LEMMA LeastIn ==
  ASSUME NEW S \in SUBSET Nat, S # {}
  PROVE  \E x \in S : \A y \in S : x <= y
<1>1. \E x \in S : \A y \in S : ~ (<<y, x>> \in OpToRel(<, Nat))
  BY NatLessThanWellFounded, WFMin
<1>2. PICK x \in S : \A y \in S : ~ (<<y, x>> \in OpToRel(<, Nat))
  BY <1>1
<1>3. \A y \in S : ~(y < x)
  BY <1>2 DEF OpToRel
<1> QED
  BY <1>3

\* Min gives a member of a set of numbers: the slot of a descriptor.
LEMMA MinIsIn ==
  ASSUME NEW S \in SUBSET Nat, S # {}
  PROVE  Min(S) \in S
BY LeastIn DEF Min

\* A part of a sequence of bytes.
LEMMA SubSeqIs ==
  ASSUME NEW s \in Bytes, NEW a \in Nat, NEW b \in Nat, a <= b, b <= Len(s)
  PROVE  /\ SubSeq(s, a + 1, b) \in Bytes /\ Len(SubSeq(s, a + 1, b)) = b - a
         /\ \A i \in 1..b - a : SubSeq(s, a + 1, b)[i] = s[a + i]
<1>1. Len(s) \in Nat
  BY LenProperties DEF Bytes
<1>2. \A i \in a + 1..b : s[i] \in Int
  <2> SUFFICES ASSUME NEW i \in a + 1..b PROVE s[i] \in Int
    OBVIOUS
  <2>1. i \in 1..Len(s)
    BY <1>1
  <2> QED
    BY <2>1, ElementOfSeq DEF Bytes
<1> DEFINE m == a + 1
<1>3. m \in Int /\ b \in Int /\ m <= b + 1
  OBVIOUS
<1>4. /\ SubSeq(s, m, b) \in Seq(Int)
      /\ Len(SubSeq(s, m, b)) = IF m <= b THEN b - m + 1 ELSE 0
      /\ \A i \in 1 .. b - m + 1 : SubSeq(s, m, b)[i] = s[m + i - 1]
  <2>1. \A i \in m..b : s[i] \in Int
    BY <1>2
  <2> HIDE DEF m
  <2> QED
    BY <1>3, <2>1, SubSeqProperties
<1>5. Len(SubSeq(s, m, b)) = b - a
  BY <1>4
<1>6. \A i \in 1..b - a : SubSeq(s, m, b)[i] = s[a + i]
  <2> SUFFICES ASSUME NEW i \in 1..b - a PROVE SubSeq(s, m, b)[i] = s[a + i]
    OBVIOUS
  <2>1. i \in 1..b - m + 1 /\ m + i - 1 = a + i
    OBVIOUS
  <2>2. SubSeq(s, m, b)[i] = s[m + i - 1]
    BY <1>4, <2>1
  <2> QED
    BY <2>1, <2>2
<1> QED
  BY <1>4, <1>5, <1>6 DEF Bytes

\* No part of it.
LEMMA SubSeqNone ==
  ASSUME NEW s, NEW a \in Int
  PROVE  SubSeq(s, a + 1, a) = <<>>
<1>1. a + 1 \in Int /\ a < a + 1
  OBVIOUS
<1> QED
  BY <1>1, SubSeqEmpty

\* Bytes that agree with a sequence from a place on are that part of it.
LEMMA AgreesIsPart ==
  ASSUME NEW s \in Bytes, NEW a \in Nat, NEW t \in Bytes, a + Len(t) <= Len(s),
         \A i \in 1..Len(t) : t[i] = s[a + i]
  PROVE  t = SubSeq(s, a + 1, a + Len(t))
<1> DEFINE b == a + Len(t)
           u == SubSeq(s, a + 1, b)
<1>1. Len(t) \in Nat /\ b \in Nat /\ b - a = Len(t) /\ a <= b /\ b <= Len(s)
  BY LenProperties DEF Bytes
<1>2. u \in Bytes /\ Len(u) = b - a /\ \A i \in 1..b - a : u[i] = s[a + i]
  <2> HIDE DEF b
  <2> QED
    BY <1>1, SubSeqIs
<1> HIDE DEF b, u
<1>3. u \in Seq(Int) /\ t \in Seq(Int) /\ Len(u) = Len(t) /\ \A i \in 1..Len(t) : t[i] = u[i]
  BY <1>1, <1>2 DEF Bytes
<1>4. t = u
  BY <1>3, SeqEqual
<1> QED
  BY <1>4 DEF u, b

\* Two parts that meet are one.
LEMMA PartsMeet ==
  ASSUME NEW s \in Bytes, NEW a \in Nat, NEW b \in Nat, NEW c \in Nat,
         a <= b, b <= c, c <= Len(s)
  PROVE  SubSeq(s, a + 1, b) \o SubSeq(s, b + 1, c) = SubSeq(s, a + 1, c)
<1> DEFINE t == SubSeq(s, a + 1, b)
           u == SubSeq(s, b + 1, c)
<1>1. Len(s) \in Nat /\ b <= Len(s)
  BY LenProperties DEF Bytes
<1>2. t \in Bytes /\ Len(t) = b - a /\ \A i \in 1..b - a : t[i] = s[a + i]
  BY <1>1, SubSeqIs
<1>3. u \in Bytes /\ Len(u) = c - b /\ \A i \in 1..c - b : u[i] = s[b + i]
  BY SubSeqIs
<1> HIDE DEF t, u
<1>4. /\ t \o u \in Bytes /\ Len(t \o u) = Len(t) + Len(u)
      /\ \A i \in 1..Len(t) + Len(u) : (t \o u)[i] = IF i <= Len(t) THEN t[i] ELSE u[i - Len(t)]
  <2>1. t \in Seq(Int) /\ u \in Seq(Int)
    BY <1>2, <1>3 DEF Bytes
  <2> QED
    BY <2>1, ConcatProperties DEF Bytes
<1>5. a + Len(t \o u) = c
  BY <1>2, <1>3, <1>4
<1>6. \A i \in 1..Len(t \o u) : (t \o u)[i] = s[a + i]
  <2> SUFFICES ASSUME NEW i \in 1..Len(t \o u) PROVE (t \o u)[i] = s[a + i]
    OBVIOUS
  <2>1. i \in 1..Len(t) + Len(u) /\ i \in Int
    BY <1>4
  <2>2. CASE i <= Len(t)
    <3>1. i \in 1..b - a
      BY <1>2, <2>1, <2>2
    <3> QED
      BY <1>2, <1>4, <2>1, <2>2, <3>1
  <2>3. CASE ~(i <= Len(t))
    <3>1. i - Len(t) \in 1..c - b /\ b + (i - Len(t)) = a + i
      BY <1>2, <1>3, <2>1, <2>3
    <3>2. u[i - Len(t)] = s[b + (i - Len(t))]
      BY <1>3, <3>1
    <3> QED
      BY <1>4, <2>1, <2>3, <3>1, <3>2
  <2> QED
    BY <2>2, <2>3
<1>7. t \o u = SubSeq(s, a + 1, a + Len(t \o u))
  <2> DEFINE v == t \o u
  <2>1. v \in Bytes /\ a + Len(v) <= Len(s) /\ \A i \in 1..Len(v) : v[i] = s[a + i]
    BY <1>4, <1>5, <1>6
  <2> HIDE DEF v
  <2>2. v = SubSeq(s, a + 1, a + Len(v))
    BY <2>1, AgreesIsPart
  <2> QED
    BY <2>2 DEF v
<1> QED
  BY <1>5, <1>7 DEF t, u

\* The concatenation of bytes.
LEMMA ConcatBytes ==
  ASSUME NEW s \in Bytes, NEW t \in Bytes
  PROVE  /\ s \o t \in Bytes /\ Len(s \o t) = Len(s) + Len(t)
         /\ \A i \in 1..Len(s) + Len(t) :
              (s \o t)[i] = IF i <= Len(s) THEN s[i] ELSE t[i - Len(s)]
BY ConcatProperties DEF Bytes

\* Three sequences one after another are the same however they are grouped.
LEMMA ConcatsGroup ==
  ASSUME NEW s \in Seq(Int), NEW t \in Seq(Int), NEW u \in Seq(Int)
  PROVE  (s \o t) \o u = s \o (t \o u)
BY ConcatAssociative, SMTT(30)

\* A sequence starts another that has its bytes at its places.
LEMMA PrefixIs ==
  ASSUME NEW s \in Bytes, NEW t \in Bytes, Len(s) <= Len(t),
         \A i \in 1..Len(s) : s[i] = t[i]
  PROVE  IsPrefix(s, t)
<1>1. PICK zero \in Nat : zero = 0
  OBVIOUS
<1>2. Len(s) \in Nat /\ zero + Len(s) <= Len(s) /\ zero + Len(s) <= Len(t)
  BY <1>1, LenProperties DEF Bytes
<1>3. \A i \in 1..Len(s) : s[i] = s[zero + i] /\ s[i] = t[zero + i]
  BY <1>1
<1>4. s = SubSeq(s, zero + 1, zero + Len(s)) /\ s = SubSeq(t, zero + 1, zero + Len(s))
  BY <1>2, <1>3, AgreesIsPart
<1>5. zero + 1 = 1 /\ zero + Len(s) = Len(s)
  BY <1>1, <1>2
<1> QED
  BY <1>4, <1>5 DEF IsPrefix

-----------------------------------------------------------------------------
(* The recursive functions of the model and of the library are defined.    *)

\* There are running sums: where each extent of a fork begins.
LEMMA SumsExist ==
  ASSUME NEW N \in Nat, NEW b
  PROVE  \E g : g = [i \in 1..N |-> IF i = 1 THEN 0 ELSE g[i - 1] + b[i - 1]]
<1> DEFINE Longer(x, i) == x + b[i - 1]
           Loop(g, n) == g = [i \in 1..n |-> IF i = 1 THEN 0 ELSE Longer(g[i - 1], i)]
           Bad == {n \in Nat : ~ \E g : Loop(g, n)}
<1>1. Bad = {}
  <2> SUFFICES ASSUME Bad # {} PROVE FALSE
    OBVIOUS
  <2> HIDE DEF Longer
  <2>1. PICK n \in Bad : \A k \in Bad : n <= k
    <3>1. Bad \in SUBSET Nat
      OBVIOUS
    <3> HIDE DEF Bad
    <3> QED
      BY <3>1, LeastIn
  <2>2. CASE n = 0
    <3> DEFINE g == [i \in 1..n |-> 0]
    <3>1. 1..n = {}
      BY <2>2
    <3>2. Loop(g, n)
      BY <3>1
    <3> QED
      BY <3>2
  <2>3. CASE n # 0
    <3>1. n \in Nat /\ n - 1 \in Nat /\ n - 1 \notin Bad
      <4>1. n \in Nat
        OBVIOUS
      <4> HIDE DEF Bad
      <4> QED
        BY <2>1, <2>3, <4>1
    <3>2. PICK g : Loop(g, n - 1)
      BY <3>1
    <3> DEFINE e == [i \in 1..n |-> IF i = n THEN (IF n = 1 THEN 0 ELSE Longer(g[n - 1], n))
                                    ELSE g[i]]
    <3>3. \A i \in 1..n - 1 : g[i] = IF i = 1 THEN 0 ELSE Longer(g[i - 1], i)
      BY <3>2
    <3>4. ASSUME NEW i \in 1..n PROVE e[i] = IF i = 1 THEN 0 ELSE Longer(e[i - 1], i)
      <4>1. CASE i = n
        <5>1. e[i] = IF n = 1 THEN 0 ELSE Longer(g[n - 1], n)
          BY <3>1, <4>1
        <5>2. n # 1 => e[n - 1] = g[n - 1]
          BY <3>1
        <5> QED
          BY <4>1, <5>1, <5>2
      <4>2. CASE i # n
        <5>1. i \in 1..n - 1 /\ e[i] = g[i]
          BY <3>1, <4>2
        <5>2. i # 1 => e[i - 1] = g[i - 1]
          BY <3>1, <4>2
        <5> QED
          BY <3>3, <5>1, <5>2
      <4> QED
        BY <4>1, <4>2
    <3>5. Loop(e, n)
      <4> DEFINE d == [i \in 1..n |-> IF i = 1 THEN 0 ELSE Longer(e[i - 1], i)]
      <4>1. DOMAIN e = 1..n /\ DOMAIN d = 1..n /\ \A i \in 1..n : e[i] = d[i]
        BY <3>4
      <4>2. e = [i \in 1..n |-> e[i]] /\ d = [i \in 1..n |-> d[i]]
        OBVIOUS
      <4> HIDE DEF e
      <4>3. e = d
        BY <4>1, <4>2
      <4> QED
        BY <4>3
    <3> HIDE DEF e
    <3> QED
      BY <3>5
  <2> QED
    BY <2>2, <2>3
<1>2. \E g : Loop(g, N)
  BY <1>1
<1> QED
  BY <1>2

\* The sequences of a sequence one after another: what each adds to those before it.
LEMMA ConcatsExist ==
  ASSUME NEW N \in Nat, NEW s
  PROVE  \E g : g = [i \in 1..N |-> IF i = 1 THEN s[i] ELSE g[i - 1] \o s[i]]
<1> DEFINE Longer(x, i) == x \o s[i]
           First(i) == s[i]
           Loop(g, n) == g = [i \in 1..n |-> IF i = 1 THEN First(i) ELSE Longer(g[i - 1], i)]
           Bad == {n \in Nat : ~ \E g : Loop(g, n)}
<1>1. Bad = {}
  <2> SUFFICES ASSUME Bad # {} PROVE FALSE
    OBVIOUS
  <2> HIDE DEF Longer, First
  <2>1. PICK n \in Bad : \A k \in Bad : n <= k
    <3>1. Bad \in SUBSET Nat
      OBVIOUS
    <3> HIDE DEF Bad
    <3> QED
      BY <3>1, LeastIn
  <2>2. CASE n = 0
    <3> DEFINE g == [i \in 1..n |-> 0]
    <3>1. 1..n = {}
      BY <2>2
    <3>2. Loop(g, n)
      BY <3>1
    <3> QED
      BY <3>2
  <2>3. CASE n # 0
    <3>1. n \in Nat /\ n - 1 \in Nat /\ n - 1 \notin Bad
      <4>1. n \in Nat
        OBVIOUS
      <4> HIDE DEF Bad
      <4> QED
        BY <2>1, <2>3, <4>1
    <3>2. PICK g : Loop(g, n - 1)
      BY <3>1
    <3> DEFINE e == [i \in 1..n |->
                       IF i = n THEN (IF n = 1 THEN First(n) ELSE Longer(g[n - 1], n)) ELSE g[i]]
    <3>3. \A i \in 1..n - 1 : g[i] = IF i = 1 THEN First(i) ELSE Longer(g[i - 1], i)
      BY <3>2
    <3>4. ASSUME NEW i \in 1..n PROVE e[i] = IF i = 1 THEN First(i) ELSE Longer(e[i - 1], i)
      <4>1. CASE i = n
        <5>1. e[i] = IF n = 1 THEN First(n) ELSE Longer(g[n - 1], n)
          BY <3>1, <4>1
        <5>2. n # 1 => e[n - 1] = g[n - 1]
          BY <3>1
        <5> QED
          BY <4>1, <5>1, <5>2
      <4>2. CASE i # n
        <5>1. i \in 1..n - 1 /\ e[i] = g[i]
          BY <3>1, <4>2
        <5>2. i # 1 => e[i - 1] = g[i - 1]
          BY <3>1, <4>2
        <5> QED
          BY <3>3, <5>1, <5>2
      <4> QED
        BY <4>1, <4>2
    <3>5. Loop(e, n)
      <4> DEFINE d == [i \in 1..n |-> IF i = 1 THEN First(i) ELSE Longer(e[i - 1], i)]
      <4>1. DOMAIN e = 1..n /\ DOMAIN d = 1..n /\ \A i \in 1..n : e[i] = d[i]
        BY <3>4
      <4>2. e = [i \in 1..n |-> e[i]] /\ d = [i \in 1..n |-> d[i]]
        OBVIOUS
      <4> HIDE DEF e
      <4>3. e = d
        BY <4>1, <4>2
      <4> QED
        BY <4>3
    <3> HIDE DEF e
    <3> QED
      BY <3>5
  <2> QED
    BY <2>2, <2>3
<1>2. \E g : Loop(g, N)
  BY <1>1
<1> QED
  BY <1>2

\* Flattened, a sequence of bytes is what is gathered after its last.
LEMMA FlattenIs ==
  ASSUME NEW N \in Nat \ {0}, NEW s, Len(s) = N, \A k \in 1..N : s[k] \in Bytes
  PROVE  \E g \in [0..N -> Bytes] :
           /\ g[0] = <<>> /\ \A k \in 1..N : g[k] = g[k - 1] \o s[k]
           /\ FlattenSeq(s) = g[N]
<1> DEFINE Loop(e) == e = [i \in 1..N |-> IF i = 1 THEN s[i] ELSE e[i - 1] \o s[i]]
           e == CHOOSE x : Loop(x)
<1>1. Loop(e)
  BY ConcatsExist
<1>2. FlattenSeq(s) = e[N]
  BY DEF FlattenSeq
<1> HIDE DEF e
<1>3. DOMAIN e = 1..N /\ \A i \in 1..N : e[i] = IF i = 1 THEN s[i] ELSE e[i - 1] \o s[i]
  <2>1. \A i \in 1..N : e[i] = IF i = 1 THEN s[i] ELSE e[i - 1] \o s[i]
    BY <1>1
  <2>2. DOMAIN e = 1..N
    BY <1>1
  <2> QED
    BY <2>1, <2>2
<1> DEFINE Bad == {n \in Nat : n \in 1..N /\ e[n] \notin Bytes}
<1>4. Bad = {}
  <2> SUFFICES ASSUME Bad # {} PROVE FALSE
    OBVIOUS
  <2>1. PICK n \in Bad : \A k \in Bad : n <= k
    <3>1. Bad \in SUBSET Nat
      OBVIOUS
    <3> HIDE DEF Bad
    <3> QED
      BY <3>1, LeastIn
  <2>2. n \in 1..N /\ e[n] \notin Bytes /\ n \in Nat
    OBVIOUS
  <2>3. n # 1
    BY <1>3, <2>2
  <2>4. n - 1 \in 1..N /\ n - 1 \in Nat /\ ~(n <= n - 1)
    BY <2>2, <2>3
  <2>5. e[n - 1] \in Bytes
    <3>1. n - 1 \notin Bad
      <4> HIDE DEF Bad
      <4> QED
        BY <2>1, <2>4
    <3> QED
      BY <2>4, <3>1
  <2>6. e[n] = e[n - 1] \o s[n]
    BY <1>3, <2>2, <2>3
  <2> QED
    BY <2>2, <2>5, <2>6, ConcatBytes
<1>5. \A n \in 1..N : e[n] \in Bytes
  <2>1. \A n \in 1..N : n \in Nat
    OBVIOUS
  <2> QED
    BY <1>4, <2>1
<1> DEFINE g == [k \in 0..N |-> IF k = 0 THEN <<>> ELSE e[k]]
<1>6. g \in [0..N -> Bytes]
  <2>1. <<>> \in Bytes
    BY EmptySeq DEF Bytes
  <2>2. ASSUME NEW k \in 0..N PROVE (IF k = 0 THEN <<>> ELSE e[k]) \in Bytes
    <3>1. k # 0 => k \in 1..N
      OBVIOUS
    <3> QED
      BY <1>5, <2>1, <3>1
  <2> QED
    BY <2>2
<1>7. g[0] = <<>> /\ g[N] = e[N]
  OBVIOUS
<1>8. ASSUME NEW k \in 1..N PROVE g[k] = g[k - 1] \o s[k]
  <2>1. g[k] = e[k]
    OBVIOUS
  <2>2. CASE k = 1
    <3>1. g[k - 1] = <<>> /\ e[k] = s[k] /\ s[k] \in Seq(Int)
      BY <1>3, <2>2 DEF Bytes
    <3> QED
      BY <2>1, <3>1, ConcatEmptySeq
  <2>3. CASE k # 1
    <3>1. k - 1 \in 1..N /\ k - 1 # 0
      BY <2>3
    <3>2. g[k - 1] = e[k - 1]
      BY <3>1
    <3> QED
      BY <1>3, <2>1, <2>3, <3>2
  <2> QED
    BY <2>2, <2>3
<1> HIDE DEF g
<1> QED
  BY <1>2, <1>6, <1>7, <1>8

-----------------------------------------------------------------------------
(* Forks on a sound volume.                                                *)

\* The sizes are numbers.
LEMMA Sizes ==
  /\ BlockSize \in Nat \ {0} /\ Cap \in Nat \ {0} /\ Piece \in Nat \ {0} /\ DiskSize \in Nat
  /\ DataOffset \in Nat /\ DataOffset >= Header /\ Header < Cap /\ Header \in Nat /\ Word \in Nat
  /\ Header > 0 /\ Lens \subseteq Nat /\ Offsets \subseteq Nat /\ Std \subseteq Fds /\ Fds \subseteq Nat
BY FileStackAssumption DEF Header, Word

\* What is assumed of a fork.
LEMMA ForkIsSound ==
  ASSUME NEW f \in Forks
  PROVE  /\ f.kind \in Kinds /\ f.size \in Nat /\ f.size <= DiskSize /\ f.chunks \in Nat
         /\ f.extents \in Seq(Nat \X (Nat \ {0}))
         /\ \A i \in DOMAIN f.extents :
              (f.extents[i][1] + f.extents[i][2]) * BlockSize <= DiskSize
         /\ \A p \in 0..f.size - 1 : SpanAt(f, p) # {}
         /\ f.kind \in {"chunked", "resource chunked"} => f.chunks > 0
         /\ f.kind # "plain" => f.size >= Header
         /\ \A i \in DOMAIN Plan(f) :
              /\ Plan(f)[i].at <= f.size
              /\ Plan(f)[i].mode # "toend" =>
                   Plan(f)[i].len >= 0 /\ Plan(f)[i].at + Plan(f)[i].len <= f.size
<1>1. f \in {Volume[n] : n \in DOMAIN Volume} \cup {Catalog}
  BY DEF Forks
<1>2. f.size \in 0..DiskSize
  BY <1>1, VolumeAssumption
<1>3. f.size \in Nat /\ f.size <= DiskSize
  BY <1>2, Sizes
<1>4. \A i \in DOMAIN Plan(f) :
              /\ Plan(f)[i].at <= f.size
              /\ Plan(f)[i].mode # "toend" =>
                   Plan(f)[i].len >= 0 /\ Plan(f)[i].at + Plan(f)[i].len <= f.size
  BY <1>1, VolumeAssumption
<1>5. f.kind \in Kinds /\ f.chunks \in Nat /\ f.extents \in Seq(Nat \X (Nat \ {0}))
  BY <1>1, VolumeAssumption
<1>6. \A i \in DOMAIN f.extents : (f.extents[i][1] + f.extents[i][2]) * BlockSize <= DiskSize
  BY <1>1, VolumeAssumption
<1>7. \A p \in 0..f.size - 1 : SpanAt(f, p) # {}
  BY <1>1, VolumeAssumption
<1>8. f.kind \in {"chunked", "resource chunked"} => f.chunks > 0
  BY <1>1, VolumeAssumption
<1>9. f.kind # "plain" => f.size >= Header
  BY <1>1, VolumeAssumption
<1> QED
  BY <1>3, <1>4, <1>5, <1>6, <1>7, <1>8, <1>9

\* The size of a fork, and the count of its chunks.
LEMMA ForkSize ==
  ASSUME NEW f \in Forks
  PROVE  f.size \in Nat /\ f.size \in Int /\ f.size <= DiskSize /\ f.chunks \in Nat
<1>1. f.size \in Nat /\ f.size <= DiskSize /\ f.chunks \in Nat
  BY ForkIsSound
<1> QED
  BY <1>1

\* The extents of a fork.
LEMMA ExtentsAre ==
  ASSUME NEW f \in Forks
  PROVE  /\ Len(f.extents) \in Nat /\ DOMAIN f.extents = 1..Len(f.extents)
         /\ \A i \in 1..Len(f.extents) :
              /\ f.extents[i][1] \in Nat /\ f.extents[i][2] \in Nat
              /\ f.extents[i][1] * BlockSize \in Nat /\ f.extents[i][2] * BlockSize \in Nat
              /\ f.extents[i][1] * BlockSize + f.extents[i][2] * BlockSize <= DiskSize
<1>1. f.extents \in Seq(Nat \X (Nat \ {0}))
  BY ForkIsSound
<1>2. Len(f.extents) \in Nat /\ DOMAIN f.extents = 1..Len(f.extents)
  BY <1>1, LenProperties
<1>3. ASSUME NEW i \in 1..Len(f.extents)
      PROVE  /\ f.extents[i][1] \in Nat /\ f.extents[i][2] \in Nat
             /\ f.extents[i][1] * BlockSize \in Nat /\ f.extents[i][2] * BlockSize \in Nat
             /\ f.extents[i][1] * BlockSize + f.extents[i][2] * BlockSize <= DiskSize
  <2>1. f.extents[i] \in Nat \X (Nat \ {0})
    BY <1>1, <1>3, ElementOfSeq
  <2> DEFINE a == f.extents[i][1]
             b == f.extents[i][2]
  <2>2. a \in Nat /\ b \in Nat /\ BlockSize \in Nat
    BY <2>1, Sizes
  <2>3. (a + b) * BlockSize <= DiskSize
    BY <1>2, ForkIsSound
  <2> HIDE DEF a, b
  <2>4. a * BlockSize \in Nat /\ b * BlockSize \in Nat
    BY <2>2
  <2>5. (a + b) * BlockSize = a * BlockSize + b * BlockSize
    BY <2>2
  <2> QED
    BY <2>2, <2>3, <2>4, <2>5 DEF a, b
<1> QED
  BY <1>2, <1>3

\* The spans of a fork follow each other.
LEMMA SpansAre ==
  ASSUME NEW f \in Forks
  PROVE  \E begin, b :
           /\ DOMAIN Spans(f) = 1..Len(f.extents)
           /\ \A i \in 1..Len(f.extents) :
                /\ begin[i] \in Nat /\ b[i] \in Nat
                /\ Spans(f)[i].addr \in Nat /\ Spans(f)[i].addr + b[i] <= DiskSize
                /\ Spans(f)[i].begin = IF f.size <= begin[i] THEN f.size ELSE begin[i]
                /\ Spans(f)[i].end =
                     IF f.size <= begin[i] + b[i] THEN f.size ELSE begin[i] + b[i]
           /\ \A i, j \in 1..Len(f.extents) : i < j => begin[i] + b[i] <= begin[j]
<1> DEFINE N == Len(f.extents)
           b == [i \in 1..N |-> f.extents[i][2] * BlockSize]
           Of(g) == [i \in 1..N |-> IF i = 1 THEN 0 ELSE g[i - 1] + f.extents[i - 1][2] * BlockSize]
           begin == CHOOSE g : g = Of(g)
<1>1. N \in Nat /\ DOMAIN f.extents = 1..N /\ \A i \in 1..N : b[i] \in Nat
  BY ExtentsAre
<1>2. Spans(f) = [i \in DOMAIN f.extents |->
                    [addr  |-> f.extents[i][1] * BlockSize,
                     begin |-> Min({f.size, begin[i]}),
                     end   |-> Min({f.size, begin[i] + f.extents[i][2] * BlockSize})]]
  BY DEF Spans
<1>3. begin = Of(begin)
  <2>1. PICK g : g = [i \in 1..N |-> IF i = 1 THEN 0 ELSE g[i - 1] + b[i - 1]]
    <3> HIDE DEF N, b
    <3> QED
      BY <1>1, SumsExist
  <2>2. [i \in 1..N |-> IF i = 1 THEN 0 ELSE g[i - 1] + b[i - 1]] = Of(g)
    <3>1. ASSUME NEW i \in 1..N, i # 1 PROVE b[i - 1] = f.extents[i - 1][2] * BlockSize
      <4>1. i - 1 \in 1..N
        BY <1>1, <3>1
      <4> QED
        BY <4>1
    <3> HIDE DEF b
    <3> QED
      BY <3>1
  <2>3. g = Of(g)
    BY <2>1, <2>2
  <2> HIDE DEF Of
  <2> QED
    BY <2>3
<1> HIDE DEF begin
<1>4. \A i \in 1..N : begin[i] = IF i = 1 THEN 0 ELSE begin[i - 1] + f.extents[i - 1][2] * BlockSize
  BY <1>3
<1>5. \A i \in 1..N : i # 1 => i - 1 \in 1..N /\ begin[i] = begin[i - 1] + b[i - 1]
  <2> SUFFICES ASSUME NEW i \in 1..N, i # 1
               PROVE  i - 1 \in 1..N /\ begin[i] = begin[i - 1] + b[i - 1]
    OBVIOUS
  <2>1. i - 1 \in 1..N
    BY <1>1
  <2>2. b[i - 1] = f.extents[i - 1][2] * BlockSize
    BY <2>1
  <2> QED
    BY <1>4, <2>1, <2>2
<1>6. \A i \in 1..N : i = 1 => begin[i] = 0
  BY <1>4
<1>7. \A i \in 1..N : b[i] = f.extents[i][2] * BlockSize
  OBVIOUS
<1> HIDE DEF N, b
<1>8. \A n \in 1..N : begin[n] \in Nat
  <2> DEFINE Bad == {n \in 1..N : begin[n] \notin Nat}
  <2> SUFFICES ASSUME Bad # {} PROVE FALSE
    OBVIOUS
  <2>1. PICK n \in Bad : \A k \in Bad : n <= k
    <3>1. Bad \in SUBSET Nat
      BY <1>1
    <3> HIDE DEF Bad
    <3> QED
      BY <3>1, LeastIn
  <2>2. n \in 1..N /\ begin[n] \notin Nat
    OBVIOUS
  <2>3. n # 1
    BY <1>6, <2>2
  <2>4. n - 1 \in 1..N /\ begin[n] = begin[n - 1] + b[n - 1]
    BY <1>5, <2>2, <2>3
  <2>5. ~(n <= n - 1)
    BY <2>2
  <2>6. n - 1 \notin Bad
    <3> HIDE DEF Bad
    <3> QED
      BY <2>1, <2>5
  <2>7. begin[n - 1] \in Nat /\ b[n - 1] \in Nat
    BY <1>1, <2>4, <2>6
  <2> QED
    BY <2>2, <2>4, <2>7
<1>9. ASSUME NEW i \in 1..N, NEW m \in 1..N, i < m PROVE begin[i] + b[i] <= begin[m]
  <2> DEFINE Bad == {n \in 1..N : i < n /\ ~(begin[i] + b[i] <= begin[n])}
  <2> SUFFICES ASSUME Bad # {} PROVE FALSE
    BY <1>9
  <2>1. PICK n \in Bad : \A k \in Bad : n <= k
    <3>1. Bad \in SUBSET Nat
      BY <1>1
    <3> HIDE DEF Bad
    <3> QED
      BY <3>1, LeastIn
  <2>2. n \in 1..N /\ i < n /\ ~(begin[i] + b[i] <= begin[n])
    OBVIOUS
  <2>3. i \in Int /\ n \in Int /\ i >= 1 /\ n # 1
    BY <1>1, <2>2
  <2>4. n - 1 \in 1..N /\ begin[n] = begin[n - 1] + b[n - 1]
    BY <1>5, <2>2, <2>3
  <2>5. ~(n <= n - 1)
    BY <2>3
  <2>6. n - 1 \notin Bad
    <3> HIDE DEF Bad
    <3> QED
      BY <2>1, <2>5
  <2>7. /\ begin[i] \in Nat /\ b[i] \in Nat /\ begin[n] \in Nat
        /\ begin[n - 1] \in Nat /\ b[n - 1] \in Nat
    BY <1>1, <1>8, <2>2, <2>4
  <2>8. CASE n - 1 = i
    BY <2>2, <2>4, <2>7, <2>8
  <2>9. CASE n - 1 # i
    <3>1. i < n - 1
      BY <2>2, <2>3, <2>9
    <3>2. begin[i] + b[i] <= begin[n - 1]
      BY <2>4, <2>6, <3>1
    <3> QED
      BY <2>2, <2>4, <2>7, <3>2
  <2> QED
    BY <2>8, <2>9
<1>10. DOMAIN Spans(f) = 1..N
  BY <1>1, <1>2
<1>11. ASSUME NEW i \in 1..N
       PROVE  /\ Spans(f)[i].addr \in Nat /\ Spans(f)[i].addr + b[i] <= DiskSize
              /\ Spans(f)[i].begin = IF f.size <= begin[i] THEN f.size ELSE begin[i]
              /\ Spans(f)[i].end =
                   IF f.size <= begin[i] + b[i] THEN f.size ELSE begin[i] + b[i]
  <2>1. Spans(f)[i] = [addr  |-> f.extents[i][1] * BlockSize,
                       begin |-> Min({f.size, begin[i]}),
                       end   |-> Min({f.size, begin[i] + b[i]})]
    BY <1>1, <1>2, <1>7
  <2>2. begin[i] \in Int /\ begin[i] + b[i] \in Int /\ f.size \in Int
    BY <1>1, <1>8, ForkSize
  <2>3. /\ Min({f.size, begin[i]}) = IF f.size <= begin[i] THEN f.size ELSE begin[i]
        /\ Min({f.size, begin[i] + b[i]}) =
             IF f.size <= begin[i] + b[i] THEN f.size ELSE begin[i] + b[i]
    BY <2>2, MinOfTwo
  <2>4. /\ f.extents[i][1] * BlockSize \in Nat
        /\ f.extents[i][1] * BlockSize + b[i] <= DiskSize
    BY <1>7, ExtentsAre DEF N
  <2> QED
    BY <2>1, <2>3, <2>4
<1>12. \A i, j \in 1..N : i < j => begin[i] + b[i] <= begin[j]
  BY <1>9
<1>13. \A i \in 1..N : begin[i] \in Nat /\ b[i] \in Nat
  BY <1>1, <1>8
<1> QED
  BY <1>10, <1>11, <1>12, <1>13 DEF N

\* A span lies in the fork and on the disk.
LEMMA SpanIs ==
  ASSUME NEW f \in Forks, NEW p \in Nat, NEW s \in SpanAt(f, p)
  PROVE  /\ s.addr \in Nat /\ s.begin \in Nat /\ s.end \in Nat
         /\ s.begin <= p /\ p < s.end /\ s.end <= f.size
         /\ s.addr + (s.end - s.begin) <= DiskSize
<1>1. PICK begin, b :
           /\ DOMAIN Spans(f) = 1..Len(f.extents)
           /\ \A i \in 1..Len(f.extents) :
                /\ begin[i] \in Nat /\ b[i] \in Nat
                /\ Spans(f)[i].addr \in Nat /\ Spans(f)[i].addr + b[i] <= DiskSize
                /\ Spans(f)[i].begin = IF f.size <= begin[i] THEN f.size ELSE begin[i]
                /\ Spans(f)[i].end =
                     IF f.size <= begin[i] + b[i] THEN f.size ELSE begin[i] + b[i]
  BY SpansAre
<1>2. s \in Range(Spans(f)) /\ s.begin <= p /\ p < s.end
  BY DEF SpanAt
<1>3. PICK i \in 1..Len(f.extents) : s = Spans(f)[i]
  BY <1>1, <1>2 DEF Range
<1> DEFINE d == begin[i]
           c == b[i]
<1>4. /\ d \in Nat /\ c \in Nat /\ s.addr \in Nat /\ s.addr + c <= DiskSize
      /\ s.begin = IF f.size <= d THEN f.size ELSE d
      /\ s.end = IF f.size <= d + c THEN f.size ELSE d + c
  BY <1>1, <1>3
<1>5. f.size \in Nat /\ DiskSize \in Nat
  BY ForkSize, Sizes
<1> HIDE DEF d, c
<1> QED
  BY <1>2, <1>4, <1>5

\* Each place of a fork is in one span.
LEMMA SpanIsOne ==
  ASSUME NEW f \in Forks, NEW p \in Nat, NEW s \in SpanAt(f, p), NEW t \in SpanAt(f, p)
  PROVE  s = t
<1>1. PICK begin, b :
           /\ DOMAIN Spans(f) = 1..Len(f.extents)
           /\ \A i \in 1..Len(f.extents) :
                /\ begin[i] \in Nat /\ b[i] \in Nat
                /\ Spans(f)[i].addr \in Nat /\ Spans(f)[i].addr + b[i] <= DiskSize
                /\ Spans(f)[i].begin = IF f.size <= begin[i] THEN f.size ELSE begin[i]
                /\ Spans(f)[i].end =
                     IF f.size <= begin[i] + b[i] THEN f.size ELSE begin[i] + b[i]
           /\ \A i, j \in 1..Len(f.extents) : i < j => begin[i] + b[i] <= begin[j]
  BY SpansAre
<1>2. /\ s \in Range(Spans(f)) /\ s.begin <= p /\ p < s.end
      /\ t \in Range(Spans(f)) /\ t.begin <= p /\ p < t.end
  BY DEF SpanAt
<1>3. PICK i \in 1..Len(f.extents) : s = Spans(f)[i]
  BY <1>1, <1>2 DEF Range
<1>4. PICK j \in 1..Len(f.extents) : t = Spans(f)[j]
  BY <1>1, <1>2 DEF Range
<1>5. \A k, m \in 1..Len(f.extents) : k < m => ~(p < Spans(f)[k].end /\ Spans(f)[m].begin <= p)
  <2> SUFFICES ASSUME NEW k \in 1..Len(f.extents), NEW m \in 1..Len(f.extents), k < m,
                      p < Spans(f)[k].end, Spans(f)[m].begin <= p
               PROVE  FALSE
    OBVIOUS
  <2> DEFINE e == begin[k] + b[k]
             d == begin[m]
  <2>1. /\ Spans(f)[k].end = IF f.size <= e THEN f.size ELSE e
        /\ Spans(f)[m].begin = IF f.size <= d THEN f.size ELSE d
        /\ e \in Int /\ d \in Int /\ e <= d
    BY <1>1
  <2>2. f.size \in Int
    BY ForkSize
  <2> HIDE DEF e, d
  <2> QED
    BY <2>1, <2>2
<1>6. i \in Int /\ j \in Int
  OBVIOUS
<1>7. ~(i < j) /\ ~(j < i)
  BY <1>2, <1>3, <1>4, <1>5
<1>8. i = j
  BY <1>6, <1>7
<1> QED
  BY <1>3, <1>4, <1>8

\* Every place before the end of a fork is in a span, and no other is.
LEMMA SpanWithin ==
  ASSUME NEW f \in Forks, NEW p \in Nat
  PROVE  SpanAt(f, p) = {} <=> f.size <= p
<1>1. f.size \in Nat
  BY ForkSize
<1>2. ASSUME ~(f.size <= p) PROVE SpanAt(f, p) # {}
  <2>1. p \in 0..f.size - 1
    BY <1>1, <1>2
  <2> QED
    BY <2>1, ForkIsSound
<1>3. ASSUME SpanAt(f, p) # {} PROVE ~(f.size <= p)
  <2>1. PICK s \in SpanAt(f, p) : TRUE
    BY <1>3
  <2>2. s.end \in Nat /\ p < s.end /\ s.end <= f.size
    BY SpanIs
  <2> QED
    BY <1>1, <2>2
<1> QED
  BY <1>2, <1>3

\* A span is that of each place in it.
LEMMA SpanOfPlace ==
  ASSUME NEW f, NEW p, NEW s \in SpanAt(f, p), NEW q, s.begin <= q, q < s.end
  PROVE  s \in SpanAt(f, q)
BY DEF SpanAt

\* The bytes of a fork: each is the one of the disk that its span has there.
LEMMA ForkBytesAre ==
  ASSUME NEW f \in Forks
  PROVE  /\ ForkBytes(f) \in Bytes /\ Len(ForkBytes(f)) = f.size
         /\ \A q \in Nat : \A s \in SpanAt(f, q) : ForkBytes(f)[q + 1] = s.addr + q - s.begin
<1> DEFINE At(p) == LET s == CHOOSE x \in SpanAt(f, p - 1) : TRUE IN s.addr + p - 1 - s.begin
<1>1. ForkBytes(f) = [p \in 1..f.size |-> At(p)]
  BY DEF ForkBytes
<1>2. f.size \in Nat
  BY ForkSize
<1>3. ASSUME NEW q \in Nat, NEW s \in SpanAt(f, q) PROVE At(q + 1) = s.addr + q - s.begin
  <2> DEFINE x == CHOOSE y \in SpanAt(f, q) : TRUE
  <2>1. x \in SpanAt(f, q)
    OBVIOUS
  <2>2. x = s
    <3> HIDE DEF x
    <3> QED
      BY <2>1, SpanIsOne
  <2>3. q + 1 - 1 = q
    OBVIOUS
  <2>4. At(q + 1) = x.addr + (q + 1) - 1 - x.begin
    BY <2>3
  <2>5. s.addr \in Nat /\ s.begin \in Nat
    BY SpanIs
  <2> HIDE DEF x, At
  <2>6. s.addr + (q + 1) - 1 - s.begin = s.addr + q - s.begin
    BY <2>5
  <2> QED
    BY <2>2, <2>4, <2>6
<1>4. ASSUME NEW p \in 1..f.size PROVE At(p) \in Int
  <2>1. p - 1 \in Nat /\ (p - 1) + 1 = p /\ ~(f.size <= p - 1)
    BY <1>2, <1>4
  <2>2. PICK s \in SpanAt(f, p - 1) : TRUE
    BY <2>1, SpanWithin
  <2>3. At((p - 1) + 1) = s.addr + (p - 1) - s.begin
    <3> HIDE DEF At
    <3> QED
      BY <1>3, <2>1
  <2>4. s.addr \in Nat /\ s.begin \in Nat
    BY <2>1, SpanIs
  <2> HIDE DEF At
  <2> QED
    BY <2>1, <2>3, <2>4
<1>5. ASSUME NEW q \in Nat, NEW s \in SpanAt(f, q) PROVE q + 1 \in 1..f.size
  <2>1. s.end \in Nat /\ q < s.end /\ s.end <= f.size
    BY SpanIs
  <2> QED
    BY <1>2, <2>1
<1> HIDE DEF At
<1>6. [p \in 1..f.size |-> At(p)] \in Seq(Int) /\ Len([p \in 1..f.size |-> At(p)]) = f.size
  BY <1>2, <1>4, IsASeq
<1>7. \A q \in Nat : \A s \in SpanAt(f, q) : ForkBytes(f)[q + 1] = s.addr + q - s.begin
  BY <1>1, <1>3, <1>5
<1> QED
  BY <1>1, <1>6, <1>7 DEF Bytes

-----------------------------------------------------------------------------
(* What check_compression reads of a compressed file.                      *)

\* The reads are in order and do not overlap; read_to_end is the last.
Modes == {"exact", "short", "toend"}
Steps == [mode : Modes, at : Nat, len : Nat, data : BOOLEAN]
InOrder(P) == \A i \in 1..Len(P) - 1 : P[i].at + P[i].len <= P[i + 1].at
EndsLast(P) ==
  \A i \in 1..Len(P) : P[i].mode = "toend" => i = Len(P) /\ P[i].data = TRUE /\ P[i].len = Piece
PlanOK(P) == P \in Seq(Steps) /\ InOrder(P) /\ EndsLast(P)

\* The reads of a plan that may be short.
LEMMA ShortIs ==
  ASSUME NEW at \in Nat, NEW n \in Nat
  PROVE  /\ Short(at, n) \in Steps /\ Short(at, n).at = at /\ Short(at, n).len = n
         /\ Short(at, n).mode = "short"
BY DEF Short, Steps, Modes

\* The read to the end.
LEMMA ToEndIs ==
  ASSUME NEW at \in Nat
  PROVE  /\ ToEnd(at) \in Steps /\ ToEnd(at).at = at /\ ToEnd(at).len = Piece
         /\ ToEnd(at).mode = "toend" /\ ToEnd(at).data = TRUE
<1>1. Piece \in Nat
  BY Sizes
<1> QED
  BY <1>1 DEF ToEnd, Steps, Modes

\* A plan of one read.
LEMMA OneStep ==
  ASSUME NEW s \in Steps, s.mode = "toend" => s.data = TRUE /\ s.len = Piece
  PROVE  PlanOK(<<s>>) /\ Len(<<s>>) = 1 /\ <<s>>[1] = s
<1>1. <<s>> \in Seq(Steps) /\ Len(<<s>>) = 1 /\ <<s>>[1] = s
  OBVIOUS
<1>2. InOrder(<<s>>)
  BY <1>1 DEF InOrder
<1>3. EndsLast(<<s>>)
  BY <1>1 DEF EndsLast
<1> QED
  BY <1>1, <1>2, <1>3 DEF PlanOK

\* Two reads before a plan.
LEMMA TwoBefore ==
  ASSUME NEW s \in Steps, NEW t \in Steps, NEW P, PlanOK(P), Len(P) > 0,
         s.mode # "toend", t.mode # "toend",
         s.at + s.len <= t.at, t.at + t.len <= P[1].at
  PROVE  PlanOK(<<s, t>> \o P) /\ Len(<<s, t>> \o P) = Len(P) + 2
<1> DEFINE Q == <<s, t>>
           R == Q \o P
<1>1. Q \in Seq(Steps) /\ Len(Q) = 2 /\ Q[1] = s /\ Q[2] = t
  OBVIOUS
<1>2. P \in Seq(Steps) /\ Len(P) \in Nat
  BY LenProperties DEF PlanOK
<1> HIDE DEF Q
<1>3. /\ R \in Seq(Steps) /\ Len(R) = 2 + Len(P)
      /\ \A i \in 1..2 + Len(P) : R[i] = IF i <= 2 THEN Q[i] ELSE P[i - 2]
  <2>1. /\ Q \o P \in Seq(Steps) /\ Len(Q \o P) = Len(Q) + Len(P)
        /\ \A i \in 1..Len(Q) + Len(P) :
             (Q \o P)[i] = IF i <= Len(Q) THEN Q[i] ELSE P[i - Len(Q)]
    BY <1>1, <1>2, ConcatProperties
  <2> QED
    BY <1>1, <2>1
<1> HIDE DEF R
<1>4. R[1] = s /\ R[2] = t
  BY <1>1, <1>2, <1>3
<1>5. \A i \in 3..Len(R) : R[i] = P[i - 2] /\ i - 2 \in 1..Len(P)
  BY <1>2, <1>3
<1>6. InOrder(R)
  <2> SUFFICES ASSUME NEW i \in 1..Len(R) - 1 PROVE R[i].at + R[i].len <= R[i + 1].at
    BY DEF InOrder
  <2>1. CASE i = 1
    BY <1>4, <2>1
  <2>2. CASE i = 2
    <3>1. i + 1 \in 3..Len(R) /\ (i + 1) - 2 = 1
      BY <1>2, <1>3, <2>2
    <3>2. R[i + 1] = P[1]
      BY <1>5, <3>1
    <3> QED
      BY <1>4, <2>2, <3>2
  <2>3. CASE i > 2
    <3>1. i \in 3..Len(R) /\ i + 1 \in 3..Len(R) /\ i - 2 \in 1..Len(P) - 1 /\ (i + 1) - 2 = (i - 2) + 1
      BY <1>2, <1>3, <2>3
    <3>2. R[i] = P[i - 2] /\ R[i + 1] = P[(i - 2) + 1]
      BY <1>5, <3>1
    <3>3. P[i - 2].at + P[i - 2].len <= P[(i - 2) + 1].at
      BY <3>1 DEF PlanOK, InOrder
    <3> QED
      BY <3>2, <3>3
  <2> QED
    BY <2>1, <2>2, <2>3
<1>7. EndsLast(R)
  <2> SUFFICES ASSUME NEW i \in 1..Len(R), R[i].mode = "toend"
               PROVE  i = Len(R) /\ R[i].data = TRUE /\ R[i].len = Piece
    BY DEF EndsLast
  <2>1. i # 1 /\ i # 2
    BY <1>4
  <2>2. i \in 3..Len(R)
    BY <2>1
  <2>3. R[i] = P[i - 2] /\ i - 2 \in 1..Len(P)
    BY <1>5, <2>2
  <2>4. i - 2 = Len(P) /\ P[i - 2].data = TRUE /\ P[i - 2].len = Piece
    BY <2>3 DEF PlanOK, EndsLast
  <2>5. i = Len(R)
    BY <1>2, <1>3, <2>2, <2>4
  <2> QED
    BY <2>3, <2>4, <2>5
<1>8. PlanOK(R) /\ Len(R) = Len(P) + 2
  BY <1>2, <1>3, <1>6, <1>7 DEF PlanOK
<1> QED
  BY <1>8 DEF R, Q

\* The chunks after the table of offsets.
ChunkSteps(f, first, size) ==
  [i \in 1..f.chunks |->
     Exact(first + (i - 1) * size,
           IF i < f.chunks THEN size ELSE f.size - first - (i - 1) * size, TRUE)]

\* They follow each other to the end of the fork.
LEMMA ChunkStepsAre ==
  ASSUME NEW f \in Forks, f.chunks > 0, NEW first \in Nat, first <= f.size, NEW size,
         size = (f.size - first) \div f.chunks
  PROVE  /\ PlanOK(ChunkSteps(f, first, size)) /\ Len(ChunkSteps(f, first, size)) = f.chunks
         /\ ChunkSteps(f, first, size)[1].at = first
<1> DEFINE n == f.chunks
           L(i) == IF i < n THEN size ELSE f.size - first - (i - 1) * size
           C == ChunkSteps(f, first, size)
<1>1. n \in Nat \ {0} /\ f.size \in Nat
  BY ForkSize
<1>2. size \in Nat /\ n * size <= f.size - first
  <2> DEFINE v == f.size - first
  <2>1. v \in Nat
    BY <1>1
  <2> HIDE DEF v, n
  <2>2. v \div n \in Nat /\ n * (v \div n) <= v
    BY <1>1, <2>1
  <2> QED
    BY <2>2 DEF v, n
<1> HIDE DEF n
<1>3. ASSUME NEW i \in 1..n
      PROVE  (i - 1) * size \in Nat /\ i * size = (i - 1) * size + size
  <2>1. i - 1 \in Nat /\ i \in Nat
    OBVIOUS
  <2>2. (i - 1) * size \in Nat
    BY <1>2, <2>1
  <2>3. i * size = (i - 1) * size + size
    BY <1>2, <2>1
  <2> QED
    BY <2>2, <2>3
<1>4. ASSUME NEW i \in 1..n PROVE L(i) \in Nat
  <2>1. CASE i < n
    BY <1>2, <2>1
  <2>2. CASE ~(i < n)
    <3>1. i = n
      BY <1>1, <2>2
    <3>2. (i - 1) * size \in Nat /\ n * size = (i - 1) * size + size
      BY <1>3, <3>1
    <3> DEFINE x == (i - 1) * size
               y == n * size
    <3>3. x \in Nat /\ y = x + size /\ y <= f.size - first
      BY <1>2, <3>2
    <3>4. L(i) = f.size - first - x
      BY <2>2
    <3> HIDE DEF x, y, L
    <3> QED
      BY <1>1, <1>2, <3>3, <3>4
  <2> QED
    BY <2>1, <2>2
<1>5. C = [i \in 1..n |-> Exact(first + (i - 1) * size, L(i), TRUE)]
  BY DEF ChunkSteps, n
<1>6. \A i \in 1..n : i < n => L(i) = size
  OBVIOUS
<1> HIDE DEF C, L
<1>7. ASSUME NEW i \in 1..n
      PROVE  /\ C[i] \in Steps /\ C[i].at = first + (i - 1) * size /\ C[i].len = L(i)
             /\ C[i].mode = "exact"
  <2> DEFINE x == (i - 1) * size
  <2>1. x \in Nat
    BY <1>3
  <2>2. C[i] = Exact(first + x, L(i), TRUE)
    BY <1>5
  <2> HIDE DEF x
  <2>3. first + x \in Nat
    BY <2>1
  <2>4. C[i] \in Steps /\ C[i].at = first + x /\ C[i].len = L(i) /\ C[i].mode = "exact"
    BY <1>4, <2>2, <2>3 DEF Exact, Steps, Modes
  <2> QED
    BY <2>4 DEF x
<1>8. C \in Seq(Steps) /\ Len(C) = n
  <2>1. C = [i \in 1..n |-> C[i]]
    BY <1>5
  <2>2. [i \in 1..n |-> C[i]] \in Seq(Steps) /\ Len([i \in 1..n |-> C[i]]) = n
    BY <1>1, <1>7, IsASeq
  <2> QED
    BY <2>1, <2>2
<1>9. InOrder(C)
  <2> SUFFICES ASSUME NEW i \in 1..n - 1 PROVE C[i].at + C[i].len <= C[i + 1].at
    BY <1>8 DEF InOrder
  <2>1. i \in 1..n /\ i + 1 \in 1..n /\ i < n /\ (i + 1) - 1 = i
    BY <1>1
  <2> DEFINE x == (i - 1) * size
             y == i * size
  <2>2. x \in Nat /\ y = x + size
    BY <1>3, <2>1
  <2>3. C[i].at = first + x /\ C[i].len = size
    BY <1>6, <1>7, <2>1
  <2>4. C[i + 1].at = first + y
    <3>1. C[i + 1].at = first + ((i + 1) - 1) * size
      BY <1>7, <2>1
    <3> QED
      BY <2>1, <3>1
  <2> HIDE DEF x, y
  <2> QED
    BY <1>2, <2>2, <2>3, <2>4
<1>10. EndsLast(C)
  BY <1>7, <1>8 DEF EndsLast
<1>11. C[1].at = first
  <2>1. 1 \in 1..n
    BY <1>1
  <2>2. C[1].at = first + (1 - 1) * size
    BY <1>7, <2>1
  <2>3. (1 - 1) * size = 0
    BY <1>2
  <2> QED
    BY <2>2, <2>3
<1> QED
  BY <1>8, <1>9, <1>10, <1>11 DEF PlanOK, C, n

\* The chunks of a file and what comes before them.
LEMMA ChunksAre ==
  ASSUME NEW f \in Forks, f.chunks > 0, NEW at \in Nat
  PROVE  /\ Chunks(f, at)[2] = Exact(at + Word, f.chunks * Word, FALSE)
         /\ Len(Chunks(f, at)) = f.chunks + 2 /\ \E S : Chunks(f, at) \in Seq(S)
         /\ at + Word + f.chunks * Word <= f.size =>
              PlanOK(Chunks(f, at)) /\ Chunks(f, at)[1].at = at
<1> DEFINE w == f.chunks * Word
           first == at + Word + w
           size == (f.size - first) \div f.chunks
           C == ChunkSteps(f, first, size)
           s == Exact(at, Word, FALSE)
           t == Exact(at + Word, w, FALSE)
           Q == <<s, t>>
<1>1. Chunks(f, at) = Q \o C
  BY DEF Chunks, ChunkSteps
<1>2. w \in Nat /\ Word \in Nat /\ f.chunks \in Nat
  <2>1. Word \in Nat /\ f.chunks \in Nat
    BY Sizes, ForkSize
  <2> QED
    BY <2>1
<1>3. s \in Steps /\ s.at = at /\ s.len = Word /\ s.mode = "exact"
  BY <1>2 DEF Exact, Steps, Modes
<1>4. at + Word \in Nat
  BY <1>2
<1> HIDE DEF s, w
<1>5. t \in Steps /\ t.at = at + Word /\ t.len = w /\ t.mode = "exact"
  BY <1>2, <1>4 DEF Exact, Steps, Modes
<1> HIDE DEF t
<1>6. first \in Nat /\ s.at + s.len <= t.at /\ t.at + t.len <= first
  BY <1>2, <1>3, <1>4, <1>5
<1>7. C \in Seq(Range(C)) /\ Len(C) = f.chunks
  <2> DEFINE F(i) == Exact(first + (i - 1) * size,
           IF i < f.chunks THEN size ELSE f.size - first - (i - 1) * size, TRUE)
             T == {F(i) : i \in 1..f.chunks}
  <2>1. C = [i \in 1..f.chunks |-> F(i)]
    BY DEF ChunkSteps
  <2>2. \A i \in 1..f.chunks : F(i) \in T
    OBVIOUS
  <2> HIDE DEF F, T, C
  <2>3. [i \in 1..f.chunks |-> F(i)] \in Seq(T) /\ Len([i \in 1..f.chunks |-> F(i)]) = f.chunks
    BY <1>2, <2>2, IsASeq
  <2>4. C \in Seq(T) /\ Len(C) = f.chunks
    BY <2>1, <2>3
  <2>5. C \in [1..f.chunks -> T]
    BY <2>4, LenProperties
  <2>6. \A i \in 1..f.chunks : C[i] \in Range(C)
    BY <2>5 DEF Range
  <2>7. C = [i \in 1..f.chunks |-> C[i]] /\ [i \in 1..f.chunks |-> C[i]] \in Seq(Range(C))
    BY <1>2, <2>5, <2>6, IsASeq
  <2> QED
    BY <2>4, <2>7
<1>8. Q[2] = t /\ Q[1] = s /\ Len(Q) = 2 /\ Q \in Seq({s, t})
  OBVIOUS
<1> HIDE DEF C, Q
<1>9. /\ (Q \o C)[1] = s /\ (Q \o C)[2] = t /\ Len(Q \o C) = f.chunks + 2
      /\ \E S : Q \o C \in Seq(S)
  <2> DEFINE S == {s, t} \cup Range(C)
  <2>1. Q \in Seq(S) /\ C \in Seq(S)
    <3>1. {s, t} \subseteq S /\ Range(C) \subseteq S
      OBVIOUS
    <3> HIDE DEF S
    <3> QED
      BY <1>7, <1>8, <3>1, SeqMonotonic
  <2> HIDE DEF S
  <2>2. /\ Q \o C \in Seq(S) /\ Len(Q \o C) = 2 + Len(C)
        /\ \A i \in 1..2 + Len(C) : (Q \o C)[i] = IF i <= 2 THEN Q[i] ELSE C[i - 2]
    <3>1. /\ Q \o C \in Seq(S) /\ Len(Q \o C) = Len(Q) + Len(C)
          /\ \A i \in 1..Len(Q) + Len(C) :
               (Q \o C)[i] = IF i <= Len(Q) THEN Q[i] ELSE C[i - Len(Q)]
      BY <2>1, ConcatProperties
    <3>2. Len(Q) = 2
      BY <1>8
    <3> QED
      BY <3>1, <3>2
  <2>3. 1 \in 1..2 + Len(C) /\ 2 \in 1..2 + Len(C)
    BY <1>2, <1>7
  <2> QED
    BY <1>2, <1>7, <1>8, <2>2, <2>3
<1>10. ASSUME first <= f.size PROVE PlanOK(Q \o C) /\ (Q \o C)[1].at = at
  <2>1. PlanOK(C) /\ Len(C) = f.chunks /\ C[1].at = first
    <3> HIDE DEF first
    <3> QED
      BY <1>6, <1>10, ChunkStepsAre DEF C
  <2>2. PlanOK(<<s, t>> \o C)
    <3> HIDE DEF first
    <3> QED
      BY <1>2, <1>3, <1>5, <1>6, <2>1, TwoBefore
  <2> QED
    BY <1>3, <1>9, <2>2 DEF Q
<1> QED
  BY <1>1, <1>9, <1>10 DEF t, w

\* The plan of a file, of each kind.
LEMMA PlanIsOK ==
  ASSUME NEW f \in Forks
  PROVE  PlanOK(Plan(f)) /\ (f.kind # "plain" => Len(Plan(f)) > 0)
<1>1. /\ f.size \in Nat /\ f.chunks \in Nat /\ Header \in Nat /\ Word \in Nat
      /\ DataOffset \in Nat /\ ResourceData \in Nat /\ DataOffset + Word \in Nat
  BY ForkSize, Sizes DEF ResourceData
<1>2. f.kind \in Kinds
  BY ForkIsSound
<1>3. CASE f.kind = "plain"
  <2>1. Plan(f) = <<>>
    BY <1>3 DEF Plan
  <2>2. <<>> \in Seq(Steps) /\ Len(<<>>) = 0
    BY EmptySeq
  <2>3. InOrder(<<>>) /\ EndsLast(<<>>)
    BY <2>2 DEF InOrder, EndsLast
  <2> QED
    BY <1>3, <2>1, <2>2, <2>3 DEF PlanOK
<1>4. CASE f.kind = "stored"
  <2> DEFINE n == f.size - Header
             s == Exact(Header, n, TRUE)
  <2>1. Plan(f) = <<s>>
    BY <1>4 DEF Plan
  <2>2. f.size >= Header
    BY <1>4, ForkIsSound
  <2>3. n \in Nat
    BY <1>1, <2>2
  <2> HIDE DEF n
  <2>4. s \in Steps /\ s.mode = "exact"
    BY <1>1, <2>3 DEF Exact, Steps, Modes
  <2> HIDE DEF s
  <2>5. PlanOK(<<s>>) /\ Len(<<s>>) = 1
    BY <2>4, OneStep
  <2> QED
    BY <2>1, <2>5
<1>5. CASE f.kind = "zlib"
  <2>1. Plan(f) = <<ToEnd(Header)>>
    BY <1>5 DEF Plan
  <2>2. ToEnd(Header) \in Steps /\ ToEnd(Header).data = TRUE /\ ToEnd(Header).len = Piece
    BY <1>1, ToEndIs
  <2>3. PlanOK(<<ToEnd(Header)>>) /\ Len(<<ToEnd(Header)>>) = 1
    BY <2>2, OneStep
  <2> QED
    BY <2>1, <2>3
<1>6. ASSUME NEW at \in Nat, f.kind \in {"chunked", "resource chunked"},
             NEW j \in DOMAIN Plan(f), Plan(f)[j] = Chunks(f, at)[2]
      PROVE  PlanOK(Chunks(f, at)) /\ Len(Chunks(f, at)) > 0 /\ Chunks(f, at)[1].at = at
  <2>1. f.chunks > 0
    BY <1>6, ForkIsSound
  <2> DEFINE w == f.chunks * Word
             s == Exact(at + Word, w, FALSE)
  <2>2. w \in Nat
    BY <1>1
  <2>3. Chunks(f, at)[2] = s /\ Len(Chunks(f, at)) = f.chunks + 2
    BY <2>1, ChunksAre
  <2>4. s.at = at + Word /\ s.len = w /\ s.mode # "toend"
    BY DEF Exact
  <2> HIDE DEF s
  <2>5. s.at + s.len <= f.size
    <3>1. Plan(f)[j] = s
      BY <1>6, <2>3
    <3>2. Plan(f)[j].mode # "toend"
      BY <2>4, <3>1
    <3>3. Plan(f)[j].at + Plan(f)[j].len <= f.size
      BY <3>2, ForkIsSound
    <3> QED
      BY <3>1, <3>3
  <2>6. at + Word + w <= f.size
    BY <2>4, <2>5
  <2> HIDE DEF w
  <2>7. PlanOK(Chunks(f, at)) /\ Chunks(f, at)[1].at = at
    BY <2>1, <2>6, ChunksAre DEF w
  <2> QED
    BY <1>1, <2>3, <2>7
<1>7. CASE f.kind = "chunked"
  <2>1. Plan(f) = Chunks(f, Header) /\ f.chunks > 0
    BY <1>7, ForkIsSound DEF Plan
  <2>2. Len(Chunks(f, Header)) = f.chunks + 2 /\ \E S : Chunks(f, Header) \in Seq(S)
    BY <1>1, <2>1, ChunksAre
  <2>3. PICK S : Chunks(f, Header) \in Seq(S)
    BY <2>2
  <2>4. 2 \in DOMAIN Plan(f) /\ Plan(f)[2] = Chunks(f, Header)[2]
    <3>1. DOMAIN Chunks(f, Header) = 1..Len(Chunks(f, Header))
      BY <2>3, LenProperties
    <3>2. 2 \in 1..f.chunks + 2
      BY <1>1
    <3> QED
      BY <2>1, <2>2, <3>1, <3>2
  <2>5. f.kind \in {"chunked", "resource chunked"}
    BY <1>7
  <2>6. PlanOK(Chunks(f, Header)) /\ Len(Chunks(f, Header)) > 0
    BY <1>1, <1>6, <2>4, <2>5
  <2> QED
    BY <2>1, <2>6
<1> DEFINE s == Short(DataOffset, Word)
           t == Short(DataOffset + Word, Header)
<1>8. /\ s \in Steps /\ t \in Steps /\ s.mode # "toend" /\ t.mode # "toend"
      /\ s.at + s.len <= t.at /\ t.at + t.len <= ResourceData
  <2>1. s \in Steps /\ s.at = DataOffset /\ s.len = Word /\ s.mode = "short"
    BY <1>1, ShortIs
  <2> DEFINE d == DataOffset + Word
  <2>2. d \in Nat
    BY <1>1
  <2> HIDE DEF d, s
  <2>3. Short(d, Header) \in Steps /\ Short(d, Header).at = d
        /\ Short(d, Header).len = Header /\ Short(d, Header).mode = "short"
    BY <1>1, <2>2, ShortIs
  <2>4. t \in Steps /\ t.at = DataOffset + Word /\ t.len = Header /\ t.mode = "short"
    BY <2>3 DEF d
  <2> HIDE DEF t
  <2> QED
    BY <1>1, <2>1, <2>4 DEF ResourceData
<1>9. ResourceHeader = <<s, t>>
  BY DEF ResourceHeader
<1> HIDE DEF s, t
<1>10. CASE f.kind = "resource"
  <2> DEFINE P == <<ToEnd(ResourceData)>>
  <2>1. Plan(f) = <<s, t>> \o P
    BY <1>9, <1>10 DEF Plan
  <2>2. /\ ToEnd(ResourceData) \in Steps /\ ToEnd(ResourceData).at = ResourceData
        /\ ToEnd(ResourceData).data = TRUE /\ ToEnd(ResourceData).len = Piece
    BY <1>1, ToEndIs
  <2>3. PlanOK(P) /\ Len(P) = 1 /\ P[1].at = ResourceData
    BY <2>2, OneStep
  <2> HIDE DEF P
  <2>4. Len(P) > 0 /\ t.at + t.len <= P[1].at
    BY <1>8, <2>3
  <2>5. PlanOK(<<s, t>> \o P) /\ Len(<<s, t>> \o P) = Len(P) + 2
    BY <1>8, <2>3, <2>4, TwoBefore
  <2> QED
    BY <2>1, <2>3, <2>5
<1>11. CASE f.kind = "resource chunked"
  <2> DEFINE P == Chunks(f, ResourceData)
  <2>1. Plan(f) = <<s, t>> \o P /\ f.chunks > 0
    BY <1>9, <1>11, ForkIsSound DEF Plan
  <2>2. /\ Len(P) = f.chunks + 2 /\ \E S : P \in Seq(S)
    BY <1>1, <2>1, ChunksAre
  <2> HIDE DEF P
  <2>3. PICK S : P \in Seq(S)
    BY <2>2
  <2>4. 4 \in DOMAIN Plan(f) /\ Plan(f)[4] = P[2]
    <3> DEFINE T == {s, t} \cup S
               Q == <<s, t>>
    <3>1. Q \in Seq(T) /\ Len(Q) = 2 /\ P \in Seq(T)
      <4>1. Q \in Seq({s, t}) /\ Len(Q) = 2
        OBVIOUS
      <4>2. {s, t} \subseteq T /\ S \subseteq T
        OBVIOUS
      <4> HIDE DEF T, Q
      <4> QED
        BY <2>3, <4>1, <4>2, SeqMonotonic
    <3>2. Plan(f) = Q \o P
      BY <2>1
    <3> HIDE DEF T, Q
    <3>3. /\ Q \o P \in Seq(T) /\ Len(Q \o P) = Len(Q) + Len(P)
          /\ \A i \in 1..Len(Q) + Len(P) :
               (Q \o P)[i] = IF i <= Len(Q) THEN Q[i] ELSE P[i - Len(Q)]
      BY <3>1, ConcatProperties
    <3>4. DOMAIN (Q \o P) = 1..Len(Q \o P)
      BY <3>3, LenProperties
    <3>5. 4 \in 1..2 + (f.chunks + 2)
      BY <1>1
    <3> QED
      BY <2>2, <3>1, <3>2, <3>3, <3>4, <3>5
  <2>5. f.kind \in {"chunked", "resource chunked"}
    BY <1>11
  <2>6. PlanOK(P) /\ Len(P) > 0 /\ P[1].at = ResourceData
    BY <1>1, <1>6, <2>4, <2>5 DEF P
  <2>7. PlanOK(<<s, t>> \o P) /\ Len(<<s, t>> \o P) = Len(P) + 2
    BY <1>8, <2>6, TwoBefore
  <2>8. Len(P) + 2 > 0
    BY <1>1, <2>2
  <2> QED
    BY <2>1, <2>7, <2>8
<1> QED
  BY <1>2, <1>3, <1>4, <1>5, <1>7, <1>10, <1>11 DEF Kinds

\* The reads of a plan.
LEMMA PlanStep ==
  ASSUME NEW f \in Forks, NEW k \in 1..Len(Plan(f))
  PROVE  /\ Plan(f)[k].mode \in Modes /\ Plan(f)[k].at \in Nat /\ Plan(f)[k].len \in Nat
         /\ Plan(f)[k].data \in BOOLEAN /\ Plan(f)[k].at <= f.size
         /\ Plan(f)[k].mode # "toend" => Plan(f)[k].at + Plan(f)[k].len <= f.size
         /\ Plan(f)[k].mode = "toend" =>
              k = Len(Plan(f)) /\ Plan(f)[k].data = TRUE /\ Plan(f)[k].len = Piece
<1>1. Plan(f) \in Seq(Steps) /\ EndsLast(Plan(f))
  BY PlanIsOK DEF PlanOK
<1>2. k \in DOMAIN Plan(f)
  BY <1>1, LenProperties
<1>3. Plan(f)[k] \in Steps
  BY <1>1, ElementOfSeq
<1>4. /\ Plan(f)[k].mode \in Modes /\ Plan(f)[k].at \in Nat /\ Plan(f)[k].len \in Nat
      /\ Plan(f)[k].data \in BOOLEAN
  BY <1>3 DEF Steps
<1>5. /\ Plan(f)[k].at <= f.size
      /\ Plan(f)[k].mode # "toend" => Plan(f)[k].at + Plan(f)[k].len <= f.size
  BY <1>2, ForkIsSound
<1>6. Plan(f)[k].mode = "toend" =>
        k = Len(Plan(f)) /\ Plan(f)[k].data = TRUE /\ Plan(f)[k].len = Piece
  BY <1>1 DEF EndsLast
<1> QED
  BY <1>4, <1>5, <1>6

\* Where the part of the fork that a read of the plan covers ends.
PartEnd(f, k) ==
  IF Plan(f)[k].mode = "toend" THEN f.size ELSE Plan(f)[k].at + Plan(f)[k].len

\* What a read of the plan adds to the data: bytes of the fork, as many as its part.
LEMMA DataOfIs ==
  ASSUME NEW f \in Forks, NEW k \in 1..Len(Plan(f))
  PROVE  /\ PartEnd(f, k) \in Nat /\ Plan(f)[k].at <= PartEnd(f, k) /\ PartEnd(f, k) <= f.size
         /\ Plan(f)[k].data =>
              DataOf(f, k) = SubSeq(ForkBytes(f), Plan(f)[k].at + 1, PartEnd(f, k))
         /\ ~Plan(f)[k].data => DataOf(f, k) = <<>>
         /\ DataOf(f, k) \in Bytes /\ Len(DataOf(f, k)) \in Nat
         /\ Len(DataOf(f, k)) <= PartEnd(f, k) - Plan(f)[k].at
<1> DEFINE a == Plan(f)[k].at
           e == PartEnd(f, k)
<1>1. a \in Nat /\ e \in Nat /\ a <= e /\ e <= f.size
  <2> DEFINE n == Plan(f)[k].len
  <2>1. f.size \in Nat
    BY ForkSize
  <2>2. /\ a \in Nat /\ n \in Nat /\ a <= f.size
        /\ Plan(f)[k].mode # "toend" => a + n <= f.size
    BY PlanStep
  <2>3. e = IF Plan(f)[k].mode = "toend" THEN f.size ELSE a + n
    BY DEF PartEnd
  <2> HIDE DEF a, e, n
  <2> QED
    BY <2>1, <2>2, <2>3
<1>2. ForkBytes(f) \in Bytes /\ Len(ForkBytes(f)) = f.size
  BY ForkBytesAre
<1>3. Plan(f)[k].data => DataOf(f, k) = SubSeq(ForkBytes(f), a + 1, e)
  BY DEF DataOf, PartOf, PartEnd
<1>4. ~Plan(f)[k].data => DataOf(f, k) = <<>>
  BY DEF DataOf
<1>5. <<>> \in Bytes /\ Len(<<>>) = 0
  BY EmptySeq DEF Bytes
<1> HIDE DEF a, e
<1>6. SubSeq(ForkBytes(f), a + 1, e) \in Bytes /\ Len(SubSeq(ForkBytes(f), a + 1, e)) = e - a
  BY <1>1, <1>2, SubSeqIs
<1>7. DataOf(f, k) \in Bytes /\ Len(DataOf(f, k)) \in Nat /\ Len(DataOf(f, k)) <= e - a
  <2>1. e - a \in Nat
    BY <1>1
  <2>2. DataOf(f, k) = SubSeq(ForkBytes(f), a + 1, e) \/ DataOf(f, k) = <<>>
    BY <1>3, <1>4
  <2>3. CASE DataOf(f, k) = SubSeq(ForkBytes(f), a + 1, e)
    <3> DEFINE u == SubSeq(ForkBytes(f), a + 1, e)
    <3>1. u \in Bytes /\ Len(u) = e - a /\ DataOf(f, k) = u
      BY <1>6, <2>3
    <3> HIDE DEF u
    <3>2. DataOf(f, k) \in Bytes /\ Len(DataOf(f, k)) = e - a
      BY <3>1
    <3> QED
      BY <2>1, <3>2
  <2>4. CASE DataOf(f, k) = <<>>
    BY <1>5, <2>1, <2>4
  <2> QED
    BY <2>2, <2>3, <2>4
<1> QED
  BY <1>1, <1>3, <1>4, <1>7 DEF a, e

\* What is gathered read by read is what the contents are unpacked from.
LEMMA GatheredIs ==
  ASSUME NEW f \in Forks, f.kind # "plain"
  PROVE  LET N == Len(Plan(f)) IN
         /\ N \in Nat \ {0} /\ Gathered(f)[0] = <<>>
         /\ \A k \in 0..N : Gathered(f)[k] \in Bytes
         /\ \A k \in 1..N : Gathered(f)[k] = Gathered(f)[k - 1] \o DataOf(f, k)
         /\ Contents(f) = Unpacked(f, Gathered(f)[N])
<1> DEFINE N == Len(Plan(f))
           s == [i \in 1..N |-> DataOf(f, i)]
           t == [i \in DOMAIN Plan(f) |-> DataOf(f, i)]
           Of(g) == [k \in 0..N |-> IF k = 0 THEN <<>> ELSE g[k - 1] \o DataOf(f, k)]
           G == CHOOSE g : g = Of(g)
<1>1. N \in Nat \ {0} /\ DOMAIN Plan(f) = 1..N
  <2>1. Plan(f) \in Seq(Steps) /\ N > 0
    BY PlanIsOK DEF PlanOK
  <2>2. N \in Nat /\ DOMAIN Plan(f) = 1..N
    BY <2>1, LenProperties
  <2> QED
    BY <2>1, <2>2
<1>2. Contents(f) = Unpacked(f, FlattenSeq(t))
  BY DEF Contents, DataOf, PartOf
<1>3. t = s
  BY <1>1
<1>4. Gathered(f) = G
  BY DEF Gathered
<1>5. \A i \in 1..N : DataOf(f, i) \in Bytes
  BY DataOfIs
<1>6. \A i \in 1..N : s[i] = DataOf(f, i)
  OBVIOUS
<1>7. Len(s) = N
  <2> HIDE DEF N
  <2> QED
    BY <1>1
<1> HIDE DEF t, s, N
<1>8. PICK g \in [0..N -> Bytes] :
        /\ g[0] = <<>> /\ \A k \in 1..N : g[k] = g[k - 1] \o s[k]
        /\ FlattenSeq(s) = g[N]
  <2>1. \A i \in 1..N : s[i] \in Bytes
    BY <1>5, <1>6
  <2> QED
    BY <1>1, <1>7, <2>1, FlattenIs
<1>9. g = Of(g)
  <2>1. ASSUME NEW k \in 0..N PROVE g[k] = IF k = 0 THEN <<>> ELSE g[k - 1] \o DataOf(f, k)
    <3>1. k # 0 => k \in 1..N
      BY <1>1
    <3> QED
      BY <1>6, <1>8, <3>1
  <2>2. g = [k \in 0..N |-> g[k]]
    BY <1>8
  <2> QED
    BY <2>1, <2>2
<1>10. G = Of(G)
  <2> HIDE DEF Of
  <2> QED
    BY <1>9
<1> HIDE DEF G
<1>11. \A k \in 0..N : G[k] = IF k = 0 THEN <<>> ELSE G[k - 1] \o DataOf(f, k)
  BY <1>10
<1>12. \A k \in 0..N : G[k] = g[k]
  <2> DEFINE Bad == {k \in 0..N : G[k] # g[k]}
  <2> SUFFICES ASSUME Bad # {} PROVE FALSE
    OBVIOUS
  <2>1. PICK n \in Bad : \A k \in Bad : n <= k
    <3>1. Bad \in SUBSET Nat
      BY <1>1
    <3> HIDE DEF Bad
    <3> QED
      BY <3>1, LeastIn
  <2>2. n \in 0..N /\ G[n] # g[n]
    OBVIOUS
  <2>3. n # 0
    BY <1>1, <1>8, <1>11, <2>2
  <2>4. n \in 1..N /\ n - 1 \in 0..N /\ ~(n <= n - 1)
    BY <1>1, <2>2, <2>3
  <2>5. n - 1 \notin Bad
    <3> HIDE DEF Bad
    <3> QED
      BY <2>1, <2>4
  <2>6. G[n - 1] = g[n - 1]
    BY <2>4, <2>5
  <2>7. G[n] = G[n - 1] \o DataOf(f, n)
    BY <1>11, <2>2, <2>3
  <2>8. g[n] = g[n - 1] \o DataOf(f, n)
    BY <1>6, <1>8, <2>4
  <2> QED
    BY <2>2, <2>6, <2>7, <2>8
<1>13. \A k \in 1..N : G[k] = G[k - 1] \o DataOf(f, k)
  <2> SUFFICES ASSUME NEW k \in 1..N PROVE G[k] = G[k - 1] \o DataOf(f, k)
    OBVIOUS
  <2>1. k \in 0..N /\ k # 0
    BY <1>1
  <2> QED
    BY <1>11, <2>1
<1>14. G[0] = <<>> /\ \A k \in 0..N : G[k] \in Bytes
  <2>1. 0 \in 0..N
    BY <1>1
  <2>2. G[0] = <<>>
    BY <1>8, <1>12, <2>1
  <2>3. \A k \in 0..N : G[k] \in Bytes
    BY <1>8, <1>12
  <2> QED
    BY <2>2, <2>3
<1>15. Contents(f) = Unpacked(f, G[N])
  <2>1. N \in 0..N
    BY <1>1
  <2>2. FlattenSeq(s) = G[N]
    BY <1>8, <1>12, <2>1
  <2> QED
    BY <1>2, <1>3, <2>2
<1> QED
  BY <1>1, <1>4, <1>13, <1>14, <1>15 DEF N

\* No more is gathered than the fork has before the end of the last read.
LEMMA GatheredFits ==
  ASSUME NEW f \in Forks, f.kind # "plain"
  PROVE  Len(Gathered(f)[Len(Plan(f))]) <= f.size
<1> DEFINE N == Len(Plan(f))
           G == Gathered(f)
<1>1. /\ N \in Nat \ {0} /\ G[0] = <<>>
      /\ \A k \in 0..N : G[k] \in Bytes
      /\ \A k \in 1..N : G[k] = G[k - 1] \o DataOf(f, k)
  BY GatheredIs
<1>2. /\ \A i \in 1..N - 1 : Plan(f)[i].at + Plan(f)[i].len <= Plan(f)[i + 1].at
      /\ \A i \in 1..N : Plan(f)[i].mode = "toend" => i = N
  BY PlanIsOK DEF PlanOK, InOrder, EndsLast
<1>3. ASSUME NEW k \in 1..N
      PROVE  /\ PartEnd(f, k) \in Nat /\ PartEnd(f, k) <= f.size
             /\ DataOf(f, k) \in Bytes /\ Len(DataOf(f, k)) \in Nat /\ Plan(f)[k].at \in Nat
             /\ Len(DataOf(f, k)) <= PartEnd(f, k) - Plan(f)[k].at
  BY DataOfIs, PlanStep
<1>4. \A k \in 1..N : k # 1 => k - 1 \in 1..N /\ PartEnd(f, k - 1) <= Plan(f)[k].at
  <2> SUFFICES ASSUME NEW k \in 1..N, k # 1
               PROVE  k - 1 \in 1..N /\ PartEnd(f, k - 1) <= Plan(f)[k].at
    OBVIOUS
  <2>1. k - 1 \in 1..N /\ k - 1 \in 1..N - 1 /\ (k - 1) + 1 = k /\ k - 1 # N
    BY <1>1
  <2>2. Plan(f)[k - 1].mode # "toend"
    BY <1>2, <2>1
  <2>3. Plan(f)[k - 1].at + Plan(f)[k - 1].len <= Plan(f)[k].at
    BY <1>2, <2>1
  <2> QED
    BY <2>1, <2>2, <2>3 DEF PartEnd
<1> HIDE DEF N, G
<1>5. \A k \in 0..N : Len(G[k]) \in Nat
  BY <1>1, LenProperties DEF Bytes
<1>6. \A k \in 1..N : Len(G[k]) = Len(G[k - 1]) + Len(DataOf(f, k))
  <2> SUFFICES ASSUME NEW k \in 1..N PROVE Len(G[k]) = Len(G[k - 1]) + Len(DataOf(f, k))
    OBVIOUS
  <2>1. k - 1 \in 0..N
    BY <1>1
  <2>2. G[k - 1] \in Bytes /\ DataOf(f, k) \in Bytes /\ G[k] = G[k - 1] \o DataOf(f, k)
    BY <1>1, <1>3, <2>1
  <2> QED
    BY <2>2, ConcatBytes
<1>7. \A k \in 1..N : Len(G[k]) <= PartEnd(f, k)
  <2> DEFINE Bad == {k \in 1..N : ~(Len(G[k]) <= PartEnd(f, k))}
  <2> SUFFICES ASSUME Bad # {} PROVE FALSE
    OBVIOUS
  <2>1. PICK n \in Bad : \A k \in Bad : n <= k
    <3>1. Bad \in SUBSET Nat
      BY <1>1
    <3> HIDE DEF Bad
    <3> QED
      BY <3>1, LeastIn
  <2>2. n \in 1..N /\ ~(Len(G[n]) <= PartEnd(f, n))
    OBVIOUS
  <2>3. /\ PartEnd(f, n) \in Nat /\ Len(DataOf(f, n)) \in Nat /\ Plan(f)[n].at \in Nat
        /\ Len(DataOf(f, n)) <= PartEnd(f, n) - Plan(f)[n].at
        /\ Len(G[n]) = Len(G[n - 1]) + Len(DataOf(f, n))
    BY <1>3, <1>6, <2>2
  <2>4. CASE n = 1
    <3>1. Len(G[n - 1]) = 0
      <4>1. n - 1 = 0 /\ Len(<<>>) = 0
        BY <2>4, EmptySeq
      <4> QED
        BY <1>1, <4>1
    <3> QED
      BY <2>2, <2>3, <3>1
  <2>5. CASE n # 1
    <3>1. n - 1 \in 1..N /\ PartEnd(f, n - 1) <= Plan(f)[n].at /\ n - 1 \in 0..N
      BY <1>1, <1>4, <2>2, <2>5
    <3>2. ~(n <= n - 1)
      BY <2>2
    <3>3. n - 1 \notin Bad
      <4> HIDE DEF Bad
      <4> QED
        BY <2>1, <3>2
    <3>4. Len(G[n - 1]) <= PartEnd(f, n - 1)
      BY <3>1, <3>3
    <3>5. Len(G[n - 1]) \in Nat /\ PartEnd(f, n - 1) \in Nat
      BY <1>3, <1>5, <3>1
    <3> QED
      BY <2>2, <2>3, <3>1, <3>4, <3>5
  <2> QED
    BY <2>4, <2>5
<1>8. N \in 1..N /\ N \in 0..N
  BY <1>1
<1>9. Len(G[N]) <= PartEnd(f, N) /\ PartEnd(f, N) <= f.size
  BY <1>3, <1>7, <1>8
<1>10. Len(G[N]) \in Nat /\ PartEnd(f, N) \in Nat /\ f.size \in Nat
  BY <1>3, <1>5, <1>8, ForkSize
<1>11. Len(G[N]) <= f.size
  BY <1>9, <1>10
<1> QED
  BY <1>11 DEF N, G

\* What is inflated: two bytes from each.
LEMMA InflateIs ==
  ASSUME NEW raw \in Bytes
  PROVE  /\ Inflate(raw) \in Bytes /\ Len(Inflate(raw)) = 2 * Len(raw)
         /\ \A i \in 1..2 * Len(raw) :
              /\ (i + 1) \div 2 \in 1..Len(raw)
              /\ Inflate(raw)[i] = (100 + 2 * raw[(i + 1) \div 2]) + (i % 2)
<1> DEFINE n == Len(raw)
           m == 2 * n
           F(i) == (100 + 2 * raw[(i + 1) \div 2]) + (i % 2)
<1>1. n \in Nat /\ m \in Nat /\ m = 2 * n
  BY LenProperties DEF Bytes
<1>2. Inflate(raw) = [i \in 1..m |-> F(i)]
  BY DEF Inflate
<1>3. \A i \in 1..n : raw[i] \in Int
  BY ElementOfSeq DEF Bytes
<1> HIDE DEF n, m
<1>4. ASSUME NEW i \in 1..m PROVE (i + 1) \div 2 \in 1..n /\ F(i) \in Int
  <2>1. (i + 1) \div 2 \in 1..n
    BY <1>1
  <2>2. raw[(i + 1) \div 2] \in Int
    BY <1>3, <2>1
  <2>3. i % 2 \in Int
    BY <1>1
  <2> DEFINE x == raw[(i + 1) \div 2]
             y == i % 2
  <2> HIDE DEF x, y
  <2>4. x \in Int /\ y \in Int /\ F(i) = (100 + 2 * x) + y
    BY <2>2, <2>3 DEF x, y
  <2> HIDE DEF F
  <2> QED
    BY <2>1, <2>4
<1>5. \A i \in 1..m : Inflate(raw)[i] = F(i)
  BY <1>2
<1>6. \A i \in 1..m : (i + 1) \div 2 \in 1..n /\ Inflate(raw)[i] = (100 + 2 * raw[(i + 1) \div 2]) + (i % 2)
  BY <1>4, <1>5
<1> HIDE DEF F
<1>7. [i \in 1..m |-> F(i)] \in Seq(Int) /\ Len([i \in 1..m |-> F(i)]) = m
  BY <1>1, <1>4, IsASeq
<1>8. Inflate(raw) \in Bytes /\ Len(Inflate(raw)) = m
  BY <1>2, <1>7 DEF Bytes
<1> QED
  BY <1>6, <1>8 DEF m, n

\* What is unpacked from a part is a start of what is unpacked from the whole.
LEMMA UnpackedIs ==
  ASSUME NEW f, NEW s \in Bytes, NEW t \in Bytes
  PROVE  /\ Unpacked(f, s) \in Bytes /\ Len(Unpacked(f, s)) <= 2 * Len(s)
         /\ IsPrefix(Unpacked(f, s), Unpacked(f, s \o t))
<1>1. /\ Len(s) \in Nat /\ Len(t) \in Nat
      /\ s \o t \in Bytes /\ Len(s \o t) = Len(s) + Len(t)
      /\ \A i \in 1..Len(s) + Len(t) : (s \o t)[i] = IF i <= Len(s) THEN s[i] ELSE t[i - Len(s)]
  BY ConcatBytes, LenProperties DEF Bytes
<1>2. \A i \in 1..Len(s) : (s \o t)[i] = s[i]
  BY <1>1
<1>3. CASE f.kind = "stored"
  <2>1. Unpacked(f, s) = s /\ Unpacked(f, s \o t) = s \o t
    BY <1>3 DEF Unpacked
  <2>2. Len(s) <= Len(s \o t) /\ Len(s) <= 2 * Len(s) /\ \A i \in 1..Len(s) : s[i] = (s \o t)[i]
    BY <1>1, <1>2
  <2>3. IsPrefix(s, s \o t)
    BY <1>1, <2>2, PrefixIs
  <2> QED
    BY <2>1, <2>2, <2>3
<1>4. CASE f.kind # "stored"
  <2> DEFINE u == s \o t
             a == Inflate(s)
             b == Inflate(u)
  <2>1. Unpacked(f, s) = a /\ Unpacked(f, s \o t) = b
    BY <1>4 DEF Unpacked
  <2>2. u \in Bytes /\ Len(s) \in Nat /\ Len(u) \in Nat /\ Len(s) <= Len(u)
        /\ \A i \in 1..Len(s) : u[i] = s[i]
    BY <1>1, <1>2
  <2>3. /\ a \in Bytes /\ Len(a) = 2 * Len(s)
        /\ \A i \in 1..2 * Len(s) :
             (i + 1) \div 2 \in 1..Len(s) /\ a[i] = (100 + 2 * s[(i + 1) \div 2]) + (i % 2)
    BY InflateIs
  <2> HIDE DEF u, a
  <2>4. /\ b \in Bytes /\ Len(b) = 2 * Len(u)
        /\ \A i \in 1..2 * Len(u) : b[i] = (100 + 2 * u[(i + 1) \div 2]) + (i % 2)
    BY <2>2, InflateIs
  <2> HIDE DEF b
  <2>5. Len(a) <= Len(b)
    BY <2>2, <2>3, <2>4
  <2>6. ASSUME NEW i \in 1..Len(a) PROVE a[i] = b[i]
    <3>1. i \in 1..2 * Len(s) /\ i \in 1..2 * Len(u)
      BY <2>2, <2>3
    <3>2. u[(i + 1) \div 2] = s[(i + 1) \div 2]
      BY <2>2, <2>3, <3>1
    <3>3. a[i] = (100 + 2 * s[(i + 1) \div 2]) + (i % 2)
      BY <2>3, <3>1
    <3>4. b[i] = (100 + 2 * u[(i + 1) \div 2]) + (i % 2)
      BY <2>4, <3>1
    <3> QED
      BY <3>2, <3>3, <3>4
  <2>7. IsPrefix(a, b)
    BY <2>3, <2>4, <2>5, <2>6, PrefixIs
  <2>8. Len(a) <= 2 * Len(s)
    BY <2>2, <2>3
  <2> QED
    BY <2>1, <2>3, <2>7, <2>8
<1> QED
  BY <1>3, <1>4

\* A sequence starts itself.
LEMMA PrefixOfItself ==
  ASSUME NEW s
  PROVE  IsPrefix(s, s)
BY DEF IsPrefix

\* What a program should see in a file: as long as the types allow.
LEMMA ContentsAre ==
  ASSUME NEW f \in Forks
  PROVE  /\ Contents(f) \in Bytes /\ Len(Contents(f)) \in Nat
         /\ Len(Contents(f)) <= DiskSize * 2
         /\ f.kind = "plain" => Contents(f) = ForkBytes(f) /\ Len(Contents(f)) = f.size
<1>1. f.size \in Nat /\ f.size <= DiskSize /\ DiskSize \in Nat
  BY ForkSize, Sizes
<1>2. CASE f.kind = "plain"
  <2>1. Contents(f) = ForkBytes(f)
    BY <1>2 DEF Contents
  <2>2. ForkBytes(f) \in Bytes /\ Len(ForkBytes(f)) = f.size
    BY ForkBytesAre
  <2>3. f.size <= DiskSize * 2
    BY <1>1
  <2> QED
    BY <1>1, <1>2, <2>1, <2>2, <2>3
<1>3. CASE f.kind # "plain"
  <2> DEFINE s == Gathered(f)[Len(Plan(f))]
  <2>1. /\ Len(Plan(f)) \in Nat \ {0}
        /\ \A k \in 0..Len(Plan(f)) : Gathered(f)[k] \in Bytes
        /\ Contents(f) = Unpacked(f, s)
    BY <1>3, GatheredIs
  <2>2. s \in Bytes /\ Len(s) <= f.size
    BY <1>3, <2>1, GatheredFits
  <2> HIDE DEF s
  <2>3. Unpacked(f, s) \in Bytes /\ Len(Unpacked(f, s)) <= 2 * Len(s)
    BY <2>2, UnpackedIs
  <2> DEFINE u == Unpacked(f, s)
  <2> HIDE DEF u
  <2>4. Len(s) \in Nat /\ Len(u) \in Nat /\ u \in Bytes /\ Len(u) <= 2 * Len(s)
    BY <2>2, <2>3, LenProperties DEF u, Bytes
  <2>5. Len(u) <= DiskSize * 2
    BY <1>1, <2>2, <2>4
  <2>6. Contents(f) = u
    BY <2>1 DEF u
  <2> QED
    BY <1>3, <2>4, <2>5, <2>6
<1> QED
  BY <1>2, <1>3

-----------------------------------------------------------------------------
(* read_internal, whoever calls it.                                        *)

\* A read that has just begun.
LEMMA FreshRead ==
  ASSUME NEW f, NEW p, NEW n \in Nat, NEW b
  PROVE  /\ [NoRead EXCEPT !.want = n] \in Reads
         /\ [NoRead EXCEPT !.want = n].want = n
         /\ [NoRead EXCEPT !.want = n].got = <<>> /\ [NoRead EXCEPT !.want = n].need = 0
         /\ NoRead \in Reads /\ NoRead.want = 0 /\ NoRead.got = <<>> /\ NoRead.need = 0
<1>1. <<>> \in Bytes
  BY EmptySeq DEF Bytes
<1> QED
  BY <1>1 DEF NoRead, Reads

\* Nothing got agrees with anything.
LEMMA ReadOKWhenFresh ==
  ASSUME NEW f, NEW p, NEW r, r.got = <<>>, r.need = 0, NEW b
  PROVE  ReadOK(f, p, r, b)
<1>1. Len(<<>>) = 0
  BY EmptySeq
<1>2. Agrees(f, p, r.got)
  BY <1>1 DEF Agrees
<1> QED
  BY <1>2 DEF ReadOK

\* The address of a later place of a span.
LEMMA PlaceIn ==
  ASSUME NEW a \in Int, NEW c \in Int, NEW b \in Int, NEW m \in Int,
         NEW q \in Int, q = c + m - 1
  PROVE  a + c - b + m - 1 = a + q - b
OBVIOUS

\* Where a read of a span starts is on the disk.
LEMMA PlaceOnDisk ==
  ASSUME NEW a \in Nat, NEW c \in Nat, NEW b \in Nat, NEW e \in Nat, NEW n \in Nat,
         b <= c, c <= e, a + (e - b) <= n
  PROVE  a + c - b \in 0..n
OBVIOUS

\* Bytes of the disk from an address on.
Consecutive(t, a) == \A i \in 1..Len(t) : t[i] = a + i - 1

\* Bytes of the span at the cursor go on with what has been got.
LEMMA AgreesMore ==
  ASSUME NEW f \in Forks, NEW p \in Nat, NEW got \in Bytes, Agrees(f, p, got),
         NEW t \in Bytes, Len(t) > 0, NEW s \in SpanAt(f, p + Len(got)),
         p + Len(got) + Len(t) <= s.end,
         Consecutive(t, s.addr + (p + Len(got)) - s.begin)
  PROVE  Agrees(f, p, got \o t)
<1> DEFINE c == p + Len(got)
           u == got \o t
<1>1. Len(got) \in Nat /\ Len(t) \in Nat /\ c \in Nat
  BY LenProperties DEF Bytes
<1>2. /\ s.addr \in Nat /\ s.begin \in Nat /\ s.end \in Nat /\ s.begin <= c /\ s.end <= f.size
  <2>1. s \in SpanAt(f, c)
    OBVIOUS
  <2> HIDE DEF c
  <2> QED
    BY <1>1, <2>1, SpanIs
<1>3. /\ Len(u) = Len(got) + Len(t)
      /\ \A i \in 1..Len(got) + Len(t) : u[i] = IF i <= Len(got) THEN got[i] ELSE t[i - Len(got)]
  BY ConcatBytes
<1>4. p + Len(u) <= f.size
  BY <1>1, <1>2, <1>3, ForkSize
<1>5. ASSUME NEW i \in 1..Len(u) PROVE u[i] = ForkBytes(f)[p + i]
  <2>1. i \in 1..Len(got) + Len(t)
    BY <1>3
  <2>2. CASE i <= Len(got)
    <3>1. i \in 1..Len(got)
      BY <2>1, <2>2
    <3>2. u[i] = got[i]
      BY <1>3, <2>1, <2>2
    <3> QED
      BY <3>1, <3>2 DEF Agrees
  <2>3. CASE ~(i <= Len(got))
    <3> DEFINE m == i - Len(got)
               q == c + m - 1
    <3>1. m \in 1..Len(t) /\ q \in Nat /\ q + 1 = p + i /\ s.begin <= q /\ q < s.end
      BY <1>1, <1>2, <2>1, <2>3
    <3>2. u[i] = t[m]
      BY <1>3, <2>1, <2>3
    <3>3. t[m] = s.addr + c - s.begin + m - 1
      BY <3>1 DEF Consecutive
    <3>4. s.addr + c - s.begin + m - 1 = s.addr + q - s.begin
      <4> DEFINE a == s.addr
                 b == s.begin
      <4>1. m \in Int /\ c \in Int /\ q \in Int /\ q = c + m - 1 /\ a \in Int /\ b \in Int
        BY <1>1, <1>2, <3>1
      <4> HIDE DEF m, c, q, a, b
      <4>2. a + c - b + m - 1 = a + q - b
        BY <4>1, PlaceIn
      <4> QED
        BY <4>2 DEF a, b
    <3> HIDE DEF q, m, c, u
    <3>5. s \in SpanAt(f, q)
      BY <3>1, SpanOfPlace
    <3>6. ForkBytes(f)[q + 1] = s.addr + q - s.begin
      BY <3>1, <3>5, ForkBytesAre
    <3> QED
      BY <3>1, <3>2, <3>3, <3>4, <3>6
  <2> QED
    BY <2>2, <2>3
<1> HIDE DEF u
<1>6. Agrees(f, p, u)
  BY <1>4, <1>5 DEF Agrees
<1> QED
  BY <1>6 DEF u

\* What has been got is a part of the fork.
LEMMA GotIs ==
  ASSUME NEW f \in Forks, NEW p \in Nat, p <= f.size, NEW got \in Bytes, Agrees(f, p, got)
  PROVE  /\ got = SubSeq(ForkBytes(f), p + 1, p + Len(got)) /\ p + Len(got) <= f.size
         /\ Len(got) \in Nat
<1>1. ForkBytes(f) \in Bytes /\ Len(ForkBytes(f)) = f.size /\ f.size \in Nat
  BY ForkBytesAre, ForkSize
<1>2. Len(got) \in Nat
  BY LenProperties DEF Bytes
<1>3. p + Len(got) <= f.size
  BY <1>1, <1>2 DEF Agrees
<1>4. \A i \in 1..Len(got) : got[i] = ForkBytes(f)[p + i]
  BY DEF Agrees
<1> QED
  BY <1>1, <1>2, <1>3, <1>4, AgreesIsPart

\* Seeking to the extent at the cursor.
LEMMA SeekIsRight ==
  ASSUME NEW f \in Forks, NEW p \in Nat, NEW r \in Reads, NEW b, ReadOK(f, p, r, b),
         Len(r.got) < r.want, NEW s \in SpanAt(f, p + Len(r.got)),
         NEW n \in Nat, p + Len(r.got) + n <= s.end, Len(r.got) + n <= r.want,
         NEW r2 \in Reads, r2.want = r.want, r2.got = r.got, r2.need = n,
         NEW d, d = s.addr + (p + Len(r.got)) - s.begin,
         NEW b2, b2 = BufSeek(d)
  PROVE  /\ r2 \in Reads /\ r2.want = r.want /\ Len(r2.got) + r2.need <= r2.want
         /\ b2 \in Buffers /\ b2.pos <= Len(b2.data) /\ Len(b2.data) \in {0, Cap}
         /\ ReadOK(f, p, r2, b2)
<1> DEFINE c == p + Len(r.got)
<1>1. r.got \in Bytes /\ r.want \in Nat /\ Len(r.got) \in Nat /\ c \in Nat
  BY LenProperties DEF Bytes, Reads
<1>2. /\ s.addr \in Nat /\ s.begin \in Nat /\ s.end \in Nat /\ s.begin <= c /\ c < s.end
      /\ s.addr + (s.end - s.begin) <= DiskSize
  <2>1. s \in SpanAt(f, c)
    OBVIOUS
  <2> HIDE DEF c
  <2> QED
    BY <1>1, <2>1, SpanIs
<1>3. d \in 0..DiskSize
  <2> DEFINE x == s.addr
             y == s.begin
             z == s.end
  <2>1. DiskSize \in Nat /\ d = x + c - y
    BY Sizes
  <2>2. /\ x \in Nat /\ c \in Nat /\ y \in Nat /\ z \in Nat /\ y <= c /\ c < z
        /\ x + (z - y) <= DiskSize
    BY <1>1, <1>2
  <2> HIDE DEF c, x, y, z
  <2>3. c <= z
    BY <2>2
  <2>4. x + c - y \in 0..DiskSize
    BY <2>1, <2>2, <2>3, PlaceOnDisk
  <2> QED
    BY <2>1, <2>4
<1>4. n \in Nat /\ c + n <= s.end /\ Len(r.got) + n <= r.want
  BY <1>1, <1>2
<1>5. b2 = [data |-> <<>>, pos |-> 0, inner |-> d] /\ <<>> \in Bytes /\ Len(<<>>) = 0
  BY EmptySeq DEF BufSeek, Bytes
<1>6. b2 \in Buffers /\ b2.data = <<>> /\ b2.pos = 0 /\ b2.inner = d
  BY <1>3, <1>5 DEF Buffers
<1>7. AtSpan(b2, s, c)
  <2>1. d \in Int
    BY <1>3
  <2>2. b2.inner - (Len(b2.data) - b2.pos) = d
    BY <1>5, <1>6, <2>1
  <2>3. \A j \in b2.pos + 1..Len(b2.data) : FALSE
    BY <1>5, <1>6
  <2> QED
    BY <2>2, <2>3 DEF AtSpan, StandsAt, Filled
<1>8. ReadOK(f, p, r2, b2)
  <2>1. Agrees(f, p, r2.got)
    BY DEF ReadOK
  <2>2. c + r2.need <= s.end
    BY <1>4
  <2>3. s \in SpanAt(f, p + Len(r2.got)) /\ c = p + Len(r2.got)
    OBVIOUS
  <2> HIDE DEF c
  <2> QED
    BY <1>7, <2>1, <2>2, <2>3 DEF ReadOK
<1> QED
  BY <1>4, <1>5, <1>6, <1>8

\* The bytes of the disk from an address on.
LEMMA DiskIs ==
  ASSUME NEW a \in Nat, NEW n \in Nat
  PROVE  /\ Disk(a, n) \in Bytes /\ Len(Disk(a, n)) = n
         /\ \A i \in 1..n : Disk(a, n)[i] = a + i - 1
<1>1. \A i \in 1..n : a + i - 1 \in Int
  OBVIOUS
<1>2. [i \in 1..n |-> a + i - 1] \in Seq(Int) /\ Len([i \in 1..n |-> a + i - 1]) = n
  BY <1>1, IsASeq
<1> QED
  BY <1>2 DEF Disk, Bytes

\* How much is served of what is buffered.
LEMMA TakeIs ==
  ASSUME NEW need \in Nat, need > 0, NEW n \in Nat, NEW x \in Nat, x < n
  PROVE  /\ Min({need, n - x}) \in Nat /\ Min({need, n - x}) > 0 /\ Min({need, n - x}) <= need
         /\ x + Min({need, n - x}) <= n
<1> DEFINE m == Min({need, n - x})
<1>1. need \in Int /\ n - x \in Int
  OBVIOUS
<1>2. m = IF need <= n - x THEN need ELSE n - x
  BY <1>1, MinOfTwo
<1> HIDE DEF m
<1>3. m \in Nat /\ m > 0 /\ m <= need /\ x + m <= n
  BY <1>2
<1> QED
  BY <1>3 DEF m

\* Two ways to count from the same place.
LEMMA Spread ==
  ASSUME NEW i \in Int, NEW n \in Int, NEW x \in Int, NEW k \in Int, i - (n - x) = k,
         NEW m \in Int
  PROVE  i - n + (x + m) - 1 = k + m - 1 /\ i - (n - (x + m)) = k + m
OBVIOUS

\* The bytes of a sequence from its position x to y.
Slice(d, x, y) == SubSeq(d, x + 1, y)

\* BufReader serves what is buffered.
LEMMA ServesBuffered ==
  ASSUME NEW d \in Bytes, NEW x \in Nat, NEW inner \in Nat, NEW k \in Int,
         StandsAt(d, x, inner, k),
         NEW y \in Nat, x <= y, y <= Len(d)
  PROVE  /\ Slice(d, x, y) \in Bytes /\ Len(Slice(d, x, y)) = y - x
         /\ Consecutive(Slice(d, x, y), k) /\ StandsAt(d, y, inner, k + (y - x))
<1> DEFINE n == Len(d)
           t == Slice(d, x, y)
           m == y - x
<1>1. n \in Nat /\ n \in Int /\ inner \in Int /\ x \in Int /\ m \in Int
  BY LenProperties DEF Bytes
<1>2. x <= y /\ y <= n /\ y - x = m /\ m \in Nat
  BY <1>1
<1>3. t \in Bytes /\ Len(t) = m /\ \A i \in 1..m : t[i] = d[x + i]
  BY <1>2, SubSeqIs DEF Slice
<1>4. \A j \in x + 1..n : d[j] = inner - n + j - 1
  BY DEF StandsAt, Filled
<1>5. inner - (n - x) = k
  BY DEF StandsAt
<1> HIDE DEF n, t
<1>6. ASSUME NEW i \in 1..m PROVE t[i] = k + i - 1
  <2>1. x + i \in x + 1..n /\ i \in Int
    BY <1>1, <1>2
  <2>2. t[i] = inner - n + (x + i) - 1
    BY <1>3, <1>4, <2>1
  <2>3. inner - n + (x + i) - 1 = k + i - 1
    BY <1>1, <1>5, <2>1, Spread
  <2> QED
    BY <2>2, <2>3
<1>7. inner - (n - y) = k + m
  BY <1>1, <1>5
<1>8. Consecutive(t, k)
  BY <1>3, <1>6 DEF Consecutive
<1>9. Filled(d, y, inner)
  <2>1. \A j \in y + 1..n : j \in x + 1..n
    BY <1>1, <1>2
  <2> QED
    BY <1>4, <2>1 DEF Filled, n
<1>10. inner - (Len(d) - y) = k + m
  BY <1>7 DEF n
<1> QED
  BY <1>3, <1>8, <1>9, <1>10 DEF StandsAt, t

\* The cursor is still in the span when some of what is needed has been got.
LEMMA StillInSpan ==
  ASSUME NEW c \in Int, NEW n \in Int, NEW m \in Nat, m < n, NEW e \in Int, c + n <= e,
         NEW o \in Int, o <= c
  PROVE  (c + m) + (n - m) <= e /\ o <= c + m /\ c + m < e
OBVIOUS

\* More bytes of the span have been got.
TakenOff(r, t, m, r2) ==
  r2.got = r.got \o t /\ r2.need = r.need - m /\ r2.want = r.want

\* What is left to get of the span is still in the span, and the buffer stands before it.
LEMMA GotMore ==
  ASSUME NEW f \in Forks, NEW p \in Nat, NEW r \in Reads, Agrees(f, p, r.got),
         Len(r.got) + r.need <= r.want,
         NEW c, c = p + Len(r.got), NEW s \in SpanAt(f, c), c + r.need <= s.end,
         NEW t \in Bytes, NEW m \in Nat, Len(t) = m, m > 0, m <= r.need,
         NEW k \in Int, k = s.addr + c - s.begin, Consecutive(t, k),
         NEW k2, k2 = k + m, NEW b, m < r.need => StandsAt(b.data, b.pos, b.inner, k2),
         NEW r2, TakenOff(r, t, m, r2)
  PROVE  Len(r2.got) + r2.need <= r2.want /\ ReadOK(f, p, r2, b)
<1> DEFINE g == r.got
           need == r.need
           want == r.want
           c2 == c + m
<1>1. g \in Bytes /\ want \in Nat /\ need \in Nat /\ Len(g) \in Nat
  BY LenProperties DEF Bytes, Reads
<1>2. c \in Nat /\ c = p + Len(g)
  BY <1>1
<1>3. g \o t \in Bytes /\ Len(g \o t) = Len(g) + m
  BY <1>1, ConcatBytes
<1>4. r2.want = want /\ r2.got = g \o t /\ r2.need = need - m
  BY DEF TakenOff
<1>5. Len(g) + need <= want /\ c + need <= s.end /\ m <= need
  OBVIOUS
<1>6. s.addr \in Nat /\ s.begin \in Nat /\ s.end \in Nat /\ s.begin <= c /\ c < s.end
  BY <1>2, SpanIs
<1>7. Agrees(f, p, g)
  OBVIOUS
<1>8. (m < need) => StandsAt(b.data, b.pos, b.inner, k2)
  OBVIOUS
<1> HIDE DEF g, need, want
<1>9. Len(r2.got) + r2.need <= r2.want
  <2>1. (Len(g) + m) + (need - m) <= want
    BY <1>1, <1>5
  <2> QED
    BY <1>3, <1>4, <2>1
<1>10. Agrees(f, p, g \o t)
  <2>1. p + Len(g) + Len(t) <= s.end
    <3> DEFINE e == s.end
               l == Len(g)
    <3>1. e \in Nat /\ l \in Nat /\ c = p + l /\ c + need <= e /\ p \in Nat
      BY <1>1, <1>2, <1>5, <1>6
    <3> HIDE DEF e, l
    <3>2. p + l + m <= e
      BY <1>1, <1>5, <3>1
    <3> QED
      BY <3>2 DEF e, l
  <2>2. Consecutive(t, s.addr + (p + Len(g)) - s.begin)
    BY <1>2
  <2>3. s \in SpanAt(f, p + Len(g))
    BY <1>2
  <2> QED
    BY <1>1, <1>7, <2>1, <2>2, <2>3, AgreesMore
<1>11. c2 = p + Len(r2.got) /\ c2 \in Nat
  <2> DEFINE l == Len(g)
  <2>1. l \in Nat /\ c = p + l /\ c \in Nat
    BY <1>1, <1>2
  <2> HIDE DEF l
  <2>2. c + m = p + (l + m) /\ c + m \in Nat
    BY <2>1
  <2> QED
    BY <1>3, <1>4, <2>2 DEF l
<1>12. ASSUME r2.need > 0
       PROVE  s \in SpanAt(f, c2) /\ c2 + r2.need <= s.end /\ AtSpan(b, s, c2)
  <2>1. m < need
    BY <1>1, <1>4, <1>12
  <2> DEFINE e == s.end
  <2>2. e \in Nat /\ c + need <= e /\ s.begin <= c /\ s.begin \in Nat
    BY <1>5, <1>6
  <2>3. c2 + r2.need <= e /\ s.begin <= c2 /\ c2 < e
    <3> DEFINE o == s.begin
               v == r2.need
    <3>1. /\ e \in Int /\ c + need <= e /\ o <= c /\ o \in Int /\ v = need - m
          /\ c \in Int /\ need \in Int
      <4> HIDE DEF e, o, v
      <4>1. e \in Int /\ c + need <= e /\ o <= c /\ o \in Int
        BY <2>2 DEF o
      <4>2. v = need - m
        BY <1>4 DEF v
      <4>3. c \in Int /\ need \in Int
        BY <1>1, <1>2
      <4> QED
        BY <4>1, <4>2, <4>3
    <3> HIDE DEF e, o, v
    <3>2. c2 + v <= e /\ o <= c2 /\ c2 < e
      <4>1. (c + m) + (need - m) <= e /\ o <= c + m /\ c + m < e
        BY <2>1, <3>1, StillInSpan
      <4> QED
        BY <3>1, <4>1
    <3> QED
      BY <3>2 DEF o, v
  <2>4. k + m = s.addr + c2 - s.begin
    <3> DEFINE a == s.addr
               o == s.begin
    <3>1. a \in Int /\ o \in Int /\ k = a + c - o /\ c \in Int
      BY <1>2, <1>6
    <3> HIDE DEF a, o
    <3>2. k + m = a + c2 - o
      BY <3>1
    <3> QED
      BY <3>2 DEF a, o
  <2>5. k2 = s.addr + c2 - s.begin
    BY <2>4
  <2> HIDE DEF c2
  <2>6. s \in SpanAt(f, c2)
    BY <2>3, SpanOfPlace
  <2>7. AtSpan(b, s, c2)
    BY <1>8, <2>1, <2>5 DEF AtSpan
  <2> QED
    BY <2>3, <2>6, <2>7
<1> HIDE DEF c2
<1>13. ReadOK(f, p, r2, b)
  BY <1>4, <1>10, <1>11, <1>12 DEF ReadOK
<1> QED
  BY <1>4, <1>9, <1>13

-----------------------------------------------------------------------------
(* The steps of a call.                                                    *)

\* A call on an open file, as the invariant has it.
LEMMA OnFile ==
  ASSUME Inv, call.stage \in FileStages
  PROVE  /\ File \in Forks /\ Fork = File /\ Position = h.pos /\ h = fds[call.fd]
         /\ h \in Handles /\ GoodHandle(h) /\ FileHandle(File, h) /\ h.name \in Names
         /\ call.fd \in DOMAIN fds /\ call.op \in {"read", "pread", "mmap", "region"}
         /\ call.was \in Handles /\ GoodHandle(call.was) /\ call.was.name = h.name
         /\ FileHandle(File, call.was)
         /\ StageOK(File, call, h, rd) /\ Promise(File, call, h)
<1>1. call \in Calls /\ call.fd \in DOMAIN fds /\ FileCall(call, h, rd)
  BY DEF Inv, CallOK
<1>2. /\ h.name \in Names /\ call.op \in {"read", "pread", "mmap", "region"}
      /\ GoodHandle(call.was) /\ call.was.name = h.name
      /\ StageOK(Volume[h.name], call, h, rd) /\ Promise(Volume[h.name], call, h)
  BY <1>1 DEF FileCall
<1>3. h = fds[call.fd] /\ File = Volume[h.name]
  BY DEF h, File
<1>4. h \in Handles /\ GoodHandle(h)
  BY <1>1, <1>3 DEF Inv, HandlesOK
<1>5. call.was \in Handles
  BY <1>1 DEF Calls
<1>6. File \in Forks
  BY <1>2, <1>3 DEF Names, Forks
<1>7. call.stage # "catalog"
  BY DEF FileStages
<1>8. Fork = File /\ Position = h.pos
  BY <1>7 DEF Fork, Position
<1>9. FileHandle(File, h) /\ FileHandle(File, call.was)
  BY <1>2, <1>3, <1>4 DEF GoodHandle
<1> QED
  BY <1>1, <1>2, <1>3, <1>4, <1>5, <1>6, <1>8, <1>9

\* What any read_internal works on.
LEMMA OnFork ==
  ASSUME Inv, Reading
  PROVE  /\ Fork \in Forks /\ Position \in Nat /\ ReadOK(Fork, Position, rd, buf)
         /\ rd \in Reads /\ Len(rd.got) + rd.need <= rd.want
         /\ rd.got \in Bytes /\ Len(rd.got) \in Nat /\ rd.want \in Nat /\ rd.need \in Nat
         /\ Agrees(Fork, Position, rd.got) /\ Cursor = Position + Len(rd.got) /\ Cursor \in Nat
<1>1. ReadOK(Fork, Position, rd, buf) /\ rd \in Reads /\ Len(rd.got) + rd.need <= rd.want
  BY DEF Inv, ReadingOK
<1>2. rd.got \in Bytes /\ Len(rd.got) \in Nat /\ rd.want \in Nat /\ rd.need \in Nat
  <2>1. rd.got \in Bytes /\ rd.want \in Nat /\ rd.need \in Nat
    BY <1>1 DEF Reads
  <2> QED
    BY <2>1, LenProperties DEF Bytes
<1>3. Fork \in Forks /\ Position \in Nat
  <2>1. CASE call.stage = "catalog"
    BY <2>1, Sizes DEF Fork, Position, Forks, NodeAt
  <2>2. CASE call.stage # "catalog"
    <3>1. call.stage \in FileStages
      BY <2>2 DEF Reading, FileStages
    <3>2. Fork \in Forks /\ Position = h.pos /\ h \in Handles
      BY <3>1, OnFile
    <3> QED
      BY <3>2 DEF Handles
  <2> QED
    BY <2>1, <2>2
<1>4. Agrees(Fork, Position, rd.got)
  BY <1>1 DEF ReadOK
<1>5. Cursor = Position + Len(rd.got)
  BY DEF Cursor
<1>6. Position + Len(rd.got) \in Nat
  BY <1>2, <1>3
<1> QED
  BY <1>1, <1>2, <1>3, <1>4, <1>5, <1>6

\* A read_internal that is done has what it wants, or is at the end of the fork.
LEMMA DoneIs ==
  ASSUME Inv, Done
  PROVE  Len(rd.got) = rd.want \/ Fork.size <= Position + Len(rd.got)
<1>1. Reading /\ (Len(rd.got) = rd.want \/ SpanAt(Fork, Cursor) = {})
  BY DEF Done
<1>2. Fork \in Forks /\ Cursor = Position + Len(rd.got) /\ Cursor \in Nat
  BY <1>1, OnFork
<1>3. SpanAt(Fork, Cursor) = {} => Fork.size <= Cursor
  BY <1>2, SpanWithin
<1> QED
  BY <1>1, <1>2, <1>3

\* Writing an open handle back.
LEMMA WriteHandle ==
  ASSUME HandlesOK, NEW fd \in DOMAIN fds, NEW x \in Handles, GoodHandle(x),
         fds' = [fds EXCEPT ![fd] = x]
  PROVE  HandlesOK' /\ DOMAIN fds' = DOMAIN fds /\ fds'[fd] = x
<1>1. DOMAIN fds \subseteq Fds /\ fds \in [DOMAIN fds -> Handles]
      /\ \A y \in DOMAIN fds : GoodHandle(fds[y])
  BY DEF HandlesOK
<1>2. DOMAIN fds' = DOMAIN fds /\ fds'[fd] = x
  BY <1>1
<1>3. fds' \in [DOMAIN fds -> Handles]
  BY <1>1
<1>4. \A y \in DOMAIN fds : GoodHandle(fds'[y])
  <2> SUFFICES ASSUME NEW y \in DOMAIN fds PROVE GoodHandle(fds'[y])
    OBVIOUS
  <2>1. fds'[y] = x \/ fds'[y] = fds[y]
    BY <1>1
  <2> QED
    BY <1>1, <2>1
<1>5. HandlesOK'
  BY <1>1, <1>2, <1>3, <1>4 DEF HandlesOK
<1> QED
  BY <1>2, <1>5

\* A call on a file goes on: what its next stage must keep.
LEMMA GoesOn ==
  ASSUME Inv, call.stage \in FileStages,
         NEW x \in Handles, GoodHandle(x), x.name = h.name,
         fds' = [fds EXCEPT ![call.fd] = x],
         BufferOK', call' \in Calls, call'.stage \in FileStages,
         call'.fd = call.fd, call'.op = call.op, call'.was = call.was,
         rd' \in Reads, rd'.got = <<>>, rd'.need = 0, call'.stage = "enter" => rd' = NoRead,
         StageOK(File, call', x, rd'), Promise(File, call', x)
  PROVE  Inv'
<1>1. /\ call.fd \in DOMAIN fds /\ call.op \in {"read", "pread", "mmap", "region"} /\ h.name \in Names
      /\ GoodHandle(call.was) /\ call.was.name = h.name /\ File = Volume[h.name]
  BY OnFile DEF File
<1>2. HandlesOK' /\ DOMAIN fds' = DOMAIN fds /\ fds'[call.fd] = x
  <2>1. HandlesOK
    BY DEF Inv
  <2> QED
    BY <1>1, <2>1, WriteHandle
<1>3. h' = x
  BY <1>2 DEF h
<1>4. FileCall(call', h', rd')
  BY <1>1, <1>3 DEF FileCall
<1>5. call'.stage \notin {"none", "catalog", "returned"} /\ call'.op # "idle"
  BY <1>1 DEF FileStages
<1>6. CallOK'
  <2>1. call'.fd \in DOMAIN fds'
    BY <1>1, <1>2
  <2>2. call'.op = "idle" <=> call'.stage = "none"
    BY <1>5
  <2> QED
    BY <1>4, <1>5, <2>1, <2>2 DEF CallOK
<1>7. ReadingOK'
  <2>1. ~Reading' => rd' = NoRead
    BY DEF Reading, FileStages
  <2>2. Len(rd'.got) + rd'.need <= rd'.want
    <3>1. Len(<<>>) = 0 /\ rd'.want \in Nat
      BY EmptySeq DEF Reads
    <3> QED
      BY <3>1
  <2>3. ReadOK(Fork', Position', rd', buf')
    BY ReadOKWhenFresh
  <2> QED
    BY <2>1, <2>2, <2>3 DEF ReadingOK
<1>8. ReadGivesFileBytes' /\ RegionHoldsFile'
  BY <1>5 DEF ReadGivesFileBytes, RegionHoldsFile, Returned
<1> QED
  BY <1>2, <1>6, <1>7, <1>8 DEF Inv

\* A call returns.
LEMMA Returns ==
  ASSUME call' \in Calls, call'.stage = "returned", call'.op # "idle",
         HandlesOK', BufferOK', rd' = NoRead, ReadGivesFileBytes', RegionHoldsFile'
  PROVE  Inv'
<1>1. CallOK'
  BY DEF CallOK, FileStages
<1>2. ReadingOK'
  <2>1. rd' \in Reads /\ rd'.want = 0 /\ rd'.got = <<>> /\ rd'.need = 0
    BY DEF NoRead, Reads, Bytes
  <2>2. Len(rd'.got) + rd'.need <= rd'.want
    <3>1. Len(<<>>) = 0
      BY EmptySeq
    <3> QED
      BY <2>1, <3>1
  <2>3. ~Reading'
    BY DEF Reading
  <2> QED
    BY <2>1, <2>2, <2>3 DEF ReadingOK
<1> QED
  BY <1>1, <1>2 DEF Inv

\* Where the device fails, what is left of the buffer is one.
LEMMA FailKeepsBuffer ==
  ASSUME Inv, DeviceFails
  PROVE  BufferOK'
<1>1. buf \in Buffers /\ buf.pos <= Len(buf.data) /\ Len(buf.data) \in {0, Cap}
  BY DEF Inv, BufferOK
<1>2. CASE UNCHANGED buf
  BY <1>1, <1>2 DEF BufferOK
<1>3. CASE \E data \in {buf.data, [i \in DOMAIN buf.data |-> Junk]} :
             buf' = [buf EXCEPT !.pos = 0, !.data = data]
  <2>1. PICK data \in {buf.data, [i \in DOMAIN buf.data |-> Junk]} :
          buf' = [buf EXCEPT !.pos = 0, !.data = data]
    BY <1>3
  <2>2. buf.data \in Bytes /\ Len(buf.data) \in Nat /\ DOMAIN buf.data = 1..Len(buf.data)
    BY <1>1, LenProperties DEF Buffers, Bytes
  <2>3. data \in Bytes /\ Len(data) = Len(buf.data)
    <3> DEFINE n == Len(buf.data)
               e == [i \in 1..n |-> Junk]
    <3>1. n \in Nat /\ Junk \in Int
      BY <2>2 DEF Junk
    <3> HIDE DEF n
    <3>2. e \in Seq(Int) /\ Len(e) = n
      BY <3>1, IsASeq
    <3>3. data = buf.data \/ data = e
      BY <2>2 DEF n
    <3> HIDE DEF e
    <3> QED
      BY <2>2, <3>2, <3>3 DEF n, Bytes
  <2>4. buf' \in Buffers /\ buf'.pos = 0 /\ buf'.data = data
    BY <1>1, <2>1, <2>3 DEF Buffers
  <2>5. 0 <= Len(data)
    BY <2>2, <2>3
  <2> QED
    BY <1>1, <2>3, <2>4, <2>5 DEF BufferOK
<1> QED
  BY <1>2, <1>3 DEF DeviceFails

\* The handles that are made.
LEMMA NewHandles ==
  /\ RandomFile \in Handles /\ GoodHandle(RandomFile) /\ RandomFile.name \notin Names
  /\ \A name \in Names : /\ Handle(name) \in Handles /\ GoodHandle(Handle(name))
                         /\ Handle(name).name = name /\ Handle(name).cache = {}
                         /\ Handle(name).pos = 0
<1>1. Random \notin Names
  BY VolumeAssumption DEF Names, Random
<1>2. RandomFile \in Handles /\ GoodHandle(RandomFile) /\ RandomFile.name \notin Names
  BY <1>1 DEF RandomFile, Handles, GoodHandle, Random
<1>3. ASSUME NEW name \in Names
      PROVE  /\ Handle(name) \in Handles /\ GoodHandle(Handle(name))
             /\ Handle(name).name = name /\ Handle(name).cache = {} /\ Handle(name).pos = 0
  <2> DEFINE f == Volume[name]
  <2>1. f \in Forks
    BY DEF Forks, Names
  <2>2. f.size \in Nat /\ 0 <= f.size
    BY <2>1, ForkSize
  <2>3. /\ Handle(name).name = name /\ Handle(name).cache = {} /\ Handle(name).pos = 0
        /\ Handle(name).size = f.size
    BY DEF Handle
  <2>4. Handle(name) \in Handles
    BY <2>2 DEF Handle, Handles
  <2>5. GoodHandle(Handle(name))
    BY <2>2, <2>3 DEF GoodHandle, FileHandle, RawHandle
  <2> QED
    BY <2>3, <2>4, <2>5
<1> QED
  BY <1>2, <1>3

\* The record of a call that begins.
LEMMA NewCall ==
  ASSUME call \in Calls,
         NEW op \in {"open", "stat", "read", "pread", "mmap", "region", "random"}
  PROVE  /\ New(op) \in Calls /\ New(op).op = op /\ New(op).raw = <<>> /\ New(op).mem = <<>>
         /\ New(op).failed = FALSE /\ Idle \in Calls
<1>1. RandomFile \in Handles
  BY NewHandles
<1>2. <<>> \in Bytes
  BY EmptySeq DEF Bytes
<1>3. Idle \in Calls
  BY <1>1, <1>2 DEF Idle, Calls
<1>4. call.count + 1 \in Nat
  BY DEF Calls
<1>5. New(op) = [Idle EXCEPT !.op = op, !.count = call.count + 1]
  BY DEF New
<1>6. Idle.raw = <<>> /\ Idle.mem = <<>> /\ Idle.failed = FALSE
  BY DEF Idle
<1>7. New(op) \in Calls
  BY <1>3, <1>4, <1>5 DEF Calls
<1>8. New(op).op = op /\ New(op).raw = Idle.raw /\ New(op).mem = Idle.mem /\ New(op).failed = Idle.failed
  BY <1>3, <1>5 DEF Calls
<1> QED
  BY <1>3, <1>6, <1>7, <1>8

\* Between calls nothing is being read.
LEMMA IdleIs ==
  ASSUME Inv, Ready
  PROVE  call.stage = "none" /\ rd = NoRead /\ call \in Calls /\ HandlesOK /\ BufferOK
<1>1. call.stage = "none"
  BY DEF Inv, CallOK, Ready
<1>2. ~Reading
  BY <1>1 DEF Reading
<1> QED
  BY <1>1, <1>2 DEF Inv, ReadingOK, CallOK

\* A call that looks up a path.
LEMMA LookupKeeps ==
  ASSUME Inv, NEW op \in {"open", "stat"}, NEW name \in DOMAIN Volume, Lookup(op, name)
  PROVE  Inv'
<1>1. Ready /\ UNCHANGED <<fds, buf>> /\ rd' = [NoRead EXCEPT !.want = Header]
      /\ call' = [New(op) EXCEPT !.name = name, !.stage = "catalog"]
  BY DEF Lookup
<1>2. call \in Calls /\ HandlesOK /\ BufferOK
  BY <1>1, IdleIs
<1>3. New(op) \in Calls /\ New(op).op = op
  BY <1>2, NewCall
<1>4. call' \in Calls /\ call'.op = op /\ call'.name = name /\ call'.stage = "catalog"
  BY <1>1, <1>3 DEF Calls, Names
<1>5. CallOK'
  BY <1>4 DEF CallOK, FileStages, Names
<1>6. HandlesOK' /\ BufferOK'
  BY <1>1, <1>2 DEF HandlesOK, BufferOK
<1>7. rd' \in Reads /\ rd'.got = <<>> /\ rd'.need = 0 /\ rd'.want = Header
  BY <1>1, Sizes, FreshRead
<1>8. ReadingOK'
  <2>1. Reading'
    BY <1>4 DEF Reading
  <2>2. Len(rd'.got) + rd'.need <= rd'.want
    <3>1. Len(<<>>) = 0
      BY EmptySeq
    <3> QED
      BY <1>7, <3>1, Sizes
  <2>3. ReadOK(Fork', Position', rd', buf')
    BY <1>7, ReadOKWhenFresh
  <2> QED
    BY <1>7, <2>1, <2>2, <2>3 DEF ReadingOK
<1>9. ReadGivesFileBytes' /\ RegionHoldsFile'
  BY <1>4 DEF ReadGivesFileBytes, RegionHoldsFile, Returned
<1> QED
  BY <1>5, <1>6, <1>8, <1>9 DEF Inv

\* close.
LEMMA CloseKeeps ==
  ASSUME Inv, NEW fd \in Fds, Close(fd)
  PROVE  Inv'
<1>1. /\ Ready /\ fds' = [x \in DOMAIN fds \ {fd} |-> fds[x]]
      /\ call' = [call EXCEPT !.count = @ + 1] /\ UNCHANGED <<buf, rd>>
  BY DEF Close
<1>2. call \in Calls /\ HandlesOK /\ BufferOK /\ call.stage = "none" /\ rd = NoRead
  BY <1>1, IdleIs
<1>3. call' \in Calls /\ call'.op = call.op /\ call'.stage = "none"
  BY <1>1, <1>2 DEF Calls
<1>4. CallOK'
  BY <1>1, <1>3 DEF CallOK, FileStages, Ready
<1>5. HandlesOK' /\ BufferOK'
  BY <1>1, <1>2 DEF HandlesOK, BufferOK
<1>6. ReadingOK'
  <2>1. ~Reading'
    BY <1>3 DEF Reading
  <2> QED
    BY <1>1, <1>2, <2>1 DEF Inv, ReadingOK
<1>7. ReadGivesFileBytes' /\ RegionHoldsFile'
  BY <1>3 DEF ReadGivesFileBytes, RegionHoldsFile, Returned
<1> QED
  BY <1>4, <1>5, <1>6, <1>7 DEF Inv

\* A call on an open file begins.
LEMMA Begins ==
  ASSUME Inv, Ready, HandlesOK', UNCHANGED <<buf, rd>>, NEW fd \in DOMAIN fds',
         call' \in Calls, call'.stage = "enter", call'.fd = fd, call'.raw = <<>>,
         call'.op \in {"read", "pread", "mmap", "region"},
         fds'[fd].name \in Names, GoodHandle(call'.was), call'.was.name = fds'[fd].name,
         Promise(Volume[fds'[fd].name], call', fds'[fd])
  PROVE  Inv'
<1>1. rd = NoRead /\ BufferOK
  BY IdleIs
<1>2. BufferOK'
  BY <1>1 DEF BufferOK
<1>3. h' = fds'[fd]
  BY DEF h
<1>4. StageOK(Volume[fds'[fd].name], call', fds'[fd], rd')
  BY DEF StageOK
<1>5. FileCall(call', h', rd')
  BY <1>3, <1>4 DEF FileCall
<1>6. CallOK'
  BY <1>5 DEF CallOK
<1>7. ReadingOK'
  <2>1. ~Reading'
    BY DEF Reading
  <2> QED
    BY <1>1, <2>1 DEF Inv, ReadingOK
<1>8. ReadGivesFileBytes' /\ RegionHoldsFile'
  BY DEF ReadGivesFileBytes, RegionHoldsFile, Returned
<1> QED
  BY <1>2, <1>6, <1>7, <1>8 DEF Inv

\* read and pread.
LEMMA HandleReadKeeps ==
  ASSUME Inv, NEW op \in {"read", "pread", "mmap"}, NEW fd \in Fds, NEW len \in Nat,
         NEW offset \in Nat, HandleRead(op, fd, len, offset)
  PROVE  Inv'
<1>1. Ready /\ UNCHANGED <<fds, buf>>
  BY DEF HandleRead
<1>2. call \in Calls /\ HandlesOK /\ BufferOK
  BY <1>1, IdleIs
<1>3. HandlesOK' /\ BufferOK'
  BY <1>1, <1>2 DEF HandlesOK, BufferOK
<1>4. fd \in Nat
  BY Sizes
<1>5. CASE IsFile(fd)
  <2> DEFINE x == fds[fd]
  <2>1. /\ UNCHANGED rd /\ call' = Enter(op, fd, len, offset)
    BY <1>5 DEF HandleRead
  <2>2. fd \in DOMAIN fds /\ x.name \in Names
    BY <1>5 DEF IsFile, Names
  <2>3. x \in Handles /\ GoodHandle(x)
    BY <1>2, <2>2 DEF HandlesOK
  <2>4. New(op) \in Calls /\ New(op).op = op /\ New(op).raw = <<>> /\ New(op).mem = <<>>
    BY <1>2, NewCall
  <2>5. call' = [New(op) EXCEPT !.fd = fd, !.len = len, !.offset = offset, !.was = x, !.stage = "enter"]
    BY <2>1 DEF Enter
  <2> HIDE DEF x
  <2>6. /\ call' \in Calls /\ call'.stage = "enter" /\ call'.fd = fd /\ call'.was = x
        /\ call'.op = op /\ call'.raw = <<>> /\ call'.mem = <<>>
    BY <1>4, <2>3, <2>4, <2>5 DEF Calls
  <2>7. fds'[fd] = x /\ fd \in DOMAIN fds'
    BY <1>1, <2>2 DEF x
  <2>8. Promise(Volume[x.name], call', x)
    <3>1. ReadPromise(Volume[x.name], call', x)
      BY <2>6 DEF ReadPromise
    <3> QED
      BY <2>6, <3>1 DEF Promise
  <2> QED
    BY <1>1, <1>3, <2>1, <2>2, <2>3, <2>6, <2>7, <2>8, Begins
<1>6. CASE ~IsFile(fd)
  <2> DEFINE data == IF fd \in DOMAIN fds THEN [i \in 1..len |-> Junk] ELSE <<>>
  <2>1. Return(New("random"), data)
    BY <1>6 DEF HandleRead
  <2>2. data \in Bytes
    <3>1. Junk \in Int
      BY DEF Junk
    <3>2. [i \in 1..len |-> Junk] \in Seq(Int)
      BY <3>1, IsASeq
    <3>3. <<>> \in Seq(Int)
      BY EmptySeq
    <3> QED
      BY <3>2, <3>3 DEF Bytes
  <2> HIDE DEF data
  <2>3. rd' = NoRead /\ call' = [New("random") EXCEPT !.stage = "returned", !.mem = data]
    BY <2>1 DEF Return
  <2>4. New("random") \in Calls /\ New("random").op = "random"
    BY <1>2, NewCall
  <2>5. call' \in Calls /\ call'.op = "random" /\ call'.stage = "returned"
    BY <2>2, <2>3, <2>4 DEF Calls
  <2>6. ReadGivesFileBytes' /\ RegionHoldsFile'
    BY <2>5 DEF ReadGivesFileBytes, RegionHoldsFile, Returned
  <2> QED
    BY <1>3, <2>3, <2>5, <2>6, Returns
<1> QED
  BY <1>5, <1>6

\* A start of a sequence is no longer than it.
LEMMA PrefixFits ==
  ASSUME NEW s, NEW t, IsPrefix(s, t)
  PROVE  Len(s) <= Len(t)
BY DEF IsPrefix

\* Where a handle may be, by its size.
LEMMA HandleFits ==
  ASSUME NEW f \in Forks, NEW x \in Handles, FileHandle(f, x)
  PROVE  /\ x.cache = {} => x.pos <= f.size /\ x.size = f.size
         /\ x.cache # {} => /\ x.pos <= Len(Contents(f)) /\ x.size <= Len(Contents(f))
                            /\ f.kind # "plain"
         /\ x.cache = {Contents(f)} => x.size = Len(Contents(f)) /\ f.kind # "plain"
         /\ x.pos <= DiskSize * 2 /\ x.size <= DiskSize * 2
<1>1. /\ x.pos \in Nat /\ x.size \in Nat /\ f.size \in Nat /\ f.size <= DiskSize
      /\ DiskSize \in Nat /\ Len(Contents(f)) \in Nat /\ Len(Contents(f)) <= DiskSize * 2
      /\ Contents(f) \in Bytes
  BY ForkSize, ContentsAre, Sizes DEF Handles
<1>2. CASE x.cache = {}
  <2>1. x.pos <= f.size /\ x.size = f.size
    BY <1>2 DEF FileHandle, RawHandle
  <2>2. x.cache # {Contents(f)}
    BY <1>2
  <2>3. x.pos <= DiskSize * 2 /\ x.size <= DiskSize * 2
    BY <1>1, <2>1
  <2> QED
    BY <1>2, <2>1, <2>2, <2>3
<1>3. CASE x.cache # {}
  <2>1. CachedHandle(f, x)
    BY <1>3 DEF FileHandle
  <2>2. PICK c \in x.cache : /\ x.cache = {c} /\ IsPrefix(c, Contents(f))
                             /\ x.size \in {Len(c), Len(Contents(f))}
    BY <2>1 DEF CachedHandle
  <2>3. f.kind # "plain" /\ x.pos <= Len(Contents(f))
    BY <2>1 DEF CachedHandle
  <2>4. c \in Bytes
    BY <2>2 DEF Handles
  <2>5. Len(c) <= Len(Contents(f)) /\ Len(c) \in Nat
    BY <2>2, <2>4, PrefixFits, LenProperties DEF Bytes
  <2>6. x.size <= Len(Contents(f))
    BY <1>1, <2>2, <2>5
  <2>7. x.cache = {Contents(f)} => x.size = Len(Contents(f))
    BY <2>2
  <2>8. x.pos <= DiskSize * 2 /\ x.size <= DiskSize * 2
    BY <1>1, <2>3, <2>6
  <2> QED
    BY <1>3, <2>3, <2>6, <2>7, <2>8
<1> QED
  BY <1>2, <1>3

\* A handle may be anywhere before the end of its size.
LEMMA SeekHandle ==
  ASSUME NEW x \in Handles, x.name \in Names, GoodHandle(x), NEW n \in Nat, n <= x.size,
         NEW y, y = [x EXCEPT !.pos = n]
  PROVE  y \in Handles /\ GoodHandle(y) /\ y.name = x.name /\ y.cache = x.cache /\ y.pos = n
<1> DEFINE f == Volume[x.name]
<1>1. f \in Forks
  BY DEF Forks, Names
<1>2. FileHandle(f, x)
  BY DEF GoodHandle
<1>3. y \in Handles /\ y.name = x.name /\ y.cache = x.cache /\ y.pos = n /\ y.size = x.size
  BY DEF Handles
<1> HIDE DEF f
<1>4. CASE x.cache = {}
  <2>1. RawHandle(f, x)
    BY <1>2, <1>4 DEF FileHandle
  <2>2. RawHandle(f, y)
    BY <1>3, <2>1 DEF RawHandle
  <2>3. FileHandle(f, y)
    BY <1>3, <1>4, <2>2 DEF FileHandle
  <2> QED
    BY <1>3, <2>3 DEF GoodHandle, f
<1>5. CASE x.cache # {}
  <2>1. CachedHandle(f, x)
    BY <1>2, <1>5 DEF FileHandle
  <2>2. x.size <= Len(Contents(f))
    BY <1>1, <1>2, <1>5, HandleFits
  <2>3. n <= Len(Contents(f))
    <3>1. x.size \in Nat /\ Len(Contents(f)) \in Nat
      BY <1>1, ContentsAre DEF Handles
    <3> QED
      BY <2>2, <3>1
  <2>4. CachedHandle(f, y)
    BY <1>3, <2>1, <2>3 DEF CachedHandle
  <2>5. FileHandle(f, y)
    BY <1>3, <1>5, <2>4 DEF FileHandle
  <2> QED
    BY <1>3, <2>5 DEF GoodHandle, f
<1> QED
  BY <1>4, <1>5

\* mapping a file into the shared region: the seek, and the promise of the read.
LEMMA SharedRegionMapKeeps ==
  ASSUME Inv, NEW fd \in Fds, NEW size \in Nat, NEW offset \in Nat,
         SharedRegionMap(fd, size, offset)
  PROVE  Inv'
<1> DEFINE x == fds[fd]
           y == Sought(x, offset)
           n == ToMap(fd, size, offset)
           f == Volume[x.name]
<1>1. /\ Ready /\ IsFile(fd) /\ offset < x.size /\ size > 0
      /\ fds' = [fds EXCEPT ![fd] = Sought(fds[fd], offset)]
      /\ call' = Enter("region", fd, n, offset) /\ UNCHANGED <<buf, rd>>
  BY DEF SharedRegionMap
<1>2. call \in Calls /\ HandlesOK /\ fd \in Nat
  BY <1>1, IdleIs, Sizes
<1>3. fd \in DOMAIN fds /\ x.name \in Names
  BY <1>1 DEF IsFile, Names
<1>4. x \in Handles /\ GoodHandle(x)
  BY <1>2, <1>3 DEF HandlesOK
<1>5. f \in Forks /\ FileHandle(f, x)
  BY <1>3, <1>4 DEF Forks, Names, GoodHandle
<1>6. x.size \in Nat
  BY <1>4 DEF Handles
<1>7. n \in Nat /\ n > 0 /\ offset + n <= x.size
  <2>1. n = Min({size, x.size - offset})
    BY DEF ToMap
  <2> DEFINE s == x.size
  <2>2. s \in Nat /\ offset < s /\ size > 0 /\ n = Min({size, s - offset})
    BY <1>1, <1>6, <2>1
  <2> HIDE DEF s, n
  <2>3. n \in Nat /\ n > 0 /\ offset + n <= s
    <3>1. n = Min({size, s - offset})
      BY <2>2
    <3> QED
      BY <2>2, <3>1, TakeIs
  <2> QED
    BY <2>3 DEF s
<1> HIDE DEF n
<1>8. y \in Handles /\ GoodHandle(y) /\ y.name = x.name /\ y.cache = x.cache /\ y.pos = offset
  <2>1. y = [x EXCEPT !.pos = offset]
    BY DEF Sought
  <2>2. offset <= x.size
    BY <1>1, <1>6
  <2> HIDE DEF y, x
  <2> QED
    BY <1>3, <1>4, <2>1, <2>2, SeekHandle
<1>9. HandlesOK' /\ DOMAIN fds' = DOMAIN fds /\ fds'[fd] = y
  <2>1. fds' = [fds EXCEPT ![fd] = y]
    BY <1>1
  <2> HIDE DEF y
  <2> QED
    BY <1>2, <1>3, <1>8, <2>1, WriteHandle
<1>10. /\ call' \in Calls /\ call'.stage = "enter" /\ call'.fd = fd /\ call'.was = x
       /\ call'.op = "region" /\ call'.raw = <<>> /\ call'.mem = <<>>
       /\ call'.len = n /\ call'.offset = offset
  <2>1. New("region") \in Calls /\ New("region").op = "region" /\ New("region").raw = <<>>
        /\ New("region").mem = <<>>
    BY <1>2, NewCall
  <2>2. call' = [New("region") EXCEPT !.fd = fd, !.len = n, !.offset = offset,
                                      !.was = x, !.stage = "enter"]
    BY <1>1 DEF Enter
  <2> HIDE DEF x
  <2> QED
    BY <1>2, <1>4, <1>7, <2>1, <2>2 DEF Calls
<1> HIDE DEF x, y, f
<1>11. Promise(Volume[y.name], call', y)
  <2>1. Volume[y.name] = f
    BY <1>8 DEF f
  <2>2. Len(call'.mem) = 0 /\ Len(call'.mem) < call'.len
    <3>1. Len(<<>>) = 0
      BY EmptySeq
    <3> QED
      BY <1>7, <1>10, <3>1
  <2>3. RegionPromise(f, call', y)
    <3> SUFFICES ASSUME f.kind = "plain" \/ x.cache = {Contents(f)}
                 PROVE  /\ y.cache = x.cache /\ y.pos = offset + Len(call'.mem)
                        /\ call'.mem = SubSeq(Contents(f), offset + 1, offset + Len(call'.mem))
                        /\ offset + n <= Len(Contents(f))
      BY <1>10 DEF RegionPromise
    <3>1. y.pos = offset + Len(call'.mem)
      BY <1>8, <2>2
    <3>2. offset + Len(call'.mem) = offset
      BY <2>2
    <3>3. call'.mem = SubSeq(Contents(f), offset + 1, offset + Len(call'.mem))
      BY <1>10, <3>2, SubSeqNone
    <3>4. x.size = Len(Contents(f))
      <4>1. CASE f.kind = "plain"
        <5>1. x.cache = {}
          BY <1>4, <1>5, <4>1, HandleFits
        <5> QED
          BY <1>4, <1>5, <4>1, <5>1, HandleFits, ContentsAre
      <4>2. CASE x.cache = {Contents(f)}
        BY <1>4, <1>5, <4>2, HandleFits
      <4> QED
        BY <4>1, <4>2
    <3> QED
      BY <1>7, <1>8, <3>1, <3>3, <3>4
  <2> QED
    BY <1>10, <2>1, <2>2, <2>3 DEF Promise
<1> QED
  BY <1>1, <1>3, <1>4, <1>8, <1>9, <1>10, <1>11, Begins

\* Fork::read at the start of a file that has not been unpacked.
LEMMA CheckCompressionKeeps ==
  ASSUME Inv, CheckCompression
  PROVE  Inv'
<1>1. /\ call.stage = "enter" /\ h.cache = {} /\ h.pos = 0 /\ UNCHANGED <<fds, buf>>
      /\ call' = [call EXCEPT !.stage = "header"] /\ rd' = [NoRead EXCEPT !.want = Header]
  BY DEF CheckCompression, ReadInternal
<1>2. call.stage \in FileStages
  BY <1>1 DEF FileStages
<1>3. /\ h \in Handles /\ GoodHandle(h) /\ StageOK(File, call, h, rd) /\ Promise(File, call, h)
      /\ h = fds[call.fd] /\ call.fd \in DOMAIN fds
  BY <1>2, OnFile
<1>4. call \in Calls /\ HandlesOK /\ BufferOK
  BY DEF Inv, CallOK
<1>5. /\ call' \in Calls /\ call'.stage = "header" /\ call'.fd = call.fd /\ call'.op = call.op
      /\ call'.was = call.was /\ call'.raw = call.raw /\ call'.mem = call.mem
      /\ call'.failed = call.failed /\ call'.len = call.len /\ call'.offset = call.offset
  BY <1>1, <1>4 DEF Calls
<1>6. rd' \in Reads /\ rd'.got = <<>> /\ rd'.need = 0 /\ rd'.want = Header
  BY <1>1, Sizes, FreshRead
<1>7. fds' = [fds EXCEPT ![call.fd] = h]
  BY <1>1, <1>3, <1>4 DEF HandlesOK
<1>8. BufferOK'
  BY <1>1, <1>4 DEF BufferOK
<1>9. StageOK(File, call', h, rd')
  <2>1. call.raw = <<>>
    BY <1>1, <1>3 DEF StageOK
  <2> QED
    BY <1>1, <1>5, <1>6, <2>1 DEF StageOK
<1>10. Promise(File, call', h)
  <2>1. CASE call.op = "region"
    <3>1. Len(call.mem) < call.len /\ RegionPromise(File, call, h)
      BY <1>3, <2>1 DEF Promise
    <3>2. RegionPromise(File, call', h)
      BY <1>5, <3>1 DEF RegionPromise
    <3> QED
      BY <1>5, <2>1, <3>1, <3>2 DEF Promise
  <2>2. CASE call.op # "region"
    <3>1. call.mem = <<>> /\ ReadPromise(File, call, h)
      BY <1>3, <2>2 DEF Promise
    <3>2. call.was.cache = {}
      BY <1>1, <3>1 DEF ReadPromise
    <3>3. ReadPromise(File, call', h)
      BY <1>1, <1>5, <3>1, <3>2 DEF ReadPromise
    <3> QED
      BY <1>5, <2>2, <3>1, <3>3 DEF Promise
  <2> QED
    BY <2>1, <2>2
<1>11. call'.stage \in FileStages /\ call'.stage # "enter"
  BY <1>5 DEF FileStages
<1> QED
  BY <1>2, <1>3, <1>5, <1>6, <1>7, <1>8, <1>9, <1>10, <1>11, GoesOn

\* How much one read of a handle asks for.
LEMMA ReadLenIs ==
  ASSUME Inv, call.stage \in FileStages
  PROVE  /\ ReadLen \in Nat /\ ReadLen = DataWant(call)
         /\ call.mem \in Bytes /\ Len(call.mem) \in Nat /\ call.len \in Nat /\ call.offset \in Nat
         /\ call.op = "region" => ReadLen > 0 /\ Len(call.mem) + ReadLen <= call.len
<1>1. call \in Calls /\ Promise(File, call, h)
  BY OnFile DEF Inv, CallOK
<1>2. call.mem \in Bytes /\ Len(call.mem) \in Nat /\ call.len \in Nat /\ call.offset \in Nat
  BY <1>1, LenProperties DEF Calls, Bytes
<1>3. ReadLen = DataWant(call)
  BY DEF ReadLen, DataWant
<1>4. CASE call.op = "region"
  <2> DEFINE n == call.len
             k == Len(call.mem)
             m == Min({Piece, n - k})
  <2>1. k < n /\ k \in Nat /\ n \in Nat /\ Piece \in Nat /\ Piece > 0
    BY <1>1, <1>2, <1>4, Sizes DEF Promise
  <2> HIDE DEF n, k
  <2>2. m \in Nat /\ m > 0 /\ k + m <= n
    BY <2>1, TakeIs
  <2>3. ReadLen = m
    BY <1>4 DEF ReadLen, n, k
  <2> HIDE DEF m
  <2> QED
    BY <1>2, <1>3, <2>2, <2>3 DEF n, k
<1>5. CASE call.op # "region"
  BY <1>2, <1>3, <1>5 DEF ReadLen
<1> QED
  BY <1>4, <1>5

\* Fork::read past the start of a file that has not been unpacked.
LEMMA ReadPlainKeeps ==
  ASSUME Inv, ReadPlain
  PROVE  Inv'
<1>1. /\ call.stage = "enter" /\ h.cache = {} /\ h.pos # 0 /\ UNCHANGED <<fds, buf>>
      /\ call' = [call EXCEPT !.stage = "data"] /\ rd' = [NoRead EXCEPT !.want = ReadLen]
  BY DEF ReadPlain, ReadInternal
<1>2. call.stage \in FileStages
  BY <1>1 DEF FileStages
<1>3. /\ h \in Handles /\ GoodHandle(h) /\ Promise(File, call, h)
      /\ h = fds[call.fd] /\ call.fd \in DOMAIN fds
  BY <1>2, OnFile
<1>4. call \in Calls /\ HandlesOK /\ BufferOK
  BY DEF Inv, CallOK
<1>5. /\ call' \in Calls /\ call'.stage = "data" /\ call'.fd = call.fd /\ call'.op = call.op
      /\ call'.was = call.was /\ call'.raw = call.raw /\ call'.mem = call.mem
      /\ call'.failed = call.failed /\ call'.len = call.len /\ call'.offset = call.offset
  BY <1>1, <1>4 DEF Calls
<1>6. rd' \in Reads /\ rd'.got = <<>> /\ rd'.need = 0 /\ rd'.want = DataWant(call)
  BY <1>1, <1>2, ReadLenIs, FreshRead
<1>7. fds' = [fds EXCEPT ![call.fd] = h]
  BY <1>1, <1>3, <1>4 DEF HandlesOK
<1>8. BufferOK'
  BY <1>1, <1>4 DEF BufferOK
<1>9. StageOK(File, call', h, rd')
  <2>1. DataWant(call') = DataWant(call)
    BY <1>5 DEF DataWant
  <2> QED
    BY <1>1, <1>5, <1>6, <2>1 DEF StageOK
<1>10. Promise(File, call', h)
  <2>1. CASE call.op = "region"
    <3>1. Len(call.mem) < call.len /\ RegionPromise(File, call, h)
      BY <1>3, <2>1 DEF Promise
    <3>2. RegionPromise(File, call', h)
      BY <1>5, <3>1 DEF RegionPromise
    <3> QED
      BY <1>5, <2>1, <3>1, <3>2 DEF Promise
  <2>2. CASE call.op # "region"
    <3>1. call.mem = <<>> /\ ReadPromise(File, call, h)
      BY <1>3, <2>2 DEF Promise
    <3>2. call.was.cache = {}
      BY <1>1, <3>1 DEF ReadPromise
    <3>3. ~(call.was.pos = 0 /\ ~call.failed /\ File.kind # "plain")
      BY <1>1, <3>1, <3>2 DEF ReadPromise
    <3>4. ReadPromise(File, call', h)
      BY <1>5, <3>1, <3>2, <3>3 DEF ReadPromise
    <3> QED
      BY <1>5, <2>2, <3>1, <3>4 DEF Promise
  <2> QED
    BY <2>1, <2>2
<1>11. call'.stage \in FileStages /\ call'.stage # "enter"
  BY <1>5 DEF FileStages
<1> QED
  BY <1>2, <1>3, <1>5, <1>6, <1>7, <1>8, <1>9, <1>10, <1>11, GoesOn

\* A read_internal under way goes on.
LEMMA StillReading ==
  ASSUME Inv, Reading, UNCHANGED <<fds, call>>, BufferOK',
         rd' \in Reads, rd'.want = rd.want, Len(rd'.got) + rd'.need <= rd'.want,
         ReadOK(Fork, Position, rd', buf')
  PROVE  Inv'
<1>1. HandlesOK'
  BY DEF Inv, HandlesOK
<1>2. h' = h /\ File' = File /\ Fork' = Fork /\ Position' = Position
  BY DEF h, File, Fork, Position
<1>3. CallOK'
  <2>1. CASE call.stage \in FileStages
    <3>1. FileCall(call, h, rd) /\ call.fd \in DOMAIN fds /\ call \in Calls
          /\ (call.op = "idle" <=> call.stage = "none")
          /\ (call.stage = "catalog" => call.op \in {"open", "stat"} /\ call.name \in Names)
      BY <2>1 DEF Inv, CallOK
    <3>2. StageOK(Volume[h.name], call, h, rd')
      BY <3>1 DEF FileCall, StageOK, UnpackOK
    <3>3. FileCall(call, h, rd')
      BY <3>1, <3>2 DEF FileCall
    <3> QED
      BY <1>2, <3>1, <3>3 DEF CallOK
  <2>2. CASE call.stage \notin FileStages
    BY <2>2 DEF Inv, CallOK
  <2> QED
    BY <2>1, <2>2
<1>4. ReadingOK'
  <2>1. Reading'
    BY DEF Reading
  <2> QED
    BY <1>2, <2>1 DEF ReadingOK
<1>5. ReadGivesFileBytes' /\ RegionHoldsFile'
  <2>1. call'.stage # "returned"
    BY DEF Reading
  <2> QED
    BY <2>1 DEF ReadGivesFileBytes, RegionHoldsFile, Returned
<1> QED
  BY <1>1, <1>3, <1>4, <1>5 DEF Inv

\* BufReader::seek to the extent at the cursor.
LEMMA SeekExtentKeeps ==
  ASSUME Inv, SeekExtent
  PROVE  Inv'
<1>1. Reading /\ rd.need = 0 /\ Len(rd.got) < rd.want /\ UNCHANGED <<fds, call>>
  BY DEF SeekExtent
<1>2. PICK s \in SpanAt(Fork, Cursor) :
        /\ buf' = BufSeek(s.addr + Cursor - s.begin)
        /\ rd' = [rd EXCEPT !.need = Min({s.end - Cursor, rd.want - Len(rd.got)})]
  BY DEF SeekExtent
<1>3. /\ Fork \in Forks /\ Position \in Nat /\ ReadOK(Fork, Position, rd, buf)
      /\ rd \in Reads /\ Cursor = Position + Len(rd.got)
  BY <1>1, OnFork
<1>4. /\ s \in SpanAt(Fork, Position + Len(rd.got))
      /\ buf' = BufSeek(s.addr + (Position + Len(rd.got)) - s.begin)
      /\ rd' = [rd EXCEPT !.need = Min({s.end - (Position + Len(rd.got)), rd.want - Len(rd.got)})]
  BY <1>2, <1>3
<1> DEFINE f == Fork
           p == Position
           n == Min({s.end - (p + Len(rd.got)), rd.want - Len(rd.got)})
<1>5. /\ f \in Forks /\ p \in Nat /\ ReadOK(f, p, rd, buf) /\ Len(rd.got) < rd.want
      /\ s \in SpanAt(f, p + Len(rd.got)) /\ n = Min({s.end - (p + Len(rd.got)), rd.want - Len(rd.got)})
      /\ rd' = [rd EXCEPT !.need = n] /\ buf' = BufSeek(s.addr + (p + Len(rd.got)) - s.begin)
  BY <1>1, <1>3, <1>4
<1> HIDE DEF f, p, n
<1>6. n \in Nat /\ p + Len(rd.got) + n <= s.end /\ Len(rd.got) + n <= rd.want
  <2> DEFINE e == s.end
             g == Len(rd.got)
             w == rd.want
             c == p + g
  <2>1. g \in Nat /\ w \in Nat /\ c \in Nat /\ g < w
    BY <1>1, <1>5, OnFork
  <2>2. e \in Nat /\ c < e
    <3>1. s \in SpanAt(f, c)
      BY <1>5
    <3> HIDE DEF c
    <3> QED
      BY <1>5, <2>1, <3>1, SpanIs
  <2>3. n = Min({e - c, w - g})
    BY DEF n
  <2> HIDE DEF e, g, w, c
  <2>4. n = IF e - c <= w - g THEN e - c ELSE w - g
    <3>1. e - c \in Int /\ w - g \in Int
      BY <2>1, <2>2
    <3> QED
      BY <2>3, <3>1, MinOfTwo
  <2>5. n \in Nat /\ c + n <= e /\ g + n <= w
    BY <2>1, <2>2, <2>4
  <2> QED
    BY <2>5 DEF e, g, w, c
<1> DEFINE d == s.addr + (p + Len(rd.got)) - s.begin
<1>7. d = s.addr + (p + Len(rd.got)) - s.begin /\ buf' = BufSeek(d)
  BY <1>5
<1> HIDE DEF d
<1>8. rd' \in Reads /\ rd'.want = rd.want /\ rd'.got = rd.got /\ rd'.need = n
  BY <1>3, <1>5, <1>6 DEF Reads
<1>9. /\ rd' \in Reads /\ rd'.want = rd.want /\ Len(rd'.got) + rd'.need <= rd'.want
      /\ buf' \in Buffers /\ buf'.pos <= Len(buf'.data) /\ Len(buf'.data) \in {0, Cap}
      /\ ReadOK(f, p, rd', buf')
  <2>1. PICK r2 \in Reads : r2 = rd'
    BY <1>8
  <2>2. PICK b2 : b2 = buf'
    OBVIOUS
  <2>3. /\ r2.want = rd.want /\ r2.got = rd.got /\ r2.need = n /\ b2 = BufSeek(d)
    BY <1>7, <1>8, <2>1, <2>2
  <2>4. /\ f \in Forks /\ p \in Nat /\ rd \in Reads /\ ReadOK(f, p, rd, buf) /\ Len(rd.got) < rd.want
        /\ s \in SpanAt(f, p + Len(rd.got)) /\ n \in Nat
        /\ p + Len(rd.got) + n <= s.end /\ Len(rd.got) + n <= rd.want
        /\ d = s.addr + (p + Len(rd.got)) - s.begin
    BY <1>3, <1>5, <1>6, <1>7
  <2>5. ReadOK(f, p, r2, b2)
    BY <2>4, <2>3, SeekIsRight
  <2>6. Len(r2.got) + r2.need <= r2.want
    BY <2>4, <2>3, SeekIsRight
  <2>7. b2 \in Buffers /\ b2.pos <= Len(b2.data) /\ Len(b2.data) \in {0, Cap}
    BY <2>4, <2>3, SeekIsRight
  <2> QED
    BY <2>1, <2>2, <2>3, <2>5, <2>6, <2>7
<1>10. BufferOK'
  BY <1>9 DEF BufferOK
<1>11. ReadOK(Fork, Position, rd', buf')
  BY <1>9 DEF f, p
<1> QED
  BY <1>1, <1>9, <1>10, <1>11, StillReading

\* BufReader::read gives the next bytes of the span, buffered or not.
LEMMA BufReadKeeps ==
  ASSUME Inv, BufRead
  PROVE  Inv'
<1> DEFINE f == Fork
           p == Position
           c == p + Len(rd.got)
           t == Served
           m == Len(t)
<1>1. /\ rd.need > 0 /\ (Buffered \/ buf.inner + Asked <= DiskSize) /\ UNCHANGED <<fds, call>>
      /\ rd' = [rd EXCEPT !.got = @ \o Served, !.need = @ - Len(Served)]
      /\ buf' = IF Buffered THEN [buf EXCEPT !.pos = @ + Len(Served)]
                ELSE IF rd.need >= Cap THEN [buf EXCEPT !.inner = @ + Asked]
                ELSE [data |-> Disk(buf.inner, Cap), pos |-> Len(Served), inner |-> buf.inner + Cap]
  BY DEF BufRead
<1>2. Reading
  <2>1. NoRead.need = 0
    BY DEF NoRead
  <2> QED
    BY <1>1, <2>1 DEF Inv, ReadingOK
<1>3. /\ f \in Forks /\ p \in Nat /\ ReadOK(f, p, rd, buf)
      /\ rd \in Reads /\ Len(rd.got) + rd.need <= rd.want
      /\ rd.got \in Bytes /\ Len(rd.got) \in Nat /\ rd.need \in Nat
      /\ Agrees(f, p, rd.got) /\ c \in Nat
  BY <1>2, OnFork
<1>4. PICK s \in SpanAt(f, c) : c + rd.need <= s.end /\ AtSpan(buf, s, c)
  BY <1>1, <1>3 DEF ReadOK
<1> HIDE DEF f, p
<1>5. /\ s.addr \in Nat /\ s.begin \in Nat /\ s.end \in Nat
  BY <1>3, <1>4, SpanIs
<1> DEFINE k == s.addr + c - s.begin
<1>6. k \in Int
  BY <1>3, <1>5
<1>7. /\ buf \in Buffers /\ buf.pos <= Len(buf.data) /\ Len(buf.data) \in {0, Cap}
      /\ buf.data \in Bytes /\ buf.pos \in Nat /\ buf.inner \in Nat /\ Len(buf.data) \in Nat
      /\ buf.inner \in 0..DiskSize /\ DiskSize \in Nat /\ Cap \in Nat
  BY LenProperties, Sizes DEF Inv, BufferOK, Buffers, Bytes
<1>8. StandsAt(buf.data, buf.pos, buf.inner, k)
  BY <1>4 DEF AtSpan
<1> HIDE DEF c, k, t, m
<1> DEFINE k2 == k + m
           Right == /\ t \in Bytes /\ m \in Nat /\ m > 0 /\ m <= rd.need /\ Consecutive(t, k)
                    /\ m < rd.need => StandsAt(buf'.data, buf'.pos, buf'.inner, k2)
                    /\ BufferOK'
<1>9. ASSUME Buffered PROVE Right
  <2> DEFINE need == rd.need
             n == Len(buf.data)
             x == buf.pos
             l == Min({need, n - x})
             y == x + l
  <2>1. need \in Nat /\ need > 0 /\ n \in Nat /\ x \in Nat /\ x < n
    BY <1>1, <1>3, <1>7, <1>9 DEF Buffered
  <2>2. t = SubSeq(buf.data, x + 1, y)
    BY <1>9 DEF t, Served, ServedLen
  <2> HIDE DEF need, n, x
  <2>3. l \in Nat /\ l > 0 /\ l <= need /\ y <= n
    BY <2>1, TakeIs
  <2> HIDE DEF l
  <2>4. y \in Nat /\ y >= x
    BY <2>1, <2>3
  <2> DEFINE k3 == k + l
  <2>5. t \in Bytes /\ Len(t) = l /\ Consecutive(t, k) /\ StandsAt(buf.data, y, buf.inner, k3)
    <3>1. y = x + l /\ k3 = k + l
      OBVIOUS
    <3> DEFINE d == buf.data
               i == buf.inner
    <3>2. /\ d \in Bytes /\ i \in Nat /\ StandsAt(d, x, i, k)
          /\ y <= Len(d) /\ t = Slice(d, x, y)
      BY <1>7, <1>8, <2>2, <2>3 DEF n, x, Slice
    <3> HIDE DEF y, d, i, k3
    <3>3. /\ Slice(d, x, y) \in Bytes /\ Len(Slice(d, x, y)) = y - x
          /\ Consecutive(Slice(d, x, y), k) /\ StandsAt(d, y, i, k + (y - x))
      BY <1>6, <2>1, <2>4, <3>2, ServesBuffered
    <3>4. y - x = l /\ k + (y - x) = k3
      BY <1>6, <2>1, <2>3, <3>1
    <3> QED
      BY <3>2, <3>3, <3>4 DEF d, i
  <2>6. m = l
    BY <2>5 DEF m
  <2>7. buf' = [buf EXCEPT !.pos = y]
    BY <1>1, <1>9, <2>6 DEF m, t, x
  <2> HIDE DEF y
  <2>8. buf' \in Buffers /\ buf'.data = buf.data /\ buf'.inner = buf.inner /\ buf'.pos = y
    BY <1>7, <2>4, <2>7 DEF Buffers
  <2>9. BufferOK'
    BY <1>7, <2>3, <2>8 DEF BufferOK, n
  <2>10. StandsAt(buf'.data, buf'.pos, buf'.inner, k2)
    BY <2>5, <2>6, <2>8
  <2> QED
    BY <2>3, <2>5, <2>6, <2>9, <2>10 DEF need
<1>10. ASSUME ~Buffered PROVE Right
  <2> DEFINE need == rd.need
             a == buf.inner
  <2>1. a = k /\ a \in Nat /\ need \in Nat /\ need > 0
    BY <1>1, <1>3, <1>7, <1>8, <1>10 DEF Buffered, StandsAt
  <2>2. ServedLen(rd.need, Asked) = need /\ Asked \in Nat /\ need <= Asked
    <3> DEFINE b == Asked
    <3>1. b \in Nat /\ need <= b
      BY <1>3, <1>7 DEF Asked
    <3> HIDE DEF b, need
    <3>2. Min({need, b}) = need
      <4>1. need \in Int /\ b \in Int
        BY <2>1, <3>1
      <4> QED
        BY <3>1, <4>1, MinOfTwo
    <3> QED
      BY <3>1, <3>2 DEF ServedLen, need, b
  <2>3. t = Disk(a, need)
    BY <1>10, <2>2 DEF t, Served
  <2> HIDE DEF a, need
  <2>4. t \in Bytes /\ Len(t) = need /\ Consecutive(t, k)
    BY <2>1, <2>3, DiskIs DEF Consecutive
  <2>5. m = need /\ m \in Nat /\ m > 0 /\ m <= rd.need /\ ~(m < rd.need)
    BY <2>1, <2>4 DEF m, need
  <2>6. BufferOK'
    <3>1. CASE rd.need >= Cap
      <4>1. Asked = need /\ buf' = [buf EXCEPT !.inner = a + need] /\ a + need <= DiskSize
        BY <1>1, <1>10, <3>1 DEF Asked, need, a
      <4>2. a + need \in 0..DiskSize
        BY <1>7, <2>1, <4>1
      <4>3. buf' \in Buffers /\ buf'.data = buf.data /\ buf'.pos = buf.pos
        BY <1>7, <4>1, <4>2 DEF Buffers
      <4> QED
        BY <1>7, <4>3 DEF BufferOK
    <3>2. CASE ~(rd.need >= Cap)
      <4>1. /\ Asked = Cap /\ a + Cap <= DiskSize
            /\ buf' = [data |-> Disk(a, Cap), pos |-> need, inner |-> a + Cap]
        BY <1>1, <1>10, <2>5, <3>2 DEF Asked, need, a, m, t
      <4>2. a + Cap \in 0..DiskSize /\ need <= Cap
        BY <1>3, <1>7, <2>1, <3>2, <4>1 DEF need
      <4>3. Disk(a, Cap) \in Bytes /\ Len(Disk(a, Cap)) = Cap
        BY <1>7, <2>1, DiskIs
      <4>4. buf' \in Buffers /\ buf'.data = Disk(a, Cap) /\ buf'.pos = need
        BY <2>1, <4>1, <4>2, <4>3 DEF Buffers
      <4> QED
        BY <4>2, <4>3, <4>4 DEF BufferOK
    <3> QED
      BY <3>1, <3>2
  <2> QED
    BY <2>4, <2>5, <2>6
<1>11. Right
  <2> HIDE DEF Right
  <2> QED
    BY <1>9, <1>10
<1>12. PICK r2 : r2 = rd'
  OBVIOUS
<1>13. PICK b2 : b2 = buf'
  OBVIOUS
<1>14. r2 \in Reads /\ TakenOff(rd, t, m, r2) /\ r2.want = rd.want
  <2>1. r2 = [rd EXCEPT !.got = @ \o t, !.need = @ - m]
    BY <1>1, <1>12 DEF t, m
  <2>2. rd.got \o t \in Bytes /\ rd.need - m \in Nat
    BY <1>3, <1>11, ConcatBytes
  <2> QED
    BY <1>3, <2>1, <2>2 DEF Reads, TakenOff
<1>15. m < rd.need => StandsAt(b2.data, b2.pos, b2.inner, k2)
  BY <1>11, <1>13
<1>16. Len(r2.got) + r2.need <= r2.want /\ ReadOK(f, p, r2, b2)
  <2>1. c = p + Len(rd.got) /\ k = s.addr + c - s.begin /\ Len(t) = m /\ k2 = k + m
    BY DEF c, k, m
  <2>2. /\ t \in Bytes /\ m \in Nat /\ m > 0 /\ m <= rd.need /\ Consecutive(t, k)
    BY <1>11
  <2> HIDE DEF Right, k2
  <2> QED
    BY <1>3, <1>4, <1>6, <1>14, <1>15, <2>1, <2>2, GotMore
<1>17. BufferOK'
  BY <1>11
<1>18. /\ rd' \in Reads /\ rd'.want = rd.want /\ Len(rd'.got) + rd'.need <= rd'.want
       /\ ReadOK(Fork, Position, rd', buf')
  BY <1>12, <1>13, <1>14, <1>16 DEF f, p
<1> QED
  BY <1>1, <1>2, <1>17, <1>18, StillReading

\* The path is found: the handle goes to the lowest free slot.
LEMMA FoundKeeps ==
  ASSUME Inv, Found
  PROVE  Inv'
<1>1. /\ call.stage = "catalog" /\ UNCHANGED buf /\ rd' = NoRead
      /\ fds' = IF call.op = "open" THEN Installed(fds, call.name) ELSE fds
      /\ call' = [call EXCEPT !.stage = "returned", !.mem = <<>>]
  BY DEF Found, Return
<1>2. call \in Calls /\ call.op \in {"open", "stat"} /\ call.name \in Names /\ HandlesOK /\ BufferOK
  BY <1>1 DEF Inv, CallOK
<1>3. /\ call' \in Calls /\ call'.stage = "returned" /\ call'.op \in {"open", "stat"}
  <2>1. <<>> \in Bytes
    BY DEF Bytes
  <2> QED
    BY <1>1, <1>2, <2>1 DEF Calls
<1>4. HandlesOK'
  <2> DEFINE free == Fds \ DOMAIN fds
             m == Min(free)
             x == Handle(call.name)
  <2>1. CASE fds' = fds
    BY <1>2, <2>1 DEF HandlesOK
  <2>2. CASE fds' # fds
    <3>1. free # {} /\ fds' = [y \in DOMAIN fds \cup {m} |-> IF y \in DOMAIN fds THEN fds[y] ELSE x]
      BY <1>1, <2>2 DEF Installed
    <3>2. m \in free
      <4>1. free \in SUBSET Nat
        BY Sizes
      <4> HIDE DEF free
      <4> QED
        BY <3>1, <4>1, MinIsIn
    <3>3. x \in Handles /\ GoodHandle(x)
      BY <1>2, NewHandles
    <3> HIDE DEF m, x
    <3>4. m \in Fds
      BY <3>2
    <3> HIDE DEF free
    <3>5. DOMAIN fds' = DOMAIN fds \cup {m} /\ DOMAIN fds' \subseteq Fds
      BY <1>2, <3>1, <3>4 DEF HandlesOK
    <3>6. \A y \in DOMAIN fds' : fds'[y] \in Handles /\ GoodHandle(fds'[y])
      <4> SUFFICES ASSUME NEW y \in DOMAIN fds' PROVE fds'[y] \in Handles /\ GoodHandle(fds'[y])
        OBVIOUS
      <4>1. CASE y \in DOMAIN fds
        BY <1>2, <3>1, <3>5, <4>1 DEF HandlesOK
      <4>2. CASE y \notin DOMAIN fds
        <5>1. fds'[y] = x
          BY <3>1, <3>5, <4>2
        <5> QED
          BY <3>3, <5>1
      <4> QED
        BY <4>1, <4>2
    <3>7. fds' = [y \in DOMAIN fds' |-> fds'[y]]
      BY <3>1, <3>5
    <3> QED
      BY <3>5, <3>6, <3>7 DEF HandlesOK
  <2> QED
    BY <2>1, <2>2
<1>5. BufferOK'
  BY <1>1, <1>2 DEF BufferOK
<1>6. ReadGivesFileBytes' /\ RegionHoldsFile'
  BY <1>3 DEF ReadGivesFileBytes, RegionHoldsFile, Returned
<1> QED
  BY <1>1, <1>3, <1>4, <1>5, <1>6, Returns

\* The catalog cannot be read.
LEMMA NotFoundKeeps ==
  ASSUME Inv, NotFound
  PROVE  Inv'
<1>1. /\ call.stage = "catalog" /\ DeviceFails /\ UNCHANGED fds /\ rd' = NoRead
      /\ call' = [call EXCEPT !.stage = "returned", !.mem = <<>>]
  BY DEF NotFound, Return
<1>2. call \in Calls /\ call.op \in {"open", "stat"} /\ HandlesOK
  BY <1>1 DEF Inv, CallOK
<1>3. /\ call' \in Calls /\ call'.stage = "returned" /\ call'.op \in {"open", "stat"}
  <2>1. <<>> \in Bytes
    BY DEF Bytes
  <2> QED
    BY <1>1, <1>2, <2>1 DEF Calls
<1>4. HandlesOK'
  BY <1>1, <1>2 DEF HandlesOK
<1>5. BufferOK'
  BY <1>1, FailKeepsBuffer
<1>6. ReadGivesFileBytes' /\ RegionHoldsFile'
  BY <1>3 DEF ReadGivesFileBytes, RegionHoldsFile, Returned
<1> QED
  BY <1>1, <1>3, <1>4, <1>5, <1>6, Returns

\* Eret: the call is over.
LEMMA EretKeeps ==
  ASSUME Inv, Eret
  PROVE  Inv'
<1>1. /\ call.stage = "returned" /\ UNCHANGED <<fds, buf, rd>>
      /\ call' = [Idle EXCEPT !.count = call.count]
  BY DEF Eret
<1>2. call \in Calls /\ Idle \in Calls /\ rd = NoRead
  <2>1. call \in Calls /\ (~Reading => rd = NoRead)
    BY DEF Inv, CallOK, ReadingOK
  <2>2. ~Reading
    BY <1>1 DEF Reading
  <2> QED
    BY <2>1, <2>2, NewCall
<1>3. call' \in Calls /\ call'.stage = "none" /\ call'.op = "idle"
  BY <1>1, <1>2 DEF Calls, Idle
<1>4. HandlesOK' /\ BufferOK'
  BY <1>1 DEF Inv, HandlesOK, BufferOK
<1>5. CallOK'
  BY <1>3 DEF CallOK, FileStages
<1>6. ReadingOK'
  <2>1. ~Reading'
    BY <1>3 DEF Reading
  <2>2. rd \in Reads /\ Len(rd.got) + rd.need <= rd.want
    BY DEF Inv, ReadingOK
  <2> QED
    BY <1>1, <1>2, <2>1, <2>2 DEF ReadingOK
<1>7. ReadGivesFileBytes' /\ RegionHoldsFile'
  BY <1>3 DEF ReadGivesFileBytes, RegionHoldsFile, Returned
<1> QED
  BY <1>4, <1>5, <1>6, <1>7 DEF Inv

\* What a step within Fork::read keeps of its call.
SameCall(c, d) ==
  /\ d.fd = c.fd /\ d.op = c.op /\ d.was = c.was /\ d.mem = c.mem /\ d.len = c.len
  /\ d.offset = c.offset
SameFailed(c, d) == d.failed = c.failed

\* While a compressed file is read, nothing is promised that could be broken.
LEMMA PromiseWhileRaw ==
  ASSUME NEW f, NEW c, NEW d, NEW x, NEW y, Promise(f, c, x), x.cache = {}, y.cache = {},
         c.stage # "enter", f.kind # "plain", SameCall(c, d), SameFailed(c, d),
         d.stage = "unpack"
  PROVE  Promise(f, d, y)
<1>1. CASE c.op = "region"
  <2>1. Len(c.mem) < c.len /\ RegionPromise(f, c, x)
    BY <1>1 DEF Promise
  <2>2. ~(~c.failed /\ (f.kind = "plain" \/ c.was.cache = {Contents(f)}))
    <3> SUFFICES ASSUME ~c.failed, c.was.cache = {Contents(f)} PROVE FALSE
      OBVIOUS
    <3>1. x.cache = {Contents(f)}
      BY <2>1 DEF RegionPromise
    <3> QED
      BY <3>1
  <2>3. RegionPromise(f, d, y)
    BY <2>2 DEF RegionPromise, SameCall, SameFailed
  <2> QED
    BY <1>1, <2>1, <2>3 DEF Promise, SameCall
<1>2. CASE c.op # "region"
  <2>1. c.mem = <<>> /\ ReadPromise(f, c, x)
    BY <1>2 DEF Promise
  <2>2. c.was.cache = {}
    BY <2>1 DEF ReadPromise
  <2>3. ReadPromise(f, d, y)
    BY <2>2 DEF ReadPromise, SameCall
  <2> QED
    BY <1>2, <2>1, <2>3 DEF Promise, SameCall
<1> QED
  BY <1>1, <1>2

\* The file passes for plain: the magic is not there.
LEMMA HeaderPlainKeeps ==
  ASSUME Inv, HeaderPlain
  PROVE  Inv'
<1>1. /\ Done /\ call.stage = "header" /\ (Len(rd.got) < Header \/ File.kind = "plain")
      /\ UNCHANGED <<fds, buf>>
      /\ call' = [call EXCEPT !.stage = "data"] /\ rd' = [NoRead EXCEPT !.want = ReadLen]
  BY DEF HeaderPlain, ReadInternal
<1>2. call.stage \in FileStages /\ Reading
  BY <1>1 DEF FileStages, Reading
<1>3. /\ h \in Handles /\ GoodHandle(h) /\ StageOK(File, call, h, rd) /\ Promise(File, call, h)
      /\ h = fds[call.fd] /\ call.fd \in DOMAIN fds /\ File \in Forks
      /\ Fork = File /\ Position = h.pos
  BY <1>2, OnFile
<1>4. call \in Calls /\ HandlesOK /\ BufferOK
  BY DEF Inv, CallOK
<1>5. h.cache = {} /\ h.pos = 0 /\ rd.want = Header
  BY <1>1, <1>3 DEF StageOK
<1>6. File.kind = "plain"
  <2> SUFFICES ASSUME File.kind # "plain" PROVE FALSE
    OBVIOUS
  <2> DEFINE z == File.size
             l == Len(rd.got)
  <2>1. z \in Nat /\ z >= Header
    BY <1>3, ForkSize, ForkIsSound
  <2>2. l < Header /\ l \in Nat /\ Header \in Nat
    BY <1>1, <1>2, OnFork, Sizes
  <2>3. l = Header \/ z <= 0 + l
    BY <1>1, <1>3, <1>5, DoneIs
  <2> HIDE DEF z, l
  <2> QED
    BY <2>1, <2>2, <2>3
<1>7. /\ call' \in Calls /\ call'.stage = "data" /\ call'.fd = call.fd /\ call'.op = call.op
      /\ call'.was = call.was /\ call'.raw = call.raw /\ call'.mem = call.mem
      /\ call'.failed = call.failed /\ call'.len = call.len /\ call'.offset = call.offset
  BY <1>1, <1>4 DEF Calls
<1>8. rd' \in Reads /\ rd'.got = <<>> /\ rd'.need = 0 /\ rd'.want = DataWant(call)
  BY <1>1, <1>2, ReadLenIs, FreshRead
<1>9. fds' = [fds EXCEPT ![call.fd] = h]
  BY <1>1, <1>3, <1>4 DEF HandlesOK
<1>10. BufferOK'
  BY <1>1, <1>4 DEF BufferOK
<1>11. StageOK(File, call', h, rd')
  <2>1. DataWant(call') = DataWant(call)
    BY <1>7 DEF DataWant
  <2> QED
    BY <1>5, <1>7, <1>8, <2>1 DEF StageOK
<1>12. Promise(File, call', h)
  <2>1. CASE call.op = "region"
    <3>1. Len(call.mem) < call.len /\ RegionPromise(File, call, h)
      BY <1>3, <2>1 DEF Promise
    <3>2. RegionPromise(File, call', h)
      BY <1>7, <3>1 DEF RegionPromise
    <3> QED
      BY <1>7, <2>1, <3>1, <3>2 DEF Promise
  <2>2. CASE call.op # "region"
    <3>1. call.mem = <<>> /\ ReadPromise(File, call, h)
      BY <1>3, <2>2 DEF Promise
    <3>2. call.was.cache = {}
      BY <1>1, <3>1 DEF ReadPromise
    <3>3. ReadPromise(File, call', h)
      BY <1>6, <1>7, <3>1, <3>2 DEF ReadPromise
    <3> QED
      BY <1>7, <2>2, <3>1, <3>3 DEF Promise
  <2> QED
    BY <2>1, <2>2
<1>13. call'.stage \in FileStages /\ call'.stage # "enter"
  BY <1>7 DEF FileStages
<1> QED
  BY <1>2, <1>3, <1>7, <1>8, <1>9, <1>10, <1>11, <1>12, <1>13, GoesOn

\* The next read of the plan, from the place the plan says.
LEMMA NextReadKeeps ==
  ASSUME Inv, call.stage \in {"header", "unpack"}, UNCHANGED buf, File.kind # "plain",
         NEW k \in 1..Len(Plan(File)), NextRead(k),
         call' \in Calls, call'.stage = "unpack", call'.step = k,
         call'.raw = Gathered(File)[k - 1], SameCall(call, call'), SameFailed(call, call')
  PROVE  Inv'
<1> DEFINE f == File
           at == Plan(f)[k].at
           y == [h EXCEPT !.pos = at]
<1>1. call.stage \in FileStages /\ call'.stage \in FileStages
  BY DEF FileStages
<1>2. /\ h \in Handles /\ GoodHandle(h) /\ StageOK(f, call, h, rd) /\ Promise(f, call, h)
      /\ h = fds[call.fd] /\ call.fd \in DOMAIN fds /\ f \in Forks /\ FileHandle(f, h)
      /\ h.name \in Names
  BY <1>1, OnFile
<1>3. h.cache = {}
  BY <1>2 DEF StageOK
<1>4. fds' = [fds EXCEPT ![call.fd].pos = at] /\ rd' = [NoRead EXCEPT !.want = Plan(f)[k].len]
  BY DEF NextRead
<1>5. fds' = [fds EXCEPT ![call.fd] = y]
  BY <1>2, <1>4
<1> HIDE DEF f
<1>6. /\ at \in Nat /\ at <= f.size /\ Plan(f)[k].len \in Nat
  BY <1>2, PlanStep DEF f
<1>7. h.size = f.size
  BY <1>2, <1>3, HandleFits
<1>8. y \in Handles /\ GoodHandle(y) /\ y.name = h.name /\ y.cache = {} /\ y.pos = at
  <2> DEFINE n == at
  <2>1. n \in Nat /\ n <= h.size /\ y = [h EXCEPT !.pos = n]
    BY <1>6, <1>7
  <2> HIDE DEF n, y, at
  <2>2. y \in Handles /\ GoodHandle(y) /\ y.name = h.name /\ y.cache = h.cache /\ y.pos = n
    BY <1>2, <2>1, SeekHandle
  <2> QED
    BY <1>3, <2>2 DEF n
<1>9. rd' \in Reads /\ rd'.got = <<>> /\ rd'.need = 0 /\ rd'.want = Plan(f)[k].len
  BY <1>4, <1>6, FreshRead
<1>10. BufferOK'
  BY DEF Inv, BufferOK
<1>11. call'.raw = Gathered(f)[k - 1] /\ k \in 1..Len(Plan(f)) /\ f.kind # "plain"
  BY DEF f
<1> HIDE DEF y
<1>12. StageOK(f, call', y, rd')
  <2>1. CASE Plan(f)[k].mode = "toend"
    <3>1. SubSeq(ForkBytes(f), at + 1, y.pos) = <<>>
      BY <1>6, <1>8, SubSeqNone
    <3>2. Gathered(f)[k - 1] \o <<>> = Gathered(f)[k - 1]
      <4>1. k - 1 \in 0..Len(Plan(f))
        BY <1>11
      <4>2. Gathered(f)[k - 1] \in Seq(Int)
        BY <1>2, <1>11, <4>1, GatheredIs DEF Bytes
      <4> QED
        BY <4>2, ConcatEmptySeq
    <3>3. at <= y.pos
      BY <1>6, <1>8
    <3>4. UnpackOK(f, call', y, rd')
      BY <1>9, <1>11, <2>1, <3>1, <3>2, <3>3 DEF UnpackOK
    <3> QED
      BY <1>8, <3>4 DEF StageOK
  <2>2. CASE Plan(f)[k].mode # "toend"
    <3>1. UnpackOK(f, call', y, rd')
      BY <1>8, <1>9, <1>11, <2>2 DEF UnpackOK
    <3> QED
      BY <1>8, <3>1 DEF StageOK
  <2> QED
    BY <2>1, <2>2
<1>13. Promise(f, call', y)
  BY <1>2, <1>3, <1>8, <1>11, PromiseWhileRaw
<1>14. call'.fd = call.fd /\ call'.op = call.op /\ call'.was = call.was
  BY DEF SameCall
<1>15. StageOK(File, call', y, rd') /\ Promise(File, call', y)
  BY <1>12, <1>13 DEF f
<1> QED
  BY <1>1, <1>5, <1>8, <1>9, <1>10, <1>14, <1>15, GoesOn

\* The header has the magic: the plan's first read.
LEMMA HeaderCompressedKeeps ==
  ASSUME Inv, HeaderCompressed
  PROVE  Inv'
<1>1. /\ call.stage = "header" /\ File.kind # "plain" /\ UNCHANGED buf /\ NextRead(1)
      /\ call' = [call EXCEPT !.stage = "unpack", !.step = 1]
  BY DEF HeaderCompressed
<1>2. PICK k \in Nat : k = 1
  OBVIOUS
<1>3. call.stage \in FileStages
  BY <1>1 DEF FileStages
<1>4. call \in Calls /\ File \in Forks /\ call.raw = <<>>
  BY <1>1, <1>3, OnFile DEF Inv, CallOK, StageOK
<1>5. call' \in Calls /\ call'.stage = "unpack" /\ call'.step = k
      /\ SameCall(call, call') /\ SameFailed(call, call') /\ call'.raw = <<>>
  BY <1>1, <1>2, <1>4 DEF Calls, SameCall, SameFailed
<1>6. k \in 1..Len(Plan(File)) /\ Gathered(File)[k - 1] = <<>>
  BY <1>1, <1>2, <1>4, GatheredIs
<1>7. NextRead(k)
  BY <1>1, <1>2
<1> QED
  BY <1>1, <1>5, <1>6, <1>7, NextReadKeeps

\* decompressed_cache and logical_size are set.
Holding(x, c, z) == [x EXCEPT !.pos = 0, !.cache = {c}, !.size = z]

\* A handle that is given its contents is a handle, from its start.
LEMMA CacheSet ==
  ASSUME NEW x \in Handles, NEW c \in Bytes, NEW z \in Nat
  PROVE  /\ Holding(x, c, z) \in Handles /\ Holding(x, c, z).name = x.name
         /\ Holding(x, c, z).pos = 0 /\ Holding(x, c, z).cache = {c}
         /\ Holding(x, c, z).size = z
<1> DEFINE S == {c}
           y == [x EXCEPT !.pos = 0, !.cache = S, !.size = z]
<1>1. S \in SUBSET Bytes
  OBVIOUS
<1> HIDE DEF S
<1>2. y \in Handles /\ y.name = x.name /\ y.pos = 0 /\ y.cache = S /\ y.size = z
  BY <1>1 DEF Handles
<1>3. Holding(x, c, z) = y
  BY DEF Holding, S
<1> HIDE DEF y
<1> QED
  BY <1>2, <1>3 DEF S

\* The contents are set: the start of the file's, and all of it where nothing
\* failed.
LEMMA UnpackKeeps ==
  ASSUME Inv, call.stage = "unpack", BufferOK', rd' = NoRead,
         NEW raw \in Bytes, NEW rest \in Bytes,
         raw \o rest = Gathered(File)[Len(Plan(File))],
         NEW z, z \in {Len(Unpacked(File, raw)), Len(Contents(File))},
         NEW y, y = Holding(h, Unpacked(File, raw), z),
         fds' = [fds EXCEPT ![call.fd] = y],
         call' \in Calls, call'.stage = "enter", SameCall(call, call'),
         ~call'.failed => ~call.failed /\ rest = <<>>
  PROVE  Inv'
<1> DEFINE f == File
           out == Unpacked(f, raw)
<1>1. call.stage \in FileStages /\ call'.stage \in FileStages
  BY DEF FileStages
<1>2. /\ h \in Handles /\ StageOK(f, call, h, rd) /\ Promise(f, call, h)
      /\ f \in Forks /\ h.name \in Names /\ f = Volume[h.name]
  BY <1>1, OnFile DEF File
<1>3. h.cache = {} /\ f.kind # "plain"
  BY <1>2 DEF StageOK, UnpackOK
<1> HIDE DEF f
<1>4. raw \o rest = Gathered(f)[Len(Plan(f))]
  BY DEF f
<1>5. Contents(f) = Unpacked(f, raw \o rest) /\ Contents(f) \in Bytes /\ Len(Contents(f)) \in Nat
  BY <1>2, <1>3, <1>4, GatheredIs, ContentsAre
<1>6. out \in Bytes /\ IsPrefix(out, Contents(f)) /\ Len(out) \in Nat
  <2>1. out \in Bytes /\ IsPrefix(out, Unpacked(f, raw \o rest))
    BY UnpackedIs
  <2>2. Len(out) \in Nat
    BY <2>1, LenProperties DEF Bytes
  <2> QED
    BY <1>5, <2>1, <2>2
<1>7. ~call'.failed => out = Contents(f)
  <2>1. raw \o <<>> = raw
    BY ConcatEmptySeq DEF Bytes
  <2> QED
    BY <1>5, <2>1
<1>8. y = Holding(h, out, z) /\ z \in {Len(out), Len(Contents(f))}
  BY DEF f
<1> HIDE DEF out
<1>9. /\ y \in Handles /\ y.name = h.name /\ y.pos = 0 /\ y.cache = {out}
      /\ y.size \in {Len(out), Len(Contents(f))}
  <2>1. z \in Nat
    BY <1>5, <1>6, <1>8
  <2>2. /\ Holding(h, out, z) \in Handles /\ Holding(h, out, z).name = h.name
        /\ Holding(h, out, z).pos = 0 /\ Holding(h, out, z).cache = {out}
        /\ Holding(h, out, z).size = z
    BY <1>2, <1>6, <2>1, CacheSet
  <2> QED
    BY <1>8, <2>2
<1>10. CachedHandle(f, y)
  <2>1. y.pos <= Len(Contents(f)) /\ out \in y.cache
    BY <1>5, <1>9
  <2> QED
    BY <1>3, <1>6, <1>9, <2>1 DEF CachedHandle
<1>11. y.cache # {}
  BY <1>9
<1>12. GoodHandle(y)
  BY <1>2, <1>9, <1>10, <1>11 DEF GoodHandle, FileHandle
<1>13. StageOK(File, call', y, rd')
  BY <1>11 DEF StageOK
<1>14. Promise(f, call', y)
  <2>1. CASE call.op = "region"
    <3>1. Len(call.mem) < call.len /\ RegionPromise(f, call, h)
      BY <1>2, <2>1 DEF Promise
    <3>2. ~(~call'.failed /\ (f.kind = "plain" \/ call'.was.cache = {Contents(f)}))
      <4> SUFFICES ASSUME ~call'.failed, call'.was.cache = {Contents(f)} PROVE FALSE
        BY <1>3
      <4>1. ~call.failed /\ call.was.cache = {Contents(f)}
        BY DEF SameCall
      <4>2. h.cache = {Contents(f)}
        BY <3>1, <4>1 DEF RegionPromise
      <4> QED
        BY <1>3, <4>2
    <3>3. RegionPromise(f, call', y)
      BY <3>2 DEF RegionPromise
    <3> QED
      BY <2>1, <3>1, <3>3 DEF Promise, SameCall
  <2>2. CASE call.op # "region"
    <3>1. call.mem = <<>> /\ ReadPromise(f, call, h)
      BY <1>2, <2>2 DEF Promise
    <3>2. call'.was.cache = {}
      BY <3>1 DEF ReadPromise, SameCall
    <3>3. ReadPromise(f, call', y)
      BY <1>3, <1>7, <1>9, <3>2 DEF ReadPromise
    <3> QED
      BY <2>2, <3>1, <3>3 DEF Promise, SameCall
  <2> QED
    BY <2>1, <2>2
<1>15. Promise(File, call', y)
  BY <1>14 DEF f
<1>16. rd' \in Reads /\ rd'.got = <<>> /\ rd'.need = 0
  BY FreshRead
<1>17. call'.fd = call.fd /\ call'.op = call.op /\ call'.was = call.was
  BY DEF SameCall
<1> QED
  BY <1>1, <1>9, <1>12, <1>13, <1>15, <1>16, <1>17, GoesOn

\* A read of the plan that is not to the end gives all of its part.
LEMMA StepReadKeeps ==
  ASSUME Inv, StepRead
  PROVE  Inv'
<1> DEFINE f == File
           k == call.step
           N == Len(Plan(f))
           raw == IF Step.data THEN call.raw \o rd.got ELSE call.raw
           z2 == IF InResource(f) THEN Len(Unpacked(f, raw)) ELSE Len(Contents(f))
           y == Holding(h, Unpacked(f, raw), z2)
<1>1. /\ Done /\ call.stage = "unpack" /\ Step.mode # "toend" /\ UNCHANGED buf
      /\ IF k = N
         THEN /\ fds' = [fds EXCEPT ![call.fd] = y] /\ rd' = NoRead
              /\ call' = [call EXCEPT !.stage = "enter", !.failed = @ \/ FALSE]
         ELSE /\ call' = [call EXCEPT !.step = @ + 1, !.raw = raw]
              /\ NextRead(k + 1)
  BY DEF StepRead, Unpack, Holding
<1>2. call.stage \in FileStages /\ Reading
  BY <1>1 DEF FileStages, Reading
<1>3. /\ h \in Handles /\ StageOK(f, call, h, rd) /\ f \in Forks /\ FileHandle(f, h)
      /\ Fork = f /\ Position = h.pos /\ call \in Calls
  BY <1>2, OnFile DEF Inv, CallOK
<1>4. /\ h.cache = {} /\ UnpackOK(f, call, h, rd) /\ f.kind # "plain"
      /\ k \in 1..N /\ Step = Plan(f)[k]
  BY <1>1, <1>3 DEF StageOK, UnpackOK, Step
<1>5. /\ h.pos = Plan(f)[k].at /\ call.raw = Gathered(f)[k - 1] /\ rd.want = Plan(f)[k].len
  BY <1>1, <1>4 DEF UnpackOK
<1> HIDE DEF f, k, N, y, z2
<1> DEFINE at == Plan(f)[k].at
           n == Plan(f)[k].len
           l == Len(rd.got)
           z == f.size
<1>6. at \in Nat /\ n \in Nat /\ at + n <= z /\ z \in Nat /\ at <= z
  BY <1>1, <1>3, <1>4, PlanStep, ForkSize DEF N
<1>7. rd.got \in Bytes /\ Agrees(f, at, rd.got) /\ l \in Nat /\ l <= n
  <2>1. /\ rd.got \in Bytes /\ Agrees(Fork, Position, rd.got) /\ l \in Nat
        /\ rd.need \in Nat /\ l + rd.need <= rd.want
    BY <1>2, OnFork
  <2> HIDE DEF l, n, at
  <2>2. l <= rd.want /\ rd.want = n
    BY <1>5, <1>6, <2>1 DEF n
  <2> QED
    BY <1>3, <1>5, <2>1, <2>2 DEF at
<1>8. rd.got = SubSeq(ForkBytes(f), at + 1, at + l) /\ at + l <= z
  <2> HIDE DEF at
  <2> QED
    BY <1>3, <1>6, <1>7, GotIs
<1>9. l = n
  <2>1. l = n \/ z <= at + l
    BY <1>1, <1>3, <1>5, DoneIs
  <2> HIDE DEF l, n, at, z
  <2> QED
    BY <1>6, <1>7, <1>8, <2>1
<1>10. raw = Gathered(f)[k]
  <2>1. Gathered(f)[k] = Gathered(f)[k - 1] \o DataOf(f, k) /\ Gathered(f)[k - 1] \in Seq(Int)
    <3>1. N \in Nat
      BY <1>3, <1>4, GatheredIs DEF N
    <3>2. k - 1 \in 0..N
      BY <1>4, <3>1
    <3> QED
      BY <1>3, <1>4, <3>2, GatheredIs DEF N, Bytes
  <2>2. CASE Plan(f)[k].data
    <3>1. DataOf(f, k) = SubSeq(ForkBytes(f), at + 1, PartEnd(f, k))
      BY <1>3, <1>4, <2>2, DataOfIs DEF N
    <3>2. PartEnd(f, k) = at + n
      BY <1>1, <1>4 DEF PartEnd
    <3> HIDE DEF at, l, n
    <3>3. DataOf(f, k) = rd.got
      BY <1>8, <1>9, <3>1, <3>2
    <3> QED
      BY <1>4, <1>5, <2>1, <2>2, <3>3
  <2>3. CASE ~Plan(f)[k].data
    <3>1. DataOf(f, k) = <<>>
      BY <1>3, <1>4, <2>3, DataOfIs DEF N
    <3>2. Gathered(f)[k - 1] \o <<>> = Gathered(f)[k - 1]
      BY <2>1, ConcatEmptySeq
    <3> QED
      BY <1>4, <1>5, <2>1, <2>3, <3>1, <3>2
  <2> QED
    BY <2>2, <2>3
<1>11. raw \in Bytes
  BY <1>3, <1>4, <1>10, GatheredIs DEF N
<1> HIDE DEF raw, at, n, l, z
<1>12. CASE k = N
  <2> DEFINE v == call.failed \/ FALSE
  <2>1. /\ fds' = [fds EXCEPT ![call.fd] = y] /\ rd' = NoRead
        /\ call' = [call EXCEPT !.stage = "enter", !.failed = v]
    BY <1>1, <1>12
  <2>2. v \in BOOLEAN /\ (~v => ~call.failed)
    OBVIOUS
  <2> HIDE DEF v
  <2>3. /\ call' \in Calls /\ call'.stage = "enter" /\ SameCall(call, call') /\ call'.failed = v
    BY <1>3, <2>1, <2>2 DEF Calls, SameCall
  <2>4. raw \o <<>> = Gathered(File)[Len(Plan(File))] /\ <<>> \in Bytes
    <3>1. raw \o <<>> = raw /\ <<>> \in Bytes
      BY <1>11, ConcatEmptySeq, EmptySeq DEF Bytes
    <3> QED
      BY <1>10, <1>12, <3>1 DEF f, N
  <2>5. y = Holding(h, Unpacked(File, raw), z2)
        /\ z2 \in {Len(Unpacked(File, raw)), Len(Contents(File))}
    BY DEF y, f, raw, z2
  <2>6. BufferOK'
    BY <1>1 DEF Inv, BufferOK
  <2>7. ~call'.failed => ~call.failed
    BY <2>2, <2>3
  <2> QED
    BY <1>1, <1>11, <2>1, <2>3, <2>4, <2>5, <2>6, <2>7, UnpackKeeps
<1>13. CASE k # N
  <2> DEFINE j == k + 1
  <2>1. call' = [call EXCEPT !.step = j, !.raw = raw] /\ NextRead(j)
    BY <1>1, <1>13 DEF k, raw
  <2>2. j \in 1..N /\ j - 1 = k /\ j \in Nat
    <3>1. N \in Nat
      BY <1>3, <1>4, GatheredIs DEF N
    <3> QED
      BY <1>4, <1>13, <3>1
  <2> HIDE DEF j
  <2>3. /\ call' \in Calls /\ call'.stage = "unpack" /\ call'.step = j /\ call'.raw = raw
        /\ SameCall(call, call') /\ SameFailed(call, call')
    BY <1>1, <1>3, <1>11, <2>1, <2>2 DEF Calls, SameCall, SameFailed
  <2>4. call'.raw = Gathered(File)[j - 1] /\ j \in 1..Len(Plan(File)) /\ File.kind # "plain"
    BY <1>4, <1>10, <2>2, <2>3 DEF f, N
  <2> QED
    BY <1>1, <2>1, <2>3, <2>4, NextReadKeeps
<1> QED
  BY <1>12, <1>13

\* Where read_to_end is: the bytes before the position are gathered.
LEMMA InToEnd ==
  ASSUME Inv, call.stage = "unpack", Step.mode = "toend"
  PROVE  LET f == File
             at == Plan(f)[call.step].at
             k == call.step
         IN /\ f \in Forks /\ f.kind # "plain" /\ h.cache = {} /\ k \in 1..Len(Plan(f))
            /\ rd.want = Plan(f)[k].len /\ rd.want = Piece /\ k = Len(Plan(f))
            /\ at \in Nat /\ at <= h.pos /\ h.pos \in Nat /\ h.pos <= f.size /\ h.size = f.size
            /\ Gathered(f)[k - 1] \in Bytes /\ ForkBytes(f) \in Bytes
            /\ Len(ForkBytes(f)) = f.size /\ f.size \in Nat
            /\ call.raw = Gathered(f)[k - 1] \o SubSeq(ForkBytes(f), at + 1, h.pos)
            /\ Gathered(f)[k] = Gathered(f)[k - 1] \o SubSeq(ForkBytes(f), at + 1, f.size)
<1> DEFINE f == File
           k == call.step
<1>1. call.stage \in FileStages
  BY DEF FileStages
<1>2. /\ h \in Handles /\ StageOK(f, call, h, rd) /\ f \in Forks /\ FileHandle(f, h)
      /\ call \in Calls
  BY <1>1, OnFile DEF Inv, CallOK
<1>3. /\ h.cache = {} /\ UnpackOK(f, call, h, rd) /\ f.kind # "plain"
      /\ k \in 1..Len(Plan(f)) /\ Step = Plan(f)[k]
  BY <1>2 DEF StageOK, UnpackOK, Step
<1> HIDE DEF f, k
<1>4. /\ Plan(f)[k].mode = "toend" /\ rd.want = Plan(f)[k].len /\ Plan(f)[k].at <= h.pos
      /\ call.raw = Gathered(f)[k - 1] \o SubSeq(ForkBytes(f), Plan(f)[k].at + 1, h.pos)
  BY <1>3 DEF UnpackOK, k
<1>5. /\ Plan(f)[k].at \in Nat /\ k = Len(Plan(f)) /\ Plan(f)[k].data = TRUE
      /\ Plan(f)[k].len = Piece
  BY <1>2, <1>3, <1>4, PlanStep
<1>6. h.pos \in Nat /\ h.pos <= f.size /\ h.size = f.size /\ f.size \in Nat
  BY <1>2, <1>3, HandleFits, ForkSize DEF Handles
<1>7. /\ Gathered(f)[k - 1] \in Bytes
      /\ Gathered(f)[k] = Gathered(f)[k - 1] \o DataOf(f, k)
  <2>1. k - 1 \in 0..Len(Plan(f))
    BY <1>3
  <2> QED
    BY <1>2, <1>3, <2>1, GatheredIs
<1>8. DataOf(f, k) = SubSeq(ForkBytes(f), Plan(f)[k].at + 1, f.size)
  BY <1>4, <1>5 DEF DataOf, PartOf
<1>9. ForkBytes(f) \in Bytes /\ Len(ForkBytes(f)) = f.size
  BY <1>2, ForkBytesAre
<1> QED
  BY <1>2, <1>3, <1>4, <1>5, <1>6, <1>7, <1>8, <1>9 DEF f, k

\* read_to_end has read a piece.
LEMMA ReadToEndMoreKeeps ==
  ASSUME Inv, ReadToEndMore
  PROVE  Inv'
<1> DEFINE f == File
           k == call.step
           at == Plan(f)[k].at
           p == h.pos
           z == f.size
           l == Len(rd.got)
           q == p + l
           y == [h EXCEPT !.pos = q]
           B == ForkBytes(f)
           G == Gathered(f)[k - 1]
<1>1. /\ Done /\ call.stage = "unpack" /\ Step.mode = "toend" /\ UNCHANGED buf
      /\ call' = [call EXCEPT !.raw = call.raw \o rd.got]
      /\ fds' = [fds EXCEPT ![call.fd] = y] /\ rd' = [NoRead EXCEPT !.want = Piece]
  BY DEF ReadToEndMore, Moved
<1>2. call.stage \in FileStages /\ Reading
  BY <1>1 DEF FileStages, Reading
<1>3. /\ h \in Handles /\ GoodHandle(h) /\ h.name \in Names /\ StageOK(f, call, h, rd)
      /\ Promise(f, call, h) /\ Fork = f /\ Position = h.pos /\ call \in Calls
  BY <1>2, OnFile DEF Inv, CallOK
<1>4. /\ f \in Forks /\ f.kind # "plain" /\ h.cache = {} /\ k \in 1..Len(Plan(f))
      /\ Plan(f)[k].len = Piece /\ k = Len(Plan(f))
      /\ at \in Nat /\ at <= p /\ p \in Nat /\ p <= z /\ h.size = z
      /\ G \in Bytes /\ B \in Bytes /\ Len(B) = z /\ z \in Nat
      /\ call.raw = G \o SubSeq(B, at + 1, p)
  BY <1>1, InToEnd
<1>5. Step = Plan(f)[k] /\ Plan(f)[k].mode = "toend"
  BY <1>1 DEF Step
<1>6. rd.got \in Bytes /\ Agrees(f, p, rd.got) /\ l \in Nat
  BY <1>2, <1>3, OnFork
<1> HIDE DEF f, k, B, G
<1>7. rd.got = SubSeq(B, p + 1, q) /\ q <= z
  <2> HIDE DEF p
  <2> QED
    BY <1>4, <1>6, GotIs DEF B
<1> HIDE DEF l
<1>8. q \in Nat /\ p <= q /\ at <= q
  BY <1>4, <1>6
<1>9. call.raw \o rd.got = G \o SubSeq(B, at + 1, q) /\ call.raw \o rd.got \in Bytes
  <2> HIDE DEF at, p, q, z
  <2>1. /\ SubSeq(B, at + 1, p) \in Bytes /\ SubSeq(B, p + 1, q) \in Bytes
        /\ SubSeq(B, at + 1, p) \o SubSeq(B, p + 1, q) = SubSeq(B, at + 1, q)
    <3>1. SubSeq(B, at + 1, p) \in Bytes
      BY <1>4, SubSeqIs
    <3>2. SubSeq(B, p + 1, q) \in Bytes
      BY <1>6, <1>7
    <3>3. SubSeq(B, at + 1, p) \o SubSeq(B, p + 1, q) = SubSeq(B, at + 1, q)
      BY <1>4, <1>7, <1>8, PartsMeet
    <3> QED
      BY <3>1, <3>2, <3>3
  <2> DEFINE s == SubSeq(B, at + 1, p)
             t == SubSeq(B, p + 1, q)
  <2> HIDE DEF s, t
  <2>2. G \in Seq(Int) /\ s \in Seq(Int) /\ t \in Seq(Int)
    BY <1>4, <2>1 DEF Bytes, s, t
  <2>3. (G \o s) \o t = G \o (s \o t)
    BY <2>2, ConcatsGroup
  <2>4. (G \o s) \o t \in Bytes
    BY <2>2, ConcatBytes DEF Bytes
  <2> QED
    BY <1>4, <1>7, <2>1, <2>3, <2>4 DEF s, t
<1>10. /\ call' \in Calls /\ call'.stage = "unpack" /\ call'.step = k
       /\ call'.raw = call.raw \o rd.got /\ SameCall(call, call') /\ SameFailed(call, call')
  <2> DEFINE r == call.raw \o rd.got
  <2>1. r \in Bytes /\ call' = [call EXCEPT !.raw = r]
    BY <1>1, <1>9
  <2> HIDE DEF r
  <2>2. /\ call' \in Calls /\ call'.stage = "unpack" /\ call'.step = call.step
        /\ call'.raw = r /\ SameCall(call, call') /\ SameFailed(call, call')
    BY <1>1, <1>3, <2>1 DEF Calls, SameCall, SameFailed
  <2> QED
    BY <2>2 DEF r, k
<1>11. y \in Handles /\ GoodHandle(y) /\ y.name = h.name /\ y.cache = {} /\ y.pos = q
  <2>1. q <= h.size /\ y = [h EXCEPT !.pos = q]
    BY <1>4, <1>7
  <2> HIDE DEF q, y
  <2> QED
    BY <1>3, <1>4, <1>8, <2>1, SeekHandle
<1>12. rd' \in Reads /\ rd'.got = <<>> /\ rd'.need = 0 /\ rd'.want = Piece
  BY <1>1, Sizes, FreshRead
<1>13. BufferOK'
  BY <1>1 DEF Inv, BufferOK
<1> HIDE DEF y
<1>14. StageOK(f, call', y, rd')
  <2>1. UnpackOK(f, call', y, rd')
    BY <1>4, <1>5, <1>8, <1>9, <1>10, <1>11, <1>12 DEF UnpackOK, B, G
  <2> QED
    BY <1>10, <1>11, <2>1 DEF StageOK
<1>15. Promise(f, call', y)
  BY <1>1, <1>3, <1>4, <1>10, <1>11, PromiseWhileRaw
<1>16. StageOK(File, call', y, rd') /\ Promise(File, call', y)
  BY <1>14, <1>15 DEF f
<1>17. call'.fd = call.fd /\ call'.op = call.op /\ call'.was = call.was
  BY <1>10 DEF SameCall
<1>18. call'.stage \in FileStages /\ call'.stage # "enter"
  BY <1>10 DEF FileStages
<1> QED
  BY <1>1, <1>2, <1>10, <1>11, <1>12, <1>13, <1>16, <1>17, <1>18, GoesOn

\* read_to_end is at the end: all has been gathered.
LEMMA ReadToEndDoneKeeps ==
  ASSUME Inv, ReadToEndDone
  PROVE  Inv'
<1> DEFINE f == File
           k == call.step
           at == Plan(f)[k].at
           p == h.pos
           z == f.size
           raw == call.raw
           z2 == IF InResource(f) THEN Len(Unpacked(f, raw)) ELSE Len(Contents(f))
           y == Holding(h, Unpacked(f, raw), z2)
           v == call.failed \/ FALSE
<1>1. /\ Done /\ call.stage = "unpack" /\ Step.mode = "toend" /\ UNCHANGED buf
      /\ fds' = [fds EXCEPT ![call.fd] = y] /\ rd' = NoRead /\ Len(rd.got) = 0
      /\ call' = [call EXCEPT !.stage = "enter", !.failed = v]
  BY DEF ReadToEndDone, AtEnd, Unpack, Holding
<1>2. call.stage \in FileStages /\ Reading
  BY <1>1 DEF FileStages, Reading
<1>3. Fork = f /\ Position = h.pos /\ call \in Calls
  BY <1>2, OnFile DEF Inv, CallOK
<1>4. /\ rd.want = Piece /\ k = Len(Plan(f)) /\ p \in Nat /\ p <= z /\ z \in Nat
      /\ call.raw = Gathered(f)[k - 1] \o SubSeq(ForkBytes(f), at + 1, p)
      /\ Gathered(f)[k] = Gathered(f)[k - 1] \o SubSeq(ForkBytes(f), at + 1, z)
  BY <1>1, InToEnd
<1>5. p = z
  <2>1. rd.want # 0
    BY <1>4, Sizes
  <2>2. z <= p + 0
    BY <1>1, <1>3, <2>1, DoneIs
  <2> HIDE DEF p, z
  <2> QED
    BY <1>4, <2>2
<1>6. raw = Gathered(File)[Len(Plan(File))] /\ raw \in Bytes
  BY <1>3, <1>4, <1>5 DEF Calls
<1>7. raw \o <<>> = Gathered(File)[Len(Plan(File))] /\ <<>> \in Bytes
  <2>1. raw \o <<>> = raw /\ <<>> \in Bytes
    BY <1>6, ConcatEmptySeq, EmptySeq DEF Bytes
  <2> QED
    BY <1>6, <2>1
<1>8. v \in BOOLEAN /\ (~v => ~call.failed)
  OBVIOUS
<1>9. y = Holding(h, Unpacked(File, raw), z2) /\ z2 \in {Len(Unpacked(File, raw)), Len(Contents(File))}
  OBVIOUS
<1> HIDE DEF v, y, z2, f
<1>10. call' \in Calls /\ call'.stage = "enter" /\ SameCall(call, call') /\ call'.failed = v
  BY <1>1, <1>3, <1>8 DEF Calls, SameCall
<1>11. BufferOK'
  BY <1>1 DEF Inv, BufferOK
<1>12. ~call'.failed => ~call.failed
  BY <1>8, <1>10
<1> QED
  BY <1>1, <1>6, <1>7, <1>9, <1>10, <1>11, <1>12, UnpackKeeps

\* read_to_end takes an error for the end.
LEMMA ReadToEndFailsKeeps ==
  ASSUME Inv, ReadToEndFails
  PROVE  Inv'
<1> DEFINE f == File
           k == call.step
           at == Plan(f)[k].at
           p == h.pos
           z == f.size
           raw == call.raw
           z2 == IF InResource(f) THEN Len(Unpacked(f, raw)) ELSE Len(Contents(f))
           y == Holding(h, Unpacked(f, raw), z2)
           v == call.failed \/ TRUE
           B == ForkBytes(f)
           G == Gathered(f)[k - 1]
           rest == SubSeq(B, p + 1, z)
<1>1. /\ call.stage = "unpack" /\ Step.mode = "toend" /\ DeviceFails
      /\ fds' = [fds EXCEPT ![call.fd] = y] /\ rd' = NoRead
      /\ call' = [call EXCEPT !.stage = "enter", !.failed = v]
  BY DEF ReadToEndFails, Unpack, Holding
<1>2. call \in Calls
  BY DEF Inv, CallOK
<1>3. /\ f \in Forks /\ k = Len(Plan(f))
      /\ at \in Nat /\ at <= p /\ p \in Nat /\ p <= z /\ z \in Nat
      /\ G \in Bytes /\ B \in Bytes /\ Len(B) = z
      /\ call.raw = G \o SubSeq(B, at + 1, p) /\ Gathered(f)[k] = G \o SubSeq(B, at + 1, z)
  BY <1>1, InToEnd
<1>4. raw \in Bytes
  BY <1>2 DEF Calls
<1> HIDE DEF f, k, B, G
<1>5. rest \in Bytes /\ raw \o rest = Gathered(f)[Len(Plan(f))]
  <2> HIDE DEF at, p, z
  <2>1. /\ SubSeq(B, at + 1, p) \in Bytes /\ SubSeq(B, p + 1, z) \in Bytes
        /\ SubSeq(B, at + 1, p) \o SubSeq(B, p + 1, z) = SubSeq(B, at + 1, z)
    <3>1. z <= Len(B)
      BY <1>3
    <3>2. SubSeq(B, at + 1, p) \in Bytes
      BY <1>3, SubSeqIs
    <3>3. SubSeq(B, p + 1, z) \in Bytes
      BY <1>3, <3>1, SubSeqIs
    <3>4. SubSeq(B, at + 1, p) \o SubSeq(B, p + 1, z) = SubSeq(B, at + 1, z)
      <4>1. at \in Nat /\ p \in Nat /\ z \in Nat /\ at <= p /\ p <= z /\ B \in Bytes
        BY <1>3
      <4> QED
        BY <3>1, <4>1, PartsMeet
    <3> QED
      BY <3>2, <3>3, <3>4
  <2> DEFINE s == SubSeq(B, at + 1, p)
  <2> HIDE DEF s, rest
  <2>2. G \in Seq(Int) /\ s \in Seq(Int) /\ rest \in Seq(Int)
    BY <1>3, <2>1 DEF Bytes, s, rest
  <2>3. (G \o s) \o rest = G \o (s \o rest)
    BY <2>2, ConcatsGroup
  <2> QED
    BY <1>3, <2>1, <2>3 DEF s, rest
<1>6. raw \o rest = Gathered(File)[Len(Plan(File))]
  BY <1>5 DEF f
<1>7. v = TRUE
  OBVIOUS
<1>8. y = Holding(h, Unpacked(File, raw), z2) /\ z2 \in {Len(Unpacked(File, raw)), Len(Contents(File))}
  BY DEF f
<1> HIDE DEF v, y, z2, rest
<1>9. call' \in Calls /\ call'.stage = "enter" /\ SameCall(call, call') /\ call'.failed = v
  <2>1. v \in BOOLEAN
    BY <1>7
  <2> QED
    BY <1>1, <1>2, <2>1 DEF Calls, SameCall
<1>10. BufferOK'
  BY <1>1, FailKeepsBuffer
<1>11. call'.failed
  BY <1>7, <1>9
<1> QED
  BY <1>1, <1>4, <1>5, <1>6, <1>8, <1>9, <1>10, <1>11, UnpackKeeps

\* A chunk of a resource fork cannot be read.
LEMMA ResourceChunkFailsKeeps ==
  ASSUME Inv, ResourceChunkFails
  PROVE  Inv'
<1> DEFINE y == [h EXCEPT !.pos = 0]
<1>1. /\ call.stage = "unpack" /\ DeviceFails /\ fds' = [fds EXCEPT ![call.fd].pos = 0]
      /\ call' = [call EXCEPT !.stage = "data", !.failed = TRUE]
      /\ rd' = [NoRead EXCEPT !.want = ReadLen]
  BY DEF ResourceChunkFails
<1>2. call.stage \in FileStages
  BY <1>1 DEF FileStages
<1>3. /\ h \in Handles /\ GoodHandle(h) /\ h.name \in Names /\ StageOK(File, call, h, rd)
      /\ Promise(File, call, h) /\ h = fds[call.fd] /\ call.fd \in DOMAIN fds /\ call \in Calls
  BY <1>2, OnFile DEF Inv, CallOK
<1>4. h.cache = {} /\ File.kind # "plain"
  BY <1>1, <1>3 DEF StageOK, UnpackOK
<1>5. fds' = [fds EXCEPT ![call.fd] = y]
  BY <1>1, <1>3
<1>6. y \in Handles /\ GoodHandle(y) /\ y.name = h.name /\ y.cache = {} /\ y.pos = 0
  <2>1. PICK n \in Nat : n = 0
    OBVIOUS
  <2>2. n <= h.size /\ y = [h EXCEPT !.pos = n]
    BY <1>3, <2>1 DEF Handles
  <2> HIDE DEF y
  <2> QED
    BY <1>3, <1>4, <2>1, <2>2, SeekHandle
<1>7. /\ call' \in Calls /\ call'.stage = "data" /\ call'.fd = call.fd /\ call'.op = call.op
      /\ call'.was = call.was /\ call'.mem = call.mem
      /\ call'.failed = TRUE /\ call'.len = call.len
  BY <1>1, <1>3 DEF Calls
<1>8. rd' \in Reads /\ rd'.got = <<>> /\ rd'.need = 0 /\ rd'.want = DataWant(call)
  BY <1>1, <1>2, ReadLenIs, FreshRead
<1>9. BufferOK'
  BY <1>1, FailKeepsBuffer
<1> HIDE DEF y
<1>10. StageOK(File, call', y, rd')
  <2>1. DataWant(call') = DataWant(call)
    BY <1>7 DEF DataWant
  <2> QED
    BY <1>6, <1>7, <1>8, <2>1 DEF StageOK
<1>11. Promise(File, call', y)
  <2>1. CASE call.op = "region"
    <3>1. Len(call.mem) < call.len
      BY <1>3, <2>1 DEF Promise
    <3>2. RegionPromise(File, call', y)
      BY <1>7 DEF RegionPromise
    <3> QED
      BY <1>7, <2>1, <3>1, <3>2 DEF Promise
  <2>2. CASE call.op # "region"
    <3>1. call.mem = <<>> /\ ReadPromise(File, call, h)
      BY <1>3, <2>2 DEF Promise
    <3>2. call'.was.cache = {}
      BY <1>1, <1>7, <3>1 DEF ReadPromise
    <3>3. ReadPromise(File, call', y)
      BY <1>4, <1>7, <3>2 DEF ReadPromise
    <3> QED
      BY <1>7, <2>2, <3>1, <3>3 DEF Promise
  <2> QED
    BY <2>1, <2>2
<1>12. call'.stage \in FileStages /\ call'.stage # "enter"
  BY <1>7 DEF FileStages
<1> QED
  BY <1>2, <1>5, <1>6, <1>7, <1>8, <1>9, <1>10, <1>11, <1>12, GoesOn

\* What Fork::read must give a read, by the call with its failures: the bytes
\* at the handle's position, or none after a failure.
ReadRight(f, c, y, data) ==
  f.kind = "plain" \/ c.was.cache = {Contents(f)}
  \/ (c.was.cache = {} /\ c.was.pos = 0 /\ ~c.failed) =>
    LET from == c.was.pos
        n    == Min({c.len, Len(Contents(f)) - from})
    IN \/ data = SubSeq(Contents(f), from + 1, from + n) /\ y.pos = from + n
       \/ c.failed /\ data = <<>> /\ y.pos = from

\* What it must give a mapping: all of the piece.
PieceRight(f, c, x, y, data, n) ==
  ~c.failed /\ (f.kind = "plain" \/ c.was.cache = {Contents(f)}) =>
    /\ y.cache = x.cache /\ y.pos = x.pos + n /\ Len(data) = n
    /\ data = SubSeq(Contents(f), x.pos + 1, x.pos + n)

\* What the caller of Fork::read does with what it gave.
Unread(data) == [i \in 1..ReadLen - Len(data) |-> Junk]
Mapped(data) == (call.mem \o data) \o Unread(data)
GivesBack(now, data) ==
  IF call.op # "region" THEN Return(now, data)
  ELSE IF Len(Mapped(data)) = call.len THEN Return(now, Mapped(data))
  ELSE /\ call' = [now EXCEPT !.mem = Mapped(data), !.stage = "enter", !.raw = <<>>]
       /\ rd' = NoRead

\* A mapping has its piece, and what was not read is as it was allocated.
LEMMA MappedIs ==
  ASSUME Inv, call.stage \in FileStages, call.op = "region",
         NEW data \in Bytes, Len(data) <= ReadLen
  PROVE  /\ Mapped(data) \in Bytes /\ Len(Mapped(data)) = Len(call.mem) + ReadLen
         /\ Len(Mapped(data)) <= call.len
         /\ Len(data) = ReadLen => Mapped(data) = call.mem \o data
<1> DEFINE n == ReadLen
           l == Len(data)
           u == Unread(data)
           m == call.mem
<1>1. /\ n \in Nat /\ m \in Bytes /\ Len(m) \in Nat /\ call.len \in Nat /\ Len(m) + n <= call.len
      /\ l \in Nat /\ l <= n
  BY ReadLenIs, LenProperties DEF Bytes
<1> HIDE DEF n, m
<1>2. u \in Bytes /\ Len(u) = n - l
  <2> DEFINE k == n - l
  <2>1. k \in Nat /\ u = [i \in 1..k |-> Junk] /\ Junk \in Int
    BY <1>1 DEF Unread, Junk, n
  <2> HIDE DEF k, u
  <2>2. u \in Seq(Int) /\ Len(u) = k
    BY <2>1, IsASeq
  <2> QED
    BY <2>2 DEF Bytes, k
<1> HIDE DEF u
<1>3. m \o data \in Bytes /\ Len(m \o data) = Len(m) + l
  BY <1>1, ConcatBytes
<1>4. (m \o data) \o u \in Bytes /\ Len((m \o data) \o u) = (Len(m) + l) + (n - l)
  BY <1>2, <1>3, ConcatBytes
<1>5. Mapped(data) = (m \o data) \o u
  BY DEF Mapped, u, m
<1>6. (Len(m) + l) + (n - l) = Len(m) + n
  BY <1>1
<1>7. l = n => Mapped(data) = m \o data
  <2> SUFFICES ASSUME l = n PROVE (m \o data) \o u = m \o data
    BY <1>5
  <2>1. Len(u) = 0 /\ u \in Seq(Int)
    BY <1>1, <1>2 DEF Bytes
  <2>2. u = <<>>
    BY <2>1, EmptySeq
  <2> QED
    BY <1>3, <2>2, ConcatEmptySeq DEF Bytes
<1> QED
  BY <1>1, <1>4, <1>5, <1>6, <1>7 DEF n, m

\* Fork::read returns to a read or a pread.
LEMMA ReadReturns ==
  ASSUME Inv, call.stage \in FileStages, call.op # "region",
         NEW y \in Handles, GoodHandle(y), y.name = h.name,
         fds' = [fds EXCEPT ![call.fd] = y], BufferOK',
         NEW data \in Bytes, NEW now \in Calls, SameCall(call, now),
         GivesBack(now, data), ReadRight(File, now, y, data)
  PROVE  Inv'
<1>1. /\ call.fd \in DOMAIN fds /\ call.op \in {"read", "pread", "mmap", "region"} /\ h.name \in Names
      /\ File = Volume[h.name] /\ call.was.name = h.name
  BY OnFile DEF File
<1>2. HandlesOK' /\ fds'[call.fd] = y
  <2>1. HandlesOK
    BY DEF Inv
  <2> QED
    BY <1>1, <2>1, WriteHandle
<1>3. call' = [now EXCEPT !.stage = "returned", !.mem = data] /\ rd' = NoRead
  BY DEF GivesBack, Return
<1>4. now.fd = call.fd /\ now.op = call.op
  BY DEF SameCall
<1>5. /\ call' \in Calls /\ call'.stage = "returned" /\ call'.fd = call.fd /\ call'.op = call.op
      /\ call'.was = now.was /\ call'.mem = data /\ call'.failed = now.failed
      /\ call'.len = now.len
  BY <1>3, <1>4 DEF Calls
<1>6. h' = y /\ File' = File
  <2>1. h' = fds'[call'.fd]
    BY DEF h
  <2>2. h' = y
    BY <1>2, <1>5, <2>1
  <2> QED
    BY <1>1, <2>2 DEF File
<1>7. RegionHoldsFile'
  BY <1>5 DEF RegionHoldsFile, Returned
<1>8. Trusted' => \/ File.kind = "plain" \/ now.was.cache = {Contents(File)}
                  \/ now.was.cache = {} /\ now.was.pos = 0 /\ ~now.failed
  <2>1. Handle(h.name).cache = {} /\ Handle(h.name).pos = 0
    BY <1>1, NewHandles
  <2>2. Handle(h'.name) = Handle(h.name)
    BY <1>6
  <2> QED
    BY <1>5, <1>6, <2>1, <2>2 DEF Trusted
<1>9. ReadGivesFileBytes'
  <2> SUFFICES ASSUME Trusted'
               PROVE  LET all  == Contents(File')
                          from == call'.was.pos
                          n    == Min({call'.len, Len(all) - from})
                      IN \/ call'.mem = SubSeq(all, from + 1, from + n) /\ h'.pos = from + n
                         \/ call'.failed /\ call'.mem = <<>> /\ h'.pos = from
    BY DEF ReadGivesFileBytes
  <2> DEFINE all == Contents(File)
             from == now.was.pos
             n == Min({now.len, Len(all) - from})
  <2>1. \/ data = SubSeq(all, from + 1, from + n) /\ y.pos = from + n
        \/ now.failed /\ data = <<>> /\ y.pos = from
    BY <1>8 DEF ReadRight
  <2>2. Contents(File') = all /\ call'.was.pos = from /\ call'.len = now.len
    BY <1>5, <1>6
  <2>3. Min({call'.len, Len(Contents(File')) - call'.was.pos}) = n
    BY <2>2
  <2> HIDE DEF n, all, from
  <2> QED
    BY <1>5, <1>6, <2>1, <2>2, <2>3
<1>10. call'.op # "idle"
  BY <1>1, <1>5
<1> QED
  BY <1>2, <1>3, <1>5, <1>7, <1>9, <1>10, BufferOK', Returns

\* Fork::read returns to a mapping, which ends or goes on with its next piece.
LEMMA PieceReturns ==
  ASSUME Inv, call.stage \in FileStages, call.op = "region",
         NEW y \in Handles, GoodHandle(y), y.name = h.name,
         fds' = [fds EXCEPT ![call.fd] = y], BufferOK',
         NEW data \in Bytes, Len(data) <= ReadLen,
         NEW now \in Calls, SameCall(call, now), ~now.failed => ~call.failed,
         GivesBack(now, data), PieceRight(File, now, h, y, data, ReadLen)
  PROVE  Inv'
<1> DEFINE f == File
           all == Contents(f)
           mem == Mapped(data)
           off == call.offset
           k == Len(call.mem)
           n == ReadLen
           Right == ~now.failed /\ (f.kind = "plain" \/ call.was.cache = {all})
<1>1. /\ call.fd \in DOMAIN fds /\ h.name \in Names /\ f \in Forks
      /\ f = Volume[h.name] /\ call.was.name = h.name /\ Promise(f, call, h)
  BY OnFile DEF File
<1>2. HandlesOK' /\ fds'[call.fd] = y
  <2>1. HandlesOK
    BY DEF Inv
  <2> QED
    BY <1>1, <2>1, WriteHandle
<1>3. /\ mem \in Bytes /\ Len(mem) = k + n /\ Len(mem) <= call.len
      /\ Len(data) = n => mem = call.mem \o data
  BY MappedIs
<1>4. n \in Nat /\ k \in Nat /\ call.len \in Nat /\ off \in Nat /\ call.mem \in Bytes
  BY ReadLenIs
<1>5. /\ now.fd = call.fd /\ now.op = call.op /\ now.was = call.was /\ now.len = call.len
      /\ now.offset = off
  BY DEF SameCall
<1>6. RegionPromise(f, call, h) /\ k < call.len
  BY <1>1 DEF Promise
<1>7. PieceRight(f, now, h, y, data, n)
  OBVIOUS
<1>8. all \in Bytes /\ Len(all) \in Nat
  BY <1>1, ContentsAre
<1> HIDE DEF f, mem, n
<1>9. ASSUME Right
      PROVE  /\ y.cache = call.was.cache /\ y.pos = off + Len(mem)
             /\ mem = SubSeq(all, off + 1, off + Len(mem)) /\ off + call.len <= Len(all)
  <2>1. /\ h.cache = call.was.cache /\ h.pos = off + k
        /\ call.mem = SubSeq(all, off + 1, off + k) /\ off + call.len <= Len(all)
    BY <1>6, <1>9 DEF RegionPromise, Right, f
  <2>2. /\ y.cache = h.cache /\ y.pos = h.pos + n /\ Len(data) = n
        /\ data = SubSeq(all, h.pos + 1, h.pos + n)
    BY <1>5, <1>7, <1>9 DEF PieceRight, Right, f
  <2> DEFINE p == off + k
             q == p + n
  <2>3. p \in Nat /\ q \in Nat /\ off <= p /\ p <= q /\ q = off + Len(mem) /\ q <= Len(all)
    <3>1. q = off + (k + n)
      BY <1>4
    <3>2. off + Len(mem) <= off + call.len
      <4>1. Len(mem) \in Nat
        BY <1>3, <1>4
      <4> QED
        BY <1>3, <1>4, <4>1
    <3> HIDE DEF all
    <3>3. q <= Len(all)
      BY <1>3, <1>4, <1>8, <2>1, <3>1, <3>2
    <3> QED
      BY <1>3, <1>4, <3>1, <3>3
  <2>4. call.mem = SubSeq(all, off + 1, p) /\ data = SubSeq(all, p + 1, q) /\ y.pos = q
    BY <2>1, <2>2
  <2>5. mem = call.mem \o data
    BY <1>3, <2>2
  <2> HIDE DEF p, q, all
  <2>6. mem = SubSeq(all, off + 1, q)
    <3> HIDE DEF off
    <3>1. /\ all \in Bytes /\ off \in Nat /\ p \in Nat /\ q \in Nat
          /\ off <= p /\ p <= q /\ q <= Len(all)
      BY <1>4, <1>8, <2>3
    <3>2. SubSeq(all, off + 1, p) \o SubSeq(all, p + 1, q) = SubSeq(all, off + 1, q)
      BY <3>1, PartsMeet
    <3> QED
      BY <2>4, <2>5, <3>2
  <2>7. off + Len(mem) = q
    BY <2>3
  <2> QED
    BY <2>1, <2>2, <2>4, <2>6, <2>7 DEF all
<1> HIDE DEF all
<1>10. CASE Len(mem) = call.len
  <2>1. call' = [now EXCEPT !.stage = "returned", !.mem = mem] /\ rd' = NoRead
    BY <1>10 DEF GivesBack, Return, mem
  <2>2. /\ call' \in Calls /\ call'.stage = "returned" /\ call'.fd = call.fd
        /\ call'.op = "region" /\ call'.was = call.was /\ call'.mem = mem
        /\ call'.failed = now.failed /\ call'.len = call.len /\ call'.offset = off
    BY <1>3, <1>5, <2>1 DEF Calls
  <2>3. h' = y /\ File' = f
    <3>1. h' = fds'[call'.fd]
      BY DEF h
    <3>2. h' = y
      BY <1>2, <2>2, <3>1
    <3> QED
      BY <1>1, <3>2 DEF File
  <2>4. ReadGivesFileBytes'
    BY <2>2 DEF ReadGivesFileBytes, Returned
  <2>5. RegionHoldsFile'
    <3> SUFFICES ASSUME Trusted', ~call'.failed, File'.kind = "plain" \/ call'.was.cache # {}
                 PROVE  call'.mem = SubSeq(Contents(File'), call'.offset + 1,
                                           call'.offset + call'.len)
      BY DEF RegionHoldsFile
    <3>1. Handle(h.name).cache = {} /\ Handle(h'.name) = Handle(h.name)
      BY <1>1, <2>3, NewHandles
    <3>2. f.kind = "plain" \/ call.was.cache = {all}
      BY <2>2, <2>3, <3>1 DEF Trusted, all
    <3>3. Right
      BY <2>2, <3>2
    <3>4. mem = SubSeq(all, off + 1, off + Len(mem))
      BY <1>9, <3>3
    <3> QED
      BY <1>10, <2>2, <2>3, <3>4 DEF all
  <2> QED
    BY <1>2, <2>1, <2>2, <2>4, <2>5, BufferOK', Returns
<1>11. CASE Len(mem) # call.len
  <2>1. call' = [now EXCEPT !.mem = mem, !.stage = "enter", !.raw = <<>>] /\ rd' = NoRead
    BY <1>11 DEF GivesBack, mem
  <2>2. /\ call' \in Calls /\ call'.stage = "enter" /\ call'.fd = call.fd /\ call'.raw = <<>>
        /\ call'.op = "region" /\ call'.was = call.was /\ call'.mem = mem
        /\ call'.failed = now.failed /\ call'.len = call.len /\ call'.offset = off
    <3>1. <<>> \in Bytes
      BY DEF Bytes
    <3> QED
      BY <1>3, <1>5, <2>1, <3>1 DEF Calls
  <2>3. Len(mem) < call.len
    BY <1>3, <1>4, <1>11
  <2>4. RegionPromise(f, call', y)
    <3> SUFFICES ASSUME ~call'.failed, f.kind = "plain" \/ call'.was.cache = {Contents(f)}
                 PROVE  /\ y.cache = call'.was.cache /\ y.pos = call'.offset + Len(call'.mem)
                        /\ call'.mem = SubSeq(Contents(f), call'.offset + 1,
                                              call'.offset + Len(call'.mem))
                        /\ call'.offset + call'.len <= Len(Contents(f))
      BY DEF RegionPromise
    <3>1. Right
      BY <2>2 DEF all
    <3> QED
      BY <1>9, <2>2, <3>1 DEF all
  <2>5. Promise(File, call', y)
    BY <2>2, <2>3, <2>4 DEF Promise, f
  <2>6. StageOK(File, call', y, rd')
    BY <2>2 DEF StageOK
  <2>7. rd' \in Reads /\ rd'.got = <<>> /\ rd'.need = 0
    BY <2>1, FreshRead
  <2>8. call'.stage \in FileStages /\ call'.op = call.op
    BY <2>2 DEF FileStages
  <2> QED
    BY <2>1, <2>2, <2>5, <2>6, <2>7, <2>8, GoesOn
<1> QED
  BY <1>10, <1>11

\* A copy of at most n bytes from a position.
Copy(s, p, n) == SubSeq(s, p + 1, Min({p + n, Len(s)}))

\* What such a copy holds, and how long it is.
LEMMA CopyIs ==
  ASSUME NEW s \in Bytes, NEW p \in Nat, NEW n \in Nat
  PROVE  /\ Copy(s, p, n) \in Bytes /\ Len(Copy(s, p, n)) \in Nat /\ Len(Copy(s, p, n)) <= n
         /\ p > Len(s) => Len(Copy(s, p, n)) = 0
         /\ p <= Len(s) => /\ p + Len(Copy(s, p, n)) <= Len(s)
                           /\ Copy(s, p, n) = SubSeq(s, p + 1, p + Min({n, Len(s) - p}))
                           /\ Len(Copy(s, p, n)) = Min({n, Len(s) - p})
         /\ p + n <= Len(s) => /\ Len(Copy(s, p, n)) = n
                               /\ Copy(s, p, n) = SubSeq(s, p + 1, p + n)
<1> DEFINE l == Len(s)
           e == Min({p + n, l})
           d == Copy(s, p, n)
<1>1. l \in Nat
  BY LenProperties DEF Bytes
<1>2. d = SubSeq(s, p + 1, e)
  BY DEF Copy
<1> HIDE DEF d, l
<1>3. e = IF p + n <= l THEN p + n ELSE l
  <2>1. p + n \in Int /\ l \in Int
    BY <1>1
  <2> QED
    BY <2>1, MinOfTwo
<1> HIDE DEF e
<1>4. e \in Nat
  BY <1>1, <1>3
<1>5. CASE p > l
  <2>1. e < p + 1 /\ p + 1 \in Int /\ e \in Int
    BY <1>1, <1>3, <1>5
  <2>2. d = <<>>
    BY <1>2, <2>1, SubSeqEmpty
  <2>3. d \in Bytes /\ Len(d) = 0
    BY <2>2, EmptySeq DEF Bytes
  <2>4. ~(p <= l) /\ ~(p + n <= l)
    BY <1>1, <1>5
  <2>5. Len(d) <= n
    BY <2>3
  <2> QED
    BY <2>3, <2>4, <2>5 DEF d, l
<1>6. CASE p <= l
  <2> DEFINE m == Min({n, l - p})
  <2>1. m = IF n <= l - p THEN n ELSE l - p
    <3>1. n \in Int /\ l - p \in Int
      BY <1>1
    <3> QED
      BY <3>1, MinOfTwo
  <2> HIDE DEF m
  <2>2. e = p + m /\ p <= e /\ e <= l /\ m \in Nat /\ m <= n /\ e - p = m
    BY <1>1, <1>3, <1>6, <2>1
  <2>3. d \in Bytes /\ Len(d) = e - p
    BY <1>2, <1>4, <2>2, SubSeqIs DEF l
  <2>4. p + n <= l => m = n
    BY <1>1, <2>1
  <2>5. d = SubSeq(s, p + 1, p + m)
    BY <1>2, <2>2
  <2>6. Len(d) = m /\ p + Len(d) <= l
    BY <2>2, <2>3
  <2>7. ~(p > l)
    BY <1>1, <1>6
  <2>8. /\ d \in Bytes /\ Len(d) \in Nat /\ Len(d) <= n /\ ~(p > l)
        /\ p + Len(d) <= l /\ d = SubSeq(s, p + 1, p + m) /\ Len(d) = m
    BY <2>2, <2>3, <2>5, <2>6, <2>7
  <2>9. p + n <= l => Len(d) = n /\ d = SubSeq(s, p + 1, p + n)
    BY <2>4, <2>5, <2>6
  <2> QED
    BY <2>8, <2>9 DEF m, d, l
<1>7. p > l \/ p <= l
  BY <1>1
<1> QED
  BY <1>5, <1>6, <1>7

\* A handle that has contents may be anywhere up to the end of the file's.
LEMMA CachedMoves ==
  ASSUME NEW x \in Handles, x.name \in Names, GoodHandle(x), x.cache # {},
         NEW n \in Nat, n <= Len(Contents(Volume[x.name])),
         NEW y, y = [x EXCEPT !.pos = n]
  PROVE  y \in Handles /\ GoodHandle(y) /\ y.name = x.name /\ y.cache = x.cache /\ y.pos = n
<1> DEFINE f == Volume[x.name]
<1>1. CachedHandle(f, x)
  BY DEF GoodHandle, FileHandle
<1>2. y \in Handles /\ y.name = x.name /\ y.cache = x.cache /\ y.pos = n /\ y.size = x.size
  BY DEF Handles
<1>3. CachedHandle(f, y)
  <2>1. y.pos <= Len(Contents(f))
    BY <1>2
  <2> HIDE DEF f
  <2> QED
    BY <1>1, <1>2, <2>1 DEF CachedHandle
<1>4. FileHandle(f, y)
  <2> HIDE DEF f
  <2> QED
    BY <1>2, <1>3 DEF FileHandle
<1> QED
  BY <1>2, <1>4 DEF GoodHandle

\* Fork::read copies from the contents in memory.
LEMMA CopyFromCacheKeeps ==
  ASSUME Inv, CopyFromCache
  PROVE  Inv'
<1>1. call.stage = "enter" /\ UNCHANGED buf
  BY DEF CopyFromCache
<1>2. PICK cache \in h.cache :
        LET data == SubSeq(cache, h.pos + 1, Min({h.pos + ReadLen, Len(cache)}))
        IN ForkReturns([h EXCEPT !.pos = @ + Len(data)], data, FALSE)
  BY DEF CopyFromCache
<1> DEFINE f == File
           all == Contents(f)
           p == h.pos
           data == Copy(cache, p, ReadLen)
           q == p + Len(data)
           y == [h EXCEPT !.pos = q]
           v == call.failed \/ FALSE
           now == [call EXCEPT !.failed = v]
<1>3. ForkReturns(y, data, FALSE)
  BY <1>2 DEF Copy
<1>4. fds' = [fds EXCEPT ![call.fd] = y] /\ GivesBack(now, data)
  <2> HIDE DEF y, data
  <2> QED
    BY <1>3 DEF ForkReturns, GivesBack, Mapped, Unread
<1>5. call.stage \in FileStages
  BY <1>1 DEF FileStages
<1>6. /\ h \in Handles /\ GoodHandle(h) /\ h.name \in Names /\ Promise(f, call, h)
      /\ f \in Forks /\ FileHandle(f, h) /\ f = Volume[h.name] /\ call \in Calls
  BY <1>5, OnFile DEF File, Inv, CallOK
<1>7. h.cache # {} /\ CachedHandle(f, h)
  BY <1>6 DEF FileHandle
<1>8. /\ h.cache = {cache} /\ f.kind # "plain" /\ cache \in Bytes /\ IsPrefix(cache, all)
      /\ p \in Nat /\ p <= Len(all)
  BY <1>6, <1>7 DEF CachedHandle, Handles
<1>9. /\ ReadLen \in Nat
      /\ call.op = "region" => Len(call.mem) + ReadLen <= call.len
      /\ Len(call.mem) \in Nat /\ call.len \in Nat /\ call.offset \in Nat
  BY <1>5, ReadLenIs
<1>10. /\ data \in Bytes /\ Len(data) \in Nat /\ Len(data) <= ReadLen
       /\ p > Len(cache) => Len(data) = 0
       /\ p <= Len(cache) => p + Len(data) <= Len(cache)
  BY <1>8, <1>9, CopyIs
<1>11. cache = all => /\ data = SubSeq(all, p + 1, p + Min({ReadLen, Len(all) - p}))
                      /\ q = p + Min({ReadLen, Len(all) - p})
                      /\ p + ReadLen <= Len(all) =>
                           Len(data) = ReadLen /\ data = SubSeq(all, p + 1, p + ReadLen)
  <2>1. cache \in Bytes /\ p \in Nat /\ ReadLen \in Nat
    BY <1>8, <1>9
  <2>2. p <= Len(cache) => /\ data = SubSeq(cache, p + 1, p + Min({ReadLen, Len(cache) - p}))
                           /\ Len(data) = Min({ReadLen, Len(cache) - p})
    BY <2>1, CopyIs
  <2>3. p + ReadLen <= Len(cache) => /\ Len(data) = ReadLen
                                     /\ data = SubSeq(cache, p + 1, p + ReadLen)
    BY <2>1, CopyIs
  <2> HIDE DEF data, all, p
  <2>4. SUFFICES ASSUME cache = all
                 PROVE  /\ data = SubSeq(all, p + 1, p + Min({ReadLen, Len(all) - p}))
                        /\ q = p + Min({ReadLen, Len(all) - p})
                        /\ p + ReadLen <= Len(all) =>
                             Len(data) = ReadLen /\ data = SubSeq(all, p + 1, p + ReadLen)
    OBVIOUS
  <2>5. /\ data = SubSeq(all, p + 1, p + Min({ReadLen, Len(all) - p}))
        /\ Len(data) = Min({ReadLen, Len(all) - p})
    BY <1>8, <2>2, <2>4
  <2>6. q = p + Min({ReadLen, Len(all) - p})
    BY <2>5
  <2>7. p + ReadLen <= Len(all) =>
          Len(data) = ReadLen /\ data = SubSeq(all, p + 1, p + ReadLen)
    BY <2>3, <2>4
  <2> QED
    BY <2>5, <2>6, <2>7
<1>12. Len(cache) <= Len(all) /\ Len(cache) \in Nat /\ Len(all) \in Nat
  BY <1>6, <1>8, PrefixFits, LenProperties, ContentsAre DEF Bytes
<1> HIDE DEF data
<1>13. q \in Nat /\ q <= Len(all)
  <2> DEFINE c == Len(cache)
             l == Len(data)
             a == Len(all)
  <2>1. /\ c <= a /\ c \in Nat /\ a \in Nat /\ p \in Nat /\ p <= a /\ l \in Nat
        /\ (p > c => l = 0) /\ (p <= c => p + l <= c) /\ q = p + l
    BY <1>8, <1>10, <1>12
  <2> HIDE DEF c, l, a, p, q
  <2>2. q \in Nat /\ q <= a
    BY <2>1
  <2> QED
    BY <2>2 DEF a
<1>14. y \in Handles /\ GoodHandle(y) /\ y.name = h.name /\ y.cache = h.cache /\ y.pos = q
  <2>1. y = [h EXCEPT !.pos = q] /\ q <= Len(Contents(Volume[h.name]))
    BY <1>6, <1>13
  <2> HIDE DEF q, y
  <2> QED
    BY <1>6, <1>7, <1>13, <2>1, CachedMoves
<1>15. v \in BOOLEAN /\ (~v => ~call.failed)
  OBVIOUS
<1> HIDE DEF v
<1>16. now \in Calls /\ SameCall(call, now) /\ now.failed = v
  BY <1>6, <1>15 DEF Calls, SameCall
<1> HIDE DEF y, q, p, all, now
<1>17. BufferOK'
  BY <1>1 DEF Inv, BufferOK
<1>18. CASE call.op # "region"
  <2>1. ReadPromise(f, call, h) /\ ReadLen = call.len
    BY <1>6, <1>18 DEF Promise, ReadLen
  <2>2. ReadRight(f, now, y, data)
    <3> DEFINE from == now.was.pos
               n == Min({now.len, Len(all) - from})
    <3> SUFFICES ASSUME \/ now.was.cache = {all}
                        \/ now.was.cache = {} /\ now.was.pos = 0 /\ ~now.failed
                 PROVE  data = SubSeq(all, from + 1, from + n) /\ y.pos = from + n
      BY <1>8 DEF ReadRight, all
    <3>1. now.was = call.was /\ now.len = call.len /\ (~now.failed => ~call.failed)
      BY <1>15, <1>16 DEF SameCall
    <3>2. h.cache = {all} /\ p = from
      <4>1. CASE now.was.cache = {all}
        <5>1. h = call.was
          BY <2>1, <3>1, <4>1 DEF ReadPromise
        <5> QED
          BY <3>1, <4>1, <5>1 DEF p
      <4>2. CASE now.was.cache = {} /\ now.was.pos = 0 /\ ~now.failed
        <5>1. h.cache = {all} /\ h.pos = 0
          BY <1>7, <1>8, <2>1, <3>1, <4>2 DEF ReadPromise, all
        <5> QED
          BY <4>2, <5>1 DEF p
      <4> QED
        BY <4>1, <4>2
    <3>3. cache = all
      BY <1>8, <3>2
    <3>4. n = Min({ReadLen, Len(all) - p})
      BY <2>1, <3>1, <3>2
    <3> QED
      BY <1>11, <1>14, <3>2, <3>3, <3>4
  <2>3. ReadRight(File, now, y, data)
    BY <2>2
  <2> QED
    BY <1>4, <1>5, <1>10, <1>14, <1>16, <1>17, <1>18, <2>3, ReadReturns
<1>19. CASE call.op = "region"
  <2>1. RegionPromise(f, call, h)
    BY <1>6, <1>19 DEF Promise
  <2>2. PieceRight(f, now, h, y, data, ReadLen)
    <3> SUFFICES ASSUME ~now.failed, now.was.cache = {all}
                 PROVE  /\ y.cache = h.cache /\ y.pos = h.pos + ReadLen /\ Len(data) = ReadLen
                        /\ data = SubSeq(all, h.pos + 1, h.pos + ReadLen)
      BY <1>8 DEF PieceRight, all
    <3>1. now.was = call.was /\ ~call.failed
      BY <1>15, <1>16 DEF SameCall
    <3>2. /\ h.cache = {all} /\ p = call.offset + Len(call.mem)
          /\ call.offset + call.len <= Len(all)
      BY <2>1, <3>1 DEF RegionPromise, all, p
    <3>3. cache = all
      BY <1>8, <3>2
    <3>4. p + ReadLen <= Len(all)
      <4> DEFINE o == call.offset
                 k == Len(call.mem)
                 n == ReadLen
                 m == call.len
                 a == Len(all)
      <4>1. /\ o \in Nat /\ k \in Nat /\ n \in Nat /\ m \in Nat /\ a \in Nat
            /\ k + n <= m /\ o + m <= a /\ p = o + k
        BY <1>9, <1>12, <1>19, <3>2
      <4> HIDE DEF o, k, n, m, a
      <4>2. p + n <= a
        BY <4>1
      <4> QED
        BY <4>2 DEF n, a
    <3>5. Len(data) = ReadLen /\ data = SubSeq(all, p + 1, p + ReadLen)
      BY <1>11, <3>3, <3>4
    <3>6. q = p + ReadLen
      BY <3>5 DEF q
    <3> QED
      BY <1>14, <3>5, <3>6 DEF p
  <2>3. PieceRight(File, now, h, y, data, ReadLen) /\ (~now.failed => ~call.failed)
    BY <1>15, <1>16, <2>2
  <2> QED
    BY <1>4, <1>5, <1>10, <1>14, <1>16, <1>17, <1>19, <2>3, PieceReturns
<1> QED
  BY <1>18, <1>19

\* An error goes up to the handle, which gives nothing.
LEMMA ReadFailsKeeps ==
  ASSUME Inv, ReadFails
  PROVE  Inv'
<1> DEFINE f == File
           v == call.failed \/ TRUE
           now == [call EXCEPT !.failed = v]
           data == <<>>
<1>1. /\ call.stage \in {"header", "data", "unpack"} /\ DeviceFails
      /\ ForkReturns(h, data, TRUE)
  BY DEF ReadFails
<1>2. call.stage \in FileStages /\ call.stage # "enter"
  BY <1>1 DEF FileStages
<1>3. fds' = [fds EXCEPT ![call.fd] = h] /\ GivesBack(now, data)
  <2> HIDE DEF data
  <2> QED
    BY <1>1 DEF ForkReturns, GivesBack, Mapped, Unread
<1>4. /\ h \in Handles /\ GoodHandle(h) /\ Promise(f, call, h) /\ call \in Calls
  BY <1>2, OnFile DEF Inv, CallOK
<1>5. v = TRUE
  OBVIOUS
<1> HIDE DEF v
<1>6. now \in Calls /\ SameCall(call, now) /\ now.failed = TRUE
  <2>1. v \in BOOLEAN
    BY <1>5
  <2> QED
    BY <1>4, <1>5, <2>1 DEF Calls, SameCall
<1> HIDE DEF now
<1>7. BufferOK'
  BY <1>1, FailKeepsBuffer
<1>8. ReadLen \in Nat
  BY <1>2, ReadLenIs
<1>9. data \in Bytes /\ Len(data) <= ReadLen
  <2>1. Len(<<>>) = 0 /\ <<>> \in Bytes
    BY EmptySeq DEF Bytes
  <2> QED
    BY <1>8, <2>1
<1>10. CASE call.op # "region"
  <2>1. ReadPromise(f, call, h)
    BY <1>4, <1>10 DEF Promise
  <2>2. ReadRight(f, now, h, data)
    <3> SUFFICES ASSUME f.kind = "plain" \/ now.was.cache = {Contents(f)}
                 PROVE  h.pos = now.was.pos
      BY <1>6 DEF ReadRight
    <3>1. now.was = call.was
      BY <1>6 DEF SameCall
    <3>2. now.was.cache # {Contents(f)}
      BY <1>2, <2>1, <3>1 DEF ReadPromise
    <3>3. h = call.was
      BY <2>1, <3>2 DEF ReadPromise
    <3> QED
      BY <3>1, <3>3
  <2> HIDE DEF data
  <2>3. ReadRight(File, now, h, data)
    BY <2>2
  <2> QED
    BY <1>2, <1>3, <1>4, <1>6, <1>7, <1>9, <1>10, <2>3, ReadReturns
<1>11. CASE call.op = "region"
  <2> HIDE DEF data
  <2>1. PieceRight(File, now, h, h, data, ReadLen)
    BY <1>6 DEF PieceRight
  <2>2. ~now.failed => ~call.failed
    BY <1>6
  <2> QED
    BY <1>2, <1>3, <1>4, <1>6, <1>7, <1>9, <1>11, <2>1, <2>2, PieceReturns
<1> QED
  BY <1>10, <1>11

\* The bytes of the fork are read.
LEMMA DataReadKeeps ==
  ASSUME Inv, DataRead
  PROVE  Inv'
<1> DEFINE f == File
           B == ForkBytes(f)
           p == h.pos
           z == f.size
           data == rd.got
           l == Len(data)
           q == p + l
           y == [h EXCEPT !.pos = q]
           v == call.failed \/ FALSE
           now == [call EXCEPT !.failed = v]
           n == ReadLen
<1>1. Done /\ call.stage = "data" /\ UNCHANGED buf /\ ForkReturns(y, data, FALSE)
  BY DEF DataRead, Moved
<1>2. call.stage \in FileStages /\ Reading
  BY <1>1 DEF FileStages, Reading
<1>3. fds' = [fds EXCEPT ![call.fd] = y] /\ GivesBack(now, data)
  <2> HIDE DEF y, data
  <2> QED
    BY <1>1 DEF ForkReturns, GivesBack, Mapped, Unread
<1>4. /\ h \in Handles /\ GoodHandle(h) /\ h.name \in Names /\ Promise(f, call, h)
      /\ f \in Forks /\ FileHandle(f, h) /\ call \in Calls /\ StageOK(f, call, h, rd)
      /\ Fork = f /\ Position = h.pos
  BY <1>2, OnFile DEF Inv, CallOK
<1>5. h.cache = {} /\ rd.want = n /\ n \in Nat
  <2>1. n = DataWant(call) /\ n \in Nat
    BY <1>2, ReadLenIs
  <2> QED
    BY <1>1, <1>4, <2>1 DEF StageOK
<1>6. p \in Nat /\ p <= z /\ h.size = z /\ z \in Nat
  BY <1>4, <1>5, HandleFits, ForkSize DEF Handles
<1>7. data \in Bytes /\ l \in Nat /\ Agrees(f, p, data) /\ rd.need \in Nat /\ l + rd.need <= n
  BY <1>2, <1>4, <1>5, OnFork
<1>8. l = n \/ z <= q
  BY <1>1, <1>4, <1>5, DoneIs
<1> HIDE DEF f, data
<1>9. data = SubSeq(B, p + 1, q) /\ q <= z
  <2> HIDE DEF p
  <2> QED
    BY <1>4, <1>6, <1>7, GotIs
<1>10. q \in Nat /\ l <= n
  <2> DEFINE m == rd.need
  <2>1. m \in Nat /\ l + m <= n /\ l \in Nat /\ n \in Nat
    BY <1>5, <1>7
  <2> HIDE DEF m, l, n
  <2>2. l <= n
    BY <2>1
  <2> QED
    BY <1>6, <1>7, <2>2 DEF l
<1>11. l = Min({n, z - p})
  <2> HIDE DEF l, n, z, p
  <2>1. n \in Int /\ z - p \in Int
    BY <1>5, <1>6
  <2>2. Min({n, z - p}) = IF n <= z - p THEN n ELSE z - p
    BY <2>1, MinOfTwo
  <2>3. n \in Nat /\ z \in Nat /\ p \in Nat /\ l \in Nat /\ l <= n
    BY <1>5, <1>6, <1>7, <1>10
  <2>4. l = IF n <= z - p THEN n ELSE z - p
    BY <1>8, <1>9, <2>3
  <2> QED
    BY <2>2, <2>4
<1>12. y \in Handles /\ GoodHandle(y) /\ y.name = h.name /\ y.cache = h.cache /\ y.pos = q
  <2>1. y = [h EXCEPT !.pos = q] /\ q <= h.size
    BY <1>6, <1>9
  <2> HIDE DEF q, y
  <2> QED
    BY <1>4, <1>10, <2>1, SeekHandle
<1>13. f.kind = "plain" => Contents(f) = B /\ Len(Contents(f)) = z
  BY <1>4, ContentsAre
<1>14. v \in BOOLEAN /\ (~v => ~call.failed)
  OBVIOUS
<1> HIDE DEF v
<1>15. now \in Calls /\ SameCall(call, now) /\ now.failed = v
  BY <1>4, <1>14 DEF Calls, SameCall
<1>16. BufferOK'
  BY <1>1 DEF Inv, BufferOK
<1> HIDE DEF B, y, now
<1>17. CASE call.op # "region"
  <2>1. ReadPromise(f, call, h) /\ n = call.len
    BY <1>4, <1>17 DEF Promise, ReadLen
  <2>2. now.was = call.was /\ now.len = call.len
    BY <1>15 DEF SameCall
  <2>3. call.was.cache = {}
    BY <1>1, <2>1 DEF ReadPromise
  <2>4. ReadRight(f, now, y, data)
    <3> DEFINE from == now.was.pos
               m == Min({now.len, Len(Contents(f)) - from})
    <3> SUFFICES ASSUME \/ f.kind = "plain" \/ now.was.cache = {Contents(f)}
                        \/ now.was.cache = {} /\ now.was.pos = 0 /\ ~now.failed
                 PROVE  data = SubSeq(Contents(f), from + 1, from + m) /\ y.pos = from + m
      BY DEF ReadRight
    <3>1. f.kind = "plain"
      <4> SUFFICES ASSUME f.kind # "plain", now.was.pos = 0, ~now.failed PROVE FALSE
        BY <2>2, <2>3
      <4>1. ~call.failed /\ call.was.pos = 0
        BY <1>14, <1>15, <2>2
      <4> QED
        BY <1>1, <1>5, <2>1, <2>3, <4>1 DEF ReadPromise
    <3>2. h = call.was
      BY <2>1, <3>1 DEF ReadPromise
    <3>3. from = p
      BY <2>2, <3>2
    <3>4. m = l
      BY <1>11, <1>13, <2>1, <2>2, <3>1, <3>3
    <3> QED
      BY <1>9, <1>12, <1>13, <3>1, <3>3, <3>4
  <2>5. ReadRight(File, now, y, data)
    BY <2>4 DEF f
  <2> QED
    BY <1>2, <1>3, <1>7, <1>12, <1>15, <1>16, <1>17, <2>5, ReadReturns
<1>18. CASE call.op = "region"
  <2>1. RegionPromise(f, call, h)
    BY <1>4, <1>18 DEF Promise
  <2>2. PieceRight(f, now, h, y, data, n)
    <3> SUFFICES ASSUME ~now.failed, f.kind = "plain" \/ now.was.cache = {Contents(f)}
                 PROVE  /\ y.cache = h.cache /\ y.pos = h.pos + n /\ Len(data) = n
                        /\ data = SubSeq(Contents(f), h.pos + 1, h.pos + n)
      BY DEF PieceRight
    <3>1. now.was = call.was /\ ~call.failed
      BY <1>14, <1>15 DEF SameCall
    <3>2. /\ h.cache = call.was.cache /\ p = call.offset + Len(call.mem)
          /\ call.offset + call.len <= Len(Contents(f))
      BY <2>1, <3>1 DEF RegionPromise
    <3>3. f.kind = "plain"
      BY <1>5, <3>1, <3>2
    <3>4. l = n
      <4> DEFINE o == call.offset
                 k == Len(call.mem)
                 m == call.len
      <4>1. /\ o \in Nat /\ k \in Nat /\ m \in Nat /\ k + n <= m
        BY <1>2, <1>18, ReadLenIs
      <4>2. o + m <= z /\ p = o + k
        BY <1>13, <3>2, <3>3
      <4>3. /\ l = n \/ z <= p + l
            /\ z \in Nat /\ p \in Nat /\ n \in Nat /\ l \in Nat /\ l <= n
        BY <1>5, <1>6, <1>7, <1>8, <1>10
      <4> HIDE DEF o, k, m, n, z, p, l
      <4> QED
        BY <4>1, <4>2, <4>3
    <3> QED
      BY <1>9, <1>12, <1>13, <3>3, <3>4
  <2>3. PieceRight(File, now, h, y, data, ReadLen) /\ (~now.failed => ~call.failed)
    BY <1>14, <1>15, <2>2 DEF f
  <2> QED
    BY <1>2, <1>3, <1>7, <1>10, <1>12, <1>15, <1>16, <1>18, <2>3, PieceReturns
<1> QED
  BY <1>17, <1>18

\* At boot no call is under way and the descriptors are those of the console.
LEMMA InitOK ==
  ASSUME Init
  PROVE  Inv
<1>1. /\ fds = [fd \in Std |-> RandomFile] /\ buf = [data |-> <<>>, pos |-> 0, inner |-> 0]
      /\ call = Idle /\ rd = NoRead
  BY DEF Init
<1>2. HandlesOK
  <2>1. RandomFile \in Handles /\ GoodHandle(RandomFile)
    BY NewHandles
  <2>2. DOMAIN fds = Std /\ \A fd \in DOMAIN fds : fds[fd] = RandomFile
    BY <1>1
  <2>3. DOMAIN fds \subseteq Fds
    BY <2>2, Sizes
  <2>4. fds \in [DOMAIN fds -> Handles]
    BY <1>1, <2>1
  <2>5. \A fd \in DOMAIN fds : GoodHandle(fds[fd])
    BY <2>1, <2>2
  <2> QED
    BY <2>3, <2>4, <2>5 DEF HandlesOK
<1>3. BufferOK
  <2>1. Len(<<>>) = 0 /\ <<>> \in Bytes /\ 0 \in 0..DiskSize
    BY EmptySeq, Sizes DEF Bytes
  <2>2. buf \in Buffers /\ buf.data = <<>> /\ buf.pos = 0
    BY <1>1, <2>1 DEF Buffers
  <2> QED
    BY <2>1, <2>2 DEF BufferOK
<1>4. call \in Calls /\ call.op = "idle" /\ call.stage = "none"
  <2>1. <<>> \in Bytes /\ RandomFile \in Handles
    BY NewHandles DEF Bytes
  <2> QED
    BY <1>1, <2>1 DEF Idle, Calls
<1>5. CallOK
  BY <1>4 DEF CallOK, FileStages
<1>6. ReadingOK
  <2>1. rd \in Reads /\ rd.got = <<>> /\ rd.need = 0 /\ rd.want = 0 /\ Len(<<>>) = 0
    BY <1>1, EmptySeq, FreshRead
  <2>2. Len(rd.got) + rd.need <= rd.want
    BY <2>1
  <2>3. ~Reading
    BY <1>4 DEF Reading
  <2> QED
    BY <1>1, <2>1, <2>2, <2>3 DEF ReadingOK
<1>7. ReadGivesFileBytes /\ RegionHoldsFile
  BY <1>4 DEF ReadGivesFileBytes, RegionHoldsFile, Returned
<1> QED
  BY <1>2, <1>3, <1>5, <1>6, <1>7 DEF Inv

\* A step of the system, or none, keeps the invariant.
LEMMA StepKeeps ==
  ASSUME Inv, [Next]_vars
  PROVE  Inv'
<1>1. CASE Call
  <2>1. CASE \E name \in DOMAIN Volume : Open(name) \/ Stat(name)
    <3>1. PICK name \in DOMAIN Volume : Open(name) \/ Stat(name)
      BY <2>1
    <3>2. PICK op \in {"open", "stat"} : Lookup(op, name)
      BY <3>1 DEF Open, Stat
    <3> QED
      BY <3>2, LookupKeeps
  <2>2. CASE \E fd \in Fds : Close(fd)
    BY <2>2, CloseKeeps
  <2>3. CASE \E fd \in Fds, len \in Lens : Read(fd, len)
    <3>1. PICK fd \in Fds, len \in Lens : Read(fd, len)
      BY <2>3
    <3>2. PICK op \in {"read", "pread", "mmap"}, offset \in Nat : HandleRead(op, fd, len, offset)
      BY <3>1 DEF Read
    <3>3. len \in Nat
      BY Sizes
    <3> QED
      BY <3>2, <3>3, HandleReadKeeps
  <2>4. CASE \E fd \in Fds, len \in Lens, offset \in Offsets :
               Pread(fd, len, offset) \/ Mmap(fd, len, offset) \/ SharedRegionMap(fd, len, offset)
    <3>1. PICK fd \in Fds, len \in Lens, offset \in Offsets :
            Pread(fd, len, offset) \/ Mmap(fd, len, offset) \/ SharedRegionMap(fd, len, offset)
      BY <2>4
    <3>2. len \in Nat /\ offset \in Nat
      BY Sizes
    <3>3. CASE Pread(fd, len, offset) \/ Mmap(fd, len, offset)
      <4>1. PICK op \in {"read", "pread", "mmap"} : HandleRead(op, fd, len, offset)
        BY <3>3 DEF Pread, Mmap
      <4> QED
        BY <3>2, <4>1, HandleReadKeeps
    <3>4. CASE SharedRegionMap(fd, len, offset)
      BY <3>2, <3>4, SharedRegionMapKeeps
    <3> QED
      BY <3>1, <3>3, <3>4
  <2> QED
    BY <1>1, <2>1, <2>2, <2>3, <2>4 DEF Call
<1>2. CASE Work
  <2>1. CASE CopyFromCache
    BY <2>1, CopyFromCacheKeeps
  <2>2. CASE CheckCompression
    BY <2>2, CheckCompressionKeeps
  <2>3. CASE ReadPlain
    BY <2>3, ReadPlainKeeps
  <2>4. CASE SeekExtent
    BY <2>4, SeekExtentKeeps
  <2>5. CASE BufRead
    BY <2>5, BufReadKeeps
  <2>6. CASE Found
    BY <2>6, FoundKeeps
  <2>7. CASE NotFound
    BY <2>7, NotFoundKeeps
  <2>8. CASE HeaderPlain
    BY <2>8, HeaderPlainKeeps
  <2>9. CASE HeaderCompressed
    BY <2>9, HeaderCompressedKeeps
  <2>10. CASE StepRead
    BY <2>10, StepReadKeeps
  <2>11. CASE ReadToEndMore
    BY <2>11, ReadToEndMoreKeeps
  <2>12. CASE ReadToEndDone
    BY <2>12, ReadToEndDoneKeeps
  <2>13. CASE ReadToEndFails
    BY <2>13, ReadToEndFailsKeeps
  <2>14. CASE ResourceChunkFails
    BY <2>14, ResourceChunkFailsKeeps
  <2>15. CASE ReadFails
    BY <2>15, ReadFailsKeeps
  <2>16. CASE DataRead
    BY <2>16, DataReadKeeps
  <2>17. CASE Eret
    BY <2>17, EretKeeps
  <2> QED
    BY <1>2, <2>1, <2>2, <2>3, <2>4, <2>5, <2>6, <2>7, <2>8, <2>9, <2>10, <2>11, <2>12,
       <2>13, <2>14, <2>15, <2>16, <2>17 DEF Work
<1>3. CASE UNCHANGED vars
  <2>1. fds' = fds /\ buf' = buf /\ call' = call /\ rd' = rd
    BY <1>3 DEF vars
  <2>2. h' = h /\ File' = File /\ Fork' = Fork /\ Position' = Position
    BY <2>1 DEF h, File, Fork, Position
  <2>3. HandlesOK' /\ BufferOK'
    BY <2>1 DEF Inv, HandlesOK, BufferOK
  <2>4. CallOK'
    BY <2>1, <2>2 DEF Inv, CallOK
  <2>5. ReadingOK'
    BY <2>1, <2>2 DEF Inv, ReadingOK, Reading
  <2>6. Trusted' = Trusted /\ Returned({"read"})' = Returned({"read"})
        /\ Returned({"region"})' = Returned({"region"})
    BY <2>1, <2>2 DEF Trusted, Returned
  <2>7. ReadGivesFileBytes' /\ RegionHoldsFile'
    BY <2>1, <2>2, <2>6 DEF Inv, ReadGivesFileBytes, RegionHoldsFile
  <2> QED
    BY <2>3, <2>4, <2>5, <2>7 DEF Inv
<1> QED
  BY <1>1, <1>2, <1>3 DEF Next

\* Every handle is good, the buffer holds the disk, and a call is where its
\* handle says: for every volume, table of descriptors, buffer and failures.
THEOREM Invariance == Spec => []Inv
<1>1. Init => Inv
  BY InitOK
<1>2. Inv /\ [Next]_vars => Inv'
  BY StepKeeps
<1> QED
  BY <1>1, <1>2, PTL DEF Spec

\* The types of the file stack; a read never gets more than it asked for, and
\* a handle never has more than one unpacked contents.
THEOREM TypeCorrect == Spec => []TypeOK
<1>1. ASSUME Inv PROVE TypeOK
  <2>1. DOMAIN fds \subseteq Fds /\ \A fd \in DOMAIN fds : IsHandle(fds[fd])
    <3>1. DOMAIN fds \subseteq Fds
      BY <1>1 DEF Inv, HandlesOK
    <3>2. ASSUME NEW fd \in DOMAIN fds PROVE IsHandle(fds[fd])
      <4> DEFINE x == fds[fd]
      <4>1. x \in Handles /\ GoodHandle(x)
        BY <1>1 DEF Inv, HandlesOK
      <4> HIDE DEF x
      <4>2. x.name \in DOMAIN Volume \cup {"/dev/random"} /\ x.pos \in Nat /\ x.size \in Nat
        BY <4>1 DEF Handles, Names, Random
      <4>3. CASE x.name \in Names
        <5> DEFINE f == Volume[x.name]
        <5>1. f \in Forks /\ FileHandle(f, x)
          BY <4>1, <4>3 DEF Forks, Names, GoodHandle
        <5>2. x.pos <= DiskSize * 2 /\ x.size <= DiskSize * 2
          BY <4>1, <5>1, HandleFits
        <5>3. x.pos \in 0..DiskSize * 2 /\ x.size \in 0..DiskSize * 2
          BY <4>2, <5>2, Sizes
        <5>4. Cardinality(x.cache) <= 1
          <6>1. CASE x.cache = {}
            <7>1. Cardinality({}) = 0
              BY FS_EmptySet
            <7> QED
              BY <6>1, <7>1
          <6>2. CASE x.cache # {}
            <7>1. PICK c \in x.cache : x.cache = {c}
              BY <5>1, <6>2 DEF FileHandle, CachedHandle
            <7>2. Cardinality({c}) = 1
              BY FS_Singleton
            <7> QED
              BY <7>1, <7>2
          <6> QED
            BY <6>1, <6>2
        <5> QED
          BY <4>2, <5>3, <5>4 DEF IsHandle, x
      <4>4. CASE x.name \notin Names
        <5>1. x.pos = 0 /\ x.cache = {} /\ x.size = 0
          BY <4>1, <4>4 DEF GoodHandle
        <5>2. 0 \in 0..DiskSize * 2
          BY Sizes
        <5>3. Cardinality(x.cache) = 0
          BY <5>1, FS_EmptySet
        <5> QED
          BY <4>2, <5>1, <5>2, <5>3 DEF IsHandle, x
      <4> QED
        BY <4>3, <4>4
    <3> QED
      BY <3>1, <3>2
  <2>2. Len(buf.data) \in {0, Cap} /\ buf.pos \in 0..Len(buf.data) /\ buf.inner \in 0..DiskSize
    <3>1. /\ buf.pos \in Nat /\ buf.pos <= Len(buf.data) /\ Len(buf.data) \in {0, Cap}
          /\ buf.inner \in 0..DiskSize
      BY <1>1 DEF Inv, BufferOK, Buffers
    <3> QED
      BY <3>1, Sizes
  <2>3. /\ call.op \in {"idle", "open", "stat", "read", "pread", "mmap", "region", "random"}
        /\ call.stage \in {"none", "catalog", "enter", "header", "unpack", "data", "returned"}
        /\ (call.op = "idle") <=> (call.stage = "none")
    BY <1>1 DEF Inv, CallOK, Calls
  <2>4. rd.need \in 0..rd.want /\ Len(rd.got) + rd.need <= rd.want
    <3> DEFINE w == rd.want
               n == rd.need
               l == Len(rd.got)
    <3>1. w \in Nat /\ n \in Nat /\ l \in Nat /\ l + n <= w
      BY <1>1, LenProperties DEF Inv, ReadingOK, Reads, Bytes
    <3> HIDE DEF w, n, l
    <3>2. n \in 0..w /\ l + n <= w
      BY <3>1
    <3> QED
      BY <3>2 DEF w, n, l
  <2> QED
    BY <2>1, <2>2, <2>3, <2>4 DEF TypeOK
<1>2. Inv => TypeOK
  BY <1>1
<1> QED
  BY <1>2, Invariance, PTL

\* A read of a file that can be trusted gives the bytes of the file at the
\* handle's position, as many as asked for or left.
THEOREM ReadIsRight == Spec => []ReadGivesFileBytes
<1>1. Inv => ReadGivesFileBytes
  BY DEF Inv
<1> QED
  BY <1>1, Invariance, PTL

\* A segment mapped from a file holds the file's bytes from its offset on.
THEOREM RegionIsRight == Spec => []RegionHoldsFile
<1>1. Inv => RegionHoldsFile
  BY DEF Inv
<1> QED
  BY <1>1, Invariance, PTL

\* What is kept as a file's contents is the start of them, whatever failed.
THEOREM CacheIsRight == Spec => []CacheIsPrefix
<1>1. ASSUME Inv PROVE CacheIsPrefix
  <2> SUFFICES ASSUME NEW fd \in DOMAIN fds, NEW contents \in fds[fd].cache
               PROVE  IsPrefix(contents, Contents(Volume[fds[fd].name]))
    BY DEF CacheIsPrefix
  <2> DEFINE x == fds[fd]
  <2>1. GoodHandle(x)
    BY <1>1 DEF Inv, HandlesOK
  <2>2. CachedHandle(Volume[x.name], x)
    BY <2>1 DEF GoodHandle, FileHandle
  <2>3. PICK c \in x.cache : x.cache = {c} /\ IsPrefix(c, Contents(Volume[x.name]))
    BY <2>2 DEF CachedHandle
  <2> QED
    BY <2>3
<1>2. Inv => CacheIsPrefix
  BY <1>1
<1> QED
  BY <1>2, Invariance, PTL
=============================================================================
