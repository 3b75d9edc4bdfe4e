--------------------------- MODULE FlatPartition ---------------------------
(***************************************************************************)
(* What the partition reader of lib/apple-dmg promises, with no chunks and *)
(* no cache in it: a partition is a run of bytes with a position in it.  A *)
(* read gives bytes from there on and moves past them; one that fails      *)
(* gives none and loses none.  Bytes that no chunk has, because it holds   *)
(* less than its sectors, are passed over.                                 *)
(***************************************************************************)
EXTENDS Integers, Sequences

CONSTANTS Lengths,   \* lengths of a read
          Deltas,    \* distances of a seek
          Hole,      \* the byte that is not there
          Error      \* what a call gives instead of bytes

VARIABLES content, pos, got

Size == Len(content)

\* From a to b there is nothing but holes.
OnlyHoles(a, b) == a <= b /\ \A i \in a + 1..b : i \in 1..Size /\ content[i] = Hole

Read(n) ==
  /\ \/ \E p \in pos..Size, m \in 1..n :
          /\ OnlyHoles(pos, p) /\ p + m <= Size
          /\ \A i \in p + 1..p + m : content[i] # Hole
          /\ got' = SubSeq(content, p + 1, p + m) /\ pos' = p + m
     \/ /\ n = 0 \/ pos >= Size \/ OnlyHoles(pos, Size)
        /\ got' = <<>> /\ OnlyHoles(pos, pos')

Fail == got' = Error /\ OnlyHoles(pos, pos')

PassHole == got' = got /\ OnlyHoles(pos, pos')

SeekTo(p) == IF p < 0 THEN got' = Error /\ pos' = pos
             ELSE got' = <<>> /\ pos' = p

Seek == \E d \in Deltas : SeekTo(d) \/ SeekTo(pos + d) \/ SeekTo(Size + d)

Init == pos = 0 /\ got = <<>>
Next == /\ content' = content
        /\ Fail \/ PassHole \/ Seek \/ \E n \in Lengths : Read(n)

Spec == Init /\ [][Next]_<<content, pos, got>>
=============================================================================
