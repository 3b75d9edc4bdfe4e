----------------------------- MODULE RoundRobin -----------------------------
(***************************************************************************)
(* What the kernel's run queue promises, with none of its machinery: the   *)
(* processes stand in a ring, the one at the head runs, a new process      *)
(* joins at the back and a yield sends the head to the back.               *)
(***************************************************************************)
EXTENDS Naturals, Sequences

CONSTANT Pids        \* the process identifiers that may ever be admitted

VARIABLE ring        \* the processes, the running one first

Members(s) == {s[i] : i \in DOMAIN s}

Init == ring = <<>>

Admit(p) == /\ p \notin Members(ring)
            /\ ring' = Append(ring, p)

Rotate == /\ ring # <<>>
          /\ ring' = Append(Tail(ring), Head(ring))

Next == Rotate \/ \E p \in Pids : Admit(p)

Spec == Init /\ [][Next]_ring
=============================================================================
