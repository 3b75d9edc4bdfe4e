---------------------------- MODULE AddressSpace ----------------------------
(***************************************************************************)
(* What mmu.rs promises the rest of the kernel, with no tables in it: a    *)
(* map from virtual pages to what backs them.  A request asks for a run of *)
(* pages to be backed by a run of physical pages with one permission; the  *)
(* pages are done in order, each without a change to any other, and only   *)
(* giving up (out of tables) ends a request early.                         *)
(***************************************************************************)
EXTENDS Naturals

CONSTANTS Pages,       \* the virtual pages that can be translated
          Entry(_, _)  \* Entry(p, perm): backed by p with permission perm

VARIABLES view,        \* page -> entry
          todo         \* the request in progress: [left, v, p, perm]

Begin == /\ todo.left = 0
         /\ view' = view

MapNext ==
  /\ todo.left > 0
  /\ view' = [q \in Pages |-> IF q = todo.v THEN Entry(todo.p, todo.perm) ELSE view[q]]
  /\ \/ todo.left = 1 /\ todo'.left = 0
     \/ todo' = [left |-> todo.left - 1, v |-> todo.v + 1, p |-> todo.p + 1, perm |-> todo.perm]

\* A page that no table can hold.
Skip ==
  /\ todo.left > 0 /\ todo.v \notin Pages
  /\ view' = view
  /\ todo'.left = todo.left - 1 /\ (todo'.left > 0 => todo'.v = todo.v + 1)

GiveUp == todo.left > 0 /\ todo'.left = 0 /\ view' = view

Next == Begin \/ MapNext \/ Skip \/ GiveUp

Spec == [][Next]_<<view, todo>>
=============================================================================
