----------------------------- MODULE MCCatalog -----------------------------
(* A small volume for Catalog: a file and two folders in the root, a file   *)
(* in the first of them, all but the second file with their thread records. *)
(* Letters: 1 is the volume's name, 2 to 4 those of files and folders.      *)
EXTENDS Catalog

Rec(parent, name, kind, id, to) ==
  [key |-> Key(parent, name), kind |-> kind, id |-> id, to |-> to]

MCRecords ==
  {Rec(1, 2, "folder", 2, NoKey),  Rec(2, 0, "folder thread", 2, Key(1, 2)),
   Rec(2, 4, "file", 16, NoKey),   Rec(16, 0, "file thread", 16, Key(2, 4)),
   Rec(2, 7, "folder", 17, NoKey), Rec(17, 0, "folder thread", 17, Key(2, 7)),
   Rec(17, 5, "file", 18, NoKey),
   Rec(2, 8, "folder", 19, NoKey), Rec(19, 0, "folder thread", 19, Key(2, 8))}
=============================================================================
