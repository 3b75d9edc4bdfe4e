---------------------------- MODULE MCFileStack ----------------------------
(* A small disk for FileStack: two blocks of catalog, then a plain file in  *)
(* two extents that ends just before the end of the disk, a file shorter than a *)
(* header, and one compressed file of each kind.                            *)
EXTENDS FileStack

F(kind, extents, size, chunks) ==
  [kind |-> kind, extents |-> extents, size |-> size, chunks |-> chunks]

MCCatalog == F("plain", <<<<0, 2>>>>, 4, 0)
Plain     == F("plain", <<<<2, 1>>, <<14, 1>>>>, 4, 0)
Tiny      == F("plain", <<<<3, 1>>>>, 1, 0)

MCVolume ==
  [plain    |-> Plain, tiny |-> Tiny,
   stored   |-> F("stored", <<<<4, 1>>, <<6, 1>>>>, 4, 0),
   zlib     |-> F("zlib", <<<<5, 1>>, <<7, 1>>>>, 4, 0),
   chunked  |-> F("chunked", <<<<8, 4>>>>, 7, 2),
   resource |-> F("resource", <<<<3, 4>>>>, 7, 0),
   both     |-> F("resource chunked", <<<<7, 1>>, <<10, 4>>>>, 10, 2)]
=============================================================================
