------------------------------ MODULE Catalog ------------------------------
(***************************************************************************)
(* The catalog of an HFS+ volume: looking a path up and listing a folder   *)
(* through the B-tree on disk (hfsplus/lib.rs), one node read at a time.   *)
(* A node that cannot be read ends the query with an error.  A name is a   *)
(* number, 2 * letter + case, and 0 the empty name of thread records.      *)
(***************************************************************************)
EXTENDS Integers, Sequences, FiniteSets, FiniteSetsExt, SequencesExt

CONSTANTS
  Records,    \* what the catalog holds: a set of [key, kind, id, to]
  Fan,        \* children of a lower index node
  Names,      \* the names paths are made of
  MaxParts    \* bound on the parts of a path

ASSUME CatalogAssumption ==
  /\ Fan \in Nat \ {0} /\ MaxParts \in Nat /\ Names \subseteq Nat \ {0, 1}
  /\ \A r \in Records : r.kind \in {"folder", "file", "folder thread", "file thread"}

VARIABLES
  vol,     \* the tree on disk: [fold, nodes, root]
  query    \* the query under way
vars == <<vol, query>>

Root == 2
Paths == UNION {[1..n -> Names] : n \in 0..MaxParts}

-----------------------------------------------------------------------------
(* Keys: the parent first, then the name, folded where the volume says so. *)

Fold(fold, name) == IF fold THEN name \div 2 ELSE name
Less(fold, k, l) ==
  \/ k.parent < l.parent
  \/ k.parent = l.parent /\ Fold(fold, k.name) < Fold(fold, l.name)
Same(fold, k, l) == ~Less(fold, k, l) /\ ~Less(fold, l, k)
Key(parent, name) == [parent |-> parent, name |-> name]

InOrder(set, below(_, _)) ==
  [i \in 1..Cardinality(set) |->
     CHOOSE x \in set : Cardinality({y \in set : below(y, x)}) = i - 1]

\* A B-tree of the records: sorted, cut into leaves that are linked, with one
\* level of index over the leaves and a root over that, as many as it takes.
Layout(fold, cuts) ==
  LET sorted == InOrder(Records, LAMBDA r, s : Less(fold, r.key, s.key))
      starts == InOrder(cuts \cup {1}, <)
      m      == Len(starts)
      g      == (m + Fan - 1) \div Fan
      upto(i) == IF i = m THEN Len(sorted) ELSE starts[i + 1] - 1
      leaf(i) == [leaf |-> TRUE, recs |-> SubSeq(sorted, starts[i], upto(i)),
                  flink |-> IF i = m THEN 0 ELSE i + 1]
      entry(i, node) == [key |-> sorted[starts[i]].key, node |-> node]
      lower(j) == [leaf |-> FALSE, flink |-> 0,
                   recs |-> [i \in 1..Min({Fan, m - (j - 1) * Fan}) |->
                               entry((j - 1) * Fan + i, (j - 1) * Fan + i)]]
      upper == [leaf |-> FALSE, flink |-> 0,
                recs |-> [j \in 1..g |-> entry((j - 1) * Fan + 1, m + j)]]
      leaves == [i \in 1..m |-> leaf(i)]
  IN [fold |-> fold,
      nodes |-> IF m = 1 THEN leaves
                ELSE leaves \o [j \in 1..g |-> lower(j)]
                       \o IF g = 1 THEN <<>> ELSE <<upper>>,
      root |-> IF m = 1 THEN 1 ELSE IF g = 1 THEN m + 1 ELSE m + g + 1]

-----------------------------------------------------------------------------

NoKey == Key(0, 0)
Idle == [op |-> "idle", path |-> <<>>, stage |-> "none", part |-> 0, key |-> NoKey,
         node |-> 1, read |-> 0, found |-> <<>>, failed |-> FALSE]

Init ==
  /\ \E fold \in BOOLEAN, cuts \in SUBSET (2..Cardinality(Records)) :
       vol = Layout(fold, cuts)
  /\ query = Idle

\* A search starts at the root of the tree.
Search(q, stage, key) ==
  [q EXCEPT !.stage = stage, !.key = key, !.node = vol.root, !.read = 0]

\* get_path_record_impl and list_dir: the first search.  The record of "/" is
\* found through its thread.
Start(op, path) ==
  /\ query.op = "idle"
  /\ LET q == [Idle EXCEPT !.op = op, !.path = path, !.part = 1]
     IN query' = IF path = <<>> THEN Search(q, "thread", Key(Root, 0))
                 ELSE Search(q, "part", Key(Root, path[1]))
  /\ UNCHANGED vol

Answer(found) == query' = [query EXCEPT !.stage = "done", !.found = found]

Reset ==
  /\ query.stage = "done"
  /\ query' = Idle /\ UNCHANGED vol

Node       == vol.nodes[query.node]
Below(k, l) == Less(vol.fold, k, l)
Searching  == query.stage \in {"thread", "root", "part"}
\* Nodes below the root a search has read, counted up to a bound.
MaxRead == 5
Goto(node) ==
  /\ query' = [query EXCEPT !.node = node, !.read = Min({@ + 1, MaxRead})]
  /\ UNCHANGED vol

\* get_node fails, and the query with it; "/" falls back to a search that
\* finds nothing.
NodeFails ==
  /\ Searching \/ query.stage = "range"
  /\ query' = [query EXCEPT !.stage = "done", !.found = <<>>, !.failed = TRUE]
  /\ UNCHANGED vol

-----------------------------------------------------------------------------
(* get_record: down to the last child whose key is not above the one sought.*)

\* A slip: always the first child; the links between leaves do the rest.
FirstChild(recs, key) == recs[1].node
Child(recs, key) == recs[Max({i \in DOMAIN recs :
                               i = 1 \/ \A j \in 2..i : ~Below(key, recs[j].key)})].node

Descend ==
  /\ Searching /\ ~Node.leaf /\ ~Below(query.key, Node.recs[1].key)
  /\ Goto(Child(Node.recs, query.key))

\* The first record of the leaf that is not below the key ends the search.
Hit   == {i \in DOMAIN Node.recs : Same(vol.fold, Node.recs[i].key, query.key)}
Above == {i \in DOMAIN Node.recs : Below(query.key, Node.recs[i].key)}

\* A slip: the last leaf has a next one.
NeverLast(flink) == FALSE
LastLeaf(flink) == flink = 0
\* A slip: the next leaf is read and dropped.
LinkToSelf(n) == n
Link(n) == vol.nodes[n].flink

NextLeaf ==
  /\ Searching /\ Node.leaf /\ Hit = {} /\ Above = {} /\ ~LastLeaf(Node.flink)
  /\ Goto(Link(query.node))

\* KeyNotFound, or InvalidRecordKey for a key below every one of the tree.
NoSuchKey ==
  /\ Searching
  /\ IF Node.leaf THEN Hit = {} /\ (Above # {} \/ LastLeaf(Node.flink))
     ELSE Below(query.key, Node.recs[1].key)
  /\ Answer(<<>>) /\ UNCHANGED vol

-----------------------------------------------------------------------------
(* What a query does with the record it searched for.                      *)

Found(r) == Searching /\ Node.leaf /\ \E i \in Hit : r = Node.recs[i]

\* list_dir goes on to the range of keys whose parent is the folder.
ListFolder(r) ==
  query' = [Search(query, "range", Key(r.id, 0)) EXCEPT !.found = <<>>]
Give(r) ==
  IF query.op = "get" THEN Answer(<<r>>)
  ELSE IF r.kind = "folder" THEN ListFolder(r) ELSE Answer(<<>>)

FoundThread(r) ==
  /\ Found(r) /\ query.stage = "thread"
  /\ query' = Search(query, "root", r.to) /\ UNCHANGED vol
FoundRoot(r) ==
  /\ Found(r) /\ query.stage = "root"
  /\ Give(r) /\ UNCHANGED vol

IsLast(part) == part = Len(query.path)
FoundLast(r) ==
  /\ Found(r) /\ query.stage = "part" /\ IsLast(query.part)
  /\ Give(r) /\ UNCHANGED vol
FoundFolder(r) ==
  /\ Found(r) /\ query.stage = "part" /\ ~IsLast(query.part) /\ r.kind = "folder"
  /\ query' = [Search(query, "part", Key(r.id, query.path[query.part + 1]))
                 EXCEPT !.part = @ + 1]
  /\ UNCHANGED vol
\* A slip: a file in the middle of a path is passed over.
FileIgnored(r) ==
  /\ Found(r) /\ query.stage = "part" /\ ~IsLast(query.part) /\ r.kind = "file"
  /\ query' = [Search(query, "part", Key(r.key.parent, query.path[query.part + 1]))
                 EXCEPT !.part = @ + 1]
  /\ UNCHANGED vol
\* A file in the middle of a path.
FoundFile(r) ==
  /\ Found(r) /\ query.stage = "part" /\ ~IsLast(query.part) /\ r.kind = "file"
  /\ Answer(<<>>) /\ UNCHANGED vol

-----------------------------------------------------------------------------
(* get_record_range, from (folder, "") up to (folder + 1, "").             *)

Limit == Key(query.key.parent + 1, 0)

RangeDescend ==
  /\ query.stage = "range" /\ ~Node.leaf
  /\ Goto(Child(Node.recs, query.key))

InRange(recs) ==
  SelectSeq(recs, LAMBDA r : ~Below(r.key, query.key) /\ Below(r.key, Limit))
\* A slip: one leaf is enough.
OneLeaf == TRUE
RangeOver == ~Below(Node.recs[Len(Node.recs)].key, Limit) \/ Node.flink = 0

RangeLeaf ==
  /\ query.stage = "range" /\ Node.leaf
  /\ LET found == query.found \o InRange(Node.recs)
     IN query' = IF RangeOver THEN [query EXCEPT !.stage = "done", !.found = found]
                 ELSE [query EXCEPT !.node = Node.flink, !.found = found]
  /\ UNCHANGED vol

-----------------------------------------------------------------------------

Work ==
  \/ Descend \/ NextLeaf \/ NoSuchKey
  \/ RangeDescend \/ RangeLeaf \/ Reset
  \/ \E r \in Records : \/ FoundThread(r) \/ FoundRoot(r) \/ FoundLast(r)
                       \/ FoundFolder(r) \/ FoundFile(r)

Next == (\E path \in Paths : Start("get", path) \/ Start("list", path)) \/ Work \/ NodeFails

\* A query is a loop of its caller's thread: once begun it runs.  No node has
\* to fail.
Spec == Init /\ [][Next]_vars /\ WF_vars(Work)

-----------------------------------------------------------------------------
(* Properties.                                                             *)

\* The type invariant: a search is always at a node of the tree.
TypeOK ==
  /\ vol.fold \in BOOLEAN /\ vol.root \in DOMAIN vol.nodes
  /\ query.op \in {"idle", "get", "list"}
  /\ query.stage \in {"none", "thread", "root", "part", "range", "done"}
  /\ query.node \in DOMAIN vol.nodes /\ query.part \in 0..MaxParts + 1

\* What a path names, read off the records and not the tree.
Children(folder, name) ==
  {r \in Records : Same(vol.fold, r.key, Key(folder, name)) /\ name # 0}
Named ==
  LET walk[i \in 0..Len(query.path)] ==
        IF i = 0 THEN {r \in Records : r.kind = "folder" /\ r.id = Root}
        ELSE UNION {Children(f.id, query.path[i]) : f \in {x \in walk[i - 1] : x.kind = "folder"}}
  IN walk[Len(query.path)]

Ended(op) == query.stage = "done" /\ query.op = op /\ ~query.failed

\* However the tree is cut into nodes, and whether names are folded or not, a
\* path leads to the record it names, and to none when it names none: a name
\* that is missing, or one that goes on below a file.
PathFindsItsRecord == Ended("get") => Range(query.found) = Named

\* A listing holds the entries of the folder, each once and in order, after
\* the folder's own thread record (which has an empty name).
ListingIsTheFolder ==
  Ended("list") /\ (\E r \in Named : r.kind = "folder") =>
    LET id  == (CHOOSE r \in Named : TRUE).id
        all == {r \in Records : r.key.parent = id}
    IN query.found = InOrder(all, LAMBDA r, s : Below(r.key, s.key))

\* The index is worth its nodes: a search reads one node of each level, and
\* one leaf more where the key would stand at the end of a leaf.
Depth == IF vol.nodes[vol.root].leaf THEN 0
         ELSE IF vol.nodes[vol.nodes[vol.root].recs[1].node].leaf THEN 1 ELSE 2
SearchIsDirect == Searching => query.read <= Depth + 1

\* Every query ends, the links between leaves being followed to the last.
QueriesEnd == (query.op # "idle") ~> (query.op = "idle")
=============================================================================
