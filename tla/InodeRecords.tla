---------------------------- MODULE InodeRecords ----------------------------
(* The records check/main.c builds of the inodes it meets while it walks a   *)
(* subvolume tree.  Records are reached through caches (inode number to      *)
(* record), one pair of caches per shared tree block and one for the tree    *)
(* itself; a record handed from a shared block to a tree is the same object  *)
(* with one more reference, so records live on a heap here.                  *)
(*                                                                           *)
(* A walk is [heap, node, nodes, active, rootlevel]: heap maps record ids to *)
(* records, node maps a shared block (or TopNode, the tree's own caches) to  *)
(* its caches, nodes maps a level to the node entered there.                 *)
EXTENDS SubvolItems, TLC

None == -1
TopNode == 0
Forever == 99                  \* (u64)-1 as an offset

Drop(f, k) == [x \in DOMAIN f \ {k} |-> f[x]]
If(cond, e) == IF cond THEN {e} ELSE {}

(* -- holes between file extents, a set of disjoint <<start, end>> ---------- *)

first_extent_gap(holes) ==
  IF holes = {} THEN Forever
  ELSE (CHOOSE h \in holes : \A g \in holes : h[1] <= g[1])[1]

RECURSIVE MergeNext(_, _, _)
MergeNext(holes, s, e) ==
  LET next == {h \in holes : s <= h[1] /\ h[1] <= e} IN
  IF next = {} THEN holes \cup {<<s, e>>}
  ELSE LET h == CHOOSE x \in next : TRUE
       IN MergeNext(holes \ {h}, s, IF h[2] > e THEN h[2] ELSE e)

\* The hole takes its own end when it is merged with the one before it.
add_file_extent_hole(holes, s, e) ==
  LET prev == {h \in holes : h[1] < s /\ h[2] >= s
                             /\ \A g \in holes : g[1] < s => g[1] <= h[1]}
      start == IF prev = {} THEN s ELSE (CHOOSE h \in prev : TRUE)[1]
  IN MergeNext(holes \ prev, start, e)

\* {None} stands for -EEXIST: the range is not inside one hole.
del_file_extent_hole(holes, s, e) ==
  LET within == {h \in holes : h[1] <= s /\ s < h[2] /\ e <= h[2]} IN
  IF within = {} THEN {None}
  ELSE LET h == CHOOSE x \in within : TRUE IN
       (holes \ {h}) \cup (IF h[1] < s THEN {<<h[1], s>>} ELSE {})
                     \cup (IF e < h[2] THEN {<<e, h[2]>>} ELSE {})

RECURSIVE copy_file_extent_holes(_, _)
copy_file_extent_holes(dst, src) ==
  IF src = {} THEN dst
  ELSE LET h == CHOOSE x \in src : \A g \in src : x[1] <= g[1]
       IN copy_file_extent_holes(add_file_extent_hole(dst, h[1], h[2]), src \ {h})

(* -- records on the heap --------------------------------------------------- *)

NewRecord(ino) ==
  [ino |-> ino, refs |-> 1, item |-> FALSE, nlink |-> 0, isize |-> 0,
   nbytes |-> 0, mode |-> "none", nodatasum |-> FALSE, link |-> 0, size |-> 0,
   diritem |-> FALSE, extent |-> FALSE, start |-> None, end |-> 0,
   holes |-> {}, csum |-> FALSE, nocsum |-> FALSE, orphans |-> <<>>,
   backrefs |-> <<>>, errors |-> {}, checked |-> FALSE, merging |-> FALSE]

FreshNode(refs) ==
  [refs |-> refs, current |-> None,
   cache |-> [c \in {"root", "inode"} |-> <<>>]]

NewId(w) == CHOOSE i \in 1..(Cardinality(DOMAIN w.heap) + 1) : i \notin DOMAIN w.heap

\* The record of ino in cache c of node n, as get_inode_rec(.., 1) leaves it:
\* present, and referenced from this cache alone.
get_inode_rec(w, n, c, ino) ==
  LET cache == w.node[n].cache[c]
      id == NewId(w)
      enter(heap) == [w EXCEPT !.heap = heap,
                               !.node[n].cache[c] = (ino :> id) @@ cache]
  IN CASE ino \notin DOMAIN cache -> enter((id :> NewRecord(ino)) @@ w.heap)
       [] ino \in DOMAIN cache /\ w.heap[cache[ino]].refs > 1 ->
            enter((id :> [w.heap[cache[ino]] EXCEPT !.refs = 1])
                  @@ [w.heap EXCEPT ![cache[ino]].refs = @ - 1])
       [] OTHER -> w

RecordId(w, n, c, ino) == w.node[n].cache[c][ino]

free_inode_rec(w, id) ==
  IF w.heap[id].refs > 1 THEN [w EXCEPT !.heap[id].refs = @ - 1]
  ELSE [w EXCEPT !.heap = Drop(w.heap, id)]

can_free_inode_rec(rec) ==
  rec.errors = {} /\ rec.checked /\ rec.item /\ rec.nlink = rec.link
  /\ rec.backrefs = <<>>

TypeMatched(rec, b) ==
  IF b.diritem /\ b.dirindex /\ b.type # rec.mode
  THEN [b EXCEPT !.errors = @ \cup {"FILETYPE_UNMATCH"}] ELSE b

Resolved(rec, b) ==
  b.diritem /\ b.dirindex /\ b.ref /\ b.errors = {} /\ rec.nlink = rec.link

CheckedErrors(rec) ==
  LET file == rec.mode = "file" IN
  UNION {IF rec.mode = "dir" /\ rec.size # rec.isize THEN {"DIR_ISIZE_WRONG"} ELSE {},
         IF rec.mode = "dir" /\ rec.extent THEN {"ODD_FILE_EXTENT"} ELSE {},
         IF file /\ rec.diritem THEN {"ODD_DIR_ITEM"} ELSE {},
         IF file /\ rec.size # rec.nbytes THEN {"FILE_NBYTES_WRONG"} ELSE {},
         IF file /\ rec.nlink > 0 /\ ~NoHoles
            /\ (rec.end < rec.isize \/ first_extent_gap(rec.holes) < rec.isize)
         THEN {"FILE_EXTENT_DISCOUNT"} ELSE {},
         IF file /\ rec.csum /\ rec.nodatasum THEN {"ODD_CSUM_ITEM"} ELSE {},
         IF file /\ rec.nocsum /\ ~rec.nodatasum THEN {"SOME_CSUM_MISSING"} ELSE {}}

KeepOrFree(w, n, c, id, rec) ==
  IF can_free_inode_rec(rec)
  THEN [w EXCEPT !.heap = Drop(w.heap, id),
                 !.node[n].cache[c] = Drop(w.node[n].cache[c], rec.ino)]
  ELSE [w EXCEPT !.heap[id] = rec]

WithoutResolved(rec) ==
  [rec EXCEPT !.backrefs =
     SelectSeq([i \in DOMAIN rec.backrefs |-> TypeMatched(rec, rec.backrefs[i])],
               LAMBDA b : ~Resolved(rec, b))]

MaybeFree(w, n, c, id, rec) ==
  CASE ~rec.item -> w
    [] rec.item /\ (~rec.checked \/ rec.merging) -> [w EXCEPT !.heap[id] = WithoutResolved(@)]
    [] OTHER -> KeepOrFree(w, n, c, id, [WithoutResolved(rec) EXCEPT
                                           !.errors = @ \cup CheckedErrors(rec)])

maybe_free_inode_rec(w, n, c, id) == MaybeFree(w, n, c, id, w.heap[id])

(* -- names and references of an inode -------------------------------------- *)

SameBackref(b, dir, name) == b.dir = dir /\ b.name = name

get_inode_backref(rec, dir, name) ==
  IF rec.ino # Multiple
     /\ \E i \in DOMAIN rec.backrefs : SameBackref(rec.backrefs[i], dir, name)
  THEN rec
  ELSE [rec EXCEPT !.backrefs = Append(@,
         [dir |-> dir, name |-> name, index |-> 0, type |-> "none",
          diritem |-> FALSE, dirindex |-> FALSE, ref |-> FALSE, errors |-> {}])]

BackrefAt(rec, dir, name) ==
  IF rec.ino = Multiple THEN Len(rec.backrefs)
  ELSE CHOOSE i \in DOMAIN rec.backrefs : SameBackref(rec.backrefs[i], dir, name)

Noted(b, index, type, item) ==
  CASE item = "dirindex" ->
         [b EXCEPT !.errors = @ \cup If(b.dirindex, "DUP_DIR_INDEX")
                                \cup If(b.ref /\ b.index # index, "INDEX_UNMATCH")
                                \cup If(b.diritem /\ b.type # type, "FILETYPE_UNMATCH"),
                   !.index = index, !.type = type, !.dirindex = TRUE]
    [] item = "diritem" ->
         [b EXCEPT !.errors = @ \cup If(b.diritem, "DUP_DIR_ITEM")
                                \cup If(b.dirindex /\ b.type # type, "FILETYPE_UNMATCH"),
                   !.type = type, !.diritem = TRUE]
    [] item = "ref" ->
         [b EXCEPT !.errors = @ \cup If(b.ref, "DUP_INODE_REF")
                                \cup If(b.dirindex /\ b.index # index, "INDEX_UNMATCH"),
                   !.index = IF b.dirindex /\ b.index # index THEN @ ELSE index,
                   !.ref = TRUE]

NoteBackref(rec, i, index, type, item, errors) ==
  [rec EXCEPT !.backrefs[i] = Noted([@ EXCEPT !.errors = @ \cup errors], index, type, item),
              !.link = IF item = "diritem" THEN @ + 1 ELSE @]

NoteIn(rec, dir, index, name, type, item, errors) ==
  NoteBackref(rec, BackrefAt(rec, dir, name), index, type, item, errors)

AddBackref(w, n, c, id, dir, index, name, type, item, errors) ==
  maybe_free_inode_rec(
    [w EXCEPT !.heap[id] = NoteIn(get_inode_backref(@, dir, name),
                                  dir, index, name, type, item, errors)],
    n, c, id)

AddBackrefOf(w, n, c, ino, dir, index, name, type, item, errors) ==
  AddBackref(w, n, c, RecordId(w, n, c, ino), dir, index, name, type, item, errors)

add_inode_backref(w, n, c, ino, dir, index, name, type, item, errors) ==
  AddBackrefOf(get_inode_rec(w, n, c, ino), n, c, ino, dir, index, name, type, item, errors)

(* -- one record folded into another, one node's caches into another's ------ *)

RECURSIVE MergeBackrefs(_, _, _, _, _)
MergeBackrefs(w, n, c, ino, refs) ==
  IF refs = <<>> THEN w
  ELSE LET b == Head(refs)
           add(v, found, index, type, item) ==
             IF found THEN add_inode_backref(v, n, c, ino, b.dir, index, b.name,
                                             type, item, b.errors)
             ELSE v
           w1 == add(w, b.dirindex, b.index, b.type, "dirindex")
           w2 == add(w1, b.diritem, 0, b.type, "diritem")
       IN MergeBackrefs(add(w2, b.ref, b.index, "none", "ref"), n, c, ino, Tail(refs))

\* dst is the id of a record of cache c of node n; it is left with merging reset.
MergedHoles(d, src) ==
  LET copied == IF first_extent_gap(d.holes) > first_extent_gap(src.holes)
                THEN copy_file_extent_holes(d.holes, src.holes) ELSE d.holes
  IN IF src.start # None /\ d.start # None /\ d.end < src.start
     THEN add_file_extent_hole(copied, d.end, src.start) ELSE copied

\* The inode item's fields come from the record that has one.
MergedItem(d, src) ==
  IF src.item /\ ~d.item
  THEN [d EXCEPT !.nlink = src.nlink, !.isize = src.isize, !.nbytes = src.nbytes,
                 !.mode = src.mode, !.nodatasum = src.nodatasum, !.item = TRUE]
  ELSE d

\* a mutant: the links the merged names brought with them are added once more
LinksTwice(d, src) ==
  [MergedItem(d, src) EXCEPT
     !.diritem = @ \/ src.diritem, !.extent = @ \/ src.extent,
     !.csum = @ \/ src.csum, !.nocsum = @ \/ src.nocsum,
     !.holes = MergedHoles(d, src), !.link = @ + src.link, !.size = @ + src.size,
     !.errors = @ \cup src.errors, !.merging = FALSE]

MergedRecord(d, src) ==
  LET named == Len(SelectSeq(src.backrefs, LAMBDA b : b.diritem))
      both == src.start # None /\ d.start # None
  IN [MergedItem(d, src) EXCEPT
        !.diritem = @ \/ src.diritem, !.extent = @ \/ src.extent,
        !.csum = @ \/ src.csum, !.nocsum = @ \/ src.nocsum,
        !.holes = MergedHoles(d, src),
        !.link = @ + src.link - named,
        !.size = @ + src.size,
        !.start = IF @ = None THEN src.start ELSE @,
        !.end = IF src.start # None /\ (d.start = None \/ @ < src.end) THEN src.end ELSE @,
        !.errors = @ \cup src.errors
                     \cup If(both /\ d.end > src.start, "FILE_EXTENT_OVERLAP")
                     \cup If(src.item /\ d.item, "DUP_INODE_ITEM"),
        !.merging = FALSE]

merge_inode_recs(w, src, n, c, dst) ==
  LET merged == MergeBackrefs([w EXCEPT !.heap[dst].merging = TRUE], n, c,
                              w.heap[dst].ino, src.backrefs)
  IN [merged EXCEPT !.heap[dst] = MergedRecord(@, src)]

\* One record of cache c of node s is shared with, moved to or merged into node n.
Ended(w, n, conflict, ended) ==
  IF ~ended THEN w
  ELSE [w EXCEPT !.heap[conflict].checked = TRUE,
                 !.node[n].current = IF @ = conflict THEN None ELSE @]

SpliceInto(w, n, c, id, conflict) ==
  free_inode_rec(
    maybe_free_inode_rec(Ended(merge_inode_recs(w, w.heap[id], n, c, conflict),
                               n, conflict, w.heap[id].checked),
                         n, c, conflict),
    id)

SpliceFound(w, n, c, ino, id) == SpliceInto(w, n, c, id, RecordId(w, n, c, ino))

SpliceTaken(w, n, c, ino, id) ==
  IF ino \notin DOMAIN w.node[n].cache[c]
  THEN [w EXCEPT !.node[n].cache[c] = (ino :> id) @@ @]
  ELSE SpliceFound(get_inode_rec(w, n, c, ino), n, c, ino, id)

SpliceRecord(w, s, n, c, ino, move) ==
  SpliceTaken(IF move THEN [w EXCEPT !.node[s].cache[c] = Drop(@, ino)]
              ELSE [w EXCEPT !.heap[RecordId(w, s, c, ino)].refs = @ + 1],
              n, c, ino, RecordId(w, s, c, ino))

RECURSIVE SpliceCache(_, _, _, _, _, _)
SpliceCache(w, s, n, c, inos, move) ==
  IF inos = {} THEN w
  ELSE LET ino == CHOOSE i \in inos : \A j \in inos : i <= j
       IN SpliceCache(SpliceRecord(w, s, n, c, ino, move), s, n, c, inos \ {ino}, move)

CheckCurrent(w, n, cur) ==
  IF cur = None THEN w
  ELSE maybe_free_inode_rec([w EXCEPT !.heap[cur].checked = TRUE], n, "inode", cur)

SetCurrent(w, n, ino) == [w EXCEPT !.node[n].current = RecordId(w, n, "inode", ino)]

MoveCurrent(w, n, ino) ==
  SetCurrent(get_inode_rec(CheckCurrent(w, n, w.node[n].current), n, "inode", ino), n, ino)

SpliceAll(w, s, n, c) ==
  SpliceCache(w, s, n, c, DOMAIN w.node[s].cache[c], w.node[s].refs = 0)

FollowCurrent(w, n, mine, ino) ==
  IF ino > 0 /\ (mine # None => ino > w.heap[mine].ino) THEN MoveCurrent(w, n, ino) ELSE w

FollowFrom(w, n, ino) == FollowCurrent(w, n, w.node[n].current, ino)

splice_shared_node(w, s, n) ==
  LET cur == w.node[s].current
  IN FollowFrom(SpliceAll(SpliceAll([w EXCEPT !.node[s].refs = @ - 1], s, n, "root"),
                          s, n, "inode"),
                n, IF cur = None THEN 0 ELSE w.heap[cur].ino)

(* -- the items of a leaf ---------------------------------------------------- *)

Current(v, n) == v.node[n].current

process_inode_item(v, n, it) ==
  LET id == Current(v, n)
      rec == v.heap[id]
      new == [rec EXCEPT !.nlink = it.nlink, !.isize = it.isize, !.nbytes = it.nbytes,
                         !.mode = it.mode, !.nodatasum = @ \/ it.nodatasum, !.item = TRUE,
                         !.errors = @ \cup If(it.nlink = 0, "NO_ORPHAN_ITEM")]
  IN IF rec.item THEN [v EXCEPT !.heap[id].errors = @ \cup {"DUP_INODE_ITEM"}]
     ELSE maybe_free_inode_rec([v EXCEPT !.heap[id] = new], n, "inode", id)

\* The entries of one directory item: names whose hashes collide share an item.
RECURSIVE DirEntries(_, _, _, _)
DirEntries(v, n, it, entries) ==
  IF entries = <<>> THEN v
  ELSE LET e == Head(entries)
           id == Current(v, n)
           v1 == [v EXCEPT !.heap[id].size = @ + NameLen[e.name],
                           !.heap[id].errors = @ \cup If(it.t = "diritem" /\ it.off # Hash[e.name],
                                                         "ODD_DIR_ITEM")]
           cache == IF e.loc = "root" THEN "root" ELSE "inode"
           ino == IF e.loc = "unknown" THEN Multiple ELSE e.to
       IN DirEntries(add_inode_backref(v1, n, cache, ino, it.ino, it.off, e.name,
                                       e.type, it.t, {}),
                     n, it, Tail(entries))

ManyIndexed(v, id, it) ==
  [v EXCEPT !.heap[id].errors =
     @ \cup If(it.t = "dirindex" /\ Len(it.entries) > 1, "DUP_DIR_INDEX")]

process_dir_item(v, n, it) ==
  ManyIndexed(DirEntries([v EXCEPT !.heap[Current(v, n)].diritem = TRUE], n, it, it.entries),
              Current(v, n), it)

\* INODE_REF and INODE_EXTREF items differ in where the directory is stored.
RECURSIVE RefEntries(_, _, _, _)
RefEntries(v, n, it, entries) ==
  IF entries = <<>> THEN v
  ELSE LET e == Head(entries)
       IN RefEntries(add_inode_backref(v, n, "inode", it.ino, e.dir, e.index, e.name,
                                       "none", "ref", {}),
                     n, it, Tail(entries))

process_inode_ref(v, n, it) == RefEntries(v, n, it, it.entries)

\* it.found of the it.len bytes on disk have checksums; it.written: the extent
\* item of a preallocated extent says part of it has been written.
process_file_extent(v, n, it) ==
  LET id == Current(v, n)
      rec == v.heap[id]
      end == IF rec.start = None THEN it.off ELSE rec.end
      known == it.kind \in {"reg", "prealloc"}
      counted == IF it.kind = "inline" \/ (known /\ it.disk) THEN it.len ELSE 0
      covered == CASE it.kind = "inline" -> RoundUp(it.len) [] known -> it.len [] OTHER -> 0
      sums == known /\ it.disk
  IN [v EXCEPT !.heap[id] =
       [rec EXCEPT
          !.extent = TRUE,
          !.start = IF @ = None THEN it.off ELSE @,
          !.end = it.off + covered,
          !.holes = IF end < it.off THEN add_file_extent_hole(@, end, it.off) ELSE @,
          !.size = @ + counted,
          !.csum = @ \/ (sums /\ it.kind = "reg" /\ it.found > 0),
          !.nocsum = @ \/ (sums /\ it.kind = "reg" /\ it.found < it.len),
          !.errors = @ \cup If(end > it.off, "FILE_EXTENT_OVERLAP")
                       \cup If(BadExtent(it), "BAD_FILE_EXTENT")
                       \cup If(it.kind = "inline" /\ it.len > MaxInline, "TOO_LARGE")
                       \cup If(sums /\ it.kind = "prealloc" /\ it.found > 0 /\ ~it.written,
                               "ODD_CSUM_ITEM")]]

ProcessOf(v, n, it) ==
  CASE it.t = "inode" -> process_inode_item(v, n, it)
    [] it.t = "ref" -> process_inode_ref(v, n, it)
    [] it.t \in {"diritem", "dirindex"} -> process_dir_item(v, n, it)
    [] it.t = "extent" -> process_file_extent(v, n, it)
    [] OTHER -> v

ProcessItem(v, n, it) ==
  LET cur == Current(v, n)
  IN IF it.t = "orphan" THEN v
     ELSE ProcessOf(IF cur # None => v.heap[cur].ino < it.ino
                    THEN MoveCurrent(v, n, it.ino) ELSE v, n, it)

\* Each step is bound through a set, which makes TLC evaluate it before the next.
RECURSIVE ProcessItems(_, _, _)
ProcessItems(v, n, items) ==
  IF items = <<>> THEN v
  ELSE CHOOSE r \in {ProcessItems(u, n, Tail(items)) : u \in {ProcessItem(v, n, Head(items))}} : TRUE

NoWalk == [heap |-> <<>>, node |-> <<>>, nodes |-> <<>>, active |-> 0, rootlevel |-> 0,
           err |-> FALSE, errors |-> 0]

\* The caches of the tree itself, at the level of its root.
StartWalk(v, level) ==
  [v EXCEPT !.node = (TopNode :> FreshNode(0)) @@ v.node,
            !.nodes = (level :> TopNode), !.active = level,
            !.rootlevel = level, !.err = FALSE, !.errors = 0]
=============================================================================
