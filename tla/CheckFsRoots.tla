---------------------------- MODULE CheckFsRoots ----------------------------
(* btrfs check, original mode, without --repair: the walk over every         *)
(* subvolume tree (check_fs_roots) and the check of the references between   *)
(* subvolumes (check_root_refs).  Blocks reachable from several trees are    *)
(* walked once: what was found below them is kept with the block and spliced *)
(* into the records of every later tree.                                     *)
EXTENDS InodeRecords

CONSTANTS Filesystems  \* the filesystems checked: [blk, bad, noext, rootdirs, items]

VARIABLES fs,       \* the filesystem, never changed: blk (block to contents),
                    \* bad (blocks that cannot be used), noext (blocks without
                    \* extent item), tree (root item of each tree), items (of
                    \* the root tree, in key order)
          pos,      \* the next item of the root tree
          w,        \* the walk: records and shared nodes
          roots,    \* subvolume records
          verdict,  \* what check_fs_root returned for each tree
          refsok    \* what check_root_refs returned
vars == <<fs, pos, w, roots, verdict, refsok>>

Live(t) == fs.tree[t].refs > 0

\* A tree being deleted (root_refs 0) is only walked for what it shares.
process_one_leaf(v, t, b) ==
  IF v.rootlevel = v.active /\ ~Live(t) THEN v
  ELSE ProcessItems(v, v.nodes[v.active], fs.blk[b].items)

(* -- shared blocks ------------------------------------------------------------ *)

\* References in the extent tree: pointers from tree roots and from nodes.
BlockRefs(b) ==
  IF b \in fs.noext THEN 0
  ELSE Cardinality({t \in DOMAIN fs.tree : fs.tree[t].root = b})
       + Cardinality({p \in DOMAIN fs.blk : \E i \in DOMAIN fs.blk[p].kids : fs.blk[p].kids[i] = b})

RECURSIVE FreeRecords(_, _)
FreeRecords(v, ids) ==
  IF ids = {} THEN v
  ELSE LET id == CHOOSE i \in ids : TRUE IN FreeRecords(free_inode_rec(v, id), ids \ {id})

\* A shared node every tree has been through goes, with what its caches hold.
Forget(v, b) ==
  LET cached == UNION {{v.node[b].cache[c][i] : i \in DOMAIN v.node[b].cache[c]} :
                       c \in {"root", "inode"}}
  IN IF v.node[b].refs > 0 THEN v
     ELSE FreeRecords([v EXCEPT !.node = Drop(v.node, b)], cached)

\* [v, skip]: skip when what is below the block is known already.
enter_shared_node(v, t, b) ==
  LET level == fs.blk[b].level
      v1 == [v EXCEPT !.node[b].refs = @ - 1]
      v2 == splice_shared_node(v, b, v.nodes[v.active])
  IN CASE level = v.active -> [v |-> v, skip |-> FALSE]
       [] level # v.active /\ b \notin DOMAIN v.node ->
            [v |-> [v EXCEPT !.node = (b :> FreshNode(BlockRefs(b))) @@ @,
                             !.nodes = (level :> b) @@ @,
                             !.active = level],
             skip |-> FALSE]
       [] level # v.active /\ b \in DOMAIN v.node /\ v.rootlevel = v.active /\ ~Live(t) ->
            [v |-> Forget(v1, b), skip |-> TRUE]
       [] OTHER -> [v |-> Forget(v2, b), skip |-> TRUE]

LeaveTo(v, t, s, up) ==
  IF up < v.rootlevel \/ Live(t) THEN splice_shared_node(v, s, v.nodes[up])
  ELSE [v EXCEPT !.node[s].refs = @ - 1]

LeaveLevel(v, t, level, up) ==
  LeaveTo([v EXCEPT !.nodes = Drop(v.nodes, level), !.active = up], t, v.nodes[level], up)

leave_shared_node(v, t, level) ==
  IF level = v.rootlevel THEN v
  ELSE LeaveLevel(v, t, level,
                  CHOOSE i \in DOMAIN v.nodes : i > level
                     /\ \A j \in DOMAIN v.nodes : j > level => i <= j)

(* -- the walk of one tree ---------------------------------------------------- *)

\* walk_down_tree and walk_up_tree together: the block, its children in order,
\* and the shared node it opened closed again.  v.err stops the walk.
RECURSIVE WalkBlock(_, _, _)
RECURSIVE WalkKids(_, _, _)
WalkEntered(e, t, b, rest) ==
  WalkKids(IF e.skip THEN e.v
           ELSE IF b \in fs.bad THEN [e.v EXCEPT !.err = TRUE]
           ELSE WalkBlock(e.v, t, b), t, rest)

WalkKids(v, t, kids) ==
  IF kids = <<>> \/ v.err THEN v
  ELSE WalkEntered(IF BlockRefs(Head(kids)) > 1 THEN enter_shared_node(v, t, Head(kids))
                   ELSE [v |-> v, skip |-> FALSE],
                   t, Head(kids), Tail(kids))

LeaveIfShared(v, t, level) ==
  IF v.err \/ v.active # level THEN v ELSE leave_shared_node(v, t, level)

WalkBlock(v, t, b) ==
  LeaveIfShared(IF fs.blk[b].level = 0 THEN process_one_leaf(v, t, b)
                ELSE WalkKids(v, t, fs.blk[b].kids), t, fs.blk[b].level)

(* -- the verdict on one tree -------------------------------------------------- *)

check_root_dir(rec) ==
  /\ rec.item /\ rec.errors = {} /\ rec.nlink = 1 /\ rec.link = 0
  /\ rec.backrefs # <<>>
  /\ LET b == rec.backrefs[1]
     IN b.ref /\ b.index = 0 /\ b.name = ".." /\ ~b.dirindex /\ ~b.diritem

TreeLeaves(t) ==
  LET Kids(b) == {fs.blk[b].kids[i] : i \in DOMAIN fs.blk[b].kids}
      one == {fs.tree[t].root} \cup Kids(fs.tree[t].root)
  IN {b \in one \cup UNION {Kids(b) : b \in one} : fs.blk[b].level = 0}

TreeItems(t) ==
  UNION {{fs.blk[b].items[i] : i \in DOMAIN fs.blk[b].items} : b \in TreeLeaves(t) \ fs.bad}

check_orphan_item(t, ino) ==
  \E it \in TreeItems(t) : it.t = "orphan" /\ it.off = ino

\* The errors left with a record are written into it, and it may be shared.
FinalErrors(rec) ==
  [rec EXCEPT
     !.errors = @ \cup If(~rec.item, "NO_INODE_ITEM")
                \cup If(rec.link # rec.nlink, "LINK_COUNT_WRONG"),
     !.backrefs = [i \in DOMAIN @ |->
        [@[i] EXCEPT !.errors = @ \cup If(~rec.backrefs[i].diritem, "NO_DIR_ITEM")
                                  \cup If(~rec.backrefs[i].dirindex, "NO_DIR_INDEX")
                                  \cup If(~rec.backrefs[i].ref, "NO_INODE_REF")]]]

JudgeRecord(v, id, rec, special, odd) ==
  IF special \/ (odd /\ can_free_inode_rec(rec))
  THEN free_inode_rec([v EXCEPT !.heap[id] = IF special THEN @ ELSE rec], id)
  ELSE [free_inode_rec([v EXCEPT !.heap[id] = FinalErrors(rec)], id) EXCEPT !.errors = @ + 1]

JudgeTaken(v, t, ino, id, rec) ==
  JudgeRecord([v EXCEPT !.node[TopNode].cache["inode"] = Drop(@, ino)], id,
              [rec EXCEPT !.errors = IF check_orphan_item(t, ino) THEN @ \ {"NO_ORPHAN_ITEM"}
                                     ELSE @],
              ino \in {RootDir, Orphans}, "NO_ORPHAN_ITEM" \in rec.errors)

JudgeIno(v, t, ino, id) == JudgeTaken(v, t, ino, id, v.heap[id])

RECURSIVE JudgeRecords(_, _, _)
JudgeRecords(v, t, inos) ==
  IF inos = {} THEN v
  ELSE LET ino == CHOOSE i \in inos : \A j \in inos : i <= j
       IN JudgeRecords(JudgeIno(v, t, ino, RecordId(v, TopNode, "inode", ino)),
                       t, inos \ {ino})

\* Without --repair; a tree without a record of its root directory passes.
check_inode_recs(v, t) ==
  LET cache == v.node[TopNode].cache["inode"]
      dir == RootDir \in DOMAIN cache /\ ~check_root_dir(v.heap[cache[RootDir]])
  IN IF ~Live(t) THEN v
     ELSE JudgeRecords([v EXCEPT !.errors = IF dir THEN 1 ELSE 0], t, DOMAIN cache)

(* -- references between subvolumes ------------------------------------------- *)

NewRoot == [ref |-> 0, item |-> FALSE, backrefs |-> <<>>]

get_root_rec(r, id) == IF id \in DOMAIN r THEN r ELSE (id :> NewRoot) @@ r

get_root_backref(rec, parent, dir, name, index) ==
  IF \E i \in DOMAIN rec.backrefs : rec.backrefs[i].parent = parent
                                    /\ SameBackref(rec.backrefs[i], dir, name)
  THEN rec
  ELSE [rec EXCEPT !.backrefs = Append(@,
         [parent |-> parent, dir |-> dir, name |-> name, index |-> index,
          diritem |-> FALSE, dirindex |-> FALSE, forward |-> FALSE, back |-> FALSE,
          reachable |-> FALSE, errors |-> {}])]

NoteRootRef(b, index, item, errors) ==
  LET fixed == b.dirindex \/ b.back \/ b.forward
  IN [b EXCEPT
        !.errors = @ \cup errors
                     \cup If(item # "diritem" /\ fixed /\ b.index # index, "INDEX_UNMATCH")
                     \cup If(item = "rootref" /\ b.forward, "DUP_ROOT_REF")
                     \cup If(item = "rootbackref" /\ b.back, "DUP_ROOT_BACKREF"),
        !.index = IF item # "diritem" /\ ~fixed THEN index ELSE @,
        !.diritem = @ \/ item = "diritem",
        !.dirindex = @ \/ item = "dirindex",
        !.forward = @ \/ item = "rootref",
        !.back = @ \/ item = "rootbackref",
        !.reachable = @ \/ (b.forward /\ item = "diritem") \/ (b.diritem /\ item = "rootref")]

AddRootRef(rec, i, index, item, errors) ==
  [rec EXCEPT !.backrefs[i] = NoteRootRef(@, index, item, errors),
              !.ref = LET b == rec.backrefs[i]
                      IN IF (item = "diritem" /\ b.forward)
                            \/ (item = "rootref" /\ ~b.forward /\ b.diritem)
                         THEN @ + 1 ELSE @]

RootRefAt(rec, parent, dir, name) ==
  CHOOSE j \in DOMAIN rec.backrefs : rec.backrefs[j].parent = parent
                                     /\ SameBackref(rec.backrefs[j], dir, name)

AddRootRefIn(rec, parent, dir, index, name, item, errors) ==
  AddRootRef(rec, RootRefAt(rec, parent, dir, name), index, item, errors)

add_root_backref(r, id, parent, dir, index, name, item, errors) ==
  [get_root_rec(r, id) EXCEPT ![id] =
     AddRootRefIn(get_root_backref(@, parent, dir, name, index),
                  parent, dir, index, name, item, errors)]

\* 1: child of parent, 0: child of others only, 2: child of nobody.
ParentsOf(T, child) ==
  {fs.items[i].parent : i \in {j \in DOMAIN fs.items : fs.items[j].t = T
                                                       /\ fs.items[j].child = child}}

is_child_root(parent, child) ==
  IF parent \in ParentsOf("rootref", child) \cup ParentsOf("rootbackref", child) THEN 1
  ELSE IF ParentsOf("rootbackref", child) # {} THEN 0 ELSE 2

RECURSIVE RootBackrefs(_, _, _, _)
RootBackrefs(r, t, id, refs) ==
  IF refs = <<>> THEN r
  ELSE LET b == Head(refs)
           add(q, found, item) == IF found
             THEN add_root_backref(q, id, t, b.dir, b.index, b.name, item, b.errors) ELSE q
       IN RootBackrefs(add(add(r, b.diritem, "diritem"), b.dirindex, "dirindex"),
                       t, id, Tail(refs))

RECURSIVE MergeRoots(_, _, _, _)
MergeRoots(r, v, t, ids) ==
  IF ids = {} THEN r
  ELSE LET id == CHOOSE i \in ids : \A j \in ids : i <= j
           rec == v.heap[RecordId(v, TopNode, "root", id)]
       IN MergeRoots(IF is_child_root(t, id) = 0 THEN r
                     ELSE RootBackrefs(r, t, id, rec.backrefs),
                     v, t, ids \ {id})

merge_root_recs(r, v, t) == MergeRoots(r, v, t, DOMAIN v.node[TopNode].cache["root"])

\* Roots reachable only through roots nobody references lose their references.
Unreached(r) == {id \in DOMAIN r : r[id].ref > 0 /\ \E i \in DOMAIN r[id].backrefs :
                   r[id].backrefs[i].reachable
                   /\ get_root_rec(r, r[id].backrefs[i].parent)[r[id].backrefs[i].parent].ref = 0}

RECURSIVE DropUnreached(_)
DropUnreached(r) ==
  IF Unreached(r) = {} THEN r
  ELSE LET id == CHOOSE i \in Unreached(r) : \A j \in Unreached(r) : i <= j
           i == CHOOSE k \in DOMAIN r[id].backrefs : r[id].backrefs[k].reachable
                  /\ get_root_rec(r, r[id].backrefs[k].parent)[r[id].backrefs[k].parent].ref = 0
       IN DropUnreached([r EXCEPT ![id].backrefs[i].reachable = FALSE, ![id].ref = @ - 1])

\* a mutant: a link without the subvolume's backward reference is passed
BackrefNotAsked(b) ==
  b.errors \cup If(~b.diritem, "NO_DIR_ITEM") \cup If(~b.dirindex, "NO_DIR_INDEX")
  \cup If(~b.forward, "NO_ROOT_REF")

RootErrors(b) ==
  b.errors \cup If(~b.diritem, "NO_DIR_ITEM") \cup If(~b.dirindex, "NO_DIR_INDEX")
  \cup If(~b.back, "NO_ROOT_BACKREF") \cup If(~b.forward, "NO_ROOT_REF")

RootOrphan(id) == \E i \in DOMAIN fs.items : fs.items[i].t = "orphan" /\ fs.items[i].child = id

RootWrong(r, id) ==
  IF r[id].ref = 0 /\ id >= RootDir THEN ~RootOrphan(id) /\ r[id].item
  ELSE \/ r[id].ref > 0 /\ ~r[id].item
       \/ \E i \in DOMAIN r[id].backrefs :
            r[id].backrefs[i].reachable /\ RootErrors(r[id].backrefs[i]) # {}

NoRootWrong(r) == \A id \in DOMAIN r : ~RootWrong(r, id)

check_root_refs(r) == NoRootWrong(DropUnreached([get_root_rec(r, 5) EXCEPT ![5].ref = 1]))

(* -- the items of the root tree in turn --------------------------------------- *)

Start(f) ==
  /\ fs = f
  /\ pos = 1
  /\ w = NoWalk
  /\ roots = <<>>
  /\ verdict = [t \in DOMAIN f.tree |-> "none"]
  /\ refsok = "none"

Init == \E f \in Filesystems : Start(f)

AtItem(t) == refsok = "none" /\ pos <= Len(fs.items) /\ fs.items[pos].t = t

\* A root block that is not clean ends the check of its tree before it starts.
WalkTree(v, t, top) ==
  IF top \in fs.noext THEN [StartWalk(v, fs.blk[top].level) EXCEPT !.err = TRUE]
  ELSE WalkBlock(StartWalk(v, fs.blk[top].level), t, top)

Judge(v, t) == check_inode_recs(CheckCurrent(v, TopNode, Current(v, TopNode)), t)

RootItemSeen(r, t) == IF Live(t) THEN [r EXCEPT ![t].item = TRUE] ELSE r

check_fs_root ==
  /\ AtItem("rootitem")
  /\ \E t \in {fs.items[pos].child} :
       IF fs.tree[t].root \in fs.bad
       THEN /\ verdict' = [verdict EXCEPT ![t] = "bad"]
            /\ roots' = RootItemSeen(get_root_rec(roots, t), t)
            /\ UNCHANGED w
       ELSE \E v \in {WalkTree(w, t, fs.tree[t].root)} : \E x \in {Judge(v, t)} :
              /\ roots' = merge_root_recs(RootItemSeen(get_root_rec(roots, t), t), v, t)
              /\ w' = x
              /\ verdict' = [verdict EXCEPT ![t] = IF x.err \/ x.errors > 0 THEN "bad" ELSE "good"]
  /\ pos' = pos + 1
  /\ UNCHANGED <<fs, refsok>>

process_root_ref ==
  /\ AtItem("rootref") \/ AtItem("rootbackref")
  /\ LET it == fs.items[pos]
     IN roots' = add_root_backref(roots, it.child, it.parent, it.dir, it.index, it.name, it.t, {})
  /\ pos' = pos + 1
  /\ UNCHANGED <<fs, w, verdict, refsok>>

OtherItem ==
  /\ AtItem("orphan")
  /\ pos' = pos + 1
  /\ UNCHANGED <<fs, w, roots, verdict, refsok>>

CheckRefs ==
  /\ refsok = "none" /\ pos > Len(fs.items)
  /\ refsok' = IF check_root_refs(roots) THEN "good" ELSE "bad"
  /\ UNCHANGED <<fs, pos, w, roots, verdict>>

Next == check_fs_root \/ process_root_ref \/ OtherItem \/ CheckRefs

Spec == Init /\ [][Next]_vars

(* -- what the checks promise -------------------------------------------------- *)

TreeBlocks(t) ==
  LET Kids(b) == {fs.blk[b].kids[i] : i \in DOMAIN fs.blk[b].kids}
      one == {fs.tree[t].root} \cup Kids(fs.tree[t].root)
  IN one \cup UNION {Kids(b) : b \in one}

TreeGood(t) ==
  /\ TreeBlocks(t) \cap fs.bad = {} /\ fs.tree[t].root \notin fs.noext
  /\ ItemsGood(TreeItems(t))

EarlierGood(t) ==
  \A i, j \in DOMAIN fs.items :
    i < j /\ fs.items[i].t = "rootitem" /\ fs.items[j].t = "rootitem" /\ fs.items[j].child = t
    => verdict[fs.items[i].child] = "good"

RootItems(T, id) == {fs.items[i] : i \in {j \in DOMAIN fs.items : fs.items[j].t = T
                                                                /\ fs.items[j].child = id}}
SubvolEntries(T, id) ==
  UNION {{<<t, x>> : x \in {y \in (TreeItems(t) \X (1..3)) :
                       y[1].t = T /\ y[2] \in DOMAIN y[1].entries
                       /\ Entry(y).loc = "root" /\ Entry(y).to = id}} :
         t \in {u \in DOMAIN fs.tree : Live(u) /\ is_child_root(u, id) # 0}}

\* Subvolume id is linked at (parent, dir, name) by an entry and a forward reference.
EntriesAt(T, id, r) ==
  {x[2] : x \in {y \in SubvolEntries(T, id) : y[1] = r.parent /\ y[2][1].ino = r.dir
                                              /\ Entry(y[2]).name = r.name}}
LinkedAt(id, r) == EntriesAt("diritem", id, r) # {}
LinkGood(id, r) ==
  /\ \E x, y \in EntriesAt("diritem", id, r) \cup EntriesAt("dirindex", id, r) :
       /\ EntriesAt("diritem", id, r) = {x} /\ EntriesAt("dirindex", id, r) = {y}
       /\ y[1].off = r.index /\ Entry(x).type = Entry(y).type
  /\ \E b \in RootItems("rootbackref", id) : b.parent = r.parent /\ b.dir = r.dir
        /\ b.name = r.name /\ b.index = r.index

(***************************************************************************)
(* The subvolume references are passed exactly when every subvolume with a *)
(* root item is linked from its parent by a directory entry and ROOT_REF   *)
(* (or waits for deletion as an orphan), and every such link has the index *)
(* and the ROOT_BACKREF that agree with it.  Stated for trees that were    *)
(* found good; subvolumes are nested one deep.                             *)
(***************************************************************************)
RootRefsExact ==
  refsok # "none" /\ (\A t \in DOMAIN fs.tree : Live(t) => verdict[t] = "good") =>
    (refsok = "good" <=>
       \A id \in {fs.items[i].child : i \in DOMAIN fs.items} \ {5} :
         LET linked == {r \in RootItems("rootref", id) : LinkedAt(id, r)}
             live == \E it \in RootItems("rootitem", id) : Live(id)
         IN IF linked = {} THEN live => RootOrphan(id)
            ELSE live /\ \A r \in linked : LinkGood(id, r))

(***************************************************************************)
(* Walking shared blocks once changes no verdict: as long as every tree    *)
(* checked before was found good, check_fs_root calls a live tree good     *)
(* exactly when its items, read on their own, form a sound tree, whichever *)
(* of its blocks it shares and whichever tree walked them first.  The      *)
(* references between subvolumes are judged as RootRefsExact says.         *)
(***************************************************************************)
VerdictExact ==
  /\ RootRefsExact
  /\ \A t \in DOMAIN fs.tree :
       Live(t) /\ verdict[t] # "none" /\ EarlierGood(t) => (verdict[t] = "good" <=> TreeGood(t))
=============================================================================
