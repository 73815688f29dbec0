---------------------------- MODULE LowmemInodes ----------------------------
(* btrfs check --mode=lowmem on one subvolume tree, with and without --repair *)
(* (check_fs_root of mode-lowmem.c).  Nothing is recorded: the walk takes the *)
(* leaves in order, and whatever an item names is looked up in the tree.  A   *)
(* repair is committed at once, in a transaction of its own, and moves the    *)
(* leaf; the path the walk holds shows the leaf as it was read, until the     *)
(* path is searched again.                                                    *)
EXTENDS InodeOps

CONSTANTS Trees,     \* the trees checked: [items, cuts, repair]
          InoName,   \* inode number -> its decimal digits as a name
          MaxIno     \* bound on the inodes that lost+found is made anew for

VARIABLES items,    \* the tree
          cuts,     \* the keys its leaves begin with, but for the first leaf
          repair,   \* --repair was given
          w,        \* the walk: path, inode at hand, errors
          phase,
          start     \* history: the items the run began with
vars == <<items, cuts, repair, w, phase, start>>

(* -- paths ------------------------------------------------------------------------- *)

Key(it) == <<it.ino, Rank(it), Offset(it)>>
Less(a, b) ==
  \/ a[1] < b[1]
  \/ a[1] = b[1] /\ (a[2] < b[2] \/ (a[2] = b[2] /\ a[3] < b[3]))
End == <<1000, 0, 0>>                  \* past the last slot
FirstOf(S) == IF S = {} THEN End ELSE Key(CHOOSE x \in S : \A y \in S \ {x} : Before(x, y))
LastOf(S) == Key(CHOOSE x \in S : \A y \in S \ {x} : Before(y, x))

LeafOf(key) == Cardinality({c \in cuts : c = key \/ Less(c, key)})
LeafItems(S, n) == {it \in S : LeafOf(Key(it)) = n}
At(v) == CHOOSE it \in v.leaf : Key(it) = v.at

\* The path is searched again: a leaf that a commit has moved is not the one
\* process_one_leaf began with.
SearchLeaf(v, n, at) ==
  [v EXCEPT !.n = n, !.leaf = LeafItems(v.S, n), !.at = at, !.moved = IF v.dirty \/ n # v.n THEN Min({2, @ + 1}) ELSE @,
            !.dirty = FALSE]
btrfs_search_slot(v, key) ==
  SearchLeaf(v, LeafOf(key),
             FirstOf({it \in LeafItems(v.S, LeafOf(key)) : ~Less(Key(it), key)}))
Found(v, key) == \E it \in v.S : Key(it) = key

\* [v, more]
btrfs_next_item(v) ==
  LET rest == {it \in v.leaf : Less(v.at, Key(it))}
  IN IF rest # {} THEN [v |-> [v EXCEPT !.at = FirstOf(rest)], more |-> TRUE]
     ELSE IF v.n = Cardinality(cuts) THEN [v |-> [v EXCEPT !.at = End], more |-> FALSE]
     ELSE [v |-> SearchLeaf(v, v.n + 1, FirstOf(LeafItems(v.S, v.n + 1))), more |-> TRUE]

(* -- errors ---------------------------------------------------------------------------- *)

\* A negative number or-ed into an error bitmap sets LAST_ITEM and DIR_COUNT_AGAIN.
Negative == {"neg", "last", "again"}
Err(S) == IF S = {} THEN {} ELSE {"some"}

(* -- looking up what an item names --------------------------------------------------------- *)

NoIndex == IndexLimit - 1        \* (u64)-1
EntrySizeOf(e) == 30 + NameLen[e.name]
Matches(e, ino, name, type) == e.loc = "inode" /\ e.to = ino /\ e.type = type /\ e.name = name

\* The indexes from the last one down, the one at (u64)-1 passed over.  The bytes
\* seen are not reset from one item to the next.
RECURSIVE find_dir_index(_, _, _, _, _)
find_dir_index(todo, seen, ino, name, type) ==
  IF todo = {} THEN {"dirindex"}
  ELSE LET it == CHOOSE x \in todo : \A y \in todo : y.off <= x.off
           sizes == [k \in 0..Len(it.entries) |->
                       Total(1..k, [j \in 1..k |-> EntrySizeOf(it.entries[j])])]
           total == sizes[Len(it.entries)]
       IN IF \E k \in DOMAIN it.entries : seen + sizes[k - 1] < total
                                          /\ Matches(it.entries[k], ino, name, type)
          THEN {}
          ELSE find_dir_index(todo \ {it}, IF seen < total THEN total ELSE seen, ino, name, type)

find_dir_item(S, T, dir, off, ino, name, type) ==
  IF T = "dirindex" /\ off = NoIndex
  THEN find_dir_index({it \in Owned(S, T, dir) : it.off < NoIndex}, 0, ino, name, type)
  ELSE IF \E it \in ItemAt(S, T, dir, off) :
            \E k \in DOMAIN it.entries : Matches(it.entries[k], ino, name, type)
  THEN {} ELSE {T}

\* the index of the reference, or none: NoIndex as index asks for any
find_inode_ref(S, ino, dir, name, index) ==
  LET hits == {e \in UNION {{it.entries[k] : k \in DOMAIN it.entries} :
                            it \in ItemAt(S, "ref", ino, dir)} :
                 e.name = name /\ index \in {NoIndex, e.index}}
  IN {e.index : e \in hits}

(* -- repairing a name ---------------------------------------------------------------------- *)

\* [v, ret]; the search that changes something moves the leaf
Committed(v, T) ==
  [v |-> [v EXCEPT !.S = T.S, !.dirty = @ \/ T.S # v.S \/ T.ret = "EEXIST"], ret |-> T.ret]

\* a mutant: names are not compared, and all the inode has in the directory goes
DeletesByInode(v, dir, ino, index, name, type, wrong) ==
  Committed(v, IF Cardinality(wrong) = 2
               THEN Done({it \in v.S : CASE it.t = "ref" -> ~(it.ino = ino /\ it.off = dir)
                                         [] it.t \in {"diritem", "dirindex"} ->
                                              ~(it.ino = dir /\ it.entries[1].to = ino)
                                         [] OTHER -> TRUE}, "ok")
               ELSE btrfs_add_link(v.S, ino, dir, name, type, index, TRUE))

\* wrong: which of directory item, index and reference is missing, one or two of them
repair_ternary_lowmem(v, dir, ino, index, name, type, wrong) ==
  Committed(v, IF Cardinality(wrong) = 2 THEN btrfs_unlink(v.S, ino, dir, index, name)
               ELSE btrfs_add_link(v.S, ino, dir, name, type, index, TRUE))

repair_inode_item_missing(v, ino, type) ==
  [v EXCEPT !.dirty = TRUE,
     !.S = btrfs_insert_inode(@, ino, 0, 0, 0, IF type = "dir" THEN "dir" ELSE "file").S]

\* [v, ret]: "ok" when some error was removed
repair_dir_item(v, dir, ino, index, type, name, wrong) ==
  IF "noinode" \in wrong THEN [v |-> repair_inode_item_missing(v, ino, type), ret |-> "ok"]
  ELSE IF wrong = {"mode"} THEN [v |-> v, ret |-> "mode"]
  ELSE repair_ternary_lowmem(v, dir, ino, index, name, type, wrong)

(* -- one inode reference item, entry by entry ------------------------------------------------ *)

\* The pass begins again when a repair succeeds: redo.
RefWrong(S, it, e, mode) ==
  find_dir_item(S, "dirindex", it.off, e.index, it.ino, e.name, mode)
    \cup find_dir_item(S, "diritem", it.off, Hash[e.name], it.ino, e.name, mode)
RootRefGood(it, e) == e.index = 0 /\ e.name = ".." /\ it.off = RootDir

RefRepaired(v, T, wrong) ==
  IF T.ret = "ok" THEN [T.v EXCEPT !.redo = TRUE]
  ELSE [T.v EXCEPT !.err = @ \cup Err(wrong)]
RefSeen(v, it, e, wrong) ==
  IF wrong = {} \/ ~repair THEN [v EXCEPT !.err = @ \cup Err(wrong)]
  ELSE RefRepaired(v, repair_ternary_lowmem(v, it.off, it.ino, e.index, e.name, v.m.mode, wrong),
                   wrong)
Counted(v, e) == [v EXCEPT !.seen = @ + 1, !.name = IF v.seen = 0 THEN e.name ELSE @]

\* an error of the root directory's own reference is counted, and never repaired
RefEntry(v, it, e) ==
  IF it.ino = RootDir THEN [v EXCEPT !.err = @ \cup (IF RootRefGood(it, e) THEN {} ELSE {"some"})]
  ELSE RefSeen(v, it, e, RefWrong(v.S, it, e, v.m.mode))

RECURSIVE RefEntries(_, _, _)
RefEntries(v, it, k) ==
  IF v.redo \/ k > Len(it.entries) THEN v
  ELSE RefEntries(RefEntry(Counted(v, it.entries[k]), it, it.entries[k]), it, k + 1)

\* seen: the references counted so far, kept only when the pass is not begun again
check_inode_ref(v, it) == RefEntries([v EXCEPT !.seen = v.refs, !.redo = FALSE], it, 1)

(* -- one directory item or index, entry by entry ----------------------------------------------- *)

\* A reference found leaves its index in v.index, for the entries after it too.
RefFound(v, e, dir, at) ==
  [v |-> IF at = {} THEN v ELSE [v EXCEPT !.index = CHOOSE i \in at : TRUE],
   wrong |-> (IF at = {} THEN {"ref"} ELSE {})
             \cup find_dir_item(v.S, "diritem", dir, Hash[e.name], e.to, e.name, e.type)]
TypeSeen(v, e, dir, mode) ==
  IF mode # e.type THEN [v |-> [v EXCEPT !.type = mode], wrong |-> {"mode"}]
  ELSE RefFound([v EXCEPT !.type = mode], e, dir,
                find_inode_ref(v.S, e.to, dir, e.name, v.index))
\* [v, wrong]; entries of subvolumes are passed over
DirWrong(v, e, dir) ==
  CASE e.loc = "root" -> [v |-> v, wrong |-> {}]
    [] e.loc = "unknown" \/ (e.loc = "inode" /\ InodeAt(v.S, e.to) = {}) ->
         [v |-> v, wrong |-> {"noinode"}]
    [] e.loc = "inode" /\ InodeAt(v.S, e.to) # {} ->
         TypeSeen(v, e, dir, (CHOOSE it \in InodeAt(v.S, e.to) : TRUE).mode)

DirRepaired(T, wrong) ==
  IF T.ret = "ok" THEN [T.v EXCEPT !.redo = TRUE]
  ELSE [T.v EXCEPT !.err = @ \cup Err(wrong)]
DirSeen(D, e, dir) ==
  IF D.wrong = {} \/ ~repair THEN [D.v EXCEPT !.err = @ \cup Err(D.wrong)]
  ELSE DirRepaired(repair_dir_item(D.v, dir, e.to, D.v.index, D.v.type, e.name, D.wrong), D.wrong)
Sized(v, it, e) ==
  [v EXCEPT !.size = @ + NameLen[e.name],
            !.err = @ \cup (IF it.t = "diritem" /\ it.off # Hash[e.name] THEN Negative ELSE {})]

\* an index with several entries is only complained about
RECURSIVE DirEntries(_, _, _)
DirEntries(v, it, k) ==
  IF v.redo \/ k > Len(it.entries) \/ (it.t = "dirindex" /\ k > 1) THEN v
  ELSE DirEntries(DirSeen(DirWrong(Sized(v, it, it.entries[k]), it.entries[k], it.ino),
                          it.entries[k], it.ino), it, k + 1)

\* the path is searched for the item again, and an item gone is a negative error
DirOut(v, key) ==
  [btrfs_search_slot(v, key) EXCEPT !.err = @ \cup (IF Found(v, key) THEN {} ELSE Negative)]

check_dir_item(v, it) == DirEntries([v EXCEPT !.redo = FALSE], it, 1)

(* -- one file extent ------------------------------------------------------------------------------ *)

Wrap == 1000                           \* 2^64
Difference(a, b) == (a - b) % Wrap

CsumWrong(v, it) ==
  \/ it.found > 0 /\ v.m.nodatasum
  \/ ~v.m.nodatasum /\ it.kind = "reg" /\ it.disk /\ it.found < it.len
  \/ ~v.m.nodatasum /\ it.kind = "prealloc" /\ it.found > 0 /\ ~it.written
Gap(v, it) == ~NoHoles /\ v.end # it.off
punch_extent_hole(v, ino, off, len) == Committed(v, btrfs_punch_hole(v.S, ino, off, len))
GapPunched(T) == IF T.ret = "ok" THEN T.v ELSE [T.v EXCEPT !.err = @ \cup {"some"}]
AfterGap(v, it) ==
  CASE ~Gap(v, it) -> v
    [] Gap(v, it) /\ ~repair -> [v EXCEPT !.err = @ \cup {"some"}]
    [] Gap(v, it) /\ repair ->
         GapPunched(punch_extent_hole(v, it.ino, v.end, Difference(it.off, v.end)))
ExtentCounted(v, it, counts) ==
  [v EXCEPT !.end = @ + it.len, !.xsize = @ + (IF counts THEN it.len ELSE 0)]
CsumSeen(v, it) == [v EXCEPT !.err = @ \cup (IF CsumWrong(v, it) THEN {"some"} ELSE {})]
InlineSeen(v, it) ==
  [v EXCEPT !.err = @ \cup (IF it.len = 0 \/ it.len > MaxInline THEN {"some"} ELSE {})]

check_file_extent(v, it) ==
  CASE it.kind = "inline" -> ExtentCounted(InlineSeen(v, it), it, TRUE)
    [] it.kind \in {"reg", "prealloc"} -> ExtentCounted(AfterGap(CsumSeen(v, it), it), it, it.disk)
    [] OTHER -> [v EXCEPT !.err = @ \cup {"some"}]

(* -- the end of an inode ---------------------------------------------------------------------------- *)

count_dir_isize(S, ino) ==
  Total(Owned(S, "diritem", ino) \cup Owned(S, "dirindex", ino),
        [it \in Owned(S, "diritem", ino) \cup Owned(S, "dirindex", ino) |-> EntrySize(it)])

Research(v) == btrfs_search_slot(v, v.at)
SetInode(v, T) == Research([v EXCEPT !.S = T.S, !.dirty = TRUE])
Failed(v, T) == IF T.ret = "ok" THEN v ELSE [v EXCEPT !.err = @ \cup {"some"}]

repair_inode_nbytes_lowmem(v, T) == Failed(SetInode(v, T), T)
repair_dir_isize_lowmem(v, T) == Failed(SetInode(v, T), T)
repair_inode_orphan_item_lowmem(v, T) == Failed(SetInode(v, T), T)

LinksSet(v, T, refs) ==
  [SetInode(v, T) EXCEPT !.m.nlink = IF T.ret = "ok" THEN refs ELSE @,
                         !.failed = T.ret # "ok"]
repair_inode_nlinks_lowmem(v) ==
  LinksSet(v,
    Then(IF v.refs > 0 THEN Done(v.S, "ok")
         ELSE link_inode_to_lostfound(v.S, v.ino, IF v.name = "" THEN InoName[v.ino] ELSE v.name,
                                      v.m.mode),
         LAMBDA S1 : ChangeInode(S1, v.ino, LAMBDA it : [it EXCEPT !.nlink =
                                                         IF v.refs = 0 THEN 1 ELSE v.refs])),
    IF v.refs = 0 THEN 1 ELSE v.refs)

has_orphan_item(S, ino) == ItemAt(S, "orphan", Orphans, ino) # {}
Wrong(v, bad) == [v EXCEPT !.err = @ \cup (IF bad THEN {"some"} ELSE {})]

DirSize(v) ==
  IF repair /\ "again" \in v.err
  THEN [v EXCEPT !.err = @ \ {"again"}, !.size = count_dir_isize(v.S, v.ino)] ELSE v
DirLinks(v) ==
  IF repair /\ (v.m.nlink # 1 \/ v.refs # 1) THEN repair_inode_nlinks_lowmem(v) ELSE v
DirIsize(v) ==
  IF v.m.isize = v.size \/ ~repair THEN Wrong(v, v.m.isize # v.size)
  ELSE repair_dir_isize_lowmem(v, ChangeInode(v.S, v.ino, LAMBDA it : [it EXCEPT !.isize = v.size]))
DirLinkCount(v) == Wrong(v, v.m.nlink # 1)
CloseDir(v) == DirIsize(DirLinkCount(DirLinks(DirSize(v))))

LinksChecked(v) == Wrong(v, v.failed)
FileLinks(v) ==
  CASE v.m.nlink # v.refs /\ repair -> LinksChecked(repair_inode_nlinks_lowmem(v))
    [] v.m.nlink = v.refs /\ v.m.nlink = 0 /\ ~has_orphan_item(v.S, v.ino) /\ repair ->
         repair_inode_orphan_item_lowmem(v, btrfs_add_orphan_item(v.S, v.ino))
    [] OTHER -> Wrong(v, v.m.nlink # v.refs \/ (v.m.nlink = 0 /\ ~has_orphan_item(v.S, v.ino)))
\* looked at only in a file that uses no bytes
FileHole(v) ==
  IF v.m.nbytes # 0 \/ NoHoles \/ v.end >= v.m.isize \/ ~repair
  THEN Wrong(v, v.m.nbytes = 0 /\ ~NoHoles /\ v.end < v.m.isize)
  ELSE GapPunched(punch_extent_hole(v, v.ino, v.end, v.m.isize - v.end))
FileBytes(v) ==
  IF v.m.nbytes = v.xsize \/ ~repair THEN Wrong(v, v.m.nbytes # v.xsize)
  ELSE repair_inode_nbytes_lowmem(v, ChangeInode(v.S, v.ino, LAMBDA it : [it EXCEPT !.nbytes = v.xsize]))
CloseFile(v) == FileBytes(FileHole(FileLinks(v)))

StepOn(v) == IF "last" \in v.err THEN btrfs_next_item(v).v ELSE v
CloseAt(v) == StepOn(IF v.m.mode = "dir" THEN CloseDir(v) ELSE CloseFile(v))

(* -- the walk ----------------------------------------------------------------------------------------- *)

NoInode == [nlink |-> 0, isize |-> 0, nbytes |-> 0, mode |-> "file", nodatasum |-> FALSE]
\* what an item that is not an inode item says when it is read as one
Garbage == [nlink : {0, 1}, isize : {0}, nbytes : {0, 1}, mode : {"dir", "file", "none"},
            nodatasum : {FALSE}]

Fresh(S) ==
  [S |-> S, n |-> 0, leaf |-> {}, at |-> End, moved |-> 0, dirty |-> FALSE,
   ino |-> 0, m |-> NoInode, size |-> 0, refs |-> 0, name |-> "", end |-> 0, xsize |-> 0,
   err |-> {}, last |-> End, index |-> NoIndex, type |-> "none", seen |-> 0, redo |-> FALSE,
   failed |-> FALSE, acc |-> {}, bad |-> FALSE]

Begin(S, C, rep) ==
  /\ items = S /\ start = S /\ cuts = C /\ repair = rep
  /\ w = Fresh(S) /\ phase = "first"
Init == \E T \in Trees : Begin(T.items, T.cuts, T.repair)

\* w' and the tree it leaves
Walk(v, p) == w' = v /\ items' = v.S /\ phase' = p /\ UNCHANGED <<cuts, repair, start>>

\* The reference is inserted only where it is found already, which fails.
repair_fs_first_inode(v, wrong) ==
  IF "noinode" \in wrong THEN repair_inode_item_missing(v, RootDir, "dir")
  ELSE IF "ref" \in wrong THEN [v EXCEPT !.dirty = TRUE] ELSE v
FirstWrong(S) ==
  (IF InodeAt(S, RootDir) = {} THEN {"noinode"} ELSE {})
    \cup (IF find_inode_ref(S, RootDir, RootDir, "..", 0) = {} THEN {"ref"} ELSE {})

ReadLeaf(v, n) == [SearchLeaf(v, n, End) EXCEPT !.moved = 0]

\* what is found here is not counted: the caller looks at a negative result only
check_fs_first_inode ==
  /\ phase = "first"
  /\ Walk(ReadLeaf(IF repair THEN repair_fs_first_inode(w, FirstWrong(w.S)) ELSE w, 0), "leaf")

(* The next leaf: walk_up_tree stays in the leaf while the slot after the one  *)
(* at hand is one of its, and goes to the next leaf otherwise.                 *)
walk_up_tree(v) ==
  CASE \E it \in v.leaf : v.at # End /\ Less(v.at, Key(it)) -> Walk([v EXCEPT !.moved = 0], "leaf")
    [] ~(\E it \in v.leaf : v.at # End /\ Less(v.at, Key(it))) /\ v.n < Cardinality(cuts) ->
         Walk(ReadLeaf(v, v.n + 1), "leaf")
    [] OTHER -> Walk(v, "done")

\* check_btrfs_root after walk_down_tree: a negative result ends the walk
WalkedDown(v) ==
  IF "neg" \in v.acc THEN Walk(v, "done") ELSE walk_up_tree(v)
LeafDone(v) == WalkedDown([v EXCEPT !.bad = @ \/ v.acc \ {"last"} # {}])

StartOf(leaf) ==
  {it \in leaf : it.t = "inode" \/ \E x \in leaf : x.ino < it.ino}
process_one_leaf ==
  /\ phase = "leaf"
  /\ IF StartOf(w.leaf) = {} THEN LeafDone([w EXCEPT !.at = End, !.acc = {}])
     ELSE Walk([w EXCEPT !.at = FirstOf(StartOf(w.leaf)), !.acc = {}], "inode")

\* back in process_one_leaf: the next inode, unless the path has left the leaf
\* moved twice, the leaf may be back at its first place
Returned(v) ==
  \/ ("last" \in v.acc \/ v.moved > 0) /\ LeafDone(v)
  \/ "last" \notin v.acc /\ v.moved # 1 /\ Walk(v, "inode")
InodeDone(v) == Returned([v EXCEPT !.acc = @ \cup v.err])

OrphanNext(N) == InodeDone([N.v EXCEPT !.err = IF N.more THEN {} ELSE {"last"}])
Inode(it, m) ==
  Walk([w EXCEPT !.ino = it.ino, !.m = m, !.size = 0, !.refs = 0, !.name = "", !.end = 0,
                 !.xsize = 0, !.err = {}], "next")
Fields(it) == [f \in DOMAIN NoInode |-> it[f]]

InodeItem ==
  /\ phase = "inode"
  /\ \E it \in {At(w)} :
       CASE it.ino = Orphans -> OrphanNext(btrfs_next_item(w))
         [] it.ino # Orphans /\ it.t = "inode" -> Inode(it, Fields(it))
         [] OTHER -> \E g \in Garbage : Inode(it, g)

\* a mutant: the index of the item before is still looked for
IndexNotReset(N) ==
  IF N.more /\ N.v.at[1] = w.ino THEN Walk([N.v EXCEPT !.last = w.at, !.type = "none"], "item")
  ELSE Walk([N.v EXCEPT !.last = w.at, !.err = @ \cup (IF N.more THEN {} ELSE {"last"})], "close")

NextItem(N) ==
  IF N.more /\ N.v.at[1] = w.ino
  THEN Walk([N.v EXCEPT !.last = w.at, !.index = NoIndex, !.type = "none"], "item")
  ELSE Walk([N.v EXCEPT !.last = w.at, !.err = @ \cup (IF N.more THEN {} ELSE {"last"})], "close")
Advance == phase = "next" /\ NextItem(btrfs_next_item(w))

RefDone(v, it) ==
  IF ~v.redo THEN Walk([v EXCEPT !.refs = v.seen], "next")
  ELSE IF Found(v, Key(it)) THEN Walk(btrfs_search_slot([v EXCEPT !.err = w.err], Key(it)), "item")
  ELSE Walk([btrfs_search_slot(v, Key(it)) EXCEPT !.at = LastOf({x \in v.S : Less(Key(x), Key(it))}),
                                                  !.err = w.err], "next")
CheckRef ==
  /\ phase = "item"
  /\ \E it \in {At(w)} : it.t = "ref" /\ RefDone(check_inode_ref(w, it), it)

\* begun again, the sizes are counted twice: DIR_COUNT_AGAIN
DirAgain(v) == [v EXCEPT !.err = w.err \cup {"again"}, !.size = 0]
DirDone(v, it) ==
  IF v.redo /\ Found(v, Key(it)) THEN Walk(btrfs_search_slot(DirAgain(v), Key(it)), "item")
  ELSE Walk(DirOut(IF v.redo THEN DirAgain(v) ELSE v, Key(it)), "next")
CheckDirItem ==
  /\ phase = "item"
  /\ \E it \in {At(w)} :
       /\ it.t \in {"diritem", "dirindex"}
       /\ DirDone(check_dir_item([w EXCEPT !.index = IF it.t = "dirindex" THEN it.off ELSE @], it), it)

CheckExtent ==
  /\ phase = "item"
  /\ \E it \in {At(w)} : it.t = "extent" /\ Walk(check_file_extent(w, it), "next")

CheckOther ==
  /\ phase = "item"
  /\ At(w).t \notin {"ref", "diritem", "dirindex", "extent"}
  /\ Walk(w, "next")

\* The last item of the inode is searched for again; gone, nothing more is verified.
Close ==
  /\ phase = "close" /\ get_highest_inode(w.S) < MaxIno
  /\ IF "last" \notin w.err THEN InodeDone(CloseAt(w))
     ELSE IF Found(w, w.last) THEN InodeDone(CloseAt(btrfs_search_slot(w, w.last)))
     ELSE InodeDone(btrfs_search_slot(w, w.last))

Next == check_fs_first_inode \/ process_one_leaf \/ InodeItem \/ Advance \/ CheckRef
        \/ CheckDirItem \/ CheckExtent \/ CheckOther \/ Close

\* the program goes on while there is a step to take
Fairness == []<>(phase = "done") \/ []<><<TRUE>>_vars
Spec == Init /\ [][Next]_vars /\ Fairness

(* -- what is shown ------------------------------------------------------------------------------------- *)

\* the names that check_inode_ref and check_dir_item find nothing wrong with
WholeNames(S) ==
  {x \in IntactNames(S) : \E m \in InodeAt(S, x.ino) :
     /\ find_dir_item(S, "diritem", x.dir, Hash[x.name], x.ino, x.name, m.mode) = {}
     /\ \E i \in find_inode_ref(S, x.ino, x.dir, x.name, NoIndex) :
          find_dir_item(S, "dirindex", x.dir, i, x.ino, x.name, m.mode) = {}}

\* the names with a directory item and an index that agree, and no reference
EntriesOf(S) ==
  UNION {{[dir |-> it.ino, name |-> e.name, ino |-> e.to] :
            e \in {it.entries[i] : i \in DOMAIN it.entries}} :
         it \in {y \in S : y.t = "diritem"}}
LostRefs(S) ==
  {x \in EntriesOf(S) :
     /\ find_inode_ref(S, x.ino, x.dir, x.name, NoIndex) = {}
     /\ \E m \in InodeAt(S, x.ino) : \E it \in Owned(S, "dirindex", x.dir) :
          /\ find_dir_item(S, "diritem", x.dir, Hash[x.name], x.ino, x.name, m.mode) = {}
          /\ find_dir_item(S, "dirindex", x.dir, it.off, x.ino, x.name, m.mode) = {}}

\* what is looked at but for which no error is counted: the root directory's own
\* items, and the end of a file that has some bytes
Overlooked(S) ==
  \/ FirstWrong(S) # {}
  \/ \E m \in S : m.t = "inode" /\ m.mode = "file" /\ m.nbytes > 0
                  /\ \A e \in Owned(S, "extent", m.ino) : e.off + e.len < m.isize

\* an inode whose first item is the last of a leaf, not the first leaf
Skipped(S) ==
  \E it \in S : /\ \E x \in S : x.ino < it.ino
                /\ \A x \in S : x.ino = it.ino => ~Before(x, it)
                /\ \A x \in S : LeafOf(Key(x)) = LeafOf(Key(it)) => ~Before(it, x)

(***************************************************************************)
(* However the items of a tree lie in leaves: a sound tree is passed, and  *)
(* --repair leaves it as it is; and a tree that is not sound is reported,  *)
(* unless the damage is one that check_inode_item or check_fs_first_inode  *)
(* does not count, or an inode begins with the last item of a leaf.  An    *)
(* error in one item often shows only when another inode's turn comes.     *)
(***************************************************************************)
LowmemVerdict ==
  phase = "done" =>
    /\ ItemsGood(start) => ~w.bad /\ items = start
    /\ ~repair /\ ~ItemsGood(start) /\ ~Overlooked(start) /\ ~Skipped(start) => w.bad

(***************************************************************************)
(* Whatever --repair adds and deletes for damaged names, and however often *)
(* it reads a leaf that a repair has moved in the middle of the walk, the  *)
(* names that were whole at the start are whole at the end.                *)
(***************************************************************************)
LowmemNamesKept == phase = "done" => WholeNames(start) \subseteq WholeNames(items)

(***************************************************************************)
(* "If one of three is missing or mismatched, add the missing one."  In a  *)
(* tree that has lost the reference of a name and nothing else, the        *)
(* reference is what the repair adds: no entry or index of a directory.    *)
(***************************************************************************)
RefAdded ==
  LostRefs(start) # {} /\ WholeNames(start) \cup LostRefs(start) = EntriesOf(start) =>
    \A it \in items : it.t \in {"diritem", "dirindex"} => it \in start
=============================================================================
