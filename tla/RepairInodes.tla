---------------------------- MODULE RepairInodes ----------------------------
(* btrfs check --repair on one subvolume tree (check_fs_root with repair set): *)
(* a walk that stops at the first leaf it cannot read, the leaf dropped, then  *)
(* the names, the root directory and the inodes repaired from the records of   *)
(* that walk.  Every change is committed in a transaction of its own, so the   *)
(* program can be interrupted between any two of them and run again.           *)
EXTENDS InodeRecords, InodeOps

CONSTANTS Damaged,     \* the trees repaired: <<items, those in a leaf that is unreadable>>
          InoName,     \* inode number -> its decimal digits as a name
          MaxCrashes   \* interruptions

VARIABLES items,    \* the committed tree
          lost,     \* items in a leaf that cannot be read
          w,        \* the records of the walk
          phase,    \* where check_fs_root is
          todo,     \* the inodes the phase still goes through
          k,        \* the backref of the first of them, and the part of its repair
          again,    \* something was repaired: walk once more
          crashes,
          names,    \* history: the names that were intact at the start
          indexed   \* history: nothing but directory indexes was damaged
vars == <<items, lost, w, phase, todo, k, again, crashes, names, indexed>>

(* -- names: repair_inode_backrefs ----------------------------------------------- *)

Rec(v, ino) == v.heap[RecordId(v, TopNode, "inode", ino)]
SetRec(v, ino, rec) == [v EXCEPT !.heap[RecordId(v, TopNode, "inode", ino)] = rec]
InosOf(v) == DOMAIN v.node[TopNode].cache["inode"]

RECURSIVE Ascending(_)
Ascending(S) == IF S = {} THEN <<>> ELSE <<Min(S)>> \o Ascending(S \ {Min(S)})

Cut(rec, i) == [rec EXCEPT !.backrefs = RemoveAt(@, i)]

\* a mutant: the index is looked for at the wrong offset
DeletesNothing(S, b) == S \ ItemAt(S, "dirindex", b.dir, b.index - 1)

delete_dir_index(S, b) ==
  LET at == ItemAt(S, "dirindex", b.dir, b.index)
  IN IF at = {} THEN S
     ELSE IF Named(at, b.name) = {} THEN S \ at
     ELSE btrfs_delete_one_dir_name(S, CHOOSE it \in at : TRUE, b.name)

\* a mutant: an index another reference names is left alone
BadWithoutRef(b) == b.dirindex /\ ~b.ref

BadIndex(b) == b.dirindex /\ (~b.ref \/ "INDEX_UNMATCH" \in b.errors)

create_inode_item(S, rec, isroot) ==
  btrfs_insert_inode(S, rec.ino, IF isroot THEN 1 ELSE rec.link,
                     IF rec.diritem THEN rec.size ELSE rec.end, rec.nbytes,
                     IF rec.diritem THEN "dir" ELSE "file")

\* The directory's record learns of the index, if the walk made one.
SizeFound(v, b) ==
  IF b.dir \notin InosOf(v) THEN v
  ELSE SetRec(v, b.dir,
         LET d == Rec(v, b.dir)
             size == d.size + NameLen[b.name]
         IN [d EXCEPT !.size = size,
                      !.errors = (@ \ {"DIR_ISIZE_WRONG"}) \cup
                                 If(size # d.isize, "DIR_ISIZE_WRONG")])

add_missing_dir_index(S, rec, b) ==
  IF ItemAt(S, "dirindex", b.dir, b.index) # {} THEN Done(S, "abort")
  ELSE Done(S \cup {[t |-> "dirindex", ino |-> b.dir, off |-> b.index,
                     entries |-> <<DirEntry(b.name, rec.ino, rec.mode)>>]}, "ok")

(* -- inodes: try_repair_inode, one transaction ---------------------------------- *)

\* x is [S, rec, ret]; ret "hang": the program does not come back.
Repair(S, rec, ret) == [S |-> S, rec |-> rec, ret |-> ret]
Cleared(rec, e) == [rec EXCEPT !.errors = @ \ {e}]

RepairIf(x, e, How(_)) == IF x.ret = "ok" /\ e \in x.rec.errors THEN How(x) ELSE x

KnownTypes(rec) == SelectSeq(rec.backrefs, LAMBDA b : b.dirindex \/ b.diritem)
find_file_type(rec) ==
  IF rec.item THEN rec.mode
  ELSE IF KnownTypes(rec) # <<>> THEN KnownTypes(rec)[1].type ELSE "unknown"

find_file_name(rec) ==
  LET known == SelectSeq(rec.backrefs, LAMBDA b : b.dirindex \/ b.diritem \/ b.ref)
  IN IF known = <<>> THEN InoName[rec.ino] ELSE known[1].name

\* The search never moves off an inline extent.
find_normal_file_extent(S, ino) ==
  LET ext == Owned(S, "extent", ino)
      first == CHOOSE e \in ext : \A f \in ext : e.off <= f.off
  IN IF ext = {} THEN "no" ELSE IF first.kind = "inline" THEN "hang" ELSE "yes"

NewInode(x, type) ==
  LET T == btrfs_new_inode(x.S, x.rec.ino, type)
  IN IF T.ret # "ok" THEN Repair(T.S, x.rec, T.ret)
     ELSE Repair(T.S, [x.rec EXCEPT !.diritem = TRUE, !.mode = type, !.nlink = 0,
                         !.errors = (@ \ {"NO_INODE_ITEM"}) \cup {"LINK_COUNT_WRONG"}], "ok")

repair_inode_no_item(x) ==
  LET type == find_file_type(x.rec)
      normal == IF x.rec.extent THEN find_normal_file_extent(x.S, x.rec.ino) ELSE "no"
  IN IF type # "unknown" THEN NewInode(x, type)
     ELSE IF normal = "hang" THEN [x EXCEPT !.ret = "hang"]
     ELSE NewInode(x, IF normal = "no" /\ x.rec.diritem THEN "dir" ELSE "file")

Filled(x, T, h) ==
  IF T.ret # "ok" THEN Repair(T.S, x.rec, T.ret)
  ELSE LET left == del_file_extent_hole(x.rec.holes, h[1], h[2])
       IN Repair(T.S, [x.rec EXCEPT !.holes = left,
                         !.errors = IF left = {} THEN @ \ {"FILE_EXTENT_DISCOUNT"} ELSE @], "ok")

RECURSIVE FillHoles(_)
FillFirst(x, h) == FillHoles(Filled(x, btrfs_punch_hole(x.S, x.rec.ino, h[1], h[2] - h[1]), h))
FillHoles(x) ==
  IF x.ret # "ok" \/ x.rec.holes = {} THEN x
  ELSE FillFirst(x, CHOOSE h \in x.rec.holes : \A g \in x.rec.holes : h[1] <= g[1])

\* A file without any extent gets one hole; the error stays in the record then.
FillAll(x, T) == Repair(T.S, x.rec, T.ret)
repair_inode_discount_extent(x) ==
  IF x.rec.holes # {} THEN FillHoles(x)
  ELSE FillAll(x, btrfs_punch_hole(x.S, x.rec.ino, 0, RoundUp(x.rec.isize)))

FieldSet(x, T, e) == Repair(T.S, IF T.ret = "ok" THEN Cleared(x.rec, e) ELSE x.rec, T.ret)

repair_inode_isize(x) ==
  FieldSet(x, ChangeInode(x.S, x.rec.ino, LAMBDA it : [it EXCEPT !.isize = x.rec.size]),
           "DIR_ISIZE_WRONG")

repair_inode_orphan_item(x) ==
  FieldSet(x, btrfs_add_orphan_item(x.S, x.rec.ino), "NO_ORPHAN_ITEM")

repair_inode_nbytes(x) ==
  FieldSet(x, ChangeInode(x.S, x.rec.ino, LAMBDA it : [it EXCEPT !.nbytes = x.rec.size]),
           "FILE_NBYTES_WRONG")

\* Every name goes, then those whose three items the walk found come back.
FoundAll(b) == b.dirindex /\ b.diritem /\ b.ref

RECURSIVE UnlinkAll(_, _, _)
UnlinkAll(T, ino, refs) ==
  IF refs = <<>> \/ T.ret \notin {"ok", "one"} THEN Done(T.S, IF T.ret = "one" THEN "ok" ELSE T.ret)
  ELSE UnlinkAll(btrfs_unlink(T.S, ino, Head(refs).dir, Head(refs).index, Head(refs).name),
                 ino, Tail(refs))

RECURSIVE LinkAll(_, _, _)
LinkAll(T, ino, refs) ==
  IF refs = <<>> \/ T.ret # "ok" THEN T
  ELSE LinkAll(btrfs_add_link(T.S, ino, Head(refs).dir, Head(refs).name, Head(refs).type,
                              Head(refs).index, FALSE),
               ino, Tail(refs))

\* a mutant: the names that were found complete are not added back
NamesNotBack(S, rec) ==
  Then(UnlinkAll(Done(S, "ok"), rec.ino, rec.backrefs),
       LAMBDA S1 : ChangeInode(S1, rec.ino, LAMBDA it : [it EXCEPT !.nlink = 0]))

reset_nlink(S, rec) ==
  Then(Then(UnlinkAll(Done(S, "ok"), rec.ino, rec.backrefs),
            LAMBDA S1 : ChangeInode(S1, rec.ino, LAMBDA it : [it EXCEPT !.nlink = 0])),
       LAMBDA S2 : LinkAll(Done(S2, "ok"), rec.ino, SelectSeq(rec.backrefs, FoundAll)))

Linked(x, T, valid) ==
  IF T.ret # "ok" THEN Repair(T.S, Cleared(x.rec, "LINK_COUNT_WRONG"), T.ret)
  ELSE Repair(T.S, [Cleared(x.rec, "LINK_COUNT_WRONG") EXCEPT
                      !.backrefs = valid, !.link = IF valid = <<>> THEN 1 ELSE Len(valid)], "ok")

LinkedOrLost(x, T, valid) ==
  Linked(x, IF T.ret # "ok" \/ valid # <<>> THEN T
            ELSE link_inode_to_lostfound(
                   T.S, x.rec.ino, find_file_name(x.rec),
                   IF find_file_type(x.rec) = "unknown" THEN "file" ELSE find_file_type(x.rec)),
         valid)

repair_inode_nlinks(x) ==
  LinkedOrLost(x, reset_nlink(x.S, x.rec), SelectSeq(x.rec.backrefs, FoundAll))

try_repair_inode(S, rec) ==
  RepairIf(RepairIf(RepairIf(RepairIf(RepairIf(RepairIf(
    Repair(S, rec, "ok"),
    "NO_INODE_ITEM", repair_inode_no_item),
    "FILE_EXTENT_DISCOUNT", repair_inode_discount_extent),
    "DIR_ISIZE_WRONG", repair_inode_isize),
    "NO_ORPHAN_ITEM", repair_inode_orphan_item),
    "LINK_COUNT_WRONG", repair_inode_nlinks),
    "FILE_NBYTES_WRONG", repair_inode_nbytes)

(* -- check_fs_root ---------------------------------------------------------------- *)

\* Names can be looked up: directory items lie at the hash, in directories.
Findable(S) ==
  \A it \in S : it.t \in {"diritem", "dirindex"} =>
    /\ \A m \in InodeAt(S, it.ino) : m.mode = "dir"
    /\ it.t = "diritem" => \A i \in DOMAIN it.entries : it.off = Hash[it.entries[i].name]

\* The tree would be sound with the indexes its references name, and the
\* indexes it has give the right types.
NeedsIndexesOnly(S) ==
  LET others == {it \in S : it.t # "dirindex"}
      refs == {x \in (S \X (1..3)) : x[1].t = "ref" /\ x[2] \in DOMAIN x[1].entries
                                     /\ x[1].ino # RootDir}
      mode(ino) == {m.mode : m \in InodeAt(S, ino)}
  IN /\ ItemsGood(others \cup
          {[t |-> "dirindex", ino |-> Entry(x).dir, off |-> Entry(x).index,
            entries |-> <<DirEntry(Entry(x).name, x[1].ino, m)>>] :
           <<x, m>> \in {y \in (refs \X {"dir", "file", "link"}) : y[2] \in mode(y[1][1].ino)}})
     /\ \A it \in S : it.t = "dirindex" => \A e \in {it.entries[i] : i \in DOMAIN it.entries} :
          mode(e.to) \subseteq {e.type}

Idle == [i |-> 1, part |-> "root"]

Start(S, bad) ==
  /\ items = S /\ lost = bad
  /\ names = IF Findable(S) THEN IntactNames(S \ bad) ELSE {}
  /\ indexed = (bad = {} /\ NeedsIndexesOnly(S))
  /\ w = NoWalk /\ phase = "walk" /\ todo = <<>> /\ k = Idle /\ again = FALSE /\ crashes = 0

Init == \E d \in Damaged : Start(d[1], d[2])

\* The records of the items before the first that cannot be read.
LastChecked(v) == CheckCurrent(v, TopNode, Current(v, TopNode))
Scanned(S) == LastChecked(ProcessItems(StartWalk(NoWalk, 0), TopNode, KeyOrder(S)))

Walk ==
  /\ phase = "walk"
  /\ w' = Scanned({it \in items : \A x \in lost : Before(it, x)})
  /\ phase' = "btree"
  /\ UNCHANGED <<items, lost, todo, k, again, crashes, names, indexed>>

repair_btree ==
  /\ phase = "btree"
  /\ items' = items \ lost /\ lost' = {}
  /\ phase' = "delete" /\ again' = FALSE
  /\ UNCHANGED <<w, todo, k, crashes, names, indexed>>

\* Stage 1: indexes without a reference, or with one that names another index.
BadIndexes ==
  {<<ino, i>> \in InosOf(w) \X (1..9) :
     /\ i \in DOMAIN Rec(w, ino).backrefs /\ BadIndex(Rec(w, ino).backrefs[i])
     /\ ~(ino = RootDir /\ Rec(w, ino).backrefs[i].index = 0)}

DeleteIndex ==
  /\ phase = "delete"
  /\ \E x \in BadIndexes :
       /\ \A y \in BadIndexes : x[1] < y[1] \/ (x[1] = y[1] /\ x[2] <= y[2])
       /\ items' = delete_dir_index(items, Rec(w, x[1]).backrefs[x[2]])
       /\ w' = SetRec(w, x[1], Cut(Rec(w, x[1]), x[2]))
  /\ again' = TRUE
  /\ UNCHANGED <<lost, phase, todo, k, crashes, names, indexed>>

DeletedAll ==
  /\ phase = "delete" /\ BadIndexes = {}
  /\ phase' = "add" /\ todo' = Ascending(InosOf(w)) /\ k' = Idle
  /\ UNCHANGED <<items, lost, w, again, crashes, names, indexed>>

\* Stage 2: what a reference or an entry says is missing.
Ino == Head(todo)
R == Rec(w, Ino)
B == R.backrefs[k.i]
AtBackref(part) == phase = "add" /\ todo # <<>> /\ k.i <= Len(R.backrefs) /\ k.part = part
NextBackref == k' = [i |-> k.i + 1, part |-> "root"]
NextPart(part) == k' = [k EXCEPT !.part = part]

\* the result of a change that must not fail
Commit(T, yes) ==
  /\ items' = IF T.ret = "ok" THEN T.S ELSE items
  /\ phase' = IF T.ret = "ok" THEN phase ELSE "aborted"
  /\ again' = (again \/ yes)

AddRootItem ==
  /\ AtBackref("root")
  /\ IF Ino = RootDir /\ ~R.item THEN Commit(create_inode_item(items, R, TRUE), TRUE)
     ELSE UNCHANGED <<items, phase, again>>
  /\ IF Ino = RootDir /\ B.index = 0 THEN NextBackref ELSE NextPart("index")
  /\ UNCHANGED <<lost, w, todo, crashes, names, indexed>>

AddIndex ==
  /\ AtBackref("index")
  /\ IF ~B.dirindex /\ B.diritem /\ B.ref
     THEN /\ Commit(add_missing_dir_index(items, R, B), TRUE)
          /\ IF B.errors = {}
             THEN /\ w' = SizeFound(SetRec(w, Ino, Cut(R, k.i)), B)
                  /\ NextPart("root")
             ELSE /\ w' = SizeFound(SetRec(w, Ino, [R EXCEPT !.backrefs[k.i].dirindex = TRUE]), B)
                  /\ NextPart("pair")
     ELSE UNCHANGED <<items, phase, again, w>> /\ NextPart("pair")
  /\ UNCHANGED <<lost, todo, crashes, names, indexed>>

\* A conflict ends the work on this record's names.
AddPair ==
  /\ AtBackref("pair")
  /\ IF ~B.dirindex /\ ~B.diritem /\ B.ref
     THEN IF check_dir_conflict(items, B.name, B.dir, B.index) # "ok"
          THEN /\ todo' = Tail(todo) /\ k' = Idle
               /\ UNCHANGED <<items, phase, again>>
          ELSE /\ Commit(btrfs_insert_dir_item(items, B.name, B.dir, Ino, R.mode, B.index), TRUE)
               /\ NextPart("item") /\ UNCHANGED todo
     ELSE UNCHANGED <<items, phase, again, todo>> /\ NextPart("item")
  /\ UNCHANGED <<lost, w, crashes, names, indexed>>

AddItem ==
  /\ AtBackref("item")
  /\ IF FoundAll(B) /\ "INDEX_UNMATCH" \notin B.errors /\ ~R.item
     THEN Commit(create_inode_item(items, R, FALSE), TRUE)
     ELSE UNCHANGED <<items, phase, again>>
  /\ NextBackref
  /\ UNCHANGED <<lost, w, todo, crashes, names, indexed>>

NamesDone ==
  /\ phase = "add" /\ todo # <<>> /\ k.i > Len(R.backrefs)
  /\ todo' = Tail(todo) /\ k' = Idle
  /\ UNCHANGED <<items, lost, w, phase, again, crashes, names, indexed>>

\* Stage 3: whatever was repaired is looked at by a new walk.
LookAgain ==
  /\ phase = "add" /\ todo = <<>> /\ again
  /\ phase' = "walk"
  /\ UNCHANGED <<items, lost, w, todo, k, again, crashes, names, indexed>>

MakeRootDir ==
  /\ phase = "add" /\ todo = <<>> /\ ~again /\ RootDir \notin InosOf(w)
  /\ \E T \in {btrfs_make_root_dir(items, Sector)} :
       /\ items' = IF T.ret = "ok" THEN T.S ELSE items
       /\ phase' = IF T.ret = "ok" THEN "walk" ELSE "aborted"
  /\ UNCHANGED <<lost, w, todo, k, again, crashes, names, indexed>>

StartInodes ==
  /\ phase = "add" /\ todo = <<>> /\ ~again /\ RootDir \in InosOf(w)
  /\ phase' = "inodes" /\ todo' = Ascending(InosOf(w) \ {RootDir, Orphans})
  /\ UNCHANGED <<items, lost, w, k, again, crashes, names, indexed>>

\* What a transaction has changed when a later repair of the inode fails is committed.
RepairRecord(rec, orphan) ==
  IF "NO_ORPHAN_ITEM" \in rec.errors
     /\ can_free_inode_rec(IF orphan THEN Cleared(rec, "NO_ORPHAN_ITEM") ELSE rec)
  THEN Repair(items, rec, "ok")
  ELSE try_repair_inode(items, [rec EXCEPT
         !.errors = (@ \ (IF orphan THEN {"NO_ORPHAN_ITEM"} ELSE {}))
                      \cup If(~rec.item, "NO_INODE_ITEM")
                      \cup If(rec.link # rec.nlink, "LINK_COUNT_WRONG")])

RepairInode ==
  /\ phase = "inodes" /\ todo # <<>>
  /\ \E x \in {RepairRecord(R, ItemAt(items, "orphan", Orphans, Ino) # {})} :
       /\ items' = IF x.ret = "hang" THEN items ELSE x.S
       /\ phase' = IF x.ret = "hang" THEN "hung" ELSE phase
  /\ todo' = Tail(todo)
  /\ UNCHANGED <<lost, w, k, again, crashes, names, indexed>>

Finish ==
  /\ phase = "inodes" /\ todo = <<>>
  /\ phase' = "done"
  /\ UNCHANGED <<items, lost, w, todo, k, again, crashes, names, indexed>>

\* The program is interrupted, or has aborted, and is run again.
Crash ==
  /\ phase # "done" /\ crashes < MaxCrashes
  /\ w' = NoWalk /\ phase' = "walk" /\ todo' = <<>> /\ k' = Idle /\ again' = FALSE
  /\ crashes' = crashes + 1
  /\ UNCHANGED <<items, lost, names, indexed>>

Step ==
  \/ Walk \/ repair_btree \/ DeleteIndex \/ DeletedAll \/ AddRootItem \/ AddIndex \/ AddPair
  \/ AddItem \/ NamesDone \/ LookAgain \/ MakeRootDir \/ StartInodes \/ RepairInode \/ Finish
Next == Step \/ Crash

\* One process that is always ready to run: weak fairness of Next, written out
\* because a step is possible exactly while the program runs.
Running == phase \notin {"done", "aborted", "hung"}
Fairness == []<>~Running \/ []<><<TRUE>>_vars
Spec == Init /\ [][Next]_vars /\ Fairness

(* -- what repair promises ------------------------------------------------------- *)

(***************************************************************************)
(* Whatever else is damaged, a name whose directory item, index and        *)
(* reference agree is there when the repair is done: although the walk may *)
(* have stopped at an unreadable leaf, stage 1 deletes the indexes of      *)
(* names whose references lie behind it, and every name of an inode goes   *)
(* and comes back when its link count is reset.  The program may have been *)
(* interrupted after any of its transactions and run again.                *)
(***************************************************************************)
NamesKept == phase = "done" => names \subseteq IntactNames(items)

(***************************************************************************)
(* Damage to directory indexes alone (lost with their leaf, lost one by    *)
(* one, at another offset, under another name, for another inode) is       *)
(* repaired completely: the tree is sound when the repair is done, the     *)
(* sizes of the directories included, interruptions or not.                *)
(***************************************************************************)
IndexesRebuilt == phase = "done" /\ indexed => ItemsGood(items)

(***************************************************************************)
(* The repair ends: each walk that is started over because something was   *)
(* repaired finds less to repair (or an assertion of the program stops it).*)
(***************************************************************************)
RepairEnds == <>(phase \in {"done", "aborted"})

(***************************************************************************)
(* A reset link count is "the correct one": when the repair is done, the   *)
(* inode item of a file all of whose names are intact counts them.         *)
(***************************************************************************)
LinksCounted ==
  phase = "done" =>
    \A m \in items : m.t = "inode" /\ m.ino # RootDir /\ NamesAgree(items, m.ino, m.mode)
      => m.nlink = Cardinality(Links(items, "diritem", m.ino))
=============================================================================
