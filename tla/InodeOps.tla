------------------------------ MODULE InodeOps ------------------------------
(* Changes of a subvolume tree in terms of its items: links and names of      *)
(* inodes (inode.c, inode-item.c, dir-item.c) and holes in files (file.c).    *)
(* A tree is the set of its items; an operation takes a set and returns       *)
(* [S, ret], what it leaves when it fails half way included.                  *)
EXTENDS SubvolItems, SequencesExt

CONSTANTS Suffixed    \* name -> the name with ".INO" appended

LostFound == "lf"              \* the name of the directory for files without one

Done(S, ret) == [S |-> S, ret |-> ret]
\* the next step of an operation, unless one before it failed
Then(T, Step(_)) == IF T.ret # "ok" THEN T ELSE Step(T.S)

InodeAt(S, ino) == Owned(S, "inode", ino)
ItemAt(S, t, ino, off) == {it \in S : it.t = t /\ it.ino = ino /\ it.off = off}
Named(S, name) == {it \in S : \E k \in DOMAIN it.entries : it.entries[k].name = name}

(* -- entries of directory items and inode references ----------------------- *)

\* btrfs_insert_empty_item, or room for one more entry in an item that exists
insert_with_overflow(S, t, ino, off, e) ==
  LET at == ItemAt(S, t, ino, off)
  IN CASE at = {} -> Done(S \cup {[t |-> t, ino |-> ino, off |-> off, entries |-> <<e>>]}, "ok")
       [] Named(at, e.name) # {} -> Done(S, "EEXIST")
       [] OTHER -> Done((S \ at) \cup {[it EXCEPT !.entries = Append(@, e)] : it \in at}, "ok")

btrfs_delete_one_dir_name(S, it, name) ==
  IF Len(it.entries) = 1 THEN S \ {it}
  ELSE (S \ {it}) \cup
         {[it EXCEPT !.entries = RemoveAt(@, SelectInSeq(@, LAMBDA e : e.name = name))]}

\* a directory item that exists is kept; an index that exists is an error
btrfs_insert_dir_item(S, name, dir, ino, type, index) ==
  insert_with_overflow(
    insert_with_overflow(S, "diritem", dir, Hash[name], DirEntry(name, ino, type)).S,
    "dirindex", dir, index, DirEntry(name, ino, type))

btrfs_lookup_dir_item(S, dir, name) == Named(ItemAt(S, "diritem", dir, Hash[name]), name)
btrfs_lookup_dir_index(S, dir, name, index) == Named(ItemAt(S, "dirindex", dir, index), name)
btrfs_lookup_inode_ref(S, name, ino, dir) == Named(ItemAt(S, "ref", ino, dir), name)

btrfs_insert_inode_ref(S, name, ino, dir, index) ==
  insert_with_overflow(S, "ref", ino, dir, [dir |-> dir, index |-> index, name |-> name])

\* [S, ret, index]: the index the deleted reference held
btrfs_del_inode_ref(S, name, ino, dir, index) ==
  LET at == btrfs_lookup_inode_ref(S, name, ino, dir)
  IN IF at = {} THEN [S |-> S, ret |-> "ENOENT", index |-> index]
     ELSE LET it == CHOOSE x \in at : TRUE
          IN [S |-> btrfs_delete_one_dir_name(S, it, name), ret |-> "ok",
              index |-> it.entries[SelectInSeq(it.entries, LAMBDA e : e.name = name)].index]

(* -- inode items -------------------------------------------------------------- *)

\* the inode item of ino with one field changed by f
ChangeInode(S, ino, F(_)) ==
  IF InodeAt(S, ino) = {} THEN Done(S, "ENOENT")
  ELSE Done((S \ InodeAt(S, ino)) \cup {F(it) : it \in InodeAt(S, ino)}, "ok")

btrfs_insert_inode(S, ino, nlink, isize, nbytes, mode) ==
  IF InodeAt(S, ino) # {} THEN Done(S, "EEXIST")
  ELSE Done(S \cup {[t |-> "inode", ino |-> ino, nlink |-> nlink, isize |-> isize,
                     nbytes |-> nbytes, mode |-> mode, nodatasum |-> FALSE]}, "ok")

btrfs_make_root_dir(S, nodesize) ==
  Then(btrfs_insert_inode(S, RootDir, 1, 0, nodesize, "dir"),
       LAMBDA S1 : btrfs_insert_inode_ref(S1, "..", RootDir, RootDir, 0))

btrfs_new_inode(S, ino, mode) == btrfs_insert_inode(S, ino, 0, 0, 0, mode)

btrfs_add_orphan_item(S, ino) ==
  IF ItemAt(S, "orphan", Orphans, ino) # {} THEN Done(S, "EEXIST")
  ELSE Done(S \cup {[t |-> "orphan", ino |-> Orphans, off |-> ino]}, "ok")

(* -- links ------------------------------------------------------------------- *)

IndexLimit == 100              \* 2^64, where indexes wrap

btrfs_find_free_dir_index(S, dir) ==
  LET used == {it.off : it \in {x \in S : x.t = "dirindex" /\ x.ino = dir}}
  IN IF used = {} THEN 2 ELSE (Max(used) + 1) % IndexLimit

check_dir_conflict(S, name, dir, index) ==
  CASE InodeAt(S, dir) = {} -> "ENOENT"
    [] \E it \in InodeAt(S, dir) : it.mode # "dir" -> "ENOTDIR"
    [] InodeAt(S, dir) # {} /\ (\A it \in InodeAt(S, dir) : it.mode = "dir") ->
         IF btrfs_lookup_dir_item(S, dir, name) # {}
            \/ btrfs_lookup_dir_index(S, dir, name, index) # {} THEN "EEXIST" ELSE "ok"

LinkRef(S, ino, dir, name, index, ignore) ==
  LET T == btrfs_insert_inode_ref(S, name, ino, dir, index)
  IN IF T.ret = "ok" THEN ChangeInode(T.S, ino, LAMBDA it : [it EXCEPT !.nlink = @ + 1])
     ELSE Done(S, IF ignore THEN "ok" ELSE T.ret)

LinkAt(S, ino, dir, name, type, index, ignore, conflict) ==
  IF conflict # "ok" /\ ~(ignore /\ conflict = "EEXIST") THEN Done(S, conflict)
  ELSE Then(LinkRef(S, ino, dir, name, index, ignore),
         LAMBDA S1 : Then(btrfs_insert_dir_item(S1, name, dir, ino, type, index),
         LAMBDA S2 : ChangeInode(S2, dir, LAMBDA it : [it EXCEPT !.isize = @ + 2 * NameLen[name]])))

AddLinkAt(S, ino, dir, name, type, index, ignore) ==
  LinkAt(S, ino, dir, name, type, index, ignore, check_dir_conflict(S, name, dir, index))

\* index 0 asks for a free one
btrfs_add_link(S, ino, dir, name, type, index, ignore) ==
  AddLinkAt(S, ino, dir, name, type,
            IF index # 0 THEN index ELSE btrfs_find_free_dir_index(S, dir), ignore)

\* "one": the positive result a caller that tests for a negative one passes over
Shrink(S, dir, name) ==
  IF InodeAt(S, dir) = {} THEN Done(S, "one")
  ELSE ChangeInode(S, dir, LAMBDA it : [it EXCEPT !.isize = IF @ >= NameLen[name]
                                                            THEN @ - NameLen[name] ELSE @])
DropEntry(S, at, dir, name) ==
  IF at = {} THEN Done(S, "ENOENT")
  ELSE Shrink(btrfs_delete_one_dir_name(S, CHOOSE it \in at : TRUE, name), dir, name)

\* the index is the one the deleted reference named, not the one looked up before
UnlinkEntries(R, dir, name, hasItem, hasIndex) ==
  Then(IF hasIndex /\ R.ret = "ok"
       THEN DropEntry(R.S, btrfs_lookup_dir_index(R.S, dir, name, R.index), dir, name)
       ELSE Done(R.S, R.ret),
       LAMBDA S1 : IF hasItem THEN DropEntry(S1, btrfs_lookup_dir_item(S1, dir, name), dir, name)
                   ELSE Done(S1, "ok"))

UnlinkRef(T, ino, dir, name, index) ==
  IF T.ret # "ok" THEN [S |-> T.S, ret |-> T.ret, index |-> index]
  ELSE btrfs_del_inode_ref(T.S, name, ino, dir, index)

btrfs_unlink(S, ino, dir, index, name) ==
  LET hasRef == btrfs_lookup_inode_ref(S, name, ino, dir) # {}
      hasItem == btrfs_lookup_dir_item(S, dir, name) # {}
      hasIndex == btrfs_lookup_dir_index(S, dir, name, index) # {}
      fewer(it) == [it EXCEPT !.nlink = IF @ > 0 THEN @ - 1 ELSE @]
  IN IF ~hasRef /\ ~hasItem /\ ~hasIndex THEN Done(S, "ENOENT")
     ELSE UnlinkEntries(IF hasRef THEN UnlinkRef(ChangeInode(S, ino, fewer), ino, dir, name, index)
                        ELSE [S |-> S, ret |-> "ok", index |-> index],
                        dir, name, hasItem, hasIndex)

\* [S, ret, ino]: the directory of that name, made if there is none
MkdirNew(T, ino) == [S |-> T.S, ret |-> T.ret, ino |-> ino]
btrfs_mkdir(S, name, dir, ino) ==
  LET at == btrfs_lookup_dir_item(S, dir, name)
      found(it) == it.entries[SelectInSeq(it.entries, LAMBDA e : e.name = name)]
  IN IF at # {}
     THEN LET e == found(CHOOSE it \in at : TRUE)
          IN [S |-> S, ret |-> IF e.type # "dir" THEN "EEXIST" ELSE "ok", ino |-> e.to]
     ELSE MkdirNew(Then(btrfs_new_inode(S, ino, "dir"),
                        LAMBDA S1 : btrfs_add_link(S1, ino, dir, name, "dir", 0, FALSE)), ino)

get_highest_inode(S) == Max({it.ino : it \in {x \in S : x.ino < Orphans}})

RECURSIVE LinkUnder(_, _, _, _, _)
LinkTry(T, S, ino, dir, name, type) ==
  IF T.ret = "EEXIST" THEN LinkUnder(S, ino, dir, Suffixed[name], type) ELSE T
LinkUnder(S, ino, dir, name, type) ==
  LinkTry(btrfs_add_link(S, ino, dir, name, type, 0, FALSE), S, ino, dir, name, type)

LinkIn(M, ino, name, type) ==
  IF M.ret # "ok" THEN Done(M.S, M.ret) ELSE LinkUnder(M.S, ino, M.ino, name, type)

link_inode_to_lostfound(S, ino, name, type) ==
  LinkIn(btrfs_mkdir(S, LostFound, RootDir, get_highest_inode(S) + 1), ino, name, type)

(* -- holes ------------------------------------------------------------------- *)

\* Whether an extent covers part of the range: the one before it is looked at,
\* and the one after that.  An extent at the very offset counts as none.
btrfs_get_extent(S, ino, off, len) ==
  LET before == {it \in Owned(S, "extent", ino) : it.off < off}
      prev == CHOOSE it \in before : \A x \in before : x.off <= it.off
  IN /\ ItemAt(S, "extent", ino, off) = {}
     /\ \/ before # {} /\ prev.off + prev.ram > off
        \/ \E it \in Owned(S, "extent", ino) : off < it.off /\ it.off < off + len

btrfs_insert_file_extent(S, ino, off, disk, len) ==
  CASE NoHoles /\ ~disk -> Done(S, "ok")
    [] ~(NoHoles /\ ~disk) /\ ItemAt(S, "extent", ino, off) # {} -> Done(S, "EEXIST")
    [] OTHER -> Done(S \cup {[t |-> "extent", ino |-> ino, off |-> off, kind |-> "reg",
                              len |-> len, disk |-> disk, xoff |-> 0, ram |-> len,
                              comp |-> FALSE, found |-> IF disk THEN len ELSE 0,
                              written |-> TRUE]}, "ok")

btrfs_punch_hole(S, ino, off, len) ==
  IF btrfs_get_extent(S, ino, off, len) THEN Done(S, "EEXIST")
  ELSE btrfs_insert_file_extent(S, ino, off, FALSE, len)

\* The names of which directory item, index and reference are there and agree.
IntactNames(S) ==
  {x \in UNION {{[dir |-> it.ino, name |-> e.name, ino |-> e.to] :
                   e \in {it.entries[i] : i \in DOMAIN it.entries}} :
                it \in {y \in S : y.t = "diritem"}} :
     /\ \E d \in InodeAt(S, x.dir) : d.mode = "dir"
     /\ \E r \in btrfs_lookup_inode_ref(S, x.name, x.ino, x.dir) : \E i \in DOMAIN r.entries :
          /\ r.entries[i].name = x.name
          /\ \E d \in ItemAt(S, "dirindex", x.dir, r.entries[i].index) : \E j \in DOMAIN d.entries :
               d.entries[j].name = x.name /\ d.entries[j].to = x.ino}
=============================================================================
