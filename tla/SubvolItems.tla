---------------------------- MODULE SubvolItems -----------------------------
(* The items of a subvolume tree, as records: inode items, directory items    *)
(* and indexes, inode references, file extents, orphan items; and what the    *)
(* items of a sound tree satisfy.  The key of an item is (ino, t, off); the   *)
(* offset of an inode item is 0, of an inode reference the directory.         *)
EXTENDS Integers, Sequences, FiniteSets

CONSTANTS Sector,     \* bytes of a sector, the unit file extents are made of
          MaxInline,  \* bytes an inline extent may hold
          NoHoles,    \* the filesystem leaves holes without extent items
          Hash,       \* name -> offset of its directory item
          NameLen     \* name -> length

RootDir == 256                 \* BTRFS_FIRST_FREE_OBJECTID
Orphans == 900                 \* BTRFS_ORPHAN_OBJECTID
Multiple == 999                \* BTRFS_MULTIPLE_OBJECTIDS

RoundUp(n) == ((n + Sector - 1) \div Sector) * Sector

(* -- key order ------------------------------------------------------------------ *)

Rank(it) ==
  CASE it.t = "inode" -> 1 [] it.t = "ref" -> 12 [] it.t = "orphan" -> 48
    [] it.t = "diritem" -> 84 [] it.t = "dirindex" -> 96 [] it.t = "extent" -> 108
Offset(it) == IF it.t = "inode" THEN 0 ELSE it.off
Before(x, y) ==
  \/ x.ino < y.ino
  \/ x.ino = y.ino /\ (Rank(x) < Rank(y) \/ (Rank(x) = Rank(y) /\ Offset(x) < Offset(y)))

\* the items in key order
RECURSIVE KeyOrder(_)
KeyOrder(S) ==
  IF S = {} THEN <<>>
  ELSE LET x == CHOOSE y \in S : \A z \in S \ {y} : Before(y, z)
       IN <<x>> \o KeyOrder(S \ {x})

DirEntry(name, ino, type) == [name |-> name, to |-> ino, loc |-> "inode", type |-> type]

(* -- what a sound tree satisfies ---------------------------------------------------- *)

BadExtent(it) ==
  CASE it.kind = "inline" -> it.len = 0
    [] it.kind \in {"reg", "prealloc"} ->
         it.len = 0 \/ it.len % Sector # 0 \/ it.len + it.xoff > it.ram
         \/ (it.kind = "prealloc" /\ it.comp)
    [] OTHER -> TRUE

Links(I, T, ino) ==
  {x \in (I \X (1..3)) : x[1].t = T /\ x[2] \in DOMAIN x[1].entries
                       /\ x[1].entries[x[2]].loc = "inode" /\ x[1].entries[x[2]].to = ino}
RefsOf(I, ino) ==
  {x \in (I \X (1..3)) : x[1].t = "ref" /\ x[1].ino = ino /\ x[2] \in DOMAIN x[1].entries}
Entry(x) == x[1].entries[x[2]]

RECURSIVE Total(_, _)
Total(S, f) ==
  IF S = {} THEN 0 ELSE LET x == CHOOSE y \in S : TRUE IN f[x] + Total(S \ {x}, f)

\* Every name of the inode: one directory item, one index and one reference that agree.
NameAgrees(items, indexes, refs, mode) ==
  /\ Cardinality(items) = 1 /\ Cardinality(indexes) = 1 /\ Cardinality(refs) = 1
  /\ \A x \in items \cup indexes : Entry(x).type = mode
  /\ \A x \in indexes, y \in refs : x[1].off = Entry(y).index

NamesAgree(I, ino, mode) ==
  \E items \in {Links(I, "diritem", ino)}, indexes \in {Links(I, "dirindex", ino)},
     refs \in {RefsOf(I, ino)} :
    \A nm \in {<<x[1].ino, Entry(x).name>> : x \in items \cup indexes}
                \cup {<<Entry(x).dir, Entry(x).name>> : x \in refs} :
      NameAgrees({x \in items : x[1].ino = nm[1] /\ Entry(x).name = nm[2]},
                 {x \in indexes : x[1].ino = nm[1] /\ Entry(x).name = nm[2]},
                 {x \in refs : Entry(x).dir = nm[1] /\ Entry(x).name = nm[2]}, mode)

\* A gap before the first extent is not one the code looks for.
ExtentsGood(m, ext) ==
  LET len(e) == IF e.kind = "inline" THEN RoundUp(e.len) ELSE e.len
      end(e) == e.off + len(e)
  IN /\ \A e \in ext : ~BadExtent(e) /\ ~(e.kind = "inline" /\ e.len > MaxInline)
     /\ \A e, f \in ext : e.off < f.off => end(e) <= f.off
     /\ m.nlink > 0 /\ ~NoHoles /\ m.isize > 0 =>
          /\ \E e \in ext : end(e) >= m.isize
          /\ \A e \in ext : end(e) < m.isize => \E f \in ext : f.off = end(e)
     /\ \A e \in ext : e.disk /\ e.kind = "reg" =>
          IF m.nodatasum THEN e.found = 0 ELSE e.found = e.len
     /\ \A e \in ext : e.disk /\ e.kind = "prealloc" => e.found = 0 \/ e.written

EntrySize(it) ==
  Total(DOMAIN it.entries, [k \in DOMAIN it.entries |-> NameLen[it.entries[k].name]])

Owned(I, T, ino) == {it \in I : it.t = T /\ it.ino = ino}

ItemGood(I, ino, m, dirs, ext) ==
  /\ IF ino = RootDir
     THEN /\ m.nlink = 1 /\ Links(I, "diritem", ino) = {}
          /\ \E x \in RefsOf(I, ino) : Entry(x).name = ".." /\ Entry(x).index = 0
     ELSE /\ m.nlink = Cardinality(Links(I, "diritem", ino)) /\ NamesAgree(I, ino, m.mode)
          /\ m.nlink = 0 => \E it \in I : it.t = "orphan" /\ it.off = ino
  /\ \A it \in dirs : IF it.t = "dirindex" THEN Len(it.entries) = 1
                      ELSE \A k \in DOMAIN it.entries : it.off = Hash[it.entries[k].name]
  /\ m.mode = "dir" => m.isize = Total(dirs, [it \in dirs |-> EntrySize(it)]) /\ ext = {}
  /\ m.mode = "file" =>
       /\ dirs = {} /\ ExtentsGood(m, ext)
       /\ m.nbytes = Total(ext, [e \in ext |-> IF e.kind = "inline" \/ e.disk THEN e.len ELSE 0])

InodeGood(I, ino) ==
  /\ Cardinality(Owned(I, "inode", ino)) = 1
  /\ \A m \in Owned(I, "inode", ino) :
       ItemGood(I, ino, m, Owned(I, "diritem", ino) \cup Owned(I, "dirindex", ino),
                Owned(I, "extent", ino))

\* The items of a whole tree are sound.
ItemsGood(I) ==
  LET named == {it \in I : it.t \in {"diritem", "dirindex"}}
      targets == UNION {{it.entries[k].to : k \in {j \in DOMAIN it.entries :
                           it.entries[j].loc = "inode"}} : it \in named}
  IN /\ \A it \in named : \A k \in DOMAIN it.entries : it.entries[k].loc # "unknown"
     /\ \A ino \in {it.ino : it \in {x \in I : x.t # "orphan"}} \cup targets : InodeGood(I, ino)
=============================================================================
