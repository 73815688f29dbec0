--------------------------- MODULE CheckInstances ---------------------------
(* The filesystems that checking and repairing are checked on.               *)
EXTENDS SubvolItems

Names == {"a", "b", "c", "s", "lf", "..", "a.", "b.", "c.", "257", "258", "259", "260", "261", "256"}
MCHash == [x \in Names |->
  CASE x = "a" -> 11 [] x = "b" -> 12 [] x = "c" -> 14 [] x = "s" -> 13 [] x = "lf" -> 15
    [] x = ".." -> 16 [] x = "a." -> 17 [] x = "b." -> 18 [] x = "c." -> 19 [] x = "257" -> 20
    [] x = "258" -> 21 [] x = "259" -> 22 [] x = "260" -> 23 [] x = "261" -> 24 [] x = "256" -> 25]
MCNameLen == [x \in Names |->
  CASE x \in {"a", "b", "c", "s"} -> 1 [] x \in {"..", "a.", "b.", "c."} -> 2
    [] x = "lf" -> 4 [] OTHER -> 3]
Suffix == [x \in Names |-> IF x = "a" THEN "a." ELSE IF x = "b" THEN "b." ELSE "c."]
InoNames == [i \in 256..261 |->
  CASE i = 256 -> "256" [] i = 257 -> "257" [] i = 258 -> "258" [] i = 259 -> "259" [] i = 260 -> "260"
    [] OTHER -> "261"]

Inode(ino, nlink, isize, nbytes, mode) ==
  [t |-> "inode", ino |-> ino, nlink |-> nlink, isize |-> isize, nbytes |-> nbytes,
   mode |-> mode, nodatasum |-> FALSE]
RefItem(ino, dir, entries) == [t |-> "ref", ino |-> ino, off |-> dir, entries |-> entries]
Ref(dir, index, name) == [dir |-> dir, index |-> index, name |-> name]
Dir(T, ino, off, name, to, loc, type) ==
  [t |-> T, ino |-> ino, off |-> off,
   entries |-> <<[name |-> name, to |-> to, loc |-> loc, type |-> type]>>]
Extent(ino, off, len) ==
  [t |-> "extent", ino |-> ino, off |-> off, kind |-> "reg", len |-> len, disk |-> TRUE,
   xoff |-> 0, ram |-> len, comp |-> FALSE, found |-> len, written |-> TRUE]

(* -- two subvolumes: tree 5 and its snapshot 260, in three levels, the second  *)
(* sharing any part of the first below its root; at most one damage anywhere   *)

Leaf1 == <<Inode(256, 1, 6, 0, "dir"), RefItem(256, 256, <<[dir |-> 256, index |-> 0, name |-> ".."]>>),
           Dir("diritem", 256, 11, "a", 257, "inode", "file"),
           Dir("diritem", 256, 12, "b", 257, "inode", "file")>>
Leaf2 == <<Dir("diritem", 256, 13, "s", 260, "root", "dir"),
           Dir("dirindex", 256, 2, "a", 257, "inode", "file"),
           Dir("dirindex", 256, 3, "s", 260, "root", "dir"),
           Dir("dirindex", 256, 4, "b", 257, "inode", "file"),
           Inode(257, 2, 4, 4, "file")>>
Leaf3 == <<RefItem(257, 256, <<[dir |-> 256, index |-> 2, name |-> "a"],
                          [dir |-> 256, index |-> 4, name |-> "b"]>>),
           Extent(257, 0, 2), Extent(257, 2, 2),
           Inode(258, 0, 0, 0, "file"),
           [t |-> "orphan", ino |-> Orphans, off |-> 258]>>

\* what a damaged item may say instead
RootsChanged(it) ==
  CASE it.t = "inode" -> {[it EXCEPT !.nlink = 1 - (@ % 2)], [it EXCEPT !.isize = @ + 1],
                          [it EXCEPT !.nbytes = @ + 1],
                          [it EXCEPT !.mode = IF @ = "dir" THEN "file" ELSE "dir"],
                          [it EXCEPT !.nodatasum = TRUE]}
    [] it.t = "ref" -> IF it.entries = <<>> THEN {} ELSE {[it EXCEPT !.entries[1].index = 9], [it EXCEPT !.entries = Tail(@)],
                        [it EXCEPT !.entries[1].name = "c"]}
    [] it.t \in {"diritem", "dirindex"} ->
         {[it EXCEPT !.entries[1].to = 259], [it EXCEPT !.entries[1].type = "link"],
          [it EXCEPT !.entries[1].loc = "unknown"],
          [it EXCEPT !.off = @ + 30], [it EXCEPT !.entries = Append(@, @[1])]}
    [] it.t = "extent" ->
         {[it EXCEPT !.len = 0], [it EXCEPT !.len = 4, !.ram = 4, !.found = 4],
          [it EXCEPT !.disk = FALSE], [it EXCEPT !.found = 0], [it EXCEPT !.found = 1],
          [it EXCEPT !.kind = "prealloc"], [it EXCEPT !.kind = "prealloc", !.written = FALSE],
          [it EXCEPT !.kind = "inline"], [it EXCEPT !.kind = "odd"], [it EXCEPT !.off = IF @ = 2 THEN 4 ELSE 1],
          [it EXCEPT !.ram = 1]}
    [] it.t = "orphan" -> {[it EXCEPT !.off = 257]}

DropAt(s, i) == [j \in 1..(Len(s) - 1) |-> IF j < i THEN s[j] ELSE s[j + 1]]
InKeyOrder(s) ==
  \A i \in 1..(Len(s) - 1) :
    s[i].t = s[i + 1].t /\ s[i].t \in {"diritem", "dirindex", "extent"} => s[i].off < s[i + 1].off
RootsDamaged(s) ==
  {DropAt(s, i) : i \in DOMAIN s}
    \cup {x \in UNION {{[s EXCEPT ![i] = x] : x \in RootsChanged(s[i])} : i \in DOMAIN s} : InKeyOrder(x)}

Leaf(items) == [level |-> 0, kids |-> <<>>, items |-> items]
Node(level, kids) == [level |-> level, kids |-> kids, items |-> <<>>]

\* own: the blocks of tree 260 that are copies of its own
Patterns == {own \in SUBSET {8, 9, 10, 11, 12} :
               (own \cap {10, 11} # {} => 8 \in own) /\ (12 \in own => 9 \in own)}
Of(own, mine, shared) == IF mine \in own THEN mine ELSE shared

Blocks(own) ==
  [b \in (1..7) \cup own |->
     CASE b = 1 -> Node(2, <<3, 4>>)
       [] b = 2 -> Node(2, <<Of(own, 8, 3), Of(own, 9, 4)>>)
       [] b = 3 -> Node(1, <<5, 6>>)
       [] b = 4 -> Node(1, <<7>>)
       [] b = 8 -> Node(1, <<Of(own, 10, 5), Of(own, 11, 6)>>)
       [] b = 9 -> Node(1, <<Of(own, 12, 7)>>)
       [] b \in {5, 10} -> Leaf(Leaf1)
       [] b \in {6, 11} -> Leaf(Leaf2)
       [] b \in {7, 12} -> Leaf(Leaf3)]

RootTree ==
  <<[t |-> "rootitem", child |-> 5],
    [t |-> "rootref", child |-> 260, parent |-> 5, dir |-> 256, index |-> 3, name |-> "s"],
    [t |-> "rootitem", child |-> 260],
    [t |-> "rootbackref", child |-> 260, parent |-> 5, dir |-> 256, index |-> 3, name |-> "s"]>>

Sound(own) ==
  [blk |-> Blocks(own), bad |-> {}, noext |-> {}, items |-> RootTree,
   tree |-> [t \in {5, 260} |-> [root |-> IF t = 5 THEN 1 ELSE 2, refs |-> 1]]]

Leaves(f) == {b \in DOMAIN f.blk : f.blk[b].level = 0}

DamagedLeaf(f) ==
  UNION {{[f EXCEPT !.blk[b].items = s] : s \in RootsDamaged(f.blk[b].items)} : b \in Leaves(f)}
DamagedBlocks(f) ==
  {[f EXCEPT !.bad = {b}] : b \in DOMAIN f.blk} \cup {[f EXCEPT !.noext = {b}] : b \in DOMAIN f.blk}
DamagedRoots(f) ==
  {[f EXCEPT !.items = DropAt(@, i)] : i \in {2, 4}}
    \cup {[f EXCEPT !.items[i].index = 7] : i \in {2, 4}}
    \cup {[f EXCEPT !.items[i].name = "c"] : i \in {2, 4}}
    \cup {[f EXCEPT !.items[i].parent = 260] : i \in {2, 4}}
    \cup {[f EXCEPT !.tree[260].refs = 0], [f EXCEPT !.tree[260].refs = 0, !.items = <<@[1], @[3], @[4]>>],
          [f EXCEPT !.items = <<@[1], @[3], [t |-> "orphan", child |-> 260]>>],
          [f EXCEPT !.items = <<@[1], @[3]>>]}

Once(f) == {f} \cup DamagedLeaf(f) \cup DamagedBlocks(f) \cup DamagedRoots(f)

Filesystems == UNION {Once(Sound(own)) : own \in Patterns}

(* -- one subvolume to repair: two damages, or one unreadable leaf ------------- *)

\* a: a file of two names, a in the root directory, b in directory 258 (c)
SoundTree ==
  {Inode(256, 1, 4, 0, "dir"), RefItem(256, 256, <<Ref(256, 0, "..")>>),
   Dir("diritem", 256, 11, "a", 257, "inode", "file"), Dir("diritem", 256, 14, "c", 258, "inode", "dir"),
   Dir("dirindex", 256, 2, "a", 257, "inode", "file"), Dir("dirindex", 256, 3, "c", 258, "inode", "dir"),
   Inode(257, 2, 6, 6, "file"), RefItem(257, 256, <<Ref(256, 2, "a")>>),
   RefItem(257, 258, <<Ref(258, 2, "b")>>),
   Extent(257, 0, 2), Extent(257, 2, 2), Extent(257, 4, 2),
   Inode(258, 1, 2, 0, "dir"), RefItem(258, 256, <<Ref(256, 3, "c")>>),
   Dir("diritem", 258, 12, "b", 257, "inode", "file"), Dir("dirindex", 258, 2, "b", 257, "inode", "file")}

\* what a damaged item may say instead
Changed(it) ==
  CASE it.t = "inode" -> {[it EXCEPT !.nlink = @ + 1], [it EXCEPT !.nlink = @ - 1],
                          [it EXCEPT !.isize = @ + 1], [it EXCEPT !.nbytes = @ + 1],
                          [it EXCEPT !.mode = IF @ = "dir" THEN "file" ELSE "dir"]}
    [] it.t = "ref" -> {[it EXCEPT !.entries[1].index = 9], [it EXCEPT !.entries[1].name = "b"]}
    [] it.t \in {"diritem", "dirindex"} ->
         {[it EXCEPT !.entries[1].to = 259], [it EXCEPT !.entries[1].type = "link"],
          [it EXCEPT !.off = 30], [it EXCEPT !.entries[1].name = "a."]}
    [] it.t = "extent" ->
         {[it EXCEPT !.disk = FALSE], [it EXCEPT !.kind = "inline"], [it EXCEPT !.off = 5]}

Damages ==
  {<<it, {}>> : it \in SoundTree} \cup UNION {{<<it, {x}>> : x \in Changed(it)} : it \in SoundTree}
Damage(S, d) == (S \ {d[1]}) \cup d[2]
Distinct(S) == \A x, y \in S : x # y => Before(x, y) \/ Before(y, x)
Two == {Damage(Damage(SoundTree, d), e) : d, e \in Damages}
LostLeaf(S, i, j) == LET s == KeyOrder(S) IN {s[n] : n \in (i + 1)..j}
DamagedTrees == {<<S, {}>> : S \in {T \in Two : Distinct(T)}}
               \cup {<<SoundTree, LostLeaf(SoundTree, i, j)>> : i, j \in 0..16}

(* -- one subvolume to check and repair without records ------------------------ *)

KeyOf(it) == <<it.ino, Rank(it), Offset(it)>>
OneDamage == {S \in {SoundTree} \cup {Damage(SoundTree, d) : d \in Damages} : Distinct(S)}
\* where the leaves begin: one leaf, or three, the one in the middle of one to three items
LeafCuts(S) ==
  LET s == KeyOrder(S)
  IN {{}} \cup {{KeyOf(s[i]), KeyOf(s[j])} : <<i, j>> \in
                  {x \in ((2..Len(s)) \X (3..Len(s))) : x[1] < x[2] /\ x[2] <= x[1] + 3}}
\* the file has a third name, beside its second; the index in that one's reference is
\* the other's, and one more item is lost
ThirdName ==
  {CASE it.t = "inode" /\ it.ino = 257 -> [it EXCEPT !.nlink = 3]
     [] it.t = "inode" /\ it.ino = 258 -> [it EXCEPT !.isize = 4]
     [] it.t = "ref" /\ it.off = 258 -> [it EXCEPT !.entries = <<Ref(258, 3, "b"), Ref(258, 3, "a")>>]
     [] OTHER -> it : it \in SoundTree}
    \cup {Dir("diritem", 258, 11, "a", 257, "inode", "file"),
          Dir("dirindex", 258, 3, "a", 257, "inode", "file")}
LowmemTree(S, C, r) == [items |-> S, cuts |-> C, repair |-> r]
LowmemTrees ==
  UNION {{LowmemTree(S, C, FALSE) : C \in LeafCuts(S)} : S \in OneDamage}
    \cup {LowmemTree(S, {}, TRUE) : S \in {T \in Two : Distinct(T)}}
    \cup {LowmemTree(ThirdName \ {it}, {}, TRUE) : it \in ThirdName}
LostRefTrees ==
  {LowmemTree(SoundTree \ {it}, {}, TRUE) : it \in {x \in SoundTree : x.t = "ref" /\ x.ino # RootDir}}

WithLinkCount(S, ino, n) ==
  {IF it.t = "inode" /\ it.ino = ino THEN [it EXCEPT !.nlink = n] ELSE it : it \in S}
=============================================================================
