---------------------------- MODULE RecoverWorlds ----------------------------
(***************************************************************************)
(* Filesystems whose chunk tree is lost or damaged: what a scan of their   *)
(* devices may come upon, for ChunkScan, and the records that it leaves,   *)
(* for ChunkRebuild.  A stripe has two sectors.                            *)
(***************************************************************************)
EXTENDS Integers, Sequences, FiniteSets, SequencesExt

(* -- for ChunkScan: leaves of several ages, some of which contradict each other ----- *)

Item(kind, dev, start, size, data) ==
  [kind |-> kind, dev |-> dev, start |-> start, size |-> size, data |-> data]
TreeBlock(start, gen, csum, level, owner, items) ==
  [start |-> start, gen |-> gen, csum |-> csum, level |-> level, owner |-> owner, items |-> items]
TreeBlocks == {
  TreeBlock(10, 1, "a", 0, "extent", <<Item("bg", 0, 0, 2, "single"), Item("bg", 0, 2, 2, "single")>>),
  TreeBlock(10, 2, "b", 0, "extent", <<Item("bg", 0, 1, 2, "single")>>),
  TreeBlock(11, 3, "c", 0, "extent", <<Item("bg", 0, 2, 2, "raid1"), Item("bg", 0, 4, 0, "raid1")>>),
  TreeBlock(11, 3, "d", 0, "extent", <<Item("bg", 0, 2, 2, "dup")>>),
  TreeBlock(12, 3, "e", 0, "dev", <<Item("devext", 1, 0, 2, "at0"), Item("devext", 2, 0, 2, "at0")>>),
  TreeBlock(13, 3, "f", 0, "chunk", <<Item("chunk", 0, 0, 2, "at0")>>),
  TreeBlock(13, 4, "g", 0, "chunk", <<Item("chunk", 0, 0, 2, "at1")>>),
  TreeBlock(14, 2, "h", 1, "extent", <<>>)}
OnDisk(s) ==
  [i \in DOMAIN s |-> [start |-> s[i].start, gen |-> s[i].gen, csum |-> s[i].csum, level |-> s[i].level,
                       owner |-> s[i].owner, items |-> s[i].items, at |-> i]]
\* any two blocks on a device and one on another; or one block over and over
ScanDisks ==
  {<<OnDisk(<<a, b>>), OnDisk(<<c>>)>> : a \in TreeBlocks, b \in TreeBlocks, c \in TreeBlocks}
    \cup {<<OnDisk(<<a, a>>), OnDisk(<<a, a>>)>> : a \in TreeBlocks}

(* -- for ChunkRebuild ------------------------------------------------------------------ *)

At(dev, off) == [dev |-> dev, off |-> off]
Laid(off, len, kind, raid, stripes) ==
  [off |-> off, len |-> len, kind |-> kind, raid |-> raid, stripes |-> stripes, dextents |-> <<>>]
Group(c) == [off |-> c.off, len |-> c.len, kind |-> c.kind, raid |-> c.raid]
OnDevices(n, off) == [d \in 1 .. n |-> At(d, off)]

SystemChunk == Laid(0, 4, "system", "single", <<At(1, 0)>>)
MetaSingle == Laid(10, 4, "meta", "single", <<At(1, 10)>>)
MetaChunks == {
  MetaSingle,
  Laid(10, 4, "meta", "dup", <<At(1, 10), At(1, 20)>>),
  Laid(10, 4, "meta", "raid1", OnDevices(2, 10)),
  Laid(10, 12, "meta", "raid0", OnDevices(3, 10)),
  Laid(10, 8, "meta", "raid10", OnDevices(4, 10)),
  Laid(10, 8, "meta", "raid5", OnDevices(3, 10)),
  Laid(10, 8, "meta", "raid6", OnDevices(4, 10))}
DataChunk(raid) ==
  CASE raid = "raid0" -> Laid(40, 12, "data", "raid0", OnDevices(3, 30))
    [] raid = "raid10" -> Laid(40, 8, "data", "raid10", OnDevices(4, 30))
    [] raid = "raid5" -> Laid(40, 8, "data", "raid5", OnDevices(3, 30))
    [] raid = "raid6" -> Laid(40, 8, "data", "raid6", OnDevices(4, 30))

StripeLength(c) ==
  LET n == Len(c.stripes)
  IN CASE c.raid = "raid0" -> c.len \div n [] c.raid = "raid10" -> (2 * c.len) \div n
       [] c.raid = "raid5" -> c.len \div (n - 1) [] c.raid = "raid6" -> c.len \div (n - 2)
       [] OTHER -> c.len
DevExtents(c) ==
  [i \in DOMAIN c.stripes |-> [dev |-> c.stripes[i].dev, off |-> c.stripes[i].off,
                               len |-> StripeLength(c), chunk |-> c.off]]
Shuffled(s) ==
  {[i \in DOMAIN s |-> s[p[i]]] :
     p \in {f \in [DOMAIN s -> DOMAIN s] : \A i, j \in DOMAIN s : f[i] = f[j] => i = j}}

\* items of the checksum tree for the sectors X
CsumItems(X) ==
  LET starts == {x \in X : x - 1 \notin X}
      first == [i \in 1 .. Cardinality(starts) |->
                  CHOOSE x \in starts : Cardinality({y \in starts : y < x}) = i - 1]
  IN [i \in DOMAIN first |->
        [off |-> first[i],
         n |-> (CHOOSE e \in first[i] + 1 .. first[i] + Cardinality(X) :
                  e \notin X /\ \A y \in first[i] .. e - 1 : y \in X) - first[i]]]

\* chunks: all chunks; found: chunk items that are left; blocks: tree blocks; data: sectors
\* with a checksum; same: sectors of equal content; inTree: block group items of the extent
\* tree; stale: block groups of old leaves; extents: other items of the extent tree.
\* The trees that are searched have their blocks at 10.
Fs(chunks, found, blocks, data, same, lost, missing, inTree, stale, eb, extents) ==
  [chunks |-> chunks, found |-> found, written |-> blocks \cup data, checked |-> blocks \cup data,
   value |-> [l \in blocks \cup data |-> IF l \in same THEN 0 ELSE l],
   lost |-> lost, missing |-> missing, eb |-> eb, roots |-> {10}, csums |-> CsumItems(data),
   groups |-> inTree \cup stale, extTree |-> inTree,
   devexts |-> UNION {ToSet(DevExtents(c)) : c \in chunks},
   devTree |-> UNION {ToSet(DevExtents(c)) : c \in chunks}, extents |-> extents]
Sorted(S) ==
  [i \in 1 .. Cardinality(S) |-> CHOOSE g \in S : Cardinality({h \in S : h.off < g.off}) = i - 1]
World(fs, dexts) ==
  [fs |-> fs, groups |-> Sorted(fs.groups), dexts |-> dexts]

\* the copies of block l of chunk c that the scan finds, lost ones left out
Copies(c, l, lost) ==
  LET nr == (l - c.off) \div 2
      in == (l - c.off) % 2
      n == Len(c.stripes)
      Place(i, row) == <<c.stripes[i + 1].dev, c.stripes[i + 1].off + 2 * row + in>>
      data == CASE c.raid = "raid5" -> n - 1 [] c.raid = "raid6" -> n - 2 [] OTHER -> n
  IN (CASE c.raid \in {"single", "dup", "raid1"} -> {Place(i, nr) : i \in 0 .. n - 1}
        [] c.raid = "raid10" -> {Place((nr % (n \div 2)) * 2 + i, nr \div (n \div 2)) : i \in 0 .. 1}
        [] c.raid = "raid0" -> {Place(nr % n, nr \div n)}
        [] OTHER -> {Place(((nr % data) + (nr \div data)) % n, nr \div data)}) \ lost
ExtentBlocks(c, blocks, lost) ==
  {er \in {[at |-> l, places |-> Copies(c, l, lost)] : l \in blocks} : er.places # {}}

BlockSets(c) ==
  {S \in SUBSET {c.off + i : i \in {0, 4, c.len - 1}} :
     c.off \in S /\ \A l \in S : l < c.off + c.len}

\* Metadata chunks of every profile; the chunk items of some chunks are left.  Harm: a copy
\* is damaged, a device is gone, a block group item is lost, old leaves have a block group.
Harm(lost, missing, forgotten, stale) ==
  [lost |-> lost, missing |-> missing, forgotten |-> forgotten, stale |-> stale]
Harms(c) ==
  {Harm({}, {}, {}, {}), Harm({<<2, 10>>}, {}, {}, {}), Harm({}, {2}, {}, {}), Harm({}, {}, {c}, {}),
   Harm({}, {}, {SystemChunk}, {}),
   Harm({}, {}, {}, {[off |-> 12, len |-> 12, kind |-> "meta", raid |-> "raid0"]}),
   Harm({}, {}, {}, {[off |-> 40, len |-> 4, kind |-> "meta", raid |-> "single"]})}
MetaWorld(c, found, blocks, harm, inMeta, dexts) ==
  World(Fs({SystemChunk, c}, found, blocks, {}, {}, harm.lost, harm.missing,
           {Group(x) : x \in {SystemChunk, c} \ harm.forgotten}, harm.stale,
           ExtentBlocks(c, blocks, harm.lost),
           <<[off |-> 2, len |-> 1, type |-> "meta"]>>
             \o (IF inMeta THEN <<[off |-> 10, len |-> 1, type |-> "meta"],
                                 [off |-> 11, len |-> 1, type |-> "meta"]>> ELSE <<>>)),
        DevExtents(SystemChunk) \o dexts)

\* data chunks of every ordered profile; of each stripe no sector, the second or both have
\* a checksum; same: one stripe has the content of another one
DataSets(c, parts) ==
  {UNION {{c.off + 2 * i + j : j \in f[i]} : i \in DOMAIN f} :
     f \in [0 .. (c.len \div 2) - 1 -> parts]}
DataWorld(c, data, same, missing, dexts) ==
  World(Fs({SystemChunk, MetaSingle, c}, {SystemChunk, MetaSingle}, {10}, data, same, {}, missing,
           {Group(x) : x \in {SystemChunk, MetaSingle, c}}, {}, ExtentBlocks(MetaSingle, {10}, {}),
           <<[off |-> 2, len |-> 1, type |-> "meta"]>>),
        DevExtents(SystemChunk) \o DevExtents(MetaSingle) \o dexts)
=============================================================================
