----------------------------- MODULE ChunkRebuild -----------------------------
(***************************************************************************)
(* What btrfs rescue chunk-recover makes of the records the scan has left  *)
(* (chunk-recover.c): chunks are matched with block groups and device      *)
(* extents, a chunk is made up for every block group without one, its      *)
(* stripes are put in order by the tree blocks and by the data checksums   *)
(* found on them, the filesystem is opened over the result, and a new      *)
(* chunk tree is written.  Addresses count sectors; a tree block is a      *)
(* sector.                                                                 *)
(***************************************************************************)
EXTENDS Integers, Sequences, FiniteSets, SequencesExt

CONSTANTS
  Worlds,     \* what may be on the devices, with what the scan has found
  StripeLen,  \* BTRFS_STRIPE_LEN
  MaxTurns    \* turns of the loop of calculate_bg_used

VARIABLES
  fs,      \* the filesystem, its trees and the caches: chunk, devext and eb
  groups,  \* rc->bg.block_groups, a list
  dexts,   \* rc->devext.no_chunk_orphans, a list
  rc,      \* lists of chunks: good, bad, rebuild and unrepaired
  tree,    \* the trees in memory: chunks, array, groups, extents
  used,    \* calculate_bg_used: used_ret, and the turns it took
  phase
vars == <<fs, groups, dexts, rc, tree, used, phase>>

NoStripe == [dev |-> 0, off |-> 0]
Overlap(a, b) == a.off < b.off + b.len /\ b.off < a.off + a.len
Ordered(c) == c.raid \in {"raid0", "raid10", "raid5", "raid6"}
Num(c) == Len(c.stripes)

(* -- where a chunk has its sectors ------------------------------------------------ *)

Parities(c) == CASE c.raid = "raid5" -> 1 [] c.raid = "raid6" -> 2 [] OTHER -> 0
SubStripes(c) == IF c.raid = "raid10" THEN 2 ELSE 1

btrfs_calc_stripe_index(c, l) ==
  LET nr == (l - c.off) \div StripeLen
      data == Num(c) - Parities(c)
  IN CASE c.raid = "raid0" -> nr % Num(c)
       [] c.raid = "raid10" -> (nr % (Num(c) \div SubStripes(c))) * SubStripes(c)
       [] OTHER -> ((nr % data) + (nr \div data)) % Num(c)

btrfs_next_stripe_logical_offset(c, l) == c.off + (((l - c.off) \div StripeLen) + 1) * StripeLen

\* how the opened filesystem reads sector l: the place of each copy
MapBlock(c, l) ==
  LET nr == (l - c.off) \div StripeLen
      in == (l - c.off) % StripeLen
      Place(i, row) == <<c.stripes[i + 1].dev, c.stripes[i + 1].off + row * StripeLen + in>>
  IN CASE c.raid \in {"single", "dup", "raid1"} ->
            {Place(i, nr) : i \in 0 .. Num(c) - 1}
       [] c.raid = "raid10" ->
            {Place(btrfs_calc_stripe_index(c, l) + i, nr \div (Num(c) \div SubStripes(c))) :
               i \in 0 .. SubStripes(c) - 1}
       [] OTHER -> {Place(btrfs_calc_stripe_index(c, l), nr \div (Num(c) - Parities(c)))}

calc_stripe_length(c, n) ==
  CASE c.raid = "raid0" -> c.len \div n
    [] c.raid = "raid10" -> (c.len * 2) \div n
    [] c.raid \in {"raid5", "raid6"} -> c.len \div (n - Parities(c))
    [] OTHER -> c.len

\* What lies at a place: the sector that is read from it, or parity, or nothing known.
Content(place) ==
  LET at == {l \in fs.written : \E c \in fs.chunks :
               c.off <= l /\ l < c.off + c.len /\ place \in MapBlock(c, l)}
  IN IF place \in fs.lost \/ at = {} THEN -1 ELSE fs.value[CHOOSE l \in at : TRUE]

(* -- check_chunks ---------------------------------------------------------------------- *)

StripeExtent(c, i) == [dev |-> c.stripes[i].dev, off |-> c.stripes[i].off,
                       len |-> calc_stripe_length(c, Num(c)), chunk |-> c.off]
Same(g, c) == g.off = c.off /\ g.len = c.len /\ g.kind = c.kind /\ g.raid = c.raid

\* a stripe without its device extent cannot be rebuilt, a lost block group can
check_chunk_refs(c) ==
  LET met == {g \in fs.groups : Overlap(g, c)}
  IN CASE \/ \E i \in DOMAIN c.stripes : StripeExtent(c, i) \notin fs.devexts
          \/ met # {} /\ ~\E g \in met : Same(g, c) -> -1
       [] met = {} -> 1
       [] OTHER -> 0

\* the chunks of a cache do not overlap
ByOffset(S) ==
  [i \in 1 .. Cardinality(S) |-> CHOOSE c \in S : Cardinality({d \in S : d.off < c.off}) = i - 1]
Without(list, S) == SelectSeq(list, LAMBDA x : x \notin S)
Extents(c) == {StripeExtent(c, i) : i \in DOMAIN c.stripes}

check_chunks ==
  /\ phase = "scanned"
  /\ LET Having(err) == ByOffset({c \in fs.found : check_chunk_refs(c) = err})
     IN rc' = [good |-> Having(0), bad |-> Having(-1), rebuild |-> Having(1), unrepaired |-> <<>>]
  /\ groups' = Without(groups, {g \in fs.groups : \E c \in fs.found : Same(g, c)})
  /\ dexts' = Without(dexts, UNION {Extents(c) : c \in fs.found})
  /\ phase' = CASE groups' # <<>> \/ dexts' # <<>> -> "recover"
                [] groups' = <<>> /\ dexts' = <<>> /\ rc'.bad # <<>> -> "validate"
                [] OTHER -> "no orphans"
  /\ UNCHANGED <<fs, tree, used>>

(* -- btrfs_recover_chunks ------------------------------------------------------------------ *)

Present(c) == \A i \in DOMAIN c.stripes : c.stripes[i].dev \notin fs.missing
Stripe(d) == [dev |-> d.dev, off |-> d.off]

btrfs_rebuild_unordered_chunk_stripes(c) ==
  [c EXCEPT !.stripes = [i \in DOMAIN c.stripes |-> Stripe(c.dextents[i])]]

\* btrfs_verify_device_extents: the list it is given is empty by now, no length is compared
Verified(g, n) ==
  /\ g.raid \in {"raid1", "dup"} => n = 2
  /\ g.raid = "single" => n = 1
  /\ n > Parities(g)

In(place, d) == place[1] = d.dev /\ d.off <= place[2] /\ place[2] < d.off + d.len
Free(c) == {i \in DOMAIN c.stripes : c.stripes[i] = NoStripe}
First(S) == CHOOSE i \in S : \A j \in S : i <= j

\* the device extents that hold a copy of er, from stripe at + 1 on
PutAt(c, at, er) ==
  LET put == SelectSeq(c.dextents, LAMBDA d : \E p \in er.places : In(p, d))
  IN [c EXCEPT !.dextents = Without(@, ToSet(put)),
               !.stripes = [i \in DOMAIN @ |-> IF i - at \in DOMAIN put THEN Stripe(put[i - at]) ELSE @[i]]]

\* one tree block, the first one, of each stripe
RECURSIVE ByBlocks(_, _)
ByBlocks(c, ers) ==
  IF ers = {} THEN c
  ELSE LET er == CHOOSE x \in ers : \A y \in ers : x.at <= y.at
           at == btrfs_calc_stripe_index(c, er.at)
           later == {x \in ers : x.at >= btrfs_next_stripe_logical_offset(c, er.at)}
       IN ByBlocks(IF c.stripes[at + 1] # NoStripe THEN c ELSE PutAt(c, at, er), later)

\* stripes in list order wherever none is known
RECURSIVE FillUp(_)
FillUp(c) ==
  IF Free(c) = {} THEN c
  ELSE FillUp([c EXCEPT !.stripes[First(Free(c))] = Stripe(Head(c.dextents)), !.dextents = Tail(@)])

BlocksIn(c) == {er \in fs.eb : c.off <= er.at /\ er.at < c.off + c.len}
\* a mutant: the stripes of metadata are taken as they come
TakesAnyOrder(c) == [c |-> btrfs_rebuild_unordered_chunk_stripes(c), ok |-> TRUE]

\* [c, ok]
btrfs_rebuild_ordered_meta_chunk_stripes(c) ==
  IF BlocksIn(c) = {}
  THEN [c |-> btrfs_rebuild_unordered_chunk_stripes(c), ok |-> TRUE]
  ELSE LET d == ByBlocks(c, BlocksIn(c))
       IN IF d.dextents # <<>> /\ Parities(c) > 0 THEN [c |-> d, ok |-> FALSE]
          ELSE [c |-> FillUp(d), ok |-> TRUE]

\* [c, to]: the list the chunk goes to
btrfs_rebuild_chunk_stripes(c) ==
  LET R == IF c.kind = "meta" /\ Ordered(c) THEN btrfs_rebuild_ordered_meta_chunk_stripes(c)
           ELSE [c |-> btrfs_rebuild_unordered_chunk_stripes(c), ok |-> TRUE]
  IN IF c.kind = "data" /\ Ordered(c) THEN [c |-> c, to |-> "unrepaired"]
     ELSE [c |-> R.c, to |-> IF R.ok /\ Present(R.c) THEN "good" ELSE "bad"]

NewChunk(g, list) ==
  [off |-> g.off, len |-> g.len, kind |-> g.kind, raid |-> g.raid, dextents |-> list,
   stripes |-> [i \in DOMAIN list |-> NoStripe]]

Recovered(g, c) ==
  IF ~Verified(g, Len(c.dextents)) THEN [c |-> [c EXCEPT !.stripes = <<>>], to |-> "bad"]
  ELSE btrfs_rebuild_chunk_stripes(c)

Chunks(names) == UNION {ToSet(rc[x]) : x \in names}

\* one block group without a chunk
btrfs_recover_chunks ==
  /\ phase = "recover" /\ groups # <<>>
  /\ LET g == Head(groups)
         mine == SelectSeq(dexts, LAMBDA d : d.chunk = g.off)
         R == Recovered(g, NewChunk(g, mine))
     IN \/ /\ \A c \in Chunks(DOMAIN rc) : ~Overlap(c, g)
           /\ rc' = [rc EXCEPT ![R.to] = Append(@, R.c)]
           /\ groups' = Tail(groups)
           /\ dexts' = Without(dexts, ToSet(mine))
           /\ UNCHANGED phase
        \/ \E c \in Chunks(DOMAIN rc) : Overlap(c, g) /\ phase' = "failed"
                                        /\ UNCHANGED <<rc, groups, dexts>>
  /\ UNCHANGED <<fs, tree, used>>
ChunksRecovered ==
  /\ phase = "recover" /\ groups = <<>>
  /\ phase' = "validate"
  /\ UNCHANGED <<fs, groups, dexts, rc, tree, used>>

validate_rebuild_chunks ==
  /\ phase = "validate"
  /\ LET wrong == {c \in ToSet(rc.rebuild) : \E g \in ToSet(rc.good) : Overlap(c, g)}
     IN rc' = [rc EXCEPT !.rebuild = Without(@, wrong),
                         !.bad = @ \o SelectSeq(rc.rebuild, LAMBDA c : c \in wrong)]
  /\ phase' = "open"
  /\ UNCHANGED <<fs, groups, dexts, tree, used>>

(* -- open_ctree_with_broken_chunk, check_all_chunks_by_metadata ----------------------------- *)

Mapped == Chunks({"good", "rebuild"})
\* some copy of sector l is where the chunks in memory say
Reads(l) ==
  \E c \in Mapped : /\ c.off <= l /\ l < c.off + c.len
                    /\ \E p \in MapBlock(c, l) : Content(p) = fs.value[l]

open_ctree_with_broken_chunk ==
  /\ phase = "open"
  /\ LET opens == /\ \A c \in Mapped : Present(c)
                  /\ \A c, d \in Mapped : c # d => ~Overlap(c, d)
                  /\ \A l \in fs.roots : Reads(l)
     IN phase' = IF opens THEN "meta" ELSE "failed"
  /\ UNCHANGED <<fs, groups, dexts, rc, tree, used>>

\* the block group item of chunk c is in the extent tree, and its device extents in the device tree
GroupFound(c) == \E g \in fs.extTree : Same(g, c)
StripesFound(c) ==
  \A i \in DOMAIN c.stripes : \E d \in fs.devTree :
    d.dev = c.stripes[i].dev /\ d.off = c.stripes[i].off /\ d.chunk = c.off

\* What the trees do not know is dropped; a bad chunk that they know ends it.
check_all_chunks_by_metadata ==
  /\ phase = "meta"
  /\ LET known == SelectSeq(rc.good, LAMBDA c : GroupFound(c) /\ StripesFound(c))
         open == SelectSeq(rc.unrepaired, LAMBDA c : GroupFound(c))
     IN /\ rc' = [rc EXCEPT !.good = known, !.unrepaired = open,
                            !.bad = Without(rc.good, ToSet(known))
                                      \o Without(rc.unrepaired, ToSet(open)) \o @]
        /\ phase' = IF \E c \in ToSet(rc.bad) : GroupFound(c) THEN "failed" ELSE "data"
  /\ UNCHANGED <<fs, groups, dexts, tree, used>>

(* -- btrfs_rebuild_ordered_data_chunk_stripes -------------------------------------------------- *)

\* where checksum l should be found on a device extent; RAID10 is taken for RAID0
calc_data_offset(c, d, l) ==
  LET nr == (l - c.off) \div StripeLen
  IN d.off + (l - c.off) - nr * StripeLen + (nr \div (Num(c) - Parities(c))) * StripeLen

\* The walk w: the stripe from start to end; the item (slot) and the checksum in it (at)
\* that is read next, for the sector key + at; candidates and unordered device extents.
Csums == fs.csums
ItemEnd(i) == Csums[i].off + Csums[i].n
Insert(w, i, list) == [w EXCEPT !.c.stripes[i] = Stripe(Head(list))]

Filled(w) == [c |-> FillUp([w.c EXCEPT !.dextents = w.unord]), ret |-> 0]
out(w) ==
  LET left == w.cand \o w.unord
  IN CASE Len(left) = 1 -> [c |-> Insert(w, First(Free(w.c)), left).c, ret |-> 0]
       [] Len(left) = 2 /\ w.c.raid = "raid5" -> Filled([w EXCEPT !.unord = left])
       [] Len(left) = 3 /\ w.c.raid = "raid6" -> Filled([w EXCEPT !.unord = left])
       [] OTHER -> [c |-> w.c, ret |-> IF left = <<>> THEN 0 ELSE 1]

RECURSIVE again(_), next_csum(_)
\* the stripe that ends the chunk is not looked at
next_stripe(w) ==
  LET start == btrfs_next_stripe_logical_offset(w.c, w.start)
      v == [w EXCEPT !.start = start, !.cand = w.unord \o @, !.unord = <<>>, !.at = 0,
                     !.end = IF start + StripeLen < w.c.off + w.c.len THEN start + StripeLen
                             ELSE w.c.off + w.c.len]
  IN IF v.end < w.c.off + w.c.len THEN again(v) ELSE out(v)

\* the candidates that hold the checksum, and the others at the head of the unordered
Matches(w, d, l) == Content(<<d.dev, calc_data_offset(w.c, d, w.key + w.at)>>) = fs.value[l]
Sifted(w, l) ==
  [w EXCEPT !.cand = SelectSeq(@, LAMBDA d : Matches(w, d, l)),
            !.unord = Reverse(SelectSeq(w.cand, LAMBDA d : ~Matches(w, d, l))) \o @]
Placed(w) ==
  LET i == btrfs_calc_stripe_index(w.c, w.key + w.at) + 1
  IN IF w.c.stripes[i] # NoStripe THEN next_stripe(w)
     ELSE next_stripe([Insert(w, i, w.cand) EXCEPT !.cand = Tail(@)])
Judged(w) ==
  CASE w.cand = <<>> /\ w.c.raid = "raid6" /\ Len(w.unord) = 2 -> Filled(w)
    [] w.cand = <<>> /\ ~(w.c.raid = "raid6" /\ Len(w.unord) = 2) -> next_stripe(w)
    [] Len(w.cand) = 1 -> Placed(w)
    [] OTHER -> next_csum([w EXCEPT !.at = @ + 1])

AtCsum(w) ==
  IF w.key + w.at >= w.end THEN next_stripe(w)
  ELSE IF \E d \in ToSet(w.cand) : d.dev \in fs.missing THEN [c |-> w.c, ret |-> 1]
  ELSE Judged(Sifted(w, Csums[w.slot].off + w.at))
next_csum(w) ==
  IF w.at < Csums[w.slot].n THEN AtCsum(w)
  ELSE IF w.slot = Len(Csums) THEN out(w)
  ELSE AtCsum([w EXCEPT !.slot = @ + 1, !.at = 0, !.key = Csums[w.slot + 1].off])

From(w, slot, key) == next_csum([w EXCEPT !.slot = slot, !.key = Csums[key].off,
                                          !.at = IF Csums[key].off < w.start THEN w.start - Csums[key].off ELSE 0])
\* The item before the stripe that does not reach into it is read in place of the
\* first item of the stripe.
Search(w, after) ==
  CASE \E i \in DOMAIN Csums : Csums[i].off = w.start ->
         From(w, after - 1, after - 1)
    [] after > Len(Csums) /\ ItemEnd(after - 1) <= w.start -> next_stripe(w)
    [] after > 1 /\ ItemEnd(after - 1) > w.start -> From(w, after - 1, after - 1)
    [] Csums[after].off >= w.end -> next_stripe(w)
    [] OTHER -> From(w, IF after > 1 THEN after - 1 ELSE 1, after)
again(w) ==
  IF Len(w.cand) <= 1 THEN out(w)
  ELSE Search(w, 1 + Cardinality({i \in DOMAIN Csums : Csums[i].off <= w.start}))

\* [c, ret]
rebuild_raid_data_chunk_stripes(c) ==
  again([c |-> c, start |-> c.off, end |-> c.off + StripeLen, cand |-> c.dextents, unord |-> <<>>,
         slot |-> 0, key |-> 0, at |-> 0])

btrfs_rebuild_ordered_data_chunk_stripes ==
  /\ phase \in {"data", "bad data"} /\ rc.unrepaired # <<>>
  /\ \E R \in {rebuild_raid_data_chunk_stripes(Head(rc.unrepaired))} :
       \/ /\ R.ret = 0 /\ Present(R.c)
          /\ rc' = [rc EXCEPT !.unrepaired = Tail(@), !.good = <<R.c>> \o @]
          /\ UNCHANGED phase
       \/ /\ R.ret # 0 \/ ~Present(R.c)
          /\ rc' = [rc EXCEPT !.unrepaired = Tail(@), !.bad = <<R.c>> \o @]
          /\ phase' = "bad data"
  /\ UNCHANGED <<fs, groups, dexts, tree, used>>

(* -- the new chunk tree ---------------------------------------------------------------------- *)

\* ask_user
Asked ==
  /\ phase \in {"data", "bad data"} /\ rc.unrepaired = <<>>
  /\ phase' \in IF phase = "bad data" THEN {"failed"} ELSE {"write", "aborted"}
  /\ UNCHANGED <<fs, groups, dexts, rc, tree, used>>

System == {c \in ToSet(rc.good) : c.kind = "system"}
\* what the blocks of the old chunk tree took is free again
remove_chunk_extent_item ==
  SelectSeq(tree.extents, LAMBDA e : ~\E c \in System : Overlap(e, c))
\* the root of the new tree is allocated in a system block group
RoomForRoot == \E g \in fs.extTree : g.kind = "system"
rebuild_chunk_tree == Mapped
\* the chunks without a block group are left out
rebuild_sys_array == System

WriteChunkTree ==
  /\ phase = "write"
  /\ \/ /\ RoomForRoot
        /\ tree' = [chunks |-> rebuild_chunk_tree, array |-> rebuild_sys_array,
                    groups |-> fs.extTree, extents |-> remove_chunk_extent_item]
        /\ phase' = "groups"
     \/ ~RoomForRoot /\ phase' = "bug" /\ UNCHANGED tree
  /\ UNCHANGED <<fs, groups, dexts, rc, used>>

\* the extent tree from the start of chunk c on
ExtentsFrom(c) == SelectSeq(tree.extents, LAMBDA e : e.off >= c.off)
Turn(c) == Head(ExtentsFrom(c))
InChunk(c) == ExtentsFrom(c) # <<>> /\ Turn(c).off < c.off + c.len

\* calculate_bg_used: the slot of the path stays where it is
CountUsed ==
  /\ phase = "groups" /\ rc.rebuild # <<>> /\ InChunk(Head(rc.rebuild))
  /\ Len(ExtentsFrom(Head(rc.rebuild))) > 1 /\ used.turns < MaxTurns
  /\ used' = [n |-> used.n + (IF Turn(Head(rc.rebuild)).type = "meta" THEN 1 ELSE 0),
              turns |-> used.turns + 1]
  /\ UNCHANGED <<fs, groups, dexts, rc, tree, phase>>
rebuild_block_group ==
  /\ phase = "groups" /\ rc.rebuild # <<>>
  /\ ~InChunk(Head(rc.rebuild)) \/ Len(ExtentsFrom(Head(rc.rebuild))) = 1
  /\ LET c == Head(rc.rebuild)
         n == used.n + (IF InChunk(c) /\ Turn(c).type = "meta" THEN 1 ELSE 0)
     IN /\ tree' = [tree EXCEPT !.groups = @ \cup {[off |-> c.off, len |-> c.len, kind |-> c.kind,
                                                    raid |-> c.raid, used |-> n]}]
        /\ used' = [n |-> 0, turns |-> 0]
  /\ rc' = [rc EXCEPT !.rebuild = Tail(@)]
  /\ UNCHANGED <<fs, groups, dexts, phase>>
btrfs_commit_transaction ==
  /\ phase = "groups" /\ rc.rebuild = <<>>
  /\ phase' = "committed"
  /\ UNCHANGED <<fs, groups, dexts, rc, tree, used>>

Begin(W) ==
  /\ fs = W.fs /\ groups = W.groups /\ dexts = W.dexts
  /\ rc = [good |-> <<>>, bad |-> <<>>, rebuild |-> <<>>, unrepaired |-> <<>>]
  /\ tree = [chunks |-> {}, array |-> {}, groups |-> W.fs.extTree, extents |-> W.fs.extents]
  /\ used = [n |-> 0, turns |-> 0]
  /\ phase = "scanned"
Init == \E W \in Worlds : Begin(W)

Next ==
  \/ check_chunks \/ btrfs_recover_chunks \/ ChunksRecovered \/ validate_rebuild_chunks
  \/ open_ctree_with_broken_chunk \/ check_all_chunks_by_metadata
  \/ btrfs_rebuild_ordered_data_chunk_stripes \/ Asked \/ WriteChunkTree \/ CountUsed
  \/ rebuild_block_group \/ btrfs_commit_transaction
Spec == Init /\ [][Next]_vars

(* -- what is shown ----------------------------------------------------------------------------- *)

\* RAID5 and RAID6 data are left out: the last two or three device extents are put
\* in any order, and a later row may tell them apart
Trusted(c) ==
  c.kind = "data" =>
    /\ Parities(c) = 0
    /\ \A i \in DOMAIN Csums : (Csums[i].off - c.off) % StripeLen = 0 \/ i = 1

(***************************************************************************)
(* When a new chunk tree is written, whichever chunk items were lost and   *)
(* in whatever order the device extents were found: every block group of   *)
(* the extent tree whose device extents are in the device tree has a       *)
(* chunk, and every tree block and every sector with a checksum, of which  *)
(* a good copy exists, is read from where it lies, RAID5 and RAID6 data    *)
(* excepted.  System chunks are excepted too: their blocks are dropped.    *)
(***************************************************************************)
RecoveredReads ==
  phase = "committed" =>
    \A c \in {x \in fs.chunks : GroupFound(x) /\ StripesFound(x)} :
      \E d \in tree.chunks :
        /\ Same(d, c)
        /\ Trusted(c) /\ c.kind # "system" =>
             \A l \in {x \in fs.checked : c.off <= x /\ x < c.off + c.len} :
               (\E p \in MapBlock(c, l) : Content(p) = fs.value[l]) =>
                 \E p \in MapBlock(d, l) : Content(p) = fs.value[l]

(***************************************************************************)
(* "Search through the extent tree to rebuild the 'used' member of the     *)
(* block group."  No more is counted than there are tree blocks.           *)
(***************************************************************************)
UsedCounted ==
  used.n <= Cardinality({i \in DOMAIN tree.extents : tree.extents[i].type = "meta"})
=============================================================================
