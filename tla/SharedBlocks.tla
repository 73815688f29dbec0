---------------------------- MODULE SharedBlocks ----------------------------
(***************************************************************************)
(* Trees that share blocks, and the references the extent tree keeps for   *)
(* them.  A snapshot makes two trees share every block below their roots.  *)
(* Changing one of them copies the blocks on the way (__btrfs_cow_block in *)
(* ctree.c), and update_ref_for_cow decides, from the reference count, the *)
(* owner and the FULL_BACKREF flag of the block that is replaced, which    *)
(* back references of the blocks and extents below change                  *)
(* (extent-tree.c).                                                        *)
(*                                                                         *)
(* A tree has a root of level 2, one node of level 1 and one leaf per      *)
(* inode.  A leaf maps file slots to data extents; all slots of a leaf are *)
(* pieces of one file range, so two that point to the same extent share a  *)
(* data reference with a count.  Blocks are numbers in address order.      *)
(***************************************************************************)
EXTENDS Integers, FiniteSets, SequencesExt

CONSTANTS Trees,       \* tree ids, numbers
          Inodes,      \* one leaf each
          Slots,       \* file slots of a leaf
          Data,        \* data extents, numbers apart from the blocks
          NBlocks,     \* addresses for tree blocks: 1..NBlocks
          MaxInline,   \* references that fit in BTRFS_MAX_EXTENT_ITEM_SIZE
          Hash,        \* hash_extent_data_ref: tree -> inode -> number
          MaxTrans     \* bound on transaction ids

VARIABLES blk,         \* block -> [owner, gen, level, ptr]
          root,        \* tree -> [node, snap]; snap is last_snapshot
          ext,         \* extent -> its item and keyed back references
          trans        \* the running transaction: [id, err]

vars == <<blk, root, ext, trans>>

None == 0

\* the state an operation works on
FS == [blk |-> blk, root |-> root, ext |-> ext, id |-> trans.id, err |-> trans.err, held |-> {}]
Err(fs) == [fs EXCEPT !.err = TRUE]

---------------------------------------------------------------------------
(* Back references.  The inline ones of an item are kept by type, and      *)
(* within a type by descending offset or hash.                             *)

TREE_BLOCK_REF == 176
EXTENT_DATA_REF == 178
SHARED_BLOCK_REF == 182
SHARED_DATA_REF == 184

extent_ref_type(parent, ino) ==
    IF ino = None
    THEN IF parent # None THEN SHARED_BLOCK_REF ELSE TREE_BLOCK_REF
    ELSE IF parent # None THEN SHARED_DATA_REF ELSE EXTENT_DATA_REF

\* who: the parent block, the tree, or the tree and the inode
Ref(parent, tree, ino) ==
    LET t == extent_ref_type(parent, ino)
    IN  [type |-> t,
         who  |-> IF parent # None THEN <<parent>>
                  ELSE IF t = EXTENT_DATA_REF THEN <<tree, ino>> ELSE <<tree>>]

RefOffset(r) == IF r.type = EXTENT_DATA_REF THEN Hash[r.who[1]][r.who[2]] ELSE r.who[1]

NoItem == [refs |-> 0, inline |-> <<>>, keyed |-> {}, full |-> FALSE]

(* The scan of lookup_inline_extent_backref: where r is, or where it goes. *)
RECURSIVE ScanInline(_, _, _)
ScanInline(list, r, i) ==
    IF i > Len(list) THEN [found |-> FALSE, pos |-> i]
    ELSE LET x == list[i].ref
         IN  IF r.type < x.type THEN [found |-> FALSE, pos |-> i]
             ELSE IF r.type > x.type THEN ScanInline(list, r, i + 1)
             ELSE IF r = x THEN [found |-> TRUE, pos |-> i]
             ELSE IF RefOffset(x) < RefOffset(r) THEN [found |-> FALSE, pos |-> i]
             ELSE ScanInline(list, r, i + 1)

lookup_inline_extent_backref(item, r) == ScanInline(item.inline, r, 1)

(* Keyed data references: the first key at or after the hash that is free   *)
(* or holds the reference already.  A lookup takes the first one that       *)
(* matches; the two differ when a key between them was freed.              *)
RECURSIVE Probe(_, _, _)
Probe(keyed, r, off) ==
    LET here == {k \in keyed : k.ref.type = r.type /\ k.off = off}
    IN  IF here # {} /\ \A k \in here : k.ref # r THEN Probe(keyed, r, off + 1) ELSE off

SumCounts(S) == MapThenSumSet(LAMBDA k : k.count, S)

CountedAt(item, r, off) ==
    LET have == {k \in item.keyed : k.ref = r /\ k.off = off}
    IN  [item EXCEPT !.keyed = (@ \ have) \cup
           {[ref |-> r, off |-> off, count |-> SumCounts(have) + 1]}]

insert_extent_data_ref(item, r) == CountedAt(item, r, Probe(item.keyed, r, RefOffset(r)))

insert_tree_block_ref(item, r) ==
    [item EXCEPT !.keyed = @ \cup {[ref |-> r, off |-> RefOffset(r), count |-> 1]}]

insert_extent_backref(item, r) ==
    IF r.type \in {EXTENT_DATA_REF, SHARED_DATA_REF}
    THEN insert_extent_data_ref(item, r) ELSE insert_tree_block_ref(item, r)

lookup_extent_data_ref(item, r) ==
    LET match == {k \in item.keyed : k.ref = r}
    IN  {k \in match : \A x \in match : k.off <= x.off}

\* the count of an inline reference and of the item, which go together
update_inline_extent_backref(item, pos, mod) ==
    IF item.inline[pos].count + mod > 0
    THEN [item EXCEPT !.refs = @ + mod, !.inline[pos].count = @ + mod]
    ELSE [item EXCEPT !.refs = @ + mod, !.inline = RemoveAt(@, pos)]

setup_inline_extent_backref(item, pos, r) ==
    [item EXCEPT !.refs = @ + 1, !.inline = InsertAt(@, pos, [ref |-> r, count |-> 1])]

remove_extent_data_ref(item, k) ==
    [item EXCEPT !.keyed = (@ \ {k}) \cup
        (IF k.count > 1 THEN {[k EXCEPT !.count = @ - 1]} ELSE {})]

(* btrfs_inc_extent_ref: inline when it fits and no keyed item exists.  A   *)
(* tree block has one reference of a kind, so finding it there is an error. *)
Referenced(item, r, at) ==
    IF at.found THEN update_inline_extent_backref(item, at.pos, 1)
    ELSE IF Len(item.inline) >= MaxInline \/ item.keyed # {}
    THEN insert_extent_backref([item EXCEPT !.refs = @ + 1], r)
    ELSE setup_inline_extent_backref(item, at.pos, r)

IncRefAt(fs, e, r, at) ==
    IF /\ r.type \in {TREE_BLOCK_REF, SHARED_BLOCK_REF}
       /\ at.found \/ lookup_extent_data_ref(fs.ext[e], r) # {}
    THEN Err(fs) ELSE [fs EXCEPT !.ext[e] = Referenced(@, r, at)]

btrfs_inc_extent_ref(fs, e, r) ==
    IF e \notin DOMAIN fs.ext THEN Err(fs)
    ELSE IncRefAt(fs, e, r, lookup_inline_extent_backref(fs.ext[e], r))

RemoveExtent(fs, e) ==
    [fs EXCEPT !.ext = [x \in DOMAIN @ \ {e} |-> @[x]],
               !.blk = [b \in DOMAIN @ \ {e} |-> @[b]]]

(* __free_extent: drops one reference, and the item with the last one.     *)
FreeOne(fs, e, last, new) ==
    IF fs.ext[e].refs < 1 \/ (fs.ext[e].refs = 1 /\ last # 1) THEN Err(fs)
    ELSE IF fs.ext[e].refs = 1 THEN RemoveExtent(fs, e)
    ELSE [fs EXCEPT !.ext[e] = new]

FreeKeyed(fs, e, kept) ==
    IF kept = {} THEN Err(fs)
    ELSE FreeOne(fs, e, SumCounts(kept),
                 remove_extent_data_ref([fs.ext[e] EXCEPT !.refs = @ - 1],
                                        CHOOSE k \in kept : TRUE))

FreeAt(fs, e, r, at) ==
    IF at.found
    THEN FreeOne(fs, e, fs.ext[e].inline[at.pos].count,
                 update_inline_extent_backref(fs.ext[e], at.pos, -1))
    ELSE FreeKeyed(fs, e, lookup_extent_data_ref(fs.ext[e], r))

__free_extent(fs, e, r) ==
    IF e \notin DOMAIN fs.ext THEN Err(fs)
    ELSE FreeAt(fs, e, r, lookup_inline_extent_backref(fs.ext[e], r))

---------------------------------------------------------------------------
(* __btrfs_mod_ref: one reference more or less for every pointer of a      *)
(* block, by the block itself (record_parent) or by its header's owner.    *)

\* the pointers of a block, one for each child or file slot
Pointers(b, block) ==
    IF block.level > 0 THEN [i \in DOMAIN block.ptr |-> [e |-> block.ptr[i], ino |-> None]]
    ELSE [s \in {s \in DOMAIN block.ptr : block.ptr[s] # None} |->
            [e |-> block.ptr[s], ino |-> block.ino]]

ModRef(fs, e, r, inc) ==
    IF inc THEN btrfs_inc_extent_ref(fs, e, r) ELSE __free_extent(fs, e, r)

RECURSIVE ModRefs(_, _, _, _, _, _)
ModRefs(fs, ptrs, todo, parent, owner, inc) ==
    IF todo = {} THEN fs
    ELSE LET i == Min(todo)
         IN  ModRefs(ModRef(fs, ptrs[i].e, Ref(parent, owner, ptrs[i].ino), inc),
                     ptrs, todo \ {i}, parent, owner, inc)

ModAll(fs, b, ptrs, record_parent, inc) ==
    ModRefs(fs, ptrs, DOMAIN ptrs, IF record_parent THEN b ELSE None, fs.blk[b].owner, inc)

__btrfs_mod_ref(fs, b, record_parent, inc) ==
    ModAll(fs, b, Pointers(b, fs.blk[b]), record_parent, inc)

btrfs_inc_ref(fs, b, record_parent) == __btrfs_mod_ref(fs, b, record_parent, TRUE)
btrfs_dec_ref(fs, b, record_parent) == __btrfs_mod_ref(fs, b, record_parent, FALSE)

---------------------------------------------------------------------------
(* Copy on write.                                                          *)

\* held: blocks that are excluded from allocation
FreeBlocks(fs) == (1..NBlocks) \ (DOMAIN fs.ext \cup fs.held)

\* btrfs_alloc_free_block and the copy: a block of tree t with b's pointers
CopyBlock(fs, t, b, new) ==
    [fs EXCEPT
       !.ext = [x \in DOMAIN @ \cup {new} |->
                  IF x = new THEN [NoItem EXCEPT !.refs = 1,
                                   !.inline = <<[ref |-> Ref(None, t, None), count |-> 1]>>]
                  ELSE @[x]],
       !.blk = [x \in DOMAIN @ \cup {new} |->
                  IF x = new THEN [@[b] EXCEPT !.owner = t, !.gen = fs.id] ELSE @[x]]]

\* a mutant: a block written in the transaction of the snapshot is not shared
SharedBeforeOnly(fs, t, b) ==
    b # fs.root[t].node /\ fs.blk[b].gen < fs.root[t].snap

btrfs_block_can_be_shared(fs, t, b) ==
    b # fs.root[t].node /\ fs.blk[b].gen <= fs.root[t].snap

btrfs_lookup_extent_info(fs, b) == [refs |-> fs.ext[b].refs, full |-> fs.ext[b].full]

btrfs_set_block_flags(fs, b) == [fs EXCEPT !.ext[b].full = TRUE]

(* Who refers to what is below the block when tree t gets a copy of it.     *)
RefForCow(fs, t, b, cow, info) ==
    IF info.refs > 1
    THEN IF fs.blk[b].owner = t /\ ~info.full
         THEN btrfs_set_block_flags(btrfs_inc_ref(fs, b, TRUE), b)
         ELSE btrfs_inc_ref(fs, cow, FALSE)
    ELSE IF info.full THEN btrfs_dec_ref(btrfs_inc_ref(fs, cow, FALSE), b, TRUE)
    ELSE fs

update_ref_for_cow(fs, t, b, cow) ==
    RefForCow(fs, t, b, cow,
              IF btrfs_block_can_be_shared(fs, t, b) THEN btrfs_lookup_extent_info(fs, b)
              ELSE [refs |-> 1, full |-> FALSE])

should_cow_block(fs, b) == fs.blk[b].gen # fs.id

(* btrfs_cow_block for the child at slot i of parent, or for the root.      *)
CowInto(fs, t, b, parent, i, new) ==
    LET f == update_ref_for_cow(CopyBlock(fs, t, b, new), t, b, new)
    IN  __free_extent(IF parent = None THEN [f EXCEPT !.root[t].node = new]
                      ELSE [f EXCEPT !.blk[parent].ptr[i] = new],
                      b, Ref(None, t, None))

btrfs_cow_block(fs, t, b, parent, i) ==
    IF should_cow_block(fs, b) THEN CowInto(fs, t, b, parent, i, Min(FreeBlocks(fs))) ELSE fs

\* btrfs_search_slot with cow = 1: the path from the root to a leaf is copied
CowChild(fs, t, parent, i) == btrfs_cow_block(fs, t, fs.blk[parent].ptr[i], parent, i)
CowNode(fs, t) == CowChild(fs, t, fs.root[t].node, 1)
CowLeaf(fs, t, ino) == CowChild(fs, t, fs.blk[fs.root[t].node].ptr[1], ino)

CowPath(fs, t, ino) ==
    CowLeaf(CowNode(btrfs_cow_block(fs, t, fs.root[t].node, None, 0), t), t, ino)

LeafOf(fs, t, ino) == fs.blk[fs.blk[fs.root[t].node].ptr[1]].ptr[ino]

---------------------------------------------------------------------------
Take(fs) ==
    \E f \in {fs} :
       /\ blk' = f.blk /\ root' = f.root /\ ext' = f.ext
       /\ trans' = [trans EXCEPT !.err = f.err]

\* one tree, empty, written by an earlier transaction
Init ==
    LET t == Min(Trees)
        n == Cardinality(Inodes)
        leaf(i) == CHOOSE ino \in Inodes : Cardinality({x \in Inodes : x <= ino}) = i
    IN  /\ blk = [b \in 1..(n + 2) |->
                    IF b = 1 THEN [owner |-> t, gen |-> 1, level |-> 2, ino |-> None, ptr |-> <<2>>]
                    ELSE IF b = 2 THEN [owner |-> t, gen |-> 1, level |-> 1, ino |-> None,
                          ptr |-> [ino \in Inodes |-> 2 + Cardinality({x \in Inodes : x <= ino})]]
                    ELSE [owner |-> t, gen |-> 1, level |-> 0, ino |-> leaf(b - 2),
                          ptr |-> [s \in Slots |-> None]]]
        /\ root = [x \in {t} |-> [node |-> 1, snap |-> 0]]
        /\ ext = [b \in 1..(n + 2) |->
                    [NoItem EXCEPT !.refs = 1,
                        !.inline = <<[ref |-> Ref(None, t, None), count |-> 1]>>]]
        /\ trans = [id |-> 2, err |-> FALSE]

Room(n) == Cardinality(FreeBlocks(FS)) >= n

(* __btrfs_record_file_extent: a file slot gets an extent that is new or    *)
(* that other slots have already.                                          *)
RecordFileExtent(t, ino, s, d) ==
    /\ t \in DOMAIN root /\ Room(3)
    /\ blk[LeafOf(FS, t, ino)].ptr[s] = None
    /\ \E f \in {CowPath(FS, t, ino)} :
         Take(btrfs_inc_extent_ref(
                [f EXCEPT !.blk[LeafOf(f, t, ino)].ptr[s] = d,
                          !.ext = IF d \in DOMAIN @ THEN @
                                  ELSE [x \in DOMAIN @ \cup {d} |->
                                          IF x = d THEN NoItem ELSE @[x]]],
                d, Ref(None, t, ino)))

(* A file slot is deleted and its reference dropped, with the owner of the  *)
(* leaf it was in.                                                         *)
DropFileExtent(t, ino, s) ==
    /\ t \in DOMAIN root /\ Room(3)
    /\ blk[LeafOf(FS, t, ino)].ptr[s] # None
    /\ \E f \in {CowPath(FS, t, ino)} : \E l \in {LeafOf(f, t, ino)} :
         Take(__free_extent([f EXCEPT !.blk[l].ptr[s] = None], f.blk[l].ptr[s],
                            Ref(None, f.blk[l].owner, ino)))

(* btrfs_copy_root: the new tree has a copy of the root block and one more  *)
(* reference to each block it points to.  The kernel's snapshot does this   *)
(* at a commit and notes the transaction in both trees.                    *)
Snapshot(t, u) ==
    /\ t \in DOMAIN root /\ u \in Trees \ DOMAIN root /\ Room(1)
    /\ trans.id < MaxTrans
    /\ \E new \in {Min(FreeBlocks(FS))} :
       \E f \in {btrfs_inc_ref(CopyBlock(FS, u, root[t].node, new), new, FALSE)} :
          /\ blk' = f.blk /\ ext' = f.ext
          /\ root' = [x \in DOMAIN root \cup {u} |->
                        IF x = u THEN [node |-> new, snap |-> trans.id]
                        ELSE IF x = t THEN [root[t] EXCEPT !.snap = trans.id] ELSE root[x]]
          /\ trans' = [id |-> trans.id + 1, err |-> f.err]

Commit ==
    /\ trans.id < MaxTrans
    /\ trans' = [trans EXCEPT !.id = @ + 1]
    /\ UNCHANGED <<blk, root, ext>>

Next ==
    \/ \E t \in Trees, ino \in Inodes, s \in Slots :
          \/ \E d \in Data : RecordFileExtent(t, ino, s, d)
          \/ DropFileExtent(t, ino, s)
    \/ \E t, u \in Trees : Snapshot(t, u)
    \/ Commit

Spec == Init /\ [][Next]_vars

---------------------------------------------------------------------------
RECURSIVE Reach(_, _)
Reach(S, level) ==
    IF level < 0 THEN S
    ELSE Reach(S \cup UNION {{blk[b].ptr[i] : i \in DOMAIN blk[b].ptr} :
                    b \in {x \in S : x \in DOMAIN blk /\ blk[x].level > 0}}, level - 1)

Reachable == Reach({root[t].node : t \in DOMAIN root}, 2)

\* the references that the trees hold to an extent: one for each tree whose
\* root it is, and one for each pointer of a reachable block, by the block if
\* the item of that block says FULL_BACKREF and by the block's owner if not
Holders(e) ==
    LET roots == {t \in DOMAIN root : root[t].node = e}
        ptrs(b) == Pointers(b, blk[b])
        by(b) == {i \in DOMAIN ptrs(b) : ptrs(b)[i].e = e}
        ref(b, i) == Ref(IF ext[b].full THEN b ELSE None, blk[b].owner, ptrs(b)[i].ino)
    IN  {<<Ref(None, t, None), t, 0>> : t \in roots}
          \cup UNION {{<<ref(b, i), b, i>> : i \in by(b)} : b \in Reachable \cap DOMAIN blk}

Recorded(e, r) ==
    MapThenSumSet(LAMBDA i : ext[e].inline[i].count,
                  {i \in DOMAIN ext[e].inline : ext[e].inline[i].ref = r})
      + MapThenSumSet(LAMBDA k : k.count, {k \in ext[e].keyed : k.ref = r})

RefsOf(e) == {ext[e].inline[i].ref : i \in DOMAIN ext[e].inline} \cup {k.ref : k \in ext[e].keyed}

(* After every change of every tree the extent tree records, for each block *)
(* and data extent, exactly the references the trees hold: the same holders, *)
(* each with its count, adding up to the item's own count; no reachable     *)
(* block was freed, nothing unreachable is kept, and no call failed to find *)
(* the reference it was to drop.                                           *)
RefsExact ==
    /\ ~trans.err
    /\ Reachable \subseteq DOMAIN blk
    /\ \A e \in DOMAIN ext :
         LET held == {h[1] : h \in Holders(e)}
             n(r) == Cardinality({h \in Holders(e) : h[1] = r})
         IN  /\ RefsOf(e) = held /\ \A r \in held : Recorded(e, r) = n(r)
             /\ ext[e].refs = Cardinality(Holders(e))
             /\ ext[e].refs > 0
=============================================================================
