---------------------------- MODULE CheckExtents ----------------------------
(***************************************************************************)
(* check of the extent tree in the original mode (check/main.c), and what  *)
(* --repair and --init-extent-tree make of it.  The scan reads the extent  *)
(* tree and then every file tree and keeps, in extent_cache, a record for  *)
(* each extent with what both say; a record is freed as soon as they       *)
(* agree.  The records that are left are errors, and a repair writes their *)
(* items again from what the trees said, each in its own transaction.      *)
(*                                                                         *)
(* The trees come from SharedBlocks; one damage is done to the extent tree *)
(* or to a block.  All data extents have one length.                       *)
(***************************************************************************)
EXTENDS SharedBlocks

CONSTANTS MaxFixes    \* bound on the transactions of repair_ref

VARIABLES cache,      \* extent_cache: extent -> record
          chk         \* the run: see Idle

checkVars == <<blk, root, ext, trans, cache, chk>>

FLAG_UNSET == 2
FIRST_FREE_OBJECTID == 256

---------------------------------------------------------------------------
(* Records: what the trees (refs) and the item say, and the back references *)
(* of either, each with where it was found.                                *)

NewRec(meta) ==
    [refs |-> 0, item |-> 0, found_rec |-> FALSE, content |-> FALSE, owner |-> FALSE,
     meta |-> meta, full |-> FLAG_UNSET, bad |-> FALSE, back |-> <<>>]

IsData(r) == r.type \in {EXTENT_DATA_REF, SHARED_DATA_REF}

\* a mutant: num_refs of a data reference is not compared
CountsUnchecked(rec) ==
    \/ \E r \in DOMAIN rec.back : ~rec.back[r].tree \/ rec.back[r].found = 0
    \/ rec.refs # MapThenSumSet(LAMBDA r : IF IsData(r) THEN rec.back[r].found ELSE 1,
                                DOMAIN rec.back)

\* TRUE if something is wrong; the disk_bytenr of a data reference that was
\* not found is not that of the record
all_backpointers_checked(rec) ==
    \/ \E r \in DOMAIN rec.back :
         \/ ~rec.back[r].tree \/ rec.back[r].found = 0
         \/ IsData(r) /\ rec.back[r].found # rec.back[r].num
    \/ rec.refs # MapThenSumSet(LAMBDA r : IF IsData(r) THEN rec.back[r].found ELSE 1,
                                DOMAIN rec.back)

Agreed(rec) ==
    /\ rec.content /\ rec.owner /\ rec.item = rec.refs /\ rec.refs > 0
    /\ ~all_backpointers_checked(rec) /\ ~rec.bad

Without(f, S) == [x \in DOMAIN f \ S |-> f[x]]
With(f, x, v) == [y \in DOMAIN f \cup {x} |-> IF y = x THEN v ELSE f[y]]

\* the record goes to the cache, or away if nothing is left to find out
maybe_free_extent_rec(c, e, rec) ==
    [c EXCEPT !.rec = IF Agreed(rec) THEN Without(@, {e}) ELSE With(@, e, rec)]

RecOf(c, e, meta) == IF e \in DOMAIN c.rec THEN c.rec[e] ELSE NewRec(meta)

add_extent_rec(c, e, meta, refs, item) ==
    LET rec == RecOf(c, e, meta)
        new == [rec EXCEPT !.refs = @ + refs, !.item = IF item.found THEN item.refs ELSE @,
                           !.found_rec = @ \/ item.found]
    IN  IF e \in DOMAIN c.rec THEN maybe_free_extent_rec(c, e, new)
        ELSE [c EXCEPT !.rec = With(@, e, new)]

NoItemSeen == [found |-> FALSE, refs |-> 0]

BackOf(rec, r) ==
    IF r \in DOMAIN rec.back THEN rec.back[r] ELSE [tree |-> FALSE, found |-> 0, num |-> 0]

add_tree_backref(c, e, r, found_ref) ==
    LET rec == RecOf(c, e, TRUE)
        b == BackOf(rec, r)
    IN  maybe_free_extent_rec(c, e,
          [rec EXCEPT !.back = With(@, r, IF found_ref THEN [b EXCEPT !.found = 1]
                                          ELSE [b EXCEPT !.tree = TRUE])])

add_data_backref(c, e, r, num_refs, found_ref) ==
    LET rec == RecOf(c, e, FALSE)
        b == BackOf(rec, r)
    IN  maybe_free_extent_rec(c, e,
          IF found_ref
          THEN [rec EXCEPT !.back = With(@, r, [b EXCEPT !.found = @ + 1]),
                           !.refs = @ + 1, !.content = TRUE, !.owner = TRUE]
          ELSE [rec EXCEPT !.back = With(@, r, [b EXCEPT !.num = num_refs, !.tree = TRUE])])

AddBackref(c, e, r, num_refs) ==
    IF IsData(r) THEN add_data_backref(c, e, r, num_refs, FALSE)
    ELSE add_tree_backref(c, e, r, FALSE)

---------------------------------------------------------------------------
(* The extent tree: the item with its inline references, and the keyed     *)
(* references behind it.                                                   *)

process_extent_item(c, f, e) ==
    FoldLeft(LAMBDA d, i : AddBackref(d, e, i.ref, i.count),
             add_extent_rec(c, e, e \notin Data, 0, [found |-> TRUE, refs |-> f.ext[e].refs]),
             f.ext[e].inline)

KeyedRefs(c, f, e) ==
    FoldSet(LAMBDA k, d : AddBackref(d, e, k.ref, k.count), c, f.ext[e].keyed)

RECURSIVE ScanItems(_, _, _)
ScanItems(c, f, todo) ==
    IF todo = {} THEN c
    ELSE LET e == Min(todo)
             one == {KeyedRefs(d, f, e) : d \in {process_extent_item(c, f, e)}}
         IN  CHOOSE y \in {ScanItems(n, f, todo \ {e}) : n \in one} : TRUE

---------------------------------------------------------------------------
(* The trees.  Inner blocks are read before leaves, in batches by address;  *)
(* 32768 bytes are two blocks.                                             *)

Near == 2

RECURSIVE PendingNear(_, _)
PendingNear(pending, from) ==
    LET after == {b \in pending : b >= from}
    IN  IF after = {} THEN {}
        ELSE IF Min(after) - from > Near THEN {}
        ELSE {Min(after)} \cup PendingNear(pending, Min(after) + 1)

NodeBatch(c) ==
    LET from == {b \in c.nodes : b >= (IF c.last > Near THEN c.last - Near ELSE c.last)}
    IN  IF from # {} THEN from ELSE c.nodes

\* the blocks read ahead, the first of which is next
pick_next_pending(c) ==
    IF c.reada # {} THEN [first |-> Min(c.reada), reada |-> c.reada]
    ELSE IF c.nodes = {} THEN [first |-> Min(c.pending), reada |-> c.pending]
    ELSE [first |-> Min(NodeBatch(c)),
          reada |-> NodeBatch(c) \cup PendingNear(c.pending, Min(NodeBatch(c)) + 1)]

add_pending(c, b, node) ==
    IF b \in c.seen THEN c
    ELSE IF node THEN [c EXCEPT !.seen = @ \cup {b}, !.nodes = @ \cup {b}]
    ELSE [c EXCEPT !.seen = @ \cup {b}, !.pending = @ \cup {b}]

\* t is None when no tree is being read any more
FullBackref(c, f, t, b) ==
    /\ t >= FIRST_FREE_OBJECTID
    /\ b # f.root[t].node
    /\ f.blk[b].owner # t
    /\ Ref(None, f.blk[b].owner, None) \notin DOMAIN c.rec[b].back

calc_extent_flag(c, f, t, b) ==
    LET full == FullBackref(c, f, t, b)
        old == c.rec[b].full
    IN  [full |-> full, bad |-> old # FLAG_UNSET /\ old # (IF full THEN 1 ELSE 0)]

\* the flag of the item, unless the owner has the block since the last snapshot
ItemFlag(f, t, b) ==
    LET wrong == /\ f.ext[b].full /\ t # None /\ t = f.blk[b].owner
                 /\ f.blk[b].gen > f.root[t].snap
    IN  [full |-> f.ext[b].full /\ ~wrong, bad |-> wrong]

BlockFlags(c, f, t, b, init) ==
    IF ~init /\ b \in DOMAIN f.ext THEN ItemFlag(f, t, b) ELSE calc_extent_flag(c, f, t, b)

\* the child of tree t's block at level l + 1 on the way to inode ino
ChildAt(f, t, ino, l) ==
    IF l = 2 THEN None
    ELSE IF l = 1 THEN f.blk[f.root[t].node].ptr[1] ELSE LeafOf(f, t, ino)

FirstIno(f, b) == IF f.blk[b].level = 0 THEN f.blk[b].ino ELSE Min(Inodes)

\* a parent that cannot be read passes
check_owner_ref(rec, f, b, unread) ==
    LET own == f.blk[b].owner
    IN  \/ own \in DOMAIN f.root /\ f.blk[b].level = 0 /\ f.blk[f.root[own].node].ptr[1] \in unread
        \/ Ref(None, own, None) \in DOMAIN rec.back /\ rec.back[Ref(None, own, None)].found > 0
        \/ own \in DOMAIN f.root /\ ChildAt(f, own, FirstIno(f, b), f.blk[b].level) = b

\* ret 1: the owner does not refer to the block
check_block(c, f, b, full, unread) ==
    LET ok == full \/ check_owner_ref(c.rec[b], f, b, unread)
        rec == [c.rec[b] EXCEPT !.content = TRUE, !.owner = @ \/ ok]
    IN  IF ok THEN maybe_free_extent_rec(c, b, rec)
        ELSE [c EXCEPT !.rec[b] = rec, !.ret = 1]

ReadPointer(c, f, b, parent, p) ==
    LET r == Ref(parent, f.blk[b].owner, p.ino)
    IN  IF f.blk[b].level = 0 THEN add_data_backref(c, p.e, r, 1, TRUE)
        ELSE add_pending(add_tree_backref(add_extent_rec(c, p.e, TRUE, 1, NoItemSeen), p.e, r, TRUE),
                         p.e, f.blk[b].level > 1)

ReadPointers(c, f, b, parent) ==
    LET ptrs == Pointers(b, f.blk[b])
    IN  FoldSet(LAMBDA i, d : ReadPointer(d, f, b, parent, ptrs[i]), c, DOMAIN ptrs)

ReadBlock(c, f, b, flags, unread) ==
    LET flagged == [c EXCEPT !.rec[b].full = IF flags.full THEN 1 ELSE 0,
                             !.rec[b].bad = @ \/ flags.bad]
        checked == {check_block(flagged, f, b, flags.full, unread)}
    IN  CHOOSE y \in {IF d.ret # 0 THEN d ELSE ReadPointers(d, f, b, IF flags.full THEN b ELSE None) :
                         d \in checked} : TRUE

run_next_block(c, f, t, init, unread) ==
    LET next == pick_next_pending(c)
        b == next.first
        d == [c EXCEPT !.last = b, !.reada = next.reada \ {b}, !.nodes = @ \ {b},
                       !.pending = @ \ {b}, !.ret = 0]
    IN  IF b \in unread THEN d
        ELSE IF t = None /\ (init \/ b \notin DOMAIN f.ext) THEN [d EXCEPT !.crash = TRUE, !.ret = 1]
        ELSE ReadBlock(d, f, b, BlockFlags(d, f, t, b, init), unread)

add_root_to_pending(c, f, t) ==
    LET b == f.root[t].node
    IN  add_tree_backref(
          add_extent_rec(add_pending(c, b, f.blk[b].level > 0), b, TRUE, 1, NoItemSeen),
          b, Ref(None, t, None), TRUE)

RECURSIVE RunBlocks(_, _, _, _, _)
RunBlocks(c, f, t, init, unread) ==
    IF c.reada \cup c.nodes \cup c.pending = {} THEN c
    ELSE CHOOSE y \in {IF n.ret # 0 THEN n ELSE RunBlocks(n, f, t, init, unread) :
                          n \in {run_next_block(c, f, t, init, unread)}} : TRUE

\* A failed owner check ends the walk of its tree; the next one goes on.  A
\* root that cannot be read ends the scan.
RECURSIVE deal_root_from_list(_, _, _, _, _)
deal_root_from_list(c, f, list, init, unread) ==
    IF list = {} THEN RunBlocks(c, f, None, init, unread)
    ELSE IF f.root[Min(list)].node \in unread THEN [c EXCEPT !.failed = TRUE]
    ELSE LET t == Min(list)
             one == {RunBlocks(d, f, t, init, unread) :
                       d \in {[add_root_to_pending(c, f, t) EXCEPT !.last = 0]}}
         IN  CHOOSE y \in {deal_root_from_list(n, f, list \ {t}, init, unread) : n \in one} : TRUE

NothingRead == [rec |-> <<>>, seen |-> {}, reada |-> {}, nodes |-> {}, pending |-> {},
                last |-> 0, ret |-> 0, crash |-> FALSE, failed |-> FALSE]

\* the normal trees, then the (no) dropping ones
ScanAll(f, init, unread) ==
    LET normal == {deal_root_from_list(c, f, DOMAIN f.root, init, unread) :
                     c \in {ScanItems(NothingRead, f, DOMAIN f.ext)}}
    IN  CHOOSE y \in {IF c.failed THEN c ELSE deal_root_from_list(c, f, {}, init, unread) :
                         c \in normal} : TRUE

---------------------------------------------------------------------------
(* Repair of one record.                                                   *)

\* what the file has where a data reference says
FileSlot(f, r) == f.blk[LeafOf(f, r.who[1], r.who[2])].ptr[1]

\* references of the item that no tree was found to hold, although the file
\* has another extent there, one without a record that has an item
find_possible_backrefs(f, e) ==
    {r \in DOMAIN cache[e].back :
       /\ r.type = EXTENT_DATA_REF /\ cache[e].back[r].found = 0
       /\ r.who[1] \in DOMAIN f.root
       /\ LET x == FileSlot(f, r)
          IN  x # None /\ ~(x \in DOMAIN cache /\ cache[x].found_rec)}

BrokenRefs(f, e) ==
    IF cache[e].refs # cache[e].item /\ ~cache[e].meta THEN find_possible_backrefs(f, e) ELSE {}

\* whom the references agree on: this extent, or (FALSE) nobody
AgreeOn(f, e, broken) ==
    \/ cache[e].found_rec
    \/ \E r \in DOMAIN cache[e].back : r.type = EXTENT_DATA_REF /\ cache[e].back[r].found > 0
    \/ \E r \in broken : FileSlot(f, r) = e

PathBlocks(f, t, ino) == {f.root[t].node, f.blk[f.root[t].node].ptr[1], LeafOf(f, t, ino)}

\* the file is made to point to e, in a transaction of its own
repair_ref(f, r, e) ==
    LET t == r.who[1]
        ino == r.who[2]
        g == CowPath(f, t, ino)
    IN  IF f.err \/ ~(PathBlocks(f, t, ino) \subseteq DOMAIN f.ext) \/ Cardinality(FreeBlocks(f)) < 3
        THEN Err(f)
        ELSE [g EXCEPT !.blk[LeafOf(g, t, ino)].ptr[1] = e, !.id = @ + 1]

verify_backrefs(f, e, broken) ==
    FoldSet(LAMBDA r, g : repair_ref(g, r, e), f, {r \in broken : FileSlot(f, r) # e})

delete_extent_records(f, e) == [f EXCEPT !.ext = Without(@, {e})]

FoundRefs(rec) == {r \in DOMAIN rec.back : rec.back[r].found > 0}

NewItem(f, e, rec) ==
    IF e \in DOMAIN f.ext THEN f
    ELSE [f EXCEPT !.ext = With(@, e, [NoItem EXCEPT !.full = rec.meta /\ rec.full # 0])]

\* a mutant: a back reference is written once, however often it was found
RecordOnce(f, e, rec, r) == btrfs_inc_extent_ref(NewItem(f, e, rec), e, r)

\* the references of one back reference, each found one
record_extent(f, e, rec, r) ==
    FoldLeft(LAMBDA g, i : btrfs_inc_extent_ref(g, e, r), NewItem(f, e, rec),
             [i \in 1..rec.back[r].found |-> i])

RecreateRefs(f, e, rec) ==
    FoldSet(LAMBDA r, g : record_extent(g, e, rec, r), delete_extent_records(f, e), FoundRefs(rec))

NeedsFix(rec) == rec.refs # rec.item \/ all_backpointers_checked(rec) \/ ~rec.owner

\* items written by record_extent are not METADATA_ITEMs
fixup_extent_flags(f, e, rec, plain) ==
    IF e \in plain \/ e \notin DOMAIN f.ext THEN Err(f)
    ELSE [f EXCEPT !.ext[e].full = rec.full # 0]

\* what one record's repair leaves: [fs, plain, again]
FixRefs(f, e, rec, plain) ==
    LET broken == BrokenRefs(f, e)
    IN  IF ~NeedsFix(rec) THEN [fs |-> f, plain |-> plain, bad |-> rec.bad, again |-> FALSE]
        ELSE IF broken # {}
        THEN [fs |-> IF AgreeOn(f, e, broken) THEN verify_backrefs(f, e, broken) ELSE Err(f),
              plain |-> plain, bad |-> FALSE, again |-> TRUE]
        ELSE [fs |-> RecreateRefs(f, e, rec),
              plain |-> IF rec.meta /\ FoundRefs(rec) # {} THEN plain \cup {e} ELSE plain,
              bad |-> rec.bad /\ FoundRefs(rec) = {}, again |-> FALSE]

FixRecord(f, e, rec, plain) ==
    LET x == CHOOSE y \in {FixRefs(f, e, rec, plain)} : TRUE
    IN  IF x.bad THEN [x EXCEPT !.fs = fixup_extent_flags(@, e, rec, x.plain)] ELSE x

---------------------------------------------------------------------------
(* Damage of the extent tree: what bad hardware or another bug left.        *)

Removed(item, i) == [item EXCEPT !.inline = RemoveAt(@, i)]

Damages(f) ==
    LET item == f.ext
        set(e, v) == [f EXCEPT !.ext[e] = v]
        used(b) == b \in DOMAIN f.blk /\ DOMAIN Pointers(b, f.blk[b]) # {}
        trees == {Ref(None, t, None) : t \in Trees}
        files == {Ref(None, t, ino) : t \in Trees, ino \in Inodes}
        has(e, r) == \/ \E i \in DOMAIN item[e].inline : item[e].inline[i].ref = r
                     \/ \E k \in item[e].keyed : k.ref = r
    IN  {[kind |-> k, fs |-> f] : k \in {"none", "unread"}}
        \cup {[kind |-> "item", fs |-> delete_extent_records(f, e)] : e \in DOMAIN item}
        \cup {[kind |-> "refs", fs |-> set(e, [item[e] EXCEPT !.refs = @ + n])] :
                 e \in DOMAIN item, n \in {-1, 1}}
        \cup UNION {{[kind |-> "lost", fs |-> set(e, [Removed(item[e], i) EXCEPT !.refs = @ - n])] :
                       i \in DOMAIN item[e].inline, n \in {0, 1}} : e \in DOMAIN item}
        \cup UNION {{[kind |-> "count", fs |-> set(e, [item[e] EXCEPT !.inline[i].count = @ + 1,
                                                                     !.refs = @ + n])] :
                       i \in DOMAIN item[e].inline, n \in {0, 1}} : e \in DOMAIN item \cap Data}
        \cup UNION {{[kind |-> "extra", fs |-> set(e, [item[e] EXCEPT !.refs = @ + n,
                           !.inline = InsertAt(@, ScanInline(@, r, 1).pos, [ref |-> r, count |-> 1])])] :
                       n \in {0, 1},
                       r \in {r \in (IF e \in Data THEN files ELSE trees) : ~has(e, r)}} :
                     e \in DOMAIN item}
        \cup {[kind |-> "flag", fs |-> set(b, [item[b] EXCEPT !.full = ~@])] :
                 b \in {b \in DOMAIN item : used(b)}}

---------------------------------------------------------------------------
Idle == [phase |-> "use", mode |-> "check", kind |-> "none", unread |-> {}, held |-> {},
         plain |-> {}, runs |-> 0, fixes |-> 0]

CheckInit == Init /\ cache = <<>> /\ chk = Idle

\* the extents offered to a file slot (a bound)
SlotData(s) == IF s = Min(Slots) THEN Data ELSE {Min(Data)}

\* tree ids grow
Use ==
    /\ chk.phase = "use"
    /\ \/ \E t \in Trees, ino \in Inodes, s \in Slots :
            \/ \E d \in SlotData(s) : RecordFileExtent(t, ino, s, d)
            \/ DropFileExtent(t, ino, s)
       \/ \E t, u \in Trees : Snapshot(t, u) /\ \A x \in DOMAIN root : x < u
       \/ Commit
    /\ UNCHANGED <<cache, chk>>

Unreadable(kind) == IF kind = "unread" THEN {{b} : b \in DOMAIN blk} ELSE {{}}

Damage ==
    /\ chk.phase = "use" /\ trans.id = MaxTrans
    /\ \E d \in Damages(FS) : \E u \in Unreadable(d.kind) :
         /\ ext' = d.fs.ext
         /\ chk' = [chk EXCEPT !.phase = "scan", !.kind = d.kind, !.unread = u]
    /\ trans' = [trans EXCEPT !.id = @ + 1]
    /\ UNCHANGED <<blk, root, cache>>

\* the new extent tree is empty, whatever was wrong with the old one
reinit_extent_tree ==
    /\ chk.phase = "scan" /\ chk.mode = "check" /\ chk.kind = "none"
    /\ ext' = <<>>
    /\ chk' = [chk EXCEPT !.mode = "init"]
    /\ UNCHANGED <<blk, root, trans, cache>>

\* the records that are left are excluded from allocation before a repair
check_chunks_and_extents ==
    /\ chk.phase = "scan"
    /\ \E c \in {ScanAll(FS, chk.mode = "init", chk.unread)} :
         /\ cache' = c.rec
         /\ chk' = [chk EXCEPT !.phase = IF c.crash THEN "crashed"
                                         ELSE IF c.failed THEN "failed" ELSE "refs",
                               !.held = DOMAIN c.rec]
    /\ UNCHANGED vars

\* the same scan with --repair
Repair ==
    /\ chk.phase = "refs" /\ chk.mode = "check"
    /\ chk' = [chk EXCEPT !.mode = "repair"]
    /\ UNCHANGED <<vars, cache>>

\* one record of the cache, lowest address first
check_extent_refs ==
    /\ chk.phase = "refs" /\ chk.mode # "check" /\ DOMAIN cache # {}
    /\ LET e == Min(DOMAIN cache)
       IN  \E x \in {FixRecord([FS EXCEPT !.held = chk.held], e, cache[e], chk.plain)} :
             /\ x.again => chk.fixes < MaxFixes
             /\ blk' = x.fs.blk /\ root' = x.fs.root /\ ext' = x.fs.ext
             /\ trans' = [trans EXCEPT !.id = x.fs.id]
             /\ cache' = IF x.again THEN <<>> ELSE Without(cache, {e})
             /\ chk' = [chk EXCEPT !.plain = x.plain,
                           !.phase = IF x.fs.err THEN "aborted" ELSE IF x.again THEN "scan" ELSE @,
                           !.fixes = IF x.again THEN @ + 1 ELSE @,
                           !.held = IF chk.mode = "init" THEN @ ELSE IF x.again THEN {} ELSE @ \ {e}]

Finish ==
    /\ chk.phase = "refs" /\ chk.mode # "check" /\ DOMAIN cache = {}
    /\ chk' = [chk EXCEPT !.phase = "done", !.held = {}, !.runs = @ + 1, !.fixes = 0]
    /\ UNCHANGED <<vars, cache>>

\* the command is given again
Again ==
    /\ chk.phase = "done" /\ chk.mode = "repair" /\ chk.runs < 2
    /\ chk' = [chk EXCEPT !.phase = "scan"]
    /\ UNCHANGED <<vars, cache>>

CheckNext ==
    Use \/ Damage \/ reinit_extent_tree \/ check_chunks_and_extents \/ Repair
      \/ check_extent_refs \/ Finish \/ Again

CheckSpec == CheckInit /\ [][CheckNext]_checkVars

---------------------------------------------------------------------------
Used == Reachable \cup
    (UNION {{blk[b].ptr[s] : s \in DOMAIN blk[b].ptr} :
              b \in {b \in Reachable \cap DOMAIN blk : blk[b].level = 0}} \ {None})

Sound == DOMAIN ext = Used /\ RefsExact

(* The scan finds every damage of the extent tree and nothing else: there   *)
(* is a record left at its end, or a root that could not be read, exactly   *)
(* when something is wrong, and every record that is left is an error in    *)
(* check_extent_refs, which keeps the error of the last record only (err =  *)
(* cur_err).  calc_extent_flag is never without a root item.                *)
ExtentVerdict ==
    /\ chk.phase = "refs" /\ chk.mode = "check" => (DOMAIN cache # {} <=> chk.kind # "none")
    /\ chk.phase = "refs" => \A e \in DOMAIN cache : NeedsFix(cache[e]) \/ cache[e].bad
    /\ chk.phase # "crashed"
    /\ chk.phase = "failed" => chk.kind = "unread"

(* --init-extent-tree writes exactly the references the trees hold, with    *)
(* the FULL_BACKREF flags calc_extent_flag works out from the order of the  *)
(* trees.  A repair that ends leaves the references exact, in its first run *)
(* or, when an item had lost a reference that is held, in its second; while *)
(* it goes on every extent in use has an item or is excluded from           *)
(* allocation.  This does not cover a wrong FULL_BACKREF flag or a block    *)
(* that cannot be read: the extents below are then taken for free.          *)
ExtentsRepaired ==
    /\ chk.phase = "done" /\ chk.mode = "init" => Sound
    /\ chk.mode = "repair" /\ chk.kind \notin {"flag", "unread"} =>
         /\ chk.phase = "done" /\ (chk.kind = "lost" => chk.runs = 2) => Sound
         /\ chk.phase = "done" => Used \subseteq DOMAIN ext
         /\ chk.phase = "refs" => Used \subseteq DOMAIN ext \cup chk.held

(* Not so: a repair never makes a file slot point to another extent while   *)
(* the one it points to has its item.  The comment of find_possible_backrefs *)
(* says so, but the extents it looks up are gone from the cache when they   *)
(* are in order.                                                           *)
FilesKept ==
    [][chk.phase = "refs" /\ chk.mode = "repair" =>
         \A t \in DOMAIN root, ino \in Inodes, s \in Slots :
            blk[LeafOf(FS, t, ino)].ptr[s] = (blk[LeafOf(FS, t, ino)].ptr[s])']_checkVars
=============================================================================
