------------------------------- MODULE BTree -------------------------------
(***************************************************************************)
(* The copy-on-write B-tree of ctree.c as a data structure: the search that *)
(* splits or merges nodes on its way down, the insertion, growth, cut and  *)
(* deletion of items, and the walks from leaf to leaf.  What a block's     *)
(* copy-on-write does to the disk is the subject of Transaction; here a    *)
(* tree is the nested value of its blocks.                                 *)
(*                                                                         *)
(* A block is [level, ents].  An entry of a leaf is [key, size], an item   *)
(* with the number of bytes of its data; an entry of a node is [key,       *)
(* child], and its key is stored apart from the child's own first key, as  *)
(* on the disk.  A path of the code, struct btrfs_path, is the root        *)
(* together with one slot per level: path->nodes[l] is the block those     *)
(* slots lead to.  Slots count from 0.                                     *)
(***************************************************************************)
EXTENDS Integers, FiniteSets, SequencesExt

CONSTANTS Keys,       \* the keys, integers in key order
          DirKeys,    \* those of type BTRFS_DIR_ITEM_KEY
          SizesOf,    \* the data sizes an item of each key may have
          LeafData,   \* BTRFS_LEAF_DATA_SIZE
          ItemHdr,    \* sizeof(struct btrfs_item)
          NodePtrs,   \* BTRFS_NODEPTRS_PER_BLOCK
          KeepPtrs,   \* the 8 pointers a push leaves behind
          MaxRoom     \* the most block allocations that succeed in a call

VARIABLES tree,       \* the root block
          map,        \* what the callers stored: key -> size
          aborted     \* a BUG or BUG_ON was reached

vars == <<tree, map, aborted>>

MaxLevel == 4         \* deeper than any tree of the instance
NoSlots == [l \in 0..MaxLevel |-> 0]

---------------------------------------------------------------------------
(* Paths.                                                                  *)

RECURSIVE At(_, _, _)
At(n, slots, l) ==
    IF n.level = l THEN n ELSE At(n.ents[slots[n.level] + 1].child, slots, l)

RECURSIVE Replace(_, _, _)
Replace(n, slots, m) ==
    IF n.level = m.level THEN m
    ELSE [n EXCEPT !.ents[slots[n.level] + 1].child = Replace(@, slots, m)]

\* a call in progress: the tree, the path, the allocations left, the result
Call(t, room) == [root |-> t, slots |-> NoSlots, room |-> room, ret |-> "ok"]

Node(p, l) == At(p.root, p.slots, l)
Nr(n) == Len(n.ents)
Write(p, n) == [p EXCEPT !.root = Replace(@, p.slots, n)]
SetSlot(p, l, s) == [p EXCEPT !.slots[l] = s]
Fail(p, e) == [p EXCEPT !.ret = e]
Bug(p, cond) == IF cond /\ p.ret = "ok" THEN Fail(p, "BUG") ELSE p

(* Keys of the pointers above a block that got a new first key.            *)
RECURSIVE btrfs_fixup_low_keys(_, _, _)
btrfs_fixup_low_keys(p, key, l) ==
    IF l > p.root.level THEN p
    ELSE LET n == Node(p, l)
             q == Write(p, [n EXCEPT !.ents[p.slots[l] + 1].key = key])
         IN  IF p.slots[l] # 0 THEN q ELSE btrfs_fixup_low_keys(q, key, l + 1)

SetPtrKey(p, l, slot, key) ==
    Write(p, [Node(p, l) EXCEPT !.ents[slot + 1].key = key])

SetChild(p, l, slot, child) ==
    Write(p, [Node(p, l) EXCEPT !.ents[slot + 1].child = child])

Child(p, l, slot) == Node(p, l).ents[slot + 1].child

(* generic_bin_search: the slot of key, or the one it would be inserted at. *)
RECURSIVE BinSearch(_, _, _, _)
BinSearch(n, key, low, high) ==
    IF low >= high THEN [found |-> FALSE, slot |-> low]
    ELSE LET mid == (low + high) \div 2
             k   == n.ents[mid + 1].key
         IN  IF k < key THEN BinSearch(n, key, mid + 1, high)
             ELSE IF k > key THEN BinSearch(n, key, low, mid)
             ELSE [found |-> TRUE, slot |-> mid]

bin_search(n, key) == BinSearch(n, key, 0, Nr(n))

RECURSIVE SpaceOf(_, _, _)
SpaceOf(ents, a, b) ==   \* the bytes of the items a to b of a leaf
    IF a > b THEN 0 ELSE ents[a].size + ItemHdr + SpaceOf(ents, a + 1, b)

(* btrfs_check_node and btrfs_check_leaf, as check_block calls them on the  *)
(* way down.  The order of the last two pointers of a node is not looked at. *)
check_block(p, l) ==
    LET n    == Node(p, l)
        last == IF l = 0 THEN Nr(n) - 1 ELSE Nr(n) - 2
    IN  /\ IF l = 0 THEN SpaceOf(n.ents, 1, Nr(n)) <= LeafData ELSE Nr(n) \in 1..NodePtrs
        /\ (l < p.root.level /\ Nr(n) > 0)
              => Node(p, l + 1).ents[p.slots[l + 1] + 1].key = n.ents[1].key
        /\ \A i \in 1..last : n.ents[i].key < n.ents[i + 1].key

---------------------------------------------------------------------------
(* Nodes.                                                                  *)

(* push_node_left: how many pointers move from the front of src to dst;    *)
(* none when the code returns 1.                                           *)
PushLeftCount(dst, src, empty) ==
    LET room == NodePtrs - Nr(dst)
    IN  IF (~empty /\ Nr(src) <= KeepPtrs) \/ room <= 0 THEN 0
        ELSE IF ~empty THEN Min({Nr(src) - KeepPtrs, room})
        ELSE IF room >= Nr(src) THEN Nr(src)
        ELSE IF Nr(src) - room >= KeepPtrs THEN room
        ELSE IF room <= KeepPtrs THEN 0 ELSE room - KeepPtrs

(* balance_node_right: how many move from the end of src to dst.           *)
PushRightCount(dst, src) ==
    LET room == NodePtrs - Nr(dst)
        most == Nr(src) \div 2 + 1
    IN  IF room <= 0 \/ Nr(src) < 4 \/ most >= Nr(src) THEN 0
        ELSE Min({most, room})

Append_(n, ents) == [n EXCEPT !.ents = @ \o ents]
Prepend(n, ents) == [n EXCEPT !.ents = ents \o @]
Take(n, c) == [n EXCEPT !.ents = SubSeq(@, 1, c)]
Drop(n, c) == [n EXCEPT !.ents = SubSeq(@, c + 1, Len(@))]

DelPtrDone(p, m, l, slot) ==
    IF Nr(m) = 0 /\ l = p.root.level
    THEN Bug([p EXCEPT !.root = [level |-> 0, ents |-> <<>>]], l # 1)
    ELSE IF slot = 0 /\ Nr(m) > 0
    THEN btrfs_fixup_low_keys(Write(p, m), m.ents[1].key, l + 1) ELSE Write(p, m)

btrfs_del_ptr(p, l, slot) ==
    DelPtrDone(p, [Node(p, l) EXCEPT !.ents = RemoveAt(@, slot + 1)], l, slot)

(* The merges a deletion makes on its way down: the siblings give or take  *)
(* pointers, and a block that ends up empty leaves the parent.  "again"    *)
(* tells the search to restart from a root that was replaced by its child. *)
MoveFront(b, from, to, c) ==
    [b EXCEPT ![to] = Append_(@, Take(b[from], c).ents), ![from] = Drop(@, c)]
MoveBack(b, from, to, c) ==
    [b EXCEPT ![to] = Prepend(@, Drop(b[from], Nr(b[from]) - c).ents),
              ![from] = Take(@, Nr(@) - c)]

\* a block with its siblings under one parent
Siblings(p, l, ps, parent, mid) ==
    [hasL |-> ps > 0, hasR |-> ps + 1 < Nr(parent), mid |-> mid, stuck |-> FALSE,
     left  |-> IF ps > 0 THEN parent.ents[ps].child ELSE mid,
     right |-> IF ps + 1 < Nr(parent) THEN parent.ents[ps + 2].child ELSE mid]

\* first make room in the middle, then empty the right into it
FillLeft(b) ==
    IF b.hasL THEN MoveFront(b, "mid", "left", PushLeftCount(b.left, b.mid, TRUE)) ELSE b
EmptyRight(b) ==
    IF b.hasR THEN MoveFront(b, "right", "mid", PushLeftCount(b.mid, b.right, TRUE)) ELSE b

\* a node may not be left with one pointer
NotAlone(b) ==
    CASE Nr(b.mid) # 1 -> b
      [] Nr(b.mid) = 1 /\ ~b.hasL -> [b EXCEPT !.stuck = TRUE]
      [] Nr(b.mid) = 1 /\ b.hasL /\ PushRightCount(b.mid, b.left) > 0 ->
           MoveBack(b, "left", "mid", PushRightCount(b.mid, b.left))
      [] OTHER -> [MoveFront(b, "mid", "left", PushLeftCount(b.left, b.mid, TRUE))
                     EXCEPT !.stuck = PushLeftCount(b.left, b.mid, TRUE) = 0]

PutLeft(p, l, ps, b) == IF b.hasL THEN SetChild(p, l, ps - 1, b.left) ELSE p
PutRight(p, l, ps, b) ==
    IF ~b.hasR THEN p
    ELSE IF Nr(b.right) = 0 THEN btrfs_del_ptr(p, l, ps + 1)
    ELSE SetPtrKey(SetChild(p, l, ps + 1, b.right), l, ps + 1, b.right.ents[1].key)
PutMid(p, l, ps, b) ==
    IF Nr(b.mid) = 0 THEN btrfs_del_ptr(p, l, ps)
    ELSE SetPtrKey(p, l, ps, b.mid.ents[1].key)

\* slot counts from the start of what was the left sibling
FollowSlot(p, l, ps, b, slot) ==
    IF ~b.hasL THEN p
    ELSE IF Nr(b.left) > slot THEN SetSlot(SetSlot(p, l + 1, ps - 1), l, slot)
    ELSE SetSlot(p, l, slot - Nr(b.left))

SameChild(p, l, orig) ==
    Bug(p, Child(p, l, p.slots[l]) # orig \/ Nr(Node(p, l)) = 1)

WriteSiblings(p, l, ps, b, slot, orig) ==
    IF b.stuck THEN Fail(p, "BUG")
    ELSE SameChild(FollowSlot(
           PutMid(PutRight(SetChild(PutLeft(p, l + 1, ps, b), l + 1, ps, b.mid),
                           l + 1, ps, b), l + 1, ps, b),
           l, ps, b, slot), l, orig)

BalanceIn(p, l, ps, s) ==
    WriteSiblings(p, l, ps, NotAlone(EmptyRight(FillLeft(s))),
                  p.slots[l] + (IF s.hasL THEN Nr(s.left) ELSE 0),
                  s.mid.ents[p.slots[l] + 1].child)

balance_level(p, l) ==
    IF l = p.root.level
    THEN IF Nr(Node(p, l)) # 1 THEN p
         ELSE [p EXCEPT !.root = Child(p, l, 0), !.ret = "again"]
    ELSE IF Nr(Node(p, l)) > NodePtrs \div 4 THEN p
    ELSE BalanceIn(p, l, p.slots[l + 1],
                   Siblings(p, l, p.slots[l + 1], Node(p, l + 1), Node(p, l)))

(* Room for an insertion from the siblings; "no" when neither has any.      *)
PushedLeft(p, l, ps, b, nrLeft, c) ==
    LET q == SetPtrKey(SetChild(SetChild(p, l + 1, ps - 1, b.left), l + 1, ps, b.mid),
                       l + 1, ps, b.mid.ents[1].key)
    IN  IF p.slots[l] < c
        THEN SetSlot(SetSlot(q, l + 1, ps - 1), l, p.slots[l] + nrLeft)
        ELSE SetSlot(q, l, p.slots[l] - c)

PushedRight(p, l, ps, b) ==
    LET q == SetPtrKey(SetChild(SetChild(p, l + 1, ps, b.mid), l + 1, ps + 1, b.right),
                       l + 1, ps + 1, b.right.ents[1].key)
    IN  IF Nr(b.mid) <= p.slots[l]
        THEN SetSlot(SetSlot(q, l + 1, ps + 1), l, p.slots[l] - Nr(b.mid)) ELSE q

PushBy(p, l, ps, s, cl, cr) ==
    IF cl > 0 THEN PushedLeft(p, l, ps, MoveFront(s, "mid", "left", cl), Nr(s.left), cl)
    ELSE IF cr > 0 THEN PushedRight(p, l, ps, MoveBack(s, "mid", "right", cr))
    ELSE Fail(p, "no")

PushFrom(p, l, ps, s) ==
    PushBy(p, l, ps, s,
           IF s.hasL => Nr(s.left) >= NodePtrs - 1 THEN 0 ELSE PushLeftCount(s.left, s.mid, FALSE),
           IF s.hasR => Nr(s.right) >= NodePtrs - 1 THEN 0 ELSE PushRightCount(s.right, s.mid))

push_nodes_for_insert(p, l) ==
    PushFrom(p, l, p.slots[l + 1],
             Siblings(p, l, p.slots[l + 1], Node(p, l + 1), Node(p, l)))

insert_new_root(p, l) ==
    IF p.room = 0 THEN Fail(p, "ENOSPC")
    ELSE [p EXCEPT !.room = @ - 1, !.slots[l] = 0,
                   !.root = [level |-> l,
                             ents  |-> <<[key |-> @.ents[1].key, child |-> @]>>]]

insert_ptr(p, l, slot, key, child) ==
    LET n == Node(p, l)
    IN  Bug(Write(p, [n EXCEPT !.ents = InsertAt(@, slot + 1,
                                           [key |-> key, child |-> child])]),
            slot > Nr(n) \/ Nr(n) = NodePtrs)

SplitSlots(q, p, l, mid) ==
    IF p.slots[l] >= mid
    THEN SetSlot(SetSlot(q, l, p.slots[l] - mid), l + 1, p.slots[l + 1] + 1) ELSE q

SplitInto(p, l, c, mid) ==
    IF p.room = 0 THEN Fail(p, "ENOSPC")
    ELSE SplitSlots(insert_ptr(Write([p EXCEPT !.room = @ - 1], Take(c, mid)), l + 1,
                               p.slots[l + 1] + 1, c.ents[mid + 1].key, Drop(c, mid)),
                    p, l, mid)

SplitPushed(p, l, wasRoot) ==
    IF p.ret \notin {"ok", "no"} THEN p
    ELSE IF ~wasRoot /\ p.ret = "ok" /\ Nr(Node(p, l)) < NodePtrs - 3 THEN p
    ELSE SplitInto(Fail(p, "ok"), l, Node(p, l), (Nr(Node(p, l)) + 1) \div 2)

split_node(p, l) ==
    IF l = p.root.level THEN SplitPushed(insert_new_root(p, l + 1), l, TRUE)
    ELSE SplitPushed(push_nodes_for_insert(p, l), l, FALSE)

---------------------------------------------------------------------------
(* Leaves.                                                                 *)

leaf_space_used(n, start, nr) ==
    SpaceOf(n.ents, start + 1, Min({Nr(n), start + nr}))

btrfs_leaf_free_space(n) == LeafData - SpaceOf(n.ents, 1, Nr(n))

(* How many items, taken in the order of idx, fit in the free space of the *)
(* sibling; the item about to be inserted counts when the walk passes it.  *)
RECURSIVE FitCount(_, _, _, _, _)
FitCount(n, idx, slot, need, free) ==
    IF idx = <<>> THEN 0
    ELSE LET i     == idx[1]
             extra == IF slot = i THEN need + ItemHdr ELSE 0
             size  == n.ents[i + 1].size + ItemHdr
         IN  IF size + extra > free THEN 0
             ELSE 1 + FitCount(n, Tail(idx), slot, need, free - extra - size)

RightTaken(p, slot, left, right, cnt) ==
    SetPtrKey(SetChild(Write(p, Take(left, Nr(left) - cnt)), 1, slot + 1,
                       Prepend(right, Drop(left, Nr(left) - cnt).ents)),
              1, slot + 1, left.ents[Nr(left) - cnt + 1].key)

GiveRight(p, slot, left, right, cnt) ==
    IF cnt = 0 THEN Fail(p, "no")
    ELSE IF p.slots[0] >= Nr(left) - cnt
    THEN SetSlot(SetSlot(RightTaken(p, slot, left, right, cnt),
                         0, p.slots[0] - (Nr(left) - cnt)), 1, slot + 1)
    ELSE RightTaken(p, slot, left, right, cnt)

FitRight(p, left, right, need, empty) ==
    IF btrfs_leaf_free_space(right) < need \/ Nr(left) = 0 THEN 0
    ELSE FitCount(left, [j \in 1..(Nr(left) - (IF empty THEN 0 ELSE 1)) |-> Nr(left) - j],
                  p.slots[0], need, btrfs_leaf_free_space(right))

RightOf(p, slot, left, right, need, empty) ==
    GiveRight(p, slot, left, right, FitRight(p, left, right, need, empty))

push_leaf_right(p, need, empty) ==
    IF p.root.level = 0 THEN Fail(p, "no")
    ELSE IF p.slots[1] >= Nr(Node(p, 1)) - 1 THEN Fail(p, "no")
    ELSE RightOf(p, p.slots[1], Node(p, 0), Child(p, 1, p.slots[1] + 1), need, empty)

(* When the leaf is emptied, its stale first key is what is written above. *)
LeftTaken(p, slot, left, right, cnt) ==
    btrfs_fixup_low_keys(
        SetChild(Write(p, Drop(right, cnt)), 1, slot - 1, Append_(left, Take(right, cnt).ents)),
        IF cnt < Nr(right) THEN right.ents[cnt + 1].key ELSE right.ents[1].key, 1)

GiveLeft(p, slot, left, right, cnt) ==
    IF cnt = 0 THEN Fail(p, "no")
    ELSE IF p.slots[0] < cnt
    THEN SetSlot(SetSlot(LeftTaken(p, slot, left, right, cnt), 0, p.slots[0] + Nr(left)),
                 1, slot - 1)
    ELSE SetSlot(LeftTaken(p, slot, left, right, cnt), 0, p.slots[0] - cnt)

FitLeft(p, left, right, need, empty) ==
    IF Nr(right) = 0 \/ btrfs_leaf_free_space(left) < need THEN 0
    ELSE FitCount(right, [j \in 1..(IF empty THEN Nr(right) ELSE Nr(right) - 1) |-> j - 1],
                  p.slots[0], need, btrfs_leaf_free_space(left))

LeftOf(p, slot, left, right, need, empty) ==
    GiveLeft(p, slot, left, right, FitLeft(p, left, right, need, empty))

push_leaf_left(p, need, empty) ==
    IF p.root.level = 0 THEN Fail(p, "no")
    ELSE IF p.slots[1] = 0 THEN Fail(p, "no")
    ELSE LeftOf(p, p.slots[1], Child(p, 1, p.slots[1] - 1), Node(p, 0), need, empty)


CutLeaf(p, mid, n) ==
    insert_ptr(Write(p, Take(n, mid)), 1, p.slots[1] + 1, n.ents[mid + 1].key, Drop(n, mid))
NextLeafSlots(q, p, mid) == SetSlot(SetSlot(q, 0, p.slots[0] - mid), 1, p.slots[1] + 1)

\* a mutant: a new item at the boundary stays in the left leaf
SplitKeepsLeft(p, mid) ==
    IF mid < p.slots[0] THEN NextLeafSlots(CutLeaf(p, mid, Node(p, 0)), p, mid)
    ELSE CutLeaf(p, mid, Node(p, 0))

copy_for_split(p, mid) ==
    IF mid <= p.slots[0] THEN NextLeafSlots(CutLeaf(p, mid, Node(p, 0)), p, mid)
    ELSE CutLeaf(p, mid, Node(p, 0))

(* Where a leaf is cut: split 0 puts an empty leaf beside it, split 2 needs *)
(* a second cut because the new item fits with neither half.               *)
SplitPlan(n, slot, need, extend) ==
    LET half == (Nr(n) + 1) \div 2
        over(start, nr) == leaf_space_used(n, start, nr) + need > LeafData
        here == [split |-> IF slot # Nr(n) /\ over(slot, Nr(n) - slot) THEN 2 ELSE 1,
                 mid   |-> slot]
    IN  IF half <= slot
        THEN IF ~(Nr(n) = 1 \/ over(half, Nr(n) - half)) THEN [split |-> 1, mid |-> half]
             ELSE IF slot >= Nr(n) THEN [split |-> 0, mid |-> half] ELSE here
        ELSE IF ~over(0, half) THEN [split |-> 1, mid |-> half]
             ELSE IF slot = 0
             THEN IF ~extend /\ need > 0 THEN [split |-> 0, mid |-> half]
                  ELSE [split |-> 1, mid |-> 1]
             ELSE here

EmptyLeafAt(p, slot, key) ==
    SetSlot(insert_ptr(p, 1, slot, key, [level |-> 0, ents |-> <<>>]), 0, 0)

RECURSIVE SplitAgain(_, _, _, _, _)
SplitBy(p, plan, key, need, extend, doubles) ==
    IF plan.split = 0 /\ plan.mid <= p.slots[0]
    THEN SetSlot(EmptyLeafAt(p, p.slots[1] + 1, key), 1, p.slots[1] + 1)
    ELSE IF plan.split = 0
    THEN IF p.slots[1] = 0 THEN btrfs_fixup_low_keys(EmptyLeafAt(p, 0, key), key, 1)
         ELSE EmptyLeafAt(p, p.slots[1], key)
    ELSE IF plan.split = 1 THEN copy_for_split(p, plan.mid)
    ELSE SplitAgain(Bug(copy_for_split(p, plan.mid), doubles # 0),
                    key, need, extend, doubles + 1)

SplitAgain(p, key, need, extend, doubles) ==
    IF p.ret # "ok" THEN p
    ELSE SplitBy(p, SplitPlan(Node(p, 0), p.slots[0], need, extend), key, need, extend, doubles)

(* A block that cannot be allocated for the new leaf ends the program; the *)
(* failures that are returned are those of the nodes above it.             *)
PushLeafEither(p, r, need) ==
    IF r.ret = "ok" THEN r ELSE push_leaf_left(p, need, FALSE)

SplitUnlessRoom(p, key, need, extend, pushed) ==
    IF pushed /\ btrfs_leaf_free_space(Node(p, 0)) >= need THEN p
    ELSE SplitAgain(IF p.root.level = 0 THEN insert_new_root(p, 1) ELSE p, key, need, extend, 0)

split_leaf(p, key, need, extend) ==
    IF extend /\ need + Node(p, 0).ents[p.slots[0] + 1].size + ItemHdr > LeafData
    THEN Fail(p, "EOVERFLOW")
    ELSE IF need > 0 /\ key \notin DirKeys
    THEN SplitUnlessRoom([PushLeafEither(p, push_leaf_right(p, need, FALSE), need)
                            EXCEPT !.ret = "ok"], key, need, extend, TRUE)
    ELSE SplitUnlessRoom(p, key, need, extend, FALSE)

---------------------------------------------------------------------------
(* btrfs_search_slot: ins > 0 splits what may overflow, ins < 0 merges what *)
(* may run empty, forSplit is path->search_for_split.  ret is "ok" when *)
(* the key was found and "no" when not.                                    *)
RECURSIVE SearchFrom(_, _, _, _, _)
SearchDown(p, l, key, ins, forSplit) ==
    IF p.ret = "again"
    THEN SearchFrom(Call(p.root, p.room), p.root.level, key, ins, forSplit)
    ELSE IF p.ret # "ok" THEN p ELSE SearchFrom(p, l - 1, key, ins, forSplit)

SearchNode(p, l, key, ins, forSplit) ==
    IF (forSplit \/ ins > 0) /\ Nr(Node(p, l)) >= NodePtrs - 3 THEN split_node(p, l)
    ELSE IF ins < 0 THEN balance_level(p, l) ELSE p

SearchLeaf(p, key, ins, found) ==
    IF ins > 0 /\ ins > btrfs_leaf_free_space(Node(p, 0))
    THEN split_leaf(p, key, ins, found) ELSE p

SearchEnd(p, found) ==
    IF p.ret # "ok" THEN p ELSE Fail(p, IF found THEN "ok" ELSE "no")

SearchAt(p, l, b, key, ins, forSplit) ==
    IF l = 0
    THEN SearchEnd(SearchLeaf(SetSlot(p, 0, b.slot), key, ins, b.found), b.found)
    ELSE SearchDown(SearchNode(SetSlot(p, l, IF ~b.found /\ b.slot > 0 THEN b.slot - 1
                                             ELSE b.slot),
                               l, key, ins, forSplit),
                    l, key, ins, forSplit)

SearchFrom(p, l, key, ins, forSplit) ==
    IF ~check_block(p, l) THEN Fail(p, "EIO")
    ELSE SearchAt(p, l, bin_search(Node(p, l), key), key, ins, forSplit)

Search(t, room, key, ins, forSplit) ==
    SearchFrom(Call(t, room), t.level, key, ins, forSplit)

Lookup(t, key) == Search(t, 0, key, 0, FALSE)

---------------------------------------------------------------------------
(* Items.                                                                  *)

FullerLeaf(p, m) == Bug(Write([p EXCEPT !.ret = "ok"], m), btrfs_leaf_free_space(m) < 0)

InsertEntry(p, key, size) ==
    LET q == FullerLeaf(p, [Node(p, 0) EXCEPT !.ents =
                              InsertAt(@, p.slots[0] + 1, [key |-> key, size |-> size])])
    IN  IF p.slots[0] = 0 THEN btrfs_fixup_low_keys(q, key, 1) ELSE q

SetSize(p, size) == FullerLeaf(p, [Node(p, 0) EXCEPT !.ents[p.slots[0] + 1].size = size])

btrfs_extend_item(p, more) == SetSize(p, Node(p, 0).ents[p.slots[0] + 1].size + more)

btrfs_set_item_key(p, key) ==
    LET n    == Node(p, 0)
        slot == p.slots[0]
        q    == Write(p, [n EXCEPT !.ents[slot + 1].key = key])
    IN  IF \/ slot > 0 /\ n.ents[slot].key >= key
           \/ slot < Nr(n) - 1 /\ n.ents[slot + 2].key <= key
        THEN Fail(p, "EPERM")
        ELSE IF slot = 0 THEN btrfs_fixup_low_keys(q, key, 1) ELSE q

(* The second search may move the item to another leaf.                    *)
RoomForSplit(p, again, key) ==
    IF btrfs_leaf_free_space(Node(p, 0)) >= ItemHdr THEN p
    ELSE IF again.ret = "ok" THEN split_leaf(again, key, 0, FALSE) ELSE again

SplitItemAt(p, slot, newKey, at) ==
    IF p.ret # "ok" THEN p
    ELSE FullerLeaf(p, [Node(p, 0) EXCEPT !.ents =
           InsertAt([@ EXCEPT ![slot + 1].size = at], slot + 2,
                    [key |-> newKey, size |-> @[slot + 1].size - at])])

SplitItemOf(p, newKey, at) == SplitItemAt(p, p.slots[0], newKey, at)

btrfs_split_item(p, key, newKey, at) ==
    SplitItemOf(RoomForSplit(p, Search(p.root, p.room, key, 0, TRUE), key), newKey, at)

btrfs_del_leaf(p, slot) == btrfs_del_ptr(SetSlot(p, 1, slot), 1, slot)

(* A leaf that is mostly empty gives its items to its siblings.            *)
Merged(p, pos) ==
    IF p.slots[1] = pos /\ Nr(Node(p, 0)) > 0
    THEN [push_leaf_right(p, 1, TRUE) EXCEPT !.ret = "ok"] ELSE p
DropIfEmpty(p, pos) == IF Nr(Child(p, 1, pos)) = 0 THEN btrfs_del_leaf(p, pos) ELSE p

MergeLeaf(p, pos) ==
    DropIfEmpty(Merged([push_leaf_left(p, 1, TRUE) EXCEPT !.ret = "ok"], pos), pos)

ShrunkLeaf(p, m, slot) ==
    IF Nr(m) = 0
    THEN IF p.root.level = 0 THEN p ELSE btrfs_del_leaf(p, p.slots[1])
    ELSE LET q == IF slot = 0 THEN btrfs_fixup_low_keys(p, m.ents[1].key, 1) ELSE p
         IN  IF leaf_space_used(m, 0, Nr(m)) >= LeafData \div 4 \/ p.root.level = 0 THEN q
             ELSE MergeLeaf(q, p.slots[1])

WithoutItems(p, m, slot) == ShrunkLeaf(Write(p, m), m, slot)

btrfs_del_items(p, slot, nr) ==
    WithoutItems(p, [Node(p, 0) EXCEPT !.ents =
                       SubSeq(@, 1, slot) \o SubSeq(@, slot + nr + 1, Len(@))], slot)

---------------------------------------------------------------------------
(* Walks.  A walk returns the path it ends at, with ret "no" at an end.    *)

RECURSIVE FirstLevel(_, _, _)
FirstLevel(p, l, dir) ==   \* the lowest level above l where the walk can turn
    IF l > p.root.level THEN l
    ELSE IF p.slots[l] + dir \in 0..(Nr(Node(p, l)) - 1) THEN l
    ELSE FirstLevel(p, l + 1, dir)

RECURSIVE Descend(_, _, _)
Descend(p, l, dir) ==      \* to the near end of every block below level l
    IF l = 0 THEN p
    ELSE LET nr == Nr(Child(p, l, p.slots[l]))
         IN  Descend(SetSlot(p, l - 1, IF dir > 0 \/ nr = 0 THEN 0 ELSE nr - 1), l - 1, dir)

Turn(p, dir) ==
    LET l == FirstLevel(p, 1, dir)
    IN  IF l > p.root.level THEN Fail(p, "no")
        ELSE [Descend(SetSlot(p, l, p.slots[l] + dir), l, dir) EXCEPT !.ret = "ok"]

btrfs_next_leaf(p) == Turn(p, 1)

\* a mutant: the walk back starts at the first slot of the leaf before
PrevLeafFirstSlot(p) == SetSlot(Turn(p, -1), 0, 0)

btrfs_prev_leaf(p) == Turn(p, -1)

btrfs_next_item(p) ==
    IF p.slots[0] + 1 >= Nr(Node(p, 0))
    THEN btrfs_next_leaf(SetSlot(p, 0, p.slots[0] + 1))
    ELSE [SetSlot(p, 0, p.slots[0] + 1) EXCEPT !.ret = "ok"]

KeyAt(p) == Node(p, 0).ents[p.slots[0] + 1].key

(* btrfs_previous_item: the last item before the path that has the wanted   *)
(* type, not below min.  A key is wanted when it is in the set W.          *)
RECURSIVE btrfs_previous_item(_, _, _)
PreviousFrom(p, min, W) ==
    IF KeyAt(p) < min THEN Fail(p, "no")
    ELSE IF KeyAt(p) \in W THEN p
    ELSE btrfs_previous_item(p, min, W)

BackInLeaf(p, nr, min, W) ==
    IF p.ret # "ok" \/ nr = 0 THEN Fail(p, "no")
    ELSE PreviousFrom(IF p.slots[0] = nr THEN SetSlot(p, 0, nr - 1) ELSE p, min, W)

BackIn(p, min, W) == BackInLeaf(p, Nr(Node(p, 0)), min, W)

btrfs_previous_item(p, min, W) ==
    BackIn(IF p.slots[0] = 0 THEN btrfs_prev_leaf(p)
           ELSE [SetSlot(p, 0, p.slots[0] - 1) EXCEPT !.ret = "ok"], min, W)

(* btrfs_find_item and the searches like it: the key, or the next one.      *)
NextIfPast(p) ==
    IF p.ret = "ok" THEN p
    ELSE IF p.slots[0] >= Nr(Node(p, 0)) THEN btrfs_next_leaf(p)
    ELSE Fail(p, "ok")

FirstAtOrAfter(t, key) == NextIfPast(Lookup(t, key))

RECURSIVE ItemsFrom(_)
ItemsFrom(p) ==
    IF p.ret # "ok" THEN <<>>
    ELSE <<Node(p, 0).ents[p.slots[0] + 1]>> \o ItemsFrom(btrfs_next_item(p))

---------------------------------------------------------------------------
Init == /\ tree = [level |-> 0, ents |-> <<>>]
        /\ map = <<>>
        /\ aborted = FALSE

(* A call leaves the tree as far as it got; the callers' map changes only   *)
(* when it succeeded.                                                      *)
Done(p, newMap) ==
    /\ tree' = p.root
    /\ aborted' = (p.ret \in {"BUG", "EIO"})
    /\ map' = IF p.ret = "ok" THEN newMap ELSE map

With(k, size) == [x \in DOMAIN map \cup {k} |-> IF x = k THEN size ELSE map[x]]
Without(K) == [x \in DOMAIN map \ K |-> map[x]]

(* btrfs_insert_empty_items.  A key that is there is an error, but the leaf *)
(* has been split before the caller learns it.                             *)
Insert(k, size, room) ==
    \E p \in {Search(tree, room, k, size + ItemHdr, FALSE)} :
       Done(IF p.ret = "ok" THEN Fail(p, "EEXIST")
            ELSE IF p.ret = "no" THEN InsertEntry(p, k, size) ELSE p,
            With(k, size))

(* The callers that add to an item of the same key (insert_with_overflow,   *)
(* btrfs_insert_inode_ref) rely on that split for the room they need.      *)
InsertOrExtend(k, size, room) ==
    /\ k \in DOMAIN map
    /\ \E p \in {Search(tree, room, k, size + ItemHdr, FALSE)} :
          Done(IF p.ret = "ok" THEN btrfs_extend_item(p, size) ELSE p,
               With(k, map[k] + size))

Truncate(k, size) ==
    /\ k \in DOMAIN map /\ size \in 1..(map[k] - 1)
    /\ Done(SetSize(Lookup(tree, k), size), With(k, size))

(* btrfs_truncate_item from the front with the key that truncate_one_csum   *)
(* gives the rest.                                                         *)
TruncateFront(k, cut) ==
    /\ k \in DOMAIN map /\ cut \in 1..(map[k] - 1) /\ k + cut \in Keys
    /\ (k + 1)..(k + cut) \cap DOMAIN map = {}
    /\ Done(btrfs_set_item_key(SetSize(Lookup(tree, k), map[k] - cut), k + cut),
            [x \in (DOMAIN map \ {k}) \cup {k + cut} |->
                IF x = k + cut THEN map[k] - cut ELSE map[x]])

SplitItem(k, at, room) ==
    /\ k \in DOMAIN map /\ at \in 1..(map[k] - 1) /\ k + 1 \in Keys \ DOMAIN map
    /\ Done(btrfs_split_item([Lookup(tree, k) EXCEPT !.room = room], k, k + 1, at),
            [x \in DOMAIN map \cup {k + 1} |->
                IF x = k THEN at ELSE IF x = k + 1 THEN map[k] - at ELSE map[x]])

(* Deletion of nr items from k on, of one leaf, by a caller that searched   *)
(* with ins_len -1.                                                        *)
Delete(k, nr) ==
    /\ k \in DOMAIN map
    /\ \E p \in {Search(tree, MaxRoom, k, -1, FALSE)} :
          /\ p.slots[0] + nr <= Nr(Node(p, 0))
          /\ Done(IF p.ret = "ok" THEN btrfs_del_items(p, p.slots[0], nr) ELSE p,
                  Without({Node(p, 0).ents[p.slots[0] + i].key : i \in 1..nr}))

\* SizesOf bounds the sizes a step may ask for; an extension may also ask
\* for more than a leaf holds.
Next ==
    \E k \in Keys :
       \/ \E room \in 0..MaxRoom :
          \/ \E size \in SizesOf[k] : Insert(k, size, room)
          \/ \E more \in UNION {SizesOf[x] : x \in Keys} :
                /\ k \in DOMAIN map
                /\ map[k] + more \in SizesOf[k] \/ map[k] + more + 2 * ItemHdr > LeafData
                /\ InsertOrExtend(k, more, room)
          \/ \E at \in SizesOf[k] :
                /\ k \in DOMAIN map /\ k + 1 \in Keys
                /\ map[k] - at \in SizesOf[k + 1]
                /\ SplitItem(k, at, room)
       \/ \E size \in SizesOf[k] : Truncate(k, size)
       \/ \E cut \in 1..LeafData :
             /\ k \in DOMAIN map /\ k + cut \in Keys
             /\ map[k] - cut \in SizesOf[k + cut]
             /\ TruncateFront(k, cut)
       \/ \E nr \in 1..2 : Delete(k, nr)

Spec == Init /\ [][Next]_vars

---------------------------------------------------------------------------
(* A search backward over a set of wanted keys (btrfs_previous_item,         *)
(* btrfs_previous_extent_item) stops at the last wanted key before the      *)
(* start, and finds none only when there is none, although the start may   *)
(* lie past the end of a leaf or be the first slot of one.                 *)
PreviousIsNearest ==
    tree.ents # <<>> =>
      \A k \in Keys, W \in {DirKeys, Keys \ DirKeys} :
        \E p \in {btrfs_previous_item(Lookup(tree, k), Min(Keys), W)} :
          LET want == {x \in DOMAIN map \cap W : x < k}
          IN  IF want = {} THEN p.ret = "no" ELSE p.ret = "ok" /\ KeyAt(p) = Max(want)

(* Every key the callers stored is found by a search from the root and no   *)
(* other is, a walk by btrfs_next_item yields the items in key order with   *)
(* the sizes they were given, and no operation meets a BUG_ON, whichever    *)
(* splits, pushes, merges or failed allocations came before; searches      *)
(* backward stop where PreviousIsNearest says.                             *)
TreeIsMap ==
    /\ ~aborted
    /\ PreviousIsNearest
    /\ \A k \in Keys : \E p \in {Lookup(tree, k)} :
          /\ p.ret = (IF k \in DOMAIN map THEN "ok" ELSE "no")
          /\ p.ret = "ok" => Node(p, 0).ents[p.slots[0] + 1].size = map[k]
    /\ tree.ents # <<>> =>
          \E items \in {ItemsFrom(FirstAtOrAfter(tree, Min(Keys)))} :
              /\ \A i \in 1..(Len(items) - 1) : items[i].key < items[i + 1].key
              /\ {<<items[i].key, items[i].size>> : i \in 1..Len(items)}
                    = {<<k, map[k]>> : k \in DOMAIN map}
=============================================================================
