---------------------------- MODULE Transaction ----------------------------
(***************************************************************************)
(* The copy-on-write transaction of the userspace btrfs library            *)
(* (transaction.c, with the parts of ctree.c, extent-tree.c, disk-io.c and *)
(* volumes.c it drives): a program opens the filesystem, starts a          *)
(* transaction, changes trees by copying the blocks it touches, commits by *)
(* writing the dirty blocks and then the superblock copies of every        *)
(* device, and may be killed between any two writes.                       *)
(*                                                                         *)
(* A tree is its root node and the leaves below it: longer paths are       *)
(* copied by the same rules, and what the extent tree needs to record its  *)
(* own blocks is part of the step that causes it.                          *)
(* Trees whose contents the library does not interpret hold a value of     *)
(* Val; the root tree holds the root items, the extent tree the extent     *)
(* items and the block group item.                                         *)
(***************************************************************************)
EXTENDS Integers, FiniteSets

CONSTANTS
  SubVol,      \* roots with ref_cows: subvolume trees
  Tracked,     \* roots with track_dirty other than the extent root
  ROOT, CHUNK, EXT,   \* tree_root, chunk_root, extent_root
  Block,       \* addresses of tree blocks (bytenr)
  Dev,         \* devices
  MirrorMax,   \* superblock copies per device, BTRFS_SUPER_MIRROR_MAX
  Val, Val0,   \* contents of a tree, and what mkfs leaves in it
  InitNode,    \* where mkfs put the root node of each tree
  FirstFit,    \* TRUE: the allocator takes the lowest hole
  UserTree,    \* the trees programs change
  StartRoot,   \* the roots programs start transactions on
  MaxKids,     \* bound on the leaves of a tree
  MaxGen,      \* bound on the generation
  MaxCrash,    \* bound on the number of crashes
  None         \* a null pointer

CowOnly == Tracked \cup {EXT}
ItemTree == SubVol \cup CowOnly      \* trees that have a root item
Tree == ItemTree \cup {ROOT, CHUNK}
Mirror == 0 .. MirrorMax - 1

ASSUME TreeAssumption ==
  /\ ROOT \notin ItemTree /\ CHUNK \notin ItemTree /\ ROOT # CHUNK
  /\ EXT \notin SubVol /\ EXT \notin Tracked /\ SubVol \cap Tracked = {}
  /\ IsFiniteSet(Tree)
ASSUME BlockAssumption ==
  /\ Block \subseteq Nat /\ IsFiniteSet(Block) /\ None \notin Block
  /\ InitNode \in [Tree -> Block]
  /\ \A s, t \in Tree : InitNode[s] = InitNode[t] => s = t
ASSUME ParamAssumption ==
  /\ MirrorMax \in Nat \ {0} /\ MaxGen \in Nat /\ MaxCrash \in Nat /\ MaxKids \in Nat
  /\ FirstFit \in BOOLEAN /\ UserTree \subseteq Tree \ {ROOT, EXT}
  /\ StartRoot \subseteq Tree
  /\ Val0 \in Val /\ Dev # {} /\ None \notin Tree
  /\ None \notin [transid : Nat, root : Tree, commitRoot : Block]
  /\ None \notin [Tree \ {ROOT, EXT} -> Val]

VARIABLES
  disk,        \* what each tree block of the device holds
  sb,          \* the superblock copies of each device
  opened,      \* an fs_info exists
  generation,  \* fs_info->generation
  lastTrans,   \* fs_info->last_trans_committed
  trans,       \* fs_info->running_transaction
  aborted,     \* fs_info->transaction_aborted
  node,        \* root->node of each tree
  buf,         \* the extent buffer of each tree block
  rootItem,    \* the bytenr in root->root_item of each tree
  dirty,       \* blocks whose buffers are EXTENT_DIRTY
  dirtyRoots,  \* fs_info->dirty_cowonly_roots
  pinned,      \* fs_info->pinned_extents
  free,        \* fs_info->free_space_cache
  bgUsed,      \* used bytes of the block group and of super_copy, in blocks
  bgDirty,     \* BLOCK_GROUP_DIRTY
  pc,          \* where btrfs_commit_transaction stands
  cur,         \* the root update_cowonly_root works on
  sbTodo,      \* superblock copies still to be written
  crashes      \* crashes so far

fsVars == <<opened, generation, lastTrans, trans, aborted, crashes>>
memVars == <<node, buf, rootItem, dirty, dirtyRoots, pinned, free, bgUsed, bgDirty>>
diskVars == <<disk, sb>>
pcVars == <<pc, cur, sbTodo>>
vars == <<disk, sb, opened, generation, lastTrans, trans, aborted, node, buf,
          rootItem, dirty, dirtyRoots, pinned, free, bgUsed, bgDirty, pc, cur, sbTodo,
          crashes>>

----------------------------------------------------------------------------
(* Contents *)

RootItem == [bytenr : Block, gen : Nat]
RootItems == [ItemTree -> RootItem]
NoItems == [t \in ItemTree |-> [bytenr |-> InitNode[t], gen |-> 0]]

(* A tree block: its header (owner, generation, WRITTEN flag), the leaves  *)
(* below a root node, and what its tree keeps: a value, the root items of  *)
(* the root tree, the extent items and block group item of the extent tree.*)
Content ==
  [tree : Tree, gen : Nat, written : BOOLEAN, kids : SUBSET Block, val : Val,
   roots : RootItems, items : SUBSET Block, used : Int]

Super == [gen : Nat, root : Block, chunk : Block, used : Int]

Blank(t) ==
  [tree |-> t, gen |-> 0, written |-> TRUE, kids |-> {}, val |-> Val0,
   roots |-> NoItems, items |-> {}, used |-> 0]

MkfsContent(t) ==
  [Blank(t) EXCEPT
     !.gen = 1,
     !.roots = IF t = ROOT
               THEN [i \in ItemTree |-> [bytenr |-> InitNode[i], gen |-> 1]]
               ELSE NoItems,
     !.items = IF t = EXT THEN {InitNode[i] : i \in Tree} ELSE {},
     !.used = IF t = EXT THEN Cardinality(Tree) ELSE 0]

MkfsSuper ==
  [gen |-> 1, root |-> InitNode[ROOT], chunk |-> InitNode[CHUNK],
   used |-> Cardinality(Tree)]

(* Where the tree a super describes has its root nodes, reading blocks     *)
(* from d, and all the blocks it reaches.                                  *)
AddrOf(d, s, t) ==
  IF t = ROOT THEN s.root
  ELSE IF t = CHUNK THEN s.chunk ELSE d[s.root].roots[t].bytenr

Reach(d, s) ==
  UNION {{AddrOf(d, s, t)} \cup d[AddrOf(d, s, t)].kids : t \in Tree}

(* No fs_info: its fields hold nothing.                                    *)
Closed ==
  /\ opened = FALSE /\ generation = 0 /\ lastTrans = 0 /\ trans = None
  /\ aborted = FALSE /\ node = InitNode /\ buf = [b \in Block |-> Blank(CHUNK)]
  /\ rootItem = [t \in ItemTree |-> InitNode[t]] /\ dirty = {} /\ dirtyRoots = {}
  /\ pinned = {} /\ free = {} /\ bgUsed = 0 /\ bgDirty = FALSE
  /\ pc = "idle" /\ cur = None /\ sbTodo = {}

Init ==
  /\ disk = [b \in Block |->
               IF \E t \in Tree : InitNode[t] = b
               THEN MkfsContent(CHOOSE t \in Tree : InitNode[t] = b)
               ELSE Blank(CHUNK)]
  /\ sb = [d \in Dev |-> [m \in Mirror |-> MkfsSuper]]
  /\ crashes = 0
  /\ Closed

----------------------------------------------------------------------------
(* Opening and closing *)

(* __open_ctree_fd: the super is the first copy of the device the program  *)
(* was given, or with OPEN_CTREE_RECOVER_SUPER the newest copy of the      *)
(* device with the newest one.  A device left behind by a crash between    *)
(* two write_dev_supers is stale; programs are assumed to be given one     *)
(* that is not.                                                            *)
Newest(s) == \A d \in Dev, m \in Mirror : sb[d][m].gen <= s.gen

OpenSuper(d, s) ==
  /\ \/ s = sb[d][0]
     \/ /\ \E m \in Mirror : s = sb[d][m]
        /\ \A m \in Mirror : sb[d][m].gen <= s.gen
  /\ Newest(s)

(* read_tree_block's verify_parent_transid on every root node              *)
Readable(s) ==
  /\ disk[s.root].tree = ROOT /\ disk[s.root].gen = s.gen
  /\ disk[s.chunk].tree = CHUNK
  /\ \A t \in ItemTree :
       LET r == disk[s.root].roots[t]
       IN disk[r.bytenr].tree = t /\ disk[r.bytenr].gen = r.gen

Open(d, s) ==
  /\ ~opened
  /\ OpenSuper(d, s)
  /\ Readable(s)
  /\ LET at == [t \in Tree |-> AddrOf(disk, s, t)]
     IN /\ node' = at
        /\ rootItem' = [t \in ItemTree |-> at[t]]
        /\ free' = Block \ disk[at[EXT]].items
        /\ bgUsed' = disk[at[EXT]].used
  /\ opened' = TRUE /\ generation' = s.gen /\ lastTrans' = s.gen
  /\ buf' = disk
  /\ dirty' = {} /\ dirtyRoots' = {} /\ pinned' = {} /\ bgDirty' = FALSE
  /\ UNCHANGED <<disk, sb, trans, aborted, pc, cur, sbTodo, crashes>>

(* The end of the process, or btrfs_free_fs_info: memory is gone.          *)
Forget ==
  /\ opened' = FALSE /\ generation' = 0 /\ lastTrans' = 0 /\ trans' = None
  /\ aborted' = FALSE /\ node' = InitNode /\ buf' = [b \in Block |-> Blank(CHUNK)]
  /\ rootItem' = [t \in ItemTree |-> InitNode[t]] /\ dirty' = {} /\ dirtyRoots' = {}
  /\ pinned' = {} /\ free' = {} /\ bgUsed' = 0 /\ bgDirty' = FALSE
  /\ pc' = "idle" /\ cur' = None /\ sbTodo' = {}
  /\ UNCHANGED diskVars

(* close_ctree_fs_info: a running transaction makes the recommit's         *)
(* btrfs_start_transaction fail, so nothing more is written.               *)
Close ==
  /\ opened /\ pc = "idle"
  /\ Forget
  /\ UNCHANGED crashes

(* The process dies between two writes; the devices keep what was written. *)
Crash ==
  /\ opened /\ crashes < MaxCrash
  /\ Forget
  /\ crashes' = crashes + 1

----------------------------------------------------------------------------
(* Changing trees inside a transaction *)

StartNoCommitRoot(r) ==
  /\ opened /\ pc = "idle" /\ trans = None /\ ~aborted
  /\ generation < MaxGen
  /\ generation' = generation + 1
  /\ trans' = [transid |-> generation + 1, root |-> r, commitRoot |-> None]
  /\ UNCHANGED <<opened, lastTrans, aborted, crashes>>
  /\ UNCHANGED memVars /\ UNCHANGED diskVars /\ UNCHANGED pcVars

Start(r) ==
  /\ opened /\ pc = "idle" /\ trans = None /\ ~aborted
  /\ generation < MaxGen
  /\ generation' = generation + 1
  /\ trans' = [transid |-> generation + 1, root |-> r, commitRoot |-> node[r]]
  /\ UNCHANGED <<opened, lastTrans, aborted, crashes>>
  /\ UNCHANGED memVars /\ UNCHANGED diskVars /\ UNCHANGED pcVars

(* should_cow_block, and pin_down_bytes' test for a block it may reuse: a  *)
(* block of this transaction that was not written yet.                     *)
Fresh(b) == buf[b].gen = trans.transid /\ ~buf[b].written

(* find_free_extent: holes that are not pinned; the lowest ones when the   *)
(* search starts at the bottom.  keys names what the blocks are for.       *)
Allocs(keys) ==
  {f \in [keys -> free \ pinned] :
     /\ \A x, y \in keys : f[x] = f[y] => x = y
     /\ FirstFit => \A x \in keys, b \in (free \ pinned) \ {f[y] : y \in keys} : f[x] < b}

(* The trees whose root node is copied by a change to t: t itself, and the *)
(* extent tree, which records every allocation and every free.             *)
CowSet(t, moves) ==
  LET own == {x \in {t} : ~Fresh(node[x])}
  IN own \cup {x \in {EXT} : (own # {} \/ moves) /\ ~Fresh(node[x])}

(* pin_down_bytes: the freed blocks that stay pinned until the commit      *)
PinNothing(freed) == {}
PinDown(freed) == {b \in freed : ~Fresh(b)}

(* update_block_group marks the group whose count it changes               *)
NeverDirtied(dirtyBg, moved) == dirtyBg
Dirtied(dirtyBg, moved) == dirtyBg \/ moved # {}

CowCopy(c) == [c EXCEPT !.gen = trans.transid, !.written = FALSE]
NewLeaf(t) == CowCopy(Blank(t))
Relink(c, drop, grown) == [c EXCEPT !.kids = (@ \ drop) \cup grown]

(* __btrfs_cow_block for the root nodes of the trees in C, together with   *)
(* the leaf allocated below t (leaf is {None}) and the leaves freed (drop).*)
(* new is where the copies go; upd is what is then done to the copy of t's *)
(* root node.  Freed blocks are pinned until the commit unless this        *)
(* transaction made them; dirtyBg is what remains of BLOCK_GROUP_DIRTY     *)
(* besides the accounting of these blocks.                                 *)
CowTo(new, C, t, leaf, drop, upd, dirtyBg) ==
  LET freed == {node[x] : x \in C} \cup drop
      added == {new[x] : x \in C \cup leaf}
      grown == {new[x] : x \in leaf}
      at == [x \in Tree |-> IF x \in C THEN new[x] ELSE node[x]]
      copy == [x \in Tree |-> IF x \in C THEN CowCopy(buf[node[x]]) ELSE buf[node[x]]]
      account == [copy EXCEPT ![EXT].items = (@ \cup added) \ freed]
      final == [account EXCEPT ![t] = Relink(upd[@], drop, grown)]
  IN /\ node' = at
     /\ buf' = [b \in Block |->
                  IF b = at[t] THEN final[t]
                  ELSE IF b = at[EXT] THEN final[EXT]
                  ELSE IF b \in grown THEN NewLeaf(t) ELSE buf[b]]
     /\ dirty' = (dirty \ freed) \cup added \cup {at[t]}
     /\ dirtyRoots' = dirtyRoots \cup (C \cap CowOnly)
     /\ pinned' = pinned \cup PinDown(freed)
     /\ free' = (free \ added) \cup (freed \ PinDown(freed))
     /\ bgUsed' = bgUsed + Cardinality(added) - Cardinality(freed)
     /\ bgDirty' = Dirtied(dirtyBg, added \cup freed)

Change(t, grow, drop, upd, dirtyBg) ==
  LET C == CowSet(t, grow \/ drop # {})
      leaf == {x \in {None} : grow}
  IN \E new \in Allocs(C \cup leaf) : CowTo(new, C, t, leaf, drop, upd, dirtyBg)

(* What is done to a copied root node.                                     *)
Nothing == [c \in Content |-> c]
SetVal(v) == [c \in Content |-> [c EXCEPT !.val = v]]
SetUsed(n) == [c \in Content |-> [c EXCEPT !.used = n]]
SetItem(t) ==
  [c \in Content |-> [c EXCEPT !.roots[t] = [bytenr |-> node[t], gen |-> trans.transid]]]

InTrans == opened /\ trans # None /\ pc = "idle"

(* A subvolume tree may be changed only by the transaction started on it:  *)
(* __btrfs_cow_block warns unless root->last_trans is this transaction.  A *)
(* program that aborts its transaction gives up.                           *)
MayChangeAny(t) == InTrans /\ ~aborted
MayChange(t) == InTrans /\ ~aborted /\ (t \in SubVol => trans.root = t)

UserFrame ==
  /\ UNCHANGED rootItem
  /\ UNCHANGED fsVars /\ UNCHANGED diskVars /\ UNCHANGED pcVars

Modify(t, v) ==
  /\ MayChange(t)
  /\ Change(t, FALSE, {}, SetVal(v), bgDirty)
  /\ UserFrame

(* a split below the root node of t                                        *)
AddLeaf(t) ==
  /\ MayChange(t)
  /\ Cardinality(buf[node[t]].kids) < MaxKids
  /\ Change(t, TRUE, {}, Nothing, bgDirty)
  /\ UserFrame

(* btrfs_del_leaf                                                          *)
DelLeaf(t, b) ==
  /\ MayChange(t)
  /\ b \in buf[node[t]].kids
  /\ Change(t, FALSE, {b}, Nothing, bgDirty)
  /\ UserFrame

(* btrfs_cow_block on a leaf, its parent copied first                      *)
CowLeaf(t, b) ==
  /\ MayChange(t)
  /\ b \in buf[node[t]].kids /\ ~Fresh(b)
  /\ Change(t, TRUE, {b}, Nothing, bgDirty)
  /\ UserFrame

Abort ==
  /\ InTrans
  /\ aborted' = TRUE
  /\ UNCHANGED <<opened, generation, lastTrans, trans, crashes>>
  /\ UNCHANGED memVars /\ UNCHANGED diskVars /\ UNCHANGED pcVars

----------------------------------------------------------------------------
(* btrfs_commit_transaction *)

CommitFrame == UNCHANGED fsVars /\ UNCHANGED diskVars /\ UNCHANGED sbTodo

(* The root the transaction was started on gets its root item updated,     *)
(* unless it did not change or is one the super points to.                 *)
CommitRoot ==
  /\ InTrans /\ ~aborted
  /\ LET r == trans.root
     IN IF trans.commitRoot = node[r] \/ r \in {ROOT, CHUNK}
        THEN UNCHANGED memVars
        ELSE /\ Change(ROOT, FALSE, {}, SetItem(r), bgDirty)
             /\ rootItem' = [rootItem EXCEPT ![r] = node[r]]
  /\ pc' = "cowroot" /\ UNCHANGED cur
  /\ CommitFrame

(* commit_tree_roots: the root tree is always copied, then every root on   *)
(* dirty_cowonly_roots is updated.                                         *)
CommitCowRoot ==
  /\ pc = "cowroot"
  /\ Change(ROOT, FALSE, {}, Nothing, bgDirty)
  /\ pc' = "roots" /\ UNCHANGED <<cur, rootItem>>
  /\ CommitFrame

NextDirtyRoot(t) ==
  /\ pc = "roots" /\ t \in dirtyRoots
  /\ dirtyRoots' = dirtyRoots \ {t}
  /\ cur' = t /\ pc' = "groups"
  /\ UNCHANGED <<node, buf, rootItem, dirty, pinned, free, bgUsed, bgDirty>>
  /\ CommitFrame

(* One turn of btrfs_write_dirty_block_groups: write_one_cache_group       *)
(* stores the count as it is before the copies it causes are accounted,    *)
(* and those make the group dirty again.                                   *)
WriteOneCacheGroupKeepDirty ==
  /\ pc = "groups" /\ bgDirty
  /\ Change(EXT, FALSE, {}, SetUsed(bgUsed), TRUE)
  /\ UNCHANGED <<pc, cur, rootItem>>
  /\ CommitFrame

WriteOneCacheGroup ==
  /\ pc = "groups" /\ bgDirty
  /\ Change(EXT, FALSE, {}, SetUsed(bgUsed), FALSE)
  /\ UNCHANGED <<pc, cur, rootItem>>
  /\ CommitFrame

(* the loop of update_cowonly_root                                         *)
UpdateCowonlyRoot ==
  /\ pc = "groups" /\ ~bgDirty
  /\ IF rootItem[cur] = node[cur]
     THEN pc' = "roots" /\ cur' = None /\ UNCHANGED memVars
     ELSE /\ Change(ROOT, FALSE, {}, SetItem(cur), bgDirty)
          /\ rootItem' = [rootItem EXCEPT ![cur] = node[cur]]
          /\ UNCHANGED <<pc, cur>>
  /\ CommitFrame

RootsDone ==
  /\ pc = "roots" /\ dirtyRoots = {}
  /\ pc' = "write"
  /\ UNCHANGED memVars /\ UNCHANGED cur /\ CommitFrame

(* __commit_transaction: the dirty buffers go to the device by address.    *)
WriteTreeBlock(b) ==
  /\ pc = "write" /\ b \in dirty /\ \A x \in dirty : b <= x
  /\ buf' = [buf EXCEPT ![b].written = TRUE]
  /\ disk' = [disk EXCEPT ![b] = buf'[b]]
  /\ dirty' = dirty \ {b}
  /\ UNCHANGED <<sb, node, rootItem, dirtyRoots, pinned, free, bgUsed, bgDirty>>
  /\ UNCHANGED pcVars /\ UNCHANGED fsVars

BlocksDone ==
  /\ pc = "write" /\ dirty = {}
  /\ pc' = "super" /\ sbTodo' = Dev \X Mirror
  /\ UNCHANGED cur /\ UNCHANGED memVars /\ UNCHANGED diskVars /\ UNCHANGED fsVars

(* write_ctree_super and write_all_supers: the devices in the order of the *)
(* device list, which no one fixes, and the copies of a device in order.   *)
NewSuper ==
  [gen |-> trans.transid, root |-> node[ROOT], chunk |-> node[CHUNK], used |-> bgUsed]

Started(d) == \E m \in Mirror : <<d, m>> \notin sbTodo
Ended(d) == \A m \in Mirror : <<d, m>> \notin sbTodo

WriteSuper(d, m) ==
  /\ pc = "super" /\ <<d, m>> \in sbTodo
  /\ \A k \in Mirror : k < m => <<d, k>> \notin sbTodo
  /\ \A e \in Dev \ {d} : Started(e) => Ended(e)
  /\ sb' = [sb EXCEPT ![d][m] = NewSuper]
  /\ sbTodo' = sbTodo \ {<<d, m>>}
  /\ UNCHANGED disk /\ UNCHANGED <<pc, cur>> /\ UNCHANGED memVars /\ UNCHANGED fsVars

(* btrfs_finish_extent_commit                                              *)
UnpinForgetting == pinned' = {} /\ UNCHANGED free
Unpin == free' = free \cup pinned /\ pinned' = {}

(* the end of btrfs_commit_transaction                                     *)
EndTransactionSilently == trans' = None /\ UNCHANGED lastTrans
EndTransaction == trans' = None /\ lastTrans' = trans.transid

FinishCommit ==
  /\ pc = "super" /\ sbTodo = {}
  /\ Unpin
  /\ EndTransaction
  /\ pc' = "idle" /\ UNCHANGED <<cur, sbTodo>>
  /\ UNCHANGED <<opened, generation, aborted, crashes, node, buf, rootItem, dirty, dirtyRoots,
                 bgUsed, bgDirty>>
  /\ UNCHANGED diskVars

CommitStep ==
  \/ CommitCowRoot
  \/ \E t \in CowOnly : NextDirtyRoot(t)
  \/ WriteOneCacheGroup
  \/ UpdateCowonlyRoot
  \/ RootsDone
  \/ \E b \in Block : WriteTreeBlock(b)
  \/ BlocksDone
  \/ \E d \in Dev, m \in Mirror : WriteSuper(d, m)
  \/ FinishCommit

Next ==
  \/ \E d \in Dev : \E s \in {sb[d][m] : m \in Mirror} : Open(d, s)
  \/ \E r \in StartRoot : Start(r)
  \/ \E t \in UserTree, v \in Val : Modify(t, v)
  \/ \E t \in UserTree : AddLeaf(t)
  \/ \E t \in UserTree, b \in Block : DelLeaf(t, b)
  \/ \E t \in UserTree, b \in Block : CowLeaf(t, b)
  \/ Abort
  \/ CommitRoot
  \/ CommitStep
  \/ Close
  \/ Crash

Spec == Init /\ [][Next]_vars /\ WF_vars(CommitStep)

----------------------------------------------------------------------------
(* Properties *)

(* Types of the fields of fs_info, of the buffers and of what is on disk.  *)
TypeOK ==
  /\ disk \in [Block -> Content]
  /\ sb \in [Dev -> [Mirror -> Super]]
  /\ opened \in BOOLEAN /\ aborted \in BOOLEAN
  /\ generation \in Nat /\ lastTrans \in Nat /\ crashes \in Nat
  /\ trans \in {None} \cup [transid : Nat, root : Tree, commitRoot : Block]
  /\ node \in [Tree -> Block]
  /\ buf \in [Block -> Content]
  /\ rootItem \in [ItemTree -> Block]
  /\ dirty \subseteq Block /\ pinned \subseteq Block /\ free \subseteq Block
  /\ dirtyRoots \subseteq CowOnly
  /\ bgUsed \in Int /\ bgDirty \in BOOLEAN
  /\ pc \in {"idle", "cowroot", "roots", "groups", "write", "super"}
  /\ cur \in {None} \cup CowOnly
  /\ sbTodo \subseteq Dev \X Mirror

(* Every block a super reaches belongs to the tree that points to it and   *)
(* no block is in two places.                                              *)
Intact(s) ==
  /\ Readable(s)
  /\ \A t \in Tree :
       LET n == AddrOf(disk, s, t)
       IN /\ \A k \in {n} \cup disk[n].kids : disk[k].tree = t /\ disk[k].gen <= s.gen
          /\ \A u \in Tree \ {t} :
               LET o == AddrOf(disk, s, u)
               IN ({n} \cup disk[n].kids) \cap ({o} \cup disk[o].kids) = {}
          /\ n \notin disk[n].kids

(* What the device holds survives a crash at any point of any commit: the  *)
(* newest superblock copy always leads to complete trees of its own        *)
(* generation, never to blocks a later transaction has begun to reuse      *)
(* (pin_down_bytes and find_free_extent keep them apart).                  *)
CommittedIntact ==
  \A d \in Dev, m \in Mirror : Newest(sb[d][m]) => Intact(sb[d][m])

(* What the device holds also accounts for itself: the extent tree has an  *)
(* item for exactly the blocks in use, and the block group item and the    *)
(* superblock count them (finish_current_insert, del_pending_extents and   *)
(* the loop of update_cowonly_root around btrfs_write_dirty_block_groups). *)
CommittedAccounted ==
  \A d \in Dev, m \in Mirror :
    LET s == sb[d][m]
        e == disk[AddrOf(disk, s, EXT)]
    IN Newest(s) => /\ e.items = Reach(disk, s)
                    /\ e.used = Cardinality(e.items)
                    /\ s.used = e.used

(* Blocks of the trees as the program sees them.                           *)
Live == UNION {{node[t]} \cup buf[node[t]].kids : t \in Tree}

(* While a filesystem is open every block is in use, pinned or free, and   *)
(* only one of them: no allocation path leaks a block or gives one away    *)
(* twice.                                                                  *)
SpacePartition ==
  opened => /\ Live \cup pinned \cup free = Block
            /\ Live \cap pinned = {} /\ Live \cap free = {} /\ pinned \cap free = {}

(* close_ctree_fs_info commits on its own when last_trans_committed is     *)
(* behind generation; as long as no transaction is running it never is, so *)
(* that branch cannot write behind the caller's back.                      *)
CloseNeverRecommits == opened /\ trans = None => lastTrans = generation

(* A commit that was begun ends: the loops of btrfs_write_dirty_block_     *)
(* groups, update_cowonly_root and commit_tree_roots, each of which makes  *)
(* work for the others, come to rest.                                      *)
CommitEnds == (pc # "idle") ~> (pc = "idle")

(* The version on the device: through any of the newest supers             *)
NewestSuper == CHOOSE s \in {sb[d][m] : d \in Dev, m \in Mirror} : Newest(s)
ValTree == Tree \ {ROOT, EXT}

Abs ==
  INSTANCE AtomicCommit WITH
    Trees <- ValTree, Val <- Val, Val0 <- Val0, NotOpen <- None,
    stable <- [t \in ValTree |-> disk[AddrOf(disk, NewestSuper, t)].val],
    working <- IF opened THEN [t \in ValTree |-> buf[node[t]].val] ELSE None

(* The transaction layer implements atomic commit: the trees a program     *)
(* finds after any crash are the ones of the last commit, all of them or   *)
(* none.                                                                   *)
ImplementsAtomicCommit == Abs!Init /\ [][Abs!Next]_(Abs!vars)
----------------------------------------------------------------------------
(* The inductive invariant behind CommittedIntact, CommittedAccounted,     *)
(* SpacePartition, CloseNeverRecommits and ImplementsAtomicCommit.         *)

(* A commit runs inside a transaction of an open filesystem, and the loop  *)
(* of update_cowonly_root works on a root.                                 *)
CommitContext ==
  /\ opened \/ (pc = "idle" /\ trans = None)
  /\ pc # "idle" => trans # None
  /\ pc = "groups" => cur \in CowOnly

(* The blocks of a tree in memory.                                         *)
Own(x) == {node[x]} \cup buf[node[x]].kids

(* An open filesystem in memory: every block carries its tree's name, the  *)
(* extent tree has an item for exactly the blocks in use, which are        *)
(* neither free nor pinned, and a buffer that is not dirty is on the disk. *)
MemShape ==
  /\ \A x \in Tree : \A b \in Own(x) : buf[b].tree = x /\ buf[b].gen <= generation
  /\ \A x \in Tree : node[x] \notin buf[node[x]].kids
  /\ buf[node[EXT]].items = Live
  /\ Live \cup pinned \cup free = Block
  /\ Live \cap pinned = {} /\ Live \cap free = {} /\ pinned \cap free = {}
  /\ \A b \in Live : b \notin dirty => buf[b] = disk[b]

(* The root items in memory lag behind root->node only while someone is    *)
(* still going to update them.                                             *)
Lags(x) ==
  /\ rootItem[x] \in pinned
  /\ trans # None /\ buf[node[x]].gen = trans.transid
  /\ \/ x \in dirtyRoots
     \/ x \in SubVol /\ x = trans.root /\ pc = "idle"
     \/ pc = "groups" /\ cur = x

RootsShape ==
  \A x \in ItemTree :
    /\ buf[node[ROOT]].roots[x].bytenr = rootItem[x]
    /\ rootItem[x] = node[x] => buf[node[ROOT]].roots[x].gen = buf[node[x]].gen
    /\ rootItem[x] # node[x] => Lags(x)

(* Where the commit stands and what the superblock copies hold then.       *)
Phase ==
  /\ \A d \in Dev, m \in Mirror : sb[d][m].gen <= generation
  /\ trans # None => trans.transid = generation
  /\ trans # None /\ pc # "super" =>
       \A d \in Dev, m \in Mirror : sb[d][m].gen < trans.transid
  /\ pc = "super" =>
       \A d \in Dev, m \in Mirror :
         IF <<d, m>> \in sbTodo THEN sb[d][m].gen < trans.transid ELSE sb[d][m] = NewSuper
  /\ pc = "super" => dirty = {}
  /\ trans = None \/ pc \in {"write", "super"} => dirtyRoots = {}
  /\ trans = None => lastTrans = generation
  /\ pc \in {"roots", "groups", "write", "super"} => buf[node[ROOT]].gen = trans.transid
  /\ trans # None /\ pc = "idle" /\ trans.root \in ItemTree =>
       trans.commitRoot = rootItem[trans.root]

(* The newest version on the disk: complete, accounted for, and out of     *)
(* reach of whatever the running transaction still writes.                 *)
OutOfReach(s) ==
  \A b \in Reach(disk, s) : b \notin dirty /\ b \notin free /\ buf[b] = disk[b]

VersionSafe ==
  \A d \in Dev, m \in Mirror :
    Newest(sb[d][m]) =>
      /\ Intact(sb[d][m])
      /\ disk[AddrOf(disk, sb[d][m], EXT)].items = Reach(disk, sb[d][m])
      /\ opened => OutOfReach(sb[d][m])

SupersAgree ==
  \A d, e \in Dev, m, k \in Mirror :
    Newest(sb[d][m]) /\ Newest(sb[e][k]) => sb[d][m] = sb[e][k]

(* The committed version and the one in memory are complete at every step  *)
(* and the first is never written to before the second replaces it.        *)
VersionInv ==
  /\ TypeOK /\ CommitContext /\ VersionSafe /\ SupersAgree
  /\ \A b \in Block : disk[b].written
  /\ opened => MemShape /\ RootsShape /\ Phase

(* What the counts in memory are worth: the block group counts the extent  *)
(* items, its item in the extent tree lags behind only while the group is  *)
(* marked dirty, and a dirty group makes the extent root be updated, whose *)
(* loop writes the item again.                                             *)
Accounting ==
  /\ bgUsed = Cardinality(buf[node[EXT]].items)
  /\ ~bgDirty => buf[node[EXT]].used = bgUsed
  /\ bgDirty /\ pc # "groups" => EXT \in dirtyRoots
  /\ trans # None /\ pc \in {"idle", "cowroot"} /\ Fresh(node[EXT]) => EXT \in dirtyRoots

(* The version on the disk is accounted for because memory was when it was *)
(* written; and there is one.                                              *)
IInv ==
  /\ VersionInv /\ CommittedAccounted /\ (opened => Accounting)
  /\ \E d \in Dev, m \in Mirror : Newest(sb[d][m])
=============================================================================
