------------------------------ MODULE Backrefs ------------------------------
(***************************************************************************)
(* From an extent back to the trees that use it (backref.c), on the states *)
(* of SharedBlocks, and the one decision that rests on it: which tree of   *)
(* several that share a block checks it in the low memory mode of check    *)
(* (need_check in check/mode-lowmem.c).                                    *)
(*                                                                         *)
(* A search for parents collects the references of an extent as            *)
(* preliminary references in three lists: pending, those whose key is      *)
(* still missing, and the indirect ones.  Slot s of a leaf is the s-th     *)
(* byte of the file and, if it points to an extent, the s-th byte of the   *)
(* extent.                                                                 *)
(***************************************************************************)
EXTENDS SharedBlocks

NoKey == <<>>

init_pref_state == [pending |-> <<>>, missing |-> <<>>, indirect |-> <<>>]

__add_prelim_ref(st, root_id, key, level, parent, count) ==
    LET ref == [root |-> root_id, key |-> key, level |-> level, parent |-> parent,
                count |-> count, inodes |-> <<>>]
    IN  IF key # NoKey \/ parent # None THEN [st EXCEPT !.pending = Append(@, ref)]
        ELSE [st EXCEPT !.missing = Append(@, ref)]

\* what the switches of __add_inline_refs and __add_keyed_refs add for one reference
AddRef(st, r, count, level) ==
    CASE r.type = SHARED_BLOCK_REF -> __add_prelim_ref(st, 0, NoKey, level + 1, r.who[1], 1)
      [] r.type = SHARED_DATA_REF -> __add_prelim_ref(st, 0, NoKey, 0, r.who[1], count)
      [] r.type = TREE_BLOCK_REF -> __add_prelim_ref(st, r.who[1], NoKey, level + 1, None, 1)
      [] OTHER -> __add_prelim_ref(st, r.who[1], <<r.who[2]>>, 0, None, count)

LevelOf(fs, e) == IF e \in DOMAIN fs.blk THEN fs.blk[e].level ELSE 0

__add_inline_refs(st, fs, e) ==
    FoldLeft(LAMBDA s, i : AddRef(s, i.ref, i.count, LevelOf(fs, e)), st, fs.ext[e].inline)

KeyBefore(k, l) == k.ref.type < l.ref.type \/ (k.ref.type = l.ref.type /\ k.off < l.off)

InKeyOrder(K) ==
    [i \in 1..Cardinality(K) |->
       CHOOSE k \in K : Cardinality({l \in K : KeyBefore(l, k)}) = i - 1]

\* a mutant: only the references in the item itself
InlineOnly(st, fs, e) == st

__add_keyed_refs(st, fs, e) ==
    FoldLeft(LAMBDA s, k : AddRef(s, k.ref, k.count, LevelOf(fs, e)), st,
             InKeyOrder(fs.ext[e].keyed))

\* the first key of a tree block, by the inode in it
FirstKey(fs, b) == IF fs.blk[b].level = 0 THEN <<fs.blk[b].ino>> ELSE <<Min(Inodes)>>

\* list_move puts each of them at the head of pending
__add_missing_keys(st, fs, e) ==
    [st EXCEPT !.missing = <<>>,
       !.pending = Reverse([i \in DOMAIN st.missing |->
                              [st.missing[i] EXCEPT !.key = FirstKey(fs, e)]]) \o @]

ref_for_same_block(r, x) ==
    r.level = x.level /\ r.root = x.root /\ r.key = x.key /\ r.parent = x.parent

Merges(r, x, mode) == IF mode = 1 THEN ref_for_same_block(r, x) ELSE r.parent = x.parent

__merge_refs(pending, mode) ==
    FoldLeft(LAMBDA kept, x :
               LET same == {i \in DOMAIN kept : Merges(kept[i], x, mode)}
               IN  IF same = {} THEN Append(kept, x)
                   ELSE [kept EXCEPT ![Min(same)].count = @ + x.count,
                                     ![Min(same)].inodes = @ \o x.inodes],
             <<>>, pending)

---------------------------------------------------------------------------
(* Indirect references name a tree and a key; searching the tree for the   *)
(* key gives the parent.  Nothing is ever put on the list of them          *)
(* (pending_indirect_refs), so the resolution below has nothing to do.     *)

\* the byte of the extent that slot s maps, if it is the wanted one
check_extent_in_eb(ino, s, pos) ==
    IF pos = s - 1 THEN <<[ino |-> ino, off |-> s - 1]>> ELSE <<>>

SlotsOf(fs, leaf, e) == {s \in DOMAIN fs.blk[leaf].ptr : fs.blk[leaf].ptr[s] = e}

\* a later slot goes to the front of the list
find_extent_in_eb(fs, leaf, e, pos) ==
    FoldLeft(LAMBDA l, s : IF s \in SlotsOf(fs, leaf, e)
                           THEN check_extent_in_eb(fs.blk[leaf].ino, s, pos) \o l ELSE l,
             <<>>, [s \in 1..Cardinality(Slots) |-> s])

\* the node of tree t on the way to inode ino
NodeAt(fs, t, ino, level) ==
    IF level = 2 THEN fs.root[t].node
    ELSE IF level = 1 THEN fs.blk[fs.root[t].node].ptr[1] ELSE LeafOf(fs, t, ino)

add_all_parents(fs, e, ref, node) ==
    IF ref.level # 0 \/ SlotsOf(fs, node, e) # {} THEN <<node>> ELSE <<>>

__resolve_indirect_ref(fs, e, ref) ==
    IF fs.blk[fs.root[ref.root].node].level + 1 = ref.level THEN <<>>
    ELSE add_all_parents(fs, e, ref, NodeAt(fs, ref.root, ref.key[1], ref.level))

\* a tree that is gone leaves its reference without a parent
ResolveOne(st, fs, e, ref) ==
    LET parents == IF ref.root \in DOMAIN fs.root THEN __resolve_indirect_ref(fs, e, ref)
                   ELSE <<>>
    IN  [st EXCEPT !.pending =
           <<[ref EXCEPT !.parent = IF parents = <<>> THEN None ELSE parents[1]]>> \o @]

__resolve_indirect_refs(st, fs, e) ==
    FoldLeft(LAMBDA s, ref : ResolveOne(s, fs, e, ref), [st EXCEPT !.indirect = <<>>], st.indirect)

---------------------------------------------------------------------------
AddNew(list, x) == IF x \in Range(list) THEN list ELSE Append(list, x)

NoPos == -1

\* the last loop: a reference without a parent is taken for the root of its tree
Report(found, fs, e, pos, ref) ==
    [found EXCEPT
       !.roots = IF ref.root # 0 /\ ref.parent = None THEN AddNew(@, ref.root) ELSE @,
       !.refs = IF ref.parent # None THEN AddNew(@, ref.parent) ELSE @,
       !.inodes = IF ref.parent # None /\ ref.level = 0 /\ pos # NoPos
                  THEN [l \in DOMAIN @ \cup {ref.parent} |->
                          IF l = ref.parent THEN find_extent_in_eb(fs, l, e, pos) ELSE @[l]]
                  ELSE @]

AllRefs(fs, e) == __add_keyed_refs(__add_inline_refs(init_pref_state, fs, e), fs, e)

Merged(st, mode) == [st EXCEPT !.pending = __merge_refs(@, mode)]

Resolved(fs, e) ==
    Merged(__resolve_indirect_refs(Merged(__add_missing_keys(AllRefs(fs, e), fs, e), 1), fs, e), 2)

find_parent_nodes(found, fs, e, pos) ==
    FoldLeft(LAMBDA f, ref : Report(f, fs, e, pos, ref), found, Resolved(fs, e).pending)

NothingFound == [roots |-> <<>>, refs |-> <<>>, inodes |-> <<>>]

btrfs_find_all_leafs(fs, e, pos) == find_parent_nodes(NothingFound, fs, e, pos)

\* the list of parents grows while it is walked; i is the next of them
RECURSIVE WalkUp(_, _, _)
WalkUp(found, fs, i) ==
    IF i > Len(found.refs) THEN found.roots
    ELSE WalkUp(find_parent_nodes(found, fs, found.refs[i], NoPos), fs, i + 1)

btrfs_find_all_roots(fs, e) ==
    WalkUp(find_parent_nodes(NothingFound, fs, e, NoPos), fs, 1)

\* what iterate() is called with
iterate_leaf_refs(list, t) == {<<t, list[i].ino, list[i].off>> : i \in DOMAIN list}

iterate_extent_inodes(fs, e, pos) ==
    UNION {UNION {iterate_leaf_refs(found.inodes[l], t) : t \in Range(btrfs_find_all_roots(fs, l))} :
             <<found, l>> \in UNION {{<<f, l>> : l \in Range(f.refs)} :
                                       f \in {btrfs_find_all_leafs(fs, e, pos)}}}

---------------------------------------------------------------------------
(* check --mode=lowmem walks every tree, and a shared block only in one.   *)

need_check(t, roots) == Len(roots) <= 1 \/ t = Min(Range(roots))

\* roots: what btrfs_find_all_roots returns for each block;
\* upper: whether the block above needs the check
update_nodes_refs(fs, roots, t, b, check_all, upper) ==
    IF fs.ext[b].refs > 1 THEN need_check(t, roots[b]) ELSE ~check_all \/ upper

\* the blocks tree t checks at and below b, which it has come to
RECURSIVE walk_down_tree(_, _, _, _, _, _)
walk_down_tree(fs, roots, t, b, check_all, need) ==
    (IF check_all /\ ~need THEN {} ELSE {b}) \cup
    (IF fs.blk[b].level = 0 THEN {}
     ELSE UNION {LET more == update_nodes_refs(fs, roots, t, c, check_all, need)
                 IN  IF check_all \/ more THEN walk_down_tree(fs, roots, t, c, check_all, more)
                     ELSE {} :
                   c \in {fs.blk[b].ptr[i] : i \in DOMAIN fs.blk[b].ptr}})

Checked(fs, roots, t, check_all) ==
    walk_down_tree(fs, roots, t, fs.root[t].node, check_all,
                   update_nodes_refs(fs, roots, t, fs.root[t].node, check_all, TRUE))

---------------------------------------------------------------------------
\* the trees with a path to a block or an extent
TreesOf(e) ==
    {t \in DOMAIN root :
       \E b \in Reach({root[t].node}, 2) : b = e \/ e \in {blk[b].ptr[i] : i \in DOMAIN blk[b].ptr}}

(* Whoever shares what: the trees that the walk to the roots finds for a   *)
(* block do reach it, and there is one at least, so that                   *)
(* try_to_fix_bad_block copies no block of another tree; and although the  *)
(* walk does not find all of them (see AllRootsFound), no block is left to *)
(* a tree that leaves it to another one: every block of every tree is      *)
(* checked, and counted, by some tree.                                     *)
SharedChecked ==
    \E roots \in {[e \in DOMAIN ext |-> btrfs_find_all_roots(FS, e)]} :
      /\ \A e \in DOMAIN ext : roots[e] # <<>> /\ Range(roots[e]) \subseteq TreesOf(e)
      /\ \A all \in BOOLEAN :
           Reachable \cap DOMAIN blk \subseteq UNION {Checked(FS, roots, t, all) : t \in DOMAIN root}

(* "walk all backrefs for a given extent to find all roots that reference  *)
(* this extent" (backref.c).                                               *)
AllRootsFound == \A e \in DOMAIN ext : Range(btrfs_find_all_roots(FS, e)) = TreesOf(e)

(* "if it's shared, indeed we don't need to iterate it in every fs or file *)
(* tree check ... only check it in the fs or file tree which has the       *)
(* smallest root id" (need_check).                                         *)
CheckedOnce ==
    \E roots \in {[e \in DOMAIN ext |-> btrfs_find_all_roots(FS, e)]} :
      \A t, u \in DOMAIN root :
        t # u => Checked(FS, roots, t, FALSE) \cap Checked(FS, roots, u, FALSE) = {}

(* "calls iterate() for every inode that references the extent"            *)
(* (iterate_extent_inodes).                                                *)
AllInodesFound ==
    \A d \in Data \cap DOMAIN ext, s \in Slots :
       iterate_extent_inodes(FS, d, s - 1) =
         {<<t, ino, s - 1>> : <<t, ino>> \in
            {x \in (DOMAIN root) \X Inodes : blk[LeafOf(FS, x[1], x[2])].ptr[s] = d}}
=============================================================================
