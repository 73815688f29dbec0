------------------------------ MODULE Qgroups -------------------------------
(***************************************************************************)
(* The quota groups check recomputes (qgroup-verify.c), on the states of   *)
(* SharedBlocks.  Every reference of the extent tree becomes a ref: a full *)
(* one names a tree, a shared one the block above.  Since the extent tree  *)
(* only has references for what a tree points to directly, each inner     *)
(* block adds implied ones for everything below it; the trees of an extent *)
(* are then what its refs lead to, and its bytes are counted for the group *)
(* of each tree and for all groups above.                                  *)
(***************************************************************************)
EXTENDS SharedBlocks

CONSTANTS QuotaTree    \* its leaves, each a sequence of keys <<objectid, type, offset>>

QGROUP_STATUS == 240
QGROUP_INFO == 242
QGROUP_RELATION == 246

\* bytes of a block and of a data extent
Bytes(e) == IF e \in Data THEN 3 ELSE 2

---------------------------------------------------------------------------
(* The groups.                                                             *)

Keys == UNION {Range(QuotaTree[i]) : i \in DOMAIN QuotaTree}

KeyLess(k, l) ==
    \/ k[1] < l[1]
    \/ k[1] = l[1] /\ (k[2] < l[2] \/ (k[2] = l[2] /\ k[3] < l[3]))

\* btrfs_search_slot: the last leaf that does not begin behind the key
LeafOfKey(k) == Max({1} \cup {i \in DOMAIN QuotaTree : ~KeyLess(k, QuotaTree[i][1])})

ItemsFromKey(k) == UNION {Range(QuotaTree[i]) : i \in LeafOfKey(k)..Len(QuotaTree)}

\* the first pass looks from where the relations would be in the order of types
Groups == {k[3] : k \in {x \in ItemsFromKey(<<QGROUP_RELATION, 0, 0>>) : x[2] = QGROUP_INFO}}

Relations == {<<k[1], k[3]>> : k \in {x \in ItemsFromKey(<<0, 0, 0>>) : x[2] = QGROUP_RELATION}}

\* both directions are stored, the one from member to group counts
add_qgroup_relation == {r \in Relations : r[1] <= r[2]}

\* a relation of a group that has no count ends the check
load_quota_info == \A r \in add_qgroup_relation : {r[1], r[2]} \subseteq Groups

---------------------------------------------------------------------------
(* The refs: [e, parent, root], ordered by extent, parent and root.        *)

alloc_ref(e, tree, parent) == [e |-> e, parent |-> parent, root |-> tree]

RefFor(e, r) ==
    IF r.type \in {TREE_BLOCK_REF, EXTENT_DATA_REF} THEN alloc_ref(e, r.who[1], None)
    ELSE alloc_ref(e, None, r.who[1])

add_inline_refs(e) == {RefFor(e, ext[e].inline[i].ref) : i \in DOMAIN ext[e].inline}

add_keyed_ref(e) == {RefFor(e, k.ref) : k \in ext[e].keyed}

scan_extents == UNION {add_inline_refs(e) \cup add_keyed_ref(e) : e \in DOMAIN ext}

tree_blocks == {b \in DOMAIN ext \cap DOMAIN blk : blk[b].level > 0}

find_ref_bytenr(refs, e) ==
    CHOOSE r \in refs : r.e = e /\ \A x \in refs :
      x.e = e => r.parent < x.parent \/ (r.parent = x.parent /\ r.root <= x.root)

RECURSIVE resolve_one_root(_, _)
resolve_one_root(refs, e) ==
    LET r == find_ref_bytenr(refs, e)
    IN  IF r.root # None THEN r.root ELSE resolve_one_root(refs, r.parent)

add_refs_for_leaf_items(b, parent) ==
    {alloc_ref(blk[b].ptr[s], None, parent) : s \in {x \in DOMAIN blk[b].ptr : blk[b].ptr[x] # None}}

RECURSIVE travel_tree(_, _)
travel_tree(b, parent) ==
    (IF b # parent THEN {alloc_ref(b, None, parent)} ELSE {}) \cup
    (IF blk[b].level = 0 THEN add_refs_for_leaf_items(b, parent)
     ELSE UNION {travel_tree(c, parent) : c \in {blk[b].ptr[i] : i \in DOMAIN blk[b].ptr}})

\* a tree that cannot be read ends the check
add_refs_for_implied(st, b) ==
    IF st.err \/ resolve_one_root(st.refs, b) \notin DOMAIN root THEN [st EXCEPT !.err = TRUE]
    ELSE [st EXCEPT !.refs = @ \cup travel_tree(b, b)]

RECURSIVE MapFrom(_, _)
MapFrom(st, todo) ==
    IF todo = {} THEN st ELSE MapFrom(add_refs_for_implied(st, Min(todo)), todo \ {Min(todo)})

map_implied_refs(st) == MapFrom(st, tree_blocks)

---------------------------------------------------------------------------
(* Counting.  A group's count of roots is cur - seq; raising seq resets    *)
(* all of them.                                                            *)

RECURSIVE find_parent_roots(_, _)
find_parent_roots(refs, parent) ==
    UNION {IF r.root # None THEN {r.root}
           ELSE IF r.parent = r.e THEN {} ELSE find_parent_roots(refs, r.parent) :
             r \in {x \in refs : x.e = parent}}

RECURSIVE GroupsAbove(_)
GroupsAbove(S) ==
    LET up == S \cup {r[2] : r \in {x \in add_qgroup_relation : x[1] \in S}}
    IN  IF up = S THEN S ELSE GroupsAbove(up)

\* the trees that are counted for each group
Members == [g \in Groups |-> {t \in Trees \cap Groups : g \in GroupsAbove({t})}]

update_cur_refcnt(cur, seq, n) ==
    IF n = 0 THEN cur ELSE (IF cur < seq THEN seq ELSE cur) + n

group_get_cur_refcnt(cur, seq) == IF cur < seq THEN 0 ELSE cur - seq

\* a mutant: the counts of the extent before are not reset
SeqKept(seq, root_count) == seq

inc_qgroup_seq(seq, root_count) == seq + root_count + 1

AddBytes(info, nr_refs, nr_roots, bytes) ==
    [rfer |-> info.rfer + (IF nr_refs > 0 THEN bytes ELSE 0),
     excl |-> info.excl + (IF nr_refs > 0 /\ nr_refs = nr_roots THEN bytes ELSE 0)]

\* c: [info, cur, seq]; member is Members
CountRoots(c, member, roots) ==
    [c EXCEPT !.cur = [g \in DOMAIN member |->
                         update_cur_refcnt(@[g], c.seq, Cardinality(roots \cap member[g]))]]

AddToGroups(c, member, roots, bytes) ==
    [c EXCEPT
       !.info = [g \in DOMAIN member |->
                   IF roots \cap member[g] = {} THEN @[g]
                   ELSE AddBytes(@[g], group_get_cur_refcnt(c.cur[g], c.seq),
                                 Cardinality(roots), bytes)],
       !.seq = inc_qgroup_seq(@, Cardinality(roots))]

account_one_extent(c, member, roots, bytes) ==
    AddToGroups(CountRoots(c, member, roots), member, roots, bytes)

RootsOf(refs, e) ==
    UNION {IF r.root # None THEN {r.root} ELSE find_parent_roots(refs, r.parent) :
             r \in {x \in refs : x.e = e}}

RECURSIVE AccountFrom(_, _, _, _)
AccountFrom(c, member, refs, todo) ==
    IF todo = {} THEN c
    ELSE LET e == Min(todo)
             n == CHOOSE x \in {account_one_extent(c, member, RootsOf(refs, e), Bytes(e))} : TRUE
         IN  AccountFrom(n, member, refs, todo \ {e})

NoCounts(groups) == [info |-> [g \in groups |-> [rfer |-> 0, excl |-> 0]],
                     cur |-> [g \in groups |-> 0], seq |-> 1]

account_all_refs(member, refs) ==
    AccountFrom(NoCounts(DOMAIN member), member, refs, {r.e : r \in refs})

\* the counts, or nothing if the check gave up
qgroup_verify_all(member) ==
    IF ~load_quota_info THEN {}
    ELSE UNION {IF st.err THEN {} ELSE {account_all_refs(member, st.refs).info} :
                  st \in {map_implied_refs([refs |-> scan_extents, err |-> FALSE])}}

---------------------------------------------------------------------------
(* --repair: one transaction for each group that differs from the disk,    *)
(* and a last one for the status.                                          *)

report_qgroups(disk, info) == {g \in DOMAIN info : disk[g] # info[g]}

repair_qgroup_info(fs, info, g) == [fs EXCEPT !.disk[g] = info[g]]

repair_qgroup_status(fs) == [fs EXCEPT !.flags = {}]

RECURSIVE RepairFrom(_, _, _)
RepairFrom(fs, info, bad) ==
    IF bad = {} THEN <<fs>>
    ELSE <<fs>> \o RepairFrom(repair_qgroup_info(fs, info, Min(bad)), info, bad \ {Min(bad)})

\* the filesystem after each commit
repair_qgroups(fs, info) ==
    LET bad == report_qgroups(fs.disk, info)
        all == RepairFrom(fs, info, bad)
    IN  IF bad # {} \/ fs.flags # {} THEN Append(all, repair_qgroup_status(Last(all))) ELSE all

---------------------------------------------------------------------------
UsedBy(t) ==
    LET blocks == Reach({root[t].node}, 2)
    IN  blocks \cup (UNION {Range(blk[b].ptr) : b \in blocks} \ {None})

SumBytes(S) == MapThenSumSet(Bytes, S)

\* what quota means: bytes some member uses, and bytes nobody else uses
ByDefinition(members) ==
    LET mine == UNION {UsedBy(t) : t \in members \cap DOMAIN root}
        others == UNION {UsedBy(t) : t \in DOMAIN root \ members}
    IN  [rfer |-> SumBytes(mine), excl |-> SumBytes(mine \ others)]

Outdated(info, S) == [g \in DOMAIN info |-> IF g \in S THEN [rfer |-> 0, excl |-> 0] ELSE info[g]]

(* Whatever the trees share, through blocks referenced by tree or by       *)
(* parent, the numbers qgroup_verify_all arrives at are, for every group   *)
(* of any level, the bytes its members use and the bytes only they use,    *)
(* also where a tree without a group shares them or one tree is below a    *)
(* group in two ways.  A repair stopped after any of its commits has the   *)
(* status say that the numbers can be trusted only if they can, or if it   *)
(* said so before.                                                         *)
QuotaExact ==
    \E member \in {Members} : \E r \in {qgroup_verify_all(member)} :
      /\ r # {}
      /\ \A info \in r :
           /\ \A g \in DOMAIN member : info[g] = ByDefinition(member[g])
           /\ \A S \in {{}, {Min(DOMAIN member)}, DOMAIN member}, flags \in {{}, {"inconsistent"}} :
                \E commits \in {repair_qgroups([disk |-> Outdated(info, S), flags |-> flags], info)} :
                  \A i \in DOMAIN commits : commits[i].flags # flags => commits[i].disk = info

(* "the first allocates group counts" (load_quota_info): every group with  *)
(* an item is checked.                                                     *)
AllGroupsLoaded == Groups = {k[3] : k \in {x \in Keys : x[2] = QGROUP_INFO}}
=============================================================================
