------------------------------ MODULE MCLibrary ------------------------------
(***************************************************************************)
(* The modules of the library under one run.  They share no state, so a    *)
(* behaviour belongs to one of them, which part names; s1 to s4 stand for   *)
(* its variables.                                                          *)
(***************************************************************************)
EXTENDS Integers, Sequences

VARIABLES part, s1, s2, s3, s4

vars == <<part, s1, s2, s3, s4>>

Unused == "unused"

---------------------------------------------------------------------------
(* A tree of five keys.  Two items of size 6 fill a leaf and a node has six *)
(* pointers, one of which a merge leaves, so that trees of three levels     *)
(* come and go.                                                            *)
BTreeSizes == [k \in 1..5 |-> IF k = 3 THEN {2, 6} ELSE IF k > 1 THEN {2} ELSE {1, 2}]

BTree == INSTANCE BTree WITH
    tree <- s1, map <- s2, aborted <- s3,
    Keys <- 1..5, DirKeys <- {2, 4}, SizesOf <- BTreeSizes,
    LeafData <- 12, ItemHdr <- 1, NodePtrs <- 6, KeepPtrs <- 1, MaxRoom <- 2

\* see TreeIsMap of BTree
TreeIsMap == part = "btree" => BTree!TreeIsMap

---------------------------------------------------------------------------
(* Three trees, two of whose data references have the same hash, and an     *)
(* item that holds one inline reference.                                   *)
SharedHash == [t \in {5, 6, 7} |-> [i \in {1} |-> IF t = 7 THEN 4 ELSE 5]]

Shared == INSTANCE Backrefs WITH
    blk <- s1, root <- s2, ext <- s3, trans <- s4,
    Trees <- {5, 6, 7}, Inodes <- {1}, Slots <- {1, 2}, Data <- {21},
    NBlocks <- 10, MaxInline <- 1, Hash <- SharedHash, MaxTrans <- 4

\* see RefsExact of SharedBlocks and SharedChecked of Backrefs
RefsExact == part = "shared" => Shared!RefsExact
SharedChecked == part = "shared" => Shared!SharedChecked

(* The same trees with quota groups: 7 has none, 5 is in two groups of      *)
(* level 1 that are in one of level 2.                                     *)
QuotaItems == << <<
    <<0, 240, 0>>, <<0, 242, 5>>, <<0, 242, 6>>, <<0, 242, 101>>, <<0, 242, 102>>, <<0, 242, 201>>,
    <<5, 246, 101>>, <<5, 246, 102>>, <<6, 246, 101>>, <<101, 246, 5>>, <<101, 246, 6>>,
    <<101, 246, 201>>, <<102, 246, 5>>, <<102, 246, 201>>, <<201, 246, 101>>, <<201, 246, 102>> >> >>

Quota == INSTANCE Qgroups WITH
    blk <- s1, root <- s2, ext <- s3, trans <- s4,
    Trees <- {5, 6, 7}, Inodes <- {1}, Slots <- {1, 2}, Data <- {21},
    NBlocks <- 10, MaxInline <- 1, Hash <- SharedHash, MaxTrans <- 4, QuotaTree <- QuotaItems

\* see QuotaExact of Qgroups
QuotaExact == part = "shared" => Quota!QuotaExact

---------------------------------------------------------------------------
Init ==
    \/ part = "btree" /\ BTree!Init /\ s4 = Unused
    \/ part = "shared" /\ Shared!Init

Next ==
    /\ UNCHANGED part
    /\ \/ part = "btree" /\ BTree!Next /\ UNCHANGED s4
       \/ part = "shared" /\ Shared!Next

Spec == Init /\ [][Next]_vars
=============================================================================
