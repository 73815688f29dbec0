--------------------------- MODULE AccountProofs ---------------------------
(***************************************************************************)
(* Proofs about Transaction. First its accounts: the block group counts    *)
(* the extent items in memory, and the commit does not end before the      *)
(* count in the extent tree and the one in the superblock agree. Then the  *)
(* refinement: the transaction layer implements AtomicCommit, for the      *)
(* version the newest superblock leads to is replaced as a whole by the    *)
(* first superblock copy a commit writes, and by nothing else.             *)
(***************************************************************************)
EXTENDS CommitProofs, FiniteSetTheorems

(* Blocks that join and blocks that leave a set, counted.                  *)
LEMMA CountMoves ==
  ASSUME NEW S, IsFiniteSet(S), NEW A, IsFiniteSet(A), NEW F \in SUBSET S, A \cap S = {}
  PROVE  Cardinality((S \cup A) \ F) = Cardinality(S) + Cardinality(A) - Cardinality(F)
<1>1. IsFiniteSet(F) /\ Cardinality(S) \in Nat /\ Cardinality(A) \in Nat /\ Cardinality(F) \in Nat
  BY FS_Subset, FS_CardinalityType, Zenon
<1>2. IsFiniteSet(S \ F) /\ Cardinality(S \ F) = Cardinality(S) - Cardinality(F)
  <2>1. S \cap F = F
    BY Zenon
  <2> QED BY <1>1, <2>1, FS_Difference, Zenon
<1>3. Cardinality((S \ F) \cup A) = Cardinality(S \ F) + Cardinality(A) - Cardinality((S \ F) \cap A)
  BY <1>2, FS_Union, Zenon
<1>4. (S \ F) \cap A = {} /\ (S \cup A) \ F = (S \ F) \cup A
  BY Zenon
<1>5. Cardinality((S \cup A) \ F) = Cardinality(S \ F) + Cardinality(A) - 0
  BY <1>3, <1>4, FS_EmptySet, Zenon
<1>6. Cardinality((S \cup A) \ F) = (Cardinality(S) - Cardinality(F)) + Cardinality(A) - 0
  BY <1>2, <1>5, Zenon
<1> QED BY <1>1, <1>6

(* A change counts what it moves, marks the group dirty when it moves      *)
(* anything, and moves nothing without copying the extent root in this     *)
(* transaction.                                                            *)
LEMMA ChangeCounts ==
  ASSUME TypeOK, TypeOK', MemShape, trans # None, trans' = trans,
         bgUsed = Cardinality(buf[node[EXT]].items),
         NEW t \in Tree, NEW drop \in SUBSET buf[node[t]].kids, NEW dbg \in BOOLEAN,
         NEW C \in SUBSET Tree, NEW grown \in SUBSET Block,
         Moves(C, t, grown, drop), Buffers(C, t, grown, drop), Counts(C, grown, drop, dbg)
  PROVE  /\ bgUsed' = Cardinality(buf'[node'[EXT]].items)
         /\ ~bgDirty' => ~dbg /\ bgUsed' = bgUsed
         /\ bgDirty' => dbg \/ EXT \in dirtyRoots' \/ Fresh(node[EXT])
         /\ Fresh(node[EXT])' => EXT \in dirtyRoots' \/ Fresh(node[EXT])
         /\ dirtyRoots \subseteq dirtyRoots'
<1> DEFINE A == Added(C, grown)
           F == Freed(C, drop)
<1>1. \A x \in Tree : node[x] \in Live /\ buf[node[x]].kids \subseteq Live
  BY DEF Live
<1>2. F \subseteq Live
  BY <1>1, Zenon DEF Freed
<1>3. A \subseteq free /\ Live \cap free = {} /\ Live \subseteq Block /\ free \subseteq Block
  BY Zenon DEF Moves, MemShape, TypeOK
<1>4. IsFiniteSet(Live) /\ IsFiniteSet(A)
  <2>1. Live \in SUBSET Block /\ A \in SUBSET Block
    BY <1>3, Zenon
  <2> HIDE DEF A
  <2> QED BY <2>1, BlockAssumption, FS_Subset, Zenon
<1>5. buf'[node'[EXT]].items = (Live \cup A) \ F /\ buf[node[EXT]].items = Live
  BY Zenon DEF Buffers, MemShape
<1>6. /\ bgUsed' = bgUsed + Cardinality(A) - Cardinality(F)
      /\ bgDirty' = (dbg \/ A \cup F # {})
      /\ A \cup F # {} => EXT \in C \/ Fresh(node[EXT])
  BY Zenon DEF Counts
<1>7. EXT \in C => EXT \in dirtyRoots'
  BY Zenon DEF Moves, CowOnly
<1>8. Fresh(node[EXT])' => EXT \in C \/ Fresh(node[EXT])
  <2> SUFFICES ASSUME EXT \notin C, ~Fresh(node[EXT]) PROVE ~Fresh(node[EXT])'
    BY Zenon
  <2>1. node'[EXT] = node[EXT] /\ node[EXT] \in Block \ A
    BY <1>1, <1>3, TreesExist, Zenon DEF Moves
  <2>2. buf'[node[EXT]] = buf[node[EXT]]
    BY <2>1, Zenon DEF Buffers
  <2> QED BY <2>1, <2>2, Zenon DEF Fresh
<1> HIDE DEF A, F
<1>9. bgUsed' = Cardinality(buf'[node'[EXT]].items)
  <2>1. F \in SUBSET Live /\ A \cap Live = {}
    BY <1>2, <1>3, Zenon
  <2>2. Cardinality((Live \cup A) \ F) = Cardinality(Live) + Cardinality(A) - Cardinality(F)
    BY <1>4, <2>1, CountMoves
  <2> QED BY <1>5, <1>6, <2>2, Zenon
<1>10. ~bgDirty' => ~dbg /\ bgUsed' = bgUsed
  <2> SUFFICES ASSUME ~bgDirty' PROVE ~dbg /\ bgUsed' = bgUsed
    BY Zenon
  <2>1. ~dbg /\ A = {} /\ F = {}
    BY <1>6, Zenon
  <2>2. bgUsed' = bgUsed + 0 - 0
    BY <1>6, <2>1, FS_EmptySet, Zenon
  <2> QED BY <2>1, <2>2 DEF TypeOK
<1>11. bgDirty' => dbg \/ EXT \in dirtyRoots' \/ Fresh(node[EXT])
  BY <1>6, <1>7, Zenon
<1> QED BY <1>7, <1>8, <1>9, <1>10, <1>11, Zenon DEF Moves

(* What holds of the version on the disk does so while neither the tree    *)
(* blocks nor the superblocks are written.                                 *)
LEMMA AccountedStill ==
  ASSUME CommittedAccounted, UNCHANGED <<disk, sb>>
  PROVE  CommittedAccounted'
<1>1. \A d \in Dev, m \in Mirror : Newest(sb[d][m])' => Newest(sb[d][m])
  BY DiskStill, Zenon
<1> SUFFICES ASSUME NEW d \in Dev, NEW m \in Mirror, Newest(sb[d][m])'
             PROVE  LET e == disk'[AddrOf(disk', sb'[d][m], EXT)]
                    IN /\ e.items = Reach(disk', sb'[d][m])
                       /\ e.used = Cardinality(e.items) /\ sb'[d][m].used = e.used
  BY Zenon DEF CommittedAccounted
<1>2. LET e == disk[AddrOf(disk, sb[d][m], EXT)]
      IN /\ e.items = Reach(disk, sb[d][m])
         /\ e.used = Cardinality(e.items) /\ sb[d][m].used = e.used
  BY <1>1, Zenon DEF CommittedAccounted
<1> QED BY <1>2, Zenon

(* What the actions do to a copied root node leaves the count alone, other *)
(* than write_one_cache_group.                                             *)
LEMMA UsedUpdates ==
  ASSUME TypeOK
  PROVE  /\ \A c \in Content : Nothing[c].used = c.used
         /\ \A v \in Val : \A c \in Content : SetVal(v)[c].used = c.used
         /\ \A r : \A c \in Content : SetItem(r)[c].used = c.used
         /\ \A n \in Int : \A c \in Content : SetUsed(n)[c].used = n
<1>1. \A c \in Content : Nothing[c].used = c.used
  BY Zenon DEF Nothing
<1>2. \A v \in Val : \A c \in Content : SetVal(v)[c].used = c.used
  BY Zenon DEF SetVal, Content
<1>3. \A r : \A c \in Content : SetItem(r)[c].used = c.used
  BY Zenon DEF SetItem, Content
<1>4. \A n \in Int : \A c \in Content : SetUsed(n)[c].used = n
  BY Zenon DEF SetUsed, Content
<1> QED BY <1>1, <1>2, <1>3, <1>4, Zenon

(* The change leaves the count in the extent tree alone, or sets it.       *)
CountKept(t, upd, dbg) ==
  \/ dbg = bgDirty /\ \A c \in Content : upd[c].used = c.used
  \/ t = EXT /\ \A c \in Content : upd[c].used = bgUsed

(* It is made before the extent root is looked at, or in the loop that     *)
(* writes the group until it is clean.                                     *)
InTime(dbg) == pc' = "groups" \/ (pc \in {"idle", "cowroot"} /\ dbg = bgDirty)

(* Such a change keeps the accounts.                                       *)
LEMMA ChangeAccounts ==
  ASSUME VersionInv, TypeOK', opened, Accounting, trans # None, trans' = trans,
         NEW t \in Tree, NEW grow \in BOOLEAN,
         NEW drop \in SUBSET buf[node[t]].kids, NEW upd \in [Content -> Content], Harmless(upd),
         NEW dbg \in BOOLEAN, Change(t, grow, drop, upd, dbg),
         CountKept(t, upd, dbg), InTime(dbg)
  PROVE  Accounting'
<1>1. TypeOK /\ MemShape
  BY Zenon DEF VersionInv
<1>2. PICK C \in SUBSET Tree, grown \in SUBSET Block :
        /\ Moves(C, t, grown, drop) /\ Buffers(C, t, grown, drop) /\ ItemsKept(t, upd)
        /\ ValuesKept(t, upd) /\ Counts(C, grown, drop, dbg)
  BY <1>1, ChangeEffect, ZenonT(120)
<1>3. bgUsed = Cardinality(buf[node[EXT]].items) /\ (~bgDirty => buf[node[EXT]].used = bgUsed)
      /\ (bgDirty /\ pc # "groups" => EXT \in dirtyRoots)
      /\ (pc \in {"idle", "cowroot"} /\ Fresh(node[EXT]) => EXT \in dirtyRoots)
  BY Zenon DEF Accounting
<1>4. /\ bgUsed' = Cardinality(buf'[node'[EXT]].items)
      /\ ~bgDirty' => ~dbg /\ bgUsed' = bgUsed
      /\ bgDirty' => dbg \/ EXT \in dirtyRoots' \/ Fresh(node[EXT])
      /\ Fresh(node[EXT])' => EXT \in dirtyRoots' \/ Fresh(node[EXT])
      /\ dirtyRoots \subseteq dirtyRoots'
  BY <1>1, <1>2, <1>3, ChangeCounts, Zenon
<1>5. \/ t # EXT /\ buf'[node'[EXT]].used = buf[node[EXT]].used
      \/ t = EXT /\ \E c \in Content : /\ c.used = buf[node[EXT]].used
                                       /\ buf'[node'[EXT]].used = upd[c].used
  BY <1>2, TreesExist, Zenon DEF ValuesKept
<1>6. ~bgDirty' => buf'[node'[EXT]].used = bgUsed'
  BY <1>3, <1>4, <1>5, Zenon DEF CountKept
<1>7. pc' # "groups" => /\ bgDirty' => EXT \in dirtyRoots'
                        /\ Fresh(node[EXT])' => EXT \in dirtyRoots'
  BY <1>3, <1>4, Zenon DEF InTime
<1> QED BY <1>4, <1>6, <1>7, Zenon DEF Accounting

(* Neither does a step that leaves the trees in memory alone, if it leaves *)
(* the extent root where it is looked for.                                 *)
LEMMA AccountsStill ==
  ASSUME Accounting, UNCHANGED <<node, buf, bgUsed, bgDirty>>,
         bgDirty /\ pc' # "groups" => EXT \in dirtyRoots',
         trans' # None /\ pc' \in {"idle", "cowroot"} /\ Fresh(node[EXT])' => EXT \in dirtyRoots'
  PROVE  Accounting'
BY Zenon DEF Accounting

(* The write of a tree block changes no count, in memory or on the disk.   *)
LEMMA WriteBlockAccounts ==
  ASSUME IInv, VersionInv', NEW b \in Block, WriteTreeBlock(b)
  PROVE  CommittedAccounted' /\ Accounting'
<1>1. TypeOK /\ opened /\ Accounting /\ VersionInv /\ pc = "write" /\ TypeOK' /\ VersionSafe'
  BY Zenon DEF IInv, VersionInv, WriteTreeBlock, CommitContext
<1>2. /\ buf' = [buf EXCEPT ![b].written = TRUE]
      /\ UNCHANGED <<sb, node, bgUsed, bgDirty, dirtyRoots, pc, cur, sbTodo>>
  BY Zenon DEF WriteTreeBlock, pcVars
<1>3. node[EXT] \in Block /\ buf[node[EXT]] \in Content
  BY <1>1, TreesExist, Zenon DEF TypeOK
<1>4. buf'[node[EXT]].items = buf[node[EXT]].items /\ buf'[node[EXT]].used = buf[node[EXT]].used
  <2>1. CASE node[EXT] # b
    BY <1>1, <1>2, <1>3, <2>1, Zenon DEF TypeOK
  <2>2. CASE node[EXT] = b
    <3>1. buf'[b] = [buf[b] EXCEPT !.written = TRUE]
      BY <1>1, <1>2, Zenon DEF TypeOK
    <3> QED BY <1>3, <2>2, <3>1, Zenon DEF Content
  <2> QED BY <2>1, <2>2, Zenon
<1>5. Accounting'
  BY <1>1, <1>2, <1>4, Zenon DEF Accounting
<1>6. ASSUME NEW d \in Dev, NEW m \in Mirror, Newest(sb[d][m])'
      PROVE  LET e == disk'[AddrOf(disk', sb'[d][m], EXT)]
             IN /\ e.items = Reach(disk', sb'[d][m])
                /\ e.used = Cardinality(e.items) /\ sb'[d][m].used = e.used
  <2>1. Newest(sb[d][m]) /\ sb'[d][m] = sb[d][m]
    BY <1>2, <1>6, Zenon DEF Newest
  <2> DEFINE e == disk[AddrOf(disk, sb[d][m], EXT)]
  <2>2. disk'[AddrOf(disk', sb'[d][m], EXT)] = e
    <3>1. /\ AddrOf(disk', sb[d][m], EXT) = AddrOf(disk, sb[d][m], EXT)
          /\ disk'[AddrOf(disk, sb[d][m], EXT)] = disk[AddrOf(disk, sb[d][m], EXT)]
      BY <1>1, <2>1, WriteBlockReach, TreesExist, ZenonT(60)
    <3> QED BY <2>1, <3>1, Zenon
  <2>3. disk'[AddrOf(disk', sb'[d][m], EXT)].items = Reach(disk', sb'[d][m])
    BY <1>1, <1>6, Zenon DEF VersionSafe
  <2>4. e.used = Cardinality(e.items) /\ sb[d][m].used = e.used
    BY <2>1, Zenon DEF IInv, CommittedAccounted
  <2> QED BY <2>1, <2>2, <2>3, <2>4, Zenon
<1>7. CommittedAccounted'
  BY <1>6, Zenon DEF CommittedAccounted
<1> QED BY <1>5, <1>7, Zenon

(* The new superblock counts what the extent tree it leads to counts: no   *)
(* group is dirty any more when it is written.                             *)
LEMMA WriteSuperAccounts ==
  ASSUME IInv, VersionInv', NEW d \in Dev, NEW m \in Mirror, WriteSuper(d, m)
  PROVE  CommittedAccounted' /\ Accounting'
<1>1. TypeOK /\ opened /\ Accounting /\ VersionInv /\ pc = "super" /\ TypeOK' /\ Phase
  BY Zenon DEF IInv, VersionInv, WriteSuper, CommitContext
<1>2. UNCHANGED <<disk, node, buf, bgUsed, bgDirty, dirtyRoots, pc>>
  BY Zenon DEF WriteSuper, memVars
<1>3. ~bgDirty
  BY <1>1, Zenon DEF Accounting, Phase
<1>4. Accounting'
  BY <1>1, <1>2, <1>3, AccountsStill, Zenon
<1> DEFINE e == disk[AddrOf(disk, NewSuper, EXT)]
<1>5. e = buf[node[EXT]] /\ e.items = Reach(disk, NewSuper)
  BY <1>1, NewSuperGood, TreesExist, Zenon
<1>6. e.used = bgUsed /\ e.used = Cardinality(e.items)
  BY <1>1, <1>3, <1>5, Zenon DEF Accounting
<1>7. NewSuper.used = bgUsed
  BY Zenon DEF NewSuper
<1>8. \A f \in Dev, k \in Mirror : Newest(sb[f][k])' => sb'[f][k] = NewSuper
  BY <1>1, WriteSuperNewest, Zenon
<1> QED BY <1>2, <1>4, <1>5, <1>6, <1>7, <1>8, Zenon DEF CommittedAccounted

(* A fresh transaction has copied nothing.                                 *)
LEMMA StartAccounts ==
  ASSUME IInv, NEW r \in StartRoot, Start(r)
  PROVE  Accounting'
<1>1. TypeOK /\ MemShape /\ Accounting /\ pc = "idle" /\ generation \in Nat
  BY Zenon DEF IInv, VersionInv, Start, TypeOK
<1>2. /\ trans'.transid = generation + 1
      /\ UNCHANGED <<node, buf, bgUsed, bgDirty, dirtyRoots, pc>>
  BY Zenon DEF Start, memVars, pcVars
<1>3. buf[node[EXT]].gen <= generation /\ buf[node[EXT]].gen \in Nat
  BY <1>1, TreesExist, Zenon DEF MemShape, Own, TypeOK, Content
<1>4. ~Fresh(node[EXT])'
  BY <1>1, <1>2, <1>3 DEF Fresh
<1> QED BY <1>1, <1>2, <1>4, AccountsStill, Zenon DEF Accounting

(* Memory after an open counts what the disk counts.                       *)
LEMMA OpenAccounts ==
  ASSUME IInv, NEW d \in Dev, NEW m \in Mirror, Open(d, sb[d][m])
  PROVE  Accounting'
<1> DEFINE e == disk[AddrOf(disk, sb[d][m], EXT)]
<1>1. Newest(sb[d][m]) /\ trans = None
  BY Zenon DEF Open, OpenSuper, IInv, VersionInv, CommitContext
<1>2. e.used = Cardinality(e.items)
  BY <1>1, Zenon DEF IInv, CommittedAccounted
<1>3. /\ node'[EXT] = AddrOf(disk, sb[d][m], EXT) /\ bgUsed' = e.used /\ buf' = disk
      /\ bgDirty' = FALSE /\ trans' = None
  BY <1>1, TreesExist, Zenon DEF Open
<1> QED BY <1>2, <1>3, Zenon DEF Accounting

(* A program's change of a tree keeps the accounts.                        *)
LEMMA UserAccounts ==
  ASSUME IInv, TypeOK', NEW t \in UserTree, MayChange(t), UserFrame, NEW grow \in BOOLEAN,
         NEW drop \in SUBSET buf[node[t]].kids, NEW upd \in [Content -> Content], Harmless(upd),
         \A c \in Content : upd[c].used = c.used, Change(t, grow, drop, upd, bgDirty)
  PROVE  Accounting'
<1>1. VersionInv /\ opened /\ Accounting /\ trans # None /\ pc = "idle" /\ trans' = trans
      /\ t \in Tree /\ bgDirty \in BOOLEAN
  BY ParamAssumption, Zenon DEF IInv, VersionInv, TypeOK, MayChange, InTrans, UserFrame, fsVars
<1>2. CountKept(t, upd, bgDirty)
  BY Zenon DEF CountKept
<1> QED BY <1>1, <1>2, ChangeAccounts, Zenon DEF InTime

(* A step of the commit that copies the root tree or the extent tree keeps *)
(* the accounts.                                                           *)
LEMMA CommitAccounts ==
  ASSUME IInv, TypeOK', pc \in {"idle", "cowroot", "groups"}, trans # None, CommitFrame,
         NEW t \in {ROOT, EXT}, NEW upd \in [Content -> Content], Harmless(upd), NEW dbg \in BOOLEAN,
         Change(t, FALSE, {}, upd, dbg), CountKept(t, upd, dbg), InTime(dbg)
  PROVE  CommittedAccounted' /\ Accounting'
<1>1. VersionInv /\ opened /\ Accounting /\ trans' = trans /\ t \in Tree /\ CommittedAccounted
      /\ UNCHANGED <<disk, sb>>
  BY TreesExist, Zenon DEF IInv, VersionInv, CommitContext, CommitFrame, fsVars, diskVars
<1>2. {} \in SUBSET buf[node[t]].kids
  BY Zenon
<1>3. Accounting'
  BY <1>1, <1>2, ChangeAccounts, ZenonT(60)
<1> QED BY <1>1, <1>3, AccountedStill, Zenon

(* Every step keeps the accounts.                                          *)
LEMMA AccountStep ==
  ASSUME IInv, VersionInv', [Next]_vars
  PROVE  CommittedAccounted' /\ (opened' => Accounting')
<1> USE DEF fsVars, memVars, diskVars, pcVars
<1> DEFINE Goal == CommittedAccounted' /\ (opened' => Accounting')
<1>0. /\ TypeOK /\ TypeOK' /\ VersionInv /\ CommittedAccounted /\ (opened => Accounting)
      /\ bgDirty \in BOOLEAN /\ bgUsed \in Int
  BY Zenon DEF IInv, VersionInv, TypeOK
<1>1. ASSUME NEW d \in Dev, NEW s \in {sb[d][m] : m \in Mirror}, Open(d, s) PROVE Goal
  <2>1. UNCHANGED <<disk, sb>>
    BY <1>1, Zenon DEF Open
  <2> QED BY <1>0, <1>1, <2>1, AccountedStill, OpenAccounts, Zenon
<1>2. ASSUME NEW r \in StartRoot, Start(r) PROVE Goal
  BY <1>0, <1>2, StartAccounts, AccountedStill, Zenon DEF Start
<1>3. ASSUME NEW t \in UserTree, NEW v \in Val, Modify(t, v) PROVE Goal
  <2>1. SetVal(v) \in [Content -> Content] /\ Harmless(SetVal(v))
        /\ \A c \in Content : SetVal(v)[c].used = c.used
    BY <1>0, UpdType, HarmlessUpdates, UsedUpdates, Zenon
  <2>2. {} \in SUBSET buf[node[t]].kids
    BY Zenon
  <2>3. Accounting'
    BY <1>0, <1>3, <2>1, <2>2, UserAccounts, Zenon DEF Modify
  <2> QED BY <1>0, <1>3, <2>3, AccountedStill, Zenon DEF Modify, UserFrame
<1>4. ASSUME NEW t \in UserTree, AddLeaf(t) PROVE Goal
  <2>1. Nothing \in [Content -> Content] /\ Harmless(Nothing)
        /\ \A c \in Content : Nothing[c].used = c.used
    BY <1>0, UpdType, HarmlessUpdates, UsedUpdates, Zenon
  <2>2. {} \in SUBSET buf[node[t]].kids
    BY Zenon
  <2>3. Accounting'
    BY <1>0, <1>4, <2>1, <2>2, UserAccounts, Zenon DEF AddLeaf
  <2> QED BY <1>0, <1>4, <2>3, AccountedStill, Zenon DEF AddLeaf, UserFrame
<1>5. ASSUME NEW t \in UserTree, NEW b \in Block, DelLeaf(t, b) \/ CowLeaf(t, b) PROVE Goal
  <2>1. Nothing \in [Content -> Content] /\ Harmless(Nothing)
        /\ \A c \in Content : Nothing[c].used = c.used
    BY <1>0, UpdType, HarmlessUpdates, UsedUpdates, Zenon
  <2>2. {b} \in SUBSET buf[node[t]].kids /\ UserFrame /\ MayChange(t)
    BY <1>5, Zenon DEF DelLeaf, CowLeaf
  <2>3. PICK grow \in BOOLEAN : Change(t, grow, {b}, Nothing, bgDirty)
    BY <1>5, Zenon DEF DelLeaf, CowLeaf
  <2>4. Accounting'
    BY <1>0, <2>1, <2>2, <2>3, UserAccounts, Zenon
  <2> QED BY <1>0, <2>2, <2>4, AccountedStill, Zenon DEF UserFrame
<1>6. CASE Abort
  <2>1. opened /\ Accounting
    BY <1>0, <1>6, Zenon DEF Abort, InTrans
  <2>2. UNCHANGED <<disk, sb, node, buf, bgUsed, bgDirty, dirtyRoots, pc, trans>>
    BY <1>6, Zenon DEF Abort
  <2>3. Accounting'
    BY <2>1, <2>2, Zenon DEF Accounting, Fresh
  <2> QED BY <1>0, <2>2, <2>3, AccountedStill, Zenon
<1>7. CASE CommitRoot
  <2> DEFINE r == trans.root
  <2>1. opened /\ trans # None /\ pc = "idle" /\ pc' = "cowroot" /\ CommitFrame /\ Accounting
        /\ Phase /\ r \in Tree
    BY <1>0, <1>7, TransType, ZenonT(60) DEF CommitRoot, InTrans, VersionInv
  <2>2. CASE trans.commitRoot = node[r] \/ r \in {ROOT, CHUNK}
    <3>1. UNCHANGED <<disk, sb, node, buf, bgUsed, bgDirty, dirtyRoots, trans>>
      BY <1>7, <2>1, <2>2, ZenonT(60) DEF CommitRoot, CommitFrame
    <3>2. Accounting'
      BY <2>1, <3>1, Zenon DEF Accounting, Fresh
    <3> QED BY <1>0, <3>1, <3>2, AccountedStill, Zenon
  <2>3. CASE ~(trans.commitRoot = node[r] \/ r \in {ROOT, CHUNK})
    <3>1. Change(ROOT, FALSE, {}, SetItem(r), bgDirty)
      BY <1>7, <2>3, Zenon DEF CommitRoot
    <3>2. r \in ItemTree
      BY <2>1, <2>3, Zenon DEF Tree
    <3> HIDE DEF r
    <3>3. SetItem(r) \in [Content -> Content] /\ Harmless(SetItem(r)) /\ CountKept(ROOT, SetItem(r), bgDirty)
      BY <1>0, <2>1, <3>2, UpdType, HarmlessUpdates, UsedUpdates, Zenon DEF CountKept
    <3> QED BY <1>0, <2>1, <3>1, <3>3, CommitAccounts, Zenon DEF InTime
  <2> QED BY <2>2, <2>3, Zenon
<1>8. CASE CommitCowRoot
  <2>1. trans # None /\ pc = "cowroot" /\ CommitFrame /\ Change(ROOT, FALSE, {}, Nothing, bgDirty)
    BY <1>0, <1>8, Zenon DEF CommitCowRoot, VersionInv, CommitContext
  <2>2. Nothing \in [Content -> Content] /\ Harmless(Nothing) /\ CountKept(ROOT, Nothing, bgDirty)
    BY <1>0, UpdType, HarmlessUpdates, UsedUpdates, Zenon DEF CountKept
  <2> QED BY <1>0, <2>1, <2>2, CommitAccounts, Zenon DEF InTime
<1>9. ASSUME NEW t \in CowOnly, NextDirtyRoot(t) PROVE Goal
  <2>1. pc' = "groups" /\ opened /\ UNCHANGED <<disk, sb, node, buf, bgUsed, bgDirty>>
    BY <1>0, <1>9, Zenon DEF NextDirtyRoot, CommitFrame, VersionInv, CommitContext
  <2>2. Accounting'
    BY <1>0, <2>1, AccountsStill, Zenon
  <2> QED BY <1>0, <2>1, <2>2, AccountedStill, Zenon
<1>10. CASE WriteOneCacheGroup
  <2>1. trans # None /\ pc = "groups" /\ pc' = "groups" /\ CommitFrame
        /\ Change(EXT, FALSE, {}, SetUsed(bgUsed), FALSE)
    BY <1>0, <1>10, Zenon DEF WriteOneCacheGroup, VersionInv, CommitContext
  <2>2. SetUsed(bgUsed) \in [Content -> Content] /\ Harmless(SetUsed(bgUsed))
        /\ CountKept(EXT, SetUsed(bgUsed), FALSE)
    BY <1>0, UpdType, HarmlessUpdates, UsedUpdates, ZenonT(60) DEF CountKept
  <2> QED BY <1>0, <2>1, <2>2, CommitAccounts, Zenon DEF InTime
<1>11. CASE UpdateCowonlyRoot
  <2>1. opened /\ trans # None /\ pc = "groups" /\ cur \in ItemTree /\ CommitFrame /\ ~bgDirty
    BY <1>0, <1>11, Zenon DEF UpdateCowonlyRoot, VersionInv, CommitContext, ItemTree
  <2>2. CASE rootItem[cur] = node[cur]
    <3>1. pc' = "roots" /\ UNCHANGED <<disk, sb, node, buf, bgUsed, bgDirty>>
      BY <1>11, <2>1, <2>2, ZenonT(60) DEF UpdateCowonlyRoot, CommitFrame
    <3>2. Accounting'
      BY <1>0, <2>1, <3>1, AccountsStill, Zenon
    <3> QED BY <1>0, <3>1, <3>2, AccountedStill, Zenon
  <2>3. CASE rootItem[cur] # node[cur]
    <3>1. Change(ROOT, FALSE, {}, SetItem(cur), bgDirty) /\ pc' = "groups"
      BY <1>11, <2>1, <2>3, Zenon DEF UpdateCowonlyRoot
    <3>2. SetItem(cur) \in [Content -> Content] /\ Harmless(SetItem(cur))
          /\ CountKept(ROOT, SetItem(cur), bgDirty)
      BY <1>0, <2>1, UpdType, HarmlessUpdates, UsedUpdates, ZenonT(60) DEF CountKept
    <3> QED BY <1>0, <2>1, <3>1, <3>2, CommitAccounts, Zenon DEF InTime
  <2> QED BY <2>2, <2>3, Zenon
<1>12. CASE RootsDone \/ BlocksDone
  <2>1. /\ opened /\ ~bgDirty /\ pc' \in {"write", "super"}
        /\ UNCHANGED <<disk, sb, node, buf, bgUsed, bgDirty>>
    BY <1>0, <1>12, Zenon DEF RootsDone, BlocksDone, CommitFrame, VersionInv, CommitContext, Accounting, Phase
  <2>2. Accounting'
    BY <1>0, <2>1, AccountsStill, Zenon
  <2> QED BY <1>0, <2>1, <2>2, AccountedStill, Zenon
<1>13. ASSUME NEW b \in Block, WriteTreeBlock(b) PROVE Goal
  BY <1>13, WriteBlockAccounts, Zenon
<1>14. ASSUME NEW d \in Dev, NEW m \in Mirror, WriteSuper(d, m) PROVE Goal
  BY <1>14, WriteSuperAccounts, Zenon
<1>15. CASE FinishCommit
  <2>1. /\ opened /\ ~bgDirty /\ trans' = None
        /\ UNCHANGED <<disk, sb, node, buf, bgUsed, bgDirty>>
    BY <1>0, <1>15, Zenon DEF FinishCommit, EndTransaction, VersionInv, CommitContext, Accounting, Phase
  <2>2. Accounting'
    BY <1>0, <2>1, AccountsStill, Zenon
  <2> QED BY <1>0, <2>1, <2>2, AccountedStill, Zenon
<1>16. CASE Close \/ Crash
  <2>1. opened' = FALSE /\ UNCHANGED <<disk, sb>>
    BY <1>16, Zenon DEF Close, Crash, Forget
  <2> QED BY <1>0, <2>1, AccountedStill, Zenon
<1>17. CASE UNCHANGED vars
  <2>1. UNCHANGED <<disk, sb, opened, node, buf, bgUsed, bgDirty, dirtyRoots, pc, trans>>
    BY <1>17, Zenon DEF vars
  <2>2. opened' => Accounting'
    BY <1>0, <2>1, Zenon DEF Accounting, Fresh
  <2> QED BY <1>0, <2>1, <2>2, AccountedStill, Zenon
<1> QED
  BY <1>1, <1>2, <1>3, <1>4, <1>5, <1>6, <1>7, <1>8, <1>9, <1>10, <1>11, <1>12, <1>13, <1>14,
     <1>15, <1>16, <1>17, Zenon DEF Next, CommitStep

(* mkfs counts the root nodes it wrote.                                    *)
LEMMA InitAccounts == ASSUME Init PROVE CommittedAccounted /\ ~opened
<1>1. /\ \A d \in Dev, m \in Mirror : sb[d][m] = MkfsSuper
      /\ AddrOf(disk, MkfsSuper, EXT) = InitNode[EXT]
      /\ disk[InitNode[EXT]] = MkfsContent(EXT)
  BY MkfsLayout, TreesExist, Zenon
<1> DEFINE I == {InitNode[x] : x \in Tree}
<1>2. MkfsContent(EXT).items = I /\ MkfsContent(EXT).used = Cardinality(Tree)
  BY MkfsFields, TreesExist, Zenon
<1>3. MkfsSuper.used = Cardinality(Tree)
  BY Zenon DEF MkfsSuper
<1>4. Cardinality(I) = Cardinality(Tree)
  <2>1. InitNode \in Bijection(Tree, I)
    BY BlockAssumption, Zenon DEF Bijection, Injection, Surjection, IsInjective
  <2>2. ExistsBijection(Tree, I)
    BY <2>1, Zenon DEF ExistsBijection
  <2> QED BY <2>2, TreeAssumption, FS_Bijection, Zenon
<1>5. \A d \in Dev, m \in Mirror : Newest(sb[d][m]) =>
        disk[AddrOf(disk, sb[d][m], EXT)].items = Reach(disk, sb[d][m])
  BY InitKeeps, Zenon DEF VersionInv, VersionSafe
<1>6. CommittedAccounted
  BY <1>1, <1>2, <1>3, <1>4, <1>5, Zenon DEF CommittedAccounted
<1> QED BY <1>6, Zenon DEF Init, Closed

(* Some superblock copy is the newest, whatever mixture of old and new ones *)
(* a crash in write_all_supers leaves.                                     *)
SomeNewest == \E d \in Dev, m \in Mirror : Newest(sb[d][m])

LEMMA InitNewest == ASSUME Init PROVE SomeNewest
<1>1. PICK d \in Dev : TRUE
  BY ParamAssumption, Zenon
<1>2. 0 \in Mirror
  BY ParamAssumption DEF Mirror
<1>3. MkfsSuper.gen <= MkfsSuper.gen
  BY DEF MkfsSuper
<1>4. Newest(sb[d][0])
  BY <1>2, <1>3, MkfsLayout, Zenon DEF Newest
<1> QED BY <1>2, <1>4, Zenon DEF SomeNewest

LEMMA NewestStep == ASSUME IInv, VersionInv', [Next]_vars PROVE SomeNewest'
<1>1. SomeNewest /\ VersionInv /\ TypeOK'
  BY Zenon DEF IInv, SomeNewest, VersionInv
<1>2. ASSUME NEW d \in Dev, NEW m \in Mirror, WriteSuper(d, m) PROVE SomeNewest'
  <2>1. sb'[d][m] = NewSuper /\ \A e \in Dev, k \in Mirror : sb'[e][k].gen <= NewSuper.gen
    BY <1>1, <1>2, WriteSuperNewest, Zenon
  <2>2. Newest(sb[d][m])'
    BY <2>1, Zenon DEF Newest
  <2> QED BY <2>2, Zenon DEF SomeNewest
<1>3. CASE UNCHANGED sb
  BY <1>1, <1>3, Zenon DEF SomeNewest, Newest
<1>4. UNCHANGED sb \/ \E d \in Dev, m \in Mirror : WriteSuper(d, m)
  <2> USE DEF diskVars, UserFrame, CommitFrame
  <2>1. CASE \E d \in Dev : \E s \in {sb[d][m] : m \in Mirror} : Open(d, s)
    BY <2>1, Zenon DEF Open
  <2>2. CASE \/ \E r \in StartRoot : Start(r)
             \/ \E t \in UserTree, v \in Val : Modify(t, v)
             \/ \E t \in UserTree : AddLeaf(t)
             \/ \E t \in UserTree, b \in Block : DelLeaf(t, b)
             \/ \E t \in UserTree, b \in Block : CowLeaf(t, b)
    BY <2>2, Zenon DEF Start, Modify, AddLeaf, DelLeaf, CowLeaf
  <2>3. CASE Abort \/ CommitRoot \/ Close \/ Crash \/ UNCHANGED vars
    BY <2>3, Zenon DEF Abort, CommitRoot, Close, Crash, Forget, vars
  <2>4. CASE CommitStep
    BY <2>4, Zenon DEF CommitStep, CommitCowRoot, NextDirtyRoot, WriteOneCacheGroup,
       UpdateCowonlyRoot, RootsDone, WriteTreeBlock, BlocksDone, FinishCommit
  <2> QED BY <2>1, <2>2, <2>3, <2>4, Zenon DEF Next
<1> QED BY <1>2, <1>3, <1>4, Zenon

(* The invariant holds in every reachable state, whatever the trees, the   *)
(* devices, the superblock copies and the blocks are.                      *)
THEOREM Invariance == Spec => []IInv
<1>1. Init => IInv
  BY InitKeeps, InitAccounts, InitNewest, Zenon DEF IInv, SomeNewest
<1>2. IInv /\ [Next]_vars => IInv'
  <2> SUFFICES ASSUME IInv, [Next]_vars PROVE IInv'
    BY Zenon
  <2>1. VersionInv'
    BY VersionStep, Zenon DEF IInv
  <2> QED BY <2>1, AccountStep, NewestStep, Zenon DEF IInv, SomeNewest
<1> QED BY <1>1, <1>2, PTL DEF Spec

(* Every committed version accounts for itself: after a crash at any point *)
(* the extent items of the newest version are exactly the blocks it        *)
(* reaches, and the block group item and the superblock count them, so the *)
(* loops of update_cowonly_root and btrfs_write_dirty_block_groups stop    *)
(* with the right count (update_block_group, write_one_cache_group).       *)
THEOREM CommittedAlwaysAccounted == Spec => []CommittedAccounted
<1>1. IInv => CommittedAccounted
  BY Zenon DEF IInv
<1> QED BY <1>1, Invariance, PTL

----------------------------------------------------------------------------
(* The refinement *)

(* The two sides of the refinement mapping.                                *)
Stable == [t \in ValTree |-> disk[AddrOf(disk, NewestSuper, t)].val]
Working == IF opened THEN [t \in ValTree |-> buf[node[t]].val] ELSE None

(* Through whichever of the newest superblocks one goes.                   *)
LEMMA NewestIsUnique ==
  ASSUME IInv, NEW d \in Dev, NEW m \in Mirror, Newest(sb[d][m])
  PROVE  NewestSuper = sb[d][m]
<1> DEFINE S == {sb[e][k] : e \in Dev, k \in Mirror}
<1>1. \A s \in S : Newest(s) => s = sb[d][m]
  BY DEF IInv, VersionInv, SupersAgree
<1>2. sb[d][m] \in S
  OBVIOUS
<1> HIDE DEF S
<1>3. (CHOOSE s \in S : Newest(s)) = sb[d][m]
  BY <1>1, <1>2, Zenon
<1> QED BY <1>3 DEF NewestSuper, S

(* An open program sees a version, which is not the mark of a closed one.  *)
LEMMA WorkingType ==
  ASSUME TypeOK, opened
  PROVE  Working = [t \in ValTree |-> buf[node[t]].val] /\ Working # None
<1>1. \A t \in ValTree : buf[node[t]].val \in Val
  BY Zenon DEF TypeOK, Content, ValTree
<1>2. [t \in ValTree |-> buf[node[t]].val] \in [ValTree -> Val]
  BY <1>1, Zenon
<1> QED BY <1>2, ParamAssumption, Zenon DEF Working, ValTree

(* The version on the device stays while the newest superblock and what it *)
(* leads to do.                                                            *)
LEMMA StableStill ==
  ASSUME IInv, IInv', NEW d \in Dev, NEW m \in Mirror, Newest(sb[d][m]), Newest(sb[d][m])',
         sb'[d][m] = sb[d][m],
         \A t \in ValTree : disk'[AddrOf(disk', sb[d][m], t)].val = disk[AddrOf(disk, sb[d][m], t)].val
  PROVE  Stable' = Stable
<1>1. NewestSuper = sb[d][m]
  BY NewestIsUnique, Zenon
<1>2. NewestSuper' = sb'[d][m]
  <2> DEFINE S == {sb'[e][k] : e \in Dev, k \in Mirror}
  <2>1. \A s \in S : Newest(s)' => s = sb'[d][m]
    BY DEF IInv, VersionInv, SupersAgree
  <2> QED BY <2>1 DEF NewestSuper
<1>3. \A t \in ValTree : disk'[AddrOf(disk', NewestSuper', t)].val = disk[AddrOf(disk, NewestSuper, t)].val
  BY <1>1, <1>2, Zenon
<1> QED BY <1>3, Zenon DEF Stable

(* A step of AtomicCommit, or of nothing it can see.                       *)
AbstractStep ==
  \/ Working = None /\ Working' = Stable /\ Stable' = Stable
  \/ \E t \in ValTree, v \in Val :
       Working # None /\ Working' = [Working EXCEPT ![t] = v] /\ Stable' = Stable
  \/ Working # None /\ Stable' = Working /\ Working' = Working
  \/ Working # None /\ Working' = None /\ Stable' = Stable
  \/ Working' = Working /\ Stable' = Stable

LEMMA AbstractStepIs == AbstractStep => [Abs!Next]_(Abs!vars)
BY Zenon DEF AbstractStep, Stable, Working, Abs!Next, Abs!vars, Abs!OpenFs, Abs!Write, Abs!Commit, Abs!Lose

(* The version on the device stays while nothing is written.               *)
LEMMA StableUnwritten ==
  ASSUME IInv, IInv', UNCHANGED <<disk, sb>>
  PROVE  Stable' = Stable
<1>1. PICK d \in Dev, m \in Mirror : Newest(sb[d][m])
  BY Zenon DEF IInv
<1>2. Newest(sb[d][m])' /\ sb'[d][m] = sb[d][m]
  BY <1>1, Zenon DEF Newest
<1>3. \A t \in ValTree : disk'[AddrOf(disk', sb[d][m], t)].val = disk[AddrOf(disk, sb[d][m], t)].val
  BY Zenon
<1> QED BY <1>1, <1>2, <1>3, StableStill, Zenon

(* A change that leaves the values alone is not seen.                      *)
LEMMA ChangeUnseen ==
  ASSUME IInv, IInv', opened, opened' = opened, trans # None, UNCHANGED <<disk, sb>>,
         NEW t \in Tree, NEW grow \in BOOLEAN,
         NEW drop \in SUBSET buf[node[t]].kids, NEW upd \in [Content -> Content], Harmless(upd),
         NEW dbg \in BOOLEAN, Change(t, grow, drop, upd, dbg),
         t \in ValTree => \A c \in Content : upd[c].val = c.val
  PROVE  Working' = Working /\ Stable' = Stable
<1>1. TypeOK /\ MemShape /\ TypeOK'
  BY Zenon DEF IInv, VersionInv
<1>2. PICK C \in SUBSET Tree, grown \in SUBSET Block :
        /\ Moves(C, t, grown, drop) /\ Buffers(C, t, grown, drop) /\ ItemsKept(t, upd)
        /\ ValuesKept(t, upd) /\ Counts(C, grown, drop, dbg)
  BY <1>1, ChangeEffect, ZenonT(120)
<1>3. \A x \in ValTree : buf'[node'[x]].val = buf[node[x]].val
  BY <1>2, ZenonT(60) DEF ValuesKept, ValTree
<1>4. Working' = Working
  BY <1>3, Zenon DEF Working
<1> QED BY <1>4, StableUnwritten, Zenon

(* Setting the value of a tree is a write to it.                           *)
LEMMA ModifySeen ==
  ASSUME IInv, IInv', NEW t \in UserTree, NEW v \in Val, Modify(t, v)
  PROVE  AbstractStep
<1>1. TypeOK /\ MemShape /\ opened /\ trans # None /\ opened' = opened /\ UNCHANGED <<disk, sb>>
      /\ t \in Tree /\ t \in ValTree /\ bgDirty \in BOOLEAN
  BY ParamAssumption, Zenon DEF IInv, VersionInv, TypeOK, Modify, MayChange, InTrans, UserFrame, fsVars,
     diskVars, ValTree
<1>2. /\ SetVal(v) \in [Content -> Content] /\ Harmless(SetVal(v))
      /\ Change(t, FALSE, {}, SetVal(v), bgDirty) /\ {} \in SUBSET buf[node[t]].kids
  BY <1>1, UpdType, HarmlessUpdates, Zenon DEF Modify
<1>3. PICK C \in SUBSET Tree, grown \in SUBSET Block :
        /\ Moves(C, t, grown, {}) /\ Buffers(C, t, grown, {}) /\ ItemsKept(t, SetVal(v))
        /\ ValuesKept(t, SetVal(v)) /\ Counts(C, grown, {}, bgDirty)
  BY <1>1, <1>2, ChangeEffect, ZenonT(120)
<1>4. \A c \in Content : SetVal(v)[c].val = v
  BY Zenon DEF SetVal, Content
<1>5. \A x \in ValTree : buf'[node'[x]].val = IF x = t THEN v ELSE buf[node[x]].val
  BY <1>3, <1>4, ZenonT(60) DEF ValuesKept, ValTree
<1>6. Working = [x \in ValTree |-> buf[node[x]].val] /\ Working # None
  BY <1>1, WorkingType, Zenon
<1>7. Working' = [x \in ValTree |-> buf'[node'[x]].val]
  BY <1>1, Zenon DEF Working
<1>8. Working' = [Working EXCEPT ![t] = v]
  BY <1>1, <1>5, <1>6, <1>7, Zenon
<1>9. Stable' = Stable
  BY <1>1, StableUnwritten, Zenon
<1> QED BY <1>1, <1>6, <1>8, <1>9, Zenon DEF AbstractStep

(* An open reads the version on the device.                                *)
LEMMA OpenSeen ==
  ASSUME IInv, IInv', NEW d \in Dev, NEW m \in Mirror, Open(d, sb[d][m])
  PROVE  AbstractStep
<1>1. ~opened /\ opened' = TRUE /\ Newest(sb[d][m]) /\ buf' = disk /\ UNCHANGED <<disk, sb>>
      /\ node' = [t \in Tree |-> AddrOf(disk, sb[d][m], t)]
  BY Zenon DEF Open, OpenSuper
<1>2. NewestSuper = sb[d][m]
  BY <1>1, NewestIsUnique, Zenon
<1>3. \A t \in ValTree : buf'[node'[t]].val = disk[AddrOf(disk, NewestSuper, t)].val
  BY <1>1, <1>2, Zenon DEF ValTree
<1>4. Working = None /\ Working' = Stable
  BY <1>1, <1>3, Zenon DEF Working, Stable
<1>5. Stable' = Stable
  BY <1>1, StableUnwritten, Zenon
<1> QED BY <1>4, <1>5, Zenon DEF AbstractStep

(* The write of a tree block is not seen.                                  *)
LEMMA WriteBlockUnseen ==
  ASSUME IInv, IInv', NEW b \in Block, WriteTreeBlock(b)
  PROVE  Working' = Working /\ Stable' = Stable
<1>1. TypeOK /\ opened /\ opened' = opened /\ UNCHANGED <<sb, node>> /\ VersionInv
      /\ buf' = [buf EXCEPT ![b].written = TRUE]
  BY Zenon DEF IInv, VersionInv, WriteTreeBlock, CommitContext, fsVars
<1>2. \A c \in Block : buf'[c].val = buf[c].val
  <2>1. \A c \in Block : c # b => buf'[c] = buf[c]
    BY <1>1, Zenon DEF TypeOK
  <2>2. buf'[b] = [buf[b] EXCEPT !.written = TRUE] /\ buf[b] \in Content
    BY <1>1, Zenon DEF TypeOK
  <2>3. buf'[b].val = buf[b].val
    BY <2>2, Zenon DEF Content
  <2> QED BY <2>1, <2>3, Zenon
<1>3. \A x \in ValTree : node[x] \in Block
  BY <1>1, Zenon DEF TypeOK, ValTree
<1>4. Working' = Working
  BY <1>1, <1>2, <1>3, Zenon DEF Working
<1>5. PICK d \in Dev, m \in Mirror : Newest(sb[d][m])
  BY Zenon DEF IInv
<1>6. Newest(sb[d][m])' /\ sb'[d][m] = sb[d][m]
  BY <1>1, <1>5, Zenon DEF Newest
<1>7. \A x \in Tree : /\ AddrOf(disk', sb[d][m], x) = AddrOf(disk, sb[d][m], x)
                     /\ disk'[AddrOf(disk, sb[d][m], x)] = disk[AddrOf(disk, sb[d][m], x)]
  BY <1>1, <1>5, WriteBlockReach, ZenonT(60)
<1>8. \A t \in ValTree : disk'[AddrOf(disk', sb[d][m], t)].val = disk[AddrOf(disk, sb[d][m], t)].val
  BY <1>7, Zenon DEF ValTree
<1> QED BY <1>4, <1>5, <1>6, <1>8, StableStill, Zenon

(* The write of a superblock copy commits what the program sees.  Each     *)
(* further copy does so again.                                             *)
LEMMA WriteSuperSeen ==
  ASSUME IInv, IInv', NEW d \in Dev, NEW m \in Mirror, WriteSuper(d, m)
  PROVE  AbstractStep
<1>1. VersionInv /\ TypeOK /\ TypeOK' /\ opened /\ opened' /\ pc = "super" /\ UNCHANGED <<disk, node, buf>>
  BY Zenon DEF IInv, VersionInv, WriteSuper, CommitContext, memVars, fsVars
<1>2. sb'[d][m] = NewSuper /\ \A e \in Dev, k \in Mirror : sb'[e][k].gen <= NewSuper.gen
  BY <1>1, WriteSuperNewest, Zenon
<1>3. Newest(sb[d][m])'
  BY <1>2, Zenon DEF Newest
<1>4. NewestSuper' = NewSuper
  <2> DEFINE S == {sb'[e][k] : e \in Dev, k \in Mirror}
  <2>1. \A s \in S : Newest(s)' => s = sb'[d][m]
    BY <1>3 DEF IInv, VersionInv, SupersAgree
  <2> QED BY <1>2, <1>3, <2>1 DEF NewestSuper
<1>5. \A x \in Tree : AddrOf(disk, NewSuper, x) = node[x] /\ disk[node[x]] = buf[node[x]]
  BY <1>1, NewSuperGood, Zenon
<1>6. \A t \in ValTree : disk'[AddrOf(disk', NewestSuper', t)].val = buf[node[t]].val
  BY <1>1, <1>4, <1>5, Zenon DEF ValTree
<1>7. Working = [t \in ValTree |-> buf[node[t]].val] /\ Working # None /\ Working' = Working
  BY <1>1, WorkingType, Zenon DEF Working
<1>8. Stable' = Working
  BY <1>6, <1>7, Zenon DEF Stable
<1> QED BY <1>7, <1>8, Zenon DEF AbstractStep

(* What the actions other than Modify do leaves the values alone.          *)
LEMMA UnseenUpdates ==
  ASSUME TypeOK
  PROVE  /\ \A c \in Content : Nothing[c].val = c.val
         /\ ROOT \notin ValTree /\ EXT \notin ValTree
BY Zenon DEF Nothing, ValTree

(* Every step of the transaction layer is one of AtomicCommit or is not    *)
(* seen there.                                                             *)
LEMMA StepSimulates ==
  ASSUME IInv, IInv', [Next]_vars
  PROVE  AbstractStep
<1> USE DEF fsVars, memVars, diskVars, pcVars
<1>0. TypeOK /\ VersionInv /\ bgDirty \in BOOLEAN /\ bgUsed \in Int /\ UserTree \subseteq Tree
  BY ParamAssumption DEF IInv, VersionInv, TypeOK
<1>a. ASSUME Working' = Working, Stable' = Stable PROVE AbstractStep
  BY <1>a, Zenon DEF AbstractStep
<1>b. ASSUME UNCHANGED <<disk, sb, opened, node, buf>> PROVE AbstractStep
  <2>1. Working' = Working
    BY <1>b, Zenon DEF Working
  <2>2. Stable' = Stable
    BY <1>b, StableUnwritten, Zenon
  <2> QED BY <1>a, <2>1, <2>2, Zenon
<1>1. ASSUME NEW d \in Dev, NEW s \in {sb[d][m] : m \in Mirror}, Open(d, s) PROVE AbstractStep
  BY <1>1, OpenSeen, Zenon
<1>2. ASSUME NEW r \in StartRoot, Start(r) PROVE AbstractStep
  BY <1>2, <1>b, Zenon DEF Start
<1>3. ASSUME NEW t \in UserTree, NEW v \in Val, Modify(t, v) PROVE AbstractStep
  BY <1>3, ModifySeen, Zenon
<1>4. ASSUME NEW t \in UserTree, NEW grow \in BOOLEAN, NEW drop \in SUBSET buf[node[t]].kids,
             MayChange(t), UserFrame, Change(t, grow, drop, Nothing, bgDirty)
      PROVE  AbstractStep
  <2>1. Nothing \in [Content -> Content] /\ Harmless(Nothing) /\ \A c \in Content : Nothing[c].val = c.val
    BY <1>0, UpdType, HarmlessUpdates, UnseenUpdates, Zenon
  <2>2. opened /\ opened' = opened /\ trans # None /\ UNCHANGED <<disk, sb>> /\ t \in Tree
    BY <1>0, <1>4, Zenon DEF MayChange, InTrans, UserFrame
  <2>3. Working' = Working /\ Stable' = Stable
    BY <1>0, <1>4, <2>1, <2>2, ChangeUnseen, ZenonT(120)
  <2> QED BY <1>a, <2>3, Zenon
<1>5. ASSUME NEW t \in UserTree, AddLeaf(t) PROVE AbstractStep
  <2>1. {} \in SUBSET buf[node[t]].kids
    BY Zenon
  <2> QED BY <1>4, <1>5, <2>1, Zenon DEF AddLeaf
<1>6. ASSUME NEW t \in UserTree, NEW b \in Block, DelLeaf(t, b) \/ CowLeaf(t, b) PROVE AbstractStep
  <2>1. {b} \in SUBSET buf[node[t]].kids /\ UserFrame /\ MayChange(t)
    BY <1>6, Zenon DEF DelLeaf, CowLeaf
  <2>2. PICK grow \in BOOLEAN : Change(t, grow, {b}, Nothing, bgDirty)
    BY <1>6, Zenon DEF DelLeaf, CowLeaf
  <2> QED BY <1>4, <2>1, <2>2, Zenon
<1>7. CASE Abort
  BY <1>7, <1>b, Zenon DEF Abort
<1>8. ASSUME NEW t \in {ROOT, EXT}, NEW upd \in [Content -> Content], Harmless(upd), NEW dbg \in BOOLEAN,
             Change(t, FALSE, {}, upd, dbg), CommitFrame, opened, trans # None
      PROVE  AbstractStep
  <2>1. opened' = opened /\ UNCHANGED <<disk, sb>> /\ t \in Tree /\ t \notin ValTree
        /\ {} \in SUBSET buf[node[t]].kids
    BY <1>0, <1>8, TreesExist, UnseenUpdates, Zenon DEF CommitFrame
  <2>2. Working' = Working /\ Stable' = Stable
    BY <1>8, <2>1, ChangeUnseen, ZenonT(120)
  <2> QED BY <1>a, <2>2, Zenon
<1>9. CASE CommitRoot
  <2> DEFINE r == trans.root
  <2>1. opened /\ trans # None /\ CommitFrame /\ r \in Tree
    BY <1>0, <1>9, TransType, ZenonT(60) DEF CommitRoot, InTrans
  <2>2. CASE trans.commitRoot = node[r] \/ r \in {ROOT, CHUNK}
    <3>1. UNCHANGED <<disk, sb, opened, node, buf>>
      BY <1>9, <2>2, ZenonT(60) DEF CommitRoot, CommitFrame
    <3> QED BY <1>b, <3>1, Zenon
  <2>3. CASE ~(trans.commitRoot = node[r] \/ r \in {ROOT, CHUNK})
    <3>1. Change(ROOT, FALSE, {}, SetItem(r), bgDirty)
      BY <1>9, <2>3, Zenon DEF CommitRoot
    <3>2. r \in ItemTree
      BY <2>1, <2>3, Zenon DEF Tree
    <3> HIDE DEF r
    <3>3. SetItem(r) \in [Content -> Content] /\ Harmless(SetItem(r))
      BY <1>0, <2>1, <3>2, UpdType, HarmlessUpdates, Zenon
    <3> QED BY <1>0, <1>8, <2>1, <3>1, <3>3, Zenon
  <2> QED BY <2>2, <2>3, Zenon
<1>10. CASE CommitCowRoot
  <2>1. opened /\ trans # None /\ CommitFrame /\ Change(ROOT, FALSE, {}, Nothing, bgDirty)
    BY <1>0, <1>10, Zenon DEF CommitCowRoot, VersionInv, CommitContext
  <2>2. Nothing \in [Content -> Content] /\ Harmless(Nothing)
    BY <1>0, UpdType, HarmlessUpdates, Zenon
  <2> QED BY <1>0, <1>8, <2>1, <2>2, Zenon
<1>11. ASSUME NEW t \in CowOnly, NextDirtyRoot(t) PROVE AbstractStep
  BY <1>11, <1>b, Zenon DEF NextDirtyRoot, CommitFrame
<1>12. CASE WriteOneCacheGroup
  <2>1. opened /\ trans # None /\ CommitFrame /\ Change(EXT, FALSE, {}, SetUsed(bgUsed), FALSE)
    BY <1>0, <1>12, Zenon DEF WriteOneCacheGroup, VersionInv, CommitContext
  <2>2. SetUsed(bgUsed) \in [Content -> Content] /\ Harmless(SetUsed(bgUsed))
    BY <1>0, UpdType, HarmlessUpdates, ZenonT(60)
  <2> QED BY <1>0, <1>8, <2>1, <2>2, Zenon
<1>13. CASE UpdateCowonlyRoot
  <2>1. opened /\ trans # None /\ cur \in ItemTree /\ CommitFrame
    BY <1>0, <1>13, Zenon DEF UpdateCowonlyRoot, VersionInv, CommitContext, ItemTree
  <2>2. CASE rootItem[cur] = node[cur]
    <3>1. UNCHANGED <<disk, sb, opened, node, buf>>
      BY <1>13, <2>2, ZenonT(60) DEF UpdateCowonlyRoot, CommitFrame
    <3> QED BY <1>b, <3>1, Zenon
  <2>3. CASE rootItem[cur] # node[cur]
    <3>1. Change(ROOT, FALSE, {}, SetItem(cur), bgDirty)
      BY <1>13, <2>3, Zenon DEF UpdateCowonlyRoot
    <3>2. SetItem(cur) \in [Content -> Content] /\ Harmless(SetItem(cur))
      BY <1>0, <2>1, UpdType, HarmlessUpdates, ZenonT(60)
    <3> QED BY <1>0, <1>8, <2>1, <3>1, <3>2, Zenon
  <2> QED BY <2>2, <2>3, Zenon
<1>14. CASE RootsDone \/ BlocksDone \/ FinishCommit \/ UNCHANGED vars
  BY <1>14, <1>b, Zenon DEF RootsDone, BlocksDone, FinishCommit, CommitFrame, vars
<1>15. ASSUME NEW b \in Block, WriteTreeBlock(b) PROVE AbstractStep
  BY <1>15, <1>a, WriteBlockUnseen, Zenon
<1>16. ASSUME NEW d \in Dev, NEW m \in Mirror, WriteSuper(d, m) PROVE AbstractStep
  BY <1>16, WriteSuperSeen, Zenon
<1>17. CASE Close \/ Crash
  <2>1. opened /\ opened' = FALSE /\ UNCHANGED <<disk, sb>>
    BY <1>17, Zenon DEF Close, Crash, Forget
  <2>2. Working # None /\ Working' = None
    BY <1>0, <2>1, WorkingType, Zenon DEF Working
  <2>3. Stable' = Stable
    BY <2>1, StableUnwritten, Zenon
  <2> QED BY <2>2, <2>3, Zenon DEF AbstractStep
<1> QED
  BY <1>1, <1>2, <1>3, <1>5, <1>6, <1>7, <1>9, <1>10, <1>11, <1>12, <1>13, <1>14, <1>15, <1>16,
     <1>17, Zenon DEF Next, CommitStep

(* mkfs leaves the initial version.                                        *)
LEMMA InitSimulates == ASSUME Init PROVE Abs!Init
<1>1. IInv /\ ~opened
  BY InitKeeps, InitAccounts, InitNewest, Zenon DEF IInv, SomeNewest
<1>2. PICK d \in Dev, m \in Mirror : Newest(sb[d][m])
  BY <1>1, Zenon DEF IInv
<1>3. NewestSuper = MkfsSuper
  BY <1>1, <1>2, NewestIsUnique, MkfsLayout
<1>4. \A t \in ValTree : disk[AddrOf(disk, NewestSuper, t)].val = Val0
  <2> TAKE t \in ValTree
  <2>1. t \in Tree
    BY Zenon DEF ValTree
  <2>2. AddrOf(disk, NewestSuper, t) = InitNode[t] /\ disk[InitNode[t]] = MkfsContent(t)
    BY <1>3, <2>1, MkfsLayout, Zenon
  <2>3. MkfsContent(t).val = Val0
    BY <2>1, MkfsFields, Zenon
  <2> QED BY <2>2, <2>3, Zenon
<1>5. Stable = [t \in ValTree |-> Val0] /\ Working = None
  BY <1>1, <1>4, Zenon DEF Stable, Working
<1> QED BY <1>5, Zenon DEF Abs!Init, Stable, Working

(* The transaction layer implements AtomicCommit for every set of trees,   *)
(* devices, superblock copies and blocks: whatever the program, the order  *)
(* of the writes and the crashes, what an open finds is the version of the *)
(* last commit whose first superblock copy was written, whole              *)
(* (btrfs_commit_transaction, write_ctree_super, __open_ctree_fd).         *)
THEOREM CommitIsAtomic == Spec => ImplementsAtomicCommit
<1>1. Init => Abs!Init
  BY InitSimulates, Zenon
<1>2. IInv /\ IInv' /\ [Next]_vars => [Abs!Next]_(Abs!vars)
  BY StepSimulates, AbstractStepIs, Zenon
<1> QED BY <1>1, <1>2, Invariance, PTL DEF Spec, ImplementsAtomicCommit
=============================================================================
