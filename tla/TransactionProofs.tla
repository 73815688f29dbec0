------------------------- MODULE TransactionProofs -------------------------
(***************************************************************************)
(* Theorems about Transaction, for every number of trees, blocks, devices  *)
(* and superblock copies.                                                  *)
(***************************************************************************)
EXTENDS Transaction, FiniteSetTheorems, TLAPS

(* The trees are finitely many, so Cardinality(Tree) is a number.          *)
LEMMA TreeNat == Cardinality(Tree) \in Nat
BY TreeAssumption, FS_CardinalityType, Zenon

(* Sets of blocks are finite.                                              *)
LEMMA BlocksNat == \A S \in SUBSET Block : IsFiniteSet(S) /\ Cardinality(S) \in Nat
BY BlockAssumption, FS_Subset, FS_CardinalityType, ZenonT(60)

(* An unused block has the type of a block.                                *)
LEMMA BlankType == ASSUME NEW t \in Tree PROVE Blank(t) \in Content
<1>1. \A i \in ItemTree : InitNode[i] \in Block
  BY BlockAssumption, Zenon DEF Tree
<1>2. NoItems \in RootItems
  BY <1>1, Zenon DEF NoItems, RootItems, RootItem
<1> QED BY <1>2, ParamAssumption DEF Blank, Content

(* Editing a field of a block keeps its type.                              *)
LEMMA ContentEdit ==
  ASSUME NEW c \in Content, NEW g \in Nat, NEW r \in RootItems, NEW y \in SUBSET Block, NEW n \in Int
  PROVE  [c EXCEPT !.gen = g, !.roots = r, !.items = y, !.used = n] \in Content
BY ZenonT(60) DEF Content

(* What mkfs writes has the type of a block.                               *)
LEMMA MkfsType == ASSUME NEW t \in Tree PROVE MkfsContent(t) \in Content
<1>1. \A i \in ItemTree : InitNode[i] \in Block
  BY BlockAssumption, Zenon DEF Tree
<1>2. [i \in ItemTree |-> [bytenr |-> InitNode[i], gen |-> 1]] \in RootItems
  BY <1>1, Zenon DEF RootItem, RootItems
<1>3. {InitNode[i] : i \in Tree} \in SUBSET Block
  BY BlockAssumption, Zenon
<1>4. NoItems \in RootItems
  BY <1>1, Zenon DEF NoItems, RootItems, RootItem
<1> DEFINE r == [i \in ItemTree |-> [bytenr |-> InitNode[i], gen |-> 1]]
<1> HIDE DEF r
<1>5. \A x \in RootItems, y \in SUBSET Block, n \in Int :
        [Blank(t) EXCEPT !.gen = 1, !.roots = x, !.items = y, !.used = n] \in Content
  BY BlankType, ContentEdit, ZenonT(60)
<1>6. (IF t = ROOT THEN r ELSE NoItems) \in RootItems
  BY <1>2, <1>4, Zenon DEF r
<1>7. (IF t = EXT THEN {InitNode[i] : i \in Tree} ELSE {}) \in SUBSET Block
  BY <1>3, Zenon
<1>8. (IF t = EXT THEN Cardinality(Tree) ELSE 0) \in Int
  BY TreeNat
<1> QED BY <1>5, <1>6, <1>7, <1>8, Zenon DEF MkfsContent, r

(* mkfs leaves a well-typed filesystem.                                    *)
LEMMA InitType == Init => TypeOK
<1> SUFFICES ASSUME Init PROVE TypeOK
  BY Zenon
<1>0. CHUNK \in Tree /\ ROOT \in Tree /\ EXT \in Tree
  BY Zenon DEF Tree, ItemTree, CowOnly
<1>1. disk \in [Block -> Content]
  BY <1>0, BlankType, MkfsType, Zenon DEF Init
<1>2. sb \in [Dev -> [Mirror -> Super]]
  BY <1>0, BlockAssumption, TreeNat DEF Init, MkfsSuper, Super
<1>3. \A i \in ItemTree : InitNode[i] \in Block
  BY BlockAssumption, Zenon DEF Tree
<1>4. buf \in [Block -> Content]
  BY <1>0, BlankType, Zenon DEF Init, Closed
<1>5. /\ generation \in Nat /\ lastTrans \in Nat /\ crashes \in Nat /\ bgUsed \in Int
  BY DEF Init, Closed
<1>6. rootItem \in [ItemTree -> Block] /\ node \in [Tree -> Block]
  BY <1>3, BlockAssumption, Zenon DEF Init, Closed
<1> QED
  BY <1>1, <1>2, <1>4, <1>5, <1>6, Zenon DEF Init, Closed, TypeOK

(* The trees with names of their own are trees.                            *)
LEMMA TreesExist == CHUNK \in Tree /\ ROOT \in Tree /\ EXT \in Tree /\ ItemTree \subseteq Tree
BY Zenon DEF Tree, ItemTree, CowOnly

(* A running transaction is a record with these fields.                    *)
LEMMA TransType ==
  ASSUME TypeOK, trans # None
  PROVE  trans.transid \in Nat /\ trans.root \in Tree /\ trans.commitRoot \in Block
BY Zenon DEF TypeOK

(* A copy of a block is a block.                                           *)
LEMMA CowCopyType ==
  ASSUME TypeOK, trans # None, NEW c \in Content
  PROVE  CowCopy(c) \in Content
BY TransType, ZenonT(60) DEF CowCopy, Content

(* A new leaf is a block.                                                  *)
LEMMA NewLeafType ==
  ASSUME TypeOK, trans # None, NEW t \in Tree
  PROVE  NewLeaf(t) \in Content
BY CowCopyType, BlankType, Zenon DEF NewLeaf

(* Setting the extent items keeps the type of a block.                     *)
LEMMA ItemsType ==
  ASSUME NEW c \in Content, NEW S \in SUBSET Block
  PROVE  [c EXCEPT !.items = S] \in Content /\ [c EXCEPT !.kids = S] \in Content
BY Zenon DEF Content

(* Only the changed tree and the extent tree are copied.                   *)
LEMMA CowSetType ==
  ASSUME NEW t \in Tree, NEW moves \in BOOLEAN
  PROVE  CowSet(t, moves) \subseteq {t, EXT} /\ CowSet(t, moves) \subseteq Tree
BY TreesExist, Zenon DEF CowSet

(* What a change to a tree writes into memory is well typed.               *)
ChangedType ==
  /\ node' \in [Tree -> Block] /\ buf' \in [Block -> Content]
  /\ dirty' \subseteq Block /\ pinned' \subseteq Block /\ free' \subseteq Block
  /\ dirtyRoots' \subseteq CowOnly /\ bgUsed' \in Int /\ bgDirty' \in BOOLEAN

(* What a change to a tree writes into memory is well typed.               *)
LEMMA ChangeType ==
  ASSUME TypeOK, trans # None, NEW t \in Tree, NEW grow \in BOOLEAN, NEW drop \in SUBSET Block,
         NEW upd \in [Content -> Content], NEW dbg \in BOOLEAN, Change(t, grow, drop, upd, dbg)
  PROVE  ChangedType
<1> DEFINE C == CowSet(t, grow \/ drop # {})
           leaf == {x \in {None} : grow}
<1>a. PICK new \in Allocs(C \cup leaf) : CowTo(new, C, t, leaf, drop, upd, dbg)
  BY ZenonT(60) DEF Change
<1>b. C \in SUBSET Tree /\ leaf \in SUBSET {None}
  BY CowSetType, ZenonT(60)
<1> HIDE DEF C, leaf
<1> DEFINE freed == {node[x] : x \in C} \cup drop
           added == {new[x] : x \in C \cup leaf}
           grown == {new[x] : x \in leaf}
           at == [x \in Tree |-> IF x \in C THEN new[x] ELSE node[x]]
           copy == [x \in Tree |-> IF x \in C THEN CowCopy(buf[node[x]]) ELSE buf[node[x]]]
           account == [copy EXCEPT ![EXT].items = (@ \cup added) \ freed]
           final == [account EXCEPT ![t] = Relink(upd[@], drop, grown)]
<1>1. new \in [C \cup leaf -> Block]
  BY <1>a, Zenon DEF Allocs, TypeOK
<1>2. freed \in SUBSET Block /\ added \in SUBSET Block /\ grown \in SUBSET Block
  BY <1>1, <1>b DEF TypeOK
<1>3. at \in [Tree -> Block]
  BY <1>1, Zenon DEF TypeOK
<1>4. copy \in [Tree -> Content]
  BY CowCopyType, Zenon DEF TypeOK
<1>5. account \in [Tree -> Content]
  <2> HIDE DEF copy, freed, added
  <2>1. copy[EXT].items \in SUBSET Block
    BY <1>4, TreesExist, Zenon DEF Content
  <2>2. [copy[EXT] EXCEPT !.items = (@ \cup added) \ freed] \in Content
    BY <1>2, <1>4, <2>1, TreesExist, ItemsType, ZenonT(60)
  <2> QED BY <1>4, <2>2, ZenonT(60)
<1>6. final \in [Tree -> Content]
  <2> HIDE DEF account, grown
  <2>1. upd[account[t]] \in Content
    BY <1>5, Zenon
  <2>2. upd[account[t]].kids \in SUBSET Block
    BY <2>1, Zenon DEF Content
  <2>3. Relink(upd[account[t]], drop, grown) \in Content
    BY <1>2, <2>1, <2>2, ItemsType, ZenonT(60) DEF Relink
  <2> QED BY <1>5, <2>3, Zenon
<1>7. node' = at /\ dirty' = (dirty \ freed) \cup added \cup {at[t]}
  BY <1>a, ZenonT(60) DEF CowTo
<1>8. buf' = [b \in Block |->
                  IF b = at[t] THEN final[t]
                  ELSE IF b = at[EXT] THEN final[EXT]
                  ELSE IF b \in grown THEN NewLeaf(t) ELSE buf[b]]
  BY <1>a, ZenonT(60) DEF CowTo
<1>9. /\ dirtyRoots' = dirtyRoots \cup (C \cap CowOnly)
      /\ pinned' = pinned \cup PinDown(freed)
      /\ free' = (free \ added) \cup (freed \ PinDown(freed))
      /\ bgUsed' = bgUsed + Cardinality(added) - Cardinality(freed)
      /\ bgDirty' = Dirtied(dbg, added \cup freed)
  BY <1>a, ZenonT(60) DEF CowTo
<1> HIDE DEF freed, added, grown, at, copy, account, final
<1>10. PinDown(freed) \subseteq freed
  BY Zenon DEF PinDown
<1>11. buf' \in [Block -> Content]
  BY <1>6, <1>8, NewLeafType, TreesExist, Zenon DEF TypeOK
<1>12. bgUsed' \in Int
  BY <1>2, <1>9, BlocksNat DEF TypeOK
<1>13. bgDirty' \in BOOLEAN
  BY <1>9, Zenon DEF Dirtied
<1>14. dirty' \subseteq Block /\ node' \in [Tree -> Block]
  BY <1>2, <1>3, <1>7, Zenon DEF TypeOK
<1>15. pinned' \subseteq Block /\ free' \subseteq Block /\ dirtyRoots' \subseteq CowOnly
  BY <1>2, <1>9, <1>10, Zenon DEF TypeOK
<1> QED BY <1>11, <1>12, <1>13, <1>14, <1>15, Zenon DEF ChangedType

(* What is done to a copied root node keeps its type.                      *)
LEMMA UpdType ==
  ASSUME TypeOK
  PROVE  /\ Nothing \in [Content -> Content]
         /\ \A v \in Val : SetVal(v) \in [Content -> Content]
         /\ \A n \in Int : SetUsed(n) \in [Content -> Content]
         /\ trans # None => \A t \in ItemTree : SetItem(t) \in [Content -> Content]
<1>1. Nothing \in [Content -> Content]
  BY Zenon DEF Nothing
<1>2. ASSUME NEW v \in Val PROVE SetVal(v) \in [Content -> Content]
  <2>1. \A c \in Content : [c EXCEPT !.val = v] \in Content
    BY Zenon DEF Content
  <2> QED BY <2>1, Zenon DEF SetVal
<1>3. ASSUME NEW n \in Int PROVE SetUsed(n) \in [Content -> Content]
  <2>1. \A c \in Content : [c EXCEPT !.used = n] \in Content
    BY Zenon DEF Content
  <2> QED BY <2>1, Zenon DEF SetUsed
<1>4. ASSUME trans # None, NEW t \in ItemTree PROVE SetItem(t) \in [Content -> Content]
  <2> DEFINE i == [bytenr |-> node[t], gen |-> trans.transid]
  <2>1. i \in RootItem
    BY <1>4, TransType, TreesExist, Zenon DEF RootItem, TypeOK
  <2> HIDE DEF i
  <2>2. ASSUME NEW c \in Content PROVE [c EXCEPT !.roots[t] = i] \in Content
    <3>1. c.roots \in RootItems
      BY Zenon DEF Content
    <3>2. [c.roots EXCEPT ![t] = i] \in RootItems
      BY <2>1, <3>1, Zenon DEF RootItems
    <3> QED BY <3>2, Zenon DEF Content
  <2> QED BY <2>2, Zenon DEF SetItem, i
<1> QED BY <1>1, <1>2, <1>3, <1>4, Zenon

TypeInv == TypeOK /\ CommitContext

(* Every step keeps the state well typed.                                  *)
LEMMA NextType == TypeInv /\ [Next]_vars => TypeOK'
<1> SUFFICES ASSUME TypeOK, CommitContext, [Next]_vars PROVE TypeOK'
  BY Zenon DEF TypeInv
<1> USE DEF fsVars, memVars, diskVars, pcVars
<1>1. ASSUME NEW d \in Dev, NEW s \in {sb[d][m] : m \in Mirror}, Open(d, s) PROVE TypeOK'
  <2>1. s \in Super
    BY DEF TypeOK
  <2>2. \A t \in Tree : AddrOf(disk, s, t) \in Block
    BY <2>1, TreesExist DEF AddrOf, TypeOK, Super, Content, RootItems, RootItem, Tree
  <2>3. [t \in Tree |-> AddrOf(disk, s, t)] \in [Tree -> Block]
    BY <2>2, Zenon
  <2>4. node' \in [Tree -> Block]
    BY <1>1, <2>3, Zenon DEF Open
  <2>5. rootItem' = [t \in ItemTree |-> node'[t]] /\ bgUsed' = disk[node'[EXT]].used
    BY <1>1 DEF Open
  <2>6. rootItem' \in [ItemTree -> Block] /\ bgUsed' \in Int
    BY <2>4, <2>5, TreesExist, Zenon DEF TypeOK, Content
  <2>7. free' \subseteq Block
    BY <1>1, Zenon DEF Open
  <2>8. generation' \in Nat /\ lastTrans' \in Nat
    BY <1>1, <2>1, Zenon DEF Open, Super
  <2> QED BY <1>1, <2>4, <2>6, <2>7, <2>8, ZenonT(60) DEF Open, TypeOK
<1>2. ASSUME NEW r \in StartRoot, Start(r) PROVE TypeOK'
  <2>1. trans' \in [transid : Nat, root : Tree, commitRoot : Block] /\ generation' \in Nat
    BY <1>2, ParamAssumption DEF Start, TypeOK
  <2> QED BY <1>2, <2>1, Zenon DEF Start, TypeOK
<1>3. ASSUME NEW t \in UserTree, NEW v \in Val, Modify(t, v) PROVE TypeOK'
  <2>1. Change(t, FALSE, {}, SetVal(v), bgDirty) /\ t \in Tree /\ trans # None
    BY <1>3, ParamAssumption, ZenonT(60) DEF Modify, MayChange, InTrans
  <2>2. bgDirty \in BOOLEAN
    BY Zenon DEF TypeOK
  <2>3. SetVal(v) \in [Content -> Content]
    BY UpdType, Zenon
  <2>4. ChangedType
    BY <2>1, <2>2, <2>3, ChangeType, Zenon
  <2> QED BY <1>3, <2>4, Zenon DEF Modify, UserFrame, TypeOK, ChangedType
<1>4. ASSUME NEW t \in UserTree, AddLeaf(t) PROVE TypeOK'
  <2>1. Change(t, TRUE, {}, Nothing, bgDirty) /\ t \in Tree /\ trans # None
    BY <1>4, ParamAssumption, ZenonT(60) DEF AddLeaf, MayChange, InTrans
  <2>2. bgDirty \in BOOLEAN
    BY Zenon DEF TypeOK
  <2>3. Nothing \in [Content -> Content]
    BY UpdType, Zenon
  <2>4. ChangedType
    BY <2>1, <2>2, <2>3, ChangeType, Zenon
  <2> QED BY <1>4, <2>4, Zenon DEF AddLeaf, UserFrame, TypeOK, ChangedType
<1>5. ASSUME NEW t \in UserTree, NEW b \in Block, DelLeaf(t, b) PROVE TypeOK'
  <2>1. Change(t, FALSE, {b}, Nothing, bgDirty) /\ t \in Tree /\ trans # None
    BY <1>5, ParamAssumption, ZenonT(60) DEF DelLeaf, MayChange, InTrans
  <2>2. bgDirty \in BOOLEAN
    BY Zenon DEF TypeOK
  <2>3. Nothing \in [Content -> Content]
    BY UpdType, Zenon
  <2>4. ChangedType
    BY <2>1, <2>2, <2>3, ChangeType, Zenon
  <2> QED BY <1>5, <2>4, Zenon DEF DelLeaf, UserFrame, TypeOK, ChangedType
<1>6. ASSUME NEW t \in UserTree, NEW b \in Block, CowLeaf(t, b) PROVE TypeOK'
  <2>1. Change(t, TRUE, {b}, Nothing, bgDirty) /\ t \in Tree /\ trans # None
    BY <1>6, ParamAssumption, ZenonT(60) DEF CowLeaf, MayChange, InTrans
  <2>2. bgDirty \in BOOLEAN
    BY Zenon DEF TypeOK
  <2>3. Nothing \in [Content -> Content]
    BY UpdType, Zenon
  <2>4. ChangedType
    BY <2>1, <2>2, <2>3, ChangeType, Zenon
  <2> QED BY <1>6, <2>4, Zenon DEF CowLeaf, UserFrame, TypeOK, ChangedType
<1>7. CASE Abort
  BY <1>7, Zenon DEF Abort, TypeOK
<1>8. CASE CommitRoot
  <2>1. CASE trans.commitRoot = node[trans.root] \/ trans.root \in {ROOT, CHUNK}
    BY <1>8, <2>1, ZenonT(60) DEF CommitRoot, CommitFrame, TypeOK
  <2>2. CASE ~(trans.commitRoot = node[trans.root] \/ trans.root \in {ROOT, CHUNK})
    <3>1. Change(ROOT, FALSE, {}, SetItem(trans.root), bgDirty) /\ trans # None
      BY <1>8, <2>2, ZenonT(60) DEF CommitRoot, InTrans
    <3>2. trans.root \in ItemTree
      BY <2>2, <3>1, TransType, Zenon DEF Tree
    <3>3. SetItem(trans.root) \in [Content -> Content] /\ bgDirty \in BOOLEAN
      BY <3>1, <3>2, UpdType, Zenon DEF TypeOK
    <3>4. ChangedType
      BY <3>1, <3>3, TreesExist, ChangeType, ZenonT(60)
    <3>5. rootItem' \in [ItemTree -> Block]
      BY <1>8, <2>2, <3>2, TreesExist, Zenon DEF CommitRoot, TypeOK
    <3> QED BY <1>8, <3>4, <3>5, Zenon DEF CommitRoot, CommitFrame, TypeOK, ChangedType
  <2> QED BY <2>1, <2>2, Zenon
<1>9. CASE CommitCowRoot
  <2>1. Change(ROOT, FALSE, {}, Nothing, bgDirty) /\ trans # None /\ bgDirty \in BOOLEAN
    BY <1>9, ZenonT(60) DEF CommitCowRoot, CommitContext, TypeOK
  <2>2. ChangedType
    BY <2>1, UpdType, TreesExist, ChangeType, Zenon
  <2> QED BY <1>9, <2>2, Zenon DEF CommitCowRoot, CommitFrame, TypeOK, ChangedType
<1>10. ASSUME NEW t \in CowOnly, NextDirtyRoot(t) PROVE TypeOK'
  BY <1>10, Zenon DEF NextDirtyRoot, CommitFrame, TypeOK
<1>11. CASE WriteOneCacheGroup
  <2>1. Change(EXT, FALSE, {}, SetUsed(bgUsed), FALSE) /\ trans # None
    BY <1>11, ZenonT(60) DEF WriteOneCacheGroup, CommitContext
  <2>2. SetUsed(bgUsed) \in [Content -> Content]
    BY UpdType, Zenon DEF TypeOK
  <2>3. ChangedType
    BY <2>1, <2>2, TreesExist, ChangeType, Zenon
  <2> QED BY <1>11, <2>3, Zenon DEF WriteOneCacheGroup, CommitFrame, TypeOK, ChangedType
<1>12. CASE UpdateCowonlyRoot
  <2>1. CASE rootItem[cur] = node[cur]
    BY <1>12, <2>1, Zenon DEF UpdateCowonlyRoot, CommitFrame, TypeOK
  <2>2. CASE rootItem[cur] # node[cur]
    <3>1. Change(ROOT, FALSE, {}, SetItem(cur), bgDirty) /\ trans # None /\ cur \in ItemTree
      BY <1>12, <2>2, ZenonT(60) DEF UpdateCowonlyRoot, CommitContext, ItemTree
    <3>2. SetItem(cur) \in [Content -> Content] /\ bgDirty \in BOOLEAN
      BY <3>1, UpdType, Zenon DEF TypeOK
    <3>3. ChangedType
      BY <3>1, <3>2, TreesExist, ChangeType, Zenon
    <3>4. rootItem' \in [ItemTree -> Block]
      BY <1>12, <2>2, <3>1, TreesExist, Zenon DEF UpdateCowonlyRoot, TypeOK
    <3> QED BY <1>12, <2>2, <3>3, <3>4, Zenon DEF UpdateCowonlyRoot, CommitFrame, TypeOK, ChangedType
  <2> QED BY <2>1, <2>2, Zenon
<1>13. CASE RootsDone
  BY <1>13, Zenon DEF RootsDone, CommitFrame, TypeOK
<1>14. ASSUME NEW b \in Block, WriteTreeBlock(b) PROVE TypeOK'
  <2>1. \A c \in Content : [c EXCEPT !.written = TRUE] \in Content
    BY ZenonT(60) DEF Content
  <2>2. buf' \in [Block -> Content]
    BY <1>14, <2>1, Zenon DEF WriteTreeBlock, TypeOK
  <2>3. disk' \in [Block -> Content]
    BY <1>14, <2>2, Zenon DEF WriteTreeBlock, TypeOK
  <2> QED BY <1>14, <2>2, <2>3, Zenon DEF WriteTreeBlock, TypeOK
<1>15. CASE BlocksDone
  BY <1>15, Zenon DEF BlocksDone, TypeOK
<1>16. ASSUME NEW d \in Dev, NEW m \in Mirror, WriteSuper(d, m) PROVE TypeOK'
  <2>1. trans # None
    BY <1>16, Zenon DEF WriteSuper, CommitContext
  <2>2. NewSuper \in Super
    <3>1. trans.transid \in Nat /\ node[ROOT] \in Block /\ node[CHUNK] \in Block /\ bgUsed \in Int
      BY <2>1, TransType, TreesExist, Zenon DEF TypeOK
    <3> QED BY <3>1, Zenon DEF NewSuper, Super
  <2>3. sb' \in [Dev -> [Mirror -> Super]]
    <3>1. sb \in [Dev -> [Mirror -> Super]]
      BY Zenon DEF TypeOK
    <3>2. sb' = [sb EXCEPT ![d][m] = NewSuper]
      BY <1>16, Zenon DEF WriteSuper
    <3> QED BY <2>2, <3>1, <3>2, Zenon
  <2> QED BY <1>16, <2>3, Zenon DEF WriteSuper, TypeOK
<1>17. CASE FinishCommit
  <2>1. trans # None
    BY <1>17, Zenon DEF FinishCommit, CommitContext
  <2> QED BY <1>17, <2>1, TransType, Zenon DEF FinishCommit, Unpin, EndTransaction, TypeOK
<1>18. ASSUME Forget, crashes' \in Nat PROVE TypeOK'
  <2>1. \A i \in ItemTree : InitNode[i] \in Block
    BY BlockAssumption, Zenon DEF Tree
  <2>2. buf' \in [Block -> Content] /\ node' \in [Tree -> Block] /\ rootItem' \in [ItemTree -> Block]
    BY <1>18, <2>1, BlankType, TreesExist, BlockAssumption, Zenon DEF Forget
  <2>3. generation' \in Nat /\ lastTrans' \in Nat /\ bgUsed' \in Int
    BY <1>18 DEF Forget
  <2> QED BY <1>18, <2>2, <2>3, Zenon DEF Forget, TypeOK
<1>19. CASE Close
  BY <1>18, <1>19, Zenon DEF Close, TypeOK
<1>20. CASE Crash
  BY <1>18, <1>20 DEF Crash, TypeOK
<1>21. CASE UNCHANGED vars
  BY <1>21, Zenon DEF vars, TypeOK
<1> QED
  BY <1>1, <1>2, <1>3, <1>4, <1>5, <1>6, <1>7, <1>8, <1>9, <1>10, <1>11, <1>12, <1>13, <1>14,
     <1>15, <1>16, <1>17, <1>19, <1>20, <1>21, Zenon DEF Next, CommitStep

(* Every step keeps the commit inside a transaction.                       *)
LEMMA NextContext == TypeInv /\ [Next]_vars => CommitContext'
<1> SUFFICES ASSUME TypeOK, CommitContext, [Next]_vars PROVE CommitContext'
  BY Zenon DEF TypeInv
<1> USE DEF fsVars, memVars, diskVars, pcVars
<1>1. ASSUME UserFrame, MayChange(CHUNK) \/ InTrans PROVE CommitContext'
  BY <1>1, Zenon DEF UserFrame, MayChange, InTrans, CommitContext
<1>2. ASSUME NEW d, NEW s, Open(d, s) PROVE CommitContext'
  BY <1>2, Zenon DEF Open, CommitContext
<1>3. ASSUME NEW r, Start(r) PROVE CommitContext'
  BY <1>3, Zenon DEF Start, CommitContext
<1>4. ASSUME NEW t, NEW b,
             Modify(t, b) \/ AddLeaf(t) \/ DelLeaf(t, b) \/ CowLeaf(t, b) PROVE CommitContext'
  BY <1>1, <1>4, ZenonT(60) DEF Modify, AddLeaf, DelLeaf, CowLeaf, MayChange
<1>5. CASE Abort \/ CommitRoot
  BY <1>5, ZenonT(60) DEF Abort, CommitRoot, CommitFrame, InTrans, CommitContext
<1>6. CASE CommitCowRoot \/ WriteOneCacheGroup \/ UpdateCowonlyRoot \/ RootsDone
  BY <1>6, ZenonT(60) DEF CommitCowRoot, WriteOneCacheGroup, UpdateCowonlyRoot, RootsDone, CommitFrame,
              CommitContext
<1>7. ASSUME NEW t \in CowOnly, NextDirtyRoot(t) PROVE CommitContext'
  BY <1>7, Zenon DEF NextDirtyRoot, CommitFrame, CommitContext
<1>8. ASSUME NEW b, WriteTreeBlock(b) PROVE CommitContext'
  BY <1>8, Zenon DEF WriteTreeBlock, CommitContext
<1>9. ASSUME NEW d, NEW m, WriteSuper(d, m) PROVE CommitContext'
  BY <1>9, Zenon DEF WriteSuper, CommitContext
<1>10. CASE BlocksDone \/ FinishCommit
  BY <1>10, Zenon DEF BlocksDone, FinishCommit, EndTransaction, CommitContext
<1>11. CASE Close \/ Crash
  BY <1>11, Zenon DEF Close, Crash, Forget, CommitContext
<1>12. CASE UNCHANGED vars
  BY <1>12, Zenon DEF vars, CommitContext
<1> QED
  BY <1>2, <1>3, <1>4, <1>5, <1>6, <1>7, <1>8, <1>9, <1>10, <1>11, <1>12, Zenon DEF Next, CommitStep

(* Types and context together are inductive.                               *)
LEMMA TypeInvariant == Spec => []TypeInv
<1>1. Init => TypeInv
  BY InitType, Zenon DEF Init, Closed, TypeInv, CommitContext
<1>2. TypeInv /\ [Next]_vars => TypeInv'
  BY NextType, NextContext, Zenon DEF TypeInv
<1> QED BY <1>1, <1>2, PTL DEF Spec

(* In every reachable state of every instance the library's structures     *)
(* hold what their types say; in particular transaction->commit_root is    *)
(* a block from btrfs_start_transaction to the end of the commit.          *)
THEOREM TypeCorrect == Spec => []TypeOK
<1>1. TypeInv => TypeOK
  BY Zenon DEF TypeInv
<1> QED BY <1>1, TypeInvariant, PTL
=============================================================================
