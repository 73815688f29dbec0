---------------------------- MODULE CommitProofs ----------------------------
(***************************************************************************)
(* The committed version survives every step of every transaction: the     *)
(* invariant VersionInv of Transaction, and what follows from it.          *)
(***************************************************************************)
EXTENDS TransactionProofs

(* What is done to a copied root node leaves its header, the leaves below  *)
(* it and the extent items alone.                                          *)
Harmless(upd) ==
  \A c \in Content :
    /\ upd[c].tree = c.tree /\ upd[c].gen = c.gen
    /\ upd[c].kids = c.kids /\ upd[c].items = c.items

(* The effect of a change to t on memory, in terms of the trees C whose    *)
(* root nodes were copied and of the leaves grown below t.                 *)
Freed(C, drop) == {node[x] : x \in C} \cup drop
Added(C, grown) == {node'[x] : x \in C} \cup grown

Moves(C, t, grown, drop) ==
  /\ C \subseteq {t, EXT} /\ grown \subseteq Block
  /\ ~Fresh(node[t]) => t \in C
  /\ \A x \in C : ~Fresh(node[x])
  /\ \A x \in Tree \ C : node'[x] = node[x]
  /\ Added(C, grown) \subseteq free \ pinned
  /\ \A x \in C : node'[x] \notin grown
  /\ \A x, y \in C : node'[x] = node'[y] => x = y
  /\ dirty' = (dirty \ Freed(C, drop)) \cup Added(C, grown) \cup {node'[t]}
  /\ dirtyRoots' = dirtyRoots \cup (C \cap CowOnly)
  /\ pinned' = pinned \cup {b \in Freed(C, drop) : ~Fresh(b)}
  /\ free' = (free \ Added(C, grown)) \cup {b \in Freed(C, drop) : Fresh(b)}

Buffers(C, t, grown, drop) ==
  /\ \A x \in Tree :
       /\ buf'[node'[x]].tree = buf[node[x]].tree
       /\ buf'[node'[x]].gen = IF x \in C THEN trans.transid ELSE buf[node[x]].gen
       /\ buf'[node'[x]].kids = IF x = t THEN (buf[node[x]].kids \ drop) \cup grown
                                         ELSE buf[node[x]].kids
  /\ buf'[node'[EXT]].items = (buf[node[EXT]].items \cup Added(C, grown)) \ Freed(C, drop)
  /\ \A b \in grown : buf'[b].tree = t /\ buf'[b].gen = trans.transid
  /\ \A b \in Block \ Added(C, grown) :
       ~Fresh(b) \/ b \notin {node[t], node[EXT]} => buf'[b] = buf[b]

(* Setting the extent items of a block leaves the rest of it alone.        *)
LEMMA ContentFields ==
  ASSUME NEW c \in Content
  PROVE  /\ \A S : [c EXCEPT !.items = S].items = S
         /\ \A S : /\ [c EXCEPT !.items = S].tree = c.tree
                   /\ [c EXCEPT !.items = S].gen = c.gen
                   /\ [c EXCEPT !.items = S].kids = c.kids
                   /\ [c EXCEPT !.items = S].roots = c.roots
                   /\ [c EXCEPT !.items = S].used = c.used
                   /\ [c EXCEPT !.items = S].val = c.val
         /\ [c EXCEPT !.items = c.items] = c
BY Zenon DEF Content

(* Relink changes the leaves below a node and nothing else.                *)
LEMMA RelinkFields ==
  ASSUME NEW c \in Content, NEW drop, NEW grown
  PROVE  /\ Relink(c, drop, grown).tree = c.tree /\ Relink(c, drop, grown).gen = c.gen
         /\ Relink(c, drop, grown).kids = (c.kids \ drop) \cup grown
         /\ Relink(c, drop, grown).items = c.items /\ Relink(c, drop, grown).roots = c.roots
         /\ Relink(c, drop, grown).used = c.used /\ Relink(c, drop, grown).val = c.val
BY Zenon DEF Content, Relink

(* A copy of a block differs from it in generation and WRITTEN flag.       *)
LEMMA CowCopyFields ==
  ASSUME NEW c \in Content
  PROVE  /\ CowCopy(c).tree = c.tree /\ CowCopy(c).gen = trans.transid
         /\ CowCopy(c).kids = c.kids /\ CowCopy(c).items = c.items /\ CowCopy(c).roots = c.roots
         /\ CowCopy(c).used = c.used /\ CowCopy(c).val = c.val
BY Zenon DEF Content, CowCopy

(* A new leaf belongs to its tree and to the running transaction.          *)
LEMMA NewLeafFields ==
  ASSUME NEW t \in Tree
  PROVE  NewLeaf(t).tree = t /\ NewLeaf(t).gen = trans.transid
<1>1. Blank(t).tree = t
  BY Zenon DEF Blank
<1> QED BY <1>1, BlankType, CowCopyFields, Zenon DEF NewLeaf

(* The root items after a change: upd's doing when the root tree itself    *)
(* changed, the old ones otherwise.                                        *)
ItemsKept(t, upd) ==
  /\ t # ROOT => buf'[node'[ROOT]].roots = buf[node[ROOT]].roots
  /\ t = ROOT => \E c \in Content : /\ c.roots = buf[node[ROOT]].roots
                                    /\ buf'[node'[ROOT]].roots = upd[c].roots

(* The values and the block group item after a change: upd's doing in the  *)
(* root node of t, the old ones in the others.                             *)
ValuesKept(t, upd) ==
  /\ \A x \in Tree \ {t} : /\ buf'[node'[x]].val = buf[node[x]].val
                            /\ buf'[node'[x]].used = buf[node[x]].used
  /\ \E c \in Content : /\ c.val = buf[node[t]].val /\ c.used = buf[node[t]].used
                         /\ buf'[node'[t]].val = upd[c].val
                         /\ buf'[node'[t]].used = upd[c].used

(* The block group after a change: every block that moved is counted, and  *)
(* none moves without the extent root in this transaction.                 *)
Counts(C, grown, drop, dbg) ==
  /\ bgUsed' = bgUsed + Cardinality(Added(C, grown)) - Cardinality(Freed(C, drop))
  /\ bgDirty' = (dbg \/ Added(C, grown) \cup Freed(C, drop) # {})
  /\ Added(C, grown) \cup Freed(C, drop) # {} => EXT \in C \/ Fresh(node[EXT])

(* Change, spelled out as what moves and what the buffers hold.            *)
LEMMA ChangeEffect ==
  ASSUME TypeOK, MemShape, trans # None, NEW t \in Tree, NEW grow \in BOOLEAN,
         NEW drop \in SUBSET buf[node[t]].kids,
         NEW upd \in [Content -> Content], Harmless(upd), NEW dbg \in BOOLEAN,
         Change(t, grow, drop, upd, dbg)
  PROVE  \E C \in SUBSET Tree, grown \in SUBSET Block :
           /\ Moves(C, t, grown, drop) /\ Buffers(C, t, grown, drop) /\ ItemsKept(t, upd)
           /\ ValuesKept(t, upd) /\ Counts(C, grown, drop, dbg)
<1> DEFINE C == CowSet(t, grow \/ drop # {})
           leaf == {x \in {None} : grow}
<1>a. PICK new \in Allocs(C \cup leaf) : CowTo(new, C, t, leaf, drop, upd, dbg)
  BY Zenon DEF Change
<1>b. C \in SUBSET Tree /\ leaf \in SUBSET {None} /\ C \subseteq {t, EXT}
  BY CowSetType, Zenon
<1>c. /\ ~Fresh(node[t]) => t \in C
      /\ \A x \in C : ~Fresh(node[x])
      /\ Fresh(node[EXT]) \/ EXT \in C \/ (C = {} /\ leaf = {} /\ drop = {})
  BY DEF CowSet
<1>d. drop \in SUBSET Block
  BY DEF TypeOK, Content
<1> DEFINE freed == {node[x] : x \in C} \cup drop
           added == {new[x] : x \in C \cup leaf}
           grown == {new[x] : x \in leaf}
           at == [x \in Tree |-> IF x \in C THEN new[x] ELSE node[x]]
           copy == [x \in Tree |-> IF x \in C THEN CowCopy(buf[node[x]]) ELSE buf[node[x]]]
           account == [copy EXCEPT ![EXT].items = (@ \cup added) \ freed]
           final == [account EXCEPT ![t] = Relink(upd[@], drop, grown)]
<1>1. new \in [C \cup leaf -> free \ pinned] /\ \A x, y \in C \cup leaf : new[x] = new[y] => x = y
  BY <1>a, Zenon DEF Allocs
<1>2. node' = at
  BY <1>a, Zenon DEF CowTo
<1>3. buf' = [b \in Block |->
                  IF b = at[t] THEN final[t]
                  ELSE IF b = at[EXT] THEN final[EXT]
                  ELSE IF b \in grown THEN NewLeaf(t) ELSE buf[b]]
  BY <1>a, Zenon DEF CowTo
<1>4. /\ dirty' = (dirty \ freed) \cup added \cup {at[t]}
      /\ dirtyRoots' = dirtyRoots \cup (C \cap CowOnly)
      /\ pinned' = pinned \cup PinDown(freed)
      /\ free' = (free \ added) \cup (freed \ PinDown(freed))
  BY <1>a, Zenon DEF CowTo
<1> HIDE DEF C, leaf
<1>5. freed = Freed(C, drop) /\ added = Added(C, grown) /\ grown \in SUBSET Block
  <2>1. \A x \in C : node'[x] = new[x]
    BY <1>2, <1>b, Zenon
  <2>2. grown \in SUBSET Block
    BY <1>1 DEF TypeOK
  <2> QED BY <2>1, <2>2, <1>b DEF Freed, Added
<1>6. added \subseteq free \ pinned
  BY <1>1, Zenon
<1>7. Moves(C, t, grown, drop)
  <2>1. \A x \in C : node'[x] = new[x] /\ new[x] \notin grown
    BY <1>1, <1>2, <1>b, ParamAssumption, ZenonT(60)
  <2>2. \A x, y \in C : node'[x] = node'[y] => x = y
    BY <1>1, <2>1, Zenon
  <2>3. \A x \in Tree \ C : node'[x] = node[x]
    BY <1>2, Zenon
  <2>4. at[t] = node'[t]
    BY <1>2, Zenon
  <2>5. /\ pinned' = pinned \cup {b \in freed : ~Fresh(b)}
        /\ free' = (free \ added) \cup {b \in freed : Fresh(b)}
    BY <1>4, Zenon DEF PinDown
  <2> HIDE DEF freed, added, grown, at
  <2> QED BY <1>b, <1>c, <1>4, <1>5, <1>6, <2>1, <2>2, <2>3, <2>4, <2>5, Zenon DEF Moves
<1>8. \A x \in Tree : buf[node[x]] \in Content /\ node[x] \in Block
  BY Zenon DEF TypeOK
<1>9. copy \in [Tree -> Content]
  BY <1>8, CowCopyType, Zenon
<1>10. \A x \in Tree :
         /\ copy[x].tree = buf[node[x]].tree /\ copy[x].kids = buf[node[x]].kids
         /\ copy[x].gen = IF x \in C THEN trans.transid ELSE buf[node[x]].gen
         /\ copy[x].items = buf[node[x]].items /\ copy[x].roots = buf[node[x]].roots
  BY <1>8, CowCopyFields, Zenon
<1>11. \A x \in Tree \ C : copy[x] = buf[node[x]]
  BY Zenon
<1>12. account \in [Tree -> Content]
  <2> HIDE DEF copy, freed, added
  <2>1. copy[EXT].items \in SUBSET Block
    BY <1>9, TreesExist, Zenon DEF Content
  <2>2. freed \in SUBSET Block /\ added \in SUBSET Block
    BY <1>1, <1>8, <1>b, <1>d DEF freed, added, TypeOK
  <2>3. [copy[EXT] EXCEPT !.items = (@ \cup added) \ freed] \in Content
    BY <1>9, <2>1, <2>2, TreesExist, ItemsType, Zenon
  <2> QED BY <1>9, <2>3, Zenon
<1>13. \A x \in Tree :
         /\ account[x].tree = copy[x].tree /\ account[x].kids = copy[x].kids
         /\ account[x].gen = copy[x].gen /\ account[x].roots = copy[x].roots
         /\ account[x].items = IF x = EXT THEN (copy[x].items \cup added) \ freed ELSE copy[x].items
         /\ x # EXT => account[x] = copy[x]
  <2> HIDE DEF copy, freed, added
  <2>1. account[EXT] = [copy[EXT] EXCEPT !.items = (copy[EXT].items \cup added) \ freed]
    BY <1>9, TreesExist, Zenon
  <2>2. \A x \in Tree : x # EXT => account[x] = copy[x]
    BY <1>9, Zenon
  <2> HIDE DEF account
  <2>3. copy[EXT] \in Content
    BY <1>9, TreesExist, Zenon
  <2>4. /\ account[EXT].tree = copy[EXT].tree /\ account[EXT].kids = copy[EXT].kids
        /\ account[EXT].gen = copy[EXT].gen /\ account[EXT].roots = copy[EXT].roots
        /\ account[EXT].items = (copy[EXT].items \cup added) \ freed
    BY <2>1, <2>3, ContentFields
  <2> QED BY <2>2, <2>4, Zenon
<1>14. /\ \A x \in Tree : x # t => final[x] = account[x]
       /\ final[t] = Relink(upd[account[t]], drop, grown)
       /\ account[t] \in Content /\ upd[account[t]] \in Content
  <2> HIDE DEF account, grown
  <2> QED BY <1>12, Zenon
<1>15. /\ final[t].tree = account[t].tree /\ final[t].gen = account[t].gen
       /\ final[t].kids = (account[t].kids \ drop) \cup grown
       /\ final[t].items = account[t].items /\ final[t].roots = upd[account[t]].roots
  <2> HIDE DEF account, grown, final
  <2> QED BY <1>14, RelinkFields DEF Harmless
<1> HIDE DEF freed, added, grown, copy, account, final
<1>16. \A x, y \in Tree : x # y => at[x] # at[y]
  <2>1. \A x, y \in Tree : node[x] = node[y] => x = y
    BY DEF MemShape, Own
  <2>2. \A x \in Tree : node[x] \in Live
    BY DEF Live
  <2>3. \A x \in Tree : node[x] \notin free
    BY <2>2, Zenon DEF MemShape
  <2> QED BY <1>1, <2>1, <2>3, <1>b, Zenon
<1>17. \A x \in Tree : at[x] \notin grown /\ at[x] \in Block
  <2>1. \A x \in Tree : node[x] \in Live /\ node[x] \in Block
    BY <1>8 DEF Live
  <2>2. \A x \in Tree : node[x] \notin free
    BY <2>1, Zenon DEF MemShape
  <2> QED BY <1>1, <2>1, <2>2, <1>b, ParamAssumption DEF grown, TypeOK
<1>18. \A x \in Tree : x \notin {t, EXT} => final[x] = buf[node[x]]
  BY <1>11, <1>13, <1>14, <1>b, ZenonT(60)
<1>19. \A x \in Tree : buf'[node'[x]] = final[x]
  <2>1. buf'[at[t]] = final[t]
    BY <1>3, <1>17, Zenon
  <2>2. buf'[at[EXT]] = final[EXT]
    BY <1>3, <1>16, <1>17, TreesExist, Zenon
  <2>3. ASSUME NEW x \in Tree, x \notin {t, EXT} PROVE buf'[at[x]] = final[x]
    <3>1. at[x] = node[x]
      BY <2>3, <1>b, Zenon
    <3>2. at[x] # at[t] /\ at[x] # at[EXT] /\ at[x] \notin grown /\ at[x] \in Block
      BY <2>3, <1>16, <1>17, TreesExist, Zenon
    <3> HIDE DEF at
    <3>3. buf'[at[x]] = buf[at[x]]
      BY <1>3, <3>2, Zenon
    <3> QED BY <1>18, <2>3, <3>1, <3>3, Zenon
  <2> HIDE DEF at
  <2> QED BY <1>2, <2>1, <2>2, <2>3, Zenon
<1>20. \A x \in Tree :
       /\ final[x].tree = buf[node[x]].tree
       /\ final[x].gen = IF x \in C THEN trans.transid ELSE buf[node[x]].gen
       /\ final[x].kids = IF x = t THEN (buf[node[x]].kids \ drop) \cup grown ELSE buf[node[x]].kids
       /\ x = EXT => final[x].items = (buf[node[x]].items \cup added) \ freed
  <2> TAKE x \in Tree
  <2>1. CASE x = t
    <3>1. /\ final[x].tree = account[x].tree /\ final[x].gen = account[x].gen
          /\ final[x].kids = (account[x].kids \ drop) \cup grown
          /\ final[x].items = account[x].items
      BY <1>15, <2>1, Zenon
    <3>2. /\ account[x].tree = copy[x].tree /\ account[x].gen = copy[x].gen
          /\ account[x].kids = copy[x].kids
          /\ x = EXT => account[x].items = (copy[x].items \cup added) \ freed
      BY <1>13, Zenon
    <3>3. /\ copy[x].tree = buf[node[x]].tree /\ copy[x].kids = buf[node[x]].kids
          /\ copy[x].gen = IF x \in C THEN trans.transid ELSE buf[node[x]].gen
          /\ copy[x].items = buf[node[x]].items
      BY <1>10, Zenon
    <3> QED BY <2>1, <3>1, <3>2, <3>3, Zenon
  <2>2. CASE x # t
    <3>1. final[x] = account[x]
      BY <1>14, <2>2, Zenon
    <3>2. final[x].tree = copy[x].tree /\ final[x].gen = copy[x].gen /\ final[x].kids = copy[x].kids
      BY <1>13, <3>1, ZenonT(60)
    <3>3. x = EXT => final[x].items = (copy[x].items \cup added) \ freed
      BY <1>13, <3>1, Zenon
    <3> QED BY <1>10, <2>2, <3>2, <3>3, Zenon
  <2> QED BY <2>1, <2>2, Zenon
<1> HIDE DEF at
<1>21. \A b \in grown : buf'[b].tree = t /\ buf'[b].gen = trans.transid
  BY <1>3, <1>5, <1>17, TreesExist, NewLeafFields, Zenon
<1>22. ASSUME NEW b \in Block \ added, ~Fresh(b) \/ b \notin {node[t], node[EXT]}
       PROVE  buf'[b] = buf[b]
  <2>1. b \notin grown
    BY <1>22, Zenon DEF added, grown
  <2>2. b # at[t]
    BY <1>22, <1>c, Zenon DEF at, added
  <2>3. CASE b # at[EXT]
    BY <1>3, <2>1, <2>2, <2>3, Zenon
  <2>4. CASE b = at[EXT]
    <3>1. EXT \notin C /\ b = node[EXT]
      BY <1>22, <2>4, TreesExist, Zenon DEF at, added
    <3>2. C = {} /\ leaf = {} /\ drop = {}
      BY <1>22, <1>c, <3>1, Zenon
    <3>3. added = {} /\ freed = {} /\ t # EXT
      BY <3>2, <2>2, <2>4, Zenon DEF added, freed
    <3>4. copy[EXT] = buf[b] /\ copy[EXT] \in Content
      BY <1>9, <1>11, <3>1, TreesExist, Zenon
    <3>5. account[EXT] = [copy[EXT] EXCEPT !.items = (copy[EXT].items \cup added) \ freed]
      BY <1>9, TreesExist, Zenon DEF account
    <3>6. (copy[EXT].items \cup added) \ freed = copy[EXT].items
      BY <3>3, Zenon
    <3>7. account[EXT] = copy[EXT]
      BY <3>4, <3>5, <3>6, ContentFields, Zenon
    <3>8. buf'[b] = final[EXT]
      BY <1>3, <2>2, <2>4, Zenon
    <3> QED BY <1>14, <3>3, <3>4, <3>7, <3>8, TreesExist, Zenon
  <2> QED BY <2>3, <2>4, Zenon
<1>23. Buffers(C, t, grown, drop)
  <2>1. \A x \in Tree :
          /\ buf'[node'[x]].tree = buf[node[x]].tree
          /\ buf'[node'[x]].gen = IF x \in C THEN trans.transid ELSE buf[node[x]].gen
          /\ buf'[node'[x]].kids = IF x = t THEN (buf[node[x]].kids \ drop) \cup grown
                                            ELSE buf[node[x]].kids
    BY <1>19, <1>20, ZenonT(60)
  <2>2. buf'[node'[EXT]].items = (buf[node[EXT]].items \cup Added(C, grown)) \ Freed(C, drop)
    BY <1>5, <1>19, <1>20, TreesExist, Zenon
  <2> QED BY <1>5, <1>21, <1>22, <2>1, <2>2, Zenon DEF Buffers
<1>24. ItemsKept(t, upd)
  <2>1. CASE t = ROOT
    <3>1. account[t].roots = buf[node[t]].roots /\ buf'[node'[t]].roots = upd[account[t]].roots
      BY <1>10, <1>13, <1>15, <1>19, ZenonT(60)
    <3> QED BY <1>14, <2>1, <3>1, Zenon DEF ItemsKept
  <2>2. CASE t # ROOT
    <3>1. buf'[node'[ROOT]].roots = account[ROOT].roots
      BY <1>14, <1>19, <2>2, TreesExist, Zenon
    <3>2. account[ROOT].roots = buf[node[ROOT]].roots
      BY <1>10, <1>13, TreesExist, Zenon
    <3> QED BY <2>2, <3>1, <3>2, Zenon DEF ItemsKept
  <2> QED BY <2>1, <2>2, Zenon
<1>25. ValuesKept(t, upd)
  <2>1. \A x \in Tree : account[x].val = buf[node[x]].val /\ account[x].used = buf[node[x]].used
    <3>1. \A x \in Tree : copy[x].val = buf[node[x]].val /\ copy[x].used = buf[node[x]].used
      BY <1>8, CowCopyFields, Zenon DEF copy
    <3>2. account[EXT] = [copy[EXT] EXCEPT !.items = (copy[EXT].items \cup added) \ freed]
      BY <1>9, TreesExist, Zenon DEF account
    <3>3. copy[EXT] \in Content
      BY <1>9, TreesExist, Zenon
    <3>4. account[EXT].val = copy[EXT].val /\ account[EXT].used = copy[EXT].used
      BY <3>2, <3>3, ContentFields
    <3> QED BY <1>13, <3>1, <3>4, ZenonT(60)
  <2>2. final[t].val = upd[account[t]].val /\ final[t].used = upd[account[t]].used
    <3>1. final[t] = Relink(upd[account[t]], drop, grown) /\ upd[account[t]] \in Content
      BY <1>14, Zenon
    <3> QED BY <3>1, RelinkFields
  <2>3. \A x \in Tree \ {t} : /\ buf'[node'[x]].val = buf[node[x]].val
                             /\ buf'[node'[x]].used = buf[node[x]].used
    <3>1. \A x \in Tree \ {t} : buf'[node'[x]] = account[x]
      BY <1>14, <1>19, Zenon
    <3> QED BY <2>1, <3>1, Zenon
  <2>4. buf'[node'[t]].val = upd[account[t]].val /\ buf'[node'[t]].used = upd[account[t]].used
    BY <1>19, <2>2, Zenon
  <2>5. account[t].val = buf[node[t]].val /\ account[t].used = buf[node[t]].used
    BY <2>1, Zenon
  <2> QED BY <1>14, <2>3, <2>4, <2>5, Zenon DEF ValuesKept
<1>26. Counts(C, grown, drop, dbg)
  <2>1. /\ bgUsed' = bgUsed + Cardinality(added) - Cardinality(freed)
        /\ bgDirty' = Dirtied(dbg, added \cup freed)
    BY <1>a, Zenon DEF CowTo, C, leaf, added, freed
  <2>2. added \cup freed # {} => EXT \in C \/ Fresh(node[EXT])
    BY <1>c, Zenon DEF added, freed
  <2> QED BY <1>5, <2>1, <2>2, Zenon DEF Counts, Dirtied
<1> QED BY <1>7, <1>23, <1>24, <1>25, <1>26, <1>b, <1>5, Zenon

(* Copying keeps memory in shape: the old blocks leave the trees, the new  *)
(* ones join them, and nothing else is touched.                            *)
LEMMA ChangeMem ==
  ASSUME TypeOK, TypeOK', MemShape, trans # None, trans.transid = generation,
         UNCHANGED <<disk, generation, trans>>, \A b \in Block : disk[b].written,
         NEW t \in Tree, NEW drop \in SUBSET buf[node[t]].kids,
         NEW C \in SUBSET Tree, NEW grown \in SUBSET Block,
         Moves(C, t, grown, drop), Buffers(C, t, grown, drop)
  PROVE  MemShape'
<1> DEFINE F == Freed(C, drop)
           A == Added(C, grown)
           kids(x) == IF x = t THEN (buf[node[x]].kids \ drop) \cup grown ELSE buf[node[x]].kids
<1>1. \A x \in Tree : node[x] \in Block /\ buf[node[x]].kids \subseteq Block /\ node[x] \in Live
                      /\ buf[node[x]].kids \subseteq Live /\ Own(x) \subseteq Live
  <2>1. \A x \in Tree : node[x] \in Block /\ buf[node[x]] \in Content
    BY Zenon DEF TypeOK
  <2>2. \A x \in Tree : buf[node[x]].kids \subseteq Block
    BY <2>1, Zenon DEF Content
  <2> QED BY <2>1, <2>2 DEF Live, Own
<1>2. \A b \in Live : b \in Block /\ b \notin free /\ b \notin pinned /\ \E x \in Tree : b \in Own(x)
  BY <1>1 DEF MemShape, Live, Own
<1>3. A \subseteq Block /\ A \subseteq free /\ A \cap pinned = {} /\ A \cap Live = {} /\ grown \subseteq A
  BY <1>2, Zenon DEF Moves, Added, TypeOK
<1>4. \A x, y \in Tree : x # y => Own(x) \cap Own(y) = {}
  BY DEF MemShape
<1>5. \A x \in Tree : Own(x)' = {node'[x]} \cup kids(x)
  BY Zenon DEF Own, Buffers
<1>6. \A x \in Tree : node[x] \notin buf[node[x]].kids
  BY Zenon DEF MemShape
<1>7. \A x \in Tree : node'[x] = node[x] \/ (x \in C /\ node'[x] \in A)
  BY Zenon DEF Moves, Added
<1>8. F \subseteq Live /\ \A b \in F : (\E x \in C : b = node[x]) \/ b \in drop
  BY <1>1, Zenon DEF Freed
<1> HIDE DEF F, A
<1>9. \A x \in Tree : \A b \in kids(x) : b \in grown \/ (b \in buf[node[x]].kids /\ b \in Live /\ b \notin A)
  BY <1>1, <1>3, Zenon
<1>10. \A x \in Tree : node'[x] \notin kids(x)
  <2> TAKE x \in Tree
  <2>1. CASE x \in C
    <3>1. node'[x] \in A /\ node'[x] \notin grown
      BY <2>1, Zenon DEF Moves, Added, A
    <3> QED BY <1>9, <3>1, Zenon
  <2>2. CASE x \notin C
    <3>1. node'[x] = node[x] /\ node[x] \notin A
      BY <2>2, <1>1, <1>3, Zenon DEF Moves
    <3> QED BY <1>3, <1>6, <3>1, Zenon
  <2> QED BY <2>1, <2>2, Zenon
<1>11. \A x \in Tree : \A b \in kids(x) : b \notin grown =>
          b \notin {node[t], node[EXT]} /\ b \notin F /\ buf'[b] = buf[b]
  <2> SUFFICES ASSUME NEW x \in Tree, NEW b \in kids(x), b \notin grown
               PROVE  b \notin {node[t], node[EXT]} /\ b \notin F /\ buf'[b] = buf[b]
    BY Zenon
  <2>1. b \in buf[node[x]].kids /\ b \in Own(x) /\ b \in Block /\ b \notin A
    BY <1>1, <1>9, Zenon DEF Own
  <2>2. \A y \in Tree : b # node[y]
    BY <1>4, <1>6, <2>1, Zenon DEF Own
  <2>3. b \notin drop
    <3>1. CASE x = t
      BY <3>1, Zenon
    <3>2. CASE x # t
      <4>1. drop \subseteq Own(t)
        BY Zenon DEF Own
      <4> QED BY <1>4, <2>1, <3>2, <4>1, Zenon
    <3> QED BY <3>1, <3>2, Zenon
  <2>4. b \notin F
    BY <1>8, <2>2, <2>3, Zenon
  <2>5. buf'[b] = buf[b]
    BY <2>1, <2>2, TreesExist, Zenon DEF Buffers, A
  <2> QED BY <2>2, <2>4, <2>5, TreesExist, Zenon
<1>12. \A x \in Tree : \A b \in Own(x)' : buf'[b].tree = x /\ buf'[b].gen <= generation
  <2> SUFFICES ASSUME NEW x \in Tree, NEW b \in Own(x)'
               PROVE  buf'[b].tree = x /\ buf'[b].gen <= generation
    BY Zenon
  <2>0. generation \in Nat
    BY Zenon DEF TypeOK
  <2>1. CASE b = node'[x]
    <3>1. buf[node[x]].tree = x /\ buf[node[x]].gen <= generation
      BY Zenon DEF MemShape, Own
    <3>2. buf'[b].tree = buf[node[x]].tree
      BY <2>1, Zenon DEF Buffers
    <3>3. buf'[b].gen = trans.transid \/ buf'[b].gen = buf[node[x]].gen
      BY <2>1, Zenon DEF Buffers
    <3> QED BY <2>0, <3>1, <3>2, <3>3
  <2>2. CASE b \in grown
    <3>1. x = t
      <4>1. b \in A /\ (b = node'[x] \/ b \in kids(x))
        BY <1>3, <1>5, <2>2, Zenon
      <4>2. CASE b = node'[x]
        BY <1>1, <1>3, <1>7, <2>2, <4>1, <4>2, Zenon DEF Moves
      <4>3. CASE b \in kids(x)
        BY <1>1, <1>3, <4>1, <4>3, ZenonT(60)
      <4> QED BY <4>1, <4>2, <4>3, Zenon
    <3> QED BY <2>0, <2>2, <3>1 DEF Buffers
  <2>3. CASE b # node'[x] /\ b \notin grown
    <3>1. b \in kids(x) /\ b \in buf[node[x]].kids /\ buf'[b] = buf[b]
      BY <1>5, <1>9, <1>11, <2>3
    <3> QED BY <3>1 DEF MemShape, Own
  <2> QED BY <2>1, <2>2, <2>3, Zenon
<1>13. \A b : b \in Live' <=> \E x \in Tree : b \in {node'[x]} \cup kids(x)
  BY <1>5, Zenon DEF Live, Own
<1>14. Live' = (Live \cup A) \ F
  <2>1. ASSUME NEW b \in Live' PROVE b \in (Live \cup A) \ F
    <3>1. PICK x \in Tree : b = node'[x] \/ b \in kids(x)
      BY <1>13, Zenon
    <3>2. CASE b \in A
      BY <1>3, <1>8, <3>2, Zenon
    <3>3. CASE b \notin A /\ b = node'[x]
      <4>1. b = node[x] /\ x \notin C
        BY <1>7, <3>3, Zenon DEF A, Added
      <4>2. \A y \in C : b # node[y]
        BY <1>4, <4>1, Zenon DEF Own
      <4>3. b \notin drop
        <5>1. drop \subseteq Own(t)
          BY Zenon DEF Own
        <5> QED BY <1>4, <1>6, <4>1, <5>1, Zenon DEF Own
      <4> QED BY <1>1, <1>8, <4>1, <4>2, <4>3, Zenon
    <3>4. CASE b \notin A /\ b \in kids(x)
      BY <1>1, <1>3, <1>9, <1>11, <3>4, Zenon
    <3> QED BY <3>1, <3>2, <3>3, <3>4, Zenon
  <2>2. ASSUME NEW b \in Live, b \notin F PROVE b \in Live'
    <3>1. PICK x \in Tree : b \in Own(x)
      BY <1>2, Zenon
    <3>2. CASE b = node[x]
      <4>1. x \notin C
        BY <2>2, <3>2, Zenon DEF F, Freed
      <4> QED BY <1>13, <3>2, <4>1, Zenon DEF Moves
    <3>3. CASE b \in buf[node[x]].kids
      <4>1. b \notin drop
        BY <2>2, Zenon DEF F, Freed
      <4> QED BY <1>13, <3>3, <4>1, Zenon
    <3> QED BY <3>1, <3>2, <3>3, Zenon DEF Own
  <2>3. ASSUME NEW b \in A PROVE b \in Live'
    <3>1. CASE b \in grown
      BY <1>13, <3>1, Zenon
    <3>2. CASE b \notin grown
      BY <1>13, <3>2, Zenon DEF A, Added
    <3> QED BY <3>1, <3>2, Zenon
  <2> QED BY <2>1, <2>2, <2>3, Zenon
<1>15. (buf[node[EXT]].items)' = Live'
  <2>1. buf[node[EXT]].items = Live
    BY Zenon DEF MemShape
  <2> QED BY <1>14, <2>1, Zenon DEF Buffers, F, A
<1>16. /\ Live' \cup pinned' \cup free' = Block
       /\ Live' \cap pinned' = {} /\ Live' \cap free' = {} /\ pinned' \cap free' = {}
  <2>1. /\ pinned' = pinned \cup {b \in F : ~Fresh(b)}
        /\ free' = (free \ A) \cup {b \in F : Fresh(b)}
    BY Zenon DEF Moves, F, A
  <2>2. /\ Live \cup pinned \cup free = Block
        /\ Live \cap pinned = {} /\ Live \cap free = {} /\ pinned \cap free = {}
    BY Zenon DEF MemShape
  <2> HIDE DEF Fresh
  <2>3. Live' \cup pinned' \cup free' = Block
    BY <1>3, <1>8, <1>14, <2>1, <2>2, Zenon
  <2>4. Live' \cap pinned' = {} /\ Live' \cap free' = {}
    BY <1>3, <1>8, <1>14, <2>1, <2>2, Zenon
  <2>5. pinned' \cap free' = {}
    BY <1>3, <1>8, <2>1, <2>2, Zenon
  <2> QED BY <2>3, <2>4, <2>5, Zenon
<1>17. ASSUME NEW b \in Live', b \notin dirty' PROVE buf'[b] = disk[b]
  <2>1. b \notin A /\ b \notin F /\ b \in Live /\ b # node'[t] /\ b \notin dirty
    BY <1>14, <1>17, Zenon DEF Moves, F, A
  <2>2. buf[b] = disk[b] /\ ~Fresh(b) /\ b \in Block
    BY <1>2, <2>1, Zenon DEF MemShape, Fresh
  <2> QED BY <2>1, <2>2, Zenon DEF Buffers, A
<1>18. \A x \in Tree : node'[x] \notin buf'[node'[x]].kids
  BY <1>10, ZenonT(60) DEF Buffers
<1> QED BY <1>12, <1>15, <1>16, <1>17, <1>18, Zenon DEF MemShape

(* A change writes to new blocks and to blocks of this transaction only,   *)
(* so the committed version stays out of its reach.                        *)
LEMMA ChangeOutOfReach ==
  ASSUME TypeOK, NEW s, OutOfReach(s), Reach(disk, s) \subseteq Block, UNCHANGED disk,
         \A b \in Block : disk[b].written,
         NEW t \in Tree, NEW drop, NEW C \in SUBSET Tree, NEW grown \in SUBSET Block,
         Moves(C, t, grown, drop), Buffers(C, t, grown, drop)
  PROVE  \A b \in Reach(disk, s) : b \notin dirty' /\ b \notin free' /\ buf'[b] = disk[b]
<1> TAKE b \in Reach(disk, s)
<1>1. b \notin dirty /\ b \notin free /\ buf[b] = disk[b] /\ ~Fresh(b)
  BY Zenon DEF OutOfReach, Fresh
<1>2. b \notin Added(C, grown)
  BY <1>1, Zenon DEF Moves
<1>3. b # node'[t]
  <2>1. CASE t \in C
    BY <1>2, <2>1, Zenon DEF Added
  <2>2. CASE t \notin C
    BY <1>1, <2>2, Zenon DEF Moves
  <2> QED BY <2>1, <2>2, Zenon
<1>4. b \notin dirty' /\ b \notin free'
  BY <1>1, <1>2, <1>3, Zenon DEF Moves
<1> QED BY <1>1, <1>2, <1>4, Zenon DEF Buffers

(* A root item in memory names the root node, or a block the transaction   *)
(* has copied it from, which is pinned.                                    *)
Recorded(R, I) ==
  \A x \in ItemTree :
    /\ I[x].bytenr = R[x]
    /\ R[x] = node[x] => I[x].gen = buf[node[x]].gen
    /\ R[x] # node[x] => R[x] \in pinned /\ buf[node[x]].gen = trans.transid

(* A change keeps the root items recorded.                                 *)
LEMMA ChangeRecorded ==
  ASSUME TypeOK, MemShape, NEW R, NEW I, Recorded(R, I),
         NEW t \in Tree, NEW drop, NEW C \in SUBSET Tree, NEW grown \in SUBSET Block,
         Moves(C, t, grown, drop), Buffers(C, t, grown, drop)
  PROVE  \A x \in ItemTree :
           /\ R[x] = node'[x] => I[x].gen = buf'[node'[x]].gen
           /\ R[x] # node'[x] => /\ R[x] \in pinned' /\ buf'[node'[x]].gen = trans.transid
                                 /\ x \in C \/ (R[x] # node[x] /\ node'[x] = node[x])
<1> TAKE x \in ItemTree
<1>0. x \in Tree
  BY TreesExist, Zenon
<1>1. CASE x \in C
  <2>1. node'[x] \in free /\ node'[x] \notin pinned
    BY <1>1, Zenon DEF Moves, Added
  <2>2. node[x] \in Live
    BY <1>0 DEF Live
  <2>3. R[x] # node'[x]
    BY <2>1, <2>2, Zenon DEF Recorded, MemShape
  <2>4. R[x] \in pinned'
    <3>1. CASE R[x] = node[x]
      BY <1>1, <3>1, Zenon DEF Moves, Freed
    <3>2. CASE R[x] # node[x]
      BY <3>2, Zenon DEF Recorded, Moves
    <3> QED BY <3>1, <3>2, Zenon
  <2> QED BY <1>0, <1>1, <2>3, <2>4, Zenon DEF Buffers
<1>2. CASE x \notin C
  <2>1. node'[x] = node[x] /\ buf'[node'[x]].gen = buf[node[x]].gen
    BY <1>0, <1>2, Zenon DEF Moves, Buffers
  <2>2. R[x] \in pinned => R[x] \in pinned'
    BY Zenon DEF Moves
  <2> QED BY <2>1, <2>2, Zenon DEF Recorded
<1> QED BY <1>1, <1>2, Zenon

(* What a superblock reaches are blocks.                                   *)
LEMMA ReachBlocks ==
  ASSUME TypeOK, NEW s \in Super
  PROVE  Reach(disk, s) \subseteq Block /\ \A x \in Tree : AddrOf(disk, s, x) \in Block
<1>1. \A x \in Tree : AddrOf(disk, s, x) \in Block
  BY TreesExist DEF AddrOf, TypeOK, Super, Content, RootItems, RootItem, Tree
<1>2. \A x \in Tree : disk[AddrOf(disk, s, x)].kids \subseteq Block
  BY <1>1, Zenon DEF TypeOK, Content
<1> QED BY <1>1, <1>2, Zenon DEF Reach

(* What a superblock leads to depends on the blocks on disk alone.         *)
LEMMA DiskStill ==
  ASSUME UNCHANGED <<disk, sb>>
  PROVE  /\ \A d \in Dev, m \in Mirror :
              /\ Newest(sb[d][m])' <=> Newest(sb[d][m])
              /\ Intact(sb[d][m]) => Intact(sb[d][m])'
         /\ SupersAgree => SupersAgree'
<1>1. \A d \in Dev, m \in Mirror : Newest(sb[d][m])' <=> Newest(sb[d][m])
  BY ZenonT(60) DEF Newest
<1>2. \A d \in Dev, m \in Mirror : Intact(sb[d][m]) => Intact(sb[d][m])'
  <2> TAKE d \in Dev, m \in Mirror
  <2> DEFINE s == sb[d][m]
  <2>1. Readable(s)' <=> Readable(s)
    BY Zenon DEF Readable
  <2>2. disk' = disk /\ s' = s
    BY Zenon
  <2> HIDE DEF s
  <2>3. Intact(s) => Intact(s)'
    BY <2>1, <2>2, ZenonT(60) DEF Intact
  <2> QED BY <2>3, Zenon DEF s
<1> QED BY <1>1, <1>2 DEF SupersAgree

(* A step that leaves the devices alone keeps the versions on them safe if *)
(* it keeps out of their reach.                                            *)
LEMMA StillSafe ==
  ASSUME VersionSafe, UNCHANGED <<disk, sb>>,
         opened' => \A d \in Dev, m \in Mirror :
           Newest(sb[d][m]) =>
             \A b \in Reach(disk, sb[d][m]) : b \notin dirty' /\ b \notin free' /\ buf'[b] = disk[b]
  PROVE  VersionSafe'
<1> SUFFICES ASSUME NEW d \in Dev, NEW m \in Mirror, Newest(sb[d][m])'
             PROVE  /\ Intact(sb[d][m])'
                    /\ disk'[AddrOf(disk', sb'[d][m], EXT)].items = Reach(disk', sb'[d][m])
                    /\ opened' => OutOfReach(sb[d][m])'
  BY Zenon DEF VersionSafe
<1>1. Newest(sb[d][m]) /\ Intact(sb[d][m])'
  BY DiskStill, Zenon DEF VersionSafe
<1>2. disk'[AddrOf(disk', sb'[d][m], EXT)].items = Reach(disk', sb'[d][m])
  BY <1>1, Zenon DEF VersionSafe
<1>3. opened' => OutOfReach(sb[d][m])'
  BY <1>1, Zenon DEF OutOfReach
<1> QED BY <1>1, <1>2, <1>3, Zenon

(* The frame of a change to a tree inside a transaction.                   *)
ChangeFrame ==
  /\ VersionInv /\ TypeOK' /\ opened /\ trans # None
  /\ UNCHANGED <<disk, sb, opened, generation, lastTrans, trans>>

(* A change keeps memory in shape and the devices safe.                    *)
LEMMA ChangeKeeps ==
  ASSUME ChangeFrame, NEW t \in Tree, NEW drop \in SUBSET buf[node[t]].kids,
         NEW C \in SUBSET Tree, NEW grown \in SUBSET Block,
         Moves(C, t, grown, drop), Buffers(C, t, grown, drop)
  PROVE  VersionSafe' /\ SupersAgree' /\ MemShape' /\ \A b \in Block : disk'[b].written
<1>0. TypeOK /\ TypeOK' /\ MemShape /\ VersionSafe /\ SupersAgree
      /\ (\A b \in Block : disk[b].written) /\ trans # None /\ trans.transid = generation
      /\ opened /\ UNCHANGED <<disk, sb, opened, generation, lastTrans, trans>>
  BY Zenon DEF ChangeFrame, VersionInv, Phase
<1>1. MemShape'
  BY <1>0, ChangeMem, Zenon
<1>2. ASSUME NEW d \in Dev, NEW m \in Mirror, Newest(sb[d][m])
      PROVE  \A b \in Reach(disk, sb[d][m]) : b \notin dirty' /\ b \notin free' /\ buf'[b] = disk[b]
  <2>1. sb[d][m] \in Super
    BY <1>0 DEF TypeOK
  <2>2. OutOfReach(sb[d][m]) /\ Reach(disk, sb[d][m]) \subseteq Block
    BY <1>0, <1>2, <2>1, ReachBlocks, Zenon DEF VersionSafe
  <2> QED BY <1>0, <2>2, ChangeOutOfReach, ZenonT(60)
<1>3. VersionSafe' /\ SupersAgree'
  BY <1>0, <1>2, StillSafe, DiskStill, ZenonT(60)
<1> QED BY <1>0, <1>1, <1>3, ZenonT(60)

(* A change keeps the root items and root nodes in step.                   *)
LEMMA ChangeRoots ==
  ASSUME ChangeFrame, NEW t \in Tree, NEW drop \in SUBSET buf[node[t]].kids,
         NEW C \in SUBSET Tree, NEW grown \in SUBSET Block,
         Moves(C, t, grown, drop), Buffers(C, t, grown, drop),
         NEW I, buf'[node'[ROOT]].roots = I, Recorded(rootItem', I),
         \A x \in C \cap ItemTree : x \in CowOnly \/ (x \in SubVol /\ x = trans.root /\ pc' = "idle"),
         \A x \in ItemTree : rootItem'[x] # node[x] =>
           \/ x \in dirtyRoots
           \/ x \in SubVol /\ x = trans.root /\ pc' = "idle"
           \/ pc' = "groups" /\ cur' = x
  PROVE  RootsShape'
<1> SUFFICES ASSUME NEW x \in ItemTree
             PROVE  /\ buf'[node'[ROOT]].roots[x].bytenr = rootItem'[x]
                    /\ rootItem'[x] = node'[x] =>
                         buf'[node'[ROOT]].roots[x].gen = buf'[node'[x]].gen
                    /\ rootItem'[x] # node'[x] => Lags(x)'
  BY Zenon DEF RootsShape
<1>0. TypeOK /\ MemShape /\ trans # None /\ trans' = trans
  BY ZenonT(60) DEF ChangeFrame, VersionInv
<1>1. /\ rootItem'[x] = node'[x] => I[x].gen = buf'[node'[x]].gen
      /\ rootItem'[x] # node'[x] =>
           /\ rootItem'[x] \in pinned' /\ buf'[node'[x]].gen = trans.transid
           /\ x \in C \/ (rootItem'[x] # node[x] /\ node'[x] = node[x])
  BY <1>0, ChangeRecorded
<1>2. I[x].bytenr = rootItem'[x]
  BY Zenon DEF Recorded
<1>3. ASSUME rootItem'[x] # node'[x] PROVE Lags(x)'
  <2>1. \/ x \in dirtyRoots'
        \/ x \in SubVol /\ x = trans.root /\ pc' = "idle"
        \/ pc' = "groups" /\ cur' = x
    BY <1>1, <1>3, Zenon DEF Moves
  <2> QED BY <1>0, <1>1, <1>3, <2>1, Zenon DEF Lags
<1> QED BY <1>1, <1>2, <1>3, Zenon

(* What remains to be shown of VersionInv once types and context are.      *)
Rest ==
  /\ VersionSafe /\ SupersAgree /\ \A b \in Block : disk[b].written
  /\ opened => MemShape /\ RootsShape /\ Phase

(* RootsShape says in particular that every root item is recorded.         *)
LEMMA RecordedNow == ASSUME RootsShape PROVE Recorded(rootItem, buf[node[ROOT]].roots)
BY Zenon DEF RootsShape, Recorded, Lags

(* A program changes a tree inside its transaction.                        *)
LEMMA UserKeeps ==
  ASSUME VersionInv, TypeOK', NEW t \in UserTree, MayChange(t), UserFrame, NEW grow \in BOOLEAN,
         NEW drop \in SUBSET buf[node[t]].kids, NEW upd \in [Content -> Content], Harmless(upd),
         \A c \in Content : upd[c].roots = c.roots, Change(t, grow, drop, upd, bgDirty)
  PROVE  Rest'
<1>1. ChangeFrame /\ t \in Tree /\ pc = "idle" /\ TypeOK /\ MemShape /\ RootsShape /\ Phase
      /\ bgDirty \in BOOLEAN /\ trans # None
  BY ParamAssumption, Zenon DEF ChangeFrame, MayChange, InTrans, UserFrame, VersionInv, fsVars, diskVars, TypeOK
<1>2. PICK C \in SUBSET Tree, grown \in SUBSET Block :
        Moves(C, t, grown, drop) /\ Buffers(C, t, grown, drop) /\ ItemsKept(t, upd)
  BY <1>1, ChangeEffect, Zenon
<1>3. VersionSafe' /\ SupersAgree' /\ MemShape' /\ \A b \in Block : disk'[b].written
  BY <1>1, <1>2, ChangeKeeps, Zenon
<1>4. buf'[node'[ROOT]].roots = buf[node[ROOT]].roots
  BY <1>2, Zenon DEF ItemsKept
<1>5. rootItem' = rootItem /\ pc' = "idle" /\ cur' = cur
  BY <1>1, Zenon DEF UserFrame, pcVars
<1>6. Recorded(rootItem', buf[node[ROOT]].roots)
  BY <1>1, <1>5, RecordedNow, Zenon
<1>7. \A x \in C \cap ItemTree : x \in CowOnly \/ (x \in SubVol /\ x = trans.root /\ pc' = "idle")
  BY <1>2, <1>5, ZenonT(60) DEF Moves, MayChange, ItemTree, CowOnly
<1>8. \A x \in ItemTree : rootItem'[x] # node[x] =>
           \/ x \in dirtyRoots
           \/ x \in SubVol /\ x = trans.root /\ pc' = "idle"
           \/ pc' = "groups" /\ cur' = x
  BY <1>1, <1>5, Zenon DEF RootsShape, Lags
<1>9. RootsShape'
  BY <1>1, <1>2, <1>4, <1>6, <1>7, <1>8, ChangeRoots, ZenonT(60)
<1>10. Phase'
  <2>1. UNCHANGED <<sb, generation, lastTrans, trans, pc, sbTodo, rootItem>> /\ trans # None /\ pc = "idle"
    BY <1>1, Zenon DEF UserFrame, fsVars, diskVars, pcVars
  <2> QED BY <1>1, <2>1, ZenonT(60) DEF Phase
<1> QED BY <1>3, <1>9, <1>10, ZenonT(60) DEF Rest

(* A step of the commit that copies the root tree or the extent tree.      *)
LEMMA CommitKeeps ==
  ASSUME VersionInv, TypeOK', trans # None, pc \in {"idle", "cowroot", "groups"}, CommitFrame,
         NEW t \in {ROOT, EXT}, NEW upd \in [Content -> Content], Harmless(upd), NEW dbg \in BOOLEAN,
         Change(t, FALSE, {}, upd, dbg), pc' \in {"cowroot", "roots", "groups"},
         pc' # "cowroot" /\ t = EXT => pc = "groups",
         NEW I, Recorded(rootItem', I),
         t = ROOT => \A c \in Content : c.roots = buf[node[ROOT]].roots => upd[c].roots = I,
         t = EXT => I = buf[node[ROOT]].roots,
         \A x \in ItemTree : rootItem'[x] # node[x] =>
           x \in dirtyRoots \/ (pc' = "groups" /\ cur' = x)
  PROVE  Rest'
<1>1. ChangeFrame /\ t \in Tree /\ TypeOK /\ MemShape /\ RootsShape /\ Phase /\ opened
  BY TreesExist, Zenon DEF ChangeFrame, CommitFrame, VersionInv, CommitContext, fsVars, diskVars
<1>2. {} \in SUBSET buf[node[t]].kids
  BY Zenon
<1>3. PICK C \in SUBSET Tree, grown \in SUBSET Block :
        Moves(C, t, grown, {}) /\ Buffers(C, t, grown, {}) /\ ItemsKept(t, upd)
  BY <1>1, <1>2, ChangeEffect, Zenon
<1>4. VersionSafe' /\ SupersAgree' /\ MemShape' /\ \A b \in Block : disk'[b].written
  BY <1>1, <1>2, <1>3, ChangeKeeps, Zenon
<1>5. buf'[node'[ROOT]].roots = I
  BY <1>3, TreeAssumption, Zenon DEF ItemsKept, ItemTree, CowOnly
<1>6. \A x \in C \cap ItemTree : x \in CowOnly \/ (x \in SubVol /\ x = trans.root /\ pc' = "idle")
  BY <1>3, TreeAssumption, Zenon DEF Moves, CowOnly
<1>7. RootsShape'
  BY <1>1, <1>2, <1>3, <1>5, <1>6, ChangeRoots, Zenon
<1>8. pc' # "cowroot" => buf'[node'[ROOT]].gen = trans.transid
  <2>1. CASE ROOT \in C
    BY <1>3, <2>1, TreesExist, Zenon DEF Buffers
  <2>2. CASE ROOT \notin C
    <3>1. buf'[node'[ROOT]].gen = buf[node[ROOT]].gen
      BY <1>3, <2>2, TreesExist, Zenon DEF Buffers
    <3>2. CASE t = ROOT
      BY <1>3, <2>2, <3>1, <3>2, Zenon DEF Moves, Fresh
    <3>3. CASE t = EXT
      BY <1>1, <3>1, <3>3, Zenon DEF Phase
    <3> QED BY <3>2, <3>3, Zenon
  <2> QED BY <2>1, <2>2, Zenon
<1>9. Phase'
  <2>1. UNCHANGED <<sb, generation, lastTrans, trans, sbTodo>> /\ pc # "super"
    BY <1>1, Zenon DEF CommitFrame, fsVars, diskVars
  <2> QED BY <1>1, <1>8, <2>1, Zenon DEF Phase
<1> QED BY <1>4, <1>7, <1>9, Zenon DEF Rest

(* What the actions do to a copied root node is harmless.                  *)
LEMMA HarmlessUpdates ==
  ASSUME TypeOK
  PROVE  /\ Harmless(Nothing) /\ \A c \in Content : Nothing[c].roots = c.roots
         /\ \A v \in Val : Harmless(SetVal(v)) /\ \A c \in Content : SetVal(v)[c].roots = c.roots
         /\ \A n \in Int : Harmless(SetUsed(n)) /\ \A c \in Content : SetUsed(n)[c].roots = c.roots
         /\ \A r \in ItemTree :
              /\ Harmless(SetItem(r))
              /\ \A c \in Content : SetItem(r)[c].roots =
                   [c.roots EXCEPT ![r] = [bytenr |-> node[r], gen |-> trans.transid]]
<1>1. Harmless(Nothing) /\ \A c \in Content : Nothing[c].roots = c.roots
  BY Zenon DEF Nothing, Harmless
<1>2. \A v \in Val : Harmless(SetVal(v)) /\ \A c \in Content : SetVal(v)[c].roots = c.roots
  BY Zenon DEF SetVal, Harmless, Content
<1>3. \A n \in Int : Harmless(SetUsed(n)) /\ \A c \in Content : SetUsed(n)[c].roots = c.roots
  BY Zenon DEF SetUsed, Harmless, Content
<1>4. ASSUME NEW r \in ItemTree
      PROVE  /\ Harmless(SetItem(r))
             /\ \A c \in Content : SetItem(r)[c].roots =
                  [c.roots EXCEPT ![r] = [bytenr |-> node[r], gen |-> trans.transid]]
  BY Zenon DEF SetItem, Harmless, Content
<1> QED BY <1>1, <1>2, <1>3, <1>4, Zenon

(* The root item of r is about to be set to its root node.                 *)
LEMMA RecordedNext ==
  ASSUME TypeOK, RootsShape, trans # None, NEW r \in ItemTree, rootItem[r] # node[r],
         rootItem' = [rootItem EXCEPT ![r] = node[r]]
  PROVE  Recorded(rootItem', [buf[node[ROOT]].roots EXCEPT
                                ![r] = [bytenr |-> node[r], gen |-> trans.transid]])
<1>1. buf[node[ROOT]].roots \in RootItems
  BY TreesExist, Zenon DEF TypeOK, Content
<1> DEFINE R == buf[node[ROOT]].roots
           I == [R EXCEPT ![r] = [bytenr |-> node[r], gen |-> trans.transid]]
<1>2. I[r] = [bytenr |-> node[r], gen |-> trans.transid] /\ \A x \in ItemTree : x # r => I[x] = R[x]
  BY <1>1, Zenon DEF RootItems
<1>3. rootItem'[r] = node[r] /\ \A x \in ItemTree : x # r => rootItem'[x] = rootItem[x]
  BY Zenon DEF TypeOK
<1>4. buf[node[r]].gen = trans.transid
  BY Zenon DEF RootsShape, Lags
<1>5. Recorded(rootItem, R)
  BY RecordedNow, ZenonT(60)
<1> HIDE DEF I, R
<1>6. Recorded(rootItem', I)
  BY <1>2, <1>3, <1>4, <1>5 DEF Recorded
<1> QED BY <1>6, Zenon DEF I, R

(* btrfs_setup_all_roots: memory after an open is the committed version.   *)
LEMMA OpenKeeps ==
  ASSUME VersionInv, TypeOK', NEW d \in Dev, NEW m \in Mirror, Open(d, sb[d][m])
  PROVE  Rest'
<1> DEFINE s == sb[d][m]
           at == [x \in Tree |-> AddrOf(disk, s, x)]
<1>1. TypeOK /\ VersionSafe /\ SupersAgree /\ Newest(s) /\ s \in Super /\ trans = None
      /\ (\A b \in Block : disk[b].written) /\ pc = "idle"
  <2>1. TypeOK /\ CommitContext /\ VersionSafe /\ SupersAgree /\ \A b \in Block : disk[b].written
    BY Zenon DEF VersionInv
  <2>2. Newest(s) /\ ~opened
    BY Zenon DEF Open, OpenSuper
  <2>3. pc = "idle" /\ trans = None
    BY <2>1, <2>2, Zenon DEF CommitContext
  <2>4. s \in Super
    <3>1. sb \in [Dev -> [Mirror -> Super]]
      BY <2>1, Zenon DEF TypeOK
    <3> QED BY <3>1, Zenon
  <2> QED BY <2>1, <2>2, <2>3, <2>4, Zenon
<1>2. /\ node' = at /\ rootItem' = [x \in ItemTree |-> at[x]] /\ free' = Block \ disk[at[EXT]].items
      /\ opened' = TRUE /\ generation' = s.gen /\ lastTrans' = s.gen /\ buf' = disk
      /\ dirty' = {} /\ dirtyRoots' = {} /\ pinned' = {}
      /\ UNCHANGED <<disk, sb, trans, pc, cur, sbTodo>>
  BY Zenon DEF Open
<1> HIDE DEF s
<1>3. Intact(s) /\ disk[at[EXT]].items = Reach(disk, s) /\ Reach(disk, s) \subseteq Block
  BY <1>1, ReachBlocks, TreesExist, Zenon DEF VersionSafe, s
<1>4. \A x \in Tree : Own(x)' = {at[x]} \cup disk[at[x]].kids
  BY <1>2, Zenon DEF Own
<1>5. Live' = Reach(disk, s)
  BY <1>2, ZenonT(60) DEF Live, Reach
<1>6. \A x \in Tree : /\ \A b \in {at[x]} \cup disk[at[x]].kids : disk[b].tree = x /\ disk[b].gen <= s.gen
                      /\ at[x] \notin disk[at[x]].kids
  BY <1>3, Zenon DEF Intact
<1>7. MemShape'
  <2>1. \A x \in Tree : \A b \in Own(x)' : buf'[b].tree = x /\ buf'[b].gen <= generation'
    BY <1>2, <1>4, <1>6, ZenonT(60)
  <2>2. \A x \in Tree : node'[x] \notin buf'[node'[x]].kids
    BY <1>2, <1>6, Zenon
  <2>3. buf'[node'[EXT]].items = Live' /\ free' = Block \ Live' /\ pinned' = {} /\ Live' \subseteq Block
    BY <1>2, <1>3, <1>5, Zenon
  <2>4. buf' = disk'
    BY <1>2, Zenon
  <2> QED BY <2>1, <2>2, <2>3, <2>4, Zenon DEF MemShape
<1>8. RootsShape'
  <2> SUFFICES ASSUME NEW x \in ItemTree
               PROVE  /\ buf'[node'[ROOT]].roots[x].bytenr = rootItem'[x]
                      /\ buf'[node'[ROOT]].roots[x].gen = buf'[node'[x]].gen
                      /\ rootItem'[x] = node'[x]
    BY Zenon DEF RootsShape
  <2>1. at[ROOT] = s.root /\ at[x] = disk[s.root].roots[x].bytenr /\ x \in Tree
    BY TreesExist, TreeAssumption, Zenon DEF AddrOf
  <2>2. disk[disk[s.root].roots[x].bytenr].gen = disk[s.root].roots[x].gen
    BY <1>3, ZenonT(60) DEF Intact, Readable
  <2> QED BY <1>2, <2>1, <2>2, Zenon
<1>9. Phase'
  BY <1>1, <1>2, Zenon DEF Phase, Newest
<1>10. VersionSafe' /\ SupersAgree'
  <2>1. \A e \in Dev, k \in Mirror : Newest(sb[e][k]) => sb[e][k] = s
    BY <1>1 DEF SupersAgree, s
  <2>2. \A b \in Reach(disk, s) : b \notin dirty' /\ b \notin free' /\ buf'[b] = disk[b]
    BY <1>2, <1>3, Zenon
  <2> QED BY <1>1, <1>2, <2>1, <2>2, StillSafe, DiskStill, ZenonT(60)
<1> QED BY <1>1, <1>2, <1>7, <1>8, <1>9, <1>10, ZenonT(60) DEF Rest

(* Once every dirty block is written the new superblock describes what is  *)
(* in memory, and that is on the disk.                                     *)
LEMMA NewSuperGood ==
  ASSUME VersionInv, pc = "super"
  PROVE  /\ Intact(NewSuper) /\ OutOfReach(NewSuper) /\ NewSuper.gen = trans.transid
         /\ Reach(disk, NewSuper) = Live
         /\ disk[AddrOf(disk, NewSuper, EXT)].items = Reach(disk, NewSuper)
         /\ \A x \in Tree : AddrOf(disk, NewSuper, x) = node[x] /\ disk[node[x]] = buf[node[x]]
<1>1. TypeOK /\ MemShape /\ RootsShape /\ Phase /\ trans # None /\ trans.transid = generation
      /\ dirty = {} /\ dirtyRoots = {} /\ buf[node[ROOT]].gen = trans.transid
  BY Zenon DEF VersionInv, CommitContext, Phase
<1>2. /\ NewSuper.gen = trans.transid /\ NewSuper.root = node[ROOT] /\ NewSuper.chunk = node[CHUNK]
  BY Zenon DEF NewSuper
<1>3. \A b \in Live : buf[b] = disk[b]
  BY <1>1, Zenon DEF MemShape
<1>4. \A x \in Tree : node[x] \in Live /\ buf[node[x]].kids \subseteq Live
  BY ZenonT(60) DEF Live
<1>5. \A x \in ItemTree : /\ buf[node[ROOT]].roots[x].bytenr = node[x]
                          /\ buf[node[ROOT]].roots[x].gen = buf[node[x]].gen
  BY <1>1, Zenon DEF RootsShape, Lags
<1>6. \A x \in Tree : AddrOf(disk, NewSuper, x) = node[x]
  BY <1>2, <1>3, <1>4, <1>5, TreesExist, TreeAssumption DEF AddrOf, Tree
<1>7. \A x \in Tree : disk[node[x]] = buf[node[x]]
  BY <1>3, <1>4, Zenon
<1>8. Reach(disk, NewSuper) = Live
  BY <1>6, <1>7 DEF Reach, Live
<1>9. \A x \in Tree : \A b \in {node[x]} \cup buf[node[x]].kids :
        disk[b].tree = x /\ disk[b].gen <= trans.transid
  BY <1>1, <1>3, <1>4 DEF MemShape, Own
<1>10. Readable(NewSuper)
  <2>1. /\ disk[node[ROOT]] = buf[node[ROOT]] /\ disk[node[ROOT]].tree = ROOT
        /\ disk[node[CHUNK]].tree = CHUNK
    BY <1>7, <1>9, TreesExist, Zenon
  <2>2. ASSUME NEW x \in ItemTree
        PROVE  LET r == disk[NewSuper.root].roots[x]
               IN disk[r.bytenr].tree = x /\ disk[r.bytenr].gen = r.gen
    <3>1. disk[node[x]].tree = x /\ disk[node[x]].gen = buf[node[x]].gen
      BY <1>7, <1>9, TreesExist, Zenon
    <3>2. disk[NewSuper.root].roots[x].bytenr = node[x]
          /\ disk[NewSuper.root].roots[x].gen = buf[node[x]].gen
      BY <1>2, <1>5, <2>1, ZenonT(60)
    <3> QED BY <3>1, <3>2, Zenon
  <2> QED BY <1>1, <1>2, <2>1, <2>2, Zenon DEF Readable
<1>11. Intact(NewSuper)
  <2>1. ASSUME NEW x \in Tree, NEW y \in Tree \ {x}
        PROVE  ({node[x]} \cup disk[node[x]].kids) \cap ({node[y]} \cup disk[node[y]].kids) = {}
    BY <1>7, <1>9, Zenon
  <2>2. \A x \in Tree : node[x] \notin disk[node[x]].kids
    BY <1>1, <1>7, Zenon DEF MemShape
  <2> QED BY <1>2, <1>6, <1>7, <1>9, <1>10, <2>1, <2>2 DEF Intact
<1>12. OutOfReach(NewSuper)
  BY <1>1, <1>3, <1>8, Zenon DEF OutOfReach, MemShape
<1>13. disk[AddrOf(disk, NewSuper, EXT)].items = Reach(disk, NewSuper)
  BY <1>1, <1>6, <1>7, <1>8, TreesExist, Zenon DEF MemShape
<1> QED BY <1>2, <1>6, <1>7, <1>8, <1>11, <1>12, <1>13, Zenon

(* __commit_transaction writes a dirty block, which no committed version   *)
(* reaches.                                                                *)
LEMMA WriteBlockReach ==
  ASSUME VersionInv, NEW b \in Block, WriteTreeBlock(b),
         NEW d \in Dev, NEW m \in Mirror, Newest(sb[d][m])
  PROVE  /\ \A c \in Reach(disk, sb[d][m]) : c # b /\ disk'[c] = disk[c] /\ buf'[c] = buf[c]
         /\ \A x \in Tree :
              /\ AddrOf(disk', sb[d][m], x) = AddrOf(disk, sb[d][m], x)
              /\ disk'[AddrOf(disk, sb[d][m], x)] = disk[AddrOf(disk, sb[d][m], x)]
<1> DEFINE s == sb[d][m]
<1>1. TypeOK /\ VersionSafe /\ opened /\ b \in dirty
  BY Zenon DEF VersionInv, WriteTreeBlock, CommitContext
<1>2. \A c \in Block : c # b => buf'[c] = buf[c] /\ disk'[c] = disk[c]
  BY <1>1, Zenon DEF TypeOK, WriteTreeBlock
<1>3. OutOfReach(s) /\ s \in Super
  BY <1>1, Zenon DEF VersionSafe, TypeOK
<1>4. Reach(disk, s) \subseteq Block
  BY <1>1, <1>3, ReachBlocks, Zenon
<1> HIDE DEF s
<1>5. \A c \in Reach(disk, s) : c # b /\ disk'[c] = disk[c] /\ buf'[c] = buf[c]
  BY <1>1, <1>2, <1>3, <1>4, Zenon DEF OutOfReach
<1>6. \A x \in Tree : AddrOf(disk, s, x) \in Reach(disk, s)
  BY Zenon DEF Reach
<1>7. s.root \in Reach(disk, s)
  BY <1>6, TreesExist, TreeAssumption, Zenon DEF AddrOf
<1>8. \A x \in Tree : AddrOf(disk', s, x) = AddrOf(disk, s, x)
  BY <1>5, <1>7, Zenon DEF AddrOf
<1>9. \A x \in Tree : disk'[AddrOf(disk, s, x)] = disk[AddrOf(disk, s, x)]
  BY <1>5, <1>6, Zenon
<1> QED BY <1>5, <1>8, <1>9, Zenon DEF s

(* So the write changes neither version.                                   *)
LEMMA WriteBlockKeeps ==
  ASSUME VersionInv, TypeOK', NEW b \in Block, WriteTreeBlock(b)
  PROVE  Rest'
<1>1. TypeOK /\ MemShape /\ RootsShape /\ Phase /\ VersionSafe /\ SupersAgree /\ opened
      /\ (\A c \in Block : disk[c].written) /\ pc = "write" /\ b \in dirty
  BY Zenon DEF VersionInv, WriteTreeBlock, CommitContext
<1>2. /\ buf' = [buf EXCEPT ![b].written = TRUE] /\ disk' = [disk EXCEPT ![b] = buf'[b]]
      /\ dirty' = dirty \ {b}
      /\ UNCHANGED <<sb, node, rootItem, dirtyRoots, pinned, free, pc, cur, sbTodo,
                     opened, generation, lastTrans, trans>>
  BY Zenon DEF WriteTreeBlock, pcVars, fsVars
<1>3. /\ \A c \in Block : c # b => buf'[c] = buf[c] /\ disk'[c] = disk[c]
      /\ disk'[b] = buf'[b] /\ buf'[b] = [buf[b] EXCEPT !.written = TRUE]
  BY <1>1, <1>2, Zenon DEF TypeOK
<1>4. /\ buf'[b].written /\ buf'[b].tree = buf[b].tree /\ buf'[b].gen = buf[b].gen
      /\ buf'[b].kids = buf[b].kids /\ buf'[b].items = buf[b].items /\ buf'[b].roots = buf[b].roots
  <2>1. buf[b] \in Content
    BY <1>1, Zenon DEF TypeOK
  <2> QED BY <1>3, <2>1, ZenonT(60) DEF Content
<1>5. \A c \in Block : /\ buf'[c].tree = buf[c].tree /\ buf'[c].gen = buf[c].gen
                       /\ buf'[c].kids = buf[c].kids /\ buf'[c].items = buf[c].items
                       /\ buf'[c].roots = buf[c].roots
  BY <1>3, <1>4, Zenon
<1>6. \A c \in Block : disk'[c].written
  BY <1>1, <1>3, <1>4, ZenonT(60)
<1>7. \A x \in Tree : node[x] \in Block /\ Own(x)' = Own(x) /\ Own(x) \subseteq Block
  BY <1>1, <1>2, <1>5 DEF TypeOK, Content, Own
<1>8. Live' = Live /\ Live \subseteq Block
  <2>1. \A x \in Tree : {node'[x]} \cup buf'[node'[x]].kids = {node[x]} \cup buf[node[x]].kids
                        /\ {node[x]} \cup buf[node[x]].kids \subseteq Block
    BY <1>7, Zenon DEF Own
  <2> QED BY <2>1, Zenon DEF Live
<1>9. MemShape'
  <2>1. \A x \in Tree : \A c \in Own(x)' : buf'[c].tree = x /\ buf'[c].gen <= generation'
    BY <1>1, <1>2, <1>5, <1>7 DEF MemShape
  <2>2. \A x \in Tree : node'[x] \notin buf'[node'[x]].kids
    BY <1>1, <1>2, <1>5, <1>7 DEF MemShape
  <2>3. buf'[node'[EXT]].items = Live'
    BY <1>1, <1>2, <1>5, <1>7, <1>8, TreesExist, ZenonT(60) DEF MemShape
  <2>4. \A c \in Live' : c \notin dirty' => buf'[c] = disk'[c]
    BY <1>1, <1>2, <1>3, <1>8, ZenonT(60) DEF MemShape
  <2> QED BY <1>1, <1>2, <1>8, <2>1, <2>2, <2>3, <2>4, ZenonT(60) DEF MemShape
<1>10. RootsShape'
  BY <1>1, <1>2, <1>5, <1>7, TreesExist DEF RootsShape, Lags
<1>11. Phase'
  <2>1. buf'[node'[ROOT]].gen = buf[node[ROOT]].gen
    BY <1>2, <1>5, <1>7, TreesExist, ZenonT(60)
  <2> QED BY <1>1, <1>2, <2>1, Zenon DEF Phase
<1>12. SupersAgree'
  BY <1>1, <1>2 DEF SupersAgree, Newest
<1>13. VersionSafe'
  <2> SUFFICES ASSUME NEW d \in Dev, NEW m \in Mirror, Newest(sb[d][m])'
               PROVE  /\ Intact(sb[d][m])'
                      /\ disk'[AddrOf(disk', sb'[d][m], EXT)].items = Reach(disk', sb'[d][m])
                      /\ OutOfReach(sb[d][m])'
    BY Zenon DEF VersionSafe
  <2> DEFINE s == sb[d][m]
  <2>1. Newest(s) /\ s \in Super /\ sb'[d][m] = s
    BY <1>1, <1>2 DEF Newest, TypeOK
  <2>2. Intact(s) /\ disk[AddrOf(disk, s, EXT)].items = Reach(disk, s) /\ OutOfReach(s)
        /\ Reach(disk, s) \subseteq Block
    BY <1>1, <2>1, ReachBlocks, Zenon DEF VersionSafe
  <2> HIDE DEF s
  <2>r. /\ \A c \in Reach(disk, s) : c # b /\ disk'[c] = disk[c] /\ buf'[c] = buf[c]
        /\ \A x \in Tree : /\ AddrOf(disk', s, x) = AddrOf(disk, s, x)
                           /\ disk'[AddrOf(disk, s, x)] = disk[AddrOf(disk, s, x)]
    BY <2>1, WriteBlockReach, ZenonT(60) DEF s
  <2>3. \A c \in Reach(disk, s) : c # b /\ disk'[c] = disk[c] /\ buf'[c] = buf[c]
    BY <2>r, Zenon
  <2>4. \A x \in Tree : AddrOf(disk, s, x) \in Reach(disk, s)
                        /\ disk[AddrOf(disk, s, x)].kids \subseteq Reach(disk, s)
    BY DEF Reach
  <2>5. s.root \in Reach(disk, s) /\ s.chunk \in Reach(disk, s)
    BY <2>4, TreesExist, TreeAssumption, Zenon DEF AddrOf
  <2>6. \A x \in Tree : AddrOf(disk', s, x) = AddrOf(disk, s, x)
    BY <2>r, Zenon
  <2>7. \A x \in Tree : disk'[AddrOf(disk, s, x)] = disk[AddrOf(disk, s, x)]
    BY <2>r, Zenon
  <2>8. Reach(disk', s) = Reach(disk, s)
    BY <2>6, <2>7, Zenon DEF Reach
  <2>9. OutOfReach(s)'
    <3>1. \A c \in Reach(disk, s) : c \notin dirty' /\ c \notin free' /\ buf'[c] = disk'[c]
      BY <1>2, <2>2, <2>3, Zenon DEF OutOfReach
    <3> QED BY <1>2, <2>1, <2>8, <3>1, Zenon DEF OutOfReach, s
  <2>10. Intact(s)'
    <3>1. Readable(s)'
      <4>1. \A x \in ItemTree : AddrOf(disk, s, x) = disk[s.root].roots[x].bytenr /\ x \in Tree
        BY TreesExist, TreeAssumption, Zenon DEF AddrOf
      <4>2. disk'[s.root] = disk[s.root] /\ disk'[s.chunk] = disk[s.chunk]
        BY <2>3, <2>5, Zenon
      <4>3. Readable(s)
        BY <2>2, Zenon DEF Intact
      <4>4. \A x \in ItemTree : LET r == disk[s.root].roots[x]
                              IN disk'[r.bytenr].tree = x /\ disk'[r.bytenr].gen = r.gen
        <5> TAKE x \in ItemTree
        <5> DEFINE r == disk[s.root].roots[x]
        <5>1. disk[r.bytenr].tree = x /\ disk[r.bytenr].gen = r.gen
          BY <4>3, Zenon DEF Readable
        <5>2. disk'[r.bytenr] = disk[r.bytenr]
          <6>1. AddrOf(disk, s, x) = r.bytenr /\ x \in Tree
            BY <4>1, Zenon
          <6>2. disk'[AddrOf(disk, s, x)] = disk[AddrOf(disk, s, x)]
            BY <2>7, <6>1, Zenon
          <6> HIDE DEF r
          <6> QED BY <6>1, <6>2, Zenon
        <5> QED BY <5>1, <5>2, ZenonT(60)
      <4>5. /\ disk'[s.root].tree = ROOT /\ disk'[s.root].gen = s.gen /\ disk'[s.chunk].tree = CHUNK
            /\ \A x \in ItemTree : LET r == disk'[s.root].roots[x]
                                 IN disk'[r.bytenr].tree = x /\ disk'[r.bytenr].gen = r.gen
        BY <4>2, <4>3, <4>4, ZenonT(60) DEF Readable
      <4>6. s' = s
        BY <2>1, Zenon DEF s
      <4> QED BY <4>5, <4>6, Zenon DEF Readable
    <3>2. ASSUME NEW x \in Tree
          PROVE  LET n == AddrOf(disk, s, x)
                 IN /\ \A k \in {n} \cup disk'[n].kids : disk'[k].tree = x /\ disk'[k].gen <= s.gen
                    /\ \A y \in Tree \ {x} :
                         LET o == AddrOf(disk, s, y)
                         IN ({n} \cup disk'[n].kids) \cap ({o} \cup disk'[o].kids) = {}
                    /\ n \notin disk'[n].kids
      <4> DEFINE n == AddrOf(disk, s, x)
      <4>1. /\ \A k \in {n} \cup disk[n].kids : disk[k].tree = x /\ disk[k].gen <= s.gen
            /\ \A y \in Tree \ {x} :
                 LET o == AddrOf(disk, s, y)
                 IN ({n} \cup disk[n].kids) \cap ({o} \cup disk[o].kids) = {}
            /\ n \notin disk[n].kids
        BY <2>2, Zenon DEF Intact
      <4>2. disk'[n] = disk[n] /\ \A k \in {n} \cup disk[n].kids : disk'[k] = disk[k]
        BY <2>3, <2>4, <2>7, Zenon
      <4>3. \A y \in Tree : disk'[AddrOf(disk, s, y)].kids = disk[AddrOf(disk, s, y)].kids
        BY <2>7, Zenon
      <4> HIDE DEF n
      <4>4. /\ \A k \in {n} \cup disk'[n].kids : disk'[k].tree = x /\ disk'[k].gen <= s.gen
            /\ n \notin disk'[n].kids
        BY <4>1, <4>2, Zenon
      <4>5. \A y \in Tree \ {x} :
              LET o == AddrOf(disk, s, y)
              IN ({n} \cup disk'[n].kids) \cap ({o} \cup disk'[o].kids) = {}
        BY <4>1, <4>2, <4>3, Zenon
      <4> QED BY <4>4, <4>5, Zenon DEF n
    <3>3. s' = s
      BY <2>1, Zenon DEF s
    <3>4. \A x \in Tree : AddrOf(disk', s', x) = AddrOf(disk, s, x)
      BY <2>6, <3>3, Zenon
    <3> QED BY <3>1, <3>2, <3>3, <3>4, ZenonT(60) DEF Intact
  <2> QED BY <2>1, <2>2, <2>6, <2>7, <2>8, <2>9, <2>10, TreesExist, ZenonT(60) DEF s
<1> QED BY <1>6, <1>9, <1>10, <1>11, <1>12, <1>13, ZenonT(60) DEF Rest

(* The first copy of the new superblock that is written is newer than all  *)
(* the others, and from then on only its twins are as new.                 *)
LEMMA WriteSuperNewest ==
  ASSUME VersionInv, TypeOK', NEW d \in Dev, NEW m \in Mirror, WriteSuper(d, m)
  PROVE  /\ NewSuper' = NewSuper /\ sb'[d][m] = NewSuper
         /\ \A e \in Dev, k \in Mirror : sb'[e][k].gen <= NewSuper.gen
         /\ \A e \in Dev, k \in Mirror : Newest(sb[e][k])' => sb'[e][k] = NewSuper
         /\ \A e \in Dev, k \in Mirror :
              IF <<e, k>> \in sbTodo' THEN sb'[e][k].gen < trans.transid ELSE sb'[e][k] = NewSuper
<1>1. TypeOK /\ MemShape /\ RootsShape /\ Phase /\ opened /\ pc = "super" /\ trans # None
      /\ trans.transid = generation /\ (\A b \in Block : disk[b].written) /\ generation \in Nat
  BY Zenon DEF VersionInv, WriteSuper, CommitContext, Phase, TypeOK
<1>2. /\ sb' = [sb EXCEPT ![d][m] = NewSuper] /\ sbTodo' = sbTodo \ {<<d, m>>}
      /\ UNCHANGED <<disk, node, buf, rootItem, dirty, dirtyRoots, pinned, free, bgUsed, pc, cur,
                     opened, generation, lastTrans, trans>>
  BY Zenon DEF WriteSuper, memVars, fsVars
<1>3. /\ sb'[d][m] = NewSuper
      /\ \A e \in Dev, k \in Mirror : <<e, k>> # <<d, m>> => sb'[e][k] = sb[e][k]
  BY <1>1, <1>2, Zenon DEF TypeOK
<1>4. NewSuper' = NewSuper /\ NewSuper.gen = trans.transid
  BY <1>2, Zenon DEF NewSuper
<1>5. \A e \in Dev, k \in Mirror :
        IF <<e, k>> \in sbTodo' THEN sb'[e][k].gen < trans.transid ELSE sb'[e][k] = NewSuper
  <2> TAKE e \in Dev, k \in Mirror
  <2>1. IF <<e, k>> \in sbTodo THEN sb[e][k].gen < trans.transid ELSE sb[e][k] = NewSuper
    BY <1>1, Zenon DEF Phase
  <2>2. CASE <<e, k>> = <<d, m>>
    BY <1>2, <1>3, <2>2, Zenon
  <2>3. CASE <<e, k>> # <<d, m>>
    BY <1>2, <1>3, <2>1, <2>3, Zenon
  <2> QED BY <2>2, <2>3, Zenon
<1>6. \A e \in Dev, k \in Mirror : sb'[e][k].gen \in Nat
  BY Zenon DEF TypeOK, Super
<1>7. \A e \in Dev, k \in Mirror : Newest(sb[e][k])' => sb'[e][k] = NewSuper
  <2> SUFFICES ASSUME NEW e \in Dev, NEW k \in Mirror, Newest(sb[e][k])' PROVE sb'[e][k] = NewSuper
    BY Zenon
  <2>1. trans.transid <= sb'[e][k].gen
    BY <1>3, <1>4, Zenon DEF Newest
  <2>2. ~(sb'[e][k].gen < trans.transid)
    BY <1>1, <1>6, <2>1
  <2> QED BY <1>5, <2>2, Zenon
<1>8. \A e \in Dev, k \in Mirror : sb'[e][k].gen <= NewSuper.gen
  <2> TAKE e \in Dev, k \in Mirror
  <2>1. CASE sb'[e][k].gen < trans.transid
    BY <1>1, <1>4, <1>6, <2>1
  <2>2. CASE sb'[e][k] = NewSuper
    BY <1>1, <1>4, <2>2
  <2> QED BY <1>5, <2>1, <2>2, Zenon
<1> QED BY <1>3, <1>4, <1>5, <1>7, <1>8, Zenon

(* write_dev_supers: the first copy written makes the new version the      *)
(* newest one, and it is complete by then.                                 *)
LEMMA WriteSuperKeeps ==
  ASSUME VersionInv, TypeOK', NEW d \in Dev, NEW m \in Mirror, WriteSuper(d, m)
  PROVE  Rest'
<1>1. TypeOK /\ MemShape /\ RootsShape /\ Phase /\ opened /\ pc = "super" /\ trans # None
      /\ trans.transid = generation /\ (\A b \in Block : disk[b].written) /\ generation \in Nat
  BY Zenon DEF VersionInv, WriteSuper, CommitContext, Phase, TypeOK
<1>2. /\ sb' = [sb EXCEPT ![d][m] = NewSuper] /\ sbTodo' = sbTodo \ {<<d, m>>}
      /\ UNCHANGED <<disk, node, buf, rootItem, dirty, dirtyRoots, pinned, free, bgUsed, pc, cur,
                     opened, generation, lastTrans, trans>>
  BY Zenon DEF WriteSuper, memVars, fsVars
<1>3. /\ sb'[d][m] = NewSuper
      /\ \A e \in Dev, k \in Mirror : <<e, k>> # <<d, m>> => sb'[e][k] = sb[e][k]
  BY <1>1, <1>2, Zenon DEF TypeOK
<1>4. NewSuper' = NewSuper /\ NewSuper.gen = trans.transid
  BY <1>2, Zenon DEF NewSuper
<1>5. \A e \in Dev, k \in Mirror :
        IF <<e, k>> \in sbTodo' THEN sb'[e][k].gen < trans.transid ELSE sb'[e][k] = NewSuper
  BY WriteSuperNewest, Zenon
<1>7. \A e \in Dev, k \in Mirror : Newest(sb[e][k])' => sb'[e][k] = NewSuper
  BY WriteSuperNewest, Zenon
<1>8. SupersAgree'
  BY <1>7, Zenon DEF SupersAgree
<1>9. Intact(NewSuper) /\ OutOfReach(NewSuper)
      /\ disk[AddrOf(disk, NewSuper, EXT)].items = Reach(disk, NewSuper)
  BY <1>1, NewSuperGood, Zenon
<1>10. VersionSafe'
  <2> SUFFICES ASSUME NEW e \in Dev, NEW k \in Mirror, Newest(sb[e][k])'
               PROVE  /\ Intact(sb[e][k])'
                      /\ disk'[AddrOf(disk', sb'[e][k], EXT)].items = Reach(disk', sb'[e][k])
                      /\ OutOfReach(sb[e][k])'
    BY Zenon DEF VersionSafe
  <2>1. sb'[e][k] = NewSuper
    BY <1>7, Zenon
  <2>2. Intact(sb[e][k])'
    <3>1. Readable(sb[e][k])'
      BY <1>2, <1>9, <2>1, Zenon DEF Intact, Readable
    <3> QED BY <1>2, <1>9, <2>1, <3>1, ZenonT(60) DEF Intact
  <2>3. OutOfReach(sb[e][k])'
    BY <1>2, <1>9, <2>1, Zenon DEF OutOfReach
  <2> QED BY <1>2, <1>9, <2>1, <2>2, <2>3, ZenonT(60)
<1>11. MemShape'
  <2>1. Live' = Live /\ \A x \in Tree : Own(x)' = Own(x)
    BY <1>2, Zenon DEF Live, Own
  <2> QED BY <1>1, <1>2, <2>1, Zenon DEF MemShape
<1>12. RootsShape'
  BY <1>1, <1>2, Zenon DEF RootsShape, Lags
<1>13. Phase'
  <2>1. \A e \in Dev, k \in Mirror : sb'[e][k].gen <= generation
    BY <1>1, <1>4, WriteSuperNewest, Zenon
  <2>2. /\ dirty' = {} /\ dirtyRoots' = {} /\ trans'.transid = generation'
        /\ buf'[node'[ROOT]].gen = trans'.transid
    BY <1>1, <1>2, Zenon DEF Phase
  <2>3. pc' = "super" /\ trans' # None /\ generation' = generation /\ trans' = trans
    BY <1>1, <1>2, Zenon
  <2> QED BY <1>4, <1>5, <2>1, <2>2, <2>3, ZenonT(60) DEF Phase
<1> QED BY <1>1, <1>2, <1>8, <1>10, <1>11, <1>12, <1>13, Zenon DEF Rest

(* btrfs_finish_extent_commit gives the pinned blocks back: by then only   *)
(* the version they were freed from reaches them, and it is not the newest.*)
LEMMA FinishKeeps ==
  ASSUME VersionInv, TypeOK', FinishCommit
  PROVE  Rest'
<1>1. TypeOK /\ MemShape /\ RootsShape /\ Phase /\ VersionSafe /\ SupersAgree /\ opened
      /\ pc = "super" /\ sbTodo = {} /\ trans # None /\ trans.transid = generation
      /\ dirtyRoots = {} /\ \A b \in Block : disk[b].written
  BY Zenon DEF VersionInv, FinishCommit, CommitContext, Phase
<1>2. /\ free' = free \cup pinned /\ pinned' = {} /\ trans' = None /\ lastTrans' = trans.transid
      /\ pc' = "idle"
      /\ UNCHANGED <<disk, sb, node, buf, rootItem, dirty, dirtyRoots, opened, generation>>
  BY Zenon DEF FinishCommit, Unpin, EndTransaction, diskVars
<1>3. \A d \in Dev, m \in Mirror : sb[d][m] = NewSuper
  BY <1>1, Zenon DEF Phase
<1>4. Reach(disk, NewSuper) = Live /\ OutOfReach(NewSuper)
  BY <1>1, NewSuperGood, Zenon
<1>5. \A b \in Live : b \notin pinned
  BY <1>1, Zenon DEF MemShape
<1>6. VersionSafe' /\ SupersAgree'
  <2>1. \A b \in Reach(disk, NewSuper) : b \notin dirty' /\ b \notin free' /\ buf'[b] = disk[b]
    BY <1>2, <1>4, <1>5, Zenon DEF OutOfReach
  <2> QED BY <1>1, <1>2, <1>3, <2>1, StillSafe, DiskStill, ZenonT(60)
<1>7. MemShape'
  <2>1. Live' = Live /\ \A x \in Tree : Own(x)' = Own(x)
    BY <1>2, Zenon DEF Live, Own
  <2>2. /\ Live' \cup pinned' \cup free' = Block
        /\ Live' \cap pinned' = {} /\ Live' \cap free' = {} /\ pinned' \cap free' = {}
    BY <1>1, <1>2, <2>1, ZenonT(60) DEF MemShape
  <2> QED BY <1>1, <1>2, <2>1, <2>2 DEF MemShape
<1>8. RootsShape'
  BY <1>1, <1>2, Zenon DEF RootsShape, Lags
<1>9. Phase'
  BY <1>1, <1>2, Zenon DEF Phase
<1> QED BY <1>1, <1>2, <1>6, <1>7, <1>8, <1>9, Zenon DEF Rest

(* A step of the commit that moves on without copying anything.            *)
LEMMA MoveOnKeeps ==
  ASSUME VersionInv, opened, trans # None, pc \notin {"super"},
         UNCHANGED <<disk, sb, node, buf, rootItem, dirty, pinned, free, opened, generation,
                     lastTrans, trans>>,
         dirtyRoots' \subseteq dirtyRoots,
         \A x \in ItemTree : rootItem[x] # node[x] =>
           \/ x \in dirtyRoots'
           \/ x \in SubVol /\ x = trans.root /\ pc' = "idle"
           \/ pc' = "groups" /\ cur' = x,
         Phase'
  PROVE  Rest'
<1>1. MemShape /\ RootsShape /\ VersionSafe /\ SupersAgree /\ \A b \in Block : disk[b].written
  BY Zenon DEF VersionInv
<1>2. VersionSafe' /\ SupersAgree'
  BY <1>1, StillSafe, DiskStill, Zenon DEF VersionSafe, OutOfReach
<1>3. MemShape'
  <2>1. Live' = Live /\ \A x \in Tree : Own(x)' = Own(x)
    BY Zenon DEF Live, Own
  <2> QED BY <1>1, <2>1, Zenon DEF MemShape
<1>4. RootsShape'
  BY <1>1, Zenon DEF RootsShape, Lags
<1> QED BY <1>1, <1>2, <1>3, <1>4, Zenon DEF Rest

(* Every step keeps what remains of the invariant.                         *)
LEMMA NextKeeps == VersionInv /\ TypeOK' /\ [Next]_vars => Rest'
<1> SUFFICES ASSUME VersionInv, TypeOK', [Next]_vars PROVE Rest'
  BY Zenon
<1> USE DEF fsVars, memVars, diskVars, pcVars
<1>0. TypeOK /\ bgDirty \in BOOLEAN /\ bgUsed \in Int
  BY Zenon DEF VersionInv, TypeOK
<1>1. ASSUME NEW d \in Dev, NEW s \in {sb[d][m] : m \in Mirror}, Open(d, s) PROVE Rest'
  BY <1>1, OpenKeeps, Zenon
<1>2. ASSUME NEW r \in StartRoot, Start(r) PROVE Rest'
  <2>1. opened /\ pc = "idle" /\ trans = None /\ MemShape /\ RootsShape /\ Phase /\ VersionSafe
        /\ SupersAgree /\ (\A b \in Block : disk[b].written) /\ generation \in Nat
        /\ \A d \in Dev, m \in Mirror : sb[d][m].gen \in Nat
    BY <1>0, <1>2 DEF VersionInv, Start, TypeOK, Super
  <2>2. /\ generation' = generation + 1
        /\ trans' = [transid |-> generation + 1, root |-> r, commitRoot |-> node[r]]
        /\ UNCHANGED <<disk, sb, opened, lastTrans, node, buf, rootItem, dirty, dirtyRoots, pinned,
                       free, pc, cur, sbTodo>>
    BY <1>2, Zenon DEF Start
  <2>3. VersionSafe' /\ SupersAgree'
    BY <2>1, <2>2, StillSafe, DiskStill, ZenonT(60) DEF VersionSafe, OutOfReach
  <2>4. MemShape'
    <3>1. Live' = Live /\ \A x \in Tree : Own(x)' = Own(x)
      BY <2>2, Zenon DEF Live, Own
    <3>2. \A x \in Tree : \A b \in Own(x) : buf[b].gen \in Nat
      BY <1>0, ZenonT(60) DEF TypeOK, Content, Own
    <3>3. \A x \in Tree : \A b \in Own(x)' : buf'[b].tree = x /\ buf'[b].gen <= generation'
      BY <2>1, <2>2, <3>1, <3>2 DEF MemShape
    <3> QED BY <2>1, <2>2, <3>1, <3>3, Zenon DEF MemShape
  <2>5. RootsShape'
    BY <2>1, <2>2, Zenon DEF RootsShape, Lags
  <2>6. Phase'
    <3>1. \A x \in ItemTree : rootItem[x] = node[x]
      BY <2>1, ZenonT(60) DEF RootsShape, Lags
    <3>2. \A d \in Dev, m \in Mirror : sb'[d][m].gen <= generation' /\ sb'[d][m].gen < trans'.transid
      <4>1. \A d \in Dev, m \in Mirror : sb[d][m].gen <= generation
        BY <2>1, Zenon DEF Phase
      <4> QED BY <2>1, <2>2, <4>1
    <3>3. trans' # None
      BY <1>0, <2>1, <2>2, ParamAssumption DEF TypeOK
    <3> QED BY <2>1, <2>2, <3>1, <3>2, <3>3, Zenon DEF Phase
  <2> QED BY <2>1, <2>2, <2>3, <2>4, <2>5, <2>6, ZenonT(60) DEF Rest
<1>3. ASSUME NEW t \in UserTree, NEW v \in Val, Modify(t, v) PROVE Rest'
  <2>1. SetVal(v) \in [Content -> Content] /\ Harmless(SetVal(v))
        /\ \A c \in Content : SetVal(v)[c].roots = c.roots
    BY <1>0, UpdType, HarmlessUpdates, Zenon
  <2>2. {} \in SUBSET buf[node[t]].kids
    BY Zenon
  <2> QED BY <1>3, <2>1, <2>2, UserKeeps, Zenon DEF Modify
<1>4. ASSUME NEW t \in UserTree, AddLeaf(t) PROVE Rest'
  <2>1. Nothing \in [Content -> Content] /\ Harmless(Nothing)
        /\ \A c \in Content : Nothing[c].roots = c.roots
    BY <1>0, UpdType, HarmlessUpdates, Zenon
  <2>2. {} \in SUBSET buf[node[t]].kids
    BY Zenon
  <2> QED BY <1>4, <2>1, <2>2, UserKeeps, Zenon DEF AddLeaf
<1>5. ASSUME NEW t \in UserTree, NEW b \in Block, DelLeaf(t, b) \/ CowLeaf(t, b) PROVE Rest'
  <2>1. Nothing \in [Content -> Content] /\ Harmless(Nothing)
        /\ \A c \in Content : Nothing[c].roots = c.roots
    BY <1>0, UpdType, HarmlessUpdates, Zenon
  <2>2. {b} \in SUBSET buf[node[t]].kids
    BY <1>5, Zenon DEF DelLeaf, CowLeaf
  <2>3. CASE DelLeaf(t, b)
    BY <2>1, <2>2, <2>3, UserKeeps, Zenon DEF DelLeaf
  <2>4. CASE CowLeaf(t, b)
    BY <2>1, <2>2, <2>4, UserKeeps, ZenonT(60) DEF CowLeaf
  <2> QED BY <1>5, <2>3, <2>4, Zenon
<1>6. CASE Abort
  <2>1. opened /\ trans # None /\ pc = "idle" /\ Phase /\ RootsShape
    BY <1>6, Zenon DEF Abort, InTrans, VersionInv
  <2>2. Phase'
    BY <1>6, <2>1, ZenonT(60) DEF Abort, Phase
  <2> QED BY <1>6, <2>1, <2>2, MoveOnKeeps, Zenon DEF Abort, RootsShape, Lags
<1>7. CASE CommitRoot
  <2> DEFINE r == trans.root
  <2>1. opened /\ trans # None /\ pc = "idle" /\ pc' = "cowroot" /\ cur' = cur /\ CommitFrame
        /\ RootsShape /\ Phase /\ r \in Tree
    BY <1>0, <1>7, TransType, ZenonT(60) DEF CommitRoot, InTrans, VersionInv
  <2>2. CASE trans.commitRoot = node[r] \/ r \in {ROOT, CHUNK}
    <3>1. UNCHANGED <<node, buf, rootItem, dirty, dirtyRoots, pinned, free>>
      BY <1>7, <2>2, ZenonT(60) DEF CommitRoot
    <3>2. Phase'
      BY <2>1, <3>1, ZenonT(60) DEF Phase, CommitFrame
    <3>3. \A x \in ItemTree : rootItem[x] # node[x] => x \in dirtyRoots'
      BY <2>1, <2>2, <3>1, TreeAssumption, Zenon DEF RootsShape, Lags, Phase
    <3> QED BY <2>1, <3>1, <3>2, <3>3, MoveOnKeeps, Zenon DEF CommitFrame
  <2>3. CASE ~(trans.commitRoot = node[r] \/ r \in {ROOT, CHUNK})
    <3>1. Change(ROOT, FALSE, {}, SetItem(r), bgDirty) /\ rootItem' = [rootItem EXCEPT ![r] = node[r]]
      BY <1>7, <2>3, Zenon DEF CommitRoot
    <3>2. r \in ItemTree /\ rootItem[r] # node[r]
      BY <2>1, <2>3, Zenon DEF Phase, Tree
    <3> DEFINE I == [buf[node[ROOT]].roots EXCEPT
                       ![r] = [bytenr |-> node[r], gen |-> trans.transid]]
    <3>3. Recorded(rootItem', I)
      BY <1>0, <2>1, <3>1, <3>2, RecordedNext, ZenonT(60)
    <3>4. SetItem(r) \in [Content -> Content] /\ Harmless(SetItem(r))
      BY <1>0, <2>1, <3>2, UpdType, HarmlessUpdates, Zenon
    <3>5. \A c \in Content : c.roots = buf[node[ROOT]].roots => SetItem(r)[c].roots = I
      <4>1. \A c \in Content : SetItem(r)[c].roots =
              [c.roots EXCEPT ![r] = [bytenr |-> node[r], gen |-> trans.transid]]
        BY <1>0, <3>2, HarmlessUpdates, Zenon
      <4> QED BY <4>1, Zenon
    <3>6. \A x \in ItemTree : rootItem'[x] # node[x] => x \in dirtyRoots
      BY <1>0, <2>1, <3>1, <3>2, ZenonT(60) DEF RootsShape, Lags, TypeOK
    <3>7. ROOT # EXT
      BY TreeAssumption, Zenon DEF ItemTree, CowOnly
    <3> HIDE DEF I, r
    <3> QED BY <1>0, <2>1, <3>1, <3>3, <3>4, <3>5, <3>6, <3>7, CommitKeeps, ZenonT(60)
  <2> QED BY <2>2, <2>3, Zenon
<1>8. CASE CommitCowRoot
  <2>1. trans # None /\ pc = "cowroot" /\ pc' = "roots" /\ rootItem' = rootItem /\ CommitFrame
        /\ RootsShape /\ Change(ROOT, FALSE, {}, Nothing, bgDirty)
    BY <1>8, Zenon DEF CommitCowRoot, VersionInv, CommitContext
  <2>2. Recorded(rootItem', buf[node[ROOT]].roots)
    BY <2>1, RecordedNow, Zenon
  <2>3. Nothing \in [Content -> Content] /\ Harmless(Nothing)
        /\ \A c \in Content : c.roots = buf[node[ROOT]].roots => Nothing[c].roots = buf[node[ROOT]].roots
    BY <1>0, UpdType, HarmlessUpdates, Zenon
  <2>4. \A x \in ItemTree : rootItem'[x] # node[x] => x \in dirtyRoots
    BY <2>1, Zenon DEF RootsShape, Lags
  <2>5. ROOT # EXT
    BY TreeAssumption, Zenon DEF ItemTree, CowOnly
  <2> QED BY <1>0, <2>1, <2>2, <2>3, <2>4, <2>5, CommitKeeps, ZenonT(60)
<1>9. ASSUME NEW t \in CowOnly, NextDirtyRoot(t) PROVE Rest'
  <2>1. opened /\ trans # None /\ pc = "roots" /\ RootsShape /\ Phase
    BY <1>9, ZenonT(60) DEF NextDirtyRoot, VersionInv, CommitContext
  <2>2. Phase'
    BY <1>9, <2>1, ZenonT(60) DEF NextDirtyRoot, CommitFrame, Phase
  <2>3. \A x \in ItemTree : rootItem[x] # node[x] => x \in dirtyRoots' \/ (pc' = "groups" /\ cur' = x)
    BY <1>9, <2>1, Zenon DEF NextDirtyRoot, RootsShape, Lags
  <2> QED BY <1>9, <2>1, <2>2, <2>3, MoveOnKeeps, ZenonT(60) DEF NextDirtyRoot, CommitFrame
<1>10. CASE WriteOneCacheGroup
  <2>1. trans # None /\ pc = "groups" /\ pc' = pc /\ cur' = cur /\ rootItem' = rootItem /\ CommitFrame
        /\ RootsShape /\ Change(EXT, FALSE, {}, SetUsed(bgUsed), FALSE)
    BY <1>10, ZenonT(60) DEF WriteOneCacheGroup, VersionInv, CommitContext
  <2>2. Recorded(rootItem', buf[node[ROOT]].roots)
    BY <2>1, RecordedNow, Zenon
  <2>3. SetUsed(bgUsed) \in [Content -> Content] /\ Harmless(SetUsed(bgUsed))
    BY <1>0, UpdType, HarmlessUpdates, ZenonT(60)
  <2>4. \A x \in ItemTree : rootItem'[x] # node[x] => x \in dirtyRoots \/ (pc' = "groups" /\ cur' = x)
    BY <2>1, Zenon DEF RootsShape, Lags
  <2>5. ROOT # EXT
    BY TreeAssumption, Zenon DEF ItemTree, CowOnly
  <2> QED BY <2>1, <2>2, <2>3, <2>4, <2>5, CommitKeeps, Zenon
<1>11. CASE UpdateCowonlyRoot
  <2>1. opened /\ trans # None /\ pc = "groups" /\ cur \in ItemTree /\ CommitFrame /\ RootsShape /\ Phase
    BY <1>11, Zenon DEF UpdateCowonlyRoot, VersionInv, CommitContext, ItemTree
  <2>2. CASE rootItem[cur] = node[cur]
    <3>1. pc' = "roots" /\ UNCHANGED <<node, buf, rootItem, dirty, dirtyRoots, pinned, free>>
      BY <1>11, <2>2, ZenonT(60) DEF UpdateCowonlyRoot
    <3>2. Phase'
      BY <2>1, <3>1, ZenonT(60) DEF Phase, CommitFrame
    <3>3. \A x \in ItemTree : rootItem[x] # node[x] => x \in dirtyRoots'
      BY <2>1, <2>2, <3>1, Zenon DEF RootsShape, Lags
    <3> QED BY <2>1, <3>1, <3>2, <3>3, MoveOnKeeps, ZenonT(60) DEF CommitFrame
  <2>3. CASE rootItem[cur] # node[cur]
    <3>1. Change(ROOT, FALSE, {}, SetItem(cur), bgDirty) /\ pc' = pc /\ cur' = cur
          /\ rootItem' = [rootItem EXCEPT ![cur] = node[cur]]
      BY <1>11, <2>3, Zenon DEF UpdateCowonlyRoot
    <3> DEFINE I == [buf[node[ROOT]].roots EXCEPT
                       ![cur] = [bytenr |-> node[cur], gen |-> trans.transid]]
    <3>2. Recorded(rootItem', I)
      BY <1>0, <2>1, <2>3, <3>1, RecordedNext, ZenonT(60)
    <3>3. SetItem(cur) \in [Content -> Content] /\ Harmless(SetItem(cur))
      BY <1>0, <2>1, UpdType, HarmlessUpdates, ZenonT(60)
    <3>4. \A c \in Content : c.roots = buf[node[ROOT]].roots => SetItem(cur)[c].roots = I
      <4>1. \A c \in Content : SetItem(cur)[c].roots =
              [c.roots EXCEPT ![cur] = [bytenr |-> node[cur], gen |-> trans.transid]]
        BY <1>0, <2>1, HarmlessUpdates, Zenon
      <4> QED BY <4>1, Zenon
    <3>5. \A x \in ItemTree : rootItem'[x] # node[x] => x \in dirtyRoots
      BY <1>0, <2>1, <3>1, ZenonT(60) DEF RootsShape, Lags, TypeOK
    <3>6. ROOT # EXT
      BY TreeAssumption, Zenon DEF ItemTree, CowOnly
    <3> HIDE DEF I
    <3> QED BY <1>0, <2>1, <3>1, <3>2, <3>3, <3>4, <3>5, <3>6, CommitKeeps, ZenonT(60)
  <2> QED BY <2>2, <2>3, Zenon
<1>12. CASE RootsDone
  <2>1. opened /\ trans # None /\ pc = "roots" /\ dirtyRoots = {} /\ RootsShape /\ Phase
    BY <1>12, ZenonT(60) DEF RootsDone, VersionInv, CommitContext
  <2>2. Phase'
    BY <1>12, <2>1, Zenon DEF RootsDone, CommitFrame, Phase
  <2> QED BY <1>12, <2>1, <2>2, MoveOnKeeps, Zenon DEF RootsDone, CommitFrame, RootsShape, Lags
<1>13. ASSUME NEW b \in Block, WriteTreeBlock(b) PROVE Rest'
  BY <1>13, WriteBlockKeeps, Zenon
<1>14. CASE BlocksDone
  <2>1. opened /\ trans # None /\ pc = "write" /\ pc' = "super" /\ dirty = {} /\ sbTodo' = Dev \X Mirror
        /\ RootsShape /\ Phase
    BY <1>14, Zenon DEF BlocksDone, VersionInv, CommitContext
  <2>2. Phase'
    BY <1>14, <2>1, Zenon DEF BlocksDone, Phase
  <2> QED BY <1>14, <2>1, <2>2, MoveOnKeeps, ZenonT(60) DEF BlocksDone, RootsShape, Lags, Phase
<1>15. ASSUME NEW d \in Dev, NEW m \in Mirror, WriteSuper(d, m) PROVE Rest'
  BY <1>15, WriteSuperKeeps, Zenon
<1>16. CASE FinishCommit
  BY <1>16, FinishKeeps, Zenon
<1>17. CASE Close \/ Crash
  <2>1. opened' = FALSE /\ UNCHANGED <<disk, sb>>
    BY <1>17, Zenon DEF Close, Crash, Forget
  <2>2. VersionSafe /\ SupersAgree /\ \A b \in Block : disk[b].written
    BY Zenon DEF VersionInv
  <2> QED BY <2>1, <2>2, StillSafe, DiskStill, ZenonT(60) DEF Rest
<1>18. CASE UNCHANGED vars
  <2>1. UNCHANGED <<disk, sb, opened, generation, lastTrans, trans, node, buf, rootItem, dirty,
                    dirtyRoots, pinned, free, pc, cur, sbTodo>> /\ NewSuper' = NewSuper
    BY <1>18, Zenon DEF vars, NewSuper
  <2>2. VersionSafe' /\ SupersAgree'
    BY <2>1, StillSafe, DiskStill, ZenonT(60) DEF VersionInv, VersionSafe, OutOfReach
  <2>3. Live' = Live /\ \A x \in Tree : Own(x)' = Own(x)
    BY <2>1, Zenon DEF Live, Own
  <2>4. opened' => MemShape'
    BY <2>1, <2>3, ZenonT(60) DEF VersionInv, MemShape
  <2>5. opened' => RootsShape'
    BY <2>1, ZenonT(60) DEF VersionInv, RootsShape, Lags
  <2>6. opened' => Phase'
    BY <2>1, Zenon DEF VersionInv, Phase
  <2> QED BY <2>1, <2>2, <2>4, <2>5, <2>6, ZenonT(60) DEF VersionInv, Rest
<1> QED
  BY <1>1, <1>2, <1>3, <1>4, <1>5, <1>6, <1>7, <1>8, <1>9, <1>10, <1>11, <1>12, <1>13, <1>14,
     <1>15, <1>16, <1>17, <1>18, Zenon DEF Next, CommitStep

(* What mkfs writes, field by field.                                       *)
LEMMA MkfsFields ==
  ASSUME NEW t \in Tree
  PROVE  /\ MkfsContent(t).tree = t /\ MkfsContent(t).gen = 1 /\ MkfsContent(t).kids = {}
         /\ MkfsContent(t).written = TRUE
         /\ MkfsContent(t).roots = IF t = ROOT
              THEN [i \in ItemTree |-> [bytenr |-> InitNode[i], gen |-> 1]] ELSE NoItems
         /\ MkfsContent(t).items = IF t = EXT THEN {InitNode[i] : i \in Tree} ELSE {}
         /\ MkfsContent(t).used = IF t = EXT THEN Cardinality(Tree) ELSE 0
         /\ MkfsContent(t).val = Val0
BY Zenon DEF MkfsContent, Blank

(* Where mkfs put the trees, as its superblock leads to them.              *)
LEMMA MkfsLayout ==
  ASSUME Init
  PROVE  /\ \A d \in Dev, m \in Mirror : sb[d][m] = MkfsSuper
         /\ \A x \in Tree : /\ InitNode[x] \in Block /\ disk[InitNode[x]] = MkfsContent(x)
                            /\ AddrOf(disk, MkfsSuper, x) = InitNode[x]
         /\ \A x \in ItemTree : /\ disk[MkfsSuper.root].roots[x].bytenr = InitNode[x]
                                /\ disk[MkfsSuper.root].roots[x].gen = 1
<1> DEFINE s == MkfsSuper
<1>2. \A x \in Tree : InitNode[x] \in Block /\ disk[InitNode[x]] = MkfsContent(x)
  <2> TAKE x \in Tree
  <2>1. \E y \in Tree : InitNode[y] = InitNode[x]
    BY Zenon
  <2>2. (CHOOSE y \in Tree : InitNode[y] = InitNode[x]) = x
    BY BlockAssumption, Zenon
  <2> QED BY <2>1, <2>2, BlockAssumption, Zenon DEF Init
<1>3. \A d \in Dev, m \in Mirror : sb[d][m] = s
  BY Zenon DEF Init
<1>4. s.gen = 1 /\ s.root = InitNode[ROOT] /\ s.chunk = InitNode[CHUNK]
  BY Zenon DEF MkfsSuper
<1> HIDE DEF s
<1>5. \A x \in ItemTree : disk[s.root].roots[x].bytenr = InitNode[x] /\ disk[s.root].roots[x].gen = 1
  <2>1. disk[s.root] = MkfsContent(ROOT)
    BY <1>2, <1>4, TreesExist, Zenon
  <2>2. MkfsContent(ROOT).roots = [i \in ItemTree |-> [bytenr |-> InitNode[i], gen |-> 1]]
    BY TreesExist, MkfsFields, ZenonT(60)
  <2>3. disk[s.root].roots = [i \in ItemTree |-> [bytenr |-> InitNode[i], gen |-> 1]]
    BY <2>1, <2>2, Zenon
  <2> QED BY <2>3
<1>6. \A x \in Tree : AddrOf(disk, s, x) = InitNode[x]
  <2> TAKE x \in Tree
  <2>1. CASE x \in {ROOT, CHUNK}
    BY <1>4, <2>1, TreeAssumption, Zenon DEF AddrOf
  <2>2. CASE x \notin {ROOT, CHUNK}
    <3>1. x \in ItemTree
      BY <2>2, Zenon DEF Tree
    <3> QED BY <1>5, <2>2, <3>1, Zenon DEF AddrOf
  <2> QED BY <2>1, <2>2, Zenon
<1> QED BY <1>2, <1>3, <1>5, <1>6, Zenon DEF s

(* mkfs leaves one complete version, reached by every superblock copy.     *)
LEMMA InitKeeps == Init => VersionInv
<1> SUFFICES ASSUME Init PROVE VersionInv
  BY Zenon
<1>1. TypeOK /\ CommitContext /\ ~opened
  BY InitType, Zenon DEF Init, Closed, CommitContext
<1> DEFINE s == MkfsSuper
<1>2. \A x \in Tree : InitNode[x] \in Block /\ disk[InitNode[x]] = MkfsContent(x)
  BY MkfsLayout, Zenon
<1>3. \A d \in Dev, m \in Mirror : sb[d][m] = s
  BY MkfsLayout, Zenon
<1>4. s.gen = 1 /\ s.root = InitNode[ROOT] /\ s.chunk = InitNode[CHUNK]
  BY Zenon DEF MkfsSuper
<1>5. \A x \in ItemTree : disk[s.root].roots[x].bytenr = InitNode[x] /\ disk[s.root].roots[x].gen = 1
  BY MkfsLayout, Zenon
<1>6. \A x \in Tree : AddrOf(disk, s, x) = InitNode[x]
  BY MkfsLayout, Zenon
<1> HIDE DEF s
<1>7. \A x \in Tree : disk[InitNode[x]].kids = {} /\ disk[InitNode[x]].tree = x /\ disk[InitNode[x]].gen = 1
  BY <1>2, MkfsFields, ZenonT(60)
<1>8. Reach(disk, s) = {InitNode[x] : x \in Tree}
  BY <1>6, <1>7 DEF Reach
<1>9. disk[AddrOf(disk, s, EXT)].items = Reach(disk, s)
  <2>1. MkfsContent(EXT).items = {InitNode[i] : i \in Tree}
    BY TreesExist, MkfsFields, Zenon
  <2> QED BY <1>2, <1>6, <1>8, <2>1, TreesExist, Zenon
<1>10. Readable(s)
  <2>1. \A x \in ItemTree : LET r == disk[s.root].roots[x]
                          IN disk[r.bytenr].tree = x /\ disk[r.bytenr].gen = r.gen
    <3> TAKE x \in ItemTree
    <3>1. disk[s.root].roots[x].bytenr = InitNode[x] /\ disk[s.root].roots[x].gen = 1 /\ x \in Tree
      BY <1>5, TreesExist, ZenonT(60)
    <3> QED BY <1>7, <3>1, ZenonT(60)
  <2> QED BY <1>4, <1>7, <2>1, TreesExist, ZenonT(60) DEF Readable
<1>11. Intact(s)
  <2>1. ASSUME NEW x \in Tree
        PROVE  LET n == AddrOf(disk, s, x)
               IN /\ \A k \in {n} \cup disk[n].kids : disk[k].tree = x /\ disk[k].gen <= s.gen
                  /\ \A y \in Tree \ {x} :
                       LET o == AddrOf(disk, s, y)
                       IN ({n} \cup disk[n].kids) \cap ({o} \cup disk[o].kids) = {}
                  /\ n \notin disk[n].kids
    <3>1. \A k \in {InitNode[x]} \cup disk[InitNode[x]].kids : disk[k].tree = x /\ disk[k].gen <= s.gen
      BY <1>4, <1>7
    <3>2. \A y \in Tree \ {x} : ({InitNode[x]} \cup disk[InitNode[x]].kids)
                                 \cap ({InitNode[y]} \cup disk[InitNode[y]].kids) = {}
      BY <1>7
    <3>3. InitNode[x] \notin disk[InitNode[x]].kids
      BY <1>7, Zenon
    <3> QED BY <1>6, <3>1, <3>2, <3>3, Zenon
  <2> QED BY <1>10, <2>1, Zenon DEF Intact
<1>12. VersionSafe /\ SupersAgree
  BY <1>1, <1>3, <1>9, <1>11, Zenon DEF VersionSafe, SupersAgree
<1>13. \A b \in Block : disk[b].written
  <2>1. \A x \in Tree : MkfsContent(x).written = TRUE /\ Blank(x).written = TRUE
    BY MkfsFields, Zenon DEF Blank
  <2> QED BY <2>1, TreesExist, Zenon DEF Init
<1> QED BY <1>1, <1>12, <1>13, Zenon DEF VersionInv

(* Every step keeps VersionInv.                                            *)
LEMMA VersionStep == VersionInv /\ [Next]_vars => VersionInv'
<1>1. VersionInv /\ [Next]_vars => TypeOK' /\ CommitContext'
  BY NextType, NextContext, Zenon DEF VersionInv, TypeInv
<1> QED BY <1>1, NextKeeps, ZenonT(60) DEF VersionInv, Rest

(* VersionInv holds in every reachable state of every instance: both the   *)
(* version on the disk and the one in memory are complete between any two  *)
(* steps of the transaction code.                                          *)
THEOREM VersionInvariance == Spec => []VersionInv
BY InitKeeps, VersionStep, PTL DEF Spec

(* The device survives a crash at any point of any number of commits, with *)
(* any number of trees, devices and superblock copies: the newest super    *)
(* always leads to complete trees that nothing has begun to overwrite      *)
(* (pin_down_bytes, find_free_extent and the order of __commit_transaction *)
(* and write_ctree_super in btrfs_commit_transaction).                     *)
THEOREM CommittedAlwaysIntact == Spec => []CommittedIntact
<1>1. VersionInv => CommittedIntact
  BY ZenonT(60) DEF VersionInv, VersionSafe, CommittedIntact
<1> QED BY <1>1, VersionInvariance, PTL

(* No block is lost, shared between a tree and the free space, or handed   *)
(* out while it is pinned, however trees grow and shrink (find_free_extent,*)
(* pin_down_bytes, btrfs_finish_extent_commit).                            *)
THEOREM SpaceAlwaysPartitioned == Spec => []SpacePartition
<1>1. VersionInv => SpacePartition
  BY ZenonT(60) DEF VersionInv, MemShape, SpacePartition
<1> QED BY <1>1, VersionInvariance, PTL

(* close_ctree_fs_info never finds a reason to commit on its own.          *)
THEOREM CloseIsQuiet == Spec => []CloseNeverRecommits
<1>1. VersionInv => CloseNeverRecommits
  BY Zenon DEF VersionInv, Phase, CloseNeverRecommits
<1> QED BY <1>1, VersionInvariance, PTL
=============================================================================
