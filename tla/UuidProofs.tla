----------------------------- MODULE UuidProofs -----------------------------
(***************************************************************************)
(* Theorems about UuidChange: btrfstune never leaves a filesystem that     *)
(* opens with some blocks under one UUID and some under another, whatever  *)
(* the devices, the blocks, and the number of interruptions and reruns.    *)
(***************************************************************************)
EXTENDS UuidChange, TLAPS

OneFsid == \E f \in Fsid : Uniform(f) /\ NoOther(f)
Openings == Unopenable \/ OneFsid

(* What change_uuid is at work on after change_fsid_prepare cannot be      *)
(* opened by anybody, unless the UUID does not change: every device that   *)
(* could be has been stamped on all copies.                                *)
LEMMA StampedUnopenable ==
  ASSUME UuidTypeOK, Changing, listFsid # new.fsid,
         \A d \in devs, m \in Mirror : Stamped(d, m)
  PROVE  Unopenable
<1>1. \A d \in devs, m \in Mirror : ~Valid(super[d][m])
  BY DEF Stamped, Valid
<1>2. 0 \in Mirror
  BY UuidAssumption DEF Mirror
<1>3. \A d \in Dev : ~Valid(super[d][0])
  BY <1>1, <1>2, Zenon DEF Changing
<1>4. \A b \in OpenReads, m \in Mirror : ~Valid(super[Home[b]][m])
  BY <1>1, Zenon DEF Changing
<1> QED BY <1>3, <1>4, Zenon DEF Unopenable

LEMMA InitRename == Init => RenameInv
<1> SUFFICES ASSUME Init PROVE RenameInv
  BY Zenon
<1>0. 0 \in Mirror
  BY UuidAssumption DEF Mirror
<1>1. UuidTypeOK
  BY UuidAssumption, Zenon DEF Init, UuidTypeOK, Super, Ids
<1>2. Uniform(Fsid0) /\ NoOther(Fsid0)
  BY <1>0, Zenon DEF Init, Uniform, NoOther
<1>3. Reached
  BY Zenon DEF Init, Reached
<1> QED BY <1>1, <1>2, <1>3, UuidAssumption, Zenon DEF RenameInv

(* Whoever opens the filesystem to change it finds one fsid everywhere and *)
(* has all the devices with a valid first superblock copy.                 *)
LEMMA StartRename ==
  ASSUME RenameInv, NEW d \in Dev, NEW want \in Fsid \cup {None}, Start(d, want)
  PROVE  RenameInv'
<1>0. 0 \in Mirror
  BY UuidAssumption DEF Mirror
<1>t. UuidTypeOK
  BY DEF RenameInv
<1>u. UNCHANGED <<super, header, devItem>> /\ pc = "idle" /\ pc' = "prepare"
  BY DEF Start
<1> DEFINE s == super[d][0]
<1>1. /\ Valid(s) /\ Openable(s, Scan(d, s.fsid), s.fsid, TRUE)
      /\ listFsid' = s.fsid /\ devs' = Scan(d, s.fsid) /\ todo' = Supers(Scan(d, s.fsid))
      /\ \E i \in Ids : new' = i /\ copy' = [fsid |-> i.fsid, changing |-> TRUE]
  <2>1. ReadSuper(d) \subseteq {s} /\ \A r \in ReadSuper(d) : Valid(r)
    BY Zenon DEF ReadSuper
  <2>2. PICK r \in ReadSuper(d) :
          /\ Openable(r, Scan(d, r.fsid), r.fsid, TRUE)
          /\ \E i \in Ask(r, want) : new' = i /\ copy' = [fsid |-> i.fsid, changing |-> TRUE]
          /\ listFsid' = r.fsid /\ devs' = Scan(d, r.fsid) /\ todo' = Supers(Scan(d, r.fsid))
    BY Zenon DEF Start
  <2>3. r = s /\ Valid(s)
    BY <2>1, <2>2, Zenon
  <2>4. Ask(r, want) \subseteq Ids
    BY Zenon DEF Ask
  <2> QED BY <2>2, <2>3, <2>4, Zenon
<1>2. s.fsid \in Fsid
  BY <1>t, <1>0 DEF UuidTypeOK, Super
<1>3. Scan(d, s.fsid) \subseteq Dev
  BY Zenon DEF Scan
<1>4. UuidTypeOK'
  <2>1. new' \in Ids /\ copy' \in [fsid : Fsid, changing : BOOLEAN]
    BY <1>1 DEF Ids
  <2> QED BY <1>t, <1>u, <1>1, <1>2, <1>3, <2>1, Zenon DEF UuidTypeOK
<1>5. Uniform(s.fsid) /\ NoOther(s.fsid)
  <2>1. ~Unopenable
    BY <1>1, Zenon DEF Unopenable
  <2>2. PICK f \in Fsid : Uniform(f) /\ NoOther(f)
    BY <2>1, Zenon DEF RenameInv
  <2>3. f = s.fsid
    BY <1>1, <2>2, Zenon DEF NoOther
  <2> QED BY <2>2, <2>3
<1>f. PICK f \in Fsid : f = s.fsid
  BY <1>2
<1>6. Uniform(f)' /\ NoOther(f)'
  BY <1>5, <1>f, <1>u, Zenon DEF Uniform, NoOther, Valid
<1>7. \A e \in Dev \ Scan(d, s.fsid) : ~Valid(super[e][0])
  BY <1>5, Zenon DEF NoOther, Scan, ReadSuper
<1>8. Changing'
  <2>1. \A b \in OpenReads : Home[b] \in devs'
    BY <1>1, Zenon DEF Openable
  <2>2. \A e \in Dev \ devs' : ~Valid(super'[e][0])
    BY <1>7, <1>1, <1>u, Zenon
  <2>3. copy' = [fsid |-> new'.fsid, changing |-> pc' # "done"]
    BY <1>1, <1>u, Zenon DEF Ids
  <2> QED BY <2>1, <2>2, <2>3, Zenon DEF Changing, Valid
<1>9. \A e \in devs', m \in Mirror : <<e, m>> \in todo'
  BY <1>1, Zenon DEF Supers
<1>10. Reached'
  BY <1>u, <1>6, <1>f, <1>8, <1>9, <1>1, Zenon DEF Reached
<1> QED BY <1>4, <1>6, <1>10, Zenon DEF RenameInv

(* What write_all_supers leaves: one copy with the UUID in super_copy and  *)
(* that of the device list, the others as they were.                       *)
LEMMA StampEffect ==
  ASSUME RenameInv, NEW d \in Dev, NEW m \in Mirror, WriteSuper(d, m)
  PROVE  /\ super' \in [Dev -> [Mirror -> Super]]
         /\ super'[d][m] = [fsid |-> copy.fsid, dev |-> listFsid, changing |-> copy.changing]
         /\ \A e \in Dev, k \in Mirror : <<e, k>> # <<d, m>> => super'[e][k] = super[e][k]
         /\ UuidTypeOK'
<1>1. UuidTypeOK /\ pc \in {"prepare", "rewrite", "done", "recover"} /\ Stamp(d, m)
  BY Zenon DEF RenameInv, WriteSuper
<1>2. [fsid |-> copy.fsid, dev |-> listFsid, changing |-> copy.changing] \in Super
  BY <1>1, Zenon DEF UuidTypeOK, Super
<1>3. super' \in [Dev -> [Mirror -> Super]]
  BY <1>1, <1>2, Zenon DEF Stamp, UuidTypeOK
<1>4. super'[d][m] = [fsid |-> copy.fsid, dev |-> listFsid, changing |-> copy.changing]
  BY <1>1, Zenon DEF Stamp, UuidTypeOK
<1>5. \A e \in Dev, k \in Mirror : <<e, k>> # <<d, m>> => super'[e][k] = super[e][k]
  BY <1>1, Zenon DEF Stamp, UuidTypeOK
<1>6. UuidTypeOK'
  BY <1>1, <1>3, Zenon DEF UuidTypeOK, WriteSuper, memVars, Supers
<1> QED BY <1>3, <1>4, <1>5, <1>6, Zenon

(* A superblock write of change_fsid_prepare or super-recover makes a copy *)
(* with the fsid of all blocks, or an invalid one.                         *)
LEMMA WriteOldRename ==
  ASSUME RenameInv, NEW d \in Dev, NEW m \in Mirror, WriteSuper(d, m),
         pc \in {"prepare", "recover"}
  PROVE  RenameInv'
<1>0. 0 \in Mirror
  BY UuidAssumption DEF Mirror
<1>1. UuidTypeOK /\ Reached /\ d \in Dev /\ m \in Mirror
  BY Zenon DEF RenameInv
<1>2. UNCHANGED <<header, devItem, pc, devs, copy, listFsid, new>> /\ todo' = todo \ {<<d, m>>}
      /\ <<d, m>> \in todo
  BY Zenon DEF WriteSuper, Turn, memVars
<1>3. listFsid \in Fsid /\ Uniform(listFsid) /\ NoOther(listFsid)
  BY <1>1, Zenon DEF Reached, UuidTypeOK
<1>4. PICK f \in Fsid : f = listFsid
  BY <1>3, Zenon
<1>5. Uniform(f)'
  BY <1>2, <1>3, <1>4, Zenon DEF Uniform
<1>6. NoOther(f)'
  <2>1. ASSUME NEW e \in Dev, Valid(super'[e][0]) PROVE super'[e][0].fsid = f
    <3>1. CASE <<e, 0>> = <<d, m>>
      BY <3>1, <2>1, <1>4, StampEffect DEF Valid
    <3>2. CASE <<e, 0>> # <<d, m>>
      <4>1. super'[e][0] = super[e][0]
        BY <3>2, <1>0, StampEffect
      <4> QED BY <4>1, <2>1, <1>3, <1>4, Zenon DEF NoOther
    <3> QED BY <3>1, <3>2, Zenon
  <2> QED BY <2>1, Zenon DEF NoOther, Valid
<1>7. ASSUME pc = "prepare" PROVE Changing'
  <2>1. Changing
    BY <1>1, <1>7, Zenon DEF Reached
  <2>2. d \in devs
    BY <1>1, <1>2, <1>7, Zenon DEF UuidTypeOK, Supers
  <2>3. \A e \in Dev \ devs : super'[e][0] = super[e][0]
    BY <2>2, <1>0, StampEffect
  <2> QED BY <2>1, <2>3, <1>2, Zenon DEF Changing, Valid
<1>8. ASSUME pc = "prepare", NEW e \in devs, NEW k \in Mirror, <<e, k>> \notin todo'
      PROVE  super'[e][k] = [fsid |-> new.fsid, dev |-> listFsid, changing |-> TRUE]
  <2>1. CASE <<e, k>> = <<d, m>>
    <3>1. Changing
      BY <1>8, <1>1, Zenon DEF Reached
    <3>2. copy.fsid = new.fsid /\ copy.changing = TRUE
      BY <3>1, <1>8, Zenon DEF Changing
    <3>3. e = d /\ k = m
      BY <2>1, Zenon
    <3> QED BY <3>2, <3>3, StampEffect, Zenon
  <2>2. CASE <<e, k>> # <<d, m>>
    <3>1. e \in Dev /\ <<e, k>> \notin todo
      BY <2>2, <1>8, <1>2, <1>1, Zenon DEF UuidTypeOK
    <3>2. Stamped(e, k)
      BY <3>1, <1>8, <1>1, Zenon DEF Reached
    <3> QED BY <2>2, <3>1, <3>2, StampEffect DEF Stamped
  <2> QED BY <2>1, <2>2, Zenon
<1>9. Reached'
  <2>1. pc' = "prepare" => \A e \in devs', k \in Mirror : <<e, k>> \notin todo' => Stamped(e, k)'
    BY <1>8, <1>2, Zenon DEF Stamped
  <2>2. Uniform(listFsid)' /\ NoOther(listFsid)'
    BY <1>5, <1>6, <1>4, <1>2, Zenon
  <2> QED BY <2>1, <2>2, <1>7, <1>2, Zenon DEF Reached
<1> QED BY <1>5, <1>6, <1>9, StampEffect, Zenon DEF RenameInv

(* Only the devices of the run can have a valid first copy.                *)
LEMMA OursNoOther ==
  ASSUME Changing, \A d \in devs : super[d][0].fsid = new.fsid
  PROVE  NoOther(new.fsid)
BY Zenon DEF Changing, NoOther

(* Once everything has the new UUID, writing superblocks with it keeps     *)
(* them in agreement.                                                      *)
LEMMA WriteNewRename ==
  ASSUME RenameInv, NEW d \in Dev, NEW m \in Mirror, WriteSuper(d, m),
         pc \in {"rewrite", "done"}
  PROVE  RenameInv'
<1>0. 0 \in Mirror
  BY UuidAssumption DEF Mirror
<1>1. UuidTypeOK /\ Reached /\ d \in Dev /\ m \in Mirror
  BY Zenon DEF RenameInv
<1>2. UNCHANGED <<header, devItem, pc, devs, copy, listFsid, new>> /\ todo' = todo \ {<<d, m>>}
      /\ <<d, m>> \in todo
  BY Zenon DEF WriteSuper, Turn, memVars
<1>3. /\ Changing /\ FinishedIsComplete /\ listFsid = new.fsid
      /\ \A e \in devs, k \in Mirror : super[e][k].fsid = new.fsid
  BY <1>1, Zenon DEF Reached
<1>4. d \in devs /\ devs \subseteq Dev /\ new \in Ids
  BY <1>1, <1>2, Zenon DEF UuidTypeOK, Supers
<1>5. \A e \in devs, k \in Mirror : super'[e][k].fsid = new.fsid
  <2> SUFFICES ASSUME NEW e \in devs, NEW k \in Mirror PROVE super'[e][k].fsid = new.fsid
    BY Zenon
  <2>1. CASE <<e, k>> = <<d, m>>
    <3>1. e = d /\ k = m /\ copy.fsid = new.fsid
      BY <2>1, <1>3, Zenon DEF Changing
    <3> QED BY <3>1, StampEffect
  <2>2. CASE <<e, k>> # <<d, m>>
    BY <2>2, <1>3, <1>4, StampEffect
  <2> QED BY <2>1, <2>2, Zenon
<1>6. Changing'
  <2>1. \A e \in Dev \ devs : super'[e][0] = super[e][0]
    BY <1>4, <1>0, StampEffect
  <2> QED BY <2>1, <1>2, <1>3, Zenon DEF Changing, Valid
<1>7. FinishedIsComplete'
  BY <1>2, <1>3, Zenon DEF FinishedIsComplete
<1>8. Reached'
  BY <1>2, <1>3, <1>5, <1>6, <1>7, Zenon DEF Reached
<1>9. PICK f \in Fsid : f = new.fsid
  BY <1>4, Zenon DEF Ids
<1>10. Uniform(f)'
  BY <1>3, <1>2, <1>9, Zenon DEF FinishedIsComplete, Uniform
<1>11. NoOther(f)'
  <2>1. ASSUME NEW e \in Dev, Valid(super'[e][0]) PROVE super'[e][0].fsid = f
    <3>1. e \in devs
      BY <2>1, <1>6, <1>2, Zenon DEF Changing, Valid
    <3> QED BY <3>1, <1>5, <1>0, <1>9, Zenon
  <2> QED BY <2>1, Zenon DEF NoOther, Valid
<1> QED BY <1>8, <1>10, <1>11, StampEffect, Zenon DEF RenameInv

(* While blocks and device items change, the superblocks do not, and they  *)
(* are of no use to anybody unless the UUID stays the same.                *)
Sealed ==
  /\ Changing /\ new \in Ids
  /\ \A d \in devs, m \in Mirror : Stamped(d, m)
  /\ listFsid = new.fsid => Uniform(listFsid)

LEMMA SealedOpenings == UuidTypeOK /\ Sealed => Openings
<1> SUFFICES ASSUME UuidTypeOK, Sealed PROVE Openings
  BY Zenon
<1>0. 0 \in Mirror
  BY UuidAssumption DEF Mirror
<1>1. CASE listFsid # new.fsid
  BY <1>1, StampedUnopenable, Zenon DEF Sealed, Openings
<1>2. CASE listFsid = new.fsid
  <2>1. NoOther(new.fsid)
    BY <1>0, OursNoOther DEF Stamped, Sealed
  <2> QED BY <2>1, <1>2, Zenon DEF Ids, Sealed, Openings, OneFsid
<1> QED BY <1>1, <1>2, Zenon

LEMMA SealedThen ==
  ASSUME UuidTypeOK', Sealed', Reached'
  PROVE  RenameInv'
<1>1. Openings'
  BY SealedOpenings, PTL
<1> QED BY <1>1, Zenon DEF RenameInv, Openings, OneFsid

(* When the program ends, what is on the devices stays as it is.           *)
LEMMA IdleRename ==
  ASSUME UuidTypeOK, Openings, UNCHANGED <<super, header, devItem>>, pc' = "idle", devs' = {}
  PROVE  RenameInv'
<1>1. UuidTypeOK'
  BY Zenon DEF UuidTypeOK
<1>2. Reached'
  BY Zenon DEF Reached
<1>3. Openings'
  BY Zenon DEF Openings, OneFsid, Unopenable, Uniform, NoOther, Valid
<1> QED BY <1>1, <1>2, <1>3, Zenon DEF RenameInv, Openings, OneFsid

LEMMA PrepareRootRename ==
  ASSUME RenameInv, PrepareRoot
  PROVE  RenameInv'
<1>1. UuidTypeOK /\ Reached /\ pc = "prepare" /\ todo = {}
  BY Zenon DEF RenameInv, PrepareRoot
<1>2. /\ UNCHANGED <<super, devItem, devs, copy, listFsid, new>>
      /\ pc' = "extents" /\ todo' = Block
      /\ header' = [header EXCEPT ![RootNode].chunk = new.chunk]
  BY Zenon DEF PrepareRoot, memVars
<1>3. /\ Changing /\ Uniform(listFsid) /\ new \in Ids
      /\ \A d \in devs, m \in Mirror : Stamped(d, m)
  BY <1>1, Zenon DEF Reached, UuidTypeOK
<1>4. header' \in [Block -> Ids] /\ \A b \in Block : header'[b].fsid = header[b].fsid
  BY <1>1, <1>2, <1>3, UuidAssumption, Zenon DEF UuidTypeOK, Ids
<1>5. UuidTypeOK'
  BY <1>1, <1>2, <1>4, Zenon DEF UuidTypeOK, Supers
<1>6. Uniform(listFsid)'
  BY <1>2, <1>3, <1>4, Zenon DEF Uniform
<1>7. Changing'
  BY <1>1, <1>2, <1>3, Zenon DEF Changing, Valid
<1>8. \A d \in devs', m \in Mirror : Stamped(d, m)'
  BY <1>2, <1>3, Zenon DEF Stamped
<1>9. Reached'
  BY <1>2, <1>6, <1>7, <1>8, Zenon DEF Reached
<1>10. Sealed'
  BY <1>2, <1>3, <1>6, <1>7, <1>8, Zenon DEF Sealed
<1> QED BY <1>5, <1>9, <1>10, SealedThen, Zenon

(* A block gets its new header, or its device is missing and the program   *)
(* gives up.                                                               *)
LEMMA ChangeExtentRename ==
  ASSUME RenameInv, NEW b \in Block, ChangeExtent(b)
  PROVE  RenameInv'
<1>1. UuidTypeOK /\ Reached /\ pc = "extents" /\ b \in Block /\ UNCHANGED <<super, devItem>>
  BY Zenon DEF RenameInv, ChangeExtent
<1>2. /\ Changing /\ new \in Ids
      /\ \A d \in devs, m \in Mirror : Stamped(d, m)
      /\ listFsid = new.fsid => Uniform(listFsid)
      /\ \A c \in Block : c \notin todo => header[c] = new
  BY <1>1, Zenon DEF Reached, UuidTypeOK
<1>3. CASE Home[b] \in devs
  <2>1. /\ UNCHANGED <<devs, copy, listFsid, new, pc>>
        /\ header' = [header EXCEPT ![b] = new] /\ todo' = todo \ {b}
    BY <1>3, Zenon DEF ChangeExtent, ChangeHeader, memVars
  <2>2. /\ header' \in [Block -> Ids] /\ header'[b] = new
        /\ \A c \in Block \ {b} : header'[c] = header[c]
    BY <2>1, <1>1, <1>2, Zenon DEF UuidTypeOK
  <2>3. UuidTypeOK'
    BY <1>1, <2>1, <2>2, Zenon DEF UuidTypeOK
  <2>4. (listFsid = new.fsid => Uniform(listFsid))'
    BY <1>1, <1>2, <2>1, <2>2, Zenon DEF Uniform
  <2>5. Changing' /\ \A d \in devs', m \in Mirror : Stamped(d, m)'
    BY <1>1, <1>2, <2>1, Zenon DEF Changing, Valid, Stamped
  <2>6. \A c \in Block : c \notin todo' => header'[c] = new'
    BY <1>2, <2>1, <2>2, Zenon
  <2>7. Reached'
    BY <1>1, <2>1, <2>4, <2>5, <2>6, Zenon DEF Reached
  <2>8. Sealed'
    BY <1>2, <2>1, <2>4, <2>5, Zenon DEF Sealed
  <2> QED BY <2>3, <2>7, <2>8, SealedThen, Zenon
<1>4. CASE Home[b] \notin devs
  <2>1. UNCHANGED header /\ pc' = "idle" /\ devs' = {}
    BY <1>4, Zenon DEF ChangeExtent, Exit
  <2> QED BY <1>1, <2>1, IdleRename, Zenon DEF RenameInv, Openings, OneFsid
<1> QED BY <1>3, <1>4, Zenon

LEMMA ExtentsDoneRename ==
  ASSUME RenameInv, ExtentsDone
  PROVE  RenameInv'
<1>1. UuidTypeOK /\ Reached /\ pc = "extents" /\ todo = {}
  BY Zenon DEF RenameInv, ExtentsDone
<1>2. /\ UNCHANGED <<super, header, devItem, devs, copy, listFsid, new>>
      /\ pc' = "devices" /\ todo' = Dev
  BY Zenon DEF ExtentsDone, memVars, diskVars
<1>3. Sealed /\ \A b \in Block : header[b] = new
  BY <1>1, Zenon DEF Reached, UuidTypeOK, Sealed
<1>4. UuidTypeOK'
  BY <1>1, <1>2, Zenon DEF UuidTypeOK
<1>5. Sealed'
  BY <1>1, <1>2, <1>3, Zenon DEF Sealed, Changing, Stamped, Uniform, Valid
<1>6. Reached'
  BY <1>2, <1>3, <1>5, Zenon DEF Reached, Sealed
<1> QED BY <1>4, <1>5, <1>6, SealedThen, Zenon

LEMMA ChangeDeviceRename ==
  ASSUME RenameInv, NEW d \in Dev, ChangeDevice(d)
  PROVE  RenameInv'
<1>1. UuidTypeOK /\ Reached /\ pc = "devices"
  BY Zenon DEF RenameInv, ChangeDevice
<1>2. /\ UNCHANGED <<super, header, pc, devs, copy, listFsid, new>>
      /\ todo' = todo \ {d} /\ devItem' = [devItem EXCEPT ![d] = new.fsid]
  BY Zenon DEF ChangeDevice, memVars
<1>3. /\ Sealed /\ new \in Ids
      /\ \A b \in Block : header[b] = new
      /\ \A e \in Dev : e \notin todo => devItem[e] = new.fsid
  BY <1>1, Zenon DEF Reached, UuidTypeOK, Sealed
<1>4. /\ devItem' \in [Dev -> Fsid] /\ devItem'[d] = new.fsid
      /\ \A e \in Dev \ {d} : devItem'[e] = devItem[e]
  BY <1>1, <1>2, <1>3, Zenon DEF UuidTypeOK, Ids
<1>5. UuidTypeOK'
  BY <1>1, <1>2, <1>4, Zenon DEF UuidTypeOK
<1>6. (listFsid = new.fsid => Uniform(listFsid))'
  BY <1>2, <1>3, <1>4, Zenon DEF Uniform, Sealed
<1>7. Sealed'
  BY <1>1, <1>2, <1>3, <1>6, Zenon DEF Sealed, Changing, Stamped, Valid
<1>8. \A e \in Dev : e \notin todo' => devItem'[e] = new'.fsid
  BY <1>2, <1>3, <1>4, Zenon
<1>9. Reached'
  BY <1>1, <1>2, <1>3, <1>7, <1>8, Zenon DEF Reached, Sealed
<1> QED BY <1>5, <1>7, <1>9, SealedThen, Zenon

(* The passes over the superblocks after everything has changed            *)
LEMMA NewPassRename ==
  ASSUME RenameInv, DevicesDone \/ ChangeFsidDone
  PROVE  RenameInv'
<1>1. UuidTypeOK /\ Reached /\ pc \in {"devices", "rewrite"} /\ todo = {} /\ new \in Ids
  BY Zenon DEF RenameInv, DevicesDone, ChangeFsidDone, UuidTypeOK
<1>2. /\ UNCHANGED <<super, header, devItem, devs, new>>
      /\ pc' \in {"rewrite", "done"} /\ listFsid' = new.fsid /\ todo' = Supers(devs)
      /\ copy' = [fsid |-> new.fsid, changing |-> pc' # "done"]
  <2>1. Changing /\ (pc = "rewrite" => listFsid = new.fsid)
    BY <1>1, Zenon DEF Reached
  <2>2. CASE DevicesDone
    BY <2>1, <2>2, Zenon DEF DevicesDone, diskVars, Changing
  <2>3. CASE ChangeFsidDone
    BY <2>1, <2>3, Zenon DEF ChangeFsidDone, diskVars, Changing
  <2> QED BY <2>2, <2>3, Zenon
<1>3. /\ Changing
      /\ \A b \in Block : header[b] = new
      /\ \A d \in Dev : devItem[d] = new.fsid
      /\ \A d \in devs, m \in Mirror : super[d][m].fsid = new.fsid
  BY <1>1 DEF Reached, FinishedIsComplete, Stamped
<1>4. UuidTypeOK'
  <2>1. copy' \in [fsid : Fsid, changing : BOOLEAN] /\ listFsid' \in Fsid
    BY <1>1, <1>2, Zenon DEF Ids
  <2> QED BY <1>1, <1>2, <2>1, Zenon DEF UuidTypeOK, Supers
<1>5. Changing'
  BY <1>2, <1>3, Zenon DEF Changing, Valid
<1>6. Reached'
  BY <1>2, <1>3, <1>5, Zenon DEF Reached, FinishedIsComplete
<1>7. Openings'
  <2>1. PICK f \in Fsid : f = new.fsid
    BY <1>1, Zenon DEF Ids
  <2>2. 0 \in Mirror
    BY UuidAssumption DEF Mirror
  <2>3. NoOther(new.fsid)
    BY <1>3, <2>2, OursNoOther, Zenon
  <2>4. Uniform(f)' /\ NoOther(f)'
    BY <1>2, <1>3, <2>1, <2>3, Zenon DEF Uniform, NoOther, Valid
  <2> QED BY <2>4, Zenon DEF Openings, OneFsid
<1> QED BY <1>4, <1>6, <1>7, Zenon DEF RenameInv, Openings, OneFsid

(* super-recover opens the filesystem without ignoring a mismatch, so it   *)
(* has the fsid of the blocks, and puts that in the device item of every   *)
(* copy it writes.                                                         *)
LEMMA SuperRecoverRename ==
  ASSUME RenameInv, NEW d \in Dev, SuperRecover(d)
  PROVE  RenameInv'
<1>0. 0 \in Mirror
  BY UuidAssumption DEF Mirror
<1>1. UuidTypeOK /\ pc = "idle" /\ pc' = "recover" /\ UNCHANGED <<super, header, devItem>>
  BY Zenon DEF RenameInv, SuperRecover
<1>2. PICK first \in RecoverSuper(d) :
        /\ \E m \in Mirror : \E r \in Reopen(d, m) :
             /\ Openable(r, Scan(d, first.fsid), first.fsid, FALSE)
             /\ copy' = [fsid |-> r.fsid, changing |-> r.changing]
        /\ listFsid' = first.fsid
        /\ devs' = Scan(d, first.fsid) /\ todo' = Supers(Scan(d, first.fsid))
  BY Zenon DEF SuperRecover
<1>3. PICK k \in Mirror : first = super[d][k] /\ Valid(super[d][k])
  BY Zenon DEF RecoverSuper
<1>m. PICK m \in Mirror : \E r \in Reopen(d, m) :
        /\ Openable(r, Scan(d, first.fsid), first.fsid, FALSE)
        /\ copy' = [fsid |-> r.fsid, changing |-> r.changing]
  BY <1>2
<1>4. PICK r \in Reopen(d, m) :
        /\ Openable(r, Scan(d, first.fsid), first.fsid, FALSE)
        /\ copy' = [fsid |-> r.fsid, changing |-> r.changing]
  BY <1>m, Zenon
<1>5. r \in Super /\ first \in Super
  <2>1. \A j \in Mirror : super[d][j] \in Super
    BY <1>1, Zenon DEF UuidTypeOK
  <2>2. Reopen(d, m) \subseteq {super[d][j] : j \in Mirror}
    BY Zenon DEF Reopen, RecoverSuper
  <2> QED BY <2>1, <2>2, <1>3, Zenon
<1>6. first.fsid \in Fsid /\ copy' \in [fsid : Fsid, changing : BOOLEAN]
  BY <1>4, <1>5, Zenon DEF Super
<1>7. UuidTypeOK'
  <2>1. Scan(d, first.fsid) \subseteq Dev
    BY Zenon DEF Scan
  <2> QED BY <1>1, <1>2, <1>6, <2>1, Zenon DEF UuidTypeOK, Supers
<1>8. RootNode \in OpenReads /\ RootNode \in Block
      /\ Home[RootNode] \in Scan(d, first.fsid) /\ header[RootNode].fsid = first.fsid
  BY <1>4, UuidAssumption, Zenon DEF Openable
<1>9. ~Unopenable
  <2>1. CASE Home[RootNode] = d
    BY <2>1, <1>3, <1>8, Zenon DEF Unopenable
  <2>2. CASE Home[RootNode] # d
    <3>1. Home[RootNode] \in Dev /\ Valid(super[Home[RootNode]][0])
      BY <2>2, <1>8, Zenon DEF Scan, ReadSuper
    <3> QED BY <3>1, Zenon DEF Unopenable
  <2> QED BY <2>1, <2>2, Zenon
<1>10. PICK f \in Fsid : Uniform(f) /\ NoOther(f)
  BY <1>9, Zenon DEF RenameInv
<1>11. f = listFsid'
  BY <1>2, <1>8, <1>10, Zenon DEF Uniform
<1>12. Uniform(f)' /\ NoOther(f)'
  BY <1>1, <1>10, Zenon DEF Uniform, NoOther, Valid
<1>13. Reached'
  BY <1>1, <1>11, <1>12, Zenon DEF Reached
<1> QED BY <1>7, <1>12, <1>13, Zenon DEF RenameInv

(* One step of anybody                                                     *)
LEMMA StepRename == RenameInv /\ [Next]_vars => RenameInv'
<1> SUFFICES ASSUME RenameInv, [Next]_vars PROVE RenameInv'
  BY Zenon
<1>1. ASSUME NEW d \in Dev, NEW want \in Fsid \cup {None}, Start(d, want) PROVE RenameInv'
  BY <1>1, StartRename, Zenon
<1>2. ASSUME NEW d \in Dev, NEW m \in Mirror, WriteSuper(d, m) PROVE RenameInv'
  <2>1. pc \in {"prepare", "recover"} \/ pc \in {"rewrite", "done"}
    BY <1>2, Zenon DEF WriteSuper
  <2>2. CASE pc \in {"prepare", "recover"}
    BY <2>2, <1>2, WriteOldRename, Zenon
  <2>3. CASE pc \in {"rewrite", "done"}
    BY <2>3, <1>2, WriteNewRename, Zenon
  <2> QED BY <2>1, <2>2, <2>3, Zenon
<1>3. CASE PrepareRoot
  BY <1>3, PrepareRootRename, Zenon
<1>4. ASSUME NEW b \in Block, ChangeExtent(b) PROVE RenameInv'
  BY <1>4, ChangeExtentRename, Zenon
<1>5. CASE ExtentsDone
  BY <1>5, ExtentsDoneRename, Zenon
<1>6. ASSUME NEW d \in Dev, ChangeDevice(d) PROVE RenameInv'
  BY <1>6, ChangeDeviceRename, Zenon
<1>7. CASE DevicesDone \/ ChangeFsidDone
  BY <1>7, NewPassRename, Zenon
<1>8. CASE Finish \/ Crash
  <2>1. UNCHANGED <<super, header, devItem>> /\ pc' = "idle" /\ devs' = {}
    BY <1>8, Zenon DEF Finish, Crash, Exit, diskVars
  <2> QED BY <2>1, IdleRename, Zenon DEF RenameInv, Openings, OneFsid
<1>9. ASSUME NEW d \in Dev, SuperRecover(d) PROVE RenameInv'
  BY <1>9, SuperRecoverRename, Zenon
<1>10. CASE UNCHANGED vars
  <2>1. UNCHANGED <<super, header, devItem, pc, devs, copy, listFsid, new, todo>>
    BY <1>10, Zenon DEF vars
  <2>2. UuidTypeOK'
    BY <2>1, Zenon DEF RenameInv, UuidTypeOK, Supers
  <2>3. (Unopenable \/ \E f \in Fsid : Uniform(f) /\ NoOther(f))'
    BY <2>1, Zenon DEF RenameInv, Unopenable, Uniform, NoOther, Valid
  <2>4. Reached'
    BY <2>1, Zenon DEF RenameInv, Reached, Changing, Stamped, Uniform, NoOther, FinishedIsComplete, Valid
  <2> QED BY <2>2, <2>3, <2>4, Zenon DEF RenameInv
<1> QED BY <1>1, <1>2, <1>3, <1>4, <1>5, <1>6, <1>7, <1>8, <1>9, <1>10, Zenon DEF Next, ChangeStep

(* RenameInv is inductive: between any two writes of btrfstune -u or of    *)
(* super-recover, either all of the filesystem has one fsid or nobody can  *)
(* open it.                                                                *)
THEOREM RenameInvariance == Spec => []RenameInv
<1>1. Init => RenameInv
  BY InitRename, Zenon
<1>2. RenameInv /\ [Next]_vars => RenameInv'
  BY StepRename, Zenon
<1> QED BY <1>1, <1>2, PTL DEF Spec

(* change_uuid (btrfstune.c) and btrfs_recover_superblocks                 *)
(* (super-recover.c): whenever a device's superblock is accepted, every    *)
(* tree block and device item has its fsid, and the change is complete     *)
(* before the UUID is declared.                                            *)
THEOREM MountableAlwaysUniform == Spec => []MountableIsUniform
<1>1. RenameInv => MountableIsUniform
  <2> SUFFICES ASSUME RenameInv PROVE MountableIsUniform
    BY Zenon
  <2>1. FinishedIsComplete
    BY Zenon DEF RenameInv, Reached, FinishedIsComplete
  <2>2. ASSUME NEW d \in Dev, Mountable(d)
        PROVE  /\ \A b \in Block : header[b].fsid = super[d][0].fsid
               /\ \A e \in Dev : devItem[e] = super[d][0].fsid
    <3>1. Valid(super[d][0])
      BY <2>2, Zenon DEF Mountable
    <3>2. PICK f \in Fsid : Uniform(f) /\ NoOther(f)
      BY <3>1, Zenon DEF RenameInv, Unopenable
    <3>3. super[d][0].fsid = f
      BY <3>1, <3>2, Zenon DEF NoOther
    <3> QED BY <3>2, <3>3, Zenon DEF Uniform
  <2> QED BY <2>1, <2>2, Zenon DEF MountableIsUniform
<1> QED BY <1>1, RenameInvariance, PTL

=============================================================================
