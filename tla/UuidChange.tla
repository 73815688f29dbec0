----------------------------- MODULE UuidChange -----------------------------
(***************************************************************************)
(* btrfstune -u / -U (btrfstune.c) rewrites the filesystem UUID in place,  *)
(* without a transaction: superblocks first, then the header of every tree *)
(* block, the device items and the superblocks twice more.  It may be      *)
(* killed between any two writes, be run again, and be followed by         *)
(* btrfs rescue super-recover (super-recover.c).                           *)
(***************************************************************************)
EXTENDS Integers, FiniteSets

CONSTANTS
  Dev,         \* devices
  MirrorMax,   \* superblock copies per device
  Block,       \* addresses of tree blocks
  RootNode,    \* where tree_root->node is
  OpenReads,   \* the blocks open_ctree reads
  Home,        \* the device each block is on
  Fsid, Fsid0, \* filesystem UUIDs, and the one mkfs chose
  Chunk, Chunk0,   \* chunk tree UUIDs, and the one mkfs chose
  MaxCrash,    \* bound on the number of crashes
  None

(* open_ctree reads the root node, and more; every block is on a device.   *)
ASSUME UuidAssumption ==
  /\ MirrorMax \in Nat \ {0}
  /\ Block \subseteq Nat
  /\ OpenReads \subseteq Block /\ RootNode \in OpenReads
  /\ Home \in [Block -> Dev]
  /\ Fsid0 \in Fsid /\ Chunk0 \in Chunk

Mirror == 0 .. MirrorMax - 1

VARIABLES
  super,     \* the superblock copies: fsid, dev_item.fsid, CHANGING_FSID
  header,    \* fsid and chunk_tree_uuid in the header of each tree block
  devItem,   \* the fsid in each device item of the chunk tree
  used,      \* UUIDs generated so far
  pc,        \* what change_uuid is doing
  devs,      \* devices of the open filesystem
  copy,      \* fs_info->super_copy
  listFsid,  \* fs_devices->fsid
  new,       \* fs_info->new_fsid and new_chunk_tree_uuid
  todo,      \* what the current pass still has to visit
  crashes

vars == <<super, header, devItem, used, pc, devs, copy, listFsid, new, todo, crashes>>
diskVars == <<super, header, devItem>>
memVars == <<devs, copy, listFsid, new>>

Super == [fsid : Fsid, dev : Fsid, changing : BOOLEAN]
Ids == [fsid : Fsid, chunk : Chunk]

Init ==
  /\ super = [d \in Dev |-> [m \in Mirror |-> [fsid |-> Fsid0, dev |-> Fsid0, changing |-> FALSE]]]
  /\ header = [b \in Block |-> [fsid |-> Fsid0, chunk |-> Chunk0]]
  /\ devItem = [d \in Dev |-> Fsid0]
  /\ used = {Fsid0, Chunk0}
  /\ pc = "idle" /\ devs = {} /\ copy = None /\ listFsid = None /\ new = None
  /\ todo = {} /\ crashes = 0

----------------------------------------------------------------------------
(* Reading superblocks *)

(* check_super                                                             *)
Valid(s) == s.fsid = s.dev

(* btrfs_read_dev_super: the first copy, or with SBREAD_RECOVER the first  *)
(* valid one, all being of one generation here.                            *)
ReadSuper(d) == {s \in {super[d][0]} : Valid(s)}
RecoverSuper(d) ==
  {super[d][m] : m \in {k \in Mirror : /\ Valid(super[d][k])
                                       /\ \A j \in Mirror : j < k => ~Valid(super[d][j])}}

(* btrfs_scan_devices and device_list_add: the devices with that fsid      *)
ScanGivenOnly(d, fsid) == {d}
Scan(d, fsid) == {d} \cup {e \in Dev : \E s \in ReadSuper(e) : s.fsid = fsid}

(* open_ctree: with OPEN_CTREE_IGNORE_FSID_MISMATCH it takes any header    *)
(* and an unfinished change.                                               *)
Openable(s, ds, fsid, ignore) ==
  /\ s.changing => ignore
  /\ \A b \in OpenReads : Home[b] \in ds /\ (ignore \/ header[b].fsid = fsid)

----------------------------------------------------------------------------
(* change_uuid *)

Supers(ds) == ds \X Mirror

(* test_uuid_unique: blkid finds no device with this UUID                  *)
UuidUnique(u) == \A d \in Dev : super[d][0].fsid # u

(* main opens the filesystem; check_unfinished_fsid_change then takes the  *)
(* UUIDs of an unfinished change from the superblock and the root node.    *)
(* want is the argument of -U, or None for -u; uuid_generate chooses what  *)
(* nobody has.                                                             *)
Ask(s, want) ==
  {i \in Ids :
     IF s.changing
     THEN /\ i.fsid = s.fsid /\ i.chunk = header[RootNode].chunk
          /\ want \in {None, s.fsid}
     ELSE /\ i.chunk \notin used
          /\ IF want = None THEN i.fsid \notin used ELSE i.fsid = want}

StartUnprepared(d, want) ==
  /\ pc = "idle"
  /\ want # None => UuidUnique(want)
  /\ \E s \in ReadSuper(d) :
       LET ds == Scan(d, s.fsid)
       IN /\ Openable(s, ds, s.fsid, TRUE)
          /\ \E i \in Ask(s, want) :
               /\ new' = i
               /\ copy' = [fsid |-> i.fsid, changing |-> TRUE]
               /\ used' = used \cup {i.fsid, i.chunk}
          /\ listFsid' = s.fsid
          /\ devs' = ds /\ todo' = Block
  /\ pc' = "extents"
  /\ UNCHANGED <<super, header, devItem, crashes>>

(* change_fsid_prepare up to its superblock writes                         *)
Start(d, want) ==
  /\ pc = "idle"
  /\ want # None => UuidUnique(want)
  /\ \E s \in ReadSuper(d) :
       LET ds == Scan(d, s.fsid)
       IN /\ Openable(s, ds, s.fsid, TRUE)
          /\ \E i \in Ask(s, want) :
               /\ new' = i
               /\ copy' = [fsid |-> i.fsid, changing |-> TRUE]
               /\ used' = used \cup {i.fsid, i.chunk}
          /\ listFsid' = s.fsid
          /\ devs' = ds /\ todo' = Supers(ds)
  /\ pc' = "prepare"
  /\ UNCHANGED <<super, header, devItem, crashes>>

(* write_all_supers: device by device, copy by copy                        *)
Stamp(d, m) ==
  super' = [super EXCEPT ![d][m] = [fsid |-> copy.fsid, dev |-> listFsid, changing |-> copy.changing]]

Turn(d, m) ==
  /\ <<d, m>> \in todo
  /\ \A k \in Mirror : k < m => <<d, k>> \notin todo
  /\ \A e \in devs \ {d} : Supers({e}) \subseteq todo \/ Supers({e}) \cap todo = {}

WriteSuper(d, m) ==
  /\ pc \in {"prepare", "rewrite", "done", "recover"}
  /\ Turn(d, m)
  /\ Stamp(d, m)
  /\ todo' = todo \ {<<d, m>>}
  /\ UNCHANGED <<header, devItem, used, pc, crashes>> /\ UNCHANGED memVars

(* The end of the program: memory is gone.                                 *)
Exit ==
  /\ pc' = "idle" /\ devs' = {} /\ copy' = None /\ listFsid' = None /\ new' = None
  /\ todo' = {}

(* change_fsid_prepare also leaves the chunk tree UUID in the root node,   *)
(* where a later run looks for it.                                         *)
PrepareRoot ==
  /\ pc = "prepare" /\ todo = {}
  /\ header' = [header EXCEPT ![RootNode].chunk = new.chunk]
  /\ pc' = "extents" /\ todo' = Block
  /\ UNCHANGED <<super, devItem, used, crashes>> /\ UNCHANGED memVars

(* change_extents_uuid and change_header_uuid, in the order of the extent  *)
(* tree; a block whose device is missing ends the run.                     *)
ChangeHeaderFsidOnly(b) == header' = [header EXCEPT ![b].fsid = new.fsid]
ChangeHeader(b) == header' = [header EXCEPT ![b] = new]

ChangeExtent(b) ==
  /\ pc = "extents" /\ b \in todo /\ \A c \in todo : b <= c
  /\ IF Home[b] \in devs
     THEN /\ ChangeHeader(b)
          /\ todo' = todo \ {b}
          /\ UNCHANGED pc /\ UNCHANGED memVars
     ELSE Exit /\ UNCHANGED header
  /\ UNCHANGED <<super, devItem, used, crashes>>

ExtentsDone ==
  /\ pc = "extents" /\ todo = {}
  /\ pc' = "devices" /\ todo' = Dev
  /\ UNCHANGED diskVars /\ UNCHANGED memVars /\ UNCHANGED <<used, crashes>>

(* change_devices_uuid                                                     *)
ChangeDevice(d) ==
  /\ pc = "devices" /\ d \in todo
  /\ devItem' = [devItem EXCEPT ![d] = new.fsid]
  /\ todo' = todo \ {d}
  /\ UNCHANGED <<super, header, used, pc, crashes>> /\ UNCHANGED memVars

(* Last, the UUID of the device list goes into the superblocks, and then   *)
(* the flag is cleared.                                                    *)
DevicesDone ==
  /\ pc = "devices" /\ todo = {}
  /\ listFsid' = new.fsid
  /\ pc' = "rewrite" /\ todo' = Supers(devs)
  /\ UNCHANGED diskVars /\ UNCHANGED <<devs, copy, new, used, crashes>>

ChangeFsidDone ==
  /\ pc = "rewrite" /\ todo = {}
  /\ copy' = [copy EXCEPT !.changing = FALSE]
  /\ pc' = "done" /\ todo' = Supers(devs)
  /\ UNCHANGED diskVars /\ UNCHANGED <<devs, listFsid, new, used, crashes>>

Finish ==
  /\ pc \in {"done", "recover"} /\ todo = {}
  /\ Exit
  /\ UNCHANGED diskVars /\ UNCHANGED <<used, crashes>>

(* The process dies; the devices keep what was written.                    *)
Crash ==
  /\ pc # "idle" /\ crashes < MaxCrash
  /\ Exit
  /\ crashes' = crashes + 1
  /\ UNCHANGED diskVars /\ UNCHANGED used

----------------------------------------------------------------------------
(* btrfs_recover_superblocks *)

(* The first copy of the first device that has a valid one: read_fs_supers *)
GoodSupers(ds) == {c \in Supers(ds) : Valid(super[c[1]][c[2]])}

(* open_ctree with OPEN_CTREE_RECOVER_SUPER reads the same copy of the     *)
(* device the user gave, not of the one it was found on.                   *)
Reopen(d, m) ==
  IF m = 0 THEN RecoverSuper(d) ELSE {s \in {super[d][m]} : Valid(s)}

SuperRecover(d) ==
  /\ pc = "idle"
  /\ \E first \in RecoverSuper(d) :
       LET ds == Scan(d, first.fsid)
       IN /\ GoodSupers(ds) # Supers(ds)
          /\ \E e \in ds, m \in Mirror :
               /\ <<e, m>> \in GoodSupers(ds)
               /\ \A k \in Mirror : k < m => <<e, k>> \notin GoodSupers(ds)
               /\ \E s \in Reopen(d, m) :
                    /\ Openable(s, ds, first.fsid, FALSE)
                    /\ copy' = [fsid |-> s.fsid, changing |-> s.changing]
          /\ listFsid' = first.fsid
          /\ devs' = ds /\ todo' = Supers(ds)
  /\ pc' = "recover"
  /\ UNCHANGED <<super, header, devItem, used, new, crashes>>

ChangeStep ==
  \/ \E d \in Dev, m \in Mirror : WriteSuper(d, m)
  \/ PrepareRoot
  \/ \E b \in Block : ChangeExtent(b)
  \/ ExtentsDone
  \/ \E d \in Dev : ChangeDevice(d)
  \/ DevicesDone
  \/ ChangeFsidDone
  \/ Finish

Next ==
  \/ \E d \in Dev, want \in Fsid \cup {None} : Start(d, want)
  \/ ChangeStep
  \/ Crash
  \/ \E d \in Dev : SuperRecover(d)

Spec == Init /\ [][Next]_vars

----------------------------------------------------------------------------
(* Properties *)

(* A filesystem other programs agree to open: the superblock is valid and  *)
(* does not say that a change is in progress.                              *)
Mountable(d) == Valid(super[d][0]) /\ ~super[d][0].changing

(* When change_uuid gets to change_fsid_done, no block and no device item  *)
(* is left with another UUID, for a resumed change as for a new one.       *)
FinishedIsComplete ==
  pc \in {"rewrite", "done"} =>
    /\ \A b \in Block : header[b] = new
    /\ \A d \in Dev : devItem[d] = new.fsid

(* A half-renamed filesystem is never opened: whenever a superblock is     *)
(* acceptable to __open_ctree_fd, every tree block and device item        *)
(* already carries its fsid, however many changes were interrupted and     *)
(* whatever super-recover did in between; and a change is only called done *)
(* when it is (FinishedIsComplete).                                        *)
MountableIsUniform ==
  /\ FinishedIsComplete
  /\ \A d \in Dev :
       Mountable(d) =>
         /\ \A b \in Block : header[b].fsid = super[d][0].fsid
         /\ \A e \in Dev : devItem[e] = super[d][0].fsid

(* Why it holds.  Either every block and device item carries one fsid and  *)
(* no first superblock copy is valid with another one, or no device can be *)
(* opened: their first copies are invalid, and on the devices open_ctree   *)
(* reads from so is every copy super-recover could fall back on.           *)
Uniform(f) ==
  /\ \A b \in Block : header[b].fsid = f
  /\ \A d \in Dev : devItem[d] = f
NoOther(f) == \A d \in Dev : Valid(super[d][0]) => super[d][0].fsid = f
Unopenable ==
  /\ \A d \in Dev : ~Valid(super[d][0])
  /\ \A b \in OpenReads, m \in Mirror : ~Valid(super[Home[b]][m])

UuidTypeOK ==
  /\ super \in [Dev -> [Mirror -> Super]]
  /\ header \in [Block -> Ids] /\ devItem \in [Dev -> Fsid]
  /\ pc \in {"idle", "prepare", "extents", "devices", "rewrite", "done", "recover"}
  /\ devs \subseteq Dev
  /\ pc # "idle" => /\ copy \in [fsid : Fsid, changing : BOOLEAN]
                    /\ listFsid \in Fsid
  /\ pc \notin {"idle", "recover"} => new \in Ids
  /\ pc \in {"prepare", "rewrite", "done", "recover"} => todo \subseteq Supers(devs)

(* What change_uuid has reached.  It has every device that can be opened   *)
(* and those of the root; before the first header it has made all their    *)
(* superblock copies unusable, unless it resumes a change, and then the    *)
(* headers are already as they should be.                                  *)
Changing ==
  /\ \A b \in OpenReads : Home[b] \in devs
  /\ \A e \in Dev \ devs : ~Valid(super[e][0])
  /\ copy = [fsid |-> new.fsid, changing |-> pc # "done"]
Stamped(d, m) == super[d][m] = [fsid |-> new.fsid, dev |-> listFsid, changing |-> TRUE]

Reached ==
  /\ pc \in {"prepare", "extents", "devices", "rewrite", "done"} => Changing
  /\ pc \in {"prepare", "recover"} => Uniform(listFsid) /\ NoOther(listFsid)
  /\ pc = "prepare" => \A d \in devs, m \in Mirror : <<d, m>> \notin todo => Stamped(d, m)
  /\ pc \in {"extents", "devices"} =>
       /\ \A d \in devs, m \in Mirror : Stamped(d, m)
       /\ listFsid = new.fsid => Uniform(listFsid)
       /\ \A b \in Block : (pc = "extents" => b \notin todo) => header[b] = new
       /\ pc = "devices" => \A d \in Dev : d \notin todo => devItem[d] = new.fsid
  /\ pc \in {"rewrite", "done"} =>
       /\ FinishedIsComplete
       /\ listFsid = new.fsid
       /\ \A d \in devs, m \in Mirror : super[d][m].fsid = new.fsid

RenameInv ==
  /\ UuidTypeOK
  /\ Unopenable \/ \E f \in Fsid : Uniform(f) /\ NoOther(f)
  /\ Reached

(* btrfstune(8): "To fix it, rerun 'btrfstune -u' to restore the UUID and  *)
(* let it complete."  After an interrupted run some device still opens.    *)
RerunCanOpen == pc = "idle" => \E d \in Dev : ReadSuper(d) # {}
=============================================================================
