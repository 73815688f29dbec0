---------------------------- MODULE ImageRestore ----------------------------
(***************************************************************************)
(* btrfs-image -r (image/main.c): the main thread reads the clusters of an *)
(* image and queues their items; worker threads unpack each item, patch    *)
(* the superblock and the chunk tree, and write it to the target; when all *)
(* items are written the device items of the restored filesystem are       *)
(* corrected.  mdres->mutex is modelled, since a worker keeps it while it  *)
(* writes.                                                                 *)
(***************************************************************************)
EXTENDS Naturals, Sequences, FiniteSets, SequencesExt

CONSTANTS
  Worker,     \* restore threads
  Clusters,   \* the image: a sequence of clusters, each a sequence of items
  Super,      \* the item that holds the superblock
  Modes,      \* among "single", "old" (-o) and "multi" (-m)
  Faults,     \* "read", "zlib", "nomem", "write", "dead", "open", "devs"
  MaxFaults,  \* bound on the number of failures
  Nobody

VARIABLES
  mode, zlib,  \* from the command line and from the image
  main,        \* where restore_metadump and main stand
  todo,        \* items of the current cluster that are not queued yet
  cluster,     \* clusters read so far
  mutex,       \* who holds mdres->mutex among the workers
  list, numItems, nodesize, error, done,
  mapped,      \* the chunk tree is there
  worker, holds,
  werr,        \* err of each worker
  out,         \* what the target holds of every item
  err,         \* the exit status
  lost,        \* the failures so far
  dead         \* the target takes no more writes

vars == <<mode, zlib, main, todo, cluster, mutex, list, numItems, nodesize, error, done,
          mapped, worker, holds, werr, out, err, lost, dead>>

Items == UNION {Range(Clusters[k]) : k \in DOMAIN Clusters}

(* The superblock is among the items of an image.                          *)
ASSUME RestoreAssumption ==
  /\ IsFiniteSet(Worker)
  /\ Clusters \in Seq(Seq(Items)) /\ Super \in Items
  /\ Modes \subseteq {"single", "old", "multi"}

Init ==
  /\ mode \in Modes /\ zlib \in BOOLEAN
  /\ main = "build" /\ todo = <<>> /\ cluster = 0
  /\ mutex = Nobody /\ list = <<>> /\ numItems = 0 /\ nodesize = FALSE
  /\ error = FALSE /\ done = FALSE /\ mapped = FALSE
  /\ worker = [w \in Worker |-> "start"] /\ holds = [w \in Worker |-> Super]
  /\ werr = [w \in Worker |-> FALSE]
  /\ out = [i \in Items |-> "nothing"]
  /\ err = FALSE /\ lost = <<>> /\ dead = FALSE

Fails(f) == f \in Faults /\ Len(lost) < MaxFaults /\ lost' = Append(lost, f)
Works == UNCHANGED lost

shared == <<list, numItems, nodesize, error, done>>
workers == <<mutex, worker, holds, werr, out, dead>>

----------------------------------------------------------------------------
(* The main thread *)

(* build_chunk_tree, in single mode: finds the superblock and from it the  *)
(* chunk tree, by searching the image.                                     *)
BuildChunkTree ==
  /\ main = "build"
  /\ main' = "read"
  /\ IF mode = "single" THEN mapped' = TRUE /\ nodesize' = TRUE
     ELSE UNCHANGED <<mapped, nodesize>>
  /\ Works
  /\ UNCHANGED <<mode, zlib, todo, cluster, list, numItems, error, done, err>>
  /\ UNCHANGED workers

BuildFails ==
  /\ main = "build" /\ mode = "single"
  /\ Fails("read")
  /\ main' = "destroy" /\ err' = TRUE
  /\ UNCHANGED <<mode, zlib, todo, cluster, mapped>> /\ UNCHANGED shared /\ UNCHANGED workers

(* The loop of restore_metadump: it ends at the end of the image, when a   *)
(* worker failed, and when a cluster is bad or cannot be read; what ended  *)
(* it is forgotten, since ret is set again by wait_for_worker.             *)
ReadCluster ==
  /\ main = "read" /\ todo = <<>>
  /\ IF cluster < Len(Clusters) /\ ~error
     THEN /\ cluster' = cluster + 1 /\ todo' = Clusters[cluster + 1]
          /\ UNCHANGED main
     ELSE main' = "wait" /\ UNCHANGED <<cluster, todo>>
  /\ Works
  /\ UNCHANGED <<mode, zlib, mapped, err>> /\ UNCHANGED shared /\ UNCHANGED workers

ReadFails ==
  /\ main = "read"
  /\ Fails("read")
  /\ main' = "wait"
  /\ UNCHANGED <<mode, zlib, todo, cluster, mapped, err>>
  /\ UNCHANGED shared /\ UNCHANGED workers

(* add_cluster, one item; fill_mdres_info when it is the superblock.       *)
AddItem ==
  /\ main = "read" /\ todo # <<>> /\ mutex = Nobody
  /\ list' = Append(list, Head(todo)) /\ todo' = Tail(todo)
  /\ numItems' = numItems + 1
  /\ nodesize' = (nodesize \/ Head(todo) = Super)
  /\ \/ \E w \in Worker :
          worker[w] = "wait" /\ worker' = [worker EXCEPT ![w] = "run"]
     \/ (\A w \in Worker : worker[w] # "wait") /\ UNCHANGED worker
  /\ Works
  /\ UNCHANGED <<mode, zlib, main, cluster, mutex, error, done, mapped, holds, werr, out,
                 err, dead>>

(* wait_for_worker, then what its result leads to.                         *)
AfterWait ==
  IF error THEN "destroy" ELSE IF mode = "single" THEN "fixup" ELSE "destroy"
WaitForWorkerDrained == main = "wait" /\ mutex = Nobody /\ (error \/ list = <<>>)
WaitForWorker ==
  main = "wait" /\ mutex = Nobody /\ (error \/ numItems = 0)

Waited ==
  /\ WaitForWorker
  /\ main' = AfterWait /\ err' = error
  /\ Works
  /\ UNCHANGED <<mode, zlib, todo, cluster, mapped>> /\ UNCHANGED shared /\ UNCHANGED workers

(* The restored filesystem is opened, for which its superblock must be     *)
(* there, and fixup_devices commits one transaction to it.                 *)
FixupDevices ==
  /\ main = "fixup"
  /\ main' = "destroy"
  /\ \/ Works /\ err' = (out[Super] # "good")
     \/ Fails("open") /\ err' = TRUE
  /\ UNCHANGED <<mode, zlib, todo, cluster, mapped>> /\ UNCHANGED shared /\ UNCHANGED workers

(* mdrestore_destroy: the chunk tree goes first, without the mutex.        *)
FreeChunkTree ==
  /\ main = "destroy"
  /\ mapped' = FALSE /\ main' = "stop"
  /\ Works
  /\ UNCHANGED <<mode, zlib, todo, cluster, err>> /\ UNCHANGED shared /\ UNCHANGED workers

StopWorkersOne ==
  /\ main = "stop" /\ mutex = Nobody
  /\ done' = TRUE /\ main' = "join"
  /\ \/ \E w \in Worker :
          worker[w] = "wait" /\ worker' = [worker EXCEPT ![w] = "run"]
     \/ (\A w \in Worker : worker[w] # "wait") /\ UNCHANGED worker
  /\ Works
  /\ UNCHANGED <<mode, zlib, todo, cluster, mutex, list, numItems, nodesize, error, mapped,
                 holds, werr, out, err, dead>>
StopWorkers ==
  /\ main = "stop" /\ mutex = Nobody
  /\ done' = TRUE /\ main' = "join"
  /\ worker' = [w \in Worker |-> IF worker[w] = "wait" THEN "run" ELSE worker[w]]
  /\ Works
  /\ UNCHANGED <<mode, zlib, todo, cluster, mutex, list, numItems, nodesize, error, mapped,
                 holds, werr, out, err, dead>>

JoinWorkers ==
  /\ main = "join" /\ \A w \in Worker : worker[w] = "exit"
  /\ main' = IF mode = "multi" /\ ~err THEN "others" ELSE "exit"
  /\ Works
  /\ UNCHANGED <<mode, zlib, todo, cluster, mapped, err>>
  /\ UNCHANGED shared /\ UNCHANGED workers

(* main(), with several devices: too few devices end the program with the  *)
(* status of the restore; otherwise the superblock is written to the next  *)
(* device.  update_disk_super_on_device returns what pwrite64 returned, a  *)
(* number of bytes, which main takes for a failure.                        *)
UpdateOtherDevices ==
  /\ main = "others"
  /\ main' = "exit"
  /\ \/ Fails("open") /\ err' = TRUE
     \/ Fails("devs") /\ UNCHANGED err
     \/ Works /\ err' = TRUE
  /\ UNCHANGED <<mode, zlib, todo, cluster, mapped>> /\ UNCHANGED shared /\ UNCHANGED workers

----------------------------------------------------------------------------
(* restore_worker *)

mainVars == <<mode, zlib, main, todo, cluster, nodesize, done, mapped, err>>

Begin(w) ==
  /\ worker[w] = "start"
  /\ worker' = [worker EXCEPT ![w] = "run"]
  /\ Works
  /\ UNCHANGED <<mutex, list, numItems, error, holds, werr, out, dead>> /\ UNCHANGED mainVars

BeginFails(w) ==
  /\ worker[w] = "start" /\ mutex = Nobody
  /\ Fails("nomem")
  /\ error' = TRUE
  /\ worker' = [worker EXCEPT ![w] = "exit"]
  /\ UNCHANGED <<mutex, list, numItems, holds, werr, out, dead>> /\ UNCHANGED mainVars

(* Take the next item.  A packed one is unpacked without the mutex.        *)
Take(w) ==
  /\ worker[w] = "run" /\ mutex = Nobody
  /\ IF nodesize /\ list # <<>>
     THEN /\ holds' = [holds EXCEPT ![w] = Head(list)] /\ list' = Tail(list)
          /\ werr' = [werr EXCEPT ![w] = FALSE]
          /\ worker' = [worker EXCEPT ![w] = IF zlib THEN "inflate" ELSE "write"]
          /\ mutex' = IF zlib THEN Nobody ELSE w
     ELSE /\ worker' = [worker EXCEPT ![w] = IF done THEN "exit" ELSE "wait"]
          /\ UNCHANGED <<holds, list, werr, mutex>>
  /\ Works
  /\ UNCHANGED <<numItems, error, out, dead>> /\ UNCHANGED mainVars

Inflate(w) ==
  /\ worker[w] = "inflate" /\ mutex = Nobody
  /\ worker' = [worker EXCEPT ![w] = "write"] /\ mutex' = w
  /\ \/ Works /\ UNCHANGED werr
     \/ Fails("zlib") /\ werr' = [werr EXCEPT ![w] = TRUE]
  /\ UNCHANGED <<list, numItems, error, holds, out, dead>> /\ UNCHANGED mainVars

(* What a write leaves on the target: without the chunk tree an item may   *)
(* land anywhere.                                                          *)
Outcome(w) ==
  IF werr[w] THEN {"garbled"}
  ELSE IF mode = "single" /\ ~mapped THEN {"good", "garbled"}
  ELSE {"good"}

(* update_super or fixup_chunk_tree_block, the writes, and the end of the  *)
(* loop's body.                                                            *)
WriteQuietly(w) ==
  /\ worker[w] = "write" /\ ~dead
  /\ \E o \in Outcome(w) : out' = [out EXCEPT ![holds[w]] = o]
  /\ numItems' = numItems - 1
  /\ mutex' = Nobody /\ worker' = [worker EXCEPT ![w] = "run"]
  /\ Works
  /\ UNCHANGED <<list, error, holds, werr, dead>> /\ UNCHANGED mainVars
Write(w) ==
  /\ worker[w] = "write" /\ ~dead
  /\ \E o \in Outcome(w) : out' = [out EXCEPT ![holds[w]] = o]
  /\ error' = (error \/ werr[w])
  /\ numItems' = numItems - 1
  /\ mutex' = Nobody /\ worker' = [worker EXCEPT ![w] = "run"]
  /\ Works
  /\ UNCHANGED <<list, holds, werr, dead>> /\ UNCHANGED mainVars

(* A failed write is noted and tried again, for ever if need be.           *)
WriteFails(w) ==
  /\ worker[w] = "write" /\ ~dead
  /\ \E f \in {"write", "dead"} : Fails(f) /\ dead' = (f = "dead")
  /\ werr' = [werr EXCEPT ![w] = TRUE]
  /\ UNCHANGED <<mutex, worker, list, numItems, error, holds, out>> /\ UNCHANGED mainVars

MainStep ==
  \/ BuildChunkTree \/ BuildFails \/ ReadCluster \/ ReadFails \/ AddItem \/ Waited
  \/ FixupDevices \/ FreeChunkTree \/ StopWorkers \/ JoinWorkers \/ UpdateOtherDevices

WorkerStep(w) ==
  Begin(w) \/ BeginFails(w) \/ Take(w) \/ Inflate(w) \/ Write(w) \/ WriteFails(w)

Next == MainStep \/ \E w \in Worker : WorkerStep(w)

(* Threads keep running, and none waits for the mutex for ever while the   *)
(* others release it.                                                      *)
Spec ==
  /\ Init /\ [][Next]_vars
  /\ SF_vars(MainStep) /\ \A w \in Worker : SF_vars(WorkerStep(w))

----------------------------------------------------------------------------
(* Properties *)

InFlight == {w \in Worker : worker[w] \in {"inflate", "write"}}

(* mdres->num_items counts the items that are queued and those a worker    *)
(* has taken, so that wait_for_worker lets nobody open the filesystem      *)
(* while something is still to be written to it.                           *)
FixupSeesAll == main = "fixup" => list = <<>> /\ InFlight = {}

(* When restore_metadump is satisfied, every item of the clusters it read  *)
(* is on the target as it should be, and the filesystem was not opened     *)
(* before they all were there (FixupSeesAll).                              *)
ReportedGoodIsRestored ==
  /\ FixupSeesAll
  /\ main = "exit" /\ ~err /\ "read" \notin Range(lost) =>
       \A i \in Items : out[i] = "good"

(* Why it holds.  num_items is what is queued and what the workers have    *)
(* taken, and every item of the clusters read so far is still to be        *)
(* queued, queued, taken, or on the target as it should be, unless a       *)
(* worker has reported an error.                                           *)
RestoreTypeOK ==
  /\ main \in {"build", "read", "wait", "fixup", "destroy", "stop", "join", "others", "exit"}
  /\ mode \in Modes
  /\ cluster \in 0 .. Len(Clusters) /\ todo \in Seq(Items) /\ list \in Seq(Items)
  /\ numItems \in Nat
  /\ worker \in [Worker -> {"start", "run", "wait", "inflate", "write", "exit"}]
  /\ holds \in [Worker -> Items]
  /\ out \in [Items -> {"nothing", "good", "garbled"}]
  /\ lost \in Seq(Faults)

Accounted(i) ==
  \/ i \in Range(todo) \/ i \in Range(list)
  \/ \E w \in InFlight : holds[w] = i
  \/ out[i] = "good"

Complete ==
  /\ list = <<>> /\ InFlight = {}
  /\ "read" \notin Range(lost) => \A i \in Items : out[i] = "good"

Counted == numItems = Len(list) + Cardinality(InFlight)

Phase ==
  /\ main = "build" => cluster = 0 /\ todo = <<>> /\ numItems = 0
  /\ main \in {"read", "wait"} =>
       /\ mode = "single" => mapped
       /\ error \/ \A k \in 1 .. cluster : \A i \in Range(Clusters[k]) : Accounted(i)
  /\ main = "wait" =>
       error \/ "read" \in Range(lost) \/ (cluster = Len(Clusters) /\ todo = <<>>)
  /\ main = "fixup" => Complete
  /\ main \in {"destroy", "stop", "join", "others", "exit"} => err \/ Complete

RestoreInv == RestoreTypeOK /\ Counted /\ Phase

(* Whatever fails, short of a target that takes no more writes, the        *)
(* restore ends and its threads are joined.                                *)
RestoreEnds == <>(main = "exit")

(* btrfs-image(8): "If any problems happened, 1 will be returned."         *)
ProblemsReported == main = "exit" /\ lost # <<>> => err

(* btrfs-image(8): "btrfs-image will return 0 if no error happened."       *)
CleanRestoreSucceeds == main = "exit" /\ lost = <<>> => ~err

(* btrfs-image(8): "If any problems happened, 1 will be returned": a       *)
(* target that cannot be written to ends the program with status 1.        *)
DeadTargetReported == dead ~> (main = "exit" /\ err)
=============================================================================
