----------------------------- MODULE ImageDump ------------------------------
(***************************************************************************)
(* btrfs-image writing a metadata image (image/main.c): the main thread    *)
(* walks the trees, gathers neighbouring extents into buffers and queues   *)
(* them; worker threads compress them; a cluster is written when it is     *)
(* full and all of its buffers are ready.  Every critical section of       *)
(* md->mutex is one action.                                                *)
(***************************************************************************)
EXTENDS Integers, Sequences, FiniteSets, Functions

CONSTANTS
  Worker,           \* compression threads
  Extents,          \* what the walk finds: a sequence of extents
  CacheFrom,        \* from this index on they come from copy_space_cache
  ItemsPerCluster,  \* ITEMS_PER_CLUSTER
  MaxPending,       \* MAX_PENDING_SIZE
  BlockSize,        \* BLOCK_SIZE
  PackedSize,       \* sizes compression may arrive at
  Faults,           \* what may fail: "walk", "read", "write", "nomem", "zlib"
  MaxFaults         \* bound on the number of failures

(* What the theorems of DumpProofs assume: an extent has a size, a cluster *)
(* an entry and a block a byte at least.                                   *)
Found == [start : Nat, size : Nat \ {0}, data : BOOLEAN]
DumpConstants ==
  /\ IsFiniteSet(Worker)
  /\ Extents \in Seq(Found)
  /\ ItemsPerCluster \in Nat \ {0} /\ BlockSize \in Nat \ {0} /\ CacheFrom \in Nat
  /\ PackedSize \subseteq Nat

VARIABLES
  compress,  \* compress_level > 0, from the command line
  main,      \* where create_metadump stands
  next,      \* the extent the walk has come to
  pending,   \* pending_start, pending_size and data
  ordered,   \* md->ordered, with the state of each buffer
  list,      \* md->list: positions of buffers no worker has taken
  numItems, numReady,
  header,    \* cluster.header.bytenr
  done, error,
  worker,    \* what each thread does
  holds,     \* the buffer each thread has taken
  file,      \* clusters written, with the offset each was written at
  fileLen,
  err,       \* what create_metadump is going to return
  lost,      \* whether anything failed: "no", "elsewhere" or "cache"
  faults

vars == <<compress, main, next, pending, ordered, list, numItems, numReady, header, done, error,
          worker, holds, file, fileLen, err, lost, faults>>
walkVars == <<next, pending>>
clusterVars == <<ordered, numItems, numReady, header, file, fileLen>>

NoPending == [start |-> -1, size |-> 0, data |-> FALSE]

(* metadump_init.  Without compression there are no threads.               *)
Init ==
  /\ compress \in BOOLEAN
  /\ main = "walk" /\ next = 1 /\ pending = NoPending
  /\ ordered = <<>> /\ list = <<>> /\ numItems = 0 /\ numReady = 0 /\ header = 0
  /\ done = FALSE /\ error = FALSE
  /\ worker = [w \in Worker |-> IF compress THEN "run" ELSE "exit"]
  /\ holds = [w \in Worker |-> 0]
  /\ file = <<>> /\ fileLen = 0 /\ err = FALSE /\ lost = "no" /\ faults = 0

(* A failure, and whether the main thread meets it in copy_space_cache.    *)
CopyingCache == main \in {"walk", "writeAdd", "sleepAdd"} /\ next >= CacheFrom
Fails(f) ==
  /\ f \in Faults /\ faults < MaxFaults /\ faults' = faults + 1
  /\ lost' = IF CopyingCache /\ f # "nomem" THEN "cache"
             ELSE IF lost = "no" THEN "elsewhere" ELSE lost
Works == UNCHANGED <<faults, lost>>

----------------------------------------------------------------------------
(* The main thread *)

(* add_extent: an extent that continues the pending one joins it.          *)
Joins(e) ==
  /\ pending.data = e.data /\ pending.size + e.size <= MaxPending
  /\ pending.start + pending.size = e.start

Join(e) == pending' = [pending EXCEPT !.size = @ + e.size, !.data = e.data]

(* copy_from_extent_tree, copy_tree_blocks, copy_log_trees: one extent     *)
(* that needs no flush                                                     *)
AddExtent ==
  /\ main = "walk" /\ next <= Len(Extents)
  /\ LET e == Extents[next]
     IN \/ Joins(e) /\ Join(e)
        \/ ~Joins(e) /\ pending.size = 0 /\ pending' = e
  /\ next' = next + 1
  /\ Works
  /\ UNCHANGED <<main, list, done, error, worker, err>> /\ UNCHANGED <<clusterVars, holds>>

(* The walk itself fails.  The result of copy_space_cache is overwritten   *)
(* by the flush that follows.                                              *)
WalkFails ==
  /\ main = "walk" /\ next > 1 /\ next <= Len(Extents)
  /\ Fails("walk")
  /\ err' = (next < CacheFrom)
  /\ main' = "out"
  /\ UNCHANGED <<list, done, error, worker>> /\ UNCHANGED walkVars /\ UNCHANGED <<clusterVars, holds>>

WalkDone ==
  /\ main = "walk" /\ next > Len(Extents)
  /\ main' = "out"
  /\ Works
  /\ UNCHANGED <<list, done, error, worker, err>> /\ UNCHANGED walkVars /\ UNCHANGED <<clusterVars, holds>>

(* flush_pending: read the pending extent into a buffer and queue it; the  *)
(* signal wakes one thread that waits.                                     *)
Buffer ==
  [start |-> pending.start, size |-> pending.size, bufsize |-> pending.size,
   state |-> IF compress THEN "raw" ELSE "ready"]

Signal ==
  \/ \E w \in Worker : worker[w] = "wait" /\ worker' = [worker EXCEPT ![w] = "run"]
  \/ (\A w \in Worker : worker[w] # "wait") /\ UNCHANGED worker

Queue ==
  /\ ordered' = Append(ordered, Buffer)
  /\ numItems' = numItems + 1
  /\ IF compress
     THEN list' = Append(list, Len(ordered) + 1) /\ UNCHANGED numReady /\ Signal
     ELSE numReady' = numReady + 1 /\ UNCHANGED <<list, worker>>
  /\ pending' = NoPending
  /\ UNCHANGED <<header, file, fileLen>>

NeedsFlush ==
  /\ main = "walk" /\ next <= Len(Extents) /\ pending.size > 0 /\ ~Joins(Extents[next])

FlushForAdd ==
  /\ NeedsFlush
  /\ Queue /\ Works
  /\ main' = IF numItems + 1 >= ItemsPerCluster THEN "writeAdd" ELSE "walk"
  /\ UNCHANGED <<next, done, error, err, holds>>

(* A read error leaves the extent pending.                                 *)
FlushForAddFails ==
  /\ NeedsFlush
  /\ Fails("read")
  /\ err' = (next < CacheFrom) /\ main' = "out"
  /\ UNCHANGED <<list, done, error, worker>> /\ UNCHANGED walkVars /\ UNCHANGED <<clusterVars, holds>>

(* The last flush, whatever happened before.                               *)
FlushAtEnd ==
  /\ main = "out"
  /\ main' = "writeEnd"
  /\ IF pending.size > 0 THEN Queue
     ELSE UNCHANGED <<pending, list, worker>> /\ UNCHANGED clusterVars
  /\ Works
  /\ UNCHANGED <<next, done, error, err, holds>>

FlushAtEndFails ==
  /\ main = "out" /\ pending.size > 0
  /\ Fails("read")
  /\ err' = TRUE /\ main' = "destroy"
  /\ UNCHANGED <<list, done, error, worker>> /\ UNCHANGED walkVars /\ UNCHANGED <<clusterVars, holds>>

(* write_buffers waits, with the mutex released, until every buffer is     *)
(* ready; it looks at md->error only after it has slept.                   *)
Asleep == main \in {"sleepAdd", "sleepEnd"}
Sleep ==
  /\ main \in {"writeAdd", "writeEnd"} /\ ordered # <<>> /\ numItems > numReady
  /\ main' = IF main = "writeAdd" THEN "sleepAdd" ELSE "sleepEnd"
  /\ Works
  /\ UNCHANGED <<list, done, error, worker, err>> /\ UNCHANGED walkVars /\ UNCHANGED <<clusterVars, holds>>

MayWriteUnready ==
  /\ numItems <= numReady + 1
  /\ main \in {"writeAdd", "writeEnd"} \/ (Asleep /\ ~error)
MayWrite ==
  /\ numItems <= numReady
  /\ main \in {"writeAdd", "writeEnd"} \/ (Asleep /\ ~error)

After == IF main \in {"writeAdd", "sleepAdd"} THEN "walk" ELSE "destroy"
FailedQuietly ==
  /\ UNCHANGED err
  /\ main' = IF main \in {"writeAdd", "sleepAdd"} THEN "out" ELSE "destroy"
Failed ==
  /\ err' = (err \/ main \in {"writeEnd", "sleepEnd"} \/ next < CacheFrom)
  /\ main' = IF main \in {"writeAdd", "sleepAdd"} THEN "out" ELSE "destroy"

RoundUp(n) == ((n + BlockSize - 1) \div BlockSize) * BlockSize
Bytes(items) ==
  LET upTo[i \in 0 .. Len(items)] == IF i = 0 THEN 0 ELSE upTo[i - 1] + items[i].bufsize
  IN upTo[Len(items)]

(* The index block, then the buffers in the order they were queued, padded *)
(* to a whole block; meta_cluster_init starts the next cluster behind it.  *)
WriteCluster ==
  /\ MayWrite /\ ordered # <<>>
  /\ LET end == RoundUp(header + BlockSize + Bytes(ordered))
     IN /\ file' = Append(file, [bytenr |-> header, at |-> fileLen, items |-> ordered])
        /\ fileLen' = fileLen + BlockSize + RoundUp(Bytes(ordered))
        /\ header' = end
  /\ ordered' = <<>> /\ numItems' = 0 /\ numReady' = 0
  /\ main' = After
  /\ Works
  /\ UNCHANGED <<list, done, error, worker, holds, err>> /\ UNCHANGED walkVars

NothingToWrite ==
  /\ main = "writeEnd" /\ ordered = <<>>
  /\ header' = 0 /\ numItems' = 0 /\ numReady' = 0
  /\ main' = "destroy"
  /\ Works
  /\ UNCHANGED <<ordered, list, done, error, worker, holds, file, fileLen, err>> /\ UNCHANGED walkVars

(* A worker gave up.                                                       *)
WorkerFailed ==
  /\ Asleep /\ error
  /\ Failed
  /\ UNCHANGED <<list, done, error, worker, lost, faults>>
  /\ UNCHANGED walkVars /\ UNCHANGED <<clusterVars, holds>>

(* The index block cannot be written: the buffers stay queued.             *)
IndexWriteFails ==
  /\ MayWrite /\ ordered # <<>>
  /\ Fails("write")
  /\ Failed
  /\ UNCHANGED <<list, done, error, worker>> /\ UNCHANGED walkVars /\ UNCHANGED <<clusterVars, holds>>

(* A buffer or the padding cannot be written: all buffers are freed and    *)
(* the counts are left as they are.                                        *)
BufferWriteFails ==
  /\ MayWrite /\ ordered # <<>>
  /\ Fails("write")
  /\ Failed
  /\ ordered' = <<>>
  /\ fileLen' = fileLen + BlockSize
  /\ UNCHANGED <<numItems, numReady, header, file, list, done, error, worker, holds>>
  /\ UNCHANGED walkVars

(* metadump_destroy                                                        *)
DestroyNoBroadcast ==
  /\ main = "destroy"
  /\ done' = TRUE /\ main' = "join"
  /\ UNCHANGED worker
  /\ Works
  /\ UNCHANGED <<list, error, err>> /\ UNCHANGED walkVars /\ UNCHANGED <<clusterVars, holds>>

Destroy ==
  /\ main = "destroy"
  /\ done' = TRUE /\ main' = "join"
  /\ worker' = [w \in Worker |-> IF worker[w] = "wait" THEN "run" ELSE worker[w]]
  /\ Works
  /\ UNCHANGED <<list, error, err>> /\ UNCHANGED walkVars /\ UNCHANGED <<clusterVars, holds>>

JoinWorkers ==
  /\ main = "join" /\ \A w \in Worker : worker[w] = "exit"
  /\ main' = "exit"
  /\ Works
  /\ UNCHANGED <<list, done, error, worker, err>> /\ UNCHANGED walkVars /\ UNCHANGED <<clusterVars, holds>>

----------------------------------------------------------------------------
(* dump_worker *)

workerFrame ==
  UNCHANGED <<main, next, pending, numItems, header, done, file, fileLen, err>>

Take(w) ==
  /\ worker[w] = "run"
  /\ IF list # <<>>
     THEN /\ worker' = [worker EXCEPT ![w] = "pack"]
          /\ holds' = [holds EXCEPT ![w] = Head(list)]
          /\ list' = Tail(list)
     ELSE /\ worker' = [worker EXCEPT ![w] = IF done THEN "exit" ELSE "wait"]
          /\ UNCHANGED <<list, holds>>
  /\ Works
  /\ UNCHANGED <<ordered, numReady, error>> /\ workerFrame

(* pthread_cond_wait may return without a signal.                          *)
Spurious(w) ==
  /\ worker[w] = "wait"
  /\ worker' = [worker EXCEPT ![w] = "run"]
  /\ Works
  /\ UNCHANGED <<ordered, list, holds, numReady, error>> /\ workerFrame

PackAs(w, state) ==
  /\ worker[w] = "pack"
  /\ \E n \in PackedSize :
       ordered' = [ordered EXCEPT ![holds[w]].bufsize = n, ![holds[w]].state = state]
  /\ worker' = [worker EXCEPT ![w] = "packed"]
  /\ UNCHANGED <<list, holds, numReady, error>> /\ workerFrame

Pack(w) == PackAs(w, "ready") /\ Works

(* compress2 fails: async->error is set, and nobody looks at it.           *)
PackFails(w) == PackAs(w, "garbage") /\ Fails("zlib")

NoMemory(w) ==
  /\ worker[w] = "pack"
  /\ Fails("nomem")
  /\ error' = TRUE
  /\ worker' = [worker EXCEPT ![w] = "exit"]
  /\ UNCHANGED <<ordered, list, holds, numReady>> /\ workerFrame

Ready(w) ==
  /\ worker[w] = "packed"
  /\ numReady' = numReady + 1
  /\ worker' = [worker EXCEPT ![w] = "run"] /\ holds' = [holds EXCEPT ![w] = 0]
  /\ Works
  /\ UNCHANGED <<ordered, list, error>> /\ workerFrame

MainStep ==
  \/ AddExtent \/ WalkFails \/ WalkDone
  \/ FlushForAdd \/ FlushForAddFails \/ FlushAtEnd \/ FlushAtEndFails
  \/ Sleep \/ WriteCluster \/ NothingToWrite
  \/ WorkerFailed \/ IndexWriteFails \/ BufferWriteFails
  \/ Destroy \/ JoinWorkers

WorkerStep(w) == Take(w) \/ Pack(w) \/ PackFails(w) \/ NoMemory(w) \/ Ready(w)

Next ==
  /\ \/ MainStep
     \/ \E w \in Worker : WorkerStep(w) \/ Spurious(w)
  /\ UNCHANGED compress

(* The main thread and every worker keep running; a wait ends only with a  *)
(* signal.                                                                 *)
Spec ==
  /\ Init /\ [][Next]_vars
  /\ WF_vars(MainStep /\ UNCHANGED compress) /\ \A w \in Worker : WF_vars(WorkerStep(w) /\ UNCHANGED compress)

----------------------------------------------------------------------------
(* Properties *)

Covered(items) == UNION {b.start .. b.start + b.size - 1 : b \in Range(items)}
Written == UNION {Covered(file[k].items) : k \in DOMAIN file}

\* Nothing in cluster k was found by the walk before anything in a cluster before it.
InWalkOrder(k) ==
  \A l \in DOMAIN file : \A i \in DOMAIN file[k].items, j \in DOMAIN file[l].items :
    (k < l \/ (k = l /\ i < j)) =>
      \E m, n \in DOMAIN Extents :
        /\ m < n
        /\ Extents[m].start = file[k].items[i].start
        /\ Extents[n].start = file[l].items[j].start

(* The image is one the restoring side can read: no buffer goes to it      *)
(* before its worker has finished with it (num_ready against num_items in  *)
(* write_buffers) and, as long as nothing failed, no index block has more  *)
(* entries than fit, header.bytenr of every cluster is its offset in the   *)
(* image (which restore_metadump and search_for_chunk_blocks insist on)    *)
(* and extents lie in the order the walk found them, the superblock first. *)
ClustersWellFormed ==
  \A k \in DOMAIN file :
    /\ \A b \in Range(file[k].items) : b.state # "raw"
    /\ lost = "no" => /\ Len(file[k].items) <= ItemsPerCluster
                      /\ file[k].bytenr = file[k].at
                      /\ InWalkOrder(k)

(* An image that create_metadump reports good holds every extent the walk  *)
(* found, whatever a read, a write or a worker met on the way outside of   *)
(* copy_space_cache.                                                       *)
ReportedGoodIsComplete ==
  main = "exit" /\ ~err /\ lost # "cache" => Written = Covered(Extents)

(* btrfs-image(8): "btrfs-image will return 0 if no error happened.  If    *)
(* any problems happened, 1 will be returned."                             *)
ProblemsReported == main = "exit" /\ lost # "no" => err

(* The dump ends, whatever fails: no thread waits for a signal that was    *)
(* given before it began to wait, and no one waits for a worker that gave  *)
(* up.                                                                     *)
DumpEnds == <>(main = "exit")
=============================================================================
