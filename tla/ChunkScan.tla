------------------------------ MODULE ChunkScan ------------------------------
(***************************************************************************)
(* The scan of btrfs rescue chunk-recover (chunk-recover.c): one thread    *)
(* per device reads it from end to end, takes whatever looks like a tree   *)
(* block of the filesystem, of whatever age, and records in caches shared  *)
(* with the other threads where the block lies and the block groups,       *)
(* chunks and device extents that a leaf of it describes.  The caches hold *)
(* no two records that overlap: the newer generation stays.                *)
(***************************************************************************)
EXTENDS Integers, Sequences, FiniteSets

CONSTANTS
  Dev,
  Disks,            \* what may lie on the devices: device -> sequence of tree blocks
  Generation,       \* of the superblock
  ChunkGeneration,  \* chunk_root_generation of the superblock
  MaxMirrors,       \* BTRFS_MAX_MIRRORS
  MaxFaults         \* failing calls in a behaviour

(* What the theorems of ScanProofs assume of the blocks on the devices.    *)
IsList(s) == Len(s) \in Nat /\ DOMAIN s = 1 .. Len(s)
IsItem(it) == it.kind \in {"chunk", "bg", "devext"} /\ it.start \in Nat /\ it.size \in Nat
IsBlock(b) ==
  /\ b.start \in Nat /\ b.gen \in Nat
  /\ IsList(b.items) /\ \A j \in DOMAIN b.items : IsItem(b.items[j])
ScanConstants ==
  \A f \in Disks : \A d \in Dev : IsList(f[d]) /\ \A i \in DOMAIN f[d] : IsBlock(f[d][i])

VARIABLES
  disk,    \* device -> tree blocks that can be read, by physical address
  cache,   \* rc->eb_cache, chunk, bg and devext
  pos,     \* device -> number of the block and of the item the thread is at
  thread,  \* device -> "none", "new", "run", "ok", "err" or "gone"
  main,    \* scan_devices: "open", "create", "join", "scanned" or "failed"
  joined,  \* devices whose thread was joined
  cancelled,
  faults
vars == <<disk, cache, pos, thread, main, joined, cancelled, faults>>

(* -- the caches --------------------------------------------------------------- *)

\* a record: dev is 0 in all but device extents, places are used for tree blocks only
Record(dev, start, size, gen, data, places) ==
  [dev |-> dev, start |-> start, size |-> size, gen |-> gen, data |-> data, places |-> places]
Overlap(a, b) ==
  a.dev = b.dev /\ a.start < b.start + b.size /\ b.start < a.start + a.size
Same(a, b) == [a EXCEPT !.places = {}] = [b EXCEPT !.places = {}]

Hits(S, rec) == {e \in S : Overlap(e, rec)}
Older(S, rec) == {e \in Hits(S, rec) : e.gen < rec.gen}

\* a mutant: what was found first stays
KeepsFirst(S, rec) ==
  IF \E e \in S : Overlap(e, rec) THEN {[S |-> S, ret |-> "ok"]}
  ELSE {[S |-> S \cup {rec}, ret |-> "ok"]}

AddPlaces(e, rec) == [e EXCEPT !.places = @ \cup rec.places]

\* the older records in gone were removed before the search found e, which is not older
Kept(S, rec, e, gone) ==
  CASE e.gen > rec.gen -> [S |-> S \ gone, ret |-> "ok"]
    [] e.gen = rec.gen /\ ~Same(e, rec) -> [S |-> S \ gone, ret |-> "EEXIST"]
    [] e.gen = rec.gen /\ Same(e, rec) /\ Cardinality(e.places) >= MaxMirrors ->
         [S |-> S \ gone, ret |-> "BUG"]
    [] OTHER -> [S |-> (S \ (gone \cup {e})) \cup {AddPlaces(e, rec)}, ret |-> "ok"]

(* Older records that overlap go, one after the other, until the search    *)
(* finds nothing or a record that is not older.  Which of several records  *)
(* it finds first depends on the shape of the cache tree.                  *)
Process(S, rec) ==
  IF rec.size = 0 THEN {[S |-> S, ret |-> "ok"]}
  ELSE IF Hits(S, rec) = Older(S, rec) THEN {[S |-> (S \ Older(S, rec)) \cup {rec}, ret |-> "ok"]}
  ELSE {Kept(S, rec, e, gone) : e \in Hits(S, rec) \ Older(S, rec), gone \in SUBSET Older(S, rec)}

BlockRecord(d, b) == Record(0, b.start, 1, b.gen, <<b.csum>>, {<<d, b.at>>})
ItemRecord(b, it) == Record(it.dev, it.start, it.size, b.gen, it.data, {})

(* -- scan_one_device ------------------------------------------------------------ *)

Running(d) == thread[d] = "run"
AtBlock(d) == Running(d) /\ pos[d].item = 0 /\ pos[d].block <= Len(disk[d])
BlockRead(d) == disk[d][pos[d].block]

End(d, how) == thread' = [thread EXCEPT ![d] = how]

\* different trees use different generations
Wanted(b) ==
  /\ b.level = 0
  /\ \/ b.owner \in {"extent", "dev"} /\ b.gen <= Generation
     \/ b.owner = "chunk" /\ b.gen <= ChunkGeneration

GoOn(d, block, item) ==
  pos' = [pos EXCEPT ![d] =
            IF item > 0 /\ Wanted(disk[d][block]) /\ item <= Len(disk[d][block].items)
            THEN [block |-> block, item |-> item] ELSE [block |-> block + 1, item |-> 0]]

\* what is recorded is recorded under rc_lock; an error ends the thread
Recorded(d, kind, out, item) ==
  /\ cache' = [cache EXCEPT ![kind] = out.S]
  /\ \/ out.ret = "ok" /\ GoOn(d, pos[d].block, item) /\ UNCHANGED thread
     \/ out.ret # "ok" /\ End(d, "err") /\ UNCHANGED pos
  /\ UNCHANGED <<disk, main, joined, cancelled, faults>>

process_extent_buffer(d) ==
  /\ AtBlock(d)
  /\ \E out \in Process(cache.eb, BlockRecord(d, BlockRead(d))) : Recorded(d, "eb", out, 1)

extract_metadata_record(d) ==
  /\ Running(d) /\ pos[d].item > 0
  /\ LET it == BlockRead(d).items[pos[d].item]
     IN \E out \in Process(cache[it.kind], ItemRecord(BlockRead(d), it)) :
          Recorded(d, it.kind, out, pos[d].item + 1)

\* a short read is the end of the device, and so is a read that fails
EndOfDevice(d) ==
  /\ Running(d) /\ pos[d].item = 0
  /\ \/ pos[d].block > Len(disk[d]) /\ UNCHANGED faults
     \/ pos[d].block <= Len(disk[d]) /\ faults < MaxFaults /\ faults' = faults + 1
  /\ End(d, "ok")
  /\ UNCHANGED <<disk, cache, pos, main, joined, cancelled>>

StartThread(d) ==
  /\ thread[d] = "new"
  /\ \/ End(d, "run") /\ UNCHANGED faults
     \/ End(d, "err") /\ faults < MaxFaults /\ faults' = faults + 1
  /\ UNCHANGED <<disk, cache, pos, main, joined, cancelled>>

\* the cancellation reaches the thread
Cancelled(d) ==
  /\ d \in cancelled /\ thread[d] \in {"new", "run"}
  /\ End(d, "gone")
  /\ UNCHANGED <<disk, cache, pos, main, joined, cancelled, faults>>

(* -- scan_devices ----------------------------------------------------------------- *)

Start(f) ==
  /\ disk = f
  /\ cache = [kind \in {"eb", "chunk", "bg", "devext"} |-> {}]
  /\ pos = [d \in Dev |-> [block |-> 1, item |-> 0]]
  /\ thread = [d \in Dev |-> "none"] /\ main = "open"
  /\ joined = {} /\ cancelled = {} /\ faults = 0
Init == \E f \in Disks : Start(f)

\* threads that were created and not joined are cancelled, and not waited for
Fail ==
  /\ main' = "failed"
  /\ cancelled' = {d \in Dev : thread[d] # "none"} \ joined

OpenDevices ==
  /\ main = "open"
  /\ \/ main' = "create" /\ UNCHANGED <<cancelled, faults>>
     \/ faults < MaxFaults /\ Fail /\ faults' = faults + 1
  /\ UNCHANGED <<disk, cache, pos, thread, joined>>

CreateThread(d) ==
  /\ main = "create" /\ thread[d] = "none"
  /\ \/ /\ thread' = [thread EXCEPT ![d] = "new"]
        /\ main' = IF \A e \in Dev \ {d} : thread[e] # "none" THEN "join" ELSE "create"
        /\ UNCHANGED <<cancelled, faults>>
     \/ faults < MaxFaults /\ Fail /\ faults' = faults + 1 /\ UNCHANGED thread
  /\ UNCHANGED <<disk, cache, pos, joined>>

\* pthread_tryjoin_np of a thread that has ended
JoinThread(d) ==
  /\ main = "join" /\ d \notin joined /\ thread[d] \in {"ok", "err"}
  /\ \/ /\ thread[d] = "ok"
        /\ joined' = joined \cup {d}
        /\ main' = IF joined' = Dev THEN "scanned" ELSE "join"
        /\ UNCHANGED cancelled
     \/ thread[d] = "err" /\ Fail /\ UNCHANGED joined
  /\ UNCHANGED <<disk, cache, pos, thread, faults>>

Next ==
  \/ OpenDevices
  \/ \E d \in Dev : \/ CreateThread(d) \/ StartThread(d) \/ process_extent_buffer(d)
                    \/ extract_metadata_record(d) \/ EndOfDevice(d) \/ Cancelled(d)
                    \/ JoinThread(d)

Spec == Init /\ [][Next]_vars

(* -- what is shown ------------------------------------------------------------------ *)

BlocksRead == UNION {{<<d, disk[d][i]>> : i \in 1 .. pos[d].block - 1} : d \in Dev}
\* every record that was offered to a cache
Offered ==
  [kind \in {"eb", "chunk", "bg", "devext"} |->
     IF kind = "eb" THEN {BlockRecord(x[1], x[2]) : x \in BlocksRead}
     ELSE UNION {{ItemRecord(x[2], x[2].items[i]) :
                    i \in {j \in DOMAIN x[2].items : Wanted(x[2]) /\ x[2].items[j].kind = kind}} :
                 x \in BlocksRead}]

(***************************************************************************)
(* However the threads take turns and whatever old blocks they come upon:  *)
(* when all have ended well, a record that nothing as new contradicts is   *)
(* in its cache, and a tree block with all the places it was found at.     *)
(***************************************************************************)
NewestKept ==
  main = "scanned" =>
    \A kind \in {"eb", "chunk", "bg", "devext"} : \A r \in Offered[kind] :
      r.size > 0 /\ (\A o \in Offered[kind] : Overlap(o, r) => o.gen < r.gen \/ Same(o, r)) =>
        [r EXCEPT !.places = UNION {o.places : o \in {x \in Offered[kind] : Same(x, r)}}]
          \in cache[kind]
=============================================================================
