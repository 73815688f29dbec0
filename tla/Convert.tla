------------------------------ MODULE Convert -------------------------------
(***************************************************************************)
(* btrfs-convert (convert/main.c, convert/common.c): an in-place conversion *)
(* of an ext2/3/4 or reiserfs filesystem and its rollback.  The blocks the *)
(* source filesystem uses stay where they are, covered by data chunks that *)
(* map every address to itself; the new trees are put into free space; the *)
(* file "image" maps the whole source filesystem.  Only what lies in the   *)
(* reserved ranges, where btrfs keeps its superblocks, is copied elsewhere.*)
(*                                                                         *)
(* The device is an array of sectors.  A cache tree of merged extents is   *)
(* the set of the sectors it covers; its extents are the runs of that set. *)
(***************************************************************************)
EXTENDS Integers, Sequences, FiniteSets, SequencesExt, FiniteSetsExt

CONSTANTS
  Source,        \* source filesystems: total (size), dev (of the device), used
  Mirror2, Mirror3,  \* where the second and third superblock copies are
  StripeLen,     \* BTRFS_STRIPE_LEN, also the length of a reserved range
  MinStripe,     \* min_stripe_size
  SysSize, MetaSize,  \* of the two first chunks
  MaxExtent,     \* BTRFS_MAX_EXTENT_SIZE
  DataChunkMax,  \* max_chunk_size of make_convert_data_block_groups
  ChunkSize,     \* calc_size of btrfs_alloc_chunk
  Wrap,          \* 2^32: cctx->total_bytes is a product of two 32-bit numbers
  MaxFaults      \* failing calls in a behaviour

VARIABLES
  src,      \* the source filesystem, never changed
  disk,     \* content of every sector
  pc,       \* where do_convert or do_rollback is
  step,     \* position in the loop pc is in
  chunks,   \* cctx->data_chunks
  free,     \* cctx->free_space
  super, sys, meta,  \* cfg->super_bytenr and the first two chunks
  extra,    \* chunks allocated later on
  image,    \* file extents of the image
  buffer,   \* reserved_ranges of do_rollback
  lost,     \* a reserved range could not be copied
  faults

vars == <<src, disk, pc, step, chunks, free, super, sys, meta, extra, image, buffer, lost, faults>>
layout == <<chunks, free, super, sys, meta>>

SuperOffset == 1   \* BTRFS_SUPER_INFO_OFFSET, inside the first reserved range
Nowhere == -1

(* What a sector holds: a sector of the source, whatever a sector unused   *)
(* by the source held, a tree block, a superblock or zeros.                *)
Src(s) == <<"source", s>>
Unused == <<"unused">>
Tree == <<"tree">>
Partial == <<"super", "partial">>
Final == <<"super", "final">>
Zero == <<"zero">>

Span(start, len) == start .. start + len - 1
Reserved == <<Span(0, StripeLen), Span(Mirror2, StripeLen), Span(Mirror3, StripeLen)>>
AllReserved == UNION Range(Reserved)
End(S) == Max(S) + 1

(* Mirror2, Mirror3 and MinStripe are multiples of StripeLen, and MinStripe *)
(* of two of them at least; every source uses sector 0; and ChunkSize, what *)
(* btrfs_alloc_chunk looks for, exceeds SysSize + 3 * StripeLen, the hole   *)
(* that can be left around the temporary superblock.                       *)

(* The extents of a cache tree.                                            *)
Starts(S) == {x \in S : x - 1 \notin S}
RunEnd(S, x) == Min({y \in x + 1 .. Max(S) + 1 : y \notin S})
Run(S, x) == Span(x, RunEnd(S, x) - x)
Runs(S) ==
  [i \in 1 .. Cardinality(Starts(S)) |->
     LET x == CHOOSE x \in Starts(S) : Cardinality({y \in Starts(S) : y <= x}) = i
     IN [start |-> x, end |-> RunEnd(S, x)]]
RunOf(S, x) == Run(S, Max({y \in Starts(S) : y <= x}))

RoundUp(n) == ((n + StripeLen - 1) \div StripeLen) * StripeLen

Start(fs) ==
  /\ src = fs
  /\ disk = [s \in 0 .. fs.dev - 1 |-> IF s \in fs.used THEN Src(s) ELSE Unused]
  /\ pc = "start" /\ step = 1
  /\ chunks = {} /\ free = {} /\ super = Nowhere /\ sys = Nowhere /\ meta = Nowhere
  /\ extra = {} /\ image = {} /\ buffer = <<>> /\ lost = FALSE /\ faults = 0
Init == \E fs \in Source : Start(fs)

-----------------------------------------------------------------------------
(* The space for data chunks and the free space.                           *)

(* wipe_one_reserved_range: one extent of S that overlaps r loses it.  When *)
(* r lies inside the extent and ensure is set, a half that became too short *)
(* is extended, over the extent next to it if they meet.                   *)
Wipe(S, r, ensure) ==
  LET cache == RunOf(S, Min(S \cap r))
      before == Min(r) - Min(cache)
      after == End(cache) - End(r)
      short(n) == IF ensure /\ before > 0 /\ after > 0 /\ n < MinStripe \div 2
                  THEN MinStripe \div 2 - n ELSE 0
  IN IF S \cap r = {} THEN S
     ELSE (S \ (r \cap cache)) \cup Span(Min(cache) - short(before), short(before))
                               \cup Span(End(cache), short(after))

WipeReserved(S, ensure) == FoldLeft(LAMBDA T, r : Wipe(T, r, ensure), S, Reserved)

(* Every used extent is covered, in pieces of at least MinStripe.          *)
DataChunks ==
  LET cover(acc, u) ==
        LET cur == IF u.start > acc.cur + MinStripe THEN u.start ELSE acc.cur
            len == Max({u.end - cur, MinStripe})
        IN IF u.end < acc.cur THEN acc
           ELSE [cur |-> cur + len, set |-> acc.set \cup Span(cur, len)]
  IN WipeReserved(FoldLeft(cover, [cur |-> 0, set |-> {}], Runs(src.used)).set, TRUE)

(* Mutant: the reserved ranges are left in the free space.                 *)
FreeSpaceUnwiped(C) ==
  LET total == src.total % Wrap
      gap(x) == LET prev == Max({0} \cup {y + 1 : y \in {z \in C : z < x}})
                IN RoundUp(prev) .. x - 1
  IN UNION {gap(x) : x \in Starts(C)}
       \cup (IF total > End(C) THEN Span(RoundUp(End(C)), total - End(C)) ELSE {})

(* What lies between the data chunks, from the next stripe on, and after   *)
(* the last one up to the total_bytes of the context.                      *)
FreeSpace(C) ==
  LET total == src.total % Wrap
      last == End(C)
      gap(x) == LET prev == Max({0} \cup {y + 1 : y \in {z \in C : z < x}})
                IN RoundUp(prev) .. x - 1
      tail == IF total > last THEN Span(RoundUp(last), total - last) ELSE {}
  IN WipeReserved(UNION {gap(x) : x \in Starts(C)} \cup tail, FALSE)

Fail == pc' = "failed" /\ UNCHANGED <<src, disk, step, layout, extra, image, buffer, lost>>

(* A call fails whose result is looked at: do_convert stops there.         *)
Fault ==
  /\ faults < MaxFaults
  /\ pc \notin {"migrate", "finalize", "converted", "rollback", "rolledback", "failed"}
  /\ faults' = faults + 1
  /\ Fail

ReadUsed ==
  /\ pc = "start"
  /\ chunks' = DataChunks
  /\ free' = FreeSpace(chunks')
  /\ pc' = "reserve"
  /\ UNCHANGED <<src, disk, step, super, sys, meta, extra, image, buffer, lost, faults>>

Fitting(S, len) == {x \in Starts(S) : RunEnd(S, x) - x > len}

(* Mutant: the space is taken from the end of the extent it was found in.  *)
ReserveFreeSpaceTail(S, len) ==
  LET at == IF Fitting(S, len) = {} THEN Nowhere ELSE Min(Fitting(S, len))
  IN [at |-> at, rest |-> IF at = Nowhere THEN S ELSE S \ Span(RunEnd(S, at) - len, len)]

(* The first free extent longer than len, and what is left.                *)
ReserveFreeSpace(S, len) ==
  LET at == IF Fitting(S, len) = {} THEN Nowhere ELSE Min(Fitting(S, len))
  IN [at |-> at, rest |-> IF at = Nowhere THEN S ELSE S \ Span(at, len)]

Reserve ==
  LET s == ReserveFreeSpace(free, StripeLen)
      y == ReserveFreeSpace(s.rest, SysSize)
      m == ReserveFreeSpace(y.rest, MetaSize)
  IN /\ pc = "reserve"
     /\ UNCHANGED faults
     /\ IF Nowhere \in {s.at, y.at, m.at} THEN Fail
        ELSE /\ super' = s.at /\ sys' = y.at /\ meta' = m.at /\ free' = m.rest
             /\ pc' = "temp"
             /\ UNCHANGED <<src, disk, step, chunks, extra, image, buffer, lost>>

-----------------------------------------------------------------------------
(* The temporary filesystem.                                               *)

(* Chunks that are not mapped to themselves: their logical addresses       *)
(* follow all others.                                                      *)
Physical(l) == LET c == {e \in extra : l \in Span(e.logical, ChunkSize)}
               IN IF c = {} THEN l ELSE LET e == CHOOSE e \in c : TRUE IN l - e.logical + e.physical
ExtraSpan(type) == UNION {Span(e.physical, ChunkSize) : e \in {e \in extra : e.type = type}}

(* Where tree blocks may be: btrfs_alloc_free_block never takes the        *)
(* stripes of the superblock copies, which remove_sb_from_cache took out.  *)
MetaSectors ==
  (Span(sys, SysSize) \cup Span(meta, MetaSize) \cup (ExtraSpan("meta") \ AllReserved)) \cap DOMAIN disk

(* A commit may have rewritten any of them, and the superblock.            *)
Commit == [s \in DOMAIN disk |-> IF s \in MetaSectors THEN Tree
                                 ELSE IF s = super THEN Partial ELSE disk[s]]

(* make_convert_btrfs: superblock, root, chunk, device, fs, csum and extent *)
(* tree, in the order they are written.                                    *)
TempBlocks == <<super, meta, sys, meta + 2, meta + 3, meta + 4, meta + 1>>

WriteTemp ==
  /\ pc = "temp"
  /\ UNCHANGED faults
  /\ IF TempBlocks[step] \notin DOMAIN disk \/ (step = 3 /\ meta < sys) THEN Fail
     ELSE /\ disk' = [disk EXCEPT ![TempBlocks[step]] = IF step = 1 THEN Partial ELSE Tree]
          /\ IF step < Len(TempBlocks) THEN step' = step + 1 /\ UNCHANGED pc
                                       ELSE step' = 1 /\ pc' = "init"
          /\ UNCHANGED <<src, layout, extra, image, buffer, lost>>

(* init_btrfs: the data chunks become block groups.                        *)
InitBtrfs ==
  /\ pc = "init"
  /\ disk' = Commit
  /\ pc' = "image"
  /\ UNCHANGED <<src, step, layout, extra, image, buffer, lost, faults>>

(* The end of the block group of address l: a data chunk is cut into       *)
(* pieces of DataChunkMax.                                                 *)
GroupEnd(l) ==
  LET run == RunOf(chunks, l)
      n == (l - Min(run)) \div DataChunkMax
  IN IF l \in chunks THEN Min({Min(run) + (n + 1) * DataChunkMax, End(run)})
     ELSE (CHOOSE e \in extra : l \in Span(e.logical, ChunkSize)).logical + ChunkSize

(* btrfs_alloc_chunk puts a chunk into the first hole between the device   *)
(* extents that is long enough.                                            *)
NewChunk(type) ==
  LET taken == chunks \cup Span(sys, SysSize) \cup Span(meta, MetaSize)
                      \cup ExtraSpan("meta") \cup ExtraSpan("data")
      hole == (StripeLen .. src.total - 1) \ taken
      logical == Max({End(chunks), sys + SysSize, meta + MetaSize}
                     \cup {e.logical + ChunkSize : e \in extra})
      fit == {x \in Starts(hole) : RunEnd(hole, x) - x >= ChunkSize}
  IN /\ pc \in {"migrate", "copy"}
     /\ ~ \E e \in extra : e.type = type
     /\ fit # {}
     /\ extra' = extra \cup {[type |-> type, logical |-> logical, physical |-> Min(fit)]}
     /\ UNCHANGED <<src, disk, pc, step, layout, image, buffer, lost, faults>>

-----------------------------------------------------------------------------
(* The image of the source filesystem.                                     *)
Extent(off, at, len) == [off |-> off, at |-> at, len |-> len]

(* create_image_file_range at b: the reserved range b is in is skipped, and *)
(* one that the extent would cover ends it; the extent is data or a hole.  *)
FileRange(used, b) ==
  LET cap == Min({src.total - b, MaxExtent})
      inside == {r \in Range(Reserved) : b \in r}
      across == {r \in Range(Reserved) : b < Min(r) /\ b + cap >= End(r)}
      len == Min({cap} \cup {Min(r) - b : r \in across})
      next == {x \in Starts(used) : x > b}
  IN IF inside # {} THEN [skip |-> End(CHOOSE r \in inside : TRUE) - b, extent |-> {}]
     ELSE IF b \in used
     THEN LET n == Min({len, RunEnd(used, b) - b, GroupEnd(b) - b})
          IN [skip |-> n, extent |-> {Extent(b, b, n)}]
     ELSE LET n == Min({len} \cup {x - b : x \in next})
          IN [skip |-> n, extent |-> {Extent(b, Nowhere, n)}]

(* The loop of create_image, from the end of the first reserved range on.  *)
FileExtents(used) ==
  LET from[b \in 0 .. src.total + StripeLen] ==
        IF b >= src.total THEN {}
        ELSE LET f == FileRange(used, b) IN f.extent \cup from[b + f.skip]
  IN from[StripeLen]

CreateImage ==
  LET used == WipeReserved(src.used, FALSE)
  IN /\ pc = "image"
     /\ UNCHANGED faults
     /\ IF \E b \in used \ AllReserved : b \notin chunks   \* -ENOENT
        THEN Fail
        ELSE /\ image' = FileExtents(used)
             /\ pc' = "migrate"
             /\ UNCHANGED <<src, disk, step, layout, extra, buffer, lost>>

DataSpace == chunks \cup UNION {{l \in Span(e.logical, ChunkSize) : Physical(l) \notin AllReserved} :
                                e \in {e \in extra : e.type = "data"}}
Allocated(img) == UNION {Span(e.at, e.len) : e \in {e \in img : e.at # Nowhere}}

(* Mutant: what was copied before is not marked as allocated.              *)
DataFitCopies(img, len) ==
  LET avail == DataSpace \ Allocated({e \in img : e.at = e.off})
      fit == {l \in avail : Span(l, len) \subseteq avail /\ GroupEnd(l) >= l + len}
  IN IF fit = {} THEN Nowhere ELSE Min(fit)

(* btrfs_reserve_extent: the first len free sectors in one data block      *)
(* group.                                                                  *)
DataFit(img, len) ==
  LET avail == DataSpace \ Allocated(img)
      fit == {l \in avail : Span(l, len) \subseteq avail /\ GroupEnd(l) >= l + len}
  IN IF fit = {} THEN Nowhere ELSE Min(fit)

Hole(start, end) == IF start < end THEN {Extent(start, Nowhere, end - start)} ELSE {}

(* migrate_one_reserved_range: the used pieces of r are copied until one   *)
(* cannot be, because of a failing call (piece number bad) or for want of  *)
(* space; everything else becomes a hole.                                  *)
CopyRange(r, bad) ==
  LET pieces == Runs(src.used \cap r)
      copy(acc, k) ==
        LET p == pieces[k]
            len == p.end - p.start
            at == DataFit(acc.image, len)
            to == Span(Physical(at), len)
            from(s) == p.start + s - Physical(at)
        IN IF ~ acc.ok \/ k = bad \/ at = Nowhere THEN [acc EXCEPT !.ok = FALSE]
           ELSE IF ~ to \subseteq DOMAIN disk THEN [acc EXCEPT !.ok = FALSE]
           ELSE [ok |-> TRUE, hole |-> p.end,
                 disk |-> [s \in DOMAIN disk |-> IF s \in to THEN acc.disk[from(s)] ELSE acc.disk[s]],
                 image |-> acc.image \cup {Extent(p.start, at, len)} \cup Hole(acc.hole, p.start)]
      done == FoldLeft(copy, [ok |-> TRUE, hole |-> Min(r), disk |-> disk, image |-> image],
                       [k \in 1 .. Len(pieces) |-> k])
  IN [done EXCEPT !.image = @ \cup Hole(done.hole, End(r))]

(* migrate_reserved_ranges.                                                *)
MigrateRange ==
  /\ pc = "migrate" /\ step <= 3
  /\ Min(Reserved[step]) <= src.total
  /\ \E bad \in 0 .. Len(Runs(src.used \cap Reserved[step])) :
       /\ bad # 0 => faults < MaxFaults
       /\ faults' = IF bad = 0 THEN faults ELSE faults + 1
       /\ LET c == CopyRange(Reserved[step], bad)
          IN disk' = c.disk /\ image' = c.image /\ lost' = (lost \/ ~ c.ok)
  /\ step' = step + 1
  /\ UNCHANGED <<src, pc, layout, extra, buffer>>

(* The last hole cannot be recorded: migrate_reserved_ranges returns, and  *)
(* create_image puts another result over the error.                        *)
RecordFails ==
  /\ pc = "migrate" /\ step <= 3
  /\ Min(Reserved[step]) <= src.total
  /\ faults < MaxFaults
  /\ faults' = faults + 1 /\ lost' = TRUE
  /\ step' = 4
  /\ UNCHANGED <<src, disk, pc, layout, extra, image, buffer>>

CommitImage ==
  /\ pc = "migrate"
  /\ step <= 3 => Min(Reserved[step]) > src.total
  /\ disk' = Commit
  /\ pc' = "copy" /\ step' = 1
  /\ UNCHANGED <<src, layout, extra, image, buffer, lost, faults>>

(* copy_inodes, btrfs_mksubvol and close_ctree: file extents are looked up *)
(* in the image, so only tree blocks are written.                          *)
CopyInodes ==
  /\ pc = "copy"
  /\ disk' = Commit
  /\ pc' = "super"
  /\ UNCHANGED <<src, step, layout, extra, image, buffer, lost, faults>>

-----------------------------------------------------------------------------
(* The superblock is put in its place and the filesystem is finished.      *)

(* migrate_super_block: BUG_ON something else is at super.                 *)
MigrateSuper ==
  /\ pc = "super"
  /\ disk[super] = Partial
  /\ disk' = [disk EXCEPT ![SuperOffset] = Partial]
  /\ pc' = "zero"
  /\ UNCHANGED <<src, step, layout, extra, image, buffer, lost, faults>>

(* The sectors before it are zeroed, but no failing write is reported.     *)
ZeroHead ==
  /\ pc = "zero"
  /\ \/ /\ disk' = [disk EXCEPT ![0] = Zero] /\ UNCHANGED faults
     \/ /\ faults < MaxFaults /\ faults' = faults + 1 /\ UNCHANGED disk
  /\ pc' = "finalize"
  /\ UNCHANGED <<src, step, layout, extra, image, buffer, lost>>

(* close_ctree with finalize_on_close: write_dev_supers writes the copies  *)
(* that lie on the device.  do_convert does not look at its result.        *)
SuperCopies == <<SuperOffset, Mirror2, Mirror3>>
Finalize ==
  /\ pc = "finalize"
  /\ IF step <= 3 /\ SuperCopies[step] + 1 <= src.total
     THEN \/ /\ disk' = [disk EXCEPT ![SuperCopies[step]] = Final]
             /\ step' = step + 1
             /\ UNCHANGED <<pc, faults>>
          \/ /\ faults < MaxFaults /\ faults' = faults + 1
             /\ pc' = "converted" /\ step' = 1
             /\ UNCHANGED disk
     ELSE pc' = "converted" /\ step' = 1 /\ UNCHANGED <<disk, faults>>
  /\ UNCHANGED <<src, layout, extra, image, buffer, lost>>

(* The new filesystem is used: whatever a chunk holds that is neither part *)
(* of the image nor in the stripe of a superblock copy may be overwritten. *)
UseFs ==
  LET kept == {Physical(l) : l \in Allocated(image)} \cup AllReserved
      mapped == chunks \cup MetaSectors \cup ExtraSpan("meta") \cup ExtraSpan("data")
  IN /\ pc = "converted" /\ disk[SuperOffset] = Final
     /\ disk' = [s \in DOMAIN disk |-> IF s \in mapped \ kept THEN Tree ELSE disk[s]]
     /\ UNCHANGED <<src, pc, step, layout, extra, image, buffer, lost, faults>>

-----------------------------------------------------------------------------
(* The rollback.                                                           *)

(* Mutant: the lengths are not added up.                                   *)
CheckImageUncounted ==
  \A e \in image : \/ e.at \in {Nowhere, e.off} /\ \A x \in extra : e.at \notin Span(x.logical, ChunkSize)
                   \/ \E r \in Range(Reserved) : Span(e.off, e.len) \subseteq r

(* check_convert_image: the extents are where the source had its data,     *)
(* except in the reserved ranges, and their lengths add up to its size.    *)
CheckImage ==
  /\ \A e \in image : \/ e.at \in {Nowhere, e.off} /\ \A x \in extra : e.at \notin Span(x.logical, ChunkSize)
                      \/ \E r \in Range(Reserved) : Span(e.off, e.len) \subseteq r
  /\ FoldSet(LAMBDA e, sum : sum + e.len, 0, image) = src.total

(* btrfs_read_file: the extent that starts last at or before s.            *)
ReadImage(s) ==
  LET at == {e \in image : e.off <= s /\ s < e.off + e.len}
      e == CHOOSE e \in at : \A f \in at : f.off <= e.off
  IN IF at = {} THEN Zero ELSE IF e.at = Nowhere THEN Zero ELSE disk[Physical(e.at + s - e.off)]

(* read_reserved_ranges stops at the first range that reaches the end; the *)
(* buffers were allocated with zeros.                                      *)
ReadReserved ==
  [i \in 1 .. 3 |-> [s \in Reserved[i] |->
     IF \E j \in 1 .. i : End(Reserved[j]) >= src.total THEN Zero ELSE ReadImage(s)]]

(* open_ctree_fd takes a finished filesystem with a superblock at its      *)
(* place only.                                                             *)
CanOpen == disk[SuperOffset] = Final

StartRollback ==
  /\ pc = "converted" /\ CanOpen /\ CheckImage
  /\ buffer' = ReadReserved
  /\ pc' = "rollback" /\ step' = 3
  /\ UNCHANGED <<src, disk, layout, extra, image, lost, faults>>

(* Mutant: the ranges are written back from the first to the last.         *)
RollbackForward ==
  LET i == 4 - step
      r == Reserved[i]
  IN /\ pc = "rollback"
     /\ disk' = IF End(r) >= src.dev THEN disk
                ELSE [s \in DOMAIN disk |-> IF s \in r THEN buffer[i][s] ELSE disk[s]]
     /\ IF step > 1 THEN step' = step - 1 /\ UNCHANGED <<pc, buffer>>
                    ELSE pc' = "rolledback" /\ buffer' = <<>> /\ UNCHANGED step
     /\ UNCHANGED <<src, layout, extra, image, lost, faults>>

(* The ranges are written back, the one with the first superblock last.    *)
RollbackRange ==
  LET r == Reserved[step]
  IN /\ pc = "rollback"
     /\ disk' = IF End(r) >= src.dev THEN disk
                ELSE [s \in DOMAIN disk |-> IF s \in r THEN buffer[step][s] ELSE disk[s]]
     /\ IF step > 1 THEN step' = step - 1 /\ UNCHANGED <<pc, buffer>>
                    ELSE pc' = "rolledback" /\ buffer' = <<>> /\ UNCHANGED step
     /\ UNCHANGED <<src, layout, extra, image, lost, faults>>

(* A write fails or the command is killed; it may be started again.        *)
KillRollback ==
  /\ pc = "rollback"
  /\ pc' = "converted" /\ buffer' = <<>> /\ step' = 1
  /\ UNCHANGED <<src, disk, layout, extra, image, lost, faults>>

Next ==
  \/ ReadUsed \/ Reserve \/ WriteTemp \/ InitBtrfs \/ CreateImage
  \/ MigrateRange \/ RecordFails \/ CommitImage \/ CopyInodes
  \/ \E type \in {"meta", "data"} : NewChunk(type)
  \/ MigrateSuper \/ ZeroHead \/ Finalize \/ UseFs
  \/ StartRollback \/ RollbackRange \/ KillRollback
  \/ Fault

Spec == Init /\ [][Next]_vars

-----------------------------------------------------------------------------
SourceIntact == \A s \in src.used : disk[s] = Src(s)

(* Until migrate_super_block writes the superblock to its place the source *)
(* filesystem is as it was: no tree block, superblock or copy was put on a *)
(* sector it uses, whichever layout its used space led to and wherever the *)
(* command stopped.                                                        *)
SourceOrBtrfs ==
  SourceIntact \/ disk[SuperOffset] \in {Partial, Final} \/ pc = "rolledback"

(* The temporary superblock is in no chunk, so no tree block is written    *)
(* over it before migrate_super_block copies it (the BUG_ON there).        *)
TempSuperKept ==
  pc \in {"init", "image", "migrate", "copy", "super", "zero", "finalize"} => disk[super] = Partial

(* From the end of create_image on every sector the source filesystem uses *)
(* can be read from the image, also while the new filesystem is written to *)
(* and while a rollback is under way; the superblock to come keeps its     *)
(* place as well (TempSuperKept).                                          *)
ImageFaithful ==
  /\ TempSuperKept
  /\ pc \in {"copy", "super", "zero", "finalize", "converted", "rollback"} /\ ~ lost =>
       \A s \in src.used : ReadImage(s) = Src(s)

(* do_rollback writes the ranges of the superblock copies first, "so if    *)
(* something goes wrong, the fs is still mountable": up to its last write  *)
(* the first superblock, all tree blocks and the check of the image are as *)
(* they were, and the rollback can be started again.                       *)
RollbackCanRestart ==
  pc = "rollback" =>
    CanOpen /\ CheckImage /\ \A s \in MetaSectors : disk[s] = Tree

(* What do_rollback reports as done is the source filesystem, unless the   *)
(* conversion lost part of it, or a reserved range ends where the source   *)
(* filesystem does: read_reserved_ranges leaves such a range out (see      *)
(* RollbackRestoresAll).  Until then it can be repeated                    *)
(* (RollbackCanRestart).                                                   *)
RollbackRestores ==
  /\ RollbackCanRestart
  /\ pc = "rolledback" /\ ~ lost /\ (\A r \in Range(Reserved) : End(r) # src.total) => SourceIntact

(* The same without the exception for a range that ends with the source.   *)
RollbackRestoresAll == pc = "rolledback" /\ ~ lost => SourceIntact

(* "btrfs-convert will return 0 if no error happened": a conversion that   *)
(* is reported complete holds all of the source filesystem.                *)
CompleteIsFaithful == pc = "converted" => ~ lost

(* A filesystem that was just converted can be rolled back.                *)
RollbackPossible == pc = "converted" /\ ~ lost /\ CanOpen => CheckImage

(* "If this step succeed, we get a mountable btrfs. Otherwise the source   *)
(* fs is left unchanged": at no time is there neither of them.             *)
OneUsable == ~ lost => SourceIntact \/ CanOpen

(* No chunk reaches beyond the device.                                     *)
ChunksOnDevice ==
  pc \notin {"start", "reserve", "failed"} =>
    chunks \cup Span(sys, SysSize) \cup Span(meta, MetaSize) \subseteq 0 .. src.total - 1
=============================================================================
