------------------------------ MODULE MCTools -------------------------------
(***************************************************************************)
(* Programs that work on a filesystem nobody has mounted, under one run: a *)
(* behaviour belongs to one of them, which part names.  btrfstune -u has   *)
(* the variables of UuidChange; s1 to s14 stand for those of the others.   *)
(***************************************************************************)
EXTENDS UuidChange, Sequences, TLC

CONSTANTS d1, d2, top, leaf1, leaf2, chunk1, chunk2, chunk3

VARIABLES part, s1, s2, s3, s4, s5, s6, s7, s8, s9, s10, s11,
          s12, s13, s14
slots == <<s1, s2, s3, s4, s5, s6, s7, s8, s9, s10, s11, s12, s13, s14>>
allVars == <<part, slots, vars>>

Unused == s12 = 0 /\ s13 = 0 /\ s14 = 0

---------------------------------------------------------------------------
(* btrfstune -u: two devices with two superblock copies each; the root     *)
(* node and a leaf on different devices.                                   *)
UuidHome == <<d1, d2, d1>>

---------------------------------------------------------------------------
(* btrfs-image -r: a chunk tree of a root and two leaves.                  *)
Chunks == INSTANCE ImageChunkMap WITH
    main <- s1, place <- s2, geo <- s3, stack <- s4, tree <- s5, found <- s6,
    overlapping <- s7, last <- s8, alloced <- s9, physical <- s10,
    clear <- s11,
    Block <- {top, leaf1, leaf2}, Root <- top,
    Children <- (top :> <<leaf1, leaf2>>) @@ (leaf1 :> <<>>) @@ (leaf2 :> <<>>),
    Chunks <- (top :> <<>>) @@ (leaf1 :> <<chunk1, chunk2>>) @@ (leaf2 :> <<chunk3>>),
    Chunk <- {chunk1, chunk2, chunk3},
    NClusters <- 2, Physical <- {1, 2}, Bytes <- {1, 2}, Dup <- {0, 4}, Mirror <- {2}

\* see AllChunksFound and SearchEnds of ImageChunkMap
AllChunksFound == part = "chunks" => Chunks!AllChunksFound
SearchEnds == part = "chunks" => Chunks!SearchEnds

---------------------------------------------------------------------------
(* btrfs-convert: source filesystems that use one or two runs of sectors,  *)
(* on devices that end before, at, inside and after the last reserved      *)
(* range.                                                                  *)
SourceFs(n, d, h, b, l) ==
    [total |-> n, dev |-> n + d, used |-> {s \in 0 .. n - 1 : s < h \/ s \in b .. b + l - 1}]
ConvertSource ==
    {SourceFs(n, d, h, b, l) : n \in {28, 36, 37, 39, 40}, d \in {0, 4}, h \in {1, 5, 14},
                               b \in 2 .. 39, l \in {1, 4, 8}}

Conv == INSTANCE Convert WITH
    pc <- s1, src <- s2, disk <- s3, step <- s4, chunks <- s5, free <- s6, super <- s7,
    sys <- s8, meta <- s9, extra <- s10, image <- s11, buffer <- s12, lost <- s13, faults <- s14,
    Source <- ConvertSource, Mirror2 <- 12, Mirror3 <- 36, StripeLen <- 3, MinStripe <- 6,
    SysSize <- 3, MetaSize <- 6, MaxExtent <- 24, DataChunkMax <- 4, ChunkSize <- 13,
    Wrap <- 30, MaxFaults <- 1

\* see ImageFaithful to SourceOrBtrfs and CompleteIsFaithful of Convert
ImageFaithful == part = "convert" => Conv!ImageFaithful
RollbackRestores == part = "convert" => Conv!RollbackRestores
SourceOrBtrfs == part = "convert" => Conv!SourceOrBtrfs
CompleteIsFaithful == part = "convert" => Conv!CompleteIsFaithful

---------------------------------------------------------------------------
(* btrfs rescue chunk-recover: two devices are scanned; and chunks of      *)
(* every profile are recovered, with up to four device extents found in    *)
(* any order.                                                              *)
Found == INSTANCE RecoverWorlds

Threads == INSTANCE ChunkScan WITH
    main <- s1, disk <- s2, cache <- s3, pos <- s4, thread <- s5, joined <- s6, cancelled <- s7,
    faults <- s8,
    Dev <- {1, 2}, Disks <- Found!ScanDisks, Generation <- 3, ChunkGeneration <- 3,
    MaxMirrors <- 3, MaxFaults <- 1

ASSUME ScanAssumption == Threads!ScanConstants

\* see NewestKept of ChunkScan
NewestKept == part = "scan" => Threads!NewestKept

Rebuild == INSTANCE ChunkRebuild WITH
    phase <- s1, fs <- s2, groups <- s3, dexts <- s4, rc <- s5, tree <- s6, used <- s7,
    Worlds <- {}, StripeLen <- 2, MaxTurns <- 3

\* see RecoveredReads and UsedCounted of ChunkRebuild
RecoveredReads == part = "rebuild" => Rebuild!RecoveredReads
UsedCounted == part = "rebuild" => Rebuild!UsedCounted

MetaInit ==
    \E c \in Found!MetaChunks :
      \E found \in SUBSET {Found!SystemChunk, c}, blocks \in Found!BlockSets(c),
         harm \in Found!Harms(c), inMeta \in BOOLEAN,
         dexts \in Found!Shuffled(Found!DevExtents(c)) :
        Rebuild!Begin(Found!MetaWorld(c, found, blocks, harm, inMeta, dexts))
DataInit(raids, parts, missing) ==
    \E c \in {Found!DataChunk(x) : x \in raids} :
      \E data \in Found!DataSets(c, parts) \ {{}}, same \in {{}, {40, 42}},
         dexts \in Found!Shuffled(Found!DevExtents(c)) :
        Rebuild!Begin(Found!DataWorld(c, data, same, missing, dexts))

ScanUnused == s9 = 0 /\ s10 = 0 /\ s11 = 0 /\ Unused
RebuildUnused == s8 = 0 /\ ScanUnused

---------------------------------------------------------------------------
OthersInit ==
    \/ part = "chunks" /\ Chunks!Init /\ Unused
    \/ part = "convert" /\ Conv!Init
    \/ part = "scan" /\ Threads!Init /\ ScanUnused
    \/ /\ part = "rebuild" /\ RebuildUnused
       /\ \/ MetaInit
          \/ DataInit({"raid0", "raid10"}, {{}, {0}, {0, 1}}, {})
          \/ DataInit({"raid5", "raid6"}, {{}, {0, 1}}, {})
          \/ DataInit({"raid0"}, {{0, 1}}, {2})

UuidInit ==
    /\ part = "uuid" /\ RebuildUnused
    /\ s1 = "" /\ s2 = 0 /\ s3 = 0 /\ s4 = 0 /\ s5 = 0 /\ s6 = 0 /\ s7 = 0

MCInit == Init /\ (UuidInit \/ OthersInit)

ChunksStep == part = "chunks" /\ Chunks!Next /\ UNCHANGED <<part, s12, s13, s14, vars>>

MCNext ==
    \/ part = "uuid" /\ Next /\ UNCHANGED <<part, slots>>
    \/ ChunksStep
    \/ part = "convert" /\ Conv!Next /\ UNCHANGED <<part, vars>>
    \/ part = "scan" /\ Threads!Next /\ UNCHANGED <<part, s9, s10, s11, s12, s13, s14, vars>>
    \/ part = "rebuild" /\ Rebuild!Next /\ UNCHANGED <<part, s8, s9, s10, s11, s12, s13, s14, vars>>

MCSpec == MCInit /\ [][MCNext]_allVars /\ WF_allVars(ChunksStep)

\* one small source filesystem to convert
ConvertInit == Init /\ part = "convert" /\ Conv!Start(SourceFs(28, 0, 1, 2, 1))
ConvertSpec == ConvertInit /\ [][MCNext]_allVars
=============================================================================
