------------------------------ MODULE MCImage -------------------------------
(***************************************************************************)
(* The two directions of btrfs-image under one run: a behaviour belongs to *)
(* one of them, which part names.  The restoring side has the variables of *)
(* ImageRestore; s1 to s18 stand for those of the other.                   *)
(***************************************************************************)
EXTENDS ImageRestore, Integers

CONSTANTS w1, w2, s, a, b

VARIABLES part, s1, s2, s3, s4, s5, s6, s7, s8, s9, s10, s11, s12, s13, s14, s15, s16, s17,
          s18
slots == <<s1, s2, s3, s4, s5, s6, s7, s8, s9, s10, s11, s12, s13, s14, s15, s16, s17, s18>>
allVars == <<part, slots, vars>>

---------------------------------------------------------------------------
(* Dumping: a superblock, three tree blocks of which two are neighbours,   *)
(* and two extents of a space cache; two threads.                          *)
DumpExtents ==
  << [start |-> 1, size |-> 1, data |-> FALSE],
     [start |-> 4, size |-> 1, data |-> FALSE],
     [start |-> 5, size |-> 1, data |-> FALSE],
     [start |-> 6, size |-> 1, data |-> FALSE],
     [start |-> 7, size |-> 1, data |-> TRUE],
     [start |-> 9, size |-> 2, data |-> TRUE] >>

Dump == INSTANCE ImageDump WITH
    main <- s1, compress <- s2, next <- s3, pending <- s4, ordered <- s5,
    list <- s6, numItems <- s7, numReady <- s8, header <- s9, done <- s10,
    error <- s11, worker <- s12, holds <- s13, file <- s14, fileLen <- s15,
    err <- s16, lost <- s17, faults <- s18,
    Worker <- Worker, Extents <- DumpExtents, CacheFrom <- 5, ItemsPerCluster <- 2,
    MaxPending <- 2, BlockSize <- 3, PackedSize <- {1, 2},
    Faults <- {"read", "write", "nomem", "walk", "zlib"}, MaxFaults <- 2

ASSUME DumpAssumption == Dump!DumpConstants

\* see ClustersWellFormed, ReportedGoodIsComplete and DumpEnds of ImageDump
ClustersWellFormed == part = "dump" => Dump!ClustersWellFormed
ReportedGoodIsComplete == part = "dump" => Dump!ReportedGoodIsComplete
DumpEnds == part = "dump" => Dump!DumpEnds

---------------------------------------------------------------------------
(* Restoring: an image of two clusters, two threads.                       *)
MCClusters == << <<s, a>>, <<b>> >>

\* see RestoreEnds of ImageRestore
RestoreEndsHere == part = "restore" => RestoreEnds

---------------------------------------------------------------------------
\* The variables of the side that is not at work.
NoDump ==
    /\ s1 = "" /\ s2 = 0 /\ s3 = 0 /\ s4 = 0 /\ s5 = 0 /\ s6 = 0 /\ s7 = 0 /\ s8 = 0 /\ s9 = 0
    /\ s10 = 0 /\ s11 = 0 /\ s12 = 0 /\ s13 = 0 /\ s14 = 0 /\ s15 = 0 /\ s16 = 0 /\ s17 = 0
    /\ s18 = 0
NoRestore == Init /\ mode = "single" /\ ~zlib

MCInit ==
    \/ part = "dump" /\ Dump!Init /\ NoRestore
    \/ part = "restore" /\ Init /\ NoDump

MCNext ==
    /\ UNCHANGED part
    /\ \/ part = "dump" /\ Dump!Next /\ UNCHANGED vars
       \/ part = "restore" /\ Next /\ UNCHANGED slots

DumpMain == part = "dump" /\ Dump!MainStep /\ UNCHANGED <<part, s2, vars>>
DumpWorker(w) == part = "dump" /\ Dump!WorkerStep(w) /\ UNCHANGED <<part, s2, vars>>
RestoreMain == part = "restore" /\ MainStep /\ UNCHANGED <<part, slots>>
RestoreWorker(w) == part = "restore" /\ WorkerStep(w) /\ UNCHANGED <<part, slots>>

\* the fairness of the two modules
MCSpec ==
    /\ MCInit /\ [][MCNext]_allVars
    /\ WF_allVars(DumpMain) /\ \A w \in Worker : WF_allVars(DumpWorker(w))
    /\ SF_allVars(RestoreMain) /\ \A w \in Worker : SF_allVars(RestoreWorker(w))
=============================================================================
