----------------------------- MODULE MCCheckers -----------------------------
(***************************************************************************)
(* btrfs check under one run: checking and repairing share no state, so a  *)
(* behaviour belongs to one of them, which part names; s1 to s10 stand for *)
(* its variables.                                                          *)
(***************************************************************************)
EXTENDS CheckInstances

VARIABLES part, s1, s2, s3, s4, s5, s6, s7, s8, s9, s10
vars == <<part, s1, s2, s3, s4, s5, s6, s7, s8, s9, s10>>

Unused == "unused"

---------------------------------------------------------------------------
Roots == INSTANCE CheckFsRoots WITH
    fs <- s1, pos <- s2, w <- s3, roots <- s4, verdict <- s5, refsok <- s6

\* see VerdictExact of CheckFsRoots
VerdictExact == part = "roots" => Roots!VerdictExact

---------------------------------------------------------------------------
Repair == INSTANCE RepairInodes WITH
    items <- s1, lost <- s2, w <- s3, again <- s4, todo <- s5, k <- s6, phase <- s7,
    crashes <- s8, names <- s9, indexed <- s10,
    Damaged <- DamagedTrees, Suffixed <- Suffix, InoName <- InoNames, MaxCrashes <- 1

\* see NamesKept, IndexesRebuilt, RepairEnds and LinksCounted of RepairInodes
NamesKept == part = "repair" => Repair!NamesKept
IndexesRebuilt == part = "repair" => Repair!IndexesRebuilt
RepairEnds == part = "repair" => Repair!RepairEnds
LinksCounted == part = "repair" => Repair!LinksCounted

---------------------------------------------------------------------------
Lowmem == INSTANCE LowmemInodes WITH
    items <- s1, cuts <- s2, w <- s3, repair <- s4, start <- s5, phase <- s7,
    Trees <- LowmemTrees, Suffixed <- Suffix, InoName <- InoNames, MaxIno <- 261

\* see LowmemVerdict, LowmemNamesKept and RefAdded of LowmemInodes
LowmemVerdict == part = "lowmem" => Lowmem!LowmemVerdict
LowmemNamesKept == part = "lowmem" => Lowmem!LowmemNamesKept
RefAdded == part = "lowmem" => Lowmem!RefAdded

---------------------------------------------------------------------------
(* Two trees, 5 and a snapshot of it, a file of two slots.                  *)
Extents == INSTANCE CheckExtents WITH
    blk <- s1, root <- s2, ext <- s3, trans <- s4, cache <- s5, chk <- s6,
    Trees <- {5, 256}, Inodes <- {1}, Slots <- {1, 2}, Data <- {21, 22}, NBlocks <- 10,
    MaxInline <- 2, Hash <- [t \in {5, 256} |-> <<IF t = 5 THEN 1 ELSE 2>>], MaxTrans <- 3, MaxFixes <- 3

\* see ExtentVerdict and ExtentsRepaired of CheckExtents
ExtentVerdict == part = "extents" => Extents!ExtentVerdict
ExtentsRepaired == part = "extents" => Extents!ExtentsRepaired

---------------------------------------------------------------------------
RootsUnused == s7 = Unused /\ s8 = Unused /\ s9 = Unused /\ s10 = Unused

LowmemUnused == s6 = Unused /\ s8 = Unused /\ s9 = Unused /\ s10 = Unused

Init ==
    \/ part = "roots" /\ Roots!Init /\ RootsUnused
    \/ part = "lowmem" /\ Lowmem!Init /\ LowmemUnused
    \/ part = "extents" /\ Extents!CheckInit /\ RootsUnused
    \/ part = "repair" /\ Repair!Init

\* the sound tree with any link count in the inode item of the file of two names
LinkCountInit ==
    /\ part = "repair"
    /\ \E n \in 0..3 : Repair!Start(WithLinkCount(SoundTree, 257, n), {})

\* one reference of the sound tree is lost
LostRefInit ==
    /\ part = "lowmem" /\ LowmemUnused
    /\ \E T \in LostRefTrees : Lowmem!Begin(T.items, T.cuts, T.repair)

Next ==
    /\ UNCHANGED part
    /\ \/ part = "roots" /\ Roots!Next /\ UNCHANGED <<s7, s8, s9, s10>>
       \/ part = "repair" /\ Repair!Next
       \/ part = "extents" /\ Extents!CheckNext /\ UNCHANGED <<s7, s8, s9, s10>>
       \/ part = "lowmem" /\ Lowmem!Next /\ UNCHANGED <<s6, s8, s9, s10>>

Spec == Init /\ [][Next]_vars /\ (part = "repair" => Repair!Fairness)
LostRefSpec == LostRefInit /\ [][Next]_vars
LinkCountSpec == LinkCountInit /\ [][Next]_vars
=============================================================================
