---------------------------- MODULE MCScrubPair -----------------------------
(* Two instances of Scrub under one run: a command for two devices that is  *)
(* interrupted and resumed, which has the variables of Scrub, and two       *)
(* commands at once on one device, for whose variables s1 to s20 stand.     *)
EXTENDS Scrub

CONSTANTS p1, p2, d1, d2, TwoProcs, OneDev

VARIABLES instance, s1, s2, s3, s4, s5, s6, s7, s8, s9, s10, s11, s12, s13, s14, s15, s16, s17,
          s18, s19, s20
slots == <<s1, s2, s3, s4, s5, s6, s7, s8, s9, s10, s11, s12, s13, s14, s15, s16, s17, s18, s19,
           s20>>

Pair == INSTANCE Scrub WITH
    file <- s1, socket <- s2, kernel <- s3, pos <- s4, pc <- s5, status <- s6, opt <- s7,
    has <- s8, sp <- s9, thread <- s10, this <- s11, last <- s12, prog <- s13, covered <- s14,
    resumes <- s15, early <- s16, runs <- s17, cancels <- s18, reboots <- s19, faults <- s20,
    Proc <- TwoProcs, Dev <- OneDev, Size <- 1, Background <- TRUE, Devices <- {OneDev},
    MaxRuns <- 2, MaxCancels <- 0, MaxReboots <- 0, MaxFaults <- 0, MaxMishaps <- 0

NoPair ==
  /\ s1 = 0 /\ s2 = 0 /\ s3 = 0 /\ s4 = 0 /\ s5 = 0 /\ s6 = 0 /\ s7 = 0 /\ s8 = 0 /\ s9 = 0
  /\ s10 = 0 /\ s11 = 0 /\ s12 = 0 /\ s13 = 0 /\ s14 = 0 /\ s15 = 0 /\ s16 = 0 /\ s17 = 0
  /\ s18 = 0 /\ s19 = 0 /\ s20 = 0

MCInit ==
  /\ Init
  /\ \/ instance = "one" /\ NoPair
     \/ instance = "pair" /\ Pair!Init

MCNext ==
  /\ UNCHANGED instance
  /\ \/ instance = "one" /\ Next /\ UNCHANGED slots
     \/ instance = "pair" /\ Pair!Next /\ UNCHANGED vars

MCSpec == MCInit /\ [][MCNext]_<<instance, vars, slots>>

\* Of two commands at once neither leaves the socket behind (see Scrub).
PairLeavesNoSocket == instance = "pair" => Pair!SocketNotLeftBehind
=============================================================================
