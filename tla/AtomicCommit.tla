---------------------------- MODULE AtomicCommit ----------------------------
(***************************************************************************)
(* What the transaction layer promises a program that changes trees: the   *)
(* device holds one complete version of every tree, a commit replaces all  *)
(* of them at once, and a crash or a close loses the changes since the     *)
(* last commit and nothing else.                                           *)
(***************************************************************************)
CONSTANTS Trees, Val, Val0, NotOpen

VARIABLES
  stable,    \* the version on the device
  working    \* the version the open program sees, or NotOpen

vars == <<stable, working>>

Init ==
  /\ stable = [t \in Trees |-> Val0]
  /\ working = NotOpen

OpenFs ==
  /\ working = NotOpen
  /\ working' = stable
  /\ UNCHANGED stable

Write(t, v) ==
  /\ working # NotOpen
  /\ working' = [working EXCEPT ![t] = v]
  /\ UNCHANGED stable

Commit ==
  /\ working # NotOpen
  /\ stable' = working
  /\ UNCHANGED working

Lose ==
  /\ working # NotOpen
  /\ working' = NotOpen
  /\ UNCHANGED stable

Next ==
  \/ OpenFs
  \/ \E t \in Trees, v \in Val : Write(t, v)
  \/ Commit
  \/ Lose

Spec == Init /\ [][Next]_vars
=============================================================================
