------------------------------ MODULE MCScrub -------------------------------
(* The instances of Scrub: commands for the whole filesystem or for one of  *)
(* its devices.                                                             *)
EXTENDS Scrub

CONSTANTS p1, p2, d1, d2
=============================================================================
