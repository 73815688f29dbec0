--------------------------- MODULE MCTransaction ---------------------------
EXTENDS Transaction, TLC

CONSTANTS fsTree, rootTree, chunkTree, extentTree

(* mkfs lays the trees out from the bottom of the device.                  *)
MCInitNode == (rootTree :> 0) @@ (chunkTree :> 1) @@ (extentTree :> 2) @@ (fsTree :> 3)
=============================================================================
