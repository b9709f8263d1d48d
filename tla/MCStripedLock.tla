---------------------------- MODULE MCStripedLock ----------------------------
(***************************************************************************)
(* Three threads over four keys and three stripes.  k1 and k2 share a      *)
(* stripe (the case in which lock_two returns one guard), the others are   *)
(* alone on theirs, so three threads can chase each other around a ring.   *)
(***************************************************************************)
EXTENDS StripedLock, TLC

CONSTANTS k1, k2, k3, k4

MCHash == (k1 :> 0) @@ (k2 :> 3) @@ (k3 :> 4) @@ (k4 :> 2)

==============================================================================
