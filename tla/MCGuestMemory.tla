---------------------------- MODULE MCGuestMemory ----------------------------
(* Instances of GuestMemory for TLC.                                       *)
EXTENDS GuestMemory, TLC

CONSTANTS p1, p2, g1, g2

\* Two pages in two granules.
TwoPages == (p1 :> g1) @@ (p2 :> g2)
=============================================================================
