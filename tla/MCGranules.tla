----------------------------- MODULE MCGranules -----------------------------
(* Instances of Granules for TLC.                                          *)
EXTENDS Granules

CONSTANTS c1, c2, i1, i2, g1, g2, g3

TwoGrants == {c1, c2}
TwoIndices == {i1, i2}
ThreeGranules == {g1, g2, g3}
=============================================================================
