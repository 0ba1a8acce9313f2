----------------------------- MODULE MCBlockOwner -----------------------------
(* Instances of BlockOwner for TLC.                                        *)
EXTENDS BlockOwner

Symmetry == Permutations(Client)
=============================================================================
