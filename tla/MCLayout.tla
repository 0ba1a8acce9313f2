------------------------------ MODULE MCLayout ------------------------------
(* Instance of Layout for TLC: eight pages in four granules, an aperture that  *)
(* begins in the middle of a granule, and every address in steps of two.       *)
EXTENDS Layout

MCAperture == [start |-> 8, end |-> 47]
MCAddresses == {a \in 0..(Word - 1) : a % 2 = 0}
\* Three regions, the third close to the top of the address space, one that
\* would wrap around, and two that are not page aligned.
MCRequests == {[base |-> 0, length |-> 16], [base |-> 16, length |-> 40],
               [base |-> 32, length |-> 24], [base |-> 48, length |-> 16],
               [base |-> 4, length |-> 8], [base |-> 0, length |-> 12]}
MCLengths == {l \in 0..(Word - 1) : l % 4 = 0}
=============================================================================
