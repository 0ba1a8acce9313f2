------------------------------ MODULE MCBackend ------------------------------
(* Instance of Backend for TLC.                                            *)
EXTENDS Backend

CONSTANTS t1, t2

TwoTokens == {t1, t2}
=============================================================================
