-------------------------- MODULE MCControlSession --------------------------
(* Instance of ControlSession for TLC.                                     *)
EXTENDS ControlSession
=============================================================================
