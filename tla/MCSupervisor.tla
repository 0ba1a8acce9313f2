---------------------------- MODULE MCSupervisor ----------------------------
(* Instance of Supervisor for TLC.                                         *)
EXTENDS Supervisor
=============================================================================
