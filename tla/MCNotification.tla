---------------------------- MODULE MCNotification ----------------------------
(* Instances of Notification for TLC.                                      *)
EXTENDS Notification
=============================================================================
