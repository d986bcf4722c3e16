---------------------------- MODULE MCDoorClient ----------------------------
(* The instance of DoorClient for TLC.                                     *)
EXTENDS DoorClient
=============================================================================
