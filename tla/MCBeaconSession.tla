-------------------------- MODULE MCBeaconSession --------------------------
(***************************************************************************)
(* Small instances of BeaconSession.  Two messages are enough for a command *)
(* of one message to meet a reply, a timeout or a restart belonging to the  *)
(* other; two queue places hold one request of each thread.                 *)
(***************************************************************************)
EXTENDS BeaconSession
=============================================================================
