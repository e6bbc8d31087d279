---------------------------- MODULE MCRidenBus ----------------------------
(* Small instances of RidenBus for TLC.  One TCP client is enough: requests *)
(* are told apart by their ids, and any client may make the next one.       *)
EXTENDS RidenBus
=============================================================================
