---------------------------- MODULE MCRoomStore ----------------------------
(* The room's store on a small instance: the sessions and the clients.     *)
EXTENDS RoomStore

MCSids == 1..3
MCTwoSids == 1..2
============================================================================
