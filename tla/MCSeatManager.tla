---------------------------- MODULE MCSeatManager ----------------------------
(***************************************************************************)
(* Two seats of logind and a few changes of them.                          *)
(***************************************************************************)
EXTENDS SeatManager

CONSTANTS seat0, seat1

MCSeats == {seat0, seat1}
=============================================================================
