------------------------------- MODULE MCSeat -------------------------------
(***************************************************************************)
(* A small instance of Seat: the first display, one that a switch to the   *)
(* greeter adds, and room for one that waits to be deleted.                *)
(***************************************************************************)
EXTENDS Seat

MCDisplays == 1 .. 3

MCDefaultTypes == {"x11", "wayland"}
=============================================================================
