--------------------------- MODULE MCUserSession ---------------------------
(***************************************************************************)
(* One process of each kind; nothing has to be bounded.                    *)
(***************************************************************************)
EXTENDS UserSession
=============================================================================
