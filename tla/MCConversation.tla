--------------------------- MODULE MCConversation ---------------------------
(***************************************************************************)
(* Calls of converse with one or two messages: what one call leaves behind *)
(* meets the next ones.                                                    *)
(***************************************************************************)
EXTENDS Conversation
=============================================================================
