------------------------------ MODULE MCLogin ------------------------------
(***************************************************************************)
(* Small instances of Login: two or three Login messages, so that a helper *)
(* can be followed by another one on the same Auth object.                 *)
(***************************************************************************)
EXTENDS Login

\* One prompt is filled in, three (a password change that PAM announces) are
\* not.
MCPromptCounts == {1, 3}

\* A session ends well, or with the code that HELPER_AUTH_ERROR also has.
MCSessionCodes == {0, 1}
=============================================================================
