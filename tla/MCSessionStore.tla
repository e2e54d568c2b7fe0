--------------------------- MODULE MCSessionStore ---------------------------
(* Days of three marks and one window of two of them; two calls for a  *)
(* session and its successor, two restarts for a restart after a restart,  *)
(* two attempts so that a replay runs out of them.                         *)
EXTENDS SessionStore

MCWindows == {<<0, 2>>}
=============================================================================
