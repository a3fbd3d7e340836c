-------------------------- MODULE MCControlStream ---------------------------
(***************************************************************************)
(* ControlStream for TLC; the .cfg files give its constants their values.  *)
(***************************************************************************)
EXTENDS ControlStream
=============================================================================
