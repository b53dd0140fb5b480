----------------------------- MODULE MCFdsQueue -----------------------------
(***************************************************************************)
(* FdsQueue for TLC; the configuration gives all its constants.            *)
(***************************************************************************)
EXTENDS FdsQueue
=============================================================================
