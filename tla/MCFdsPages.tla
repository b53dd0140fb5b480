----------------------------- MODULE MCFdsPages -----------------------------
(***************************************************************************)
(* FdsPages for TLC; the configuration gives all its constants.            *)
(***************************************************************************)
EXTENDS FdsPages
=============================================================================
