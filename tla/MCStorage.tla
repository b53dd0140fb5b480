----------------------------- MODULE MCStorage ------------------------------
(***************************************************************************)
(* Storage for TLC; the configuration gives all its constants.             *)
(***************************************************************************)
EXTENDS Storage
=============================================================================
