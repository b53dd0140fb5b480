--------------------------- MODULE MCBtInterface ----------------------------
(***************************************************************************)
(* BtInterface; the configurations give all its constants.                 *)
(***************************************************************************)
EXTENDS BtInterface
=============================================================================
