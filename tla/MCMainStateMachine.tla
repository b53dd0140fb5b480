------------------------ MODULE MCMainStateMachine --------------------------
(***************************************************************************)
(* MainStateMachine; the configurations give all its constants.            *)
(***************************************************************************)
EXTENDS MainStateMachine
=============================================================================
