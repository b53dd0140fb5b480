--------------------------- MODULE MCFrameWindows ---------------------------
(***************************************************************************)
(* FrameWindows with two windows.  A command may ask for a frame of a      *)
(* known command, for one that eFrameBuilder_PayloadGet cannot build, and  *)
(* for none: times of 2 and 1 seconds, of a clock that wraps after 4.      *)
(***************************************************************************)
EXTENDS FrameWindows

MCWindow == {1, 2}
MCChoice ==
  {[u8Mode |-> 0, u8Cmd |-> 1, u16Time |-> 2],
   [u8Mode |-> 0, u8Cmd |-> 4, u16Time |-> 1],
   [u8Mode |-> 0, u8Cmd |-> 0, u16Time |-> 0]}
=============================================================================
