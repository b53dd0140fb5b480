----------------------------- MODULE MCESQueue ------------------------------
(***************************************************************************)
(* ESQueue on rings a few bytes long.  The frame lengths make some writes  *)
(* give up no frame, one frame and two frames, and let one frame fill the  *)
(* whole ring; different bytes tell the frames apart.                      *)
(***************************************************************************)
EXTENDS ESQueueFifo, ESQueue_proofs

MCFrames == {<<7>>, <<8>>, <<1, 2>>, <<1, 2, 3, 4, 5>>}
=============================================================================
