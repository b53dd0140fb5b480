---------------------------- MODULE ESQueueFifo -----------------------------
(***************************************************************************)
(* ES_Queue keeps the promise of DropOldestFifo.  A ring of Size bytes     *)
(* holds Size - 1 of them: equal indices mean an empty ring.               *)
(***************************************************************************)
EXTENDS ESQueue

Fifo == INSTANCE DropOldestFifo
          WITH Capacity <- Size - 1,
               NoFrame <- <<>>,
               queue <- Held,
               pending <- IF Writing THEN frame ELSE <<>>,
               delivered <- result

\* The ring behaves as a bounded first-in first-out queue which gives up its
\* oldest frames, and only as many of them as a new frame needs.
IsDropOldestFifo == Fifo!Spec

\* The bytes of the oldest frame which the read, or the overlap, in progress
\* has left behind.
Passed == IF pc \in {"giveup", "get"} THEN Cost(log[oldest]) - frame_len ELSE 0

\* The bytes of frame number id that are to be in the ring: what is left of the
\* oldest one, all of the others, and what is written of a new one.
Kept(id) ==
  (IF id = oldest THEN Passed ELSE 0)
    .. (IF id <= Len(log) THEN Cost(log[id]) ELSE IF Writing THEN done ELSE 0) - 1

\* How many bytes of kept frames come before byte k of frame number id.
Position(id, k) == Fifo!Bytes(SubSeq(log, oldest, id - 1)) + k - Passed

\* From the read index on, the ring holds the frames that were neither read nor
\* given up, one behind the other and byte by byte, and behind them as much of
\* the frame being written as is written: a write never overwrites a byte that
\* is still to be read, whatever it has to give up on its way.
BytesIntact ==
  \A id \in oldest .. Len(log) + 1 : \A k \in Kept(id) :
    /\ Position(id, k) \in Slots
    /\ buffer[Ahead(ReadIndex, Position(id, k))] = ByteOf(FrameOf(id), k)
=============================================================================
