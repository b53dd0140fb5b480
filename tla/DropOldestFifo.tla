--------------------------- MODULE DropOldestFifo ---------------------------
(***************************************************************************)
(* What ES_Queue promises to its users (the ESI inboxes and outboxes and   *)
(* the notification queue of the BLE UART): a first-in first-out queue of  *)
(* frames in a bounded number of bytes which never refuses a frame.  When  *)
(* a new frame does not fit, the oldest frames are given up, one by one    *)
(* and no more of them than the new frame needs.                           *)
(***************************************************************************)
EXTENDS Naturals, Sequences

CONSTANTS Frames,     \* the frames a client may queue
          Capacity,   \* the bytes the queue can hold
          Cost(_),    \* the bytes a frame takes in the queue
          NoFrame     \* "no frame", not one of Frames

VARIABLES queue,      \* the frames held, oldest first
          pending,    \* the frame being queued, or NoFrame
          delivered   \* what the last read returned, or NoFrame

fifoVars == <<queue, pending, delivered>>

\* The bytes held by a sequence of frames.
Bytes(s) ==
  LET sum[n \in 0 .. Len(s)] == IF n = 0 THEN 0 ELSE sum[n - 1] + Cost(s[n])
  IN  sum[Len(s)]

Fits(frame) == Bytes(queue) + Cost(frame) <= Capacity

Init == /\ queue = <<>>
        /\ pending = NoFrame
        /\ delivered = NoFrame

Offer(frame) == /\ pending = NoFrame
                /\ pending' = frame
                /\ UNCHANGED <<queue, delivered>>

GiveUpOldest == /\ pending # NoFrame
                /\ ~ Fits(pending)
                /\ queue # <<>>
                /\ queue' = Tail(queue)
                /\ UNCHANGED <<pending, delivered>>

Accept == /\ pending # NoFrame
          /\ Fits(pending)
          /\ queue' = Append(queue, pending)
          /\ pending' = NoFrame
          /\ UNCHANGED delivered

Take == /\ pending = NoFrame
        /\ queue # <<>>
        /\ queue' = Tail(queue)
        /\ delivered' = Head(queue)
        /\ UNCHANGED pending

TakeNothing == /\ pending = NoFrame
               /\ queue = <<>>
               /\ delivered' = NoFrame
               /\ UNCHANGED <<queue, pending>>

Clear == /\ pending = NoFrame
         /\ queue' = <<>>
         /\ UNCHANGED <<pending, delivered>>

Next == \/ \E frame \in Frames : Offer(frame)
        \/ GiveUpOldest
        \/ Accept
        \/ Take
        \/ TakeNothing
        \/ Clear

Spec == Init /\ [][Next]_fifoVars
=============================================================================
