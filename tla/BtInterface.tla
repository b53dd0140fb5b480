---------------------------- MODULE BtInterface -----------------------------
(***************************************************************************)
(* BLE/BT_Interface.c on top of Libraries/ES_Protocol: the command link    *)
(* between the phone and the main loop.                                    *)
(*                                                                         *)
(* The SoftDevice's write events run vBT_ITF_DataReceived in interrupt     *)
(* context.  It collects the bytes of a frame, checks them and puts the    *)
(* frame into the inbox; vBT_ITF_IdleTask takes it out in the main loop,   *)
(* hands it to the command handler and sends what is in the outbox.        *)
(*                                                                         *)
(* A frame is a sequence of FrameLen units: the two magic bytes, the rest  *)
(* of the header, which holds the length, and then the payload with the    *)
(* CRC.  The CRC is assumed to tell a frame from a mixture of two.         *)
(*                                                                         *)
(* The inbox is a ring of whole frames; it is written whole because the    *)
(* main loop cannot preempt the handler, and read in steps.                *)
(***************************************************************************)
EXTENDS Integers, Sequences

CONSTANTS
  FrameLen,      \* units of a frame
  BufferSize,    \* BTH_ESI_MAX_FRAME_SIZE, in units
  Depth,         \* frames a queue holds
  \* Bounds of the model:
  MaxFrames,     \* frames the phone sends
  MaxStreamed    \* frames the main loop sends on its own

ASSUME BtInterfaceAssumption ==
  /\ FrameLen \in Nat /\ FrameLen > 2
  /\ BufferSize \in Nat /\ BufferSize >= FrameLen
  /\ Depth \in Nat \ {0}
  /\ MaxFrames \in Nat /\ MaxStreamed \in Nat

Frames == 1 .. MaxFrames
NoFrame == 0            \* what the ring holds before it is first written
Streamed == 0           \* in the outbox, a frame that answers none
Indices == 0 .. Depth
Unit == [frame : Frames, part : 1 .. FrameLen]
Signal == {"in", "out"} \* BTH_ESI_SIG_INBOX_READY, BTH_ESI_SIG_OUTBOX_READY

VARIABLES
  buffer,                          \* g_au8BthInBuffer, its first
                                   \* g_u8BthInBufferSize bytes
  slot, index_read, index_write,   \* g_sBthEsiInboxQueue
  outbox,                          \* g_sBthEsiOutboxQueue, used by main only
  flags,                           \* g_u32BthEsiFlags
  \* The main loop:
  pc,
  index,         \* ES_Queue_Read's copy of index_read
  frame,         \* inbox->buffer_read
  loaded,        \* the register in which flags is modified
  \* The phone:
  sending, part, \* the frame it is sending, and how much of it is sent
  streamed,      \* for the bound
  \* History, read by no action of the code:
  fate,          \* what became of each frame
  answered,      \* the frames whose answer went to the BLE UART
  hit            \* the windows in which the handler caught the main loop, and
                 \* "cut": a link was lost in the middle of a frame

inbox == <<slot, index_read, index_write>>
mainLocals == <<pc, index, frame, loaded>>
phone == <<sending, part>>
history == <<fate, answered, hit>>
vars == <<buffer, inbox, outbox, flags, mainLocals, phone, streamed, history>>

-----------------------------------------------------------------------------
\* Operators whose comment begins with "Mutant" are wrong on purpose: with
\* one of them in place of the definition that follows, a property is violated.

Succ(i) == (i + 1) % (Depth + 1)

(***************************************************************************)
(* ESP_CheckForValidFrame: what the bytes from the first magic on are.     *)
(***************************************************************************)
FromMagic(units) ==
  LET heads == {k \in 1 .. Len(units) : units[k].part = 1}
  IN  IF heads = {} THEN <<>>
      ELSE SubSeq(units, CHOOSE k \in heads : \A j \in heads : k <= j,
                  Len(units))

Whole(units) == \A k \in 1 .. FrameLen :
                  units[k] = [frame |-> units[1].frame, part |-> k]

CheckForValidFrame(units) ==
  LET candidate == FromMagic(units)
  IN  CASE candidate = <<>> -> "failed"
        [] candidate # <<>> /\ Len(candidate) < FrameLen -> "receiving"
        [] Len(candidate) >= FrameLen /\ Whole(candidate) -> "valid"
        [] OTHER -> "failed"

\* Mutant of Discarded: the buffer is never emptied.
NeverDiscarded(verdict) == FALSE

\* Whether vBT_ITF_DataReceived empties its buffer.  ESI_NewIncomingFrame
\* returns ESI_Failed for a failed frame and for one being received, and
\* ESI_Failed is the number of ESP_Receiving.
Discarded(verdict) == verdict = "valid"

\* The frames the handler can still read.
Held == {slot[(index_read + k) % (Depth + 1)] :
           k \in 0 .. ((index_write - index_read) % (Depth + 1)) - 1}

Lose(frames) == [f \in Frames |-> IF f \in frames /\ fate[f] = "received"
                                  THEN "lost" ELSE fate[f]]

-----------------------------------------------------------------------------
Init ==
  /\ buffer = <<>>
  /\ slot = [i \in Indices |-> NoFrame] /\ index_read = 0 /\ index_write = 0
  /\ outbox = <<>> /\ flags = {}
  /\ pc = "idle" /\ index = 0 /\ frame = NoFrame /\ loaded = {}
  /\ sending = 1 /\ part = 0 /\ streamed = 0
  /\ fate = [f \in Frames |-> "new"] /\ answered = <<>> /\ hit = {}

(***************************************************************************)
(* The interrupt side: vBT_ITF_DataReceived on a write of the phone's that *)
(* carries the next n units of its frame.                                  *)
(***************************************************************************)
Room(n) == IF n <= BufferSize - Len(buffer) THEN n ELSE BufferSize - Len(buffer)

\* The windows a frame put into the inbox at this point hits: between the read
\* that found the inbox empty and the end of the update of flags that follows
\* (any update, if it loaded flags before), and during ES_Queue_Read.
WindowsHit(full) ==
  {w \in {"flag", "read"} :
     \/ w = "flag" /\ \/ pc = "clear"
                      \/ pc \in {"storeIn", "storeOut"} /\ "in" \notin loaded
     \/ w = "read" /\ full /\ pc \in {"copy", "publish"}}

\* ES_Queue_PreventOverlap.  Its mutant: the read index stays.
ReadIndexKept(full) == index_read

ReadIndexAfter(full) == IF full THEN Succ(index_read) ELSE index_read

\* ESI_NewIncomingFrame for a valid frame: into the inbox, the oldest frame
\* given up if it is full, and the signal set.
PutIntoInbox(f) ==
  LET full == Succ(index_write) = index_read
      evicted == IF full THEN {slot[index_read]} ELSE {}
  IN  /\ slot' = [slot EXCEPT ![index_write] = f]
      /\ index_write' = Succ(index_write)
      /\ index_read' = ReadIndexAfter(full)
      /\ flags' = flags \union {"in"}
      /\ fate' = [Lose(evicted) EXCEPT ![f] = "received"]
      /\ hit' = hit \union WindowsHit(full)

vBT_ITF_DataReceived(n) ==
  /\ sending \in Frames /\ part + n <= FrameLen
  /\ LET units == [k \in 1 .. Room(n) |-> [frame |-> sending, part |-> part + k]]
         received == buffer \o units
         verdict == CheckForValidFrame(received)
     IN  /\ buffer' = IF Discarded(verdict) THEN <<>> ELSE received
         /\ IF verdict = "valid"
            THEN PutIntoInbox(FromMagic(received)[1].frame)
            ELSE /\ fate' = IF part + n = FrameLen
                            THEN [fate EXCEPT ![sending] = "dropped"] ELSE fate
                 /\ UNCHANGED <<inbox, flags, hit>>
  /\ IF part + n = FrameLen
     THEN sending' = sending + 1 /\ part' = 0
     ELSE sending' = sending /\ part' = part + n
  /\ UNCHANGED <<outbox, mainLocals, streamed, answered>>

\* The link is lost in the middle of a frame; the phone starts its next frame
\* on the next link.  Nothing tells BT_Interface.c.
LinkLost ==
  /\ sending \in Frames /\ part > 0
  /\ sending' = sending + 1 /\ part' = 0
  /\ fate' = [fate EXCEPT ![sending] = "dropped"]
  /\ hit' = hit \union {"cut"}
  /\ UNCHANGED <<buffer, inbox, outbox, flags, mainLocals, streamed, answered>>

(***************************************************************************)
(* The main loop.                                                          *)
(***************************************************************************)
\* SetFlags and ClearFlags read flags here and write it in StoreFlags.  Their
\* mutants: the wrong bit is set, all bits are cleared.
SetInboxFlag(signal) == loaded' = flags \union {"in"}
SetFlags(signal) == loaded' = flags \union {signal}

ClearAllFlags(signal) == loaded' = {}
ClearFlags(signal) == loaded' = flags \ {signal}

\* The outbox with f in it; the oldest frame is given up if it is full.
Queued(f) == IF Len(outbox) = Depth THEN Append(Tail(outbox), f)
                                    ELSE Append(outbox, f)

\* eBT_ITF_SendFrame.
SendFrame(f, store) ==
  /\ outbox' = Queued(f)
  /\ SetFlags("out")
  /\ pc' = store

\* vConnected_Process sends a frame of sensor data.
StreamFrame ==
  /\ pc = "idle" /\ streamed < MaxStreamed
  /\ streamed' = streamed + 1
  /\ SendFrame(Streamed, "storeOut")
  /\ UNCHANGED <<inbox, flags, index, frame, history>>

\* vBT_ITF_IdleTask: the inbox first ...
vBT_ITF_IdleTask ==
  /\ pc = "idle"
  /\ pc' = IF "in" \in flags THEN "read" ELSE "outbox"
  /\ UNCHANGED <<inbox, outbox, flags, index, frame, loaded, streamed, history>>

\* Mutant of BeginRead: it reads the frame after the oldest one.
BeginReadNext ==
  /\ pc = "read"
  /\ IF index_read = index_write
     THEN pc' = "clear" /\ UNCHANGED index
     ELSE pc' = "copy" /\ index' = Succ(index_read)
  /\ UNCHANGED <<inbox, outbox, flags, frame, loaded, streamed, history>>

\* ES_Queue_Read copies the index, the bytes, and stores the index.
BeginRead ==
  /\ pc = "read"
  /\ IF index_read = index_write
     THEN pc' = "clear" /\ UNCHANGED index
     ELSE pc' = "copy" /\ index' = index_read
  /\ UNCHANGED <<inbox, outbox, flags, frame, loaded, streamed, history>>

CopyFrame ==
  /\ pc = "copy"
  /\ frame' = slot[index]
  /\ pc' = "publish"
  /\ UNCHANGED <<inbox, outbox, flags, index, loaded, streamed, history>>

\* Mutant of PublishIndex: the index is not stored.
PublishNothing ==
  /\ pc = "publish"
  /\ pc' = IF frame = NoFrame THEN "clear" ELSE "handle"
  /\ UNCHANGED <<inbox, outbox, flags, index, frame, loaded, streamed, history>>

PublishIndex ==
  /\ pc = "publish"
  /\ index_read' = Succ(index)
  /\ pc' = IF frame = NoFrame THEN "clear" ELSE "handle"
  /\ UNCHANGED <<slot, index_write, outbox, flags, index, frame, loaded,
                 streamed, history>>

\* vES_CommandHandler, which answers some of the commands.
Handle ==
  /\ pc = "handle"
  /\ fate' = [fate EXCEPT ![frame] = "handled"]
  /\ \/ SendFrame(frame, "storeIn")
     \/ pc' = "outbox" /\ UNCHANGED <<outbox, loaded>>
  /\ UNCHANGED <<inbox, flags, index, frame, streamed, answered, hit>>

\* ... ClearFlags when it is empty ...
ClearInboxSignal ==
  /\ pc = "clear"
  /\ ClearFlags("in")
  /\ pc' = "storeIn"
  /\ UNCHANGED <<inbox, outbox, flags, index, frame, streamed, history>>

\* ... and then the outbox.
ProcessOutbox ==
  /\ pc = "outbox"
  /\ CASE "out" \notin flags ->
            pc' = "idle" /\ UNCHANGED <<outbox, loaded, answered>>
       [] "out" \in flags /\ outbox = <<>> ->
            /\ ClearFlags("out")
            /\ pc' = "storeOut"
            /\ UNCHANGED <<outbox, answered>>
       [] OTHER ->
            /\ outbox' = Tail(outbox)
            /\ answered' = IF Head(outbox) = Streamed THEN answered
                           ELSE Append(answered, Head(outbox))
            /\ pc' = "idle"
            /\ UNCHANGED loaded
  /\ UNCHANGED <<inbox, flags, index, frame, streamed, fate, hit>>

\* The end of an update of flags, for the inbox or the outbox half of the task.
StoreFlags ==
  /\ pc \in {"storeIn", "storeOut"}
  /\ flags' = loaded
  /\ pc' = IF pc = "storeIn" THEN "outbox" ELSE "idle"
  /\ UNCHANGED <<inbox, outbox, index, frame, loaded, streamed, history>>

Main ==
  /\ \/ StreamFrame \/ vBT_ITF_IdleTask \/ BeginRead \/ CopyFrame
     \/ PublishIndex \/ Handle \/ ClearInboxSignal \/ ProcessOutbox
     \/ StoreFlags
  /\ UNCHANGED <<buffer, phone>>

Next ==
  \/ \E n \in 1 .. FrameLen : vBT_ITF_DataReceived(n)
  \/ LinkLost
  \/ Main

\* The main loop comes round again and again.
Spec == Init /\ [][Next]_vars
FairSpec == Spec /\ WF_vars(Main)

-----------------------------------------------------------------------------
(***************************************************************************)
(* Properties.                                                             *)
(***************************************************************************)
TypeOK ==
  /\ buffer \in Seq(Unit) /\ Len(buffer) <= BufferSize
  /\ slot \in [Indices -> Frames \union {NoFrame}]
  /\ index_read \in Indices /\ index_write \in Indices
  /\ outbox \in Seq(Frames \union {Streamed}) /\ Len(outbox) <= Depth
  /\ flags \subseteq Signal /\ loaded \subseteq Signal
  /\ pc \in {"idle", "read", "copy", "publish", "handle", "clear", "storeIn",
             "storeOut", "outbox"}
  /\ index \in Indices /\ frame \in Frames \union {NoFrame}
  /\ sending \in 1 .. MaxFrames + 1 /\ part \in 0 .. FrameLen - 1
  /\ streamed \in 0 .. MaxStreamed
  /\ fate \in [Frames -> {"new", "received", "handled", "lost", "dropped"}]
  /\ answered \in Seq(Frames)
  /\ hit \subseteq {"flag", "read", "cut"}

\* As long as no link is lost in the middle of a frame, the buffer holds the
\* part of the phone's frame that has come and nothing else, however the phone
\* cuts it into writes: it never fills up, and the next frame starts in an
\* empty one.
BufferIsPartOfFrame ==
  "cut" \notin hit =>
    buffer = [k \in 1 .. part |-> [frame |-> sending, part |-> k]]

\* A frame received whole is in the inbox or in the hands of the main loop until
\* it is handled or given up, unless the inbox gave up a frame during
\* ES_Queue_Read.
InHand == IF pc \in {"copy", "publish"} THEN {slot[index]}
          ELSE IF pc = "handle" THEN {frame} ELSE {}

NothingLeaks ==
  "read" \notin hit =>
    {f \in Frames : fate[f] = "received"} = Held \union InHand

\* Commands are handled in the order they were received, each one once: the
\* main loop never runs a command again, nor one that was given up, unless the
\* inbox gave up a frame during ES_Queue_Read.
HandledInOrder ==
  [][\A f \in Frames :
       fate'[f] = "handled" /\ fate[f] # "handled" /\ "read" \notin hit
         => /\ fate[f] = "received"
            /\ \A g \in 1 .. f - 1 : fate[g] # "received"]_vars

\* The answers leave in the order of the commands, none of them twice, whatever
\* the streamed frames push out of the outbox.
AnswersInOrder ==
  "read" \notin hit =>
    \A j, k \in 1 .. Len(answered) : j < k => answered[j] < answered[k]

\* A frame in the inbox has its signal set, unless it came between the read that
\* found the inbox empty and the end of ClearFlags, or during the update of the
\* other signal.
InboxSignalled ==
  hit \intersect {"flag", "read"} = {} =>
    (index_read # index_write => "in" \in flags)

\* A frame in the outbox has its signal set once eBT_ITF_SendFrame is through,
\* whatever the handler does to the other signal of the same word.
OutboxSignalled ==
  outbox # <<>> =>
    \/ "out" \in flags
    \/ "out" \in loaded /\ pc \in {"storeIn", "storeOut"}

\* Every frame received whole is handled or given up for a newer one, and every
\* frame of the outbox is passed on, unless one of the windows is hit.
EventuallyHandled ==
  /\ \A f \in Frames :
       fate[f] = "received" ~> (fate[f] \in {"handled", "lost"}
                                \/ hit \intersect {"flag", "read"} # {})
  /\ outbox # <<>> ~> outbox = <<>>

-----------------------------------------------------------------------------
\* "if(ESP_Receiving != ESI_NewIncomingFrame(...))" is there to empty the buffer
\* of a frame that failed the check, which ES_Protocol.c documents as a result
\* of its own ("0xFF if failure").  It never does, and the bytes left behind
\* fail the check of every later frame.
FailedFrameDiscarded ==
  buffer # <<>> => CheckForValidFrame(buffer) = "receiving"
=============================================================================
