------------------------------ MODULE Cc430Link ------------------------------
(***************************************************************************)
(* CC430_Interface.c and the handler of ES_SlaveMngt.c: the link to the    *)
(* CC430, a radio chip on the I2C bus.  Frames wait in the outbox; each is *)
(* written to the chip and its reply is read at once.  Replies of commands *)
(* of the phone go back to the phone; those of the device's own frames are *)
(* dropped.                                                                *)
(*                                                                         *)
(* All of it runs in the main loop.  A frame is the number of the command  *)
(* of the phone that it carries, or Own.  The chip, which answers or not,  *)
(* and the bus are external.                                               *)
(***************************************************************************)
EXTENDS Integers, Sequences

CONSTANTS
  NO_CC430_ON_BOARD,
  Depth,         \* frames that g_sCC430EsiOutboxQueue holds
  BufferSize,    \* replies that g_au8CC430InBuffer holds
  MaxForwards    \* bound: commands of the phone for the CC430

ASSUME LinkAssumption ==
  /\ NO_CC430_ON_BOARD \in {0, 1}
  /\ Depth \in Nat \ {0} /\ BufferSize \in Nat \ {0}
  /\ MaxForwards \in Nat

Own == 0
Nobody == -1
Frame == 0 .. MaxForwards
Commands == 1 .. MaxForwards

\* What a read from the chip gives: a whole reply, bytes without the magic, or
\* a reply cut short.
Blank == -2
Cut == -3
Bytes == Frame \union {Blank, Cut}

VARIABLES
  outbox, outReady,       \* g_sCC430EsiOutboxQueue, CC430_ESI_SIG_OUTBOX_READY
  inBuffer,               \* g_au8CC430InBuffer
  inbox, inReady,         \* g_sCC430EsiInboxQueue, CC430_ESI_SIG_INBOX_READY
  unread,                 \* of the chip: the reply it still has
  forwards,               \* for the bound
  \* History, read by no action of the code:
  fate,                   \* what became of each command
  replies                 \* the replies that went to the phone

linkVars == <<outbox, outReady, inBuffer, inbox, inReady, unread, forwards,
              fate, replies>>

LinkInit ==
  /\ outbox = <<>> /\ outReady = FALSE
  /\ inBuffer = <<>>
  /\ inbox = <<>> /\ inReady = FALSE
  /\ unread = Nobody /\ forwards = 0
  /\ fate = [n \in Commands |-> "new"] /\ replies = <<>>

-----------------------------------------------------------------------------
\* The newest frames that the outbox holds.
Newest(frames) ==
  IF Len(frames) <= Depth THEN frames
  ELSE SubSeq(frames, Len(frames) - Depth + 1, Len(frames))

Contains(frames, n) == \E i \in 1 .. Len(frames) : frames[i] = n

\* Mutant of Signalled: u8CC430_ESI_OnOutboxWrite sets no signal.
NotSignalled(frames) == FALSE

\* u8CC430_ESI_OnOutboxWrite sets the signal with each frame.
Signalled(frames) == frames # <<>>

\* eCC430_ITF_SendFrame, for one frame or several: the oldest ones in the outbox
\* are given up for them.
SendFrames(frames) ==
  /\ outbox' = Newest(outbox \o frames)
  /\ outReady' = (outReady \/ Signalled(frames))
  /\ fate' = [n \in Commands |->
                IF Contains(outbox \o frames, n)
                THEN IF Contains(outbox', n) THEN "queued" ELSE "evicted"
                ELSE fate[n]]

\* vES_Slave_CommandHandler for a command of the phone.
vES_Slave_CommandHandler ==
  /\ forwards < MaxForwards
  /\ forwards' = forwards + 1
  /\ SendFrames(<<forwards + 1>>)
  /\ UNCHANGED <<inBuffer, inbox, inReady, unread, replies>>

\* vCC430_ITF_IdleTask, its first half: one reply is handed on.
ProcessInbox ==
  /\ IF inReady /\ inbox # <<>>
     THEN /\ inbox' = Tail(inbox)
          /\ IF Head(inbox) = Own
             THEN UNCHANGED <<fate, replies>>
             ELSE /\ fate' = [fate EXCEPT ![Head(inbox)] = "replied"]
                  /\ replies' = Append(replies, Head(inbox))
          /\ UNCHANGED inReady
     ELSE /\ inReady' = FALSE
          /\ UNCHANGED <<inbox, fate, replies>>
  /\ UNCHANGED <<outbox, outReady, inBuffer, unread, forwards>>

\* ESP_CheckForValidFrame: the first magic decides.
Heads(bytes) == {i \in 1 .. Len(bytes) : bytes[i] # Blank}
FirstFrame(bytes) ==
  IF Heads(bytes) = {} THEN Blank
  ELSE bytes[CHOOSE i \in Heads(bytes) : \A j \in Heads(bytes) : i <= j]

\* Mutant of Emptied: a valid frame stays in the buffer.
EmptiedNever(bytes) == bytes

\* The buffer after a valid frame.
Emptied(bytes) == <<>>

\* vCC430_ITF_DataReceived.  What is not a valid frame stays in the buffer,
\* whether it fails the check or is not complete (ESI_Failed is the number of
\* ESP_Receiving).
vCC430_ITF_DataReceived(bytes) ==
  LET received == IF Len(inBuffer) < BufferSize THEN Append(inBuffer, bytes)
                                                ELSE inBuffer
      first == FirstFrame(received)
  IN  IF first \in Frame
      THEN /\ inBuffer' = Emptied(received)
           /\ inbox' = Append(inbox, first)
           /\ inReady' = TRUE
      ELSE inBuffer' = received /\ UNCHANGED <<inbox, inReady>>

\* What the chip gives when it was ready in time, when vIsReadyToRead gave up
\* waiting, and what it then still has.
InTime(n) == [bytes |-> n, left |-> Nobody]
TooEarly(n, bytes) == [bytes |-> bytes, left |-> n]

\* u8CC430_ESI_SendBuffer.  An error of the bus loses the frame.
u8CC430_ESI_SendBuffer(n) ==
  LET sent(what) == fate' = IF n = Own THEN fate ELSE [fate EXCEPT ![n] = what]
  IN  \/ /\ NO_CC430_ON_BOARD = 1
         /\ sent("unanswered")
         /\ UNCHANGED <<inBuffer, inbox, inReady, unread>>
      \/ /\ NO_CC430_ON_BOARD = 0
         /\ sent("unanswered")
         /\ unread' \in {unread, n}
         /\ UNCHANGED <<inBuffer, inbox, inReady>>
      \/ /\ NO_CC430_ON_BOARD = 0
         /\ \E read \in {InTime(n), TooEarly(n, Blank), TooEarly(n, Cut)} \union
                        (IF unread = Nobody THEN {} ELSE {TooEarly(n, unread)}) :
              /\ vCC430_ITF_DataReceived(read.bytes)
              /\ unread' = read.left
              /\ sent(IF Contains(inbox', n) THEN "answered" ELSE "unanswered")

\* vCC430_ITF_IdleTask, its second half: one frame is sent.
ProcessOutbox ==
  /\ IF outReady /\ outbox # <<>>
     THEN /\ outbox' = Tail(outbox)
          /\ u8CC430_ESI_SendBuffer(Head(outbox))
          /\ UNCHANGED outReady
     ELSE /\ outReady' = FALSE
          /\ UNCHANGED <<outbox, inBuffer, inbox, inReady, unread, fate>>
  /\ UNCHANGED <<forwards, replies>>

-----------------------------------------------------------------------------
Fate == {"new", "queued", "evicted", "answered", "replied", "unanswered"}

LinkTypeOK ==
  /\ outbox \in Seq(Frame) /\ Len(outbox) <= Depth
  /\ outReady \in BOOLEAN /\ inReady \in BOOLEAN
  /\ inBuffer \in Seq(Bytes) /\ Len(inBuffer) <= BufferSize
  /\ inbox \in Seq(Frame)
  /\ unread \in Frame \union {Nobody} /\ forwards \in Frame
  /\ fate \in [Commands -> Fate] /\ replies \in Seq(Commands)
=============================================================================
