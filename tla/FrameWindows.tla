---------------------------- MODULE FrameWindows ----------------------------
(***************************************************************************)
(* vBackgroundProcess with ModeManagement.c: the windows in which the      *)
(* device sends frames of its own through the CC430.  A command of the     *)
(* phone configures them; every second the main loop looks which are due,  *)
(* and builds their frames.                                                *)
(*                                                                         *)
(* A pass is one command of the phone or none, one step of each half of    *)
(* the link's idle task, and vModeMngt_FrameProcess, which reads the clock *)
(* once.  The clock is an interrupt.  The code uses its value only to form *)
(* differences, and those are what the model keeps: `elapsed' and `unseen'.*)
(* What a window's frame says does not matter, except whether              *)
(* eFrameBuilder_PayloadGet builds one.                                    *)
(***************************************************************************)
EXTENDS Cc430Link, FiniteSets

CONSTANTS
  Window,                  \* 0 .. FRAME_CFG_NUMBER - 1
  Choice,                  \* what a command may ask of a window
  TimeMod,                 \* 2^16, scaled down
  \* Bounds of the model:
  MaxLag,                  \* seconds a pass lasts
  MaxInputs                \* commands that configure or are for the CC430

Known == {1, 2, 3}         \* the commands of a frame that fits its buffer
BleCmd == 0                \* turns the window off; its frame is 29 bytes and more

ASSUME WindowAssumption ==
  /\ IsFiniteSet(Window)
  /\ TimeMod \in Nat \ {0}
  /\ Choice \subseteq [u8Mode : {0, 1}, u8Cmd : 0 .. 15, u16Time : 0 .. TimeMod - 1]
  /\ MaxLag \in Nat \ {0} /\ MaxLag < TimeMod /\ MaxInputs \in Nat

VARIABLES
  pc,
  g_asCfgFrame,
  elapsed,       \* g_u32RTCCounter - l_u32OldTime, in 16 bits
  unseen,        \* g_u32RTCCounter - l_u32PrevTime
  configs,       \* for the bound
  \* History, read by no action of the code:
  built,         \* the windows whose frames this pass built
  since,         \* the seconds since the last one, TimeMod: long ago
  stale          \* the windows configured while a frame of theirs was due that
                 \* could not be built, until they are due again

windowVars == <<g_asCfgFrame, elapsed, unseen, configs, built, since, stale>>
vars == <<pc, linkVars, windowVars>>

Off == [u8Active |-> 0, u8Mode |-> 0, u8Cmd |-> 0, u16Time |-> 0,
        u8TimeToSend |-> 0]

Init ==
  /\ LinkInit
  /\ pc = "bt"
  /\ g_asCfgFrame = [w \in Window |-> Off]
  /\ elapsed = [w \in Window |-> 0] /\ unseen = 0 /\ configs = 0
  /\ built = {} /\ since = [w \in Window |-> TimeMod] /\ stale = {}

-----------------------------------------------------------------------------
\* Mutant of ConfiguredBy: a window is due when it is configured.
ConfiguredAfresh(cfg, f) ==
  [u8Active |-> IF f.u8Cmd = BleCmd THEN 0 ELSE 1, u8Mode |-> f.u8Mode,
   u8Cmd |-> f.u8Cmd, u16Time |-> f.u16Time, u8TimeToSend |-> 1]

\* u8ModeMngt_BleFrameCfg for one window.
ConfiguredBy(cfg, f) ==
  [u8Active |-> IF f.u8Cmd = BleCmd THEN 0 ELSE 1, u8Mode |-> f.u8Mode,
   u8Cmd |-> f.u8Cmd, u16Time |-> f.u16Time, u8TimeToSend |-> cfg.u8TimeToSend]

\* vBT_ITF_IdleTask with no command, with one that configures windows, and with
\* one for the CC430.
NoCommand ==
  /\ pc = "bt" /\ pc' = "inbox"
  /\ built' = {}
  /\ UNCHANGED <<linkVars, g_asCfgFrame, elapsed, unseen, configs, since, stale>>

u8ModeMngt_BleFrameCfg(asked) ==
  /\ pc = "bt" /\ pc' = "inbox"
  /\ configs + forwards < MaxInputs /\ configs' = configs + 1
  /\ g_asCfgFrame' = [w \in Window |->
                        IF w \in DOMAIN asked
                        THEN ConfiguredBy(g_asCfgFrame[w], asked[w])
                        ELSE g_asCfgFrame[w]]
  /\ stale' = stale \union {w \in DOMAIN asked : g_asCfgFrame[w].u8TimeToSend = 1}
  /\ built' = {}
  /\ UNCHANGED <<linkVars, elapsed, unseen, since>>

Forward ==
  /\ pc = "bt" /\ pc' = "inbox"
  /\ configs + forwards < MaxInputs /\ vES_Slave_CommandHandler
  /\ built' = {}
  /\ UNCHANGED <<g_asCfgFrame, elapsed, unseen, configs, since, stale>>

vCC430_ITF_IdleTask ==
  \/ pc = "inbox" /\ pc' = "outbox" /\ ProcessInbox /\ UNCHANGED windowVars
  \/ pc = "outbox" /\ pc' = "frames" /\ ProcessOutbox /\ UNCHANGED windowVars

\* Mutants of Due: the time has to be exceeded; a second too early.
DueLater(w) ==
  /\ g_asCfgFrame[w].u8Active = 1 /\ g_asCfgFrame[w].u8Mode = 0
  /\ elapsed[w] > g_asCfgFrame[w].u16Time
DueBefore(w) ==
  /\ g_asCfgFrame[w].u8Active = 1 /\ g_asCfgFrame[w].u8Mode = 0
  /\ elapsed[w] + 1 >= g_asCfgFrame[w].u16Time

Due(w) ==
  /\ g_asCfgFrame[w].u8Active = 1 /\ g_asCfgFrame[w].u8Mode = 0
  /\ elapsed[w] >= g_asCfgFrame[w].u16Time

\* eFrameBuilder_PayloadGet succeeds.
Builds(w) == g_asCfgFrame[w].u8Cmd \in {BleCmd} \union Known

\* vModeMngt_FrameProcess: once a second at most.  If a window is due, every
\* window whose u8TimeToSend is set is sent, as far as a frame can be built.
FrameProcess ==
  LET due == IF unseen = 0 THEN {} ELSE {w \in Window : Due(w)}
      toSend == due \union {w \in Window : g_asCfgFrame[w].u8TimeToSend = 1}
      ready == IF due = {} THEN {} ELSE {w \in toSend : Builds(w)}
  IN  /\ pc = "frames" /\ pc' = "bt"
      /\ unseen' = 0
      /\ elapsed' = [w \in Window |-> IF w \in due THEN 0 ELSE elapsed[w]]
      /\ g_asCfgFrame' =
           [w \in Window |-> [g_asCfgFrame[w] EXCEPT !.u8TimeToSend =
              IF w \in ready THEN 0 ELSE IF w \in due THEN 1 ELSE @]]
      /\ SendFrames([i \in 1 .. Cardinality(ready) |-> Own])
      /\ built' = ready
      /\ since' = [w \in Window |-> IF w \in ready THEN 0 ELSE since[w]]
      /\ stale' = stale \ (due \intersect ready)
      /\ UNCHANGED <<inBuffer, inbox, inReady, unread, forwards, replies, configs>>

\* RTC2_IRQHandler, once a second.
RTC2_IRQHandler ==
  /\ unseen < MaxLag
  /\ unseen' = unseen + 1
  /\ elapsed' = [w \in Window |->
                   IF elapsed[w] + 1 = TimeMod THEN 0 ELSE elapsed[w] + 1]
  /\ since' = [w \in Window |->
                 IF since[w] = TimeMod THEN TimeMod ELSE since[w] + 1]
  /\ UNCHANGED <<pc, linkVars, g_asCfgFrame, configs, built, stale>>

-----------------------------------------------------------------------------
MainLoop == NoCommand \/ Forward \/ vCC430_ITF_IdleTask \/ FrameProcess

Configure ==
  \E win \in SUBSET Window \ {{}} : \E asked \in [win -> Choice] :
    u8ModeMngt_BleFrameCfg(asked)

Next == MainLoop \/ Configure \/ RTC2_IRQHandler

Spec == Init /\ [][Next]_vars

\* The main loop goes round and the clock goes on.
FairSpec == Spec /\ WF_vars(MainLoop) /\ WF_vars(RTC2_IRQHandler)

-----------------------------------------------------------------------------
TypeOK ==
  /\ LinkTypeOK
  /\ pc \in {"bt", "inbox", "outbox", "frames"}
  /\ g_asCfgFrame \in [Window -> [u8Active : {0, 1}, u8Mode : {0, 1},
                                 u8Cmd : 0 .. 15, u16Time : 0 .. TimeMod - 1,
                                 u8TimeToSend : {0, 1}]]
  /\ elapsed \in [Window -> 0 .. TimeMod - 1]
  /\ unseen \in Nat /\ configs \in Nat
  /\ built \subseteq Window /\ stale \subseteq Window
  /\ since \in [Window -> 0 .. TimeMod]

\* The flag is set while its queue holds something; a pass leaves one reply at
\* most.
LinkOk ==
  /\ outbox # <<>> => outReady
  /\ inbox # <<>> => inReady
  /\ Len(inbox) <= 1 /\ (pc = "outbox" => inbox = <<>>)

\* What is still due is what could not be built.
DueOk ==
  \A w \in Window :
    /\ g_asCfgFrame[w].u8Active = 1 <=> g_asCfgFrame[w].u8Cmd # BleCmd
    /\ g_asCfgFrame[w].u8TimeToSend = 1 => w \in stale \/ ~Builds(w)

\* l_u32OldTime is not before the last frame.
SinceOk == \A w \in Window \ stale : elapsed[w] <= since[w]

FrameInv == TypeOK /\ LinkOk /\ DueOk /\ SinceOk

\* A frame is built only of an active window of the timer mode, with a payload
\* that fits the buffer.  "stale": u8TimeToSend outlives the configuration it was set for.
OnlyActiveBuilt ==
  \A w \in built \ stale :
    /\ g_asCfgFrame[w].u8Active = 1 /\ g_asCfgFrame[w].u8Mode = 0
    /\ g_asCfgFrame[w].u8Cmd \in Known

\* What the CC430 replies reaches the phone once and in the order of the
\* commands, however late it is read.
RepliesInOrder ==
  \A i, j \in 1 .. Len(replies) : i < j => replies[i] < replies[j]

\* The frames of a window are u16Time seconds apart or more.
FramesPaced ==
  [][\A w \in built' \ stale :
       pc = "frames" => since[w] >= g_asCfgFrame[w].u16Time]_vars

\* A command for the CC430 does not wait for ever.
EveryForwardSettled ==
  \A n \in Commands :
    fate[n] \in {"queued", "answered"} ~> fate[n] \in {"evicted", "replied", "unanswered"}

\* The clock is compared in 16 bits: a window is served as long as passes do not
\* skip over the end of its time.
Serves(f) == f.u8Mode = 0 /\ f.u8Cmd \in Known /\ f.u16Time <= TimeMod - MaxLag
Asks(w, f) ==
  /\ g_asCfgFrame[w].u8Mode = f.u8Mode /\ g_asCfgFrame[w].u8Cmd = f.u8Cmd
  /\ g_asCfgFrame[w].u16Time = f.u16Time

WindowServed ==
  \A w \in Window : \A f \in {g \in Choice : Serves(g)} :
    Asks(w, f) ~> w \in built \/ ~Asks(w, f)
=============================================================================
