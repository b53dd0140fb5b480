------------------------- MODULE MainStateMachine --------------------------
(***************************************************************************)
(* StateMachines/: the states of the device, switched by the main loop on  *)
(* what it finds of the BLE events and of the advertising when its timer   *)
(* lets it look.  BLE_Application.c and the SDK's ble_advertising.c keep   *)
(* that record in interrupt context.                                       *)
(*                                                                         *)
(* A step of the main loop is a piece of code between two accesses to what *)
(* an interrupt may change.  An interrupt handler is one step.             *)
(*                                                                         *)
(* A timer period is 0 (NO_TIMER), 1 or Refused: one of which              *)
(* APP_TIMER_TICKS, in 32 bits, leaves less than the timer's minimum, so   *)
(* that eHal_Timer_Start, whose result is ignored, starts nothing.         *)
(*                                                                         *)
(* A write to the flash ends before Memory.c gives up waiting for it.  The *)
(* Peer Manager writes too, from a link on until the device sleeps.        *)
(* Sensors, sensor frames and the CC430 are not modelled; BtInterface is   *)
(* the command link.                                                       *)
(*                                                                         *)
(* Msm in a name keeps it apart from that of FrameWindows, the other job   *)
(* of the main loop: MainLoop_proofs extends both.                         *)
(***************************************************************************)
EXTENDS Naturals

CONSTANTS
  SlowEnds,      \* SLOW_ADV_TIMEOUT_BLE # 0: slow advertising ends
  WakeEnds,      \* WAKE_ADV_TIMEOUT_BLE # 0: so does deep sleep
  NfcWakes,      \* EN_NFC or EN_RFID: a field wakes the device
  \* Bounds of the model:
  MaxLinks, MaxCommands,
  MaxFailures    \* of eStorage_Init

ASSUME MainStateMachineAssumption ==
  /\ {SlowEnds, WakeEnds, NfcWakes} \subseteq BOOLEAN
  /\ MaxLinks \in Nat /\ MaxCommands \in Nat /\ MaxFailures \in Nat

State == {"POWER_UP", "INIT", "OPERATIONAL", "CONNECTED", "DEEP_SLEEP",
          "ERROR"}
AdvMode == {"idle", "fast", "slow"}
Refused == 2

VARIABLES
  at,                     \* where the main loop is in vMSM_Process
  g_eMainState, target,   \* target: p_eState of vMSM_StateMachineSet
  g_u8CyclicProcess,
  connectedTimer,         \* g_sStateMachines[MSM_CONNECTED].u32CallbackTimer
  timerRunning,           \* MSM_ProcessTimerIdx
  wakeRunning,            \* g_DeepSleepWakeUpTimerIdx
  g_u8TimeoutWakeUp,
  storageError,           \* InitSM's g_u8Error
  cfgSet,                 \* FrameBuilder: a command to stream is set
  g_LastBleEvent, g_eAdvState,
  \* ble_advertising.c and the SoftDevice:
  advertising,            \* the mode of the SoftDevice, "idle": off
  pending,                \* the start that waits for the flash, "none": none
  peerWrite,              \* the Peer Manager writes to the flash
  link,
  commands,               \* in the inbox of BtInterface
  links, sent, failures,  \* for the bounds
  \* History, read by no action of the code:
  cfgLink,                \* the link whose command was set
  hit                     \* mishaps since the last reset

timers == <<connectedTimer, timerRunning, wakeRunning>>
ble == <<g_LastBleEvent, g_eAdvState, advertising, pending, peerWrite>>
air == <<link, commands>>
bounds == <<links, sent, failures>>
msmVars == <<at, g_eMainState, target, g_u8CyclicProcess, timers,
             g_u8TimeoutWakeUp, storageError, cfgSet, ble, air, bounds, cfgLink,
             hit>>

-----------------------------------------------------------------------------
\* Operators whose comment begins with "Mutant" are wrong on purpose: with
\* one of them in place of the definition that follows, a property is violated.

\* The table g_sStateMachines.
CallbackTimer(state) ==
  CASE state \in {"POWER_UP", "INIT", "OPERATIONAL"} -> 1
    [] state = "CONNECTED" -> connectedTimer
    [] OTHER -> 0

\* nrf_fstorage_is_busy: somebody writes to the flash, the main loop, which
\* waits for it, or the Peer Manager.
Busy == at = "flash" \/ peerWrite

\* Mutant of AdvertisingStart: nothing is remembered during a write to the flash.
AdvertisingStartRefused(mode) ==
  IF Busy
  THEN advertising' = "idle" /\ UNCHANGED <<pending, g_eAdvState>>
  ELSE advertising' = mode /\ g_eAdvState' = mode /\ UNCHANGED pending

\* ble_advertising_start and the event it gives vOnAdvEvt.  During a write to
\* the flash it only remembers the mode.
AdvertisingStart(mode) ==
  IF Busy
  THEN pending' = mode /\ advertising' = "idle" /\ UNCHANGED g_eAdvState
  ELSE advertising' = mode /\ g_eAdvState' = mode /\ UNCHANGED pending

\* Mutant of IsItTimeToSleep: it asks the SoftDevice.
IsItQuiet == advertising = "idle"

\* u8ModeMngt_IsItTimeToSleep, in OPERATIONAL.
IsItTimeToSleep == g_eAdvState = "idle"

MsmInit ==
  /\ at = "process" /\ g_eMainState = "POWER_UP" /\ target = "POWER_UP"
  /\ g_u8CyclicProcess = 1 /\ connectedTimer = 1
  /\ timerRunning = TRUE /\ wakeRunning = FALSE /\ g_u8TimeoutWakeUp = 0
  /\ storageError = FALSE /\ cfgSet = FALSE
  /\ g_LastBleEvent = "init" /\ g_eAdvState = "idle"
  /\ advertising = "idle" /\ pending = "none" /\ peerWrite = FALSE
  /\ link = FALSE /\ commands = 0
  /\ cfgLink = 0 /\ hit = {}
  /\ links = 0 /\ sent = 0 /\ failures = 0

(***************************************************************************)
(* The main loop.                                                          *)
(***************************************************************************)
\* vMSM_Process: the process of the state, if it is due.  Those of OPERATIONAL,
\* CONNECTED and DEEP_SLEEP clear the flag themselves.
vMSM_Process ==
  /\ at = "process"
  /\ IF g_u8CyclicProcess = 1
     THEN /\ at' = "check"
          /\ g_u8CyclicProcess' =
               IF g_eMainState \in {"OPERATIONAL", "CONNECTED", "DEEP_SLEEP"}
               THEN 0 ELSE 1
     ELSE at' = "background" /\ UNCHANGED g_u8CyclicProcess
  /\ UNCHANGED <<g_eMainState, target, timers, g_u8TimeoutWakeUp, storageError,
                 cfgSet, ble, air, bounds, cfgLink, hit>>

\* vMSM_StateMachineSet begins.
Goto(state) == at' = "leave" /\ target' = state
Stay == at' = "rearm" /\ UNCHANGED target

vPowerUp_Check ==
  /\ g_eMainState = "POWER_UP"
  /\ Goto("INIT")
  /\ UNCHANGED ble

vInit_Check ==
  /\ g_eMainState = "INIT"
  /\ Goto(IF storageError THEN "ERROR" ELSE "OPERATIONAL")
  /\ UNCHANGED ble

\* The BLE event first; the state of the advertising is read after it.
vOperational_Check ==
  /\ g_eMainState = "OPERATIONAL"
  /\ IF g_LastBleEvent = "connected" THEN Goto("CONNECTED")
     ELSE at' = "checkAdv" /\ UNCHANGED target
  /\ UNCHANGED ble

\* Mutant of vConnected_Check: the disconnection is not looked for.
vConnected_CheckNever ==
  /\ g_eMainState = "CONNECTED"
  /\ Stay
  /\ UNCHANGED ble

vConnected_Check ==
  /\ g_eMainState = "CONNECTED"
  /\ IF g_LastBleEvent = "disconnected" THEN Goto("OPERATIONAL") ELSE Stay
  /\ UNCHANGED ble

vDeepSleep_Check ==
  /\ g_eMainState = "DEEP_SLEEP"
  /\ \/ g_u8TimeoutWakeUp = 1 /\ Goto("OPERATIONAL") /\ UNCHANGED ble
     \/ /\ g_u8TimeoutWakeUp = 0 /\ NfcWakes
        /\ AdvertisingStart("fast")
        /\ Goto("OPERATIONAL")
        /\ UNCHANGED <<g_LastBleEvent, peerWrite>>
     \/ g_u8TimeoutWakeUp = 0 /\ Stay /\ UNCHANGED ble

Check ==
  /\ at = "check"
  /\ \/ vPowerUp_Check \/ vInit_Check \/ vOperational_Check
     \/ vConnected_Check \/ vDeepSleep_Check
  /\ UNCHANGED <<g_eMainState, g_u8CyclicProcess, timers, g_u8TimeoutWakeUp,
                 storageError, cfgSet, air, bounds, cfgLink, hit>>

\* NVIC_SystemReset.
vError_Check ==
  /\ at = "check" /\ g_eMainState = "ERROR"
  /\ at' = "process" /\ g_eMainState' = "POWER_UP" /\ target' = "POWER_UP"
  /\ g_u8CyclicProcess' = 1 /\ connectedTimer' = 1
  /\ timerRunning' = TRUE /\ wakeRunning' = FALSE /\ g_u8TimeoutWakeUp' = 0
  /\ storageError' = FALSE /\ cfgSet' = FALSE
  /\ g_LastBleEvent' = "init" /\ g_eAdvState' = "idle"
  /\ advertising' = "idle" /\ pending' = "none" /\ peerWrite' = FALSE
  /\ link' = FALSE /\ commands' = 0
  /\ cfgLink' = 0 /\ hit' = {}
  /\ UNCHANGED bounds

\* The second half of vOperational_Check.
CheckAdvertising ==
  /\ at = "checkAdv"
  /\ IF IsItTimeToSleep THEN Goto("DEEP_SLEEP") ELSE Stay
  /\ UNCHANGED <<g_eMainState, g_u8CyclicProcess, timers, g_u8TimeoutWakeUp,
                 storageError, cfgSet, ble, air, bounds, cfgLink, hit>>

\* vConnected_Exit.  Its mutant: the stream goes on.
StreamGoesOn == UNCHANGED cfgSet

vConnected_Exit == cfgSet' = (cfgSet /\ g_eMainState # "CONNECTED")

\* The exit point of the old state ...
Leave ==
  /\ at = "leave"
  /\ timerRunning' = (IF CallbackTimer(g_eMainState) # 0 THEN FALSE
                      ELSE timerRunning)
  /\ IF g_eMainState = "INIT"
     THEN AdvertisingStart("fast")
     ELSE UNCHANGED <<g_eAdvState, advertising, pending>>
  /\ vConnected_Exit
  /\ IF g_eMainState = "DEEP_SLEEP"
     THEN wakeRunning' = FALSE /\ g_u8TimeoutWakeUp' = 0
     ELSE UNCHANGED <<wakeRunning, g_u8TimeoutWakeUp>>
  /\ g_eMainState' = target
  /\ at' = "enter"
  /\ hit' = hit \ {"zero"}
  /\ UNCHANGED <<target, g_u8CyclicProcess, connectedTimer, storageError,
                 g_LastBleEvent, peerWrite, air, bounds, cfgLink>>

\* ... and the entry point of the new one: for INIT the flash storage, for
\* DEEP_SLEEP the end of the advertising, if any.
vInit_Entry ==
  /\ g_eMainState = "INIT"
  /\ \/ storageError' = FALSE /\ UNCHANGED failures
     \/ /\ failures < MaxFailures
        /\ storageError' = TRUE /\ failures' = failures + 1
  /\ UNCHANGED <<wakeRunning, advertising>>

vDeepSleep_Entry ==
  /\ g_eMainState = "DEEP_SLEEP"
  /\ advertising' = IF g_eAdvState # "idle" THEN "idle" ELSE advertising
  /\ wakeRunning' = WakeEnds
  /\ UNCHANGED <<storageError, failures>>

OtherEntry ==
  /\ g_eMainState \notin {"INIT", "DEEP_SLEEP"}
  /\ UNCHANGED <<wakeRunning, advertising, storageError, failures>>

Enter ==
  /\ at = "enter"
  /\ vInit_Entry \/ vDeepSleep_Entry \/ OtherEntry
  /\ timerRunning' = (timerRunning \/ CallbackTimer(g_eMainState) = 1)
  /\ at' = "rearm"
  /\ UNCHANGED <<g_eMainState, target, g_u8CyclicProcess, connectedTimer,
                 g_u8TimeoutWakeUp, cfgSet, g_LastBleEvent, g_eAdvState,
                 pending, peerWrite, air, links, sent, cfgLink, hit>>

\* Mutant of Rearm: a state without a timer is not made due.
RearmNever ==
  /\ at = "rearm"
  /\ g_u8CyclicProcess' = 0
  /\ at' = "background"
  /\ UNCHANGED <<g_eMainState, target, timers, g_u8TimeoutWakeUp, storageError,
                 cfgSet, ble, air, bounds, cfgLink, hit>>

\* The end of vMSM_Process: a state without a timer is due at once.
Rearm ==
  /\ at = "rearm"
  /\ g_u8CyclicProcess' = (IF CallbackTimer(g_eMainState) = 0 THEN 1 ELSE 0)
  /\ at' = "background"
  /\ UNCHANGED <<g_eMainState, target, timers, g_u8TimeoutWakeUp, storageError,
                 cfgSet, ble, air, bounds, cfgLink, hit>>

\* vStateMachine_ChangeTime.
ChangeTime(time) ==
  /\ connectedTimer' = time
  /\ timerRunning' = (IF g_eMainState = "CONNECTED" THEN time = 1
                      ELSE timerRunning)

\* vBackgroundProcess: vBT_ITF_IdleTask has a command handled, one that starts
\* a stream ...
Subscribe(time) ==
  /\ at = "background" /\ commands > 0
  /\ commands' = commands - 1
  /\ ChangeTime(time)
  /\ cfgSet' = TRUE /\ cfgLink' = links
  /\ at' = "process"
  /\ hit' = (hit \ {"zero"}) \union
       {w \in {"zero", "late"} :
          \/ w = "zero" /\ g_eMainState = "CONNECTED" /\ time = 0
          \/ w = "late" /\ ~ link}
  /\ UNCHANGED <<g_eMainState, target, g_u8CyclicProcess, wakeRunning,
                 g_u8TimeoutWakeUp, storageError, ble, link, bounds>>

\* ... or one that writes to the flash.
WriteFlash ==
  /\ at = "background" /\ commands > 0
  /\ commands' = commands - 1
  /\ at' = "flash"
  /\ UNCHANGED <<g_eMainState, target, g_u8CyclicProcess, timers,
                 g_u8TimeoutWakeUp, storageError, cfgSet, ble, link, bounds,
                 cfgLink, hit>>

\* ble_advertising_on_sys_evt at the end of a write: the start that waits is
\* made, or waits for the end of the other write.
PendingStart(busy) ==
  IF pending = "none" \/ busy
  THEN UNCHANGED <<advertising, g_eAdvState, pending>>
  ELSE advertising' = pending /\ g_eAdvState' = pending /\ pending' = "none"

FlashDone ==
  /\ at = "flash"
  /\ at' = "process"
  /\ PendingStart(peerWrite)
  /\ UNCHANGED <<g_eMainState, target, g_u8CyclicProcess, timers,
                 g_u8TimeoutWakeUp, storageError, cfgSet, g_LastBleEvent,
                 peerWrite, air, bounds, cfgLink, hit>>

NothingToHandle ==
  /\ at = "background" /\ commands = 0
  /\ at' = "process"
  /\ UNCHANGED <<g_eMainState, target, g_u8CyclicProcess, timers,
                 g_u8TimeoutWakeUp, storageError, cfgSet, ble, air, bounds,
                 cfgLink, hit>>

Main == \/ vMSM_Process \/ Check \/ vError_Check \/ CheckAdvertising \/ Leave
        \/ Enter \/ Rearm
        \/ (\E time \in {0, 1, Refused} : Subscribe(time))
        \/ WriteFlash \/ FlashDone \/ NothingToHandle

(***************************************************************************)
(* Interrupts.                                                             *)
(***************************************************************************)
thread == <<at, g_eMainState, target, connectedTimer, timerRunning,
            storageError, cfgSet, cfgLink>>

\* vCallbackProcess.
Tick ==
  /\ timerRunning
  /\ g_u8CyclicProcess' = 1
  /\ UNCHANGED <<thread, wakeRunning, g_u8TimeoutWakeUp, ble, air,
                 bounds, hit>>

\* vCallBackWakeUpMode, once.
WakeUpTimeout ==
  /\ wakeRunning
  /\ wakeRunning' = FALSE /\ g_u8TimeoutWakeUp' = 1
  /\ UNCHANGED <<thread, g_u8CyclicProcess, ble, air, bounds, hit>>

interruptFree == <<thread, g_u8CyclicProcess, wakeRunning, g_u8TimeoutWakeUp>>

\* The phone connects, which ends the advertising; no advertising event says so.
Connect ==
  /\ advertising # "idle" /\ links < MaxLinks
  /\ link' = TRUE /\ links' = links + 1
  /\ advertising' = "idle"
  /\ g_LastBleEvent' = "connected"
  /\ hit' = hit \union {w \in {"unseen", "late"} :
                         \/ w = "unseen" /\ g_eMainState = "CONNECTED"
                         \/ w = "late" /\ commands > 0}
  /\ UNCHANGED <<interruptFree, g_eAdvState, pending, peerWrite, commands, sent,
                 failures>>

\* The link is lost: on_disconnected starts the fast advertising again.
Disconnect ==
  /\ link
  /\ link' = FALSE
  /\ g_LastBleEvent' = "disconnected"
  /\ AdvertisingStart("fast")
  /\ hit' = IF g_eMainState = "CONNECTED" THEN hit ELSE hit \union {"unseen"}
  /\ UNCHANGED <<interruptFree, peerWrite, commands, bounds>>

\* on_timeout: fast, then slow, then no advertising.
AdvertisingTimeout ==
  /\ \/ advertising = "fast" /\ AdvertisingStart("slow")
     \/ advertising = "slow" /\ SlowEnds /\ AdvertisingStart("idle")
  /\ UNCHANGED <<interruptFree, g_LastBleEvent, peerWrite, air, bounds, hit>>

\* The Peer Manager writes what it keeps of a bond, after a disconnection even.
PeerWrite ==
  /\ ~ peerWrite
  /\ link \/ advertising # "idle" \/ pending # "none"
  /\ peerWrite' = TRUE
  /\ UNCHANGED <<interruptFree, g_LastBleEvent, g_eAdvState, advertising, pending,
                 air, bounds, hit>>

PeerWriteEnds ==
  /\ peerWrite
  /\ peerWrite' = FALSE
  /\ PendingStart(at = "flash")
  /\ UNCHANGED <<interruptFree, g_LastBleEvent, air, bounds, hit>>

\* The phone sends a command.
SendCommand ==
  /\ link /\ sent < MaxCommands
  /\ commands' = commands + 1 /\ sent' = sent + 1
  /\ UNCHANGED <<interruptFree, ble, link, links, failures, hit>>

MsmNext == \/ Main
           \/ Tick \/ WakeUpTimeout
           \/ Connect \/ Disconnect \/ AdvertisingTimeout
           \/ PeerWrite \/ PeerWriteEnds
           \/ SendCommand

MsmSpec == MsmInit /\ [][MsmNext]_msmVars

\* The main loop goes round at every interrupt, and the radio notifications see
\* to it as long as there is a link or advertising.  Timers expire, writes to
\* the flash end.
MsmFairSpec ==
  /\ MsmSpec
  /\ WF_msmVars(Main) /\ WF_msmVars(Tick) /\ WF_msmVars(WakeUpTimeout)
  /\ WF_msmVars(AdvertisingTimeout) /\ WF_msmVars(PeerWriteEnds)

-----------------------------------------------------------------------------
(***************************************************************************)
(* Properties.                                                             *)
(***************************************************************************)
MsmTypeOK ==
  /\ at \in {"process", "check", "checkAdv", "leave", "enter", "rearm",
             "background", "flash"}
  /\ g_eMainState \in State /\ target \in State
  /\ g_u8CyclicProcess \in {0, 1} /\ connectedTimer \in {0, 1, Refused}
  /\ g_u8TimeoutWakeUp \in {0, 1}
  /\ {timerRunning, wakeRunning, storageError, cfgSet, link,
      peerWrite} \subseteq BOOLEAN
  /\ g_LastBleEvent \in {"init", "connected", "disconnected"}
  /\ {g_eAdvState, advertising} \subseteq AdvMode
  /\ pending \in AdvMode \union {"none"}
  /\ commands \in 0 .. MaxCommands /\ sent \in 0 .. MaxCommands
  /\ links \in 0 .. MaxLinks /\ cfgLink \in 0 .. MaxLinks
  /\ failures \in 0 .. MaxFailures
  /\ hit \subseteq {"zero", "late", "unseen"}

\* Until it is left, deep sleep is silent: no link and no advertising, none
\* waiting for the flash either, although the decision to sleep rests on
\* g_eAdvState, which no connection and no stop of the advertising updates, and
\* is taken after the BLE event was read.
AsleepIsSilent ==
  g_eMainState = "DEEP_SLEEP" /\ at # "leave" =>
    ~ link /\ advertising = "idle" /\ pending = "none"

\* A command has taken its timer from the state CONNECTED.
Stalled ==
  \/ "zero" \in hit
  \/ g_eMainState = "CONNECTED" /\ connectedTimer = Refused

\* Between two passes of vMSM_Process the state machine is due or its timer
\* runs, whatever tick the end of the pass has wiped out and whatever period a
\* command has set, other than 0 or a refused one for CONNECTED itself.
ProcessRunsAgain ==
  at \in {"process", "background"} /\ ~ Stalled =>
    g_u8CyclicProcess = 1 \/ timerRunning

\* What is streamed in CONNECTED was asked for on this link, unless the state
\* machine missed a link that came and went or a command outlived its link.
SubscriptionOfThisLink ==
  g_eMainState = "CONNECTED" /\ link /\ cfgSet
    /\ hit \intersect {"late", "unseen"} = {} =>
    cfgLink = links

\* A device that keeps its link ends in CONNECTED and one that stays without it
\* does not, whichever order the events and the checks come in, unless its
\* period has stopped the state machine.
FollowsLink ==
  /\ <>[]link => <>[](g_eMainState = "CONNECTED" \/ Stalled)
  /\ <>[]~ link => <>[](g_eMainState # "CONNECTED" \/ Stalled)

\* A device without a link advertises again and again or sleeps, even if the
\* link was lost or the advertising timed out during writes to the flash,
\* unless its period has stopped the state machine.
Reachable ==
  <>[]~ link => []<>(\/ advertising # "idle" \/ g_eMainState = "DEEP_SLEEP"
                     \/ Stalled)

-----------------------------------------------------------------------------
\* "Re execute process directly (should generate event) for WFE__" is what
\* MainStateMachine.c says of a state without a timer.  CMD_SENSOR_CYC_DATA_SUB
\* with the refresh time 0 stops the timer of CONNECTED and nothing makes the
\* state due again.
NoTimerRuns ==
  at = "process" /\ CallbackTimer(g_eMainState) = 0 => g_u8CyclicProcess = 1

=============================================================================
