-------------------------- MODULE MainLoop_proofs --------------------------
(***************************************************************************)
(* The two jobs of the main loop, each by itself: first the state machine  *)
(* of the device, then the windows of the frames and the link to the       *)
(* CC430.                                                                  *)
(***************************************************************************)
EXTENDS MainStateMachine, FrameWindows, FiniteSetTheorems, SequenceTheorems,
        WellFoundedInduction, TLAPS

-----------------------------------------------------------------------------
(***************************************************************************)
(* The state machine of the device runs on, sleeps only in silence and     *)
(* streams only what this link asked for, for any number of links and      *)
(* commands and every choice of the timeouts.                              *)
(*                                                                         *)
(* The invariants rest on three groups of facts.  TimerInv: outside of a   *)
(* change of state the timer of the state runs if it has one, and a state  *)
(* without one is due.  RadioInv: what g_eAdvState says of the radio is    *)
(* old at times, but "idle" is never wrong.  StreamInv: the command to     *)
(* stream outlives its link in the state CONNECTED only.                   *)
(***************************************************************************)
ControlOK ==
  /\ at \in {"process", "check", "checkAdv", "leave", "enter", "rearm",
             "background", "flash"}
  /\ g_eMainState \in State /\ target \in State
  /\ g_u8CyclicProcess \in {0, 1} /\ connectedTimer \in {0, 1, Refused}
  /\ g_u8TimeoutWakeUp \in {0, 1}

FlagsOK ==
  /\ timerRunning \in BOOLEAN /\ wakeRunning \in BOOLEAN
  /\ storageError \in BOOLEAN /\ cfgSet \in BOOLEAN /\ link \in BOOLEAN
  /\ peerWrite \in BOOLEAN

BleOK ==
  /\ g_LastBleEvent \in {"init", "connected", "disconnected"}
  /\ g_eAdvState \in AdvMode /\ advertising \in AdvMode
  /\ pending \in AdvMode \union {"none"}

NumbersOK ==
  /\ commands \in Nat /\ sent \in Nat /\ sent <= MaxCommands
  /\ links \in Nat /\ links <= MaxLinks
  /\ cfgLink \in Nat /\ cfgLink <= MaxLinks
  /\ failures \in Nat /\ failures <= MaxFailures

HitOK == hit \subseteq {"zero", "late", "unseen"}

Types == ControlOK /\ FlagsOK /\ BleOK /\ NumbersOK /\ HitOK

Counts == commands <= sent

TimerInv ==
  /\ "zero" \in hit => g_eMainState = "CONNECTED"
  /\ at # "enter" /\ "zero" \notin hit /\ CallbackTimer(g_eMainState) = 1
       => timerRunning
  /\ at \in {"process", "background", "flash"} /\ "zero" \notin hit
     /\ CallbackTimer(g_eMainState) = 0 => g_u8CyclicProcess = 1

RadioInv ==
  /\ advertising # "idle" =>
       g_eAdvState = advertising /\ ~link /\ pending = "none"
  /\ link => g_eAdvState # "idle" /\ pending = "none"
  /\ pending # "none" => Busy /\ g_eAdvState # "idle"
  /\ peerWrite => g_eAdvState # "idle"
  /\ at = "checkAdv" => g_eMainState = "OPERATIONAL"
  /\ g_eMainState \in {"POWER_UP", "INIT"} =>
       /\ advertising = "idle" /\ ~link /\ pending = "none"
       /\ g_eAdvState = "idle"
  /\ at = "leave" => target # "POWER_UP"
  /\ at = "leave" /\ target = "INIT" => g_eMainState = "POWER_UP"
  /\ at = "leave" /\ target = "DEEP_SLEEP" =>
       g_eMainState = "OPERATIONAL" /\ g_eAdvState = "idle"
  /\ g_eMainState = "DEEP_SLEEP" /\ at # "leave" => g_eAdvState = "idle"

Clean == hit \intersect {"late", "unseen"} = {}
StreamInv ==
  Clean /\ cfgSet => cfgLink = links /\ (link \/ g_eMainState = "CONNECTED")

MsmInv == Types /\ Counts /\ TimerInv /\ RadioInv /\ StreamInv

\* The bounds are numbers.
LEMMA BoundsAreNumbers ==
  MaxLinks \in Nat /\ MaxCommands \in Nat /\ MaxFailures \in Nat
BY MainStateMachineAssumption

\* The waking by a timeout is a choice.
LEMMA WakeEndsIsBoolean == WakeEnds \in BOOLEAN
BY MainStateMachineAssumption

\* The process of the state, or the end of the pass.
LEMMA vMSM_ProcessKeeps ==
  ASSUME MsmInv, vMSM_Process
  PROVE  MsmInv'
<1>0. Types /\ Counts /\ TimerInv /\ RadioInv /\ StreamInv
  BY DEF MsmInv
<1>1. Types'
  <2>1. ControlOK'
    BY <1>0 DEF Types, ControlOK, vMSM_Process, timers
  <2>2. FlagsOK'
    BY <1>0 DEF Types, FlagsOK, vMSM_Process, timers, ble, air
  <2>3. BleOK'
    BY <1>0 DEF Types, BleOK, vMSM_Process, ble
  <2>4. NumbersOK'
    BY <1>0 DEF Types, NumbersOK, vMSM_Process, air, bounds
  <2>5. HitOK'
    BY <1>0 DEF Types, HitOK, vMSM_Process
  <2>6. QED BY <2>1, <2>2, <2>3, <2>4, <2>5 DEF Types
<1>2. Counts'
  BY <1>0 DEF Counts, vMSM_Process, air, bounds
<1>3. TimerInv'
  BY <1>0 DEF TimerInv, CallbackTimer, vMSM_Process, timers
<1>4. RadioInv'
  BY <1>0 DEF RadioInv, Busy, vMSM_Process, ble, air
<1>5. StreamInv'
  BY <1>0 DEF StreamInv, Clean, vMSM_Process, air, bounds
<1>6. QED BY <1>1, <1>2, <1>3, <1>4, <1>5 DEF MsmInv

\* The checks of the states that go on, ...
LEMMA CheckKeeps ==
  ASSUME MsmInv, Check
  PROVE  MsmInv'
<1>0. Types /\ Counts /\ TimerInv /\ RadioInv /\ StreamInv
  BY DEF MsmInv
<1>1. Types'
  <2>1. ControlOK'
    BY <1>0 DEF Types, ControlOK, State, Check, vPowerUp_Check, vInit_Check,
       vOperational_Check, vConnected_Check, vDeepSleep_Check, Goto, Stay,
       timers
  <2>2. FlagsOK'
    BY <1>0 DEF Types, FlagsOK, ble, Check, vPowerUp_Check, vInit_Check,
       vOperational_Check, vConnected_Check, vDeepSleep_Check, timers, air
  <2>3. BleOK'
    BY <1>0 DEF Types, BleOK, AdvMode, Check, vPowerUp_Check, vInit_Check,
       vOperational_Check, vConnected_Check, vDeepSleep_Check,
       AdvertisingStart, Busy, ble
  <2>4. NumbersOK'
    BY <1>0 DEF Types, NumbersOK, Check, vPowerUp_Check, vInit_Check,
       vOperational_Check, vConnected_Check, vDeepSleep_Check, air, bounds
  <2>5. HitOK'
    BY <1>0 DEF Types, HitOK, Check, vPowerUp_Check, vInit_Check,
       vOperational_Check, vConnected_Check, vDeepSleep_Check
  <2>6. QED BY <2>1, <2>2, <2>3, <2>4, <2>5 DEF Types
<1>2. Counts'
  BY <1>0 DEF Counts, Check, vPowerUp_Check, vInit_Check,
     vOperational_Check, vConnected_Check, vDeepSleep_Check, air, bounds
<1>3. TimerInv'
  BY <1>0 DEF TimerInv, CallbackTimer, Check, vPowerUp_Check, vInit_Check,
     vOperational_Check, vConnected_Check, vDeepSleep_Check, Goto, Stay, timers
<1>4. RadioInv'
  BY <1>0 DEF RadioInv, Busy, Check, vPowerUp_Check, vInit_Check,
     vOperational_Check, vConnected_Check, vDeepSleep_Check, Goto, Stay,
     AdvertisingStart, ble, air
<1>5. StreamInv'
  BY <1>0 DEF StreamInv, Clean, Check, vPowerUp_Check, vInit_Check,
     vOperational_Check, vConnected_Check, vDeepSleep_Check, air, bounds
<1>6. QED BY <1>1, <1>2, <1>3, <1>4, <1>5 DEF MsmInv

\* ... and of the one that resets the device.
LEMMA vError_CheckKeeps ==
  ASSUME MsmInv, vError_Check
  PROVE  MsmInv'
<1>0. Types /\ Counts /\ TimerInv /\ RadioInv /\ StreamInv
  BY DEF MsmInv
<1>1. Types'
  <2>1. ControlOK'
    BY <1>0 DEF ControlOK, State, vError_Check
  <2>2. FlagsOK'
    BY <1>0 DEF FlagsOK, vError_Check
  <2>3. BleOK'
    BY <1>0 DEF BleOK, AdvMode, vError_Check
  <2>4. NumbersOK'
    BY <1>0, BoundsAreNumbers DEF Types, NumbersOK, vError_Check, bounds
  <2>5. HitOK'
    BY <1>0 DEF HitOK, vError_Check
  <2>6. QED BY <2>1, <2>2, <2>3, <2>4, <2>5 DEF Types
<1>2. Counts'
  BY <1>0 DEF Types, NumbersOK, Counts, vError_Check, bounds
<1>3. TimerInv'
  BY <1>0 DEF TimerInv, vError_Check
<1>4. RadioInv'
  BY <1>0 DEF RadioInv, Busy, vError_Check
<1>5. StreamInv'
  BY <1>0 DEF StreamInv, vError_Check
<1>6. QED BY <1>1, <1>2, <1>3, <1>4, <1>5 DEF MsmInv

\* The decision to sleep rests on g_eAdvState.
LEMMA CheckAdvertisingKeeps ==
  ASSUME MsmInv, CheckAdvertising
  PROVE  MsmInv'
<1>0. Types /\ Counts /\ TimerInv /\ RadioInv /\ StreamInv
  BY DEF MsmInv
<1>1. Types'
  <2>1. ControlOK'
    BY <1>0 DEF Types, ControlOK, State, CheckAdvertising, Goto, Stay, timers
  <2>2. FlagsOK'
    BY <1>0 DEF Types, FlagsOK, ble, CheckAdvertising, timers, air
  <2>3. BleOK'
    BY <1>0 DEF Types, BleOK, CheckAdvertising, ble
  <2>4. NumbersOK'
    BY <1>0 DEF Types, NumbersOK, CheckAdvertising, air, bounds
  <2>5. HitOK'
    BY <1>0 DEF Types, HitOK, CheckAdvertising
  <2>6. QED BY <2>1, <2>2, <2>3, <2>4, <2>5 DEF Types
<1>2. Counts'
  BY <1>0 DEF Counts, CheckAdvertising, air, bounds
<1>3. TimerInv'
  BY <1>0 DEF TimerInv, CallbackTimer, CheckAdvertising, Goto, Stay, timers
<1>4. RadioInv'
  BY <1>0 DEF RadioInv, Busy, CheckAdvertising, IsItTimeToSleep, Goto, Stay,
     ble, air
<1>5. StreamInv'
  BY <1>0 DEF StreamInv, Clean, CheckAdvertising, air, bounds
<1>6. QED BY <1>1, <1>2, <1>3, <1>4, <1>5 DEF MsmInv

\* The timer of the old state stops, and so does the stream.
LEMMA LeaveKeeps ==
  ASSUME MsmInv, Leave
  PROVE  MsmInv'
<1>0. Types /\ Counts /\ TimerInv /\ RadioInv /\ StreamInv
  BY DEF MsmInv
<1>1. Types'
  <2>1. ControlOK'
    BY <1>0 DEF Types, ControlOK, Leave
  <2>2. FlagsOK'
    BY <1>0 DEF Types, FlagsOK, ble, Leave, vConnected_Exit, air
  <2>3. BleOK'
    BY <1>0 DEF Types, BleOK, AdvMode, Leave, AdvertisingStart, Busy
  <2>4. NumbersOK'
    BY <1>0 DEF Types, NumbersOK, Leave, air, bounds
  <2>5. HitOK'
    BY <1>0 DEF Types, HitOK, Leave
  <2>6. QED BY <2>1, <2>2, <2>3, <2>4, <2>5 DEF Types
<1>2. Counts'
  BY <1>0 DEF Counts, Leave, air, bounds
<1>3. TimerInv'
  BY <1>0 DEF TimerInv, Leave
<1>4. RadioInv'
  <2>1. at = "leave" /\ at' = "enter" /\ g_eMainState' = target
    BY DEF Leave
  <2>2. UNCHANGED <<link, peerWrite>>
    BY DEF Leave, air, ble
  <2>3. CASE g_eMainState = "INIT"
    <3>1. /\ target \notin {"DEEP_SLEEP", "POWER_UP", "INIT"}
          /\ pending = "none" /\ pending' = "none"
      BY <1>0, <2>1, <2>3 DEF RadioInv, Busy, Leave, AdvertisingStart
    <3>2. advertising' = "fast" /\ g_eAdvState' = "fast"
      BY <1>0, <2>1, <2>3 DEF RadioInv, Leave, AdvertisingStart, Busy
    <3>3. ~link
      BY <1>0, <2>3 DEF RadioInv, Busy
    <3>4. QED BY <2>1, <2>2, <3>1, <3>2, <3>3 DEF RadioInv, Busy
  <2>4. CASE g_eMainState # "INIT"
    <3>1. UNCHANGED <<g_eAdvState, advertising, pending>>
      BY <2>4 DEF Leave
    <3>2. QED BY <1>0, <2>1, <2>2, <3>1 DEF RadioInv, Busy
  <2>5. QED BY <2>3, <2>4
<1>5. StreamInv'
  BY <1>0 DEF StreamInv, Clean, Leave, vConnected_Exit, air, bounds
<1>6. QED BY <1>1, <1>2, <1>3, <1>4, <1>5 DEF MsmInv

\* The timer of the new state starts.
LEMMA EnterKeeps ==
  ASSUME MsmInv, Enter
  PROVE  MsmInv'
<1>0. Types /\ Counts /\ TimerInv /\ RadioInv /\ StreamInv
  BY DEF MsmInv
<1>1. Types'
  <2>1. ControlOK'
    BY <1>0 DEF Types, ControlOK, Enter
  <2>2. FlagsOK'
    BY <1>0, WakeEndsIsBoolean DEF Types, FlagsOK, ble, Enter, vInit_Entry,
       vDeepSleep_Entry, OtherEntry, air
  <2>3. BleOK'
    BY <1>0 DEF Types, BleOK, AdvMode, Enter, vInit_Entry, vDeepSleep_Entry,
       OtherEntry
  <2>4. NumbersOK'
    BY <1>0, BoundsAreNumbers DEF Types, NumbersOK, Enter, vInit_Entry,
       vDeepSleep_Entry, OtherEntry, air
  <2>5. HitOK'
    BY <1>0 DEF Types, HitOK, Enter
  <2>6. QED BY <2>1, <2>2, <2>3, <2>4, <2>5 DEF Types
<1>2. Counts'
  BY <1>0 DEF Counts, Enter, air
<1>3. TimerInv'
  BY <1>0 DEF TimerInv, CallbackTimer, Enter
<1>4. RadioInv'
  BY <1>0 DEF RadioInv, Busy, Enter, vInit_Entry, vDeepSleep_Entry, OtherEntry,
     air
<1>5. StreamInv'
  BY <1>0 DEF StreamInv, Clean, Enter, air
<1>6. QED BY <1>1, <1>2, <1>3, <1>4, <1>5 DEF MsmInv

\* A state without a timer is due.
LEMMA RearmKeeps ==
  ASSUME MsmInv, Rearm
  PROVE  MsmInv'
<1>0. Types /\ Counts /\ TimerInv /\ RadioInv /\ StreamInv
  BY DEF MsmInv
<1>1. Types'
  <2>1. ControlOK'
    BY <1>0 DEF Types, ControlOK, Rearm, timers
  <2>2. FlagsOK'
    BY <1>0 DEF Types, FlagsOK, ble, Rearm, timers, air
  <2>3. BleOK'
    BY <1>0 DEF Types, BleOK, Rearm, ble
  <2>4. NumbersOK'
    BY <1>0 DEF Types, NumbersOK, Rearm, air, bounds
  <2>5. HitOK'
    BY <1>0 DEF Types, HitOK, Rearm
  <2>6. QED BY <2>1, <2>2, <2>3, <2>4, <2>5 DEF Types
<1>2. Counts'
  BY <1>0 DEF Counts, Rearm, air, bounds
<1>3. TimerInv'
  BY <1>0 DEF TimerInv, CallbackTimer, Rearm, timers
<1>4. RadioInv'
  BY <1>0 DEF RadioInv, Busy, Rearm, ble, air
<1>5. StreamInv'
  BY <1>0 DEF StreamInv, Clean, Rearm, air, bounds
<1>6. QED BY <1>1, <1>2, <1>3, <1>4, <1>5 DEF MsmInv

\* A command starts a stream.
LEMMA SubscribeKeeps ==
  ASSUME MsmInv, NEW time \in {0, 1, Refused}, Subscribe(time)
  PROVE  MsmInv'
<1>0. Types /\ Counts /\ TimerInv /\ RadioInv /\ StreamInv
  BY DEF MsmInv
<1>1. Types'
  <2>1. ControlOK'
    BY <1>0 DEF Types, ControlOK, Subscribe, ChangeTime
  <2>2. FlagsOK'
    BY <1>0 DEF Types, FlagsOK, ble, Subscribe, ChangeTime
  <2>3. BleOK'
    BY <1>0 DEF Types, BleOK, Subscribe, ble
  <2>4. NumbersOK'
    BY <1>0 DEF Types, NumbersOK, Subscribe, bounds
  <2>5. HitOK'
    BY <1>0 DEF Types, HitOK, Subscribe
  <2>6. QED BY <2>1, <2>2, <2>3, <2>4, <2>5 DEF Types
<1>2. Counts'
  BY <1>0 DEF Types, NumbersOK, Counts, Subscribe, bounds
<1>3. TimerInv'
  BY <1>0 DEF TimerInv, CallbackTimer, Subscribe, ChangeTime
<1>4. RadioInv'
  BY <1>0 DEF RadioInv, Busy, Subscribe, ble
<1>5. StreamInv'
  BY <1>0 DEF StreamInv, Clean, Subscribe, bounds
<1>6. QED BY <1>1, <1>2, <1>3, <1>4, <1>5 DEF MsmInv

\* A command writes to the flash, ...
LEMMA WriteFlashKeeps ==
  ASSUME MsmInv, WriteFlash
  PROVE  MsmInv'
<1>0. Types /\ Counts /\ TimerInv /\ RadioInv /\ StreamInv
  BY DEF MsmInv
<1>1. Types'
  <2>1. ControlOK'
    BY <1>0 DEF Types, ControlOK, WriteFlash, timers
  <2>2. FlagsOK'
    BY <1>0 DEF Types, FlagsOK, ble, WriteFlash, timers
  <2>3. BleOK'
    BY <1>0 DEF Types, BleOK, WriteFlash, ble
  <2>4. NumbersOK'
    BY <1>0 DEF Types, NumbersOK, WriteFlash, bounds
  <2>5. HitOK'
    BY <1>0 DEF Types, HitOK, WriteFlash
  <2>6. QED BY <2>1, <2>2, <2>3, <2>4, <2>5 DEF Types
<1>2. Counts'
  BY <1>0 DEF Types, NumbersOK, Counts, WriteFlash, bounds
<1>3. TimerInv'
  BY <1>0 DEF TimerInv, CallbackTimer, WriteFlash, timers
<1>4. RadioInv'
  BY <1>0 DEF RadioInv, Busy, WriteFlash, ble
<1>5. StreamInv'
  BY <1>0 DEF StreamInv, Clean, WriteFlash, bounds
<1>6. QED BY <1>1, <1>2, <1>3, <1>4, <1>5 DEF MsmInv

\* ... and what the advertising waited for happens.
LEMMA FlashDoneKeeps ==
  ASSUME MsmInv, FlashDone
  PROVE  MsmInv'
<1>0. Types /\ Counts /\ TimerInv /\ RadioInv /\ StreamInv
  BY DEF MsmInv
<1>1. Types'
  <2>1. ControlOK'
    BY <1>0 DEF Types, ControlOK, FlashDone, timers
  <2>2. FlagsOK'
    BY <1>0 DEF Types, FlagsOK, ble, FlashDone, timers, air
  <2>3. BleOK'
    BY <1>0 DEF Types, BleOK, FlashDone, PendingStart
  <2>4. NumbersOK'
    BY <1>0 DEF Types, NumbersOK, FlashDone, air, bounds
  <2>5. HitOK'
    BY <1>0 DEF Types, HitOK, FlashDone
  <2>6. QED BY <2>1, <2>2, <2>3, <2>4, <2>5 DEF Types
<1>2. Counts'
  BY <1>0 DEF Counts, FlashDone, air, bounds
<1>3. TimerInv'
  BY <1>0 DEF TimerInv, CallbackTimer, FlashDone, timers
<1>4. RadioInv'
  BY <1>0 DEF RadioInv, Busy, FlashDone, PendingStart, air
<1>5. StreamInv'
  BY <1>0 DEF StreamInv, Clean, FlashDone, air, bounds
<1>6. QED BY <1>1, <1>2, <1>3, <1>4, <1>5 DEF MsmInv

\* No command.
LEMMA NothingToHandleKeeps ==
  ASSUME MsmInv, NothingToHandle
  PROVE  MsmInv'
<1>0. Types /\ Counts /\ TimerInv /\ RadioInv /\ StreamInv
  BY DEF MsmInv
<1>1. Types'
  <2>1. ControlOK'
    BY <1>0 DEF Types, ControlOK, NothingToHandle, timers
  <2>2. FlagsOK'
    BY <1>0 DEF Types, FlagsOK, ble, NothingToHandle, timers, air
  <2>3. BleOK'
    BY <1>0 DEF Types, BleOK, NothingToHandle, ble
  <2>4. NumbersOK'
    BY <1>0 DEF Types, NumbersOK, NothingToHandle, air, bounds
  <2>5. HitOK'
    BY <1>0 DEF Types, HitOK, NothingToHandle
  <2>6. QED BY <2>1, <2>2, <2>3, <2>4, <2>5 DEF Types
<1>2. Counts'
  BY <1>0 DEF Counts, NothingToHandle, air, bounds
<1>3. TimerInv'
  BY <1>0 DEF TimerInv, CallbackTimer, NothingToHandle, timers
<1>4. RadioInv'
  BY <1>0 DEF RadioInv, Busy, NothingToHandle, ble, air
<1>5. StreamInv'
  BY <1>0 DEF StreamInv, Clean, NothingToHandle, air, bounds
<1>6. QED BY <1>1, <1>2, <1>3, <1>4, <1>5 DEF MsmInv

\* A tick makes the state due.
LEMMA TickKeeps ==
  ASSUME MsmInv, Tick
  PROVE  MsmInv'
<1>0. Types /\ Counts /\ TimerInv /\ RadioInv /\ StreamInv
  BY DEF MsmInv
<1>1. Types'
  <2>1. ControlOK'
    BY <1>0 DEF Types, ControlOK, Tick, thread
  <2>2. FlagsOK'
    BY <1>0 DEF Types, FlagsOK, ble, Tick, thread, air
  <2>3. BleOK'
    BY <1>0 DEF Types, BleOK, Tick, ble
  <2>4. NumbersOK'
    BY <1>0 DEF Types, NumbersOK, Tick, thread, air, bounds
  <2>5. HitOK'
    BY <1>0 DEF Types, HitOK, Tick
  <2>6. QED BY <2>1, <2>2, <2>3, <2>4, <2>5 DEF Types
<1>2. Counts'
  BY <1>0 DEF Counts, Tick, air, bounds
<1>3. TimerInv'
  BY <1>0 DEF TimerInv, Tick, thread
<1>4. RadioInv'
  BY <1>0 DEF RadioInv, Busy, Tick, thread, ble, air
<1>5. StreamInv'
  BY <1>0 DEF StreamInv, Clean, Tick, thread, air, bounds
<1>6. QED BY <1>1, <1>2, <1>3, <1>4, <1>5 DEF MsmInv

\* The end of the deep sleep.
LEMMA WakeUpTimeoutKeeps ==
  ASSUME MsmInv, WakeUpTimeout
  PROVE  MsmInv'
<1>0. Types /\ Counts /\ TimerInv /\ RadioInv /\ StreamInv
  BY DEF MsmInv
<1>1. Types'
  <2>1. ControlOK'
    BY <1>0 DEF Types, ControlOK, WakeUpTimeout, thread
  <2>2. FlagsOK'
    BY <1>0 DEF Types, FlagsOK, ble, WakeUpTimeout, thread, air
  <2>3. BleOK'
    BY <1>0 DEF Types, BleOK, WakeUpTimeout, ble
  <2>4. NumbersOK'
    BY <1>0 DEF Types, NumbersOK, WakeUpTimeout, thread, air, bounds
  <2>5. HitOK'
    BY <1>0 DEF Types, HitOK, WakeUpTimeout
  <2>6. QED BY <2>1, <2>2, <2>3, <2>4, <2>5 DEF Types
<1>2. Counts'
  BY <1>0 DEF Counts, WakeUpTimeout, air, bounds
<1>3. TimerInv'
  BY <1>0 DEF TimerInv, CallbackTimer, WakeUpTimeout, thread
<1>4. RadioInv'
  BY <1>0 DEF RadioInv, Busy, WakeUpTimeout, thread, ble, air
<1>5. StreamInv'
  BY <1>0 DEF StreamInv, Clean, WakeUpTimeout, thread, air, bounds
<1>6. QED BY <1>1, <1>2, <1>3, <1>4, <1>5 DEF MsmInv

\* The phone connects: whatever was set to stream, its link has ended.
LEMMA ConnectKeeps ==
  ASSUME MsmInv, Connect
  PROVE  MsmInv'
<1>0. Types /\ Counts /\ TimerInv /\ RadioInv /\ StreamInv
  BY DEF MsmInv
<1>1. Types'
  <2>1. ControlOK'
    BY <1>0 DEF Types, ControlOK, Connect, interruptFree, thread
  <2>2. FlagsOK'
    BY <1>0 DEF Types, FlagsOK, ble, Connect, interruptFree, thread
  <2>3. BleOK'
    BY <1>0 DEF Types, BleOK, AdvMode, Connect
  <2>4. NumbersOK'
    BY <1>0, BoundsAreNumbers DEF Types, NumbersOK, Connect, interruptFree,
       thread
  <2>5. HitOK'
    BY <1>0 DEF Types, HitOK, Connect
  <2>6. QED BY <2>1, <2>2, <2>3, <2>4, <2>5 DEF Types
<1>2. Counts'
  BY <1>0 DEF Counts, Connect
<1>3. TimerInv'
  BY <1>0 DEF TimerInv, CallbackTimer, Connect, interruptFree, thread
<1>4. RadioInv'
  BY <1>0 DEF RadioInv, Busy, Connect, interruptFree, thread
<1>5. StreamInv'
  BY <1>0 DEF StreamInv, RadioInv, Clean, Connect, interruptFree, thread
<1>6. QED BY <1>1, <1>2, <1>3, <1>4, <1>5 DEF MsmInv

\* The link is lost.
LEMMA DisconnectKeeps ==
  ASSUME MsmInv, Disconnect
  PROVE  MsmInv'
<1>0. Types /\ Counts /\ TimerInv /\ RadioInv /\ StreamInv
  BY DEF MsmInv
<1>1. Types'
  <2>1. ControlOK'
    BY <1>0 DEF Types, ControlOK, Disconnect, interruptFree, thread
  <2>2. FlagsOK'
    BY <1>0 DEF Types, FlagsOK, ble, Disconnect, interruptFree, thread
  <2>3. BleOK'
    BY <1>0 DEF Types, BleOK, AdvMode, Disconnect, AdvertisingStart, Busy
  <2>4. NumbersOK'
    BY <1>0 DEF Types, NumbersOK, Disconnect, interruptFree, thread, bounds
  <2>5. HitOK'
    BY <1>0 DEF Types, HitOK, Disconnect
  <2>6. QED BY <2>1, <2>2, <2>3, <2>4, <2>5 DEF Types
<1>2. Counts'
  BY <1>0 DEF Counts, Disconnect, bounds
<1>3. TimerInv'
  BY <1>0 DEF TimerInv, CallbackTimer, Disconnect, interruptFree, thread
<1>4. RadioInv'
  BY <1>0 DEF RadioInv, Busy, Disconnect, interruptFree, thread, AdvertisingStart
<1>5. StreamInv'
  BY <1>0 DEF StreamInv, Clean, Disconnect, interruptFree, thread, bounds
<1>6. QED BY <1>1, <1>2, <1>3, <1>4, <1>5 DEF MsmInv

\* The advertising goes on, more slowly, or ends.
LEMMA AdvertisingTimeoutKeeps ==
  ASSUME MsmInv, AdvertisingTimeout
  PROVE  MsmInv'
<1>0. Types /\ Counts /\ TimerInv /\ RadioInv /\ StreamInv
  BY DEF MsmInv
<1>1. Types'
  <2>1. ControlOK'
    BY <1>0 DEF Types, ControlOK, AdvertisingTimeout, interruptFree, thread
  <2>2. FlagsOK'
    BY <1>0 DEF Types, FlagsOK, ble, AdvertisingTimeout, interruptFree, thread, air
  <2>3. BleOK'
    BY <1>0 DEF Types, BleOK, AdvMode, AdvertisingTimeout, AdvertisingStart, Busy
  <2>4. NumbersOK'
    BY <1>0 DEF Types, NumbersOK, AdvertisingTimeout, interruptFree, thread,
       air, bounds
  <2>5. HitOK'
    BY <1>0 DEF Types, HitOK, AdvertisingTimeout
  <2>6. QED BY <2>1, <2>2, <2>3, <2>4, <2>5 DEF Types
<1>2. Counts'
  BY <1>0 DEF Counts, AdvertisingTimeout, air, bounds
<1>3. TimerInv'
  BY <1>0 DEF TimerInv, CallbackTimer, AdvertisingTimeout, interruptFree,
     thread
<1>4. RadioInv'
  BY <1>0 DEF RadioInv, Busy, AdvertisingTimeout, interruptFree, thread,
     AdvertisingStart, air
<1>5. StreamInv'
  BY <1>0 DEF StreamInv, RadioInv, Clean, AdvertisingTimeout, interruptFree,
     thread, bounds
<1>6. QED BY <1>1, <1>2, <1>3, <1>4, <1>5 DEF MsmInv

\* The Peer Manager writes during a link or advertising, ...
LEMMA PeerWriteKeeps ==
  ASSUME MsmInv, PeerWrite
  PROVE  MsmInv'
<1>0. Types /\ Counts /\ TimerInv /\ RadioInv /\ StreamInv
  BY DEF MsmInv
<1>1. Types'
  <2>1. ControlOK'
    BY <1>0 DEF Types, ControlOK, PeerWrite, interruptFree, thread
  <2>2. FlagsOK'
    BY <1>0 DEF Types, FlagsOK, PeerWrite, interruptFree, thread, air
  <2>3. BleOK'
    BY <1>0 DEF Types, BleOK, PeerWrite, PendingStart
  <2>4. NumbersOK'
    BY <1>0 DEF Types, NumbersOK, PeerWrite, interruptFree, thread,
       air, bounds
  <2>5. HitOK'
    BY <1>0 DEF Types, HitOK, PeerWrite
  <2>6. QED BY <2>1, <2>2, <2>3, <2>4, <2>5 DEF Types
<1>2. Counts'
  BY <1>0 DEF Counts, PeerWrite, air, bounds
<1>3. TimerInv'
  BY <1>0 DEF TimerInv, CallbackTimer, PeerWrite, interruptFree, thread
<1>4. RadioInv'
  BY <1>0 DEF RadioInv, Busy, PeerWrite, PendingStart, interruptFree, thread, air
<1>5. StreamInv'
  BY <1>0 DEF StreamInv, Clean, PeerWrite, interruptFree, thread, air, bounds
<1>6. QED BY <1>1, <1>2, <1>3, <1>4, <1>5 DEF MsmInv

\* ... and what the advertising waited for happens, unless another write runs.
LEMMA PeerWriteEndsKeeps ==
  ASSUME MsmInv, PeerWriteEnds
  PROVE  MsmInv'
<1>0. Types /\ Counts /\ TimerInv /\ RadioInv /\ StreamInv
  BY DEF MsmInv
<1>1. Types'
  <2>1. ControlOK'
    BY <1>0 DEF Types, ControlOK, PeerWriteEnds, interruptFree, thread
  <2>2. FlagsOK'
    BY <1>0 DEF Types, FlagsOK, PeerWriteEnds, interruptFree, thread, air
  <2>3. BleOK'
    BY <1>0 DEF Types, BleOK, PeerWriteEnds, PendingStart
  <2>4. NumbersOK'
    BY <1>0 DEF Types, NumbersOK, PeerWriteEnds, interruptFree, thread,
       air, bounds
  <2>5. HitOK'
    BY <1>0 DEF Types, HitOK, PeerWriteEnds
  <2>6. QED BY <2>1, <2>2, <2>3, <2>4, <2>5 DEF Types
<1>2. Counts'
  BY <1>0 DEF Counts, PeerWriteEnds, air, bounds
<1>3. TimerInv'
  BY <1>0 DEF TimerInv, CallbackTimer, PeerWriteEnds, interruptFree, thread
<1>4. RadioInv'
  BY <1>0 DEF RadioInv, Busy, PeerWriteEnds, PendingStart, interruptFree,
     thread, air
<1>5. StreamInv'
  BY <1>0 DEF StreamInv, Clean, PeerWriteEnds, interruptFree, thread, air, bounds
<1>6. QED BY <1>1, <1>2, <1>3, <1>4, <1>5 DEF MsmInv

\* A command comes into the inbox.
LEMMA SendCommandKeeps ==
  ASSUME MsmInv, SendCommand
  PROVE  MsmInv'
<1>0. Types /\ Counts /\ TimerInv /\ RadioInv /\ StreamInv
  BY DEF MsmInv
<1>1. Types'
  <2>1. ControlOK'
    BY <1>0 DEF Types, ControlOK, SendCommand, interruptFree, thread
  <2>2. FlagsOK'
    BY <1>0 DEF Types, FlagsOK, ble, SendCommand, interruptFree, thread
  <2>3. BleOK'
    BY <1>0 DEF Types, BleOK, SendCommand, ble
  <2>4. NumbersOK'
    BY <1>0, BoundsAreNumbers DEF Types, NumbersOK, SendCommand,
       interruptFree, thread
  <2>5. HitOK'
    BY <1>0 DEF Types, HitOK, SendCommand
  <2>6. QED BY <2>1, <2>2, <2>3, <2>4, <2>5 DEF Types
<1>2. Counts'
  BY <1>0 DEF Types, NumbersOK, Counts, SendCommand
<1>3. TimerInv'
  BY <1>0 DEF TimerInv, CallbackTimer, SendCommand, interruptFree, thread
<1>4. RadioInv'
  BY <1>0 DEF RadioInv, Busy, SendCommand, interruptFree, thread, ble
<1>5. StreamInv'
  BY <1>0 DEF StreamInv, Clean, SendCommand, interruptFree, thread
<1>6. QED BY <1>1, <1>2, <1>3, <1>4, <1>5 DEF MsmInv

\* The invariant holds at the start, ...
LEMMA InitKeeps == MsmInit => MsmInv
<1> SUFFICES ASSUME MsmInit PROVE MsmInv
  OBVIOUS
<1>1. Types
  <2>1. ControlOK /\ FlagsOK
    BY DEF MsmInit, ControlOK, FlagsOK, State
  <2>2. BleOK /\ HitOK
    BY DEF MsmInit, BleOK, HitOK, AdvMode
  <2>3. NumbersOK
    BY BoundsAreNumbers DEF MsmInit, NumbersOK
  <2>4. QED BY <2>1, <2>2, <2>3 DEF Types
<1>2. Counts /\ TimerInv /\ RadioInv /\ StreamInv
  BY DEF MsmInit, Counts, TimerInv, RadioInv, StreamInv, CallbackTimer
<1>3. QED BY <1>1, <1>2 DEF MsmInv

\* ... and every step keeps it.
LEMMA NextKeeps == MsmInv /\ [MsmNext]_msmVars => MsmInv'
<1> SUFFICES ASSUME MsmInv, [MsmNext]_msmVars PROVE MsmInv'
  OBVIOUS
<1>1. CASE Main
  BY <1>1, vMSM_ProcessKeeps, CheckKeeps, vError_CheckKeeps,
     CheckAdvertisingKeeps, LeaveKeeps, EnterKeeps, RearmKeeps, SubscribeKeeps,
     WriteFlashKeeps, FlashDoneKeeps, NothingToHandleKeeps DEF Main
<1>2. CASE MsmNext /\ ~Main
  BY <1>2, TickKeeps, WakeUpTimeoutKeeps, ConnectKeeps, DisconnectKeeps,
     AdvertisingTimeoutKeeps, PeerWriteKeeps,
     PeerWriteEndsKeeps, SendCommandKeeps DEF MsmNext
<1>3. CASE UNCHANGED msmVars
  BY <1>3 DEF MsmInv, msmVars, timers, ble, air, bounds, Types, ControlOK,
     FlagsOK, BleOK, NumbersOK, HitOK, Counts, TimerInv,
     CallbackTimer, RadioInv, Busy, StreamInv, Clean
<1>4. QED BY <1>1, <1>2, <1>3

\* IInv is an invariant.
LEMMA MsmInvariant == MsmSpec => []MsmInv
<1>1. MsmInit => MsmInv
  BY InitKeeps
<1>2. MsmInv /\ [MsmNext]_msmVars => MsmInv'
  BY NextKeeps
<1>3. QED BY <1>1, <1>2, PTL DEF MsmSpec

\* The state of the modules of StateMachines/ keeps its type.
THEOREM TypeCorrect == MsmSpec => []MsmTypeOK
<1>1. MsmInv => MsmTypeOK
  <2> SUFFICES ASSUME MsmInv PROVE MsmTypeOK
    OBVIOUS
  <2>1. Types /\ Counts
    BY DEF MsmInv
  <2>2. {timerRunning, wakeRunning, storageError, cfgSet, link,
         peerWrite} \subseteq BOOLEAN
    BY <2>1 DEF Types, FlagsOK
  <2>3. {g_eAdvState, advertising} \subseteq AdvMode
    BY <2>1 DEF Types, BleOK
  <2>4. /\ commands \in 0 .. MaxCommands /\ sent \in 0 .. MaxCommands
        /\ links \in 0 .. MaxLinks /\ cfgLink \in 0 .. MaxLinks
        /\ failures \in 0 .. MaxFailures
    BY <2>1, BoundsAreNumbers DEF Types, NumbersOK, Counts
  <2>5. QED BY <2>1, <2>2, <2>3, <2>4 DEF Types, ControlOK, BleOK, HitOK, MsmTypeOK
<1>2. QED BY <1>1, MsmInvariant, PTL

\* Deep sleep has no link and no advertising until it is left
\* (u8ModeMngt_IsItTimeToSleep, vDeepSleep_Entry).
THEOREM SilentSleep == MsmSpec => []AsleepIsSilent
<1>1. MsmInv => AsleepIsSilent
  BY DEF MsmInv, Types, FlagsOK, RadioInv, AsleepIsSilent
<1>2. QED BY <1>1, MsmInvariant, PTL

\* vMSM_Process runs again, unless a command took the timer of CONNECTED.
THEOREM RunsAgain == MsmSpec => []ProcessRunsAgain
<1>1. MsmInv => ProcessRunsAgain
  BY DEF MsmInv, Types, ControlOK, State, TimerInv, CallbackTimer, Stalled,
     Refused, ProcessRunsAgain
<1>2. QED BY <1>1, MsmInvariant, PTL

\* The stream in CONNECTED was asked for on this link (vConnected_Exit).
THEOREM StreamOfThisLink == MsmSpec => []SubscriptionOfThisLink
<1>1. MsmInv => SubscriptionOfThisLink
  BY DEF MsmInv, StreamInv, Clean, SubscriptionOfThisLink
<1>2. QED BY <1>1, MsmInvariant, PTL

-----------------------------------------------------------------------------
(***************************************************************************)
(* The windows send what they should when they should, and the replies of  *)
(* the CC430 reach the phone in order, for every set of windows, every     *)
(* period of the clock and every size of the queues and of the buffer.     *)
(*                                                                         *)
(* FrameInv needs two facts beside it to be inductive.  Drained: what      *)
(* stays in the buffer of the link gives no frame any more, so a reply is  *)
(* only ever found in the bytes just read.  OrderInv: commands are in      *)
(* their order over the replies, the inbox, the chip and the outbox, in    *)
(* which a reply that is read late is still before those of all commands   *)
(* that wait.  The windows and the link are proved apart, and meet in      *)
(* FrameNext.                                                              *)
(***************************************************************************)
\* The frames that stay are the last ones, in their order.
LEMMA NewestAreLast ==
  ASSUME NEW frames \in Seq(Frame)
  PROVE  /\ Newest(frames) \in Seq(Frame) /\ Len(Newest(frames)) <= Depth
         /\ \E k \in Nat : \A i \in 1 .. Len(Newest(frames)) :
              i + k \in 1 .. Len(frames) /\ Newest(frames)[i] = frames[i + k]
<1>1. Depth \in Nat /\ Depth >= 1 /\ Len(frames) \in Nat
  BY LinkAssumption
<1>2. CASE Len(frames) <= Depth
  <2>1. Newest(frames) = frames
    BY <1>2 DEF Newest
  <2>2. \A i \in 1 .. Len(frames) : i + 0 \in 1 .. Len(frames) /\ frames[i] = frames[i + 0]
    BY <1>1
  <2>3. QED BY <1>2, <2>1, <2>2
<1>3. CASE Len(frames) > Depth
  <2> DEFINE k == Len(frames) - Depth
  <2>1. k \in Nat /\ k + 1 \in Int /\ k + 1 >= 1 /\ k + 1 <= Len(frames)
    BY <1>1, <1>3
  <2>2. Newest(frames) = SubSeq(frames, k + 1, Len(frames))
    BY <1>1, <1>3 DEF Newest
  <2>3. \A i \in k + 1 .. Len(frames) : frames[i] \in Frame
    BY <1>1, <2>1
  <2>4. /\ Newest(frames) \in Seq(Frame)
        /\ Len(Newest(frames)) = Depth
        /\ \A i \in 1 .. Depth : Newest(frames)[i] = frames[k + 1 + i - 1]
    <3>1. Len(frames) - (k + 1) + 1 = Depth
      BY <1>1
    <3> HIDE DEF k
    <3>2. QED BY <1>1, <2>1, <2>2, <2>3, <3>1, SubSeqProperties
  <2>5. \A i \in 1 .. Depth :
          /\ i + k \in 1 .. Len(frames)
          /\ Newest(frames)[i] = frames[i + k]
    BY <1>1, <2>1, <2>4
  <2> HIDE DEF k
  <2>6. \A i \in 1 .. Len(Newest(frames)) :
          i + k \in 1 .. Len(frames) /\ Newest(frames)[i] = frames[i + k]
    BY <2>4, <2>5
  <2>7. k \in Nat /\ Newest(frames) \in Seq(Frame) /\ Len(Newest(frames)) <= Depth
    BY <1>1, <2>1, <2>4
  <2>8. QED BY <2>6, <2>7
<1>4. QED BY <1>1, <1>2, <1>3

\* eCC430_ITF_SendFrame keeps the types and the flag.
LEMMA Sent ==
  ASSUME LinkTypeOK, LinkOk, NEW frames \in Seq(Frame), SendFrames(frames)
  PROVE  /\ outbox' \in Seq(Frame) /\ Len(outbox') <= Depth
         /\ outReady' \in BOOLEAN /\ (outbox' # <<>> => outReady')
         /\ fate' \in [Commands -> Fate]
         /\ \E k \in Nat : \A i \in 1 .. Len(outbox') :
              i + k \in 1 .. Len(outbox \o frames)
              /\ outbox'[i] = (outbox \o frames)[i + k]
<1>1. outbox \o frames \in Seq(Frame)
  BY ConcatProperties DEF LinkTypeOK
<1>2. outbox' = Newest(outbox \o frames)
  BY DEF SendFrames
<1>3. outbox' # <<>> => outbox # <<>> \/ frames # <<>>
  <2>1. SUFFICES ASSUME outbox = <<>>, frames = <<>> PROVE outbox' = <<>>
    OBVIOUS
  <2>2. outbox \o frames = <<>>
    BY <2>1
  <2>3. QED BY <1>2, <2>2, LinkAssumption DEF Newest
<1>4. outReady' \in BOOLEAN /\ (outbox' # <<>> => outReady')
  BY <1>3 DEF SendFrames, Signalled, LinkTypeOK, LinkOk
<1>5. fate' \in [Commands -> Fate]
  <2>1. \A n \in Commands : fate[n] \in Fate
    BY DEF LinkTypeOK
  <2>2. QED BY <2>1 DEF SendFrames, Fate
<1>6. QED BY <1>1, <1>2, <1>4, <1>5, NewestAreLast

-----------------------------------------------------------------------------
\* What ESP_CheckForValidFrame finds when bytes are added.
LEMMA Least ==
  ASSUME NEW T \in SUBSET Nat, T # {}
  PROVE  \E i \in T : \A j \in T : i <= j
<1>1. PICK i \in T : \A j \in T : <<j, i>> \notin OpToRel(<, Nat)
  BY NatLessThanWellFounded, WFMin
<1>2. \A j \in T : ~ (j < i)
  BY <1>1 DEF OpToRel
<1>3. QED BY <1>2

\* ESP_CheckForValidFrame finds a frame in the bytes just added, or none.
LEMMA FirstAppended ==
  ASSUME NEW s \in Seq(Bytes), NEW b \in Bytes,
         FirstFrame(Append(s, b)) \in Frame, FirstFrame(s) \notin Frame
  PROVE  b \in Frame /\ FirstFrame(Append(s, b)) = b
<1> DEFINE t == Append(s, b)
           n == Len(s) + 1
<1>1. /\ t \in Seq(Bytes) /\ Len(t) = n /\ t[n] = b /\ Len(s) \in Nat
      /\ \A i \in 1 .. Len(s) : t[i] = s[i]
  OBVIOUS
<1>2. Heads(s) \subseteq Heads(t) /\ Heads(t) \subseteq Heads(s) \union {n}
  BY <1>1 DEF Heads
<1>3. Heads(s) \subseteq 1 .. Len(s) /\ Heads(t) \subseteq Nat
  BY <1>1 DEF Heads
<1>4. Blank \notin Frame
  BY LinkAssumption DEF Blank, Frame
<1>5. Heads(t) # {}
  BY <1>4 DEF FirstFrame
<1> HIDE DEF t
<1>6. CASE Heads(s) = {}
  <2>1. Heads(t) = {n}
    BY <1>2, <1>5, <1>6
  <2>2. (CHOOSE i \in Heads(t) : \A j \in Heads(t) : i <= j) = n
    BY <1>1, <2>1
  <2>3. FirstFrame(t) = b
    BY <1>1, <1>5, <2>2 DEF FirstFrame
  <2>4. QED BY <2>3 DEF t
<1>7. CASE Heads(s) # {}
  <2>1. PICK m \in Heads(s) : \A j \in Heads(s) : m <= j
    BY <1>3, <1>7, <1>1, Least
  <2>2. m \in Heads(t) /\ m \in 1 .. Len(s) /\ \A j \in Heads(t) : m <= j
    BY <1>1, <1>2, <1>3, <2>1
  <2>3. (CHOOSE i \in Heads(t) : \A j \in Heads(t) : i <= j) = m
    BY <1>3, <2>2
  <2>4. (CHOOSE i \in Heads(s) : \A j \in Heads(s) : i <= j) = m
    BY <1>1, <1>3, <2>1
  <2>5. FirstFrame(t) = FirstFrame(s)
    BY <1>1, <1>5, <1>7, <2>2, <2>3, <2>4 DEF FirstFrame
  <2>6. QED BY <2>5 DEF t
<1>8. QED BY <1>6, <1>7

\* No frame is left in the buffer.
Drained == FirstFrame(inBuffer) \notin Frame

\* vCC430_ITF_DataReceived queues the frame just read, if any.
LEMMA Received ==
  ASSUME LinkTypeOK, Drained, NEW bytes \in Bytes, vCC430_ITF_DataReceived(bytes)
  PROVE  /\ inBuffer' \in Seq(Bytes) /\ Len(inBuffer') <= BufferSize /\ Drained'
         /\ \/ UNCHANGED <<inbox, inReady>>
            \/ bytes \in Frame /\ inbox' = Append(inbox, bytes) /\ inReady' = TRUE
<1> DEFINE received == IF Len(inBuffer) < BufferSize THEN Append(inBuffer, bytes)
                                                     ELSE inBuffer
<1>1. /\ inBuffer \in Seq(Bytes) /\ Len(inBuffer) <= BufferSize
      /\ BufferSize \in Nat /\ Len(inBuffer) \in Nat
  BY LinkAssumption DEF LinkTypeOK
<1>2. received \in Seq(Bytes) /\ Len(received) <= BufferSize
  <2>1. CASE Len(inBuffer) < BufferSize
    <3>1. Append(inBuffer, bytes) \in Seq(Bytes)
          /\ Len(Append(inBuffer, bytes)) = Len(inBuffer) + 1
      BY <1>1
    <3>2. QED BY <1>1, <2>1, <3>1
  <2>2. QED BY <1>1, <2>1
<1>3. CASE FirstFrame(received) \in Frame
  <2>1. received = Append(inBuffer, bytes)
    BY <1>3 DEF Drained
  <2>2. bytes \in Frame /\ FirstFrame(received) = bytes
    BY <1>1, <1>3, <2>1, FirstAppended DEF Drained
  <2>3. inBuffer' = <<>> /\ inbox' = Append(inbox, bytes) /\ inReady' = TRUE
    BY <1>3, <2>2 DEF vCC430_ITF_DataReceived, Emptied
  <2>4. Drained'
    <3>1. FirstFrame(<<>>) = Blank
      BY DEF FirstFrame, Heads
    <3>2. Blank \notin Frame
      BY LinkAssumption DEF Blank, Frame
    <3>3. QED BY <2>3, <3>1, <3>2 DEF Drained
  <2>5. inBuffer' \in Seq(Bytes) /\ Len(inBuffer') <= BufferSize
    BY <1>1, <2>3
  <2>6. QED BY <2>2, <2>3, <2>4, <2>5
<1>4. CASE FirstFrame(received) \notin Frame
  <2>1. inBuffer' = received /\ UNCHANGED <<inbox, inReady>>
    BY <1>4 DEF vCC430_ITF_DataReceived
  <2>2. QED BY <1>2, <1>4, <2>1 DEF Drained
<1>5. QED BY <1>3, <1>4

-----------------------------------------------------------------------------
\* Commands come by in their order: those whose replies went to the phone, the
\* one in the inbox, the one whose reply the chip still has, and those that wait.
In(s) == {s[i] : i \in 1 .. Len(s)}
Ahead(A, B) == \A a \in A, b \in B : a > 0 /\ b > 0 => a < b
Rising(s) == \A i, j \in 1 .. Len(s) : i < j /\ s[i] > 0 /\ s[j] > 0 => s[i] < s[j]

OrderInv ==
  /\ Rising(replies) /\ Rising(outbox)
  /\ Ahead(In(replies), In(inbox) \union {unread} \union In(outbox))
  /\ Ahead(In(inbox), {unread} \union In(outbox))
  /\ Ahead({unread}, In(outbox))
  /\ \A n \in In(replies) \union In(inbox) \union {unread} \union In(outbox) :
       n <= forwards

LinkInv == LinkTypeOK /\ LinkOk /\ Drained /\ OrderInv

\* The numbers that frames and bytes are.
LEMMA Numbers ==
  /\ MaxForwards \in Nat /\ Own = 0 /\ Nobody = -1 /\ Blank = -2 /\ Cut = -3
  /\ Frame \subseteq Nat /\ Own \in Frame /\ Commands \subseteq Frame
  /\ Frame \subseteq Bytes /\ {Blank, Cut} \subseteq Bytes
  /\ {Nobody, Blank, Cut} \cap Frame = {}
  /\ \A n \in Frame : n > 0 <=> n \in Commands
BY LinkAssumption DEF Frame, Commands, Bytes, Own, Nobody, Blank, Cut

\* What is in the queues.
LEMMA LinkTypes ==
  ASSUME LinkTypeOK
  PROVE  /\ In(outbox) \subseteq Frame /\ In(inbox) \subseteq Frame
         /\ In(replies) \subseteq Commands
         /\ unread \in Int /\ forwards \in Nat
BY Numbers DEF LinkTypeOK, In

\* A step that leaves the link as it is.
LEMMA SameLink ==
  ASSUME LinkInv, UNCHANGED linkVars, pc' # "outbox" \/ pc' = pc
  PROVE  LinkInv'
BY DEF LinkInv, linkVars, LinkTypeOK, LinkOk, Drained, OrderInv

\* The first half of vCC430_ITF_IdleTask: the command replied to is the first of all.
LEMMA InboxLink ==
  ASSUME LinkInv, ProcessInbox
  PROVE  LinkInv'
<1>0. LinkTypeOK /\ LinkOk /\ Drained /\ OrderInv
  BY DEF LinkInv
<1>1. /\ outbox' = outbox /\ outReady' = outReady /\ inBuffer' = inBuffer
      /\ unread' = unread /\ forwards' = forwards
  BY DEF ProcessInbox
<1>2. CASE inbox = <<>>
  <2>1. inReady' \in BOOLEAN /\ UNCHANGED <<inbox, fate, replies>>
    BY <1>0, <1>2 DEF ProcessInbox, LinkTypeOK
  <2>2. QED
    BY <1>0, <1>1, <1>2, <2>1 DEF LinkInv, LinkTypeOK, LinkOk, Drained, OrderInv
<1>3. CASE inbox # <<>>
  <2> DEFINE n == Head(inbox)
  <2>1. /\ n \in Frame /\ In(inbox) = {n} /\ Tail(inbox) = <<>>
    <3>1. inbox \in Seq(Frame) /\ Len(inbox) \in Nat /\ Len(inbox) <= 1
      BY <1>0 DEF LinkTypeOK, LinkOk
    <3>2. Len(inbox) = 1 /\ n = inbox[1] /\ n \in Frame
      BY <1>3, <3>1
    <3>3. Tail(inbox) \in Seq(Frame) /\ Len(Tail(inbox)) = 0
      BY <1>3, <3>1, <3>2
    <3>4. In(inbox) = {n}
      <4>1. \A i \in 1 .. Len(inbox) : i = 1
        BY <3>2
      <4>2. 1 \in 1 .. Len(inbox)
        BY <3>2
      <4>3. QED BY <3>2, <4>1, <4>2 DEF In
    <3>5. Tail(inbox) = <<>>
      BY <3>3, EmptySeq
    <3>6. QED BY <3>2, <3>4, <3>5
  <2>2. inbox' = <<>> /\ inReady' = inReady /\ In(inbox') = {}
    BY <1>0, <1>3, <2>1 DEF ProcessInbox, LinkOk, In
  <2> HIDE DEF n
  <2>3. CASE n = Own
    <3>1. UNCHANGED <<fate, replies>>
      BY <1>0, <1>3, <2>3 DEF ProcessInbox, LinkOk, n
    <3>2. OrderInv'
      BY <1>0, <1>1, <2>2, <3>1 DEF OrderInv, Ahead
    <3>3. QED BY <1>0, <1>1, <2>2, <3>1, <3>2 DEF LinkInv, LinkTypeOK, LinkOk, Drained
  <2>4. CASE n # Own
    <3>1. /\ fate' = [fate EXCEPT ![n] = "replied"]
          /\ replies' = Append(replies, n) /\ n \in Commands
      <4>1. n \in Commands
        BY <2>1, <2>4 DEF Frame, Commands, Own
      <4>2. QED BY <1>0, <1>3, <2>4, <4>1 DEF ProcessInbox, LinkOk, n
    <3>2. /\ replies \in Seq(Commands) /\ replies' \in Seq(Commands)
          /\ Len(replies) \in Nat /\ Len(replies') = Len(replies) + 1
          /\ \A i \in 1 .. Len(replies) : replies'[i] = replies[i]
          /\ replies'[Len(replies) + 1] = n
      BY <1>0, <3>1 DEF LinkTypeOK
    <3>3. In(replies') = In(replies) \union {n}
      BY <3>2 DEF In
    <3>4. \A i \in 1 .. Len(replies) : replies[i] > 0 => replies[i] < n
      BY <1>0, <2>1, <3>1, Numbers DEF OrderInv, Ahead, In
    <3>5. Rising(replies')
      BY <1>0, <3>2, <3>4 DEF OrderInv, Rising
    <3>6. OrderInv'
      BY <1>0, <1>1, <2>1, <2>2, <3>3, <3>5 DEF OrderInv, Ahead
    <3>7. fate' \in [Commands -> Fate]
      BY <1>0, <3>1 DEF LinkTypeOK, Fate
    <3>8. QED
      BY <1>0, <1>1, <2>2, <3>2, <3>6, <3>7 DEF LinkInv, LinkTypeOK, LinkOk, Drained
  <2>5. QED BY <2>3, <2>4
<1>4. QED BY <1>2, <1>3

\* What u8CC430_ESI_SendBuffer does for the command or the frame n.
LEMMA Exchanged ==
  ASSUME LinkTypeOK, Drained, inbox = <<>>, NEW n \in Frame,
         u8CC430_ESI_SendBuffer(n)
  PROVE  /\ inBuffer' \in Seq(Bytes) /\ Len(inBuffer') <= BufferSize /\ Drained'
         /\ fate' \in [Commands -> Fate] /\ inReady' \in BOOLEAN
         /\ \/ inbox' = <<>> /\ unread' \in {unread, n, Nobody}
            \/ inbox' = <<n>> /\ unread' = Nobody /\ inReady'
            \/ unread # Nobody /\ inbox' = <<unread>> /\ unread' = n /\ inReady'
<1>1. \A what \in Fate :
        (IF n = Own THEN fate ELSE [fate EXCEPT ![n] = what]) \in [Commands -> Fate]
  BY DEF LinkTypeOK
<1>2. fate' \in [Commands -> Fate]
  BY <1>1 DEF u8CC430_ESI_SendBuffer, Fate
<1>3. CASE UNCHANGED <<inBuffer, inbox, inReady>> /\ unread' \in {unread, n}
  BY <1>2, <1>3 DEF LinkTypeOK, Drained
<1>4. ASSUME NEW read \in {InTime(n), TooEarly(n, Blank), TooEarly(n, Cut)} \union
                          (IF unread = Nobody THEN {} ELSE {TooEarly(n, unread)}),
             vCC430_ITF_DataReceived(read.bytes), unread' = read.left
      PROVE  /\ inBuffer' \in Seq(Bytes) /\ Len(inBuffer') <= BufferSize /\ Drained'
             /\ inReady' \in BOOLEAN
             /\ \/ inbox' = <<>> /\ unread' \in {unread, n, Nobody}
                \/ inbox' = <<n>> /\ unread' = Nobody /\ inReady'
                \/ unread # Nobody /\ inbox' = <<unread>> /\ unread' = n /\ inReady'
  <2>1. \/ read.bytes = n /\ read.left = Nobody
        \/ read.bytes \in {Blank, Cut} /\ read.left = n
        \/ unread # Nobody /\ read.bytes = unread /\ read.left = n
    BY <1>4 DEF InTime, TooEarly
  <2>2. read.bytes \in Bytes
    BY <2>1, Numbers DEF LinkTypeOK
  <2>3. /\ inBuffer' \in Seq(Bytes) /\ Len(inBuffer') <= BufferSize /\ Drained'
        /\ \/ UNCHANGED <<inbox, inReady>>
           \/ /\ read.bytes \in Frame /\ inbox' = Append(inbox, read.bytes)
              /\ inReady' = TRUE
    BY <1>4, <2>2, Received
  <2>4. Append(inbox, read.bytes) = <<read.bytes>>
    OBVIOUS
  <2>5. QED BY <1>4, <2>1, <2>3, <2>4, Numbers DEF LinkTypeOK
<1>5. QED BY <1>2, <1>3, <1>4 DEF u8CC430_ESI_SendBuffer

\* The second half: the reply read is that of the frame sent or of one before it.
LEMMA OutboxLink ==
  ASSUME LinkInv, pc = "outbox", pc' = "frames", ProcessOutbox
  PROVE  LinkInv'
<1>0. LinkTypeOK /\ LinkOk /\ Drained /\ OrderInv /\ inbox = <<>>
  BY DEF LinkInv, LinkOk
<1>1. forwards' = forwards /\ replies' = replies
  BY DEF ProcessOutbox
<1>2. CASE outbox = <<>>
  <2>1. outReady' \in BOOLEAN
        /\ UNCHANGED <<outbox, inBuffer, inbox, inReady, unread, fate>>
    BY <1>0, <1>2 DEF ProcessOutbox, LinkTypeOK
  <2>2. QED
    BY <1>0, <1>1, <1>2, <2>1 DEF LinkInv, LinkTypeOK, LinkOk, Drained, OrderInv
<1>3. CASE outbox # <<>>
  <2> DEFINE n == Head(outbox)
  <2>1. /\ n \in Frame /\ Tail(outbox) \in Seq(Frame) /\ n = outbox[1]
        /\ Len(outbox) \in Nat /\ Len(Tail(outbox)) = Len(outbox) - 1
        /\ 1 \in 1 .. Len(outbox) /\ Depth \in Nat
        /\ \A i \in 1 .. Len(Tail(outbox)) :
             i + 1 \in 1 .. Len(outbox) /\ Tail(outbox)[i] = outbox[i + 1]
    BY <1>0, <1>3, HeadTailProperties, LinkAssumption DEF LinkTypeOK
  <2>2. /\ outbox' = Tail(outbox) /\ outReady' = outReady
        /\ u8CC430_ESI_SendBuffer(n) /\ outReady
    BY <1>0, <1>3 DEF ProcessOutbox, LinkOk
  <2> HIDE DEF n
  <2>3. /\ inBuffer' \in Seq(Bytes) /\ Len(inBuffer') <= BufferSize /\ Drained'
        /\ fate' \in [Commands -> Fate] /\ inReady' \in BOOLEAN
        /\ \/ inbox' = <<>> /\ unread' \in {unread, n, Nobody}
           \/ inbox' = <<n>> /\ unread' = Nobody /\ inReady'
           \/ unread # Nobody /\ inbox' = <<unread>> /\ unread' = n /\ inReady'
    BY <1>0, <2>1, <2>2, Exchanged
  <2>a. /\ inbox' \in Seq(Frame) /\ Len(inbox') <= 1
        /\ unread' \in Frame \union {Nobody} /\ (inbox' # <<>> => inReady')
    <3>1. /\ <<>> \in Seq(Frame) /\ <<n>> \in Seq(Frame)
          /\ Len(<<>>) = 0 /\ Len(<<n>>) = 1
      BY <2>1
    <3>2. ASSUME unread # Nobody
          PROVE  /\ unread \in Frame /\ <<unread>> \in Seq(Frame)
                 /\ Len(<<unread>>) = 1
      BY <1>0, <3>2 DEF LinkTypeOK
    <3>3. unread \in Frame \union {Nobody}
      BY <1>0 DEF LinkTypeOK
    <3>4. CASE inbox' = <<>> /\ unread' \in {unread, n, Nobody}
      BY <2>1, <3>1, <3>3, <3>4
    <3>5. CASE inbox' = <<n>> /\ unread' = Nobody /\ inReady'
      BY <3>1, <3>5
    <3>6. CASE unread # Nobody /\ inbox' = <<unread>> /\ unread' = n /\ inReady'
      BY <2>1, <3>2, <3>6
    <3>7. QED BY <2>3, <3>4, <3>5, <3>6
  <2>4. LinkTypeOK'
    BY <1>0, <1>1, <2>1, <2>2, <2>3, <2>a DEF LinkTypeOK
  <2>5. LinkOk'
    BY <1>0, <2>2, <2>a DEF LinkOk
  <2>6. n \in In(outbox) /\ In(outbox') \subseteq In(outbox)
    BY <2>1, <2>2 DEF In
  <2>7. Rising(outbox') /\ Ahead({n}, In(outbox'))
    BY <1>0, <2>1, <2>2 DEF OrderInv, Rising, Ahead, In
  <2>8. \/ In(inbox') = {} /\ unread' \in {unread, n, Nobody}
        \/ In(inbox') = {n} /\ unread' = Nobody
        \/ In(inbox') = {unread} /\ unread' = n
    BY <2>3 DEF In
  <2>9. OrderInv'
    <3>1. In(replies') = In(replies) /\ Rising(replies')
      BY <1>0, <1>1 DEF OrderInv
    <3>2. Ahead(In(replies), In(inbox') \union {unread'} \union In(outbox'))
      BY <1>0, <2>6, <2>8, Numbers DEF OrderInv, Ahead
    <3>3. Ahead(In(inbox'), {unread'} \union In(outbox'))
      BY <1>0, <2>6, <2>7, <2>8, Numbers DEF OrderInv, Ahead
    <3>4. Ahead({unread'}, In(outbox'))
      BY <1>0, <2>6, <2>7, <2>8, Numbers DEF OrderInv, Ahead
    <3>5. \A x \in In(replies) \union In(inbox') \union {unread'} \union In(outbox') :
            x <= forwards
      BY <1>0, <2>6, <2>8, LinkTypes, Numbers DEF OrderInv
    <3>6. QED BY <1>1, <2>7, <3>1, <3>2, <3>3, <3>4, <3>5 DEF OrderInv
  <2>10. QED BY <2>3, <2>4, <2>5, <2>9 DEF LinkInv
<1>4. QED BY <1>2, <1>3

\* New frames come behind all others.
LEMMA SentLink ==
  ASSUME LinkInv, NEW frames \in Seq(Frame), SendFrames(frames),
         UNCHANGED <<inBuffer, inbox, inReady, unread, replies>>,
         pc' # "outbox", forwards' \in Frame, forwards <= forwards', Rising(frames),
         \A i \in 1 .. Len(frames) : frames[i] > 0 => forwards < frames[i] /\ frames[i] <= forwards'
  PROVE  LinkInv'
<1>0. LinkTypeOK /\ LinkOk /\ Drained /\ OrderInv
  BY DEF LinkInv
<1> DEFINE both == outbox \o frames
<1>1. /\ outbox' \in Seq(Frame) /\ Len(outbox') <= Depth
      /\ outReady' \in BOOLEAN /\ (outbox' # <<>> => outReady')
      /\ fate' \in [Commands -> Fate]
  BY <1>0, Sent
<1>2. PICK k \in Nat : \A i \in 1 .. Len(outbox') :
              i + k \in 1 .. Len(both) /\ outbox'[i] = both[i + k]
  BY <1>0, Sent
<1>3. /\ outbox \in Seq(Frame) /\ Len(outbox) \in Nat /\ Len(frames) \in Nat
      /\ Len(outbox') \in Nat /\ Len(both) = Len(outbox) + Len(frames)
      /\ \A i \in 1 .. Len(outbox) + Len(frames) :
           both[i] = IF i <= Len(outbox) THEN outbox[i] ELSE frames[i - Len(outbox)]
      /\ \A i \in 1 .. Len(outbox) : outbox[i] \in Nat /\ outbox[i] <= forwards
      /\ \A i \in 1 .. Len(frames) : frames[i] \in Nat
  <2>1. outbox \in Seq(Frame)
    BY <1>0 DEF LinkTypeOK
  <2>2. Frame \subseteq Nat
    BY Numbers
  <2>3. \A i \in 1 .. Len(outbox) : outbox[i] \in In(outbox)
    BY DEF In
  <2>4. \A i \in 1 .. Len(outbox) : outbox[i] \in Nat /\ outbox[i] <= forwards
    <3>1. \A i \in 1 .. Len(outbox) : outbox[i] \in Frame
      BY <2>1
    <3>2. \A n \in In(outbox) : n <= forwards
      BY <1>0 DEF OrderInv
    <3>3. QED BY <2>2, <2>3, <3>1, <3>2
  <2>5. \A i \in 1 .. Len(frames) : frames[i] \in Nat
    <3>1. \A i \in 1 .. Len(frames) : frames[i] \in Frame
      OBVIOUS
    <3>2. QED BY <2>2, <3>1
  <2>6. QED BY <1>1, <2>1, <2>4, <2>5, ConcatProperties
<1> HIDE DEF both
<1>4. /\ forwards \in Nat /\ forwards' \in Nat
      /\ \A n \in In(replies) \union In(inbox) \union {unread} \union In(outbox) :
           n \in Int /\ n <= forwards
  <2>1. Frame \subseteq Nat /\ Commands \subseteq Nat
    BY Numbers
  <2>2. \A n \in In(replies) \union In(inbox) \union In(outbox) : n \in Nat
    <3>1. /\ In(outbox) \subseteq Frame /\ In(inbox) \subseteq Frame
          /\ In(replies) \subseteq Commands
      BY <1>0, LinkTypes
    <3>2. QED BY <2>1, <3>1
  <2>3. unread \in Int /\ forwards \in Nat
    BY <1>0, LinkTypes
  <2>4. QED BY <1>0, <2>1, <2>2, <2>3 DEF OrderInv
<1>5. \A i, j \in 1 .. Len(both) : i < j /\ both[i] > 0 /\ both[j] > 0 => both[i] < both[j]
  <2>1. TAKE i, j \in 1 .. Len(both)
  <2>2. HAVE i < j /\ both[i] > 0 /\ both[j] > 0
  <2>3. CASE j <= Len(outbox)
    BY <1>0, <1>3, <2>2, <2>3 DEF OrderInv, Rising
  <2>4. CASE i > Len(outbox)
    <3>1. /\ i - Len(outbox) \in 1 .. Len(frames) /\ j - Len(outbox) \in 1 .. Len(frames)
          /\ i - Len(outbox) < j - Len(outbox)
          /\ both[i] = frames[i - Len(outbox)] /\ both[j] = frames[j - Len(outbox)]
      BY <1>3, <2>2, <2>4
    <3>2. QED BY <2>2, <3>1 DEF Rising
  <2>5. CASE i <= Len(outbox) /\ j > Len(outbox)
    <3>1. /\ j - Len(outbox) \in 1 .. Len(frames)
          /\ both[i] = outbox[i] /\ both[j] = frames[j - Len(outbox)]
          /\ i \in 1 .. Len(outbox)
      BY <1>3, <2>2, <2>5
    <3>2. QED BY <1>3, <1>4, <2>2, <3>1
  <2>6. QED BY <1>3, <2>3, <2>4, <2>5
<1>6. Rising(outbox')
  <2>1. SUFFICES ASSUME NEW i \in 1 .. Len(outbox'), NEW j \in 1 .. Len(outbox'),
                        i < j, outbox'[i] > 0, outbox'[j] > 0
                 PROVE  outbox'[i] < outbox'[j]
    BY DEF Rising
  <2>2. i + k < j + k
    BY <1>3, <2>1
  <2>3. QED BY <1>2, <1>5, <2>1, <2>2
<1>7. \A n \in In(outbox') : n \in In(outbox) \/ n = 0
                             \/ (n \in Nat /\ forwards < n /\ n <= forwards')
  <2>1. SUFFICES ASSUME NEW i \in 1 .. Len(outbox')
                 PROVE  \/ outbox'[i] \in In(outbox) \/ outbox'[i] = 0
                        \/ /\ outbox'[i] \in Nat
                           /\ forwards < outbox'[i] /\ outbox'[i] <= forwards'
    BY DEF In
  <2>2. i + k \in 1 .. Len(both) /\ outbox'[i] = both[i + k]
    BY <1>2
  <2>3. CASE i + k <= Len(outbox)
    BY <1>3, <2>2, <2>3 DEF In
  <2>4. CASE i + k > Len(outbox)
    BY <1>3, <2>2, <2>4
  <2>5. QED BY <1>3, <2>2, <2>3, <2>4
<1>8. OrderInv'
  <2>1. In(replies') = In(replies) /\ In(inbox') = In(inbox) /\ Rising(replies')
    BY <1>0 DEF OrderInv
  <2>2. Ahead(In(replies) \union In(inbox) \union {unread}, In(outbox'))
    <3>2. \A a \in In(replies) \union In(inbox) \union {unread} : \A b \in In(outbox) :
            a > 0 /\ b > 0 => a < b
      BY <1>0 DEF OrderInv, Ahead
    <3>3. QED BY <1>4, <1>7, <3>2 DEF Ahead
  <2>3. \A n \in In(replies) \union In(inbox) \union {unread} \union In(outbox') :
          n <= forwards'
    BY <1>4, <1>7
  <2>4. QED BY <1>0, <1>6, <2>1, <2>2, <2>3 DEF OrderInv, Ahead
<1>9. LinkTypeOK' /\ LinkOk' /\ Drained'
  BY <1>0, <1>1 DEF LinkTypeOK, LinkOk, Drained
<1>10. QED BY <1>8, <1>9 DEF LinkInv

\* vES_Slave_CommandHandler queues a command with the next number.
LEMMA ForwardLink ==
  ASSUME LinkInv, vES_Slave_CommandHandler, pc' # "outbox"
  PROVE  LinkInv'
<1>1. /\ forwards \in Nat /\ forwards < MaxForwards /\ MaxForwards \in Nat
      /\ forwards' = forwards + 1
  BY LinkTypes, Numbers DEF LinkInv, vES_Slave_CommandHandler
<1>2. forwards + 1 \in Frame
  BY <1>1 DEF Frame
<1> DEFINE frames == <<forwards + 1>>
<1>3. /\ frames \in Seq(Frame) /\ Len(frames) = 1
      /\ \A i \in 1 .. 1 : frames[i] = forwards + 1
  BY <1>2
<1>4. /\ SendFrames(frames)
      /\ UNCHANGED <<inBuffer, inbox, inReady, unread, replies>>
  BY DEF vES_Slave_CommandHandler
<1> HIDE DEF frames
<1>5. Rising(frames)
  BY <1>3 DEF Rising
<1>6. forwards' \in Frame /\ forwards <= forwards'
  BY <1>1, <1>2
<1>7. \A i \in 1 .. Len(frames) :
        frames[i] > 0 => forwards < frames[i] /\ frames[i] <= forwards'
  BY <1>1, <1>3
<1>8. QED BY <1>3, <1>4, <1>5, <1>6, <1>7, SentLink

\* Frames of the device have no place in the order.
LEMMA OwnLink ==
  ASSUME LinkInv, NEW n \in Nat, SendFrames([i \in 1 .. n |-> Own]), pc' # "outbox",
         UNCHANGED <<inBuffer, inbox, inReady, unread, forwards, replies>>
  PROVE  LinkInv'
<1> DEFINE frames == [i \in 1 .. n |-> Own]
<1>1. frames \in Seq(Frame) /\ Len(frames) = n /\ \A i \in 1 .. n : frames[i] = 0
  BY Numbers
<1>2. Rising(frames)
  BY <1>1 DEF Rising
<1>3. forwards' \in Frame /\ forwards \in Nat
  BY LinkTypes DEF LinkInv, LinkTypeOK
<1> HIDE DEF frames
<1>4. SendFrames(frames)
  BY DEF frames
<1>5. QED BY <1>1, <1>2, <1>3, <1>4, SentLink

-----------------------------------------------------------------------------
\* A pass builds frames in its last step only.
PassOk == pc # "bt" => built = {}

IInv == TypeOK /\ DueOk /\ SinceOk /\ PassOk /\ OnlyActiveBuilt /\ LinkInv

Cfg == [u8Active : {0, 1}, u8Mode : {0, 1}, u8Cmd : 0 .. 15,
        u16Time : 0 .. TimeMod - 1, u8TimeToSend : {0, 1}]

\* A window and its clocks.
LEMMA Windows ==
  ASSUME TypeOK
  PROVE  /\ TimeMod \in Nat /\ TimeMod >= 1
         /\ g_asCfgFrame \in [Window -> Cfg]
         /\ \A w \in Window : /\ elapsed[w] \in 0 .. TimeMod - 1
                              /\ since[w] \in 0 .. TimeMod
BY WindowAssumption DEF TypeOK, Cfg

\* A pass without a command.
LEMMA NoCommandKeeps == ASSUME IInv, NoCommand PROVE IInv'
<1>1. LinkInv'
  BY SameLink DEF IInv, NoCommand
<1>2. QED
  BY <1>1 DEF IInv, LinkInv, NoCommand, TypeOK, DueOk, SinceOk, PassOk,
     OnlyActiveBuilt, Builds

\* A pass with one for the CC430.
LEMMA ForwardKeeps == ASSUME IInv, Forward PROVE IInv'
<1>1. LinkInv'
  BY ForwardLink DEF IInv, Forward
<1>2. QED
  BY <1>1 DEF IInv, LinkInv, Forward, TypeOK, DueOk, SinceOk, PassOk,
     OnlyActiveBuilt, Builds

\* vCC430_ITF_IdleTask leaves the windows as they are.
LEMMA IdleTaskKeeps == ASSUME IInv, vCC430_ITF_IdleTask PROVE IInv'
<1>1. LinkInv'
  BY InboxLink, OutboxLink DEF IInv, vCC430_ITF_IdleTask
<1>2. UNCHANGED windowVars /\ pc # "bt" /\ pc' \in {"outbox", "frames"}
  BY DEF vCC430_ITF_IdleTask
<1>3. QED
  BY <1>1, <1>2 DEF IInv, LinkInv, windowVars, TypeOK, DueOk, SinceOk, PassOk,
     OnlyActiveBuilt, Builds

\* u8ModeMngt_BleFrameCfg: a window whose frame is still due becomes stale.
LEMMA ConfigureKeeps ==
  ASSUME IInv, NEW win \in SUBSET Window, NEW asked \in [win -> Choice],
         u8ModeMngt_BleFrameCfg(asked)
  PROVE  IInv'
<1>0. TypeOK /\ DueOk /\ SinceOk
  BY DEF IInv
<1>1. LinkInv'
  BY SameLink DEF IInv, u8ModeMngt_BleFrameCfg
<1>2. /\ pc' = "inbox" /\ built' = {} /\ configs' = configs + 1
      /\ UNCHANGED <<elapsed, unseen, since>>
      /\ g_asCfgFrame' = [w \in Window |->
                            IF w \in DOMAIN asked
                            THEN ConfiguredBy(g_asCfgFrame[w], asked[w])
                            ELSE g_asCfgFrame[w]]
      /\ stale' = stale \union {w \in DOMAIN asked : g_asCfgFrame[w].u8TimeToSend = 1}
  BY DEF u8ModeMngt_BleFrameCfg
<1>3. \A w \in win :
        /\ ConfiguredBy(g_asCfgFrame[w], asked[w]) \in Cfg
        /\ LET c == ConfiguredBy(g_asCfgFrame[w], asked[w])
           IN  /\ c.u8Active = 1 <=> c.u8Cmd # BleCmd
               /\ c.u8TimeToSend = g_asCfgFrame[w].u8TimeToSend
  <2>1. TAKE w \in win
  <2>2. asked[w] \in [u8Mode : {0, 1}, u8Cmd : 0 .. 15, u16Time : 0 .. TimeMod - 1]
    BY WindowAssumption
  <2>3. g_asCfgFrame[w] \in Cfg
    BY <1>0, Windows
  <2>4. QED BY <2>2, <2>3 DEF ConfiguredBy, Cfg
<1>4. \A w \in Window :
        /\ w \in win => g_asCfgFrame'[w] = ConfiguredBy(g_asCfgFrame[w], asked[w])
        /\ w \notin win => g_asCfgFrame'[w] = g_asCfgFrame[w]
  BY <1>2
<1>5. g_asCfgFrame' \in [Window -> Cfg]
  BY <1>0, <1>2, <1>3, Windows
<1>6. TypeOK'
  BY <1>0, <1>1, <1>2, <1>5 DEF TypeOK, LinkInv, Cfg
<1>7. DueOk'
  <2>1. SUFFICES ASSUME NEW w \in Window
                 PROVE  /\ g_asCfgFrame'[w].u8Active = 1 <=> g_asCfgFrame'[w].u8Cmd # BleCmd
                        /\ g_asCfgFrame'[w].u8TimeToSend = 1 => w \in stale' \/ ~Builds(w)'
    BY DEF DueOk
  <2>2. CASE w \in win
    BY <1>2, <1>3, <1>4, <2>2
  <2>3. CASE w \notin win
    BY <1>0, <1>2, <1>4, <2>3 DEF DueOk, Builds
  <2>4. QED BY <2>2, <2>3
<1>8. SinceOk'
  BY <1>0, <1>2 DEF SinceOk
<1>9. QED BY <1>1, <1>2, <1>6, <1>7, <1>8 DEF IInv, PassOk, OnlyActiveBuilt

\* What vModeMngt_FrameProcess builds.
LEMMA FramesBuilt ==
  ASSUME IInv, FrameProcess
  PROVE  \E due \in SUBSET Window, ready \in SUBSET Window :
           /\ \A w \in due : Due(w)
           /\ \A w \in ready : Builds(w) /\ (w \in due \/ g_asCfgFrame[w].u8TimeToSend = 1)
           /\ \A w \in due : Builds(w) => w \in ready
           /\ pc = "frames" /\ pc' = "bt" /\ unseen' = 0
           /\ elapsed' = [w \in Window |-> IF w \in due THEN 0 ELSE elapsed[w]]
           /\ g_asCfgFrame' =
                [w \in Window |-> [g_asCfgFrame[w] EXCEPT !.u8TimeToSend =
                   IF w \in ready THEN 0 ELSE IF w \in due THEN 1 ELSE @]]
           /\ SendFrames([i \in 1 .. Cardinality(ready) |-> Own])
           /\ built' = ready
           /\ since' = [w \in Window |-> IF w \in ready THEN 0 ELSE since[w]]
           /\ stale' = stale \ (due \intersect ready)
           /\ UNCHANGED <<inBuffer, inbox, inReady, unread, forwards, replies, configs>>
<1> DEFINE due == IF unseen = 0 THEN {} ELSE {w \in Window : Due(w)}
           toSend == due \union {w \in Window : g_asCfgFrame[w].u8TimeToSend = 1}
           ready == IF due = {} THEN {} ELSE {w \in toSend : Builds(w)}
<1>1. due \in SUBSET Window /\ ready \in SUBSET Window
  OBVIOUS
<1>2. /\ \A w \in due : Due(w)
      /\ \A w \in ready : Builds(w) /\ (w \in due \/ g_asCfgFrame[w].u8TimeToSend = 1)
      /\ \A w \in due : Builds(w) => w \in ready
  OBVIOUS
<1>3. /\ pc = "frames" /\ pc' = "bt" /\ unseen' = 0
      /\ elapsed' = [w \in Window |-> IF w \in due THEN 0 ELSE elapsed[w]]
      /\ g_asCfgFrame' =
           [w \in Window |-> [g_asCfgFrame[w] EXCEPT !.u8TimeToSend =
              IF w \in ready THEN 0 ELSE IF w \in due THEN 1 ELSE @]]
      /\ SendFrames([i \in 1 .. Cardinality(ready) |-> Own])
      /\ built' = ready
      /\ since' = [w \in Window |-> IF w \in ready THEN 0 ELSE since[w]]
      /\ stale' = stale \ (due \intersect ready)
      /\ UNCHANGED <<inBuffer, inbox, inReady, unread, forwards, replies, configs>>
  BY DEF FrameProcess
<1> HIDE DEF due, ready
<1>4. QED BY <1>1, <1>2, <1>3

\* vModeMngt_FrameProcess starts the time of a window anew when it builds its frame.
LEMMA FrameProcessKeeps == ASSUME IInv, FrameProcess PROVE IInv'
<1>0. TypeOK /\ DueOk /\ SinceOk /\ LinkInv
  BY DEF IInv
<1>1. PICK due \in SUBSET Window, ready \in SUBSET Window :
           /\ \A w \in due : Due(w)
           /\ \A w \in ready : Builds(w) /\ (w \in due \/ g_asCfgFrame[w].u8TimeToSend = 1)
           /\ \A w \in due : Builds(w) => w \in ready
           /\ pc = "frames" /\ pc' = "bt" /\ unseen' = 0
           /\ elapsed' = [w \in Window |-> IF w \in due THEN 0 ELSE elapsed[w]]
           /\ g_asCfgFrame' =
                [w \in Window |-> [g_asCfgFrame[w] EXCEPT !.u8TimeToSend =
                   IF w \in ready THEN 0 ELSE IF w \in due THEN 1 ELSE @]]
           /\ SendFrames([i \in 1 .. Cardinality(ready) |-> Own])
           /\ built' = ready
           /\ since' = [w \in Window |-> IF w \in ready THEN 0 ELSE since[w]]
           /\ stale' = stale \ (due \intersect ready)
           /\ UNCHANGED <<inBuffer, inbox, inReady, unread, forwards, replies, configs>>
  BY FramesBuilt
<1>2. Cardinality(ready) \in Nat
  BY <1>1, WindowAssumption, FS_Subset, FS_CardinalityType
<1>3. LinkInv'
  BY <1>0, <1>1, <1>2, OwnLink
<1>4. \A w \in Window :
        /\ g_asCfgFrame[w] \in Cfg /\ g_asCfgFrame'[w] \in Cfg
        /\ g_asCfgFrame'[w].u8Active = g_asCfgFrame[w].u8Active
        /\ g_asCfgFrame'[w].u8Mode = g_asCfgFrame[w].u8Mode
        /\ g_asCfgFrame'[w].u8Cmd = g_asCfgFrame[w].u8Cmd
        /\ g_asCfgFrame'[w].u8TimeToSend =
             IF w \in ready THEN 0 ELSE IF w \in due THEN 1
                                        ELSE g_asCfgFrame[w].u8TimeToSend
  BY <1>0, <1>1, Windows DEF Cfg
<1>5. g_asCfgFrame' \in [Window -> Cfg]
  BY <1>1, <1>4
<1>6. elapsed' \in [Window -> 0 .. TimeMod - 1] /\ since' \in [Window -> 0 .. TimeMod]
  BY <1>0, <1>1, Windows
<1>7. TypeOK'
  BY <1>0, <1>1, <1>3, <1>5, <1>6 DEF TypeOK, LinkInv, Cfg
\* A frame that is built without its window being due is a stale one.
<1>8. \A w \in ready \ stale : w \in due
  BY <1>0, <1>1 DEF DueOk
<1>9. \A w \in Window : Builds(w)' <=> Builds(w)
  BY <1>4 DEF Builds
<1>10. DueOk'
  BY <1>0, <1>1, <1>4, <1>9 DEF DueOk
<1>11. SinceOk'
  <2>1. SUFFICES ASSUME NEW w \in Window, w \notin stale'
                 PROVE  elapsed'[w] <= since'[w]
    BY DEF SinceOk
  <2>2. CASE w \in due
    BY <1>0, <1>1, <2>2, Windows
  <2>3. CASE w \notin due
    BY <1>0, <1>1, <1>8, <2>1, <2>3 DEF SinceOk
  <2>4. QED BY <2>2, <2>3
<1>12. OnlyActiveBuilt'
  <2>1. \A w \in ready \ stale' : w \in due
    BY <1>1, <1>8
  <2>2. \A w \in due \cap ready :
          /\ g_asCfgFrame[w].u8Active = 1 /\ g_asCfgFrame[w].u8Mode = 0
          /\ g_asCfgFrame[w].u8Cmd \in Known
    BY <1>0, <1>1 DEF DueOk, Due, Builds
  <2>3. QED BY <1>1, <1>4, <2>1, <2>2 DEF OnlyActiveBuilt
<1>13. QED BY <1>1, <1>3, <1>7, <1>10, <1>11, <1>12 DEF IInv, PassOk

\* RTC2_IRQHandler: elapsed wraps, since does not.
LEMMA RTCKeeps == ASSUME IInv, RTC2_IRQHandler PROVE IInv'
<1>0. TypeOK /\ DueOk /\ SinceOk
  BY DEF IInv
<1>1. LinkInv'
  BY SameLink DEF IInv, RTC2_IRQHandler
<1>2. \A w \in Window :
        /\ elapsed'[w] = IF elapsed[w] + 1 = TimeMod THEN 0 ELSE elapsed[w] + 1
        /\ since'[w] = IF since[w] = TimeMod THEN TimeMod ELSE since[w] + 1
        /\ elapsed'[w] \in 0 .. TimeMod - 1 /\ since'[w] \in 0 .. TimeMod
  BY <1>0, Windows DEF RTC2_IRQHandler
<1>3. elapsed' \in [Window -> 0 .. TimeMod - 1] /\ since' \in [Window -> 0 .. TimeMod]
  BY <1>2 DEF RTC2_IRQHandler
<1>4. TypeOK'
  BY <1>0, <1>1, <1>3 DEF TypeOK, RTC2_IRQHandler, LinkInv
<1>5. SinceOk'
  BY <1>0, <1>2, Windows DEF SinceOk, RTC2_IRQHandler
<1>6. QED
  BY <1>1, <1>4, <1>5 DEF IInv, DueOk, PassOk, OnlyActiveBuilt, Builds,
     RTC2_IRQHandler

\* The invariant holds at the start, ...
LEMMA FrameInit == Init => IInv
<1> SUFFICES ASSUME Init PROVE IInv
  OBVIOUS
<1>1. LinkInv
  <2>1. Drained
    BY Numbers DEF Init, LinkInit, Drained, FirstFrame, Heads
  <2>2. /\ outbox = <<>> /\ inbox = <<>> /\ replies = <<>> /\ inBuffer = <<>>
        /\ In(outbox) = {} /\ In(inbox) = {} /\ In(replies) = {}
        /\ Len(outbox) = 0 /\ Len(inBuffer) = 0 /\ Len(inbox) = 0 /\ Len(replies) = 0
    BY DEF Init, LinkInit, In
  <2>3. OrderInv
    BY <2>2 DEF Init, LinkInit, OrderInv, Ahead, Rising, Nobody
  <2>4. LinkTypeOK
    <3>1. fate \in [Commands -> Fate]
      BY DEF Init, LinkInit, Fate
    <3>2. /\ outbox \in Seq(Frame) /\ inbox \in Seq(Frame)
          /\ inBuffer \in Seq(Bytes) /\ replies \in Seq(Commands)
      BY <2>2
    <3>3. Len(outbox) <= Depth /\ Len(inBuffer) <= BufferSize
      BY <2>2, LinkAssumption
    <3>4. /\ outReady \in BOOLEAN /\ inReady \in BOOLEAN
          /\ unread \in Frame \union {Nobody} /\ forwards \in Frame
      BY Numbers DEF Init, LinkInit
    <3>5. QED BY <3>1, <3>2, <3>3, <3>4 DEF LinkTypeOK
  <2>5. LinkOk
    BY <2>2 DEF LinkOk
  <2>6. QED BY <2>1, <2>3, <2>4, <2>5 DEF LinkInv
<1>2. TypeOK
  <2>1. Off \in Cfg /\ 0 \in 0 .. TimeMod - 1 /\ TimeMod \in 0 .. TimeMod
    BY WindowAssumption DEF Off, Cfg
  <2>2. g_asCfgFrame \in [Window -> Cfg]
    BY <2>1 DEF Init
  <2>3. QED BY <1>1, <2>1, <2>2 DEF Init, TypeOK, LinkInv, Cfg
<1>3. DueOk /\ SinceOk
  BY WindowAssumption DEF Init, DueOk, SinceOk, Off, BleCmd
<1>4. QED BY <1>1, <1>2, <1>3 DEF Init, IInv, PassOk, OnlyActiveBuilt

\* ... and every step keeps it.
LEMMA FrameNext == IInv /\ [Next]_vars => IInv'
<1> SUFFICES ASSUME IInv, [Next]_vars PROVE IInv'
  OBVIOUS
<1>1. CASE MainLoop
  BY <1>1, NoCommandKeeps, ForwardKeeps, IdleTaskKeeps, FrameProcessKeeps
     DEF MainLoop
<1>2. CASE Configure
  BY <1>2, ConfigureKeeps DEF Configure
<1>3. CASE RTC2_IRQHandler
  BY <1>3, RTCKeeps
<1>4. CASE UNCHANGED vars
  <2>1. LinkInv'
    BY <1>4, SameLink DEF IInv, vars
  <2>2. QED
    BY <1>4, <2>1 DEF IInv, LinkInv, vars, windowVars, TypeOK, DueOk, SinceOk,
       PassOk, OnlyActiveBuilt, Builds
<1>5. QED BY <1>1, <1>2, <1>3, <1>4 DEF Next

\* IInv is an invariant.
LEMMA Invariant == Spec => []IInv
<1>1. Init => IInv
  BY FrameInit
<1>2. IInv /\ [Next]_vars => IInv'
  BY FrameNext
<1>3. QED BY <1>1, <1>2, PTL DEF Spec

\* FrameInv is an invariant: the types, the signals of the queues, what u8TimeToSend
\* means, and that l_u32OldTime is not before the last frame (ModeManagement.c).
THEOREM FrameInvariant == Spec => []FrameInv
<1>1. IInv => FrameInv
  BY DEF IInv, LinkInv, FrameInv
<1>2. QED BY <1>1, Invariant, PTL

\* Only frames of active windows are built (vModeMngt_FrameProcess).
THEOREM ActiveBuilt == Spec => []OnlyActiveBuilt
<1>1. IInv => OnlyActiveBuilt
  BY DEF IInv
<1>2. QED BY <1>1, Invariant, PTL

\* Replies reach the phone once and in order (CC430_Interface.c).
THEOREM InOrder == Spec => []RepliesInOrder
<1>1. IInv => RepliesInOrder
  <2>1. SUFFICES ASSUME IInv, NEW i \in 1 .. Len(replies), NEW j \in 1 .. Len(replies),
                        i < j
                 PROVE  replies[i] < replies[j]
    BY DEF RepliesInOrder
  <2>2. replies \in Seq(Commands) /\ Rising(replies)
    BY <2>1 DEF IInv, LinkInv, LinkTypeOK, OrderInv
  <2>3. replies[i] > 0 /\ replies[j] > 0
    <3>1. replies[i] \in Commands /\ replies[j] \in Commands
      BY <2>2
    <3>2. QED BY <3>1, Numbers DEF Commands
  <2>4. QED BY <2>1, <2>2, <2>3 DEF Rising
<1>2. QED BY <1>1, Invariant, PTL

\* The frames of a window are u16Time apart or more, although the clock is compared in
\* 16 bits (vModeMngt_FrameProcess).
THEOREM Paced == Spec => FramesPaced
<1> DEFINE P == \A w \in built' \ stale :
                  pc = "frames" => since[w] >= g_asCfgFrame[w].u16Time
<1>1. IInv /\ [Next]_vars => [P]_vars
  <2>1. SUFFICES ASSUME IInv, Next, pc = "frames", NEW w \in built' \ stale
                 PROVE  since[w] >= g_asCfgFrame[w].u16Time
    OBVIOUS
  <2>2. TypeOK /\ DueOk /\ SinceOk /\ built = {}
    BY <2>1 DEF IInv, PassOk
  <2>3. CASE FrameProcess
    <3>1. w \in Window /\ Due(w)
      BY <2>1, <2>2, <2>3, FramesBuilt DEF DueOk
    <3>2. elapsed[w] >= g_asCfgFrame[w].u16Time /\ elapsed[w] <= since[w]
      BY <2>1, <2>2, <3>1 DEF Due, SinceOk
    <3>3. /\ elapsed[w] \in Nat /\ since[w] \in Nat
          /\ g_asCfgFrame[w].u16Time \in Nat
      BY <2>2, <3>1, Windows DEF Cfg
    <3>4. QED BY <3>2, <3>3
  <2>4. CASE ~FrameProcess
    BY <2>1, <2>2, <2>4 DEF Next, MainLoop, Configure, NoCommand, Forward,
       vCC430_ITF_IdleTask, u8ModeMngt_BleFrameCfg, RTC2_IRQHandler
  <2>5. QED BY <2>3, <2>4
<1>2. QED BY <1>1, Invariant, PTL DEF Spec, FramesPaced
=============================================================================
