# TLA+ models of the exotic-sid-v4-nrf52 firmware

The firmware (`src/Firmware/AppBase/Src`) runs on an nRF52832 with Nordic's
SoftDevice S132. A main loop calls `vMSM_Process` and sleeps (`main.c`);
everything else happens in interrupt context: the SoftDevice's events
(connection, writes of the phone, completions of notifications, ends of flash
operations), the callbacks of the application timers and the radio
notifications. There is no operating system, no lock, and in the application's
own code not one critical section: what the two contexts share is kept in order
by flags, by indices and by the order of the statements. That is what these
modules are about.

Paths below are relative to `src/Firmware/AppBase/Src` unless they begin with
`src/`. `PROJECT.json` maps every definition to its lines.

## 1. Inventory

| Component | State | Operations | Meets |
|---|---|---|---|
| **ES_Queue** (`Libraries/ES_Queue.c`) | a ring of bytes, `index_read`, `index_write`, `element_counter` | `Init`, `Write` (gives up the oldest frames if there is no room), `Read`, `ClearAll` | BLE_Uart, BT_Interface, CC430_Interface, from both contexts |
| **BLE_Uart** (`BLE/BLE_Uart.c`) | `g_sBle_Uart_TxInfo` (lock, message, segment), output queue, CCCD and connection, `g_u16SegSize` | `u32BLE_Uart_SendBuffer` (main loop), handlers of connection, disconnection, CCCD write, MTU, HVN_TX_COMPLETE (interrupt) | BT_Interface above, the SoftDevice below |
| **BT_Interface + ES_Protocol** (`BLE/BT_Interface.c`, `Libraries/ES_Protocol/*`) | input buffer, inbox, outbox, signals `g_u32BthEsiFlags` | `vBT_ITF_DataReceived` (interrupt), `vBT_ITF_IdleTask`, `eBT_ITF_SendFrame` (main loop) | BLE_Uart, ES_Commands |
| **Main state machine** (`StateMachines/*.c`) | state, period, `g_u8CyclicProcess`, wake-up timer | `vMSM_Process`, `vMSM_StateMachineSet`, `vStateMachine_ChangeTime`; entry, process, check, exit of each state | BLE_Application, ModeManagement, ES_Commands, timers |
| **BLE_Application** (`BLE/BLE_Application.c`) | last BLE event, advertising state, device name, `g_au8AdvData` and its flag, connection handle | initialisation, event handlers, `vBLE_AdvDataUpdate`, `vBLE_UpdateName`, `vBleNotificationRadio`, start and stop of the advertising | SoftDevice, ble_advertising, state machine, ES_Commands |
| **ES_Commands, ES_SlaveMngt** (`Application/`) | none of their own | `vES_CommandHandler`, `vES_Slave_CommandHandler`, `vES_Slave_Init` | every component a command touches |
| **FrameBuilder** | the command to stream | `eFrameBuilder_CfgUpdate`, `eFrameBuilder_PayloadGet` | ConnectedSM, ModeManagement, ES_Commands |
| **ModeManagement** | `g_asCfgFrame`: the windows of the frames for the CC430; the times of the last ones | `vModeMngt_FrameProcess`, `u8ModeMngt_BleFrameCfg`, `u8ModeMngt_IsItTimeToSleep` | CC430_Interface, ES_Commands, state machine, RTC |
| **Memory, SID_Storage** | `g_u8PendingWrite`, `g_u8IsMemInitialized`, one static buffer | initialisation, read, asynchronous FDS write waited for with a time limit | fds, ES_Commands, InitSM |
| **fds** (SDK) | queue of operations, `m_pages`, `m_swap_page`, `m_gc`, pages and records in the flash | initialisation, write, update, read, open and close, garbage collection, events to all its users | Memory, BLE_Application (collection), Peer Manager |
| **CC430_Interface** | input buffer, inbox, outbox, signals | idle task, send, receive, over I2C with a ready line | ModeManagement, ES_SlaveMngt |
| SensorManager and drivers, HAL, BLE_Service, bootloader, SDK | | | |

What is hard, and what makes each component correct:

* **ES_Queue**: no frame held is damaged by the one being written, whichever
  frames that one gives up; a read gives the oldest frame whole; the counter
  agrees with the indices. Hard: length bytes and payloads that cross the end
  of the ring, evictions of several frames in one write.
* **BLE_Uart**: one context at a time cuts messages; messages and segments
  reach the peer in order; no message waits without somebody who will send it;
  no message outlives its link. Hard: the completion events preempt
  `u32BLE_Uart_SendBuffer` between any two of its statements, and a
  disconnection resets the state below it.
* **BT_Interface**: a command received whole is handled once, in order, or
  given up for a newer one; an answer leaves. Hard: commands cut into any
  writes, the signal word changed in both contexts, the inbox that gives up a
  frame the main loop is reading.
* **Main state machine**: it follows the link and the advertising; it always
  runs again; it sleeps only when the radio is silent; it does not stay
  unreachable. Hard: everything it looks at is changed in interrupt context,
  and it looks only once per period.
* **Memory, SID_Storage**: a write is reported as done only when it is; what is
  reported survives a reset; a record holds what was written to it. Hard: the
  event may come before the flag that it clears is set, after the time limit,
  or be that of another user; the flash reads the caller's buffer when it gets
  to it; a reset may cut an update in two.
* **fds**: an operation accepted is done once and reported; a record acknowledged
  is found, whole, until it is replaced; the pages can be used after every
  reset. Hard: main loop and interrupts queue operations, and this build
  leaves out the critical sections; a collection moves every record while
  writes wait, records are read and steps fail; a reset may cut it anywhere,
  and the initialisation has only the tags to tell how far it was.
* **BLE_Application**: the data on air are whole and current. Hard: they are
  built in the main loop and taken by the interrupt before a radio event.
* **ModeManagement, CC430_Interface**: a window's frame goes out in time and no
  sooner; a reply goes to the one who asked, once. Hard: the time is compared
  in 16 bits and only once per pass, a window's flag outlives its
  configuration, and the CC430 may answer after the wait for it is over.

`PROJECT.json` lists these hazards one by one, at the line, with the properties
that cover them.

## 2. Modules

| Module | Content |
|---|---|
| `DropOldestFifo` | abstract: a bounded FIFO which gives up its oldest frames, no more than it needs |
| `ESQueue` | the ring, byte by byte; `ESQueueFifo` its refinement of `DropOldestFifo`; `ESQueue_proofs` |
| `BleUartTx` | the transmitter of `BLE_Uart.c`, main loop and interrupt; `BleUartTx_proofs` |
| `BtInterface` | the command link, from the writes of the phone to the answers; `BtInterface_proofs` |
| `MainStateMachine` | the state machine, BLE events, advertising, timers, waiting for the flash; `MainLoop_proofs` |
| `Advertising` | name and advertising data, main loop against the radio's interrupt |
| `Storage` | extends `Advertising`: commands that write, Memory, SID_Storage, fds, resets; `Storage_proofs` |
| `FdsQueue` | the queue of fds: main loop against interrupts, without critical sections; `FdsQueue_proofs` |
| `FdsPages` | the pages of fds: initialisation after any reset, writes, garbage collection; `FdsPages_proofs`, `FdsRecords_proofs` |
| `Cc430Link` | the link to the CC430 |
| `FrameWindows` | extends `Cc430Link`: the main loop's background pass, the windows and the clock; `MainLoop_proofs` |
| `MC*` | instances for TLC |

All the concurrent modules (all but `ESQueue`, `Cc430Link` and `FrameWindows`,
whose code runs in the main loop alone, and `FdsPages`, below) use one convention. The main loop is a program
counter `pc` (`at` in `MainStateMachine`), and one step is the code between two accesses to what an
interrupt may change. An interrupt handler is one step, because nothing the
main loop does can come in between; the one exception is the loop of
`vBleUart_OnTxComplete`, during which the SoftDevice below it goes on sending
(`isr`). Steps of the radio, the phone and the timers are actions of their own.
Definitions have the names of the functions and variables they stand for.

Some variables are history: no action of the code reads them. `fate`,
`origin`, `last`, `answered` and `cfgLink` remember what became of a message.
`hit` remembers which of the code's *windows* an interrupt has hit. A window is a
short piece of code in which an interrupt does something the code does not
survive. The properties say "unless window w was hit", and so they say three
things: the property holds in every other interleaving, the windows named are
all there are, and a window is real: with one window less TLC finds the
property violated (section 5 says what happens in each). `hit` is emptied
when the code resets the state concerned.

### ESQueue
`buffer`, the two indices and the counter are those of the code; the client's
frame and the place in the function complete the state, with a history of
the frames written (`log`, of which `oldest` is the oldest still held) and of
which byte of which frame each slot holds (`owner`, `offset`). `WriteBegin`, `PutByte`,
`OverlapLength`, `SkipByte`, `GiveUpEnd` and `WriteEnd` are
`ES_Queue_Write` with `ES_Queue_PreventOverlap`; `ReadBegin`, `GetByte`,
`ReadEnd` and `ReadEmpty` are `ES_Queue_Read`. The calls are sequential here;
what preemption does to the indices is in `BleUartTx` and `BtInterface`, whose
queues are rings of whole messages with the copies of the indices that the code
makes. `overlap_counter`, which nothing reads, is left out.

### BleUartTx
The main loop: `u32BLE_Uart_SendBuffer` (call), `TestLocked`, `StoreData`,
`TestMore`, `SendSegment`, `CountSegment`, `SetLocked`, and for a locked
transmitter `CopyIndices`, `StoreBytes`, `PublishIndices` of `ES_Queue_Write`.
The handlers: `OnConnect`, `OnDisconnect`, `OnWriteCccd`,
`vBLE_Uart_onGattEvt`, `OnTxComplete` with `ContinueMessage` and `NextMessage`.
The SoftDevice: `Hvx*` (the three outcomes of `sd_ble_gatts_hvx`), `Transmit`,
`LinkUp`, `LinkLost`, `Subscribe`, `Unsubscribe`, `ExchangeMtu`, whose events
are queued in `events` and handled later, one after the other, and
`AdvertisingEnds`: its BLE_GAP_EVT_TIMEOUT resets the transmitter as a
disconnection does (`BLE/BLE_Uart.c:409`).
Messages are numbers and all have one length, counted in units of the default
segment. Windows: `lock` (a completion is handled between the refused
notification and `u8Locked = 1`), `queue` (a completion during the write of the
queue), `reset` (a disconnection during a call), `error` (another error in the
handler's loop), `mtu` (the segment size changes during a message, or is larger
than the link allows).

### BtInterface
A frame is a few units (magic, header, payload with CRC) and the phone cuts it
into writes in every possible way. `vBT_ITF_DataReceived` is one interrupt
step: buffer, `CheckForValidFrame`, `PutIntoInbox`. The main loop's
`vBT_ITF_IdleTask` reads the inbox (`BeginRead`, `CopyFrame`, `PublishIndex`),
handles one command (`Handle`, which puts the answer into the outbox) and sends
one frame (`ProcessOutbox`); `StreamFrame` is the frame `vConnected_Process`
sends. `SetFlags` and `ClearFlags` are a read and a later store (`StoreFlags`).
Windows: `flag` (a frame comes between the read that found the inbox empty and
the end of the update of the flags, or during the update of the other signal)
and `read` (the full inbox gives up a frame during `ES_Queue_Read`); `cut`
remembers that a link was lost in the middle of a frame. The return code of the
read is ignored by `ESI_ProcessIncomingFrame`, as in the code.

### MainStateMachine
`vMSM_Process`, `Check` (the check of each state), `CheckAdvertising` (the
second half of `vOperational_Check`, an interrupt later), `Leave` and `Enter`
(`vMSM_StateMachineSet`), `Rearm` (the end of `vMSM_Process`), then the
background: `Subscribe` (CMD_SENSOR_CYC_DATA_SUB with
`vStateMachine_ChangeTime`), `WriteFlash` and `FlashDone` (any command that
writes to the flash) or `NothingToHandle`. Interrupts: `Tick`, `WakeUpTimeout`,
`Connect`, `Disconnect`, `AdvertisingTimeout`, `SendCommand`, and `PeerWrite` and
`PeerWriteEnds`: the Peer Manager stores a bond. `AdvertisingStart`
is `ble_advertising_start`, which is put off while the flash is `Busy` with a write
of either; `PendingStart`, at the end of a write, makes it good unless the other
is still under way. `g_eAdvState` is the record `vOnAdvEvt` keeps, which a
connection does not update. `vError_Check` resets the chip. A period is 0, 1 or
`Refused`, one whose ticks, which wrap at 32 bits, are below the least a timer takes:
`eHal_Timer_Start` refuses it, and its result is ignored (`MainStateMachine.c:284`).
`zero` in `hit` means that a command stopped the timer of CONNECTED (`Stalled`: or
that its period is a refused one), `late` that
a command outlived its link, `unseen` that a link came or went while the state
machine was not in the state to see it. Left out: sensors and their frames, the
CC430, and what becomes of a flash write (`Storage` has it).

### Advertising and Storage
`Storage` is a device with its flash. After `eMemory_Init`, `eStorage_Init`
(which reads the name, or writes the default one) and `vES_Slave_Init` (which
reads the windows) the main loop is `idle` and takes a command: `CmdBleName`,
`CmdFrameCfgSet`, `CmdFrameCfgGet`, or enters OPERATIONAL
(`vBLE_AdvDataUpdate`, `AdvDataFill`). A write is `WriteBegin` (the static
buffer is filled), `Enqueue` or `Refuse`, `PendingSet` (the flag, after the
call), then `WaitOver` or `TimeLimit`, each with the `Answer` to the phone. The
file system takes the oldest operation through `WriteStart` (the record to
replace is looked for, and the data are read from the caller's buffer),
`HeaderFinalize` (the record is valid; the data it holds are those of the
buffer then, before, or a mixture if it changed), `FlagDirty` (the old record is
not) or `OperationFails`; each end calls `vMemoryEventHandler`, which does not
ask whose operation it was. `PeerWrite` and `PeerWritten` are the Peer
Manager's. `Reset` (a loss of power, or the watchdog; CMD_RESET, which
`ES_Commands.c:99` accepts, does nothing) may come between any two steps. What a command carries is its
number: a name is the number of the command that set it, a window's
configuration the number of the one that configured it. `acked` and `tried`
remember what the phone was told.
Mishaps in `hit`: `late` (the time limit passes with the operation still in the
queue), `foreign` (the Peer Manager's event ends the wait), `cut` (an update
ends between its last two steps), `init` (the file system was not ready when the
name was looked for), `partial` (a configuration leaves out windows that
run, which its record forgets). In `advHit`: `torn` (data are built while those
before wait for the radio), `stale` (the name changes while they do).

### FdsQueue and FdsPages
`Storage` takes a call of `write_enqueue` as one step and the flash as a set of
records. These two modules look into fds itself.

`FdsQueue` is `write_enqueue` in the main loop, one access to shared state per
step: `ReserveLoad`, `ReserveStore` (`words_reserved`), `IdLoad`, `IdStore`,
`IdRead` (`record_id_new`), `EnqueueTest`, `ChooseSlot`, `StoreOp`, `CountLoad`,
`CountStore` (`op_enqueue`), `FreeLoad`, `FreeStore`, `StartTest`, `StartSet`
(`queue_start`), `queue_process`. Between any two of them the Peer Manager
may write (`PeerWrite`) or a flash operation end (`FlashOperationEnds`, then
`queue_process`), which is possible because `CRITICAL_SECTION_ENTER` is empty
without `FDS_THREADS` (`fds_internal_defs.h:319`). Where the code names a
variable twice, both compilations are allowed: the second time it is loaded again,
or the value of the first is used (`IdRead`, `ChooseSlot`, `CountLoad`). `hit` names the place where the interrupt came.

`FdsPages` is what the operations do. An interrupt per step: `FlashEnds` or
`FlashFails` ends the one flash operation, and `queue_process` goes on with
`init_execute` (`Init*`), `write_execute` (`Write*`) or `gc_execute` (`Gc*`).
`fds_init` reads the pages (`pages_init`) and chooses its first step
(`FirstStep`). Its switch has no case for two swap pages, or a swap page without
data pages (`Unnamed`); the step is then what the variable on the stack holds,
any of the four or none (`FirstSteps`, `unset`). A page is a tag and
a few slots of equal length; `PartlyDone` says which partly written flash a reset
may leave (half a tag; a page is erased or not). The callers come between the
steps: `write_enqueue`, `fds_gc`, `fds_record_open`, `fds_record_close`.
`Reset` may come at any time. Mishaps in `hit`: `gap` (the write of a
record failed before its header was complete; the offset passes it, a search
does not pass an erased word), `twins` (two valid records of a key: an update
ends between them, or a write does not find the one that a repeated erasure
leaves on the swap page alone), `resume` (a record is written while a collection
is suspended, and may be lost on the page erased when it resumes, or go to one
erased already), `advance` (a second `fds_gc` takes the mark of the retry too
early), `tag` (a reset leaves half a tag),
`candidate` (the wrong page is exchanged for the swap page), `open` (a record is
opened while its page is erased), `unset` (the switch had no case). Each was found by TLC as a counterexample to
the property that now names it, and the property without it fails again.

### Cc430Link and FrameWindows
`FrameWindows` is `vBackgroundProcess`: one command of the phone or none
(`NoCommand`, `u8ModeMngt_BleFrameCfg`, `Forward`), the two halves of the link's
idle task (`ProcessInbox`, `ProcessOutbox`), and `FrameProcess`, which is
`vModeMngt_FrameProcess`. The clock (`RTC2_IRQHandler`) is read once per pass, so
that an interrupt more makes no difference inside one; the code uses it
only in differences, which are what the model keeps, one of them in 16 bits.
`u8CC430_ESI_SendBuffer` writes a frame to the chip and reads its reply at
once: in time, too early (nothing, a part, or what the chip still had of an
earlier reply), or with an error of the bus. What is not a valid frame stays in
the input buffer (`vCC430_ITF_DataReceived`), and what is valid after that is
judged by the first magic in it. Frames of the device's own are all `Own`, a
command of the phone is its number. `stale` remembers the windows configured
while a frame of theirs was due which could not be built: `u8TimeToSend`
outlives the configuration. The constant `NO_CC430_ON_BOARD` is that of the
code, 1 on the default board.

## 3. Runs

| Run | States | Question |
|---|---|---|
| `es_queue` | 120 488 | Is a frame in the ring ever damaged, and is the ring the abstract FIFO? |
| `ble_uart_tx` | 680 519 | Do main loop and handlers keep the transmitter in order under every preemption? |
| `ble_uart_lock` | | violation, section 5 |
| `bt_interface` | 308 908 | Is every command handled, once and in order, and every answer sent? |
| `bt_interface_failed` | | violation, section 5 |
| `main_state` | 466 615 | Does the state machine follow the link, run again, and stay reachable? |
| `main_state_stall` | | violation, section 5 |
| `storage` | 402 127 | Is what the phone was told in the flash, and on air, whatever fails and whenever the device restarts? |
| `fds_queue` | 348 833 | What may an interrupt do to the queue of fds without critical sections, and is it in order everywhere else? |
| `fds_pages` | 464 171 | Does fds keep its records and its pages through collections, failures and resets? |
| `fds_promote` | | violation, section 5 |
| `frame_windows` | 265 840 | Are the frames of the windows in time, and do the replies of the CC430 come back once and in order? |

Properties, in the order of the runs:

* `BytesIntact` (from the read index on, the buffer holds the frames neither read
  nor given up, byte for byte, and what is written of a new one, at every step of a
  write, give-up or read), `ReadsOldest`, the inductive `RingInv` (which contains
  the type invariant), and the refinement `IsDropOldestFifo`.
* `OneSender` (the two contexts never both cut), `LockedImpliesWakeup` (a lock is
  always followed by a completion), `OnlyItsLink`, the inductive `TxInv` (which
  contains the type invariant and `WaitingImpliesLocked`: nobody waits behind an
  open lock), the action property `WireInOrder` and the liveness property
  `EventuallySettled`.
* `BufferIsPartOfFrame`, `NothingLeaks`, `AnswersInOrder`, `InboxSignalled`,
  `OutboxSignalled`, the action property `HandledInOrder` (in order and once),
  the liveness property `EventuallyHandled`.
* `AsleepIsSilent`, `ProcessRunsAgain`, `SubscriptionOfThisLink`, and the
  liveness properties `FollowsLink` and `Reachable`.
* `RecordsWhole` (the static buffer is not used again too early),
  `AckedSurvives` (what was acknowledged is what a read finds, at any moment and
  after any reset), `ConfigAgrees` (the windows that run are those stored),
  `AdvertisedNameCurrent`, the inductive `StorageInv` (which contains the type
  invariant and `KeysUnique`: one record of a key, which `Memory.c:202` relies
  on), and the liveness property `EveryCommandAnswered` (no event is needed to
  get out of a wait). Each names the mishaps it does not survive.
* `QueueExact` (what was accepted is what has ended followed by what is queued),
  `FdsQueueInv` (types; `OneAtATime`: one flash operation, exactly while the
  flag says so; `ReservedExact`: the room reserved is that of the operations
  not ended; `IdsUnique`), and the liveness property `EventComes`.
* `RecordsKept` (what was acknowledged is found, whole, and nothing older of its
  key), `AlwaysMounts` (no reset leaves pages that `fds_init` refuses, or that its
  switch has no case for),
  `FdsPagesInv` (types; `WritesFit`: every record goes to an erased place inside
  its page, also when a collection came between its acceptance and its turn;
  `PagesAgree`: RAM and tags agree, no page is used twice or lost), and the
  liveness property `OperationsEnd`. All name the mishaps they do not survive.
* `RepliesInOrder`, the inductive `FrameInv`, the action
  property `FramesPaced`, and the liveness properties `WindowServed` (a window
  is served again and again while it is configured, if its time is below the
  wrap by a pass or more) and `EveryForwardSettled`.

Every property of a passing run has a mutant in `PROJECT.json`: an operator of
the module that changes one definition as a plausible bug would, under which
TLC finds that property violated. They stand directly before the definition
they replace.

**Bounds.** `ESQueue`: a ring of 8 bytes and frames of 1, 2 and 5 bytes; 4
writes with any reads and clears between them put frames at all the offsets,
wrap lengths and payloads, and make one write give up none, one or two frames,
and one frame fill the ring. `BleUartTx`: messages of two default segments,
one place in the queue and one in the SoftDevice, three messages, two links, one
subscription on each: with three messages one is being sent, one waits, one is
given up; the second link shows what the first leaves behind. `BtInterface`:
frames of 3 units in a buffer of 4 (a second frame does not fit behind a cut
one), an inbox for two frames, five frames (two evictions in one read), two
streamed frames. `MainStateMachine`: three links and three commands, so that a
command may outlive its link and a link return unseen twice; one failure of the
storage; all the timeouts on. `Storage`: two commands or entries to OPERATIONAL
and two faults, with a queue for two operations, put a late operation behind
another one, a write of the Peer Manager before one of the device, and a reset
into each step of an update; two windows and configurations of one or both
show the partial one. `FdsQueue`: four writes of two flash
operations each and a queue for two: the queue wraps, is full, and every
place of a call in the main loop meets two interrupts. `FdsPages`: three pages
as in `sdk_config.h`, two slots each, so that one update makes a page dirty and
three writes fill the data pages; two collections (one resumes or repeats the
other), two faults (a failure and a reset, or a reset during the repair of
another). One key and five writes with the same bounds hold too.
`FrameWindows`: two windows, a clock that wraps after 4
with passes of up to 2 seconds, times on both sides of the wrap less a
pass, and an outbox of two frames that two windows and two forwarded
commands overflow; a buffer for two replies is poisoned, filled and over-full.
The numbers of the code (2^16 seconds, 512 bytes) differ from these in size
only, and the theorems hold for them.

**Deadlock** is checked except in the runs of `BleUartTx`, where a behaviour may
end with the last message and the last link of the bounds, and of `Storage`,
where an idle device waits for a phone that need not come, and of
`FdsQueue` and `FdsPages`, where nobody need call again.

**Fairness.** The main loop never stops: `vPowerManageProcess` waits for an
event, and every interrupt is one; while there is a link or advertising the
radio notifications (`BLE/BLE_Application.c:693`) come in any case. So the steps
of the main loop are weakly fair, in `BleUartTx` those of a call that has begun
(when the next call comes is the application's matter). An interrupt that is pending is taken: so is
`isr`. The SoftDevice transmits what it has while there is a link. An application
timer that runs expires, an advertising mode times out, a write to the flash ends,
that of the Peer Manager too.
Nothing is assumed of the phone: it need not connect, subscribe, send or
stay. In `BtInterface` and `Storage` only the main loop is fair: its waits count
down whatever the flash does. In `FdsQueue` a
call that has begun, interrupts and flash operations are fair; in `FdsPages` the
end of a flash operation, its interrupt and the call of `fds_init` at the
start. In `FrameWindows` the main loop and the clock,
whose crystal runs in every state of the device, are.

## 4. Proofs

TLAPS checks these for every value of the constants allowed by the
assumptions.

* `ESQueue_proofs`, from `QueueAssumption` (the sizes fit 16 bits, every frame
  fits an empty ring, bytes are bytes): `RingInvariant`, `TypeCorrect`,
  `FramesIntact`, `WriteSlotIsFree`, `ReadsOldestFrame`, `SpaceInvariant`,
  `CounterIsExact`, `RingIsDropOldestFifo`. The bytes of the ring alone say nothing of
  where a frame begins, so the argument for `RingInv` runs over `owner` and `offset`. It
  says that an owned slot belongs to a frame held and holds its byte
  (`OwnedInv`), that no byte is in two slots (`DistinctInv`), that the slot
  behind a byte has the next byte, or the first one of the next frame
  (`LinkedInv`, `BackInv`), that the slot at the write index is free
  (`WriteInv`), and how far the frame being read or given up is through
  (`ReadInv`). It never adds up lengths, which would be an induction. Each action
  has its lemma; `ReleaseKeeps` is the common argument of reading a frame and of
  giving one up. `SpaceInv` counts
  the slots between the indices: those of the held frames (`Fifo!Bytes(Held)`), the
  bytes written of a new one, what is left of the oldest one while it is given up
  or read; a frame is given up only when the held frames and the written part of
  the new one are all of the ring. From it follow the exact counter (a held frame
  takes at least three slots of a ring below 65536, so 16 bits are enough) and
  that every step is one of `DropOldestFifo` or none: `Fits` compares the same sum
  with the capacity. That sum is a recursive function over a sequence; its
  existence and how it grows (`SumsExist`, `SumsShift`, `BytesFacts`) are proved
  from the least counterexample, the well-foundedness of the naturals being a fact
  of the library that needs no operator as a parameter. `FramesIntact`
  (`BytesIntact`) speaks of the buffer only, not of `owner` and `offset`: the first
  byte kept is in the slot of the read index, and the one that comes next in
  `RingInv` is in the next slot, so a least byte out of place cannot be (`AllInPlace`).
* `BleUartTx_proofs`, from `BleUartAssumption` (a message has 1 to 255 units, a
  segment too, the queues hold something): `TxInvariant`, `TypeCorrect`,
  `OneSenderAtATime`, `NoStrandedMessage`, `LockIsReleased`, `SentOnItsLink`,
  `SentInOrder` (an action property). `TxInv` is
  `TypeOK`, the place of the main loop against the lock (`SenderInv`), where a
  message is under way (`LiveInv`), `WaitingImpliesLocked`, and the source of
  the next completion (`WakeupInv`): an unlocked main loop past its test cannot
  meet a handler that sends, since the handler leaves an open lock alone, and
  a refused notification means that the SoftDevice holds others, each of
  which will complete.

  For `SentOnItsLink`, `OwnInv` is added: all that the service holds was taken
  on this link (`HoldsOurs`), and a service without a link holds nothing
  (`HoldsNothing`), unless a reset came inside a call.

  For `SentInOrder`, `WireInv` follows a message from the call through the ring
  to its last segment: what waits is newer than what is being sent and older
  than the message of a call under way (`CallInv`, `RingNewer`, `RingInOrder`),
  the message at hand has been sent up to its offset or not at all
  (`SendingInv`), and the write of the ring has the ring's own indices
  (`WriteInv`). `u8Seg` does not wrap, because a message has 255 units at most.
* `BtInterface_proofs`, from `BtInterfaceAssumption` (a frame has a magic and
  more, the buffer takes a whole one): `BufferOfOneFrame`, `OutboxIsSignalled`.
  The first needs the algebra of the buffer (a write extends the part that has
  come, a frame is valid exactly when it is whole); the second says that in the
  middle of an update of the signal word the bit is in the value loaded.
  Its second half is what becomes of a frame received: `LinkTypes`,
  `InboxNeverLeaks`, `CommandsInOrder` (an action property), `InboxIsSignalled`,
  `AnswersLeaveInOrder`. That the ring is in order needs that the frames enter it
  in the order they are sent, and this fails only if a lost link could leave a
  whole frame behind: `CutInv` says that it leaves a second magic inside the
  length of a frame, so that no frame is received from then on. `RingInv` is the
  ring and the main loop's copy of its index during a read, `AnswersInv` says
  that every answer is older than every command not yet handled, `SignalInv`
  that an update of the signal word under way does not lose the bit. `CutInv`
  holds whatever is hit, the others until the inbox gives up a frame during a
  read, `SignalInv` also until the handler meets the clearing of the signal.
* `MainLoop_proofs`, first part, from `MainStateMachineAssumption`: `TypeCorrect`,
  `SilentSleep`, `RunsAgain`, `StreamOfThisLink`. Three groups of facts beside
  the types. `TimerInv`: outside a change of state the timer of the state runs
  if it has one, and a state without one is due. `RadioInv`: `g_eAdvState` is old
  at times, but "idle" is never wrong, which is why a decision to sleep taken
  from it is right; and the Peer Manager writes only while it is not "idle". `StreamInv`: the command to stream outlives its link in the
  state CONNECTED only.
* `Storage_proofs`, from `StorageAssumption`: `StorageInvariant`,
  `OneRecordOfAKey`, `RecordsOfOneWrite`, `AcknowledgedIsStored`, `WholeOnAir`,
  `NameOnAir`. `AckedSurvives` speaks of what was acknowledged and what is in the
  flash; between the two are the job of the main loop (`JobOk`), the queue of
  the file system (`QueueOk`: ids grow, only the oldest operation runs), the
  wait (`WaitOk`: while the main loop waits in time its operation is the only
  one of its own, and the static buffer is as it was filled), the records
  beside an operation (`RecordsOk`) and the end of a wait (`EndOk`: the record
  is in its place before the flag is cleared). Resets, failures and foreign
  events are in it as steps like the others.

  The second part is `ConfigAgreement`. That the
  configuration is in flash is `AckedSurvives`; the rest is the RAM. Until
  `vES_Slave_Init` is through the windows are empty (`CfgBoot`). A device that
  acknowledged a configuration has its name in flash, so the start finds it,
  keeps its memory and loads the configuration (`NameKept`). Then the windows
  that run are those being written, or those acknowledged (`CfgKept`).
* `MainLoop_proofs`, second part, from `LinkAssumption` and `WindowAssumption`:
  `FrameInvariant`, `ActiveBuilt`, `InOrder`, `Paced` (an action property). `FrameInv`
  says what `u8TimeToSend` means (`DueOk`) and that the 16-bit time is never
  more than the true one (`SinceOk`), which is what makes frames keep their
  distance although the time wraps. Two facts are added: what stays in the
  input buffer gives no frame any more, and the commands are in order over
  replies, inbox, chip and outbox.

* `FdsQueue_proofs`, from `FdsQueueAssumption` (a queue and a write have at least
  one place and one flash operation): `FdsQueueHolds`, `QueueIsExact`. None of
  the properties is inductive. `SlotsInv` says what is in every slot, not only in
  those counted: an operation in each that is counted, the record of the call
  under way in the next one, and none in all others, so that `queue_advance` never
  takes an empty slot for an operation and `op_enqueue` never overwrites one;
  `RunningInv` that a flash operation under way has its operation in the queue;
  `ReservedInv` and `IdsInv` what the main loop has loaded of a counter before it
  stores it. The indices wrap: `Positions` and `PositionsAdvance` say that the
  places behind `rp` are all the slots, each once, and one less when the oldest
  leaves; `LineGrows` and `LineLeaves` carry that over to the sequence of
  tickets. Each fact holds until an interrupt comes at a place that can break it,
  and no longer: the places are the same as in the properties.

* `FdsPages_proofs` (pages and tags) and on top of it `FdsRecords_proofs` (the
  records, from `FitInv` on), from `FdsPagesAssumption` (two pages or more, a
  slot, a place in the queue): `PagesKeepTheirShape`, `PagesAlwaysHold`,
  `PagesAlwaysMount`, `PagesAgreeWithFlash`, `TypesAreKept`, `EveryWriteFits`,
  with the last three `PagesAreConsistent` (`FdsPagesInv`), and `RecordsAreKept`
  (`RecordsKept`). The scan of
  `pages_init` is a recursive function over the pages; `ScanInv` is its
  invariant (what the result for the first n pages has to do with them), which
  every case of `Scan` keeps, and the least n for which it might fail would
  contradict that, so that no induction theorem is needed. Then seven groups of
  facts, each resting on those before it:

  - `ShapeInv`: what is mounted has different addresses, only a data page is
    collected, every operation in the queue has its page, and `reserved` counts
    the writes in the queue for it (`ReservedInv`).
  - `FsInv`: the flash operation under way is the one of the step before; no
    end of an operation is ever taken for that of another one.
  - `ResumeInv`: when a step of a collection begins, the one before it is done
    in the flash, or is marked for a retry. This is what a second `fds_gc` can
    break (`advance`), and why `AlwaysMounts` leaves that out.
  - `SwapInv`: where the tag of the swap page is, at every step: on one page at
    most; if on none, the page to get it is erased. After a reset that is all
    there is to go by, and it is enough to mount. That the switch has a case for
    what is found (`AlwaysNamed`) needs a fact of `AgreeInv` too: beside the swap page
    another page has a tag, or is erased.
  - `AgreeInv`: no record is written while a collection is under way (`WriteCalm`),
    so that an erased page stays erased until it has its tag, and every page has
    a tag or is erased, or has half a tag after a reset in the middle of one and
    is left out of what is mounted (`TagInv`).
  - `FitInv`: the content of the slots. `offset` of a page is the number of places
    written in it (`Filled`, `Blank`), except that the record of the write under
    way is already behind it (`Begun`); `offset + reserved` never exceeds the page
    (`RoomFit`). In a collection the copy goes to a place before that of its
    record, so that the room reserved in the page is there in the page that
    replaces it; and after any reset the scan finds the same offsets, because no
    place without a first word comes before one with (`NoGap`). That last fact is
    what a write that fails at its first word breaks (`gap`): the offset passes
    the place, but the next scan, and a collection, end there.
  - `KeptInv`: the records, as the next `fds_init` would find them. A page counts
    if it has the tag of a data page, or that of the swap page while there is an
    erased page to be exchanged for it (`Home`). `FlashKept`: what was
    acknowledged is on such a page, every record there is whole and not older,
    and there is one of each key, but for the record that is being written.
    `RecordsKept` follows from that and holds between the steps only; what makes
    it inductive is the rest. A write that has its new record in place has not
    lost the one it replaces, and the one replaced is of its key (`OwnKept`).
    What is queued replaces what is there or is of another key, and no two writes
    in the queue are of one key (`QueueKept`): that is how the callers use fds. The
    records of a page that is collected are, up to the one being copied, those of
    the swap page, each once (`Copies`), and all of them when the page is erased
    (`GcKept`), so that the swap page counts only when it has all its records.
    `fds_init` never erases the swap page while another page is erased
    (`EraseKept`), which is when no other page has them. And no identity in the
    flash is above `m_latest_rec_id` (`IdsKept`), so that a new record is newer
    than all. `KeptInv` needs no mishap left out that `RecordsKept` does not leave
    out; TLC checked it on the instance of `fds_pages` and two others before it
    was proved.

Only model-checked: every liveness property (`EventuallySettled`,
`EventuallyHandled`, `FollowsLink`, `Reachable`, `EveryCommandAnswered`,
`EveryForwardSettled`, `WindowServed`, `EventComes`, `OperationsEnd`): fairness and
`ENABLED` are out of the reach of these provers. Every other property of a
passing run is a theorem.

## 5. Where the code does not do what it says

Each is a run that TLC must find violated; `PROJECT.json` quotes the lines.

1. `ble_uart_lock`: the completion that would unlock the transmitter is handled
   right before `u8Locked = 1`, and none comes after it. From then on messages
   wait until the link is lost.
2. `bt_interface_failed`: a failed frame is never discarded, because the result
   compared with `ESP_Receiving` is of another type in which "failed" has the
   same number. After a link lost in the middle of a frame no command is
   understood until the next reset.
3. `main_state_stall`: a subscription with the refresh time 0 stops the state
   machine in CONNECTED.
4. `fds_promote`: a reset after a collection has erased its page; if that page
   lies before the swap page, `INIT_PROMOTE_SWAP` exchanges the first data
   page, with its records, for the swap page, and fds is unusable after the next
   reset.

The windows and mishaps that the properties of the passing runs leave out are
of the same kind; each is a counterexample when it is taken out of the
property's condition:

* `queue` in `TxInv` and `EventuallySettled`: a completion between the test of
  `u8Locked` and the end of `ES_Queue_Write` drains the queue and unlocks; the
  message is queued behind it and stays there.
* `mtu` in `WireInOrder`: the segment size changes in the middle of a message.
* `choose`, `slot`, `countLoad`, `count` in `QueueExact`: a write of the Peer Manager
  between the test of the count and its store; two operations share a slot, and
  one that was accepted is gone without its event. `start` in `FdsQueueInv`:
  one between the test of `FDS_FLAG_PROCESSING` and the flag starts the queue
  twice. `id`, `idRead`: one inside `record_id_new` gives two records the same
  identity. `reserve` and `free`: room is lost until the next reset, or given
  twice.
* `gap` in `RecordsKept`: the first word of a record was not written, and no
  search finds what is written behind it. `resume`: a record is written while a
  collection is suspended. `advance`: `fds_gc` marks a running
  collection for a retry; the mark is taken at once, and a step that fails later
  is passed over. `open`: a record is opened while the erasure of its page is
  under way, and a second `fds_gc` repeats the erasure: it finds the record
  open and erases the swap page, which holds the only copy.
* `tag` in `AlwaysMounts`: the reset that leaves half a tag on the only page for
  the swap. `unset` in `RecordsKept`: pages for which the switch of `fds_init` has
  no case, which takes another mishap before. The step it then does is any, and
  may erase the swap page with the only copy of the records.

Those of `FdsQueue` need an interrupt of the Peer Manager in a few instructions of
the main loop, those of `FdsPages` a collection, which only
`PM_EVT_STORAGE_FULL` starts (`BLE/BLE_Application.c:392`), or a failing flash.

One more was read and not modelled as a run: the wake-up timeout ends deep
sleep, but nothing starts the advertising again (the timeout is 0, off, in the
default configuration).

## 6. Not modelled

* Writes of no bytes, and two frames in one write of the phone (the second frame
  is discarded with the first; the application protocol waits for the answer
  first). CRC errors: the CRC is assumed to tell a frame from a mixture of two.
* Torn frames inside `ES_Queue` when the interrupt overwrites the very bytes
  being copied: the models show the wrong frame, not the wrong bytes, behind
  the window `read`.
* The deletions of fds (`eMemory_Erase_*` and `eMemory_Flush` have no caller;
  the Peer Manager deletes bonds), its reservations (the Peer Manager asks for
  them when a pairing starts), a full queue of fstorage, a second `fds_init` after one that failed,
  and records of different lengths. In `Storage` a flash that is full is one
  that refuses, which `Refuse` may do at any time; `FdsPages` has the
  collection that makes room again. Configurations of five windows, whose
  record is longer than the buffer that `vES_Slave_Init` reads it into.
* What the frames say: measures, their layout, the names' characters. That a
  value just past the last command of `FrameBuilder` is taken, and that a window
  of the event mode is never sent, are plain from the code and nothing depends
  on them. `u8ModeMngt_FrameCfg` and `vModeMngt_MotionDetected` are not called in
  this build.
* Sensors and their drivers: sequential code over a bus. HAL beside the clock,
  `BLE_Service`: calls into the SDK, once, at the start.
* The SDK and the SoftDevice, of which the parts the firmware leans on are
  environment (`fds.c`, `ble_advertising.c` step by step, the rest by its events),
  and the bootloader, which is the SDK's. They, their register headers and
  `sdk_config.h`, each there twice, are nearly all the lines of the repository:
  the application's own code is one line in fifty, and only a part of that
  keeps state.

## 7. What is left

* The composition of `BtInterface` with `BleUartTx`, whose transmission
  `BtInterface` takes as one step, and of `FrameWindows` with `Storage`: what a
  configuration that was not stored does to the frames.
* `Storage` and `FdsPages` in one refinement: `AckedSurvives` takes for granted of
  the file system what `RecordsAreKept` says of it, but the two speak of
  different states.
