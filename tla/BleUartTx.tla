----------------------------- MODULE BleUartTx ------------------------------
(***************************************************************************)
(* The sending side of BLE/BLE_Uart.c: u32BLE_Uart_SendBuffer, called from *)
(* the main loop, and the handlers of the SoftDevice's events, which       *)
(* preempt it.  Both cut messages into notifications; u8Locked says whose  *)
(* turn it is, and messages that find it set wait in an ES_Queue.          *)
(*                                                                         *)
(* A step of the main loop is a piece of code between two accesses to what *)
(* the handlers share with it.  While a handler runs the main loop stands  *)
(* still, but the SoftDevice below it goes on.                             *)
(*                                                                         *)
(* Messages are numbered in the order of the calls and have one length, in *)
(* units of the segments of the default MTU.  The queue is a ring of whole *)
(* messages here: ESQueue has its bytes.                                   *)
(***************************************************************************)
EXTENDS Integers, Sequences

CONSTANTS
  MsgLen,        \* u16Length of a message
  DefaultSeg,    \* DEFAULT_MTU_SEG_BUFFER_SIZE
  LongSeg,       \* the segment size after an MTU exchange
  Depth,         \* messages the queue holds
  HvnQueue,      \* hvn_tx_queue_size: notifications the SoftDevice holds
  \* Bounds of the model:
  MaxMessages, MaxLinks, MaxSubscriptions

Uint8 == 0 .. 255

ASSUME BleUartAssumption ==
  /\ MsgLen \in Uint8 \ {0} /\ DefaultSeg \in Uint8 \ {0} /\ LongSeg \in Nat
  /\ DefaultSeg <= LongSeg
  /\ Depth \in Nat \ {0} /\ HvnQueue \in Nat \ {0}
  /\ MaxMessages \in Nat /\ MaxLinks \in Nat /\ MaxSubscriptions \in Nat

Messages == 1 .. MaxMessages
NoMessage == 0
NoNotification == [msg |-> NoMessage, from |-> 0, to |-> 0]
Indices == 0 .. Depth
Event == {"connected", "disconnected", "timeout", "subscribed",
          "unsubscribed", "mtu", "complete"}
Window == {"lock", "queue", "reset", "error", "mtu"}

VARIABLES
  pc,            \* where the main loop is in u32BLE_Uart_SendBuffer
  msg,           \* the message of the last call
  indices,       \* its ES_Queue_Write's local copies of the indices
  isr,           \* TRUE inside the loop of vBleUart_OnTxComplete
  u8Locked, au8DataToSend, u16Length, u8Seg,      \* g_sBle_Uart_TxInfo
  connected,     \* u16ConnHandle # BLE_CONN_HANDLE_INVALID
  bIsNotificationEnabled,
  g_u16SegSize,
  slot, index_read, index_write,                  \* g_sBleUartOutputQueue
  \* The SoftDevice:
  link, cccd, mtu, inflight,
  events,        \* not yet handled
  links, subscriptions,                           \* for the bounds
  \* History, read by no action of the code:
  last,          \* the last notification of this link
  fate,          \* what became of each message
  origin,        \* the link on which a message was taken
  hit            \* the windows in which a handler caught the main loop, and
                 \* other mishaps, since the state was last reset

main == <<pc, msg, indices>>
txInfo == <<u8Locked, au8DataToSend, u16Length, u8Seg>>
service == <<connected, bIsNotificationEnabled, g_u16SegSize>>
queue == <<slot, index_read, index_write>>
radio == <<link, cccd, mtu, inflight>>
bounds == <<links, subscriptions>>
history == <<last, fate, origin, hit>>
vars == <<main, isr, txInfo, service, queue, radio, events, bounds, history>>

-----------------------------------------------------------------------------
\* Operators whose comment begins with "Mutant" are wrong on purpose: with
\* one of them in place of the definition that follows, a property is violated.

Succ(i) == (i + 1) % (Depth + 1)

Offset == u8Seg * g_u16SegSize

\* The size of the next segment; the subtraction is on uint16_t.
DataSent ==
  LET left == (u16Length - Offset) % 65536
  IN  IF left > g_u16SegSize THEN g_u16SegSize ELSE left

\* Mutant of MoreToSend: it stops one segment early.
MoreToSendEarly == Offset + g_u16SegSize < u16Length

MoreToSend == Offset < u16Length

\* Where a message is being cut into notifications.
InProgress == u8Locked = 1 \/ pc \in {"copy", "loop", "hvx", "seg", "lock"}

-----------------------------------------------------------------------------
(***************************************************************************)
(* sd_ble_gatts_hvx: its three outcomes.  What is longer than the MTU      *)
(* allows is cut short or refused.                                         *)
(***************************************************************************)
CanNotify == connected /\ link /\ cccd

HvxTaken ==
  /\ CanNotify /\ inflight < HvnQueue
  /\ LET to == Offset + (IF DataSent > mtu THEN mtu ELSE DataSent)
         whole == to >= MsgLen
     IN  /\ last' = [msg |-> au8DataToSend, from |-> Offset, to |-> to]
         /\ fate' = [m \in Messages |->
                      IF m = au8DataToSend /\ whole /\ fate[m] = "taken"
                      THEN "sent" ELSE fate[m]]
  /\ inflight' = inflight + 1
  /\ hit' = IF DataSent > mtu THEN hit \union {"mtu"} ELSE hit

HvxFull == CanNotify /\ inflight = HvnQueue

HvxError == ~ CanNotify \/ (DataSent > mtu /\ inflight < HvnQueue)

-----------------------------------------------------------------------------
Init ==
  /\ pc = "idle" /\ msg = NoMessage
  /\ indices = [read |-> 0, write |-> 0]
  /\ isr = FALSE
  /\ u8Locked = 0 /\ au8DataToSend = NoMessage /\ u16Length = 0 /\ u8Seg = 0
  /\ connected = FALSE /\ bIsNotificationEnabled = FALSE
  /\ g_u16SegSize = DefaultSeg
  /\ slot = [i \in Indices |-> NoMessage] /\ index_read = 0 /\ index_write = 0
  /\ link = FALSE /\ cccd = FALSE /\ mtu = DefaultSeg /\ inflight = 0
  /\ events = <<>> /\ links = 0 /\ subscriptions = 0
  /\ last = NoNotification /\ fate = [m \in Messages |-> "new"]
  /\ origin = [m \in Messages |-> 0] /\ hit = {}

(***************************************************************************)
(* The main loop.                                                          *)
(***************************************************************************)
u32BLE_Uart_SendBuffer ==
  /\ pc = "idle" /\ msg < MaxMessages
  /\ msg' = msg + 1
  /\ origin' = [origin EXCEPT ![msg + 1] = links]
  /\ IF connected /\ bIsNotificationEnabled
     THEN pc' = "test" /\ fate' = [fate EXCEPT ![msg + 1] = "taken"]
     ELSE pc' = "idle" /\ fate' = [fate EXCEPT ![msg + 1] = "refused"]
  /\ UNCHANGED <<indices, txInfo, queue, inflight, last, hit>>

\* Mutant of TestLocked: the lock is not looked at.
TestLockedIgnored ==
  /\ pc = "test"
  /\ pc' = "copy"
  /\ UNCHANGED <<msg, indices, txInfo, queue, inflight, history>>

TestLocked ==
  /\ pc = "test"
  /\ pc' = IF u8Locked = 0 THEN "copy" ELSE "snapshot"
  /\ UNCHANGED <<msg, indices, txInfo, queue, inflight, history>>

StoreData ==
  /\ pc = "copy"
  /\ au8DataToSend' = msg /\ u16Length' = MsgLen /\ u8Seg' = 0
  /\ pc' = "loop"
  /\ UNCHANGED <<msg, indices, u8Locked, queue, inflight, history>>

TestMore ==
  /\ pc = "loop"
  /\ pc' = IF MoreToSend THEN "hvx" ELSE "idle"
  /\ UNCHANGED <<msg, indices, txInfo, queue, inflight, history>>

SendSegment ==
  /\ pc = "hvx"
  /\ \/ HvxTaken /\ pc' = "seg"
     \/ HvxFull /\ pc' = "lock" /\ UNCHANGED <<inflight, last, fate, hit>>
     \/ HvxError /\ pc' = "idle"
          /\ fate' = [fate EXCEPT ![msg] = "lost"]
          /\ UNCHANGED <<inflight, last, hit>>
  /\ UNCHANGED <<msg, indices, txInfo, queue, origin>>

CountSegment ==
  /\ pc = "seg"
  /\ u8Seg' = (u8Seg + 1) % 256
  /\ pc' = "loop"
  /\ UNCHANGED <<msg, indices, u8Locked, au8DataToSend, u16Length, queue,
                 inflight, history>>

\* Mutant of SetLocked: the segment that was refused is counted as sent.
SetLockedCounting ==
  /\ pc = "lock"
  /\ u8Locked' = 1
  /\ u8Seg' = (u8Seg + 1) % 256
  /\ pc' = "idle"
  /\ UNCHANGED <<msg, indices, au8DataToSend, u16Length, queue, inflight,
                 history>>

SetLocked ==
  /\ pc = "lock"
  /\ u8Locked' = 1
  /\ pc' = "idle"
  /\ UNCHANGED <<msg, indices, au8DataToSend, u16Length, u8Seg, queue,
                 inflight, history>>

\* ES_Queue_Write: copies of the indices, the bytes, the indices.
CopyIndices ==
  /\ pc = "snapshot"
  /\ indices' = [read |-> index_read, write |-> index_write]
  /\ pc' = "store"
  /\ UNCHANGED <<msg, txInfo, queue, inflight, history>>

StoreBytes ==
  /\ pc = "store"
  /\ slot' = [slot EXCEPT ![indices.write] = msg]
  /\ pc' = "publish"
  /\ UNCHANGED <<msg, indices, txInfo, index_read, index_write, inflight,
                 history>>

PublishIndices ==
  /\ pc = "publish"
  /\ LET full == Succ(indices.write) = indices.read
         oldest == slot[indices.read]
     IN  /\ index_write' = Succ(indices.write)
         /\ index_read' = IF full THEN Succ(indices.read) ELSE indices.read
         /\ fate' = [m \in Messages |->
                      IF full /\ m = oldest /\ fate[m] = "taken"
                      THEN "lost" ELSE fate[m]]
  /\ pc' = "idle"
  /\ UNCHANGED <<msg, indices, txInfo, slot, inflight, last, origin, hit>>

Main ==
  /\ ~ isr
  /\ \/ u32BLE_Uart_SendBuffer \/ TestLocked \/ StoreData \/ TestMore
     \/ SendSegment \/ CountSegment \/ SetLocked
     \/ CopyIndices \/ StoreBytes \/ PublishIndices
  /\ UNCHANGED <<isr, service, link, cccd, mtu, events, bounds>>

(***************************************************************************)
(* vBleUart_onBleEvtHandler and vBLE_Uart_onGattEvt, in interrupt context. *)
(***************************************************************************)
\* ES_Queue_ClearAll.  Its mutant: what waits in the queue stays there.
ClearQueueForgotten == UNCHANGED queue

ClearQueue ==
  /\ slot' = [i \in Indices |-> NoMessage]
  /\ index_read' = 0 /\ index_write' = 0

\* Mutant of ClearTxInfo: the lock stays set.
ClearTxInfoLocked ==
  /\ UNCHANGED u8Locked
  /\ au8DataToSend' = NoMessage /\ u16Length' = 0 /\ u8Seg' = 0

ClearTxInfo ==
  /\ u8Locked' = 0
  /\ au8DataToSend' = NoMessage /\ u16Length' = 0 /\ u8Seg' = 0

OnConnect ==
  /\ Head(events) = "connected"
  /\ connected' = TRUE
  /\ UNCHANGED <<isr, txInfo, bIsNotificationEnabled, g_u16SegSize, queue,
                 last, fate, hit>>

\* vBleUart_Reset, for a timeout too: the segment size is left as it was.
OnDisconnect ==
  /\ Head(events) \in {"disconnected", "timeout"}
  /\ connected' = FALSE /\ bIsNotificationEnabled' = FALSE
  /\ ClearQueue
  /\ ClearTxInfo
  /\ fate' = [m \in Messages |-> IF fate[m] = "taken" THEN "lost" ELSE fate[m]]
  /\ last' = NoNotification
  /\ hit' = IF pc = "idle" THEN {} ELSE hit \union {"reset"}
  /\ UNCHANGED <<isr, g_u16SegSize>>

OnWriteCccd ==
  /\ Head(events) \in {"subscribed", "unsubscribed"}
  /\ bIsNotificationEnabled' = (Head(events) = "subscribed")
  /\ UNCHANGED <<isr, txInfo, connected, g_u16SegSize, queue, last, fate, hit>>

vBLE_Uart_onGattEvt ==
  /\ Head(events) = "mtu"
  /\ g_u16SegSize' = LongSeg
  /\ hit' = IF InProgress /\ g_u16SegSize # LongSeg
            THEN hit \union {"mtu"} ELSE hit
  /\ UNCHANGED <<isr, txInfo, connected, bIsNotificationEnabled, queue, last,
                 fate>>

\* Mutant of OnTxComplete: a completion counts only when messages wait.
OnTxCompleteIfQueued ==
  /\ Head(events) = "complete"
  /\ isr' = (u8Locked = 1 /\ index_read # index_write)
  /\ hit' = hit \union (IF pc = "lock" THEN {"lock"} ELSE {})
                \union (IF pc \in {"snapshot", "store", "publish"}
                        THEN {"queue"} ELSE {})
  /\ UNCHANGED <<txInfo, service, queue, last, fate>>

OnTxComplete ==
  /\ Head(events) = "complete"
  /\ isr' = (u8Locked = 1)
  /\ hit' = hit \union (IF pc = "lock" THEN {"lock"} ELSE {})
                \union (IF pc \in {"snapshot", "store", "publish"}
                        THEN {"queue"} ELSE {})
  /\ UNCHANGED <<txInfo, service, queue, last, fate>>

HandleEvent ==
  /\ ~ isr /\ events # <<>>
  /\ events' = Tail(events)
  /\ \/ OnConnect \/ OnDisconnect \/ OnWriteCccd \/ vBLE_Uart_onGattEvt
     \/ OnTxComplete
  /\ UNCHANGED <<main, radio, bounds, origin>>

\* The loop of vBleUart_OnTxComplete: the rest of the message ...
ContinueMessage ==
  /\ isr /\ MoreToSend
  /\ \/ HvxTaken /\ u8Seg' = (u8Seg + 1) % 256 /\ UNCHANGED <<isr, u8Locked>>
     \/ HvxFull /\ isr' = FALSE /\ u8Locked' = 1
          /\ UNCHANGED <<u8Seg, inflight, last, fate, hit>>
     \/ HvxError /\ isr' = FALSE /\ hit' = hit \union {"error"}
          /\ UNCHANGED <<u8Locked, u8Seg, inflight, last, fate>>
  /\ UNCHANGED <<main, au8DataToSend, u16Length, service, queue, link, cccd,
                 mtu, events, bounds, origin>>

\* ... and then the next message of the queue, or none.
NextMessage ==
  /\ isr /\ ~ MoreToSend
  /\ IF index_read = index_write
     THEN /\ u8Locked' = 0 /\ isr' = FALSE /\ u16Length' = 0
          /\ UNCHANGED <<au8DataToSend, u8Seg, index_read>>
     ELSE /\ au8DataToSend' = slot[index_read]
          /\ u16Length' = IF slot[index_read] = NoMessage THEN 0 ELSE MsgLen
          /\ u8Seg' = 0
          /\ index_read' = Succ(index_read)
          /\ UNCHANGED <<u8Locked, isr>>
  /\ UNCHANGED <<main, service, slot, index_write, radio, events, bounds,
                 history>>

Isr == HandleEvent \/ ContinueMessage \/ NextMessage

(***************************************************************************)
(* The SoftDevice and the peer.                                            *)
(***************************************************************************)
Raise(e) == events' = Append(events, e)

\* Advertising starts again when the disconnection has been handled.
LinkUp ==
  /\ ~ link /\ ~ connected /\ events = <<>> /\ links < MaxLinks
  /\ link' = TRUE /\ cccd' = FALSE /\ mtu' = DefaultSeg
  /\ links' = links + 1 /\ subscriptions' = 0
  /\ Raise("connected")
  /\ UNCHANGED <<inflight, history>>

LinkLost ==
  /\ link
  /\ link' = FALSE /\ cccd' = FALSE /\ inflight' = 0
  /\ Raise("disconnected")
  /\ UNCHANGED <<mtu, bounds, history>>

\* BLE_GAP_EVT_TIMEOUT: nobody has connected, the advertising goes on in its
\* next mode or is started again later.
AdvertisingEnds ==
  /\ ~ link /\ ~ connected /\ events = <<>>
  /\ Raise("timeout")
  /\ UNCHANGED <<radio, bounds, history>>

Subscribe ==
  /\ link /\ ~ cccd /\ subscriptions < MaxSubscriptions
  /\ cccd' = TRUE /\ subscriptions' = subscriptions + 1
  /\ Raise("subscribed")
  /\ UNCHANGED <<link, mtu, inflight, links, history>>

Unsubscribe ==
  /\ link /\ cccd
  /\ cccd' = FALSE
  /\ Raise("unsubscribed")
  /\ UNCHANGED <<link, mtu, inflight, bounds, history>>

ExchangeMtu ==
  /\ link /\ mtu # LongSeg
  /\ mtu' = LongSeg
  /\ Raise("mtu")
  /\ UNCHANGED <<link, cccd, inflight, bounds, history>>

\* One event for all the notifications transmitted since the last one.
Transmit ==
  /\ link /\ inflight > 0
  /\ inflight' \in 0 .. inflight - 1
  /\ Raise("complete")
  /\ UNCHANGED <<link, cccd, mtu, bounds, history>>

SoftDevice ==
  /\ \/ LinkUp \/ LinkLost \/ AdvertisingEnds
     \/ Subscribe \/ Unsubscribe \/ ExchangeMtu \/ Transmit
  /\ UNCHANGED <<main, isr, txInfo, service, queue>>

Next == Main \/ Isr \/ SoftDevice

\* A call of u32BLE_Uart_SendBuffer ends, handlers run when there are events,
\* and the radio transmits what it was given as long as there is a link.
Fairness ==
  /\ WF_vars(Main /\ pc # "idle")
  /\ WF_vars(Isr)
  /\ WF_vars(Transmit /\ UNCHANGED <<main, isr, txInfo, service, queue>>)

Spec == Init /\ [][Next]_vars
FairSpec == Spec /\ Fairness

-----------------------------------------------------------------------------
(***************************************************************************)
(* Properties.                                                             *)
(***************************************************************************)
TypeOK ==
  /\ pc \in {"idle", "test", "copy", "loop", "hvx", "seg", "lock", "snapshot",
             "store", "publish"}
  /\ msg \in 0 .. MaxMessages
  /\ indices \in [read : Indices, write : Indices]
  /\ isr \in BOOLEAN
  /\ u8Locked \in {0, 1} /\ au8DataToSend \in 0 .. MaxMessages
  /\ u16Length \in {0, MsgLen} /\ u8Seg \in Uint8
  /\ connected \in BOOLEAN /\ bIsNotificationEnabled \in BOOLEAN
  /\ g_u16SegSize \in {DefaultSeg, LongSeg}
  /\ slot \in [Indices -> 0 .. MaxMessages]
  /\ index_read \in Indices /\ index_write \in Indices
  /\ link \in BOOLEAN /\ cccd \in BOOLEAN /\ mtu \in {DefaultSeg, LongSeg}
  /\ inflight \in 0 .. HvnQueue
  /\ events \in Seq(Event)
  /\ links \in 0 .. MaxLinks /\ subscriptions \in 0 .. MaxSubscriptions
  /\ last \in [msg : 0 .. MaxMessages, from : Nat, to : Nat]
  /\ fate \in [Messages -> {"new", "refused", "taken", "sent", "lost"}]
  /\ origin \in [Messages -> 0 .. MaxLinks]
  /\ hit \subseteq Window

\* The main loop and the handler never cut a message at the same time: while
\* SendBuffer is between its test of u8Locked and its end, u8Locked stays 0 and
\* a completion is left alone.
OneSender ==
  pc \in {"copy", "loop", "hvx", "seg", "lock"} => u8Locked = 0 /\ ~ isr

\* As long as no completion came during a write of the queue and no reset
\* during a call, a message waits in the queue only while u8Locked is set, so
\* that the next completion takes it out ("No more msg in queue, unlock Tx").
WaitingImpliesLocked ==
  hit \intersect {"queue", "reset"} = {} =>
    (u8Locked = 0 => index_read = index_write
                     /\ pc \notin {"snapshot", "store", "publish"})

\* As long as no completion came right before u8Locked was set, no reset during
\* a call and no other error ended the handler's loop: whoever set u8Locked can
\* count on a completion to come.
CompletionDue == \E k \in 1 .. Len(events) : events[k] = "complete"

Wakeup == isr \/ inflight > 0 \/ ~ link \/ CompletionDue

LockedImpliesWakeup ==
  hit \intersect {"lock", "reset", "error"} = {} =>
    (u8Locked = 1 => Wakeup)

\* The peer gets the messages in the order they were taken, the segments of
\* each one without a gap or a repetition, and another message only when one is
\* complete or lost.
Notifies == inflight' = inflight + 1

WireInOrder ==
  [][Notifies /\ hit' \intersect {"queue", "reset", "mtu"} = {}
       => IF last'.msg = last.msg
          THEN last'.from = last.to
          ELSE /\ last'.msg > last.msg /\ last'.from = 0
               /\ \/ last = NoNotification \/ last.to = MsgLen
                  \/ fate[last.msg] = "lost"]_vars

\* A message taken on one link is never sent on a later one.
OnlyItsLink ==
  "reset" \notin hit /\ last # NoNotification => origin[last.msg] = links

\* Every message that was taken is sent to its last segment, given up for a
\* newer one or lost with the link, unless one of the windows is hit.
EventuallySettled ==
  \A m \in Messages :
    fate[m] = "taken" ~> (fate[m] \in {"sent", "lost"} \/ hit # {})

-----------------------------------------------------------------------------
(***************************************************************************)
(* What the comments of the code say, and the code does not do.            *)
(***************************************************************************)
\* "Wait for BLE_GATTS_EVT_HVN_TX_COMPLETE": once u8Locked is set, there is a
\* completion to wait for.  Not when it comes between the call that found the
\* SoftDevice full and the assignment.
LockedAwaitsCompletion == u8Locked = 1 => Wakeup

=============================================================================
