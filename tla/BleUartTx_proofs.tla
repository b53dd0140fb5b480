-------------------------- MODULE BleUartTx_proofs --------------------------
(***************************************************************************)
(* Who sends and who wakes whom in BLE_Uart.c, for any number of messages, *)
(* links, segments and notifications in flight.                            *)
(*                                                                         *)
(* OneSender, WaitingImpliesLocked and LockedImpliesWakeup are proved by   *)
(* one inductive invariant: what they leave out is where the main loop     *)
(* stands when the state they speak of comes about.                        *)
(*                                                                         *)
(* OnlyItsLink and WireInOrder need more: whose messages the service holds *)
(* (OwnInv), and how far each of them has come (WireInv).                  *)
(***************************************************************************)
EXTENDS BleUartTx, TLAPS

Streaming == {"copy", "loop", "hvx", "seg", "lock"}
Queueing == {"snapshot", "store", "publish"}

\* u8Locked belongs to the handler while it is set, to the main loop otherwise.
SenderInv ==
  /\ pc \in Streaming => u8Locked = 0 /\ ~ isr
  /\ isr => u8Locked = 1
  /\ isr /\ pc \in Queueing => "queue" \in hit

\* A call is under way, or u8Locked set, only on a live connection ...
LiveInv ==
  "reset" \notin hit => (~ connected => u8Locked = 0 /\ pc = "idle")

\* ... and the main loop that found the SoftDevice full can count on it too.
WakeupInv ==
  hit \intersect {"lock", "reset", "error"} = {} =>
    (u8Locked = 1 \/ pc = "lock" => Wakeup)

TxInv == /\ TypeOK
         /\ SenderInv
         /\ LiveInv
         /\ WaitingImpliesLocked
         /\ WakeupInv

-----------------------------------------------------------------------------
\* Products and remainders stay in range.
LEMMA Products == \A a, b \in Nat : a * b \in Nat
OBVIOUS

LEMMA Remainders ==
  /\ \A n \in Int : n % 65536 \in Nat
  /\ \A n \in Nat : n % 256 \in Uint8
BY DEF Uint8

LEMMA SuccIndex == \A i \in Indices : Succ(i) \in Indices
BY BleUartAssumption DEF Indices, Succ

LEMMA SegmentTypes ==
  ASSUME TypeOK
  PROVE  Offset \in Nat /\ DataSent \in Nat
<1>0. u8Seg \in Uint8 /\ g_u16SegSize \in {DefaultSeg, LongSeg}
      /\ u16Length \in {0, MsgLen}
  BY DEF TypeOK
<1>1. u8Seg \in Nat /\ g_u16SegSize \in Nat /\ u16Length \in Nat
  BY <1>0, BleUartAssumption DEF Uint8
<1>2. Offset \in Nat
  BY <1>1, Products DEF Offset
<1>3. (u16Length - Offset) % 65536 \in Nat
  BY <1>1, <1>2, Remainders
<1>4. DataSent \in Nat
  BY <1>1, <1>3 DEF DataSent
<1>5. QED BY <1>2, <1>4

\* What sending a segment may change keeps its type.
LEMMA HvxTypes ==
  ASSUME TypeOK, HvxTaken
  PROVE  /\ inflight' \in 0 .. HvnQueue
         /\ last' \in [msg : 0 .. MaxMessages, from : Nat, to : Nat]
         /\ fate' \in [Messages -> {"new", "refused", "taken", "sent", "lost"}]
         /\ hit' \subseteq Window
         /\ hit \subseteq hit' /\ hit' \subseteq hit \union {"mtu"}
<1>a. mtu \in {DefaultSeg, LongSeg}
  BY DEF TypeOK
<1>0. mtu \in Nat
  BY <1>a, BleUartAssumption DEF Uint8
<1>1. Offset \in Nat /\ DataSent \in Nat /\ mtu \in Nat
  BY <1>0, SegmentTypes
<1>2. last' \in [msg : 0 .. MaxMessages, from : Nat, to : Nat]
  BY <1>1 DEF HvxTaken, TypeOK
<1>3. inflight' \in 0 .. HvnQueue
  BY BleUartAssumption DEF HvxTaken, TypeOK
<1>4. fate' \in [Messages -> {"new", "refused", "taken", "sent", "lost"}]
  BY DEF HvxTaken, TypeOK
<1>5. /\ hit' \subseteq Window
      /\ hit \subseteq hit' /\ hit' \subseteq hit \union {"mtu"}
  BY DEF HvxTaken, TypeOK, Window
<1>6. QED BY <1>2, <1>3, <1>4, <1>5

\* An event is added to those not yet handled, or the first of them handled:
\* no other completion gets lost.
LEMMA RaiseKeeps ==
  ASSUME TypeOK, NEW e \in Event, Raise(e)
  PROVE  /\ events' \in Seq(Event)
         /\ CompletionDue => CompletionDue'
         /\ e = "complete" => CompletionDue'
<1>1. events \in Seq(Event) /\ events' = Append(events, e)
  BY DEF TypeOK, Raise
<1>2. /\ events' \in Seq(Event)
      /\ Len(events') = Len(events) + 1 /\ Len(events) \in Nat
      /\ events'[Len(events) + 1] = e
      /\ \A k \in 1 .. Len(events) : events'[k] = events[k]
  BY <1>1
<1>3. CompletionDue => CompletionDue'
  BY <1>2 DEF CompletionDue
<1>4. e = "complete" => CompletionDue'
  BY <1>2 DEF CompletionDue
<1>5. QED BY <1>2, <1>3, <1>4

LEMMA HandlingKeeps ==
  ASSUME TypeOK, events # <<>>, events' = Tail(events)
  PROVE  /\ events' \in Seq(Event)
         /\ Head(events) # "complete" /\ CompletionDue => CompletionDue'
<1>1. events \in Seq(Event)
  BY DEF TypeOK
<1>2. /\ events' \in Seq(Event)
      /\ Len(events) \in Nat /\ Len(events') = Len(events) - 1
      /\ Head(events) = events[1]
      /\ \A k \in 1 .. Len(events') : events'[k] = events[k + 1]
  BY <1>1
<1>3. ASSUME Head(events) # "complete", CompletionDue
      PROVE  CompletionDue'
  <2>1. PICK k \in 1 .. Len(events) : events[k] = "complete"
    BY <1>3 DEF CompletionDue
  <2>2. k # 1
    BY <1>2, <1>3, <2>1
  <2>3. k - 1 \in 1 .. Len(events') /\ events'[k - 1] = events[k]
    BY <1>2, <2>1, <2>2
  <2>4. QED BY <2>1, <2>3 DEF CompletionDue
<1>4. QED BY <1>2, <1>3

-----------------------------------------------------------------------------
LEMMA InitTx == Init => TxInv
<1>1. SUFFICES ASSUME Init PROVE TxInv
  OBVIOUS
<1> DEFINE Fates == {"new", "refused", "taken", "sent", "lost"}
<1>2. /\ 0 \in Indices /\ 0 \in Nat
      /\ 0 \in 0 .. MaxMessages /\ 0 \in 0 .. MaxLinks
  BY BleUartAssumption DEF Indices
<1>3. events \in Seq(Event)
  BY <1>1 DEF Init
<1>4. indices \in [read : Indices, write : Indices]
  BY <1>1, <1>2 DEF Init
<1>5. slot \in [Indices -> 0 .. MaxMessages]
  BY <1>1, <1>2 DEF Init, NoMessage
<1>6. fate \in [Messages -> Fates]
  BY <1>1 DEF Init
<1>7. origin \in [Messages -> 0 .. MaxLinks]
  BY <1>1, <1>2 DEF Init
<1>8. last \in [msg : 0 .. MaxMessages, from : Nat, to : Nat]
  BY <1>1, <1>2 DEF Init, NoMessage, NoNotification
<1>9. /\ pc = "idle" /\ ~ isr /\ hit = {}
      /\ u8Locked = 0 /\ u8Seg = 0 /\ u8Seg \in Uint8 /\ u16Length = 0
      /\ inflight = 0 /\ inflight \in 0 .. HvnQueue
      /\ subscriptions \in 0 .. MaxSubscriptions
      /\ links \in 0 .. MaxLinks /\ msg \in 0 .. MaxMessages
      /\ au8DataToSend \in 0 .. MaxMessages
      /\ index_read = index_write /\ index_read \in Indices
  BY <1>1, <1>2, BleUartAssumption DEF Init, NoMessage, Uint8
<1>10. /\ connected \in BOOLEAN /\ bIsNotificationEnabled \in BOOLEAN
       /\ link \in BOOLEAN /\ cccd \in BOOLEAN /\ isr \in BOOLEAN
       /\ mtu = DefaultSeg /\ g_u16SegSize = DefaultSeg
  BY <1>1 DEF Init
<1>11. TypeOK
  BY <1>3, <1>4, <1>5, <1>6, <1>7, <1>8, <1>9, <1>10 DEF TypeOK
<1>12. SenderInv
  BY <1>9 DEF SenderInv, Streaming
<1>13. LiveInv /\ WaitingImpliesLocked /\ WakeupInv
  BY <1>9 DEF LiveInv, WaitingImpliesLocked, WakeupInv
<1>14. QED BY <1>11, <1>12, <1>13 DEF TxInv

-----------------------------------------------------------------------------
(***************************************************************************)
(* The main loop.                                                          *)
(***************************************************************************)
LEMMA MainTypes ==
  ASSUME TypeOK, Main
  PROVE  TypeOK'
<1> USE DEF main, txInfo, service, queue, bounds, history
<1>1. /\ UNCHANGED <<isr, connected, bIsNotificationEnabled, g_u16SegSize,
                     link, cccd, mtu, events, links, subscriptions>>
      /\ links \in 0 .. MaxLinks
  BY DEF Main, TypeOK
<1>2. CASE u32BLE_Uart_SendBuffer
  <2>1. msg' \in 0 .. MaxMessages
    BY <1>2, BleUartAssumption DEF u32BLE_Uart_SendBuffer, TypeOK
  <2>2. origin' \in [Messages -> 0 .. MaxLinks]
    BY <1>1, <1>2 DEF u32BLE_Uart_SendBuffer, TypeOK
  <2>3. /\ fate' \in [Messages -> {"new", "refused", "taken", "sent", "lost"}]
        /\ pc' \in {"idle", "test"}
    BY <1>2 DEF u32BLE_Uart_SendBuffer, TypeOK
  <2>4. QED BY <1>1, <1>2, <2>1, <2>2, <2>3
            DEF u32BLE_Uart_SendBuffer, TypeOK
<1>3. CASE TestLocked
  BY <1>1, <1>3 DEF TestLocked, TypeOK
<1>4. CASE StoreData
  <2>1. u8Seg' \in Uint8 /\ u16Length' = MsgLen
    BY <1>4 DEF StoreData, Uint8
  <2>2. QED BY <1>1, <1>4, <2>1 DEF StoreData, TypeOK
<1>5. CASE TestMore
  BY <1>1, <1>5 DEF TestMore, TypeOK
<1>6. CASE SendSegment
  <2>1. /\ inflight' \in 0 .. HvnQueue
        /\ last' \in [msg : 0 .. MaxMessages, from : Nat, to : Nat]
        /\ fate' \in [Messages -> {"new", "refused", "taken", "sent", "lost"}]
        /\ hit' \subseteq Window
        /\ pc' \in {"seg", "lock", "idle"}
    <3>1. CASE HvxTaken /\ pc' = "seg"
      BY <3>1, HvxTypes
    <3>2. CASE ~ (HvxTaken /\ pc' = "seg")
      BY <1>6, <3>2 DEF SendSegment, TypeOK
    <3>3. QED BY <3>1, <3>2
  <2>2. UNCHANGED <<msg, indices, txInfo, queue, origin>>
    BY <1>6 DEF SendSegment
  <2>3. QED BY <1>1, <2>1, <2>2, SMTT(30) DEF TypeOK
<1>7. CASE CountSegment
  <2>0. u8Seg \in Uint8
    BY DEF TypeOK
  <2>1. u8Seg \in Nat
    BY <2>0 DEF Uint8
  <2>2. (u8Seg + 1) % 256 \in Uint8
    BY <2>1, Remainders
  <2>3. QED BY <1>1, <1>7, <2>2 DEF CountSegment, TypeOK
<1>8. CASE SetLocked
  BY <1>1, <1>8 DEF SetLocked, TypeOK
<1>9. CASE CopyIndices
  BY <1>1, <1>9 DEF CopyIndices, TypeOK
<1>10. CASE StoreBytes
  BY <1>1, <1>10 DEF StoreBytes, TypeOK
<1>11. CASE PublishIndices
  <2>1. indices.read \in Indices /\ indices.write \in Indices
    BY DEF TypeOK
  <2>2. index_read' \in Indices /\ index_write' \in Indices
    BY <1>11, <2>1, SuccIndex DEF PublishIndices
  <2>3. fate' \in [Messages -> {"new", "refused", "taken", "sent", "lost"}]
    BY <1>11 DEF PublishIndices, TypeOK
  <2>4. QED BY <1>1, <1>11, <2>2, <2>3 DEF PublishIndices, TypeOK
<1>12. QED BY <1>2, <1>3, <1>4, <1>5, <1>6, <1>7, <1>8, <1>9, <1>10, <1>11
           DEF Main

LEMMA MainKeeps ==
  ASSUME TxInv, Main
  PROVE  SenderInv' /\ LiveInv' /\ WaitingImpliesLocked' /\ WakeupInv'
<1> USE DEF main, txInfo, service, queue, bounds, history
<1>1. TypeOK /\ SenderInv /\ LiveInv /\ WaitingImpliesLocked /\ WakeupInv
  BY DEF TxInv
<1>2. /\ ~ isr /\ ~ isr' /\ (CompletionDue <=> CompletionDue')
      /\ connected' = connected /\ link' = link
  BY DEF Main, CompletionDue
<1>3. u8Locked \in {0, 1} /\ inflight \in 0 .. HvnQueue /\ HvnQueue > 0
      /\ hit \subseteq Window
  BY <1>1, BleUartAssumption DEF TypeOK
<1> USE DEF SenderInv, LiveInv, WaitingImpliesLocked, WakeupInv, Wakeup,
            Streaming, Queueing
<1>4. CASE u32BLE_Uart_SendBuffer
  BY <1>1, <1>2, <1>4 DEF u32BLE_Uart_SendBuffer
<1>5. CASE TestLocked
  BY <1>1, <1>2, <1>3, <1>5 DEF TestLocked
<1>6. CASE StoreData
  BY <1>1, <1>2, <1>6 DEF StoreData
<1>7. CASE TestMore
  BY <1>1, <1>2, <1>7 DEF TestMore
<1>8. CASE SendSegment
  <2>1. /\ pc = "hvx" /\ u8Locked = 0
        /\ UNCHANGED <<u8Locked, index_read, index_write>>
    BY <1>1, <1>8 DEF SendSegment
  <2>2. CASE HvxTaken /\ pc' = "seg"
    <3>1. hit \subseteq hit'
      BY <1>1, <2>2, HvxTypes
    <3>2. QED BY <1>1, <1>2, <2>1, <2>2, <3>1
  <2>3. CASE HvxFull /\ pc' = "lock" /\ UNCHANGED <<inflight, last, fate, hit>>
    BY <1>1, <1>2, <1>3, <2>1, <2>3 DEF HvxFull, CanNotify
  <2>4. CASE pc' = "idle" /\ hit' = hit
    BY <1>1, <1>2, <2>1, <2>4
  <2>5. QED BY <1>8, <2>2, <2>3, <2>4 DEF SendSegment
<1>9. CASE CountSegment
  BY <1>1, <1>2, <1>9 DEF CountSegment
<1>10. CASE SetLocked
  BY <1>1, <1>2, <1>10 DEF SetLocked
<1>11. CASE CopyIndices
  BY <1>1, <1>2, <1>11 DEF CopyIndices
<1>12. CASE StoreBytes
  BY <1>1, <1>2, <1>12 DEF StoreBytes
<1>13. CASE PublishIndices
  <2>1. pc = "publish" /\ pc' = "idle"
        /\ UNCHANGED <<u8Locked, inflight, hit>>
    BY <1>13 DEF PublishIndices
  <2>2. QED BY <1>1, <1>2, <1>3, <2>1
<1>14. QED BY <1>4, <1>5, <1>6, <1>7, <1>8, <1>9, <1>10, <1>11, <1>12, <1>13
           DEF Main

-----------------------------------------------------------------------------
(***************************************************************************)
(* The handlers.                                                           *)
(***************************************************************************)
LEMMA IsrTypes ==
  ASSUME TypeOK, Isr
  PROVE  TypeOK'
<1> USE DEF main, txInfo, service, queue, radio, bounds, history
<1>1. CASE HandleEvent
  <2>1. /\ events' \in Seq(Event)
        /\ UNCHANGED <<main, radio, bounds, origin>>
    BY <1>1, HandlingKeeps DEF HandleEvent
  <2>2. CASE OnConnect
    BY <2>1, <2>2 DEF OnConnect, TypeOK
  <2>3. CASE OnDisconnect
    <3>1. 0 \in Indices /\ 0 \in 0 .. MaxMessages /\ 0 \in Uint8
      BY BleUartAssumption DEF Indices, Uint8
    <3>2. slot' \in [Indices -> 0 .. MaxMessages]
      BY <2>3, <3>1 DEF OnDisconnect, ClearQueue, ClearTxInfo, NoMessage
    <3>3. fate' \in [Messages -> {"new", "refused", "taken", "sent", "lost"}]
      BY <2>3 DEF OnDisconnect, ClearQueue, ClearTxInfo, TypeOK
    <3>4. last' \in [msg : 0 .. MaxMessages, from : Nat, to : Nat]
      BY <2>3, <3>1
      DEF OnDisconnect, ClearQueue, ClearTxInfo, NoNotification, NoMessage
    <3>5. hit' \subseteq Window
      BY <2>3 DEF OnDisconnect, ClearQueue, ClearTxInfo, TypeOK, Window
    <3>6. QED BY <2>1, <2>3, <3>1, <3>2, <3>3, <3>4, <3>5
              DEF OnDisconnect, ClearQueue, ClearTxInfo, NoMessage, TypeOK
  <2>4. CASE OnWriteCccd
    BY <2>1, <2>4 DEF OnWriteCccd, TypeOK
  <2>5. CASE vBLE_Uart_onGattEvt
    <3>1. hit' \subseteq Window
      BY <2>5 DEF vBLE_Uart_onGattEvt, TypeOK, Window
    <3>2. QED BY <2>1, <2>5, <3>1 DEF vBLE_Uart_onGattEvt, TypeOK
  <2>6. CASE OnTxComplete
    <3>1. hit' \subseteq Window /\ isr' \in BOOLEAN
      BY <2>6 DEF OnTxComplete, TypeOK, Window
    <3>2. QED BY <2>1, <2>6, <3>1 DEF OnTxComplete, TypeOK
  <2>7. QED BY <1>1, <2>2, <2>3, <2>4, <2>5, <2>6 DEF HandleEvent
<1>2. CASE ContinueMessage
  <2>1. /\ inflight' \in 0 .. HvnQueue
        /\ last' \in [msg : 0 .. MaxMessages, from : Nat, to : Nat]
        /\ fate' \in [Messages -> {"new", "refused", "taken", "sent", "lost"}]
        /\ hit' \subseteq Window
    <3>1. CASE HvxTaken
      BY <3>1, HvxTypes
    <3>2. CASE ~ HvxTaken
      BY <1>2, <3>2 DEF ContinueMessage, TypeOK, Window
    <3>3. QED BY <3>1, <3>2
  <2>2. u8Seg \in Nat
    BY DEF TypeOK, Uint8
  <2>3. (u8Seg + 1) % 256 \in Uint8
    BY <2>2, Remainders
  <2>4. u8Seg' \in Uint8 /\ isr' \in BOOLEAN /\ u8Locked' \in {0, 1}
    BY <1>2, <2>3 DEF ContinueMessage, TypeOK
  <2>5. QED BY <1>2, <2>1, <2>4 DEF ContinueMessage, TypeOK
<1>3. CASE NextMessage
  <2>1. /\ slot[index_read] \in 0 .. MaxMessages
        /\ Succ(index_read) \in Indices
        /\ 0 \in Uint8
    BY SuccIndex DEF TypeOK, Uint8
  <2>2. /\ isr' \in BOOLEAN /\ u8Locked' \in {0, 1}
        /\ au8DataToSend' \in 0 .. MaxMessages /\ u16Length' \in {0, MsgLen}
        /\ u8Seg' \in Uint8 /\ index_read' \in Indices
    BY <1>3, <2>1 DEF NextMessage, TypeOK
  <2>3. QED BY <1>3, <2>2 DEF NextMessage, TypeOK
<1>4. QED BY <1>1, <1>2, <1>3 DEF Isr

LEMMA IsrKeeps ==
  ASSUME TxInv, Isr
  PROVE  SenderInv' /\ LiveInv' /\ WaitingImpliesLocked' /\ WakeupInv'
<1> USE DEF main, txInfo, service, queue, radio, bounds, history
<1>1. TypeOK /\ SenderInv /\ LiveInv /\ WaitingImpliesLocked /\ WakeupInv
  BY DEF TxInv
<1>2. u8Locked \in {0, 1} /\ inflight \in 0 .. HvnQueue /\ HvnQueue > 0
  BY <1>1, BleUartAssumption DEF TypeOK
<1> USE DEF SenderInv, LiveInv, WaitingImpliesLocked, WakeupInv, Wakeup,
            Streaming, Queueing
<1>3. CASE HandleEvent
  <2>1. /\ ~ isr /\ UNCHANGED <<pc, link, inflight>>
        /\ Head(events) # "complete" /\ CompletionDue => CompletionDue'
    BY <1>1, <1>3, HandlingKeeps DEF HandleEvent
  <2>2. CASE OnConnect
    BY <1>1, <2>1, <2>2 DEF OnConnect
  <2>3. CASE OnDisconnect
    <3>1. ~ isr' /\ u8Locked' = 0 /\ index_read' = index_write' /\ pc' = pc
      BY <2>1, <2>3 DEF OnDisconnect, ClearQueue, ClearTxInfo
    <3>2. CASE pc = "idle"
      BY <3>1, <3>2
    <3>3. CASE pc # "idle"
      <4>1. "reset" \in hit'
        BY <2>3, <3>3 DEF OnDisconnect, ClearQueue, ClearTxInfo
      <4>2. QED BY <3>1, <4>1
    <3>4. QED BY <3>2, <3>3
  <2>4. CASE OnWriteCccd
    BY <1>1, <2>1, <2>4 DEF OnWriteCccd
  <2>5. CASE vBLE_Uart_onGattEvt
    BY <1>1, <2>1, <2>5 DEF vBLE_Uart_onGattEvt
  <2>6. CASE OnTxComplete
    <3>1. /\ isr' <=> u8Locked = 1
          /\ UNCHANGED <<u8Locked, connected, index_read, index_write>>
          /\ hit \subseteq hit'
          /\ pc = "lock" => "lock" \in hit'
          /\ pc \in Queueing => "queue" \in hit'
      BY <2>6 DEF OnTxComplete
    <3>2. SenderInv'
      BY <1>1, <2>1, <3>1
    <3>3. LiveInv' /\ WaitingImpliesLocked'
      BY <1>1, <2>1, <3>1
    <3>4. WakeupInv'
      BY <1>1, <1>2, <2>1, <3>1
    <3>5. QED BY <3>2, <3>3, <3>4
  <2>7. QED BY <1>3, <2>2, <2>3, <2>4, <2>5, <2>6 DEF HandleEvent
<1>4. CASE ContinueMessage
  <2>1. /\ isr /\ u8Locked = 1 /\ u8Locked' = 1
        /\ (CompletionDue <=> CompletionDue')
        /\ UNCHANGED <<pc, connected, link, index_read, index_write>>
    BY <1>1, <1>4 DEF ContinueMessage, CompletionDue
  <2>2. CASE HvxTaken /\ isr' = isr
    <3>1. hit \subseteq hit'
      BY <1>1, <2>2, HvxTypes
    <3>2. QED BY <1>1, <2>1, <2>2, <3>1
  <2>3. CASE HvxFull /\ isr' = FALSE /\ UNCHANGED <<inflight, hit>>
    BY <1>1, <1>2, <2>1, <2>3 DEF HvxFull, CanNotify
  <2>4. CASE isr' = FALSE /\ hit' = hit \union {"error"}
    BY <1>1, <2>1, <2>4
  <2>5. QED BY <1>4, <2>2, <2>3, <2>4 DEF ContinueMessage
<1>5. CASE NextMessage
  <2>1. /\ isr /\ u8Locked = 1
        /\ (CompletionDue <=> CompletionDue')
        /\ UNCHANGED <<pc, connected, link, inflight, hit, index_write>>
    BY <1>1, <1>5 DEF NextMessage, CompletionDue
  <2>2. CASE index_read = index_write
    <3>1. u8Locked' = 0 /\ isr' = FALSE /\ index_read' = index_read
      BY <1>5, <2>2 DEF NextMessage
    <3>2. QED BY <1>1, <2>1, <2>2, <3>1
  <2>3. CASE index_read # index_write
    <3>1. u8Locked' = 1 /\ isr'
      BY <1>5, <2>1, <2>3 DEF NextMessage
    <3>2. QED BY <1>1, <2>1, <2>3, <3>1
  <2>4. QED BY <2>2, <2>3
<1>6. QED BY <1>3, <1>4, <1>5 DEF Isr

-----------------------------------------------------------------------------
(***************************************************************************)
(* The SoftDevice and the peer.                                            *)
(***************************************************************************)
LEMMA SoftDeviceTypes ==
  ASSUME TypeOK, SoftDevice
  PROVE  TypeOK'
<1> USE DEF main, txInfo, service, queue, bounds, history
<1>1. UNCHANGED <<main, isr, txInfo, service, queue, history>>
  BY DEF SoftDevice, LinkUp, LinkLost, AdvertisingEnds, radio, Subscribe,
     Unsubscribe, ExchangeMtu, Transmit
<1>2. events' \in Seq(Event)
  BY RaiseKeeps DEF SoftDevice, LinkUp, LinkLost, AdvertisingEnds, radio,
     Subscribe, Unsubscribe, ExchangeMtu, Transmit, Event
<1>3. /\ link' \in BOOLEAN /\ cccd' \in BOOLEAN
      /\ mtu' \in {DefaultSeg, LongSeg}
  BY DEF SoftDevice, LinkUp, LinkLost, AdvertisingEnds, radio, Subscribe,
     Unsubscribe, ExchangeMtu, Transmit, TypeOK
<1>c. links \in 0 .. MaxLinks /\ subscriptions \in 0 .. MaxSubscriptions
  BY DEF TypeOK
<1>d. /\ links' = links \/ (links < MaxLinks /\ links' = links + 1)
      /\ \/ subscriptions' \in {0, subscriptions}
         \/ /\ subscriptions < MaxSubscriptions
            /\ subscriptions' = subscriptions + 1
  BY DEF SoftDevice, LinkUp, LinkLost, AdvertisingEnds, radio, Subscribe,
     Unsubscribe, ExchangeMtu, Transmit
<1>4. links' \in 0 .. MaxLinks /\ subscriptions' \in 0 .. MaxSubscriptions
  BY <1>c, <1>d, BleUartAssumption
<1>a. inflight \in 0 .. HvnQueue
  BY DEF TypeOK
<1>b. \/ inflight' \in {0, inflight}
      \/ inflight' \in 0 .. inflight - 1
  BY DEF SoftDevice, LinkUp, LinkLost, AdvertisingEnds, radio, Subscribe,
     Unsubscribe, ExchangeMtu, Transmit
<1>5. inflight' \in 0 .. HvnQueue
  BY <1>a, <1>b, BleUartAssumption
<1>6. QED BY <1>1, <1>2, <1>3, <1>4, <1>5 DEF TypeOK

LEMMA SoftDeviceKeeps ==
  ASSUME TxInv, SoftDevice
  PROVE  SenderInv' /\ LiveInv' /\ WaitingImpliesLocked' /\ WakeupInv'
<1> USE DEF main, txInfo, service, queue, bounds, history
<1>1. TypeOK /\ SenderInv /\ LiveInv /\ WaitingImpliesLocked /\ WakeupInv
  BY DEF TxInv
<1>2. UNCHANGED <<main, isr, txInfo, service, queue, history>>
  BY DEF SoftDevice, LinkUp, LinkLost, AdvertisingEnds, radio, Subscribe,
     Unsubscribe, ExchangeMtu, Transmit
<1>3. /\ CompletionDue => CompletionDue'
      /\ Transmit => CompletionDue'
  BY <1>1, RaiseKeeps DEF SoftDevice, LinkUp, LinkLost, AdvertisingEnds, radio,
     Subscribe, Unsubscribe, ExchangeMtu, Transmit, Event
<1>4. SenderInv' /\ LiveInv' /\ WaitingImpliesLocked'
  BY <1>1, <1>2 DEF SenderInv, LiveInv, WaitingImpliesLocked, Streaming,
                    Queueing
<1>5. WakeupInv'
  <2>1. CASE LinkUp
    BY <1>1, <1>2, <2>1 DEF LinkUp, LiveInv, WakeupInv
  <2>2. CASE LinkLost
    BY <2>2 DEF LinkLost, WakeupInv, Wakeup
  <2>3. CASE Transmit
    BY <1>3, <2>3 DEF WakeupInv, Wakeup
  <2>4. CASE Subscribe \/ Unsubscribe \/ ExchangeMtu
    BY <1>1, <1>2, <1>3, <2>4
    DEF Subscribe, Unsubscribe, ExchangeMtu, WakeupInv, Wakeup
  <2>5. CASE AdvertisingEnds
    BY <2>5 DEF AdvertisingEnds, radio, WakeupInv, Wakeup
  <2>6. QED BY <2>1, <2>2, <2>3, <2>4, <2>5 DEF SoftDevice
<1>6. QED BY <1>4, <1>5

-----------------------------------------------------------------------------
LEMMA StutterTx ==
  ASSUME TxInv, UNCHANGED vars
  PROVE  TxInv'
BY DEF TxInv, TypeOK, SenderInv, LiveInv, WaitingImpliesLocked, WakeupInv,
       Wakeup, CompletionDue, vars, main, txInfo, service, queue, radio,
       bounds, history

LEMMA NextTx ==
  ASSUME TxInv, [Next]_vars
  PROVE  TxInv'
<1>1. TypeOK
  BY DEF TxInv
<1>2. CASE Main
  BY <1>1, <1>2, MainTypes, MainKeeps DEF TxInv
<1>3. CASE Isr
  BY <1>1, <1>3, IsrTypes, IsrKeeps DEF TxInv
<1>4. CASE SoftDevice
  BY <1>1, <1>4, SoftDeviceTypes, SoftDeviceKeeps DEF TxInv
<1>5. CASE UNCHANGED vars
  BY <1>5, StutterTx
<1>6. QED BY <1>2, <1>3, <1>4, <1>5 DEF Next

\* TxInv holds in every state of every behaviour.
THEOREM TxInvariant == Spec => []TxInv
<1>1. Init => TxInv
  BY InitTx
<1>2. TxInv /\ [Next]_vars => TxInv'
  BY NextTx
<1>3. QED BY <1>1, <1>2, PTL DEF Spec

\* Every variable of BLE_Uart.c and of its queue keeps its type, whatever event
\* comes at whatever point of u32BLE_Uart_SendBuffer.
THEOREM TypeCorrect == Spec => []TypeOK
<1>1. TxInv => TypeOK
  BY DEF TxInv
<1>2. QED BY <1>1, TxInvariant, PTL

\* The main loop and the transmit-complete handler never cut a message into
\* notifications at the same time.
THEOREM OneSenderAtATime == Spec => []OneSender
<1>1. TxInv => OneSender
  BY DEF TxInv, SenderInv, OneSender, Streaming
<1>2. QED BY <1>1, TxInvariant, PTL

\* A message that waits in the queue has u8Locked set, as long as no completion
\* came between the test of u8Locked and the end of the write.
THEOREM NoStrandedMessage == Spec => []WaitingImpliesLocked
<1>1. TxInv => WaitingImpliesLocked
  BY DEF TxInv
<1>2. QED BY <1>1, TxInvariant, PTL

\* While u8Locked is set a completion comes, as long as none came right before
\* it was set and no error ended the handler's loop.
THEOREM LockIsReleased == Spec => []LockedImpliesWakeup
<1>1. TxInv => LockedImpliesWakeup
  BY DEF TxInv, WakeupInv, LockedImpliesWakeup
<1>2. QED BY <1>1, TxInvariant, PTL

-----------------------------------------------------------------------------
(***************************************************************************)
(* Whose messages are sent.  As long as no reset came during a call, all   *)
(* that the service holds was taken on this link, and a service without a  *)
(* link holds nothing.                                                     *)
(***************************************************************************)
Ours(m) == m \in Messages /\ origin[m] = links

HoldsNothing ==
  /\ pc = "idle" /\ last = NoNotification /\ u16Length = 0
  /\ \A i \in Indices : slot[i] = NoMessage

HoldsOurs ==
  /\ pc # "idle" => Ours(msg)
  /\ pc \in {"loop", "hvx", "seg"} => u16Length # 0
  /\ last # NoNotification => Ours(last.msg)
  /\ u16Length # 0 => Ours(au8DataToSend)
  /\ \A i \in Indices : slot[i] # NoMessage => Ours(slot[i])

OwnInv ==
  "reset" \notin hit => HoldsOurs /\ (~ connected => HoldsNothing)

\* A segment is one of the message at hand.
LEMMA HvxOurs ==
  ASSUME TypeOK, HoldsOurs, HvxTaken, u16Length # 0, UNCHANGED <<origin, links>>
  PROVE  Ours(last.msg)' /\ connected /\ hit \subseteq hit'
<1>1. last'.msg = au8DataToSend /\ connected
  BY DEF HvxTaken, CanNotify
<1>2. Ours(au8DataToSend)
  BY DEF HoldsOurs
<1>3. QED BY <1>1, <1>2, HvxTypes DEF Ours

\* The main loop takes messages on this link only.
LEMMA MainOwn ==
  ASSUME TxInv, OwnInv, Main
  PROVE  OwnInv'
<1> USE DEF main, txInfo, service, queue, bounds, history
<1>0. TypeOK /\ LiveInv
  BY DEF TxInv
<1>1. links' = links /\ connected' = connected
  BY DEF Main
<1>2. hit \subseteq hit'
  BY <1>0, HvxTypes DEF Main, u32BLE_Uart_SendBuffer, TestLocked, StoreData,
     TestMore, SendSegment, CountSegment, SetLocked, CopyIndices, StoreBytes,
     PublishIndices
<1> SUFFICES ASSUME "reset" \notin hit'
             PROVE  HoldsOurs' /\ (~ connected' => HoldsNothing')
  BY DEF OwnInv
<1>3. HoldsOurs /\ (~ connected => HoldsNothing)
  BY <1>2 DEF OwnInv
<1>4. CASE u32BLE_Uart_SendBuffer
  <2>1. \A m : Ours(m) => Ours(m)'
    BY <1>0, <1>1, <1>4 DEF u32BLE_Uart_SendBuffer, Ours, TypeOK
  <2>2. Ours(msg)'
    BY <1>0, <1>1, <1>4, BleUartAssumption
    DEF u32BLE_Uart_SendBuffer, Ours, TypeOK, Messages
  <2>3. /\ UNCHANGED <<last, u16Length, au8DataToSend, slot>>
        /\ pc' \in {"idle", "test"} /\ (~ connected => pc' = "idle")
    BY <1>4 DEF u32BLE_Uart_SendBuffer
  <2>4. HoldsOurs'
    <3>1. pc' # "idle" => Ours(msg)'
      BY <2>2
    <3>2. last' # NoNotification => Ours(last.msg)'
      BY <1>3, <2>1, <2>3 DEF HoldsOurs
    <3>3. u16Length' # 0 => Ours(au8DataToSend)'
      BY <1>3, <2>1, <2>3 DEF HoldsOurs
    <3>4. \A i \in Indices : slot'[i] # NoMessage => Ours(slot[i])'
      BY <1>3, <2>1, <2>3 DEF HoldsOurs
    <3>5. QED BY <2>3, <3>1, <3>2, <3>3, <3>4 DEF HoldsOurs
  <2>5. ~ connected' => HoldsNothing'
    BY <1>1, <1>3, <2>3 DEF HoldsNothing
  <2>6. QED BY <2>4, <2>5
<1>5. CASE SendSegment
  <2>1. /\ pc = "hvx"
        /\ UNCHANGED <<origin, links, msg, slot, u16Length, au8DataToSend>>
    BY <1>1, <1>5 DEF SendSegment
  <2>2. u16Length # 0 /\ connected
    BY <1>3, <2>1 DEF HoldsOurs, HoldsNothing
  <2>3. last' = last \/ Ours(last.msg)'
    BY <1>0, <1>3, <1>5, <2>1, <2>2, HvxOurs DEF SendSegment
  <2>4. pc' \in {"seg", "lock", "idle"}
    BY <1>5 DEF SendSegment
  <2>5. \A m : Ours(m) <=> Ours(m)'
    BY <2>1 DEF Ours
  <2>6. last' # NoNotification => Ours(last.msg)'
    BY <1>3, <2>3, <2>5 DEF HoldsOurs
  <2>7. HoldsOurs'
    BY <1>3, <2>1, <2>2, <2>4, <2>5, <2>6 DEF HoldsOurs
  <2>8. QED BY <1>1, <2>2, <2>7
<1>6. CASE TestLocked \/ TestMore \/ SetLocked \/ CopyIndices \/ CountSegment
           \/ PublishIndices
  <2>1. /\ UNCHANGED <<msg, last, u16Length, au8DataToSend, slot, origin,
                        links>>
        /\ pc # "idle"
        /\ pc' \in {"loop", "hvx", "seg"} => pc \in {"loop", "hvx", "seg"}
    BY <1>1, <1>6 DEF TestLocked, TestMore, SetLocked, CopyIndices,
       CountSegment, PublishIndices
  <2>2. QED BY <1>1, <1>3, <2>1 DEF HoldsOurs, HoldsNothing, Ours
<1>7. CASE StoreData
  <2>1. MsgLen # 0 /\ connected
    BY <1>3, <1>7, BleUartAssumption DEF HoldsNothing, StoreData
  <2>2. QED BY <1>1, <1>3, <1>7, <2>1 DEF StoreData, HoldsOurs, Ours
<1>8. CASE StoreBytes
  <2>1. connected /\ Ours(msg)
    BY <1>3, <1>8 DEF HoldsNothing, HoldsOurs, StoreBytes
  <2>2. \A i \in Indices : slot'[i] \in {slot[i], msg}
    BY <1>0, <1>8 DEF StoreBytes, TypeOK
  <2>3. QED BY <1>1, <1>3, <1>8, <2>1, <2>2 DEF StoreBytes, HoldsOurs, Ours
<1>9. QED BY <1>4, <1>5, <1>6, <1>7, <1>8 DEF Main

\* A disconnection empties the service, and the handler sends what is there.
LEMMA IsrOwn ==
  ASSUME TxInv, OwnInv, Isr
  PROVE  OwnInv'
<1> USE DEF main, txInfo, service, queue, radio, bounds, history
<1>0. TypeOK /\ SenderInv
  BY DEF TxInv
<1>1. UNCHANGED <<origin, links, msg, pc>>
  BY DEF Isr, HandleEvent, ContinueMessage, NextMessage
<1>2. CASE HandleEvent /\ OnDisconnect
  <2>1. "reset" \notin hit' => pc = "idle"
    BY <1>2 DEF OnDisconnect
  <2>2. pc = "idle" => HoldsNothing'
    BY <1>1, <1>2 DEF OnDisconnect, ClearQueue, ClearTxInfo, HoldsNothing
  <2>3. HoldsNothing' => HoldsOurs'
    BY DEF HoldsNothing, HoldsOurs
  <2>4. QED BY <2>1, <2>2, <2>3 DEF OwnInv
<1>3. CASE HandleEvent /\ ~ OnDisconnect
  <2>1. /\ UNCHANGED <<last, u16Length, au8DataToSend, slot>>
        /\ hit \subseteq hit' /\ (connected => connected')
    BY <1>3 DEF HandleEvent, OnConnect, OnWriteCccd, vBLE_Uart_onGattEvt,
       OnTxComplete
  <2>2. QED BY <1>1, <2>1 DEF OwnInv, HoldsOurs, HoldsNothing, Ours
<1>4. CASE ContinueMessage
  <2>1. UNCHANGED <<connected, slot, u16Length, au8DataToSend>>
    BY <1>4 DEF ContinueMessage
  <2>2. u16Length # 0
    <3>1. Offset \in Nat /\ Offset < u16Length
      BY <1>0, <1>4, SegmentTypes DEF ContinueMessage, MoreToSend
    <3>2. QED BY <3>1
  <2>3. CASE HvxTaken
    <3>1. connected /\ hit \subseteq hit'
      BY <1>0, <2>3, HvxTypes DEF HvxTaken, CanNotify
    <3>2. ASSUME HoldsOurs PROVE Ours(last.msg)'
      BY <1>0, <1>1, <2>2, <2>3, <3>2, HvxOurs
    <3>3. HoldsOurs => HoldsOurs'
      BY <1>1, <2>1, <3>2 DEF HoldsOurs, Ours
    <3>4. QED BY <2>1, <3>1, <3>3 DEF OwnInv
  <2>4. CASE ~ HvxTaken
    <3>1. last' = last /\ hit \subseteq hit'
      BY <1>4, <2>4 DEF ContinueMessage
    <3>2. QED BY <1>1, <2>1, <3>1 DEF OwnInv, HoldsOurs, HoldsNothing, Ours
  <2>5. QED BY <2>3, <2>4
<1>5. CASE NextMessage
  <2>1. UNCHANGED <<connected, slot, last, hit>> /\ isr
    BY <1>5 DEF NextMessage
  <2>2. pc \notin Streaming
    BY <1>0, <2>1 DEF SenderInv
  <2>3. CASE u16Length' = 0
    BY <1>1, <2>1, <2>2, <2>3
    DEF OwnInv, HoldsOurs, HoldsNothing, Ours, Streaming
  <2>4. CASE u16Length' # 0
    <3>1. /\ index_read \in Indices /\ slot[index_read] # NoMessage
          /\ au8DataToSend' = slot[index_read]
      BY <1>0, <1>5, <2>4 DEF NextMessage, TypeOK
    <3>2. QED BY <1>1, <2>1, <2>2, <3>1
              DEF OwnInv, HoldsOurs, HoldsNothing, Ours, Streaming
  <2>5. QED BY <2>3, <2>4
<1>6. QED BY <1>2, <1>3, <1>4, <1>5 DEF Isr

\* A new link finds the service empty.
LEMMA SoftDeviceOwn ==
  ASSUME OwnInv, SoftDevice
  PROVE  OwnInv'
<1> USE DEF main, txInfo, service, queue, bounds, history
<1>1. UNCHANGED <<main, txInfo, service, queue, history>>
  BY DEF SoftDevice, LinkUp, LinkLost, AdvertisingEnds, radio, Subscribe,
     Unsubscribe, ExchangeMtu, Transmit
<1>2. CASE LinkUp
  <2>1. ~ connected
    BY <1>2 DEF LinkUp
  <2>2. "reset" \notin hit => HoldsNothing'
    BY <1>1, <2>1 DEF OwnInv, HoldsNothing
  <2>3. HoldsNothing' => HoldsOurs'
    BY DEF HoldsNothing, HoldsOurs
  <2>4. QED BY <1>1, <2>2, <2>3 DEF OwnInv
<1>3. CASE ~ LinkUp
  <2>1. links' = links
    BY <1>3 DEF SoftDevice, LinkLost, AdvertisingEnds, radio, Subscribe,
       Unsubscribe, ExchangeMtu, Transmit
  <2>2. QED BY <1>1, <2>1 DEF OwnInv, HoldsOurs, HoldsNothing, Ours
<1>4. QED BY <1>2, <1>3

\* The service starts empty, and no step puts another link's message into it.
LEMMA InitOwn == Init => OwnInv
BY DEF Init, OwnInv, HoldsOurs, HoldsNothing

LEMMA NextOwn ==
  ASSUME TxInv, OwnInv, [Next]_vars
  PROVE  OwnInv'
<1>1. CASE UNCHANGED vars
  BY <1>1 DEF vars, main, txInfo, service, queue, bounds, history, OwnInv,
     HoldsOurs, HoldsNothing, Ours
<1>2. QED BY <1>1, MainOwn, IsrOwn, SoftDeviceOwn DEF Next

\* A message taken on one link is never sent on a later one, as long as no
\* disconnection came during u32BLE_Uart_SendBuffer (vBleUart_Reset).
THEOREM SentOnItsLink == Spec => []OnlyItsLink
<1>1. Init => OwnInv
  BY InitOwn
<1>2. TxInv /\ OwnInv /\ [Next]_vars => OwnInv'
  BY NextOwn
<1>3. OwnInv => OnlyItsLink
  BY DEF OwnInv, HoldsOurs, Ours, OnlyItsLink
<1>4. QED BY <1>1, <1>2, <1>3, TxInvariant, PTL DEF Spec
-----------------------------------------------------------------------------
(***************************************************************************)
(* In which order the peer gets them.  A message is followed from the call *)
(* over the ring to its last segment: whatever waits is newer than what is *)
(* being sent, and older than the message of a call under way.  This holds *)
(* until a completion comes during a write of the ring, a reset during a   *)
(* call or the MTU exchange during a message.                              *)
(***************************************************************************)
Orderly == hit \intersect {"queue", "reset", "mtu"} = {}

\* How far behind the oldest message of the ring a place is.
Pos(i) == IF i >= index_read THEN i - index_read
                             ELSE i - index_read + Depth + 1
InRing(i) == Pos(i) < Pos(index_write)

\* The message whose segment was sent last needs no further one.
Done == \/ last = NoNotification \/ last.to = MsgLen
        \/ fate[last.msg] = "lost"

\* The offset behind a segment that ends at n, or the end of the message.
UpTo(n) == IF n < MsgLen THEN n ELSE MsgLen

\* The message at hand is sent up to its offset, or is still to begin.
Position == \/ last.msg = au8DataToSend /\ last.to = UpTo(Offset)
            \/ u8Seg = 0 /\ last.msg < au8DataToSend /\ Done

\* The call has a message and has not given it away.
Calling == pc \in {"test", "copy", "snapshot", "store", "publish"}
Cutting == pc \in {"loop", "hvx", "seg", "lock"}

\* Neither what was sent last nor what is at hand is newer than the message of
\* the call, which is neither of them before it is given away.
CallInv ==
  /\ last.msg <= msg /\ au8DataToSend <= msg
  /\ Calling => last.msg < msg
  /\ (Calling /\ u8Locked = 1 => au8DataToSend < msg)
  /\ Cutting => au8DataToSend = msg

SendingInv ==
  /\ (pc \in {"loop", "hvx", "lock"} \/ u8Locked = 1
        => u16Length = MsgLen /\ Position)
  /\ pc \in {"hvx", "seg"} => Offset < MsgLen
  /\ (pc = "seg" => /\ u16Length = MsgLen /\ last.msg = au8DataToSend
                    /\ last.to = UpTo(Offset + g_u16SegSize))
  /\ (u8Locked = 0 /\ ~ Cutting => Done)

\* What waits is newer than what was sent, and in order; the main loop's write
\* of the ring has the indices of the ring.
WaitsBehind(i) ==
  /\ slot[i] \in Messages /\ slot[i] <= msg
  /\ Calling => slot[i] < msg
  /\ au8DataToSend < slot[i] /\ last.msg < slot[i]

RingNewer == \A i \in Indices : InRing(i) => WaitsBehind(i)

RingInOrder ==
  \A i, j \in Indices :
    InRing(j) /\ Pos(i) < Pos(j) => slot[i] < slot[j]

WriteInv ==
  /\ pc \in {"store", "publish"} =>
       indices.read = index_read /\ indices.write = index_write
  /\ pc = "publish" => slot[index_write] = msg

WireInv ==
  Orderly => CallInv /\ SendingInv /\ RingNewer /\ RingInOrder /\ WriteInv

-----------------------------------------------------------------------------
\* The offsets of the segments: none of them is at the end of the type.
LEMMA Multiples ==
  \A s, g \in Nat : /\ (s + 1) * g = s * g + g
                    /\ g > 0 => s * g >= s
OBVIOUS

\* A remainder of what is small is the number itself.
LEMMA SmallRemainders ==
  /\ \A n \in 0 .. 255 : n % 65536 = n
  /\ \A n \in 0 .. 255 : n % 256 = n
OBVIOUS

\* What the variables of the transmitter are as numbers.
LEMMA WireTypes ==
  ASSUME TypeOK
  PROVE  /\ last.msg \in Nat /\ au8DataToSend \in Nat /\ msg \in Nat
         /\ u8Seg \in Nat /\ g_u16SegSize \in Nat /\ g_u16SegSize > 0
         /\ MsgLen \in Nat /\ MsgLen > 0 /\ MsgLen <= 255
         /\ Offset \in Nat /\ Offset = u8Seg * g_u16SegSize
         /\ Offset >= u8Seg
         /\ u8Locked \in {0, 1} /\ u16Length \in {0, MsgLen}
         /\ index_read \in Indices /\ index_write \in Indices
         /\ slot \in [Indices -> 0 .. MaxMessages]
         /\ \A i \in Indices : slot[i] \in Nat
<1>1. /\ last \in [msg : 0 .. MaxMessages, from : Nat, to : Nat]
      /\ au8DataToSend \in 0 .. MaxMessages /\ msg \in 0 .. MaxMessages
      /\ u8Seg \in Uint8 /\ g_u16SegSize \in {DefaultSeg, LongSeg}
      /\ u8Locked \in {0, 1} /\ u16Length \in {0, MsgLen}
      /\ index_read \in Indices /\ index_write \in Indices
      /\ slot \in [Indices -> 0 .. MaxMessages]
  BY DEF TypeOK
<1>2. /\ last.msg \in Nat /\ au8DataToSend \in Nat /\ msg \in Nat
      /\ \A i \in Indices : slot[i] \in Nat
  BY <1>1, BleUartAssumption
<1>3. /\ u8Seg \in Nat /\ g_u16SegSize \in Nat /\ g_u16SegSize > 0
      /\ MsgLen \in Nat /\ MsgLen > 0 /\ MsgLen <= 255
  BY <1>1, BleUartAssumption DEF Uint8
<1>4. Offset \in Nat /\ Offset = u8Seg * g_u16SegSize /\ Offset >= u8Seg
  BY <1>3, Products, Multiples DEF Offset
<1>5. QED BY <1>1, <1>2, <1>3, <1>4

\* u8Seg does not wrap around as long as a segment is left.
LEMMA NextOffset ==
  ASSUME TypeOK, Offset < MsgLen
  PROVE  /\ (u8Seg + 1) % 256 = u8Seg + 1
         /\ (u8Seg + 1) * g_u16SegSize = Offset + g_u16SegSize
         /\ (MsgLen - Offset) % 65536 = MsgLen - Offset
<1>1. /\ u8Seg \in Nat /\ g_u16SegSize \in Nat
      /\ MsgLen \in Nat /\ MsgLen <= 255
      /\ Offset \in Nat /\ Offset = u8Seg * g_u16SegSize /\ Offset >= u8Seg
  BY WireTypes
<1>2. MsgLen - Offset \in 0 .. 255 /\ u8Seg + 1 \in 0 .. 255
  BY <1>1
<1>3. /\ (MsgLen - Offset) % 65536 = MsgLen - Offset
      /\ (u8Seg + 1) % 256 = u8Seg + 1
  BY <1>2, SmallRemainders
<1>4. (u8Seg + 1) * g_u16SegSize = Offset + g_u16SegSize
  BY <1>1, Multiples
<1>5. QED BY <1>3, <1>4

\* A segment begins at the offset and ends where the next one begins, or the
\* message.
LEMMA HvxSegment ==
  ASSUME TypeOK, HvxTaken, "mtu" \notin hit', u16Length = MsgLen,
         Offset < MsgLen
  PROVE  /\ last'.msg = au8DataToSend /\ last'.from = Offset
         /\ last'.to = UpTo(Offset + g_u16SegSize)
<1>1. /\ g_u16SegSize \in Nat /\ MsgLen \in Nat /\ Offset \in Nat
  BY WireTypes
<1>2. DataSent = IF MsgLen - Offset > g_u16SegSize THEN g_u16SegSize
                                                   ELSE MsgLen - Offset
  BY NextOffset DEF DataSent
<1>3. Offset + DataSent = UpTo(Offset + g_u16SegSize)
  BY <1>1, <1>2 DEF UpTo
<1>4. ~ (DataSent > mtu)
  BY DEF HvxTaken
<1>5. /\ last'.msg = au8DataToSend /\ last'.from = Offset
      /\ last'.to = Offset + DataSent
  BY <1>4 DEF HvxTaken
<1>6. QED BY <1>3, <1>5

\* A window once hit stays hit, until the state is reset.
LEMMA OrderlyBefore ==
  ASSUME TypeOK, Orderly',
         \/ Main \/ ContinueMessage \/ NextMessage \/ SoftDevice
         \/ HandleEvent /\ ~ OnDisconnect
         \/ UNCHANGED vars
  PROVE  Orderly
<1>1. hit \subseteq hit'
  <2> USE DEF main, txInfo, service, queue, radio, bounds, history
  <2>1. CASE Main
    BY <2>1, HvxTypes DEF Main, u32BLE_Uart_SendBuffer, TestLocked, StoreData,
       TestMore, SendSegment, CountSegment, SetLocked, CopyIndices, StoreBytes,
       PublishIndices
  <2>2. CASE HandleEvent /\ ~ OnDisconnect
    BY <2>2 DEF HandleEvent, OnConnect, OnWriteCccd, vBLE_Uart_onGattEvt,
       OnTxComplete
  <2>3. CASE ContinueMessage
    BY <2>3, HvxTypes DEF ContinueMessage
  <2>4. CASE NextMessage
    BY <2>4 DEF NextMessage
  <2>5. CASE SoftDevice
    BY <2>5 DEF SoftDevice, LinkUp, LinkLost, AdvertisingEnds, radio, Subscribe,
       Unsubscribe, ExchangeMtu, Transmit
  <2>6. CASE UNCHANGED vars
    BY <2>6 DEF vars
  <2>7. QED BY <2>1, <2>2, <2>3, <2>4, <2>5, <2>6
<1>2. QED BY <1>1 DEF Orderly

\* What is lost stays lost, so that a message that needs no further segment
\* needs none later.
LEMMA DoneStays ==
  ASSUME TypeOK, OwnInv, Orderly, last.msg <= msg, [Next]_vars, Done,
         last' = last
  PROVE  Done'
<1> USE DEF main, txInfo, service, queue, radio, bounds, history
<1>1. last # NoNotification => last.msg \in Messages
  BY DEF Orderly, OwnInv, HoldsOurs, Ours
<1>2. last.msg \in Nat /\ msg \in Nat
  BY WireTypes
<1>3. ASSUME NEW m \in Messages, m <= msg, fate[m] = "lost"
      PROVE  fate'[m] = "lost"
  <2>0. fate \in [Messages -> {"new", "refused", "taken", "sent", "lost"}]
    BY DEF TypeOK
  <2>1. CASE u32BLE_Uart_SendBuffer
    BY <1>2, <1>3, <2>0, <2>1 DEF u32BLE_Uart_SendBuffer
  <2>2. CASE HvxTaken
    BY <1>3, <2>0, <2>2 DEF HvxTaken
  <2>3. CASE SendSegment /\ ~ HvxTaken
    BY <1>3, <2>0, <2>3 DEF SendSegment
  <2>4. CASE ContinueMessage /\ ~ HvxTaken
    BY <1>3, <2>4 DEF ContinueMessage
  <2>5. CASE PublishIndices
    BY <1>3, <2>5 DEF PublishIndices
  <2>6. CASE HandleEvent
    BY <1>3, <2>6 DEF HandleEvent, OnConnect, OnDisconnect, OnWriteCccd,
       vBLE_Uart_onGattEvt, OnTxComplete
  <2>7. CASE TestLocked \/ StoreData \/ TestMore \/ CountSegment \/ SetLocked
             \/ CopyIndices \/ StoreBytes \/ NextMessage
    BY <1>3, <2>7 DEF TestLocked, StoreData, TestMore, CountSegment, SetLocked,
       CopyIndices, StoreBytes, NextMessage
  <2>8. CASE SoftDevice
    BY <1>3, <2>8 DEF SoftDevice, LinkUp, LinkLost, AdvertisingEnds, radio,
       Subscribe, Unsubscribe, ExchangeMtu, Transmit
  <2>9. CASE UNCHANGED vars
    BY <1>3, <2>9 DEF vars
  <2>10. QED BY <2>1, <2>2, <2>3, <2>4, <2>5, <2>6, <2>7, <2>8, <2>9
             DEF Next, Main, Isr
<1>4. QED BY <1>1, <1>3 DEF Done

\* A message waits only while u8Locked is set.
LEMMA UnlockedRing ==
  ASSUME TxInv, Orderly
  PROVE  /\ (u8Locked = 0 => /\ index_read = index_write
                             /\ pc \notin {"snapshot", "store", "publish"})
         /\ index_read = index_write => \A i \in Indices : ~ InRing(i)
         /\ (isr => pc \notin {"snapshot", "store", "publish"} /\ ~ Cutting)
         /\ pc = "copy" \/ Cutting => u8Locked = 0
<1>1. TypeOK /\ WaitingImpliesLocked /\ SenderInv
  BY DEF TxInv
<1>2. index_read \in Indices /\ Depth \in Nat
  BY <1>1, WireTypes, BleUartAssumption
<1>3. index_read = index_write => \A i \in Indices : ~ InRing(i)
  BY <1>2 DEF InRing, Pos, Indices
<1>4. QED BY <1>1, <1>3 DEF WaitingImpliesLocked, SenderInv, Orderly, Streaming,
             Queueing, Cutting

\* What waits stays as it is, unless the ring or the messages at hand change.
LEMMA RingStays ==
  ASSUME TypeOK, RingNewer, RingInOrder,
         UNCHANGED <<slot, index_read, index_write, au8DataToSend>>,
         last'.msg = last.msg \/ last'.msg = au8DataToSend,
         \/ msg' = msg /\ (Calling' => Calling)
         \/ msg' = msg + 1
  PROVE  RingNewer' /\ RingInOrder'
<1>1. \A i \in Indices : slot[i] \in Nat /\ msg \in Nat
  BY WireTypes
<1>2. \A i, j \in Indices : /\ InRing(i)' <=> InRing(i)
                            /\ Pos(i)' < Pos(j)' <=> Pos(i) < Pos(j)
  BY DEF InRing, Pos
<1>3. RingInOrder'
  BY <1>2 DEF RingInOrder
<1>4. ASSUME NEW i \in Indices, InRing(i) PROVE WaitsBehind(i)'
  BY <1>1, <1>4 DEF RingNewer, WaitsBehind
<1>5. QED BY <1>2, <1>3, <1>4 DEF RingNewer

\* A ring that has been emptied holds nothing.
LEMMA EmptyRing ==
  ASSUME NEW r \in Indices, index_read' = r, index_write' = r
  PROVE  RingNewer' /\ RingInOrder'
<1>1. \A i \in Indices : ~ InRing(i)'
  BY BleUartAssumption DEF InRing, Pos, Indices
<1>2. QED BY <1>1 DEF RingNewer, RingInOrder

\* A message put into the ring goes behind all others; the one given up for it
\* is the oldest.
LEMMA RingPut ==
  ASSUME TypeOK, RingNewer, RingInOrder, WriteInv, PublishIndices,
         UNCHANGED <<au8DataToSend, last>>,
         au8DataToSend < msg, last.msg < msg
  PROVE  RingNewer' /\ RingInOrder'
<1> DEFINE full == Succ(index_write) = index_read
           stays(i) == InRing(i) /\ ~ (full /\ i = index_read)
<1>1. /\ index_read \in Indices /\ index_write \in Indices
      /\ Depth \in Nat /\ Depth > 0 /\ msg \in Nat /\ msg > 0
      /\ au8DataToSend \in Nat /\ last.msg \in Nat
      /\ msg \in 0 .. MaxMessages
  BY WireTypes, BleUartAssumption DEF TypeOK
<1>2. /\ pc = "publish" /\ pc' = "idle" /\ msg' = msg /\ slot' = slot
      /\ indices.read = index_read /\ indices.write = index_write
      /\ slot[index_write] = msg
  BY DEF PublishIndices, WriteInv
<1>3. /\ index_write' = Succ(index_write)
      /\ index_read' = IF full THEN Succ(index_read) ELSE index_read
  BY <1>2 DEF PublishIndices
<1>4. /\ Succ(index_write) = IF index_write = Depth THEN 0 ELSE index_write + 1
      /\ Succ(index_read) = IF index_read = Depth THEN 0 ELSE index_read + 1
  BY <1>1 DEF Succ, Indices
<1>5. /\ ~ InRing(index_write)
      /\ \A i \in Indices :
           InRing(i)' <=> stays(i) \/ i = index_write
      /\ \A i, j \in Indices :
           InRing(j)' /\ Pos(i)' < Pos(j)' =>
             stays(i) /\ (j = index_write \/ (stays(j) /\ Pos(i) < Pos(j)))
  BY <1>1, <1>3, <1>4 DEF InRing, Pos, Indices
<1>6. \A i \in Indices : stays(i) => WaitsBehind(i) /\ slot[i] < msg
  BY <1>2 DEF RingNewer, WaitsBehind, Calling
<1>7. ~ Calling'
  BY <1>2 DEF Calling
<1>8. RingNewer'
  <2> SUFFICES ASSUME NEW i \in Indices, InRing(i)' PROVE WaitsBehind(i)'
    BY DEF RingNewer
  <2>1. CASE i = index_write
    BY <1>1, <1>2, <1>7, <2>1 DEF WaitsBehind, Messages
  <2>2. CASE stays(i)
    BY <1>2, <1>6, <1>7, <2>2 DEF WaitsBehind
  <2>3. QED BY <1>5, <2>1, <2>2
<1>9. RingInOrder'
  <2> SUFFICES ASSUME NEW i \in Indices, NEW j \in Indices,
                      InRing(j)', Pos(i)' < Pos(j)'
               PROVE  slot[i] < slot[j]
    BY <1>2 DEF RingInOrder
  <2>1. stays(i) /\ (j = index_write \/ (stays(j) /\ Pos(i) < Pos(j)))
    BY <1>5
  <2>2. CASE j = index_write
    BY <1>2, <1>6, <2>1, <2>2
  <2>3. CASE stays(j) /\ Pos(i) < Pos(j)
    BY <2>3 DEF RingInOrder
  <2>4. QED BY <2>1, <2>2, <2>3
<1>10. QED BY <1>8, <1>9

\* The handler takes the oldest message out of the ring.
LEMMA RingTake ==
  ASSUME TypeOK, RingNewer, RingInOrder, index_read # index_write,
         last.msg < slot[index_read],
         index_read' = Succ(index_read), au8DataToSend' = slot[index_read],
         UNCHANGED <<slot, index_write, msg, last, pc>>
  PROVE  RingNewer' /\ RingInOrder'
<1>1. /\ index_read \in Indices /\ index_write \in Indices
      /\ Depth \in Nat /\ Depth > 0
  BY WireTypes, BleUartAssumption
<1>2. Succ(index_read) = IF index_read = Depth THEN 0 ELSE index_read + 1
  BY <1>1 DEF Succ, Indices
<1>3. /\ InRing(index_read)
      /\ \A i \in Indices :
           InRing(i)' => InRing(i) /\ Pos(index_read) < Pos(i)
      /\ \A i, j \in Indices :
           InRing(j)' /\ Pos(i)' < Pos(j)' => InRing(j) /\ Pos(i) < Pos(j)
  BY <1>1, <1>2 DEF InRing, Pos, Indices
<1>4. RingInOrder'
  BY <1>3 DEF RingInOrder
<1>5. ASSUME NEW i \in Indices, InRing(i)' PROVE WaitsBehind(i)'
  <2>1. WaitsBehind(i)
    BY <1>3, <1>5 DEF RingNewer
  <2>2. slot[index_read] < slot[i]
    BY <1>1, <1>3, <1>5 DEF RingInOrder
  <2>3. QED BY <2>1, <2>2 DEF WaitsBehind, Calling
<1>6. QED BY <1>4, <1>5 DEF RingNewer

\* The position in the message at hand does not move.
LEMMA PositionStays ==
  ASSUME Position, Done => Done',
         UNCHANGED <<last, au8DataToSend, u8Seg, g_u16SegSize>>
  PROVE  Position'
BY DEF Position, UpTo, Offset

-----------------------------------------------------------------------------
(***************************************************************************)
(* The main loop, while it cuts a message: the ring is empty.              *)
(***************************************************************************)
\* The segments are those of the message of the call, one behind the other.
LEMMA CuttingWire ==
  ASSUME TxInv, OwnInv, WireInv, Main,
         StoreData \/ TestMore \/ SendSegment \/ CountSegment \/ SetLocked
  PROVE  WireInv'
<1> USE DEF main, txInfo, service, queue, bounds, history
<1> SUFFICES ASSUME Orderly'
             PROVE  CallInv' /\ SendingInv' /\ RingNewer' /\ RingInOrder'
                    /\ WriteInv'
  BY DEF WireInv
<1>1. TypeOK
  BY DEF TxInv
<1>2. /\ Orderly /\ g_u16SegSize' = g_u16SegSize
      /\ CallInv /\ SendingInv
  BY <1>1, OrderlyBefore DEF Main, WireInv
<1>3. /\ u8Locked = 0 /\ index_read = index_write
      /\ UNCHANGED <<msg, index_read, index_write>>
      /\ ~ Calling'
  BY <1>2, UnlockedRing DEF StoreData, TestMore, SendSegment, CountSegment,
                            SetLocked, Cutting, Calling
<1>4. last' = last /\ Done => Done'
  BY <1>1, <1>2, DoneStays DEF Next, CallInv
<1>5. RingNewer' /\ RingInOrder'
  BY <1>1, <1>3, WireTypes, EmptyRing
<1>6. WriteInv'
  BY <1>3 DEF WriteInv, Calling
<1>7. /\ last.msg \in Nat /\ au8DataToSend \in Nat /\ msg \in Nat
      /\ u8Seg \in Nat /\ g_u16SegSize \in Nat
      /\ MsgLen \in Nat /\ MsgLen > 0
      /\ Offset \in Nat /\ Offset = u8Seg * g_u16SegSize
  BY <1>1, WireTypes
<1>8. CASE StoreData
  <2>1. /\ pc = "copy" /\ pc' = "loop" /\ last' = last /\ u8Locked' = 0
        /\ au8DataToSend' = msg /\ u16Length' = MsgLen /\ u8Seg' = 0
    BY <1>3, <1>8 DEF StoreData
  <2>2. Done /\ last.msg < msg
    BY <1>2, <1>3, <2>1 DEF SendingInv, CallInv, Calling, Cutting
  <2>3. Position'
    BY <1>3, <1>4, <2>1, <2>2 DEF Position
  <2>4. CallInv' /\ SendingInv'
    BY <1>3, <1>7, <2>1, <2>2, <2>3 DEF CallInv, SendingInv, Calling, Cutting
  <2>5. QED BY <1>5, <1>6, <2>4
<1>9. CASE TestMore
  <2>1. /\ pc = "loop" /\ u8Locked' = 0
        /\ UNCHANGED <<last, au8DataToSend, u16Length, u8Seg>>
        /\ pc' = IF Offset < u16Length THEN "hvx" ELSE "idle"
    BY <1>3, <1>9 DEF TestMore, MoreToSend
  <2>2. u16Length = MsgLen /\ Position
    BY <1>2, <2>1 DEF SendingInv
  <2>3. Position' /\ Offset' = Offset
    BY <1>2, <1>4, <2>1, <2>2, PositionStays DEF Offset
  <2>4. ASSUME ~ (Offset < MsgLen) PROVE Done'
    <3>1. u8Seg # 0
      BY <1>7, <2>4, Multiples
    <3>2. last.to = MsgLen
      BY <1>7, <2>2, <2>4, <3>1 DEF Position, UpTo
    <3>3. QED BY <1>4, <2>1, <3>2 DEF Done
  <2>5. SendingInv'
    BY <2>1, <2>2, <2>3, <2>4 DEF SendingInv, Cutting
  <2>6. CallInv'
    BY <1>2, <1>3, <2>1 DEF CallInv, Cutting
  <2>7. QED BY <1>5, <1>6, <2>5, <2>6
<1>10. CASE SendSegment
  <2>1. /\ pc = "hvx" /\ u8Locked' = 0
        /\ UNCHANGED <<au8DataToSend, u16Length, u8Seg>>
    BY <1>3, <1>10 DEF SendSegment
  <2>2. /\ u16Length = MsgLen /\ Position /\ Offset < MsgLen
        /\ au8DataToSend = msg
        /\ Offset' = Offset
    BY <1>2, <2>1 DEF SendingInv, CallInv, Cutting, Offset
  <2>3. CASE HvxTaken /\ pc' = "seg"
    <3>1. /\ last'.msg = au8DataToSend
          /\ last'.to = UpTo(Offset + g_u16SegSize)
      BY <1>1, <2>2, <2>3, HvxSegment DEF Orderly
    <3>2. SendingInv'
      BY <1>2, <2>1, <2>2, <2>3, <3>1 DEF SendingInv, Cutting, UpTo
    <3>3. CallInv'
      BY <1>3, <1>7, <2>1, <2>2, <2>3, <3>1 DEF CallInv, Cutting
    <3>4. QED BY <1>5, <1>6, <3>2, <3>3
  <2>4. CASE HvxFull /\ pc' = "lock" /\ last' = last
    <3>1. Position'
      BY <1>2, <1>4, <2>1, <2>2, <2>4, PositionStays
    <3>2. SendingInv' /\ CallInv'
      BY <1>2, <1>3, <1>7, <2>1, <2>2, <2>4, <3>1
      DEF SendingInv, CallInv, Cutting
    <3>3. QED BY <1>5, <1>6, <3>2
  <2>5. CASE /\ HvxError /\ pc' = "idle" /\ last' = last
             /\ fate' = [fate EXCEPT ![msg] = "lost"]
    <3>1. msg \in Messages /\ fate'[msg] = "lost"
      <4>1. Ours(msg)
        BY <1>2, <2>1 DEF OwnInv, HoldsOurs, Orderly
      <4>2. QED BY <1>1, <2>5, <4>1 DEF Ours, TypeOK
    <3>2. Done'
      BY <1>4, <2>2, <2>5, <3>1 DEF Position, Done
    <3>3. SendingInv' /\ CallInv'
      BY <1>2, <1>3, <2>1, <2>5, <3>2 DEF SendingInv, CallInv, Cutting
    <3>4. QED BY <1>5, <1>6, <3>3
  <2>6. QED BY <1>10, <2>3, <2>4, <2>5 DEF SendSegment
<1>11. CASE CountSegment
  <2>1. /\ pc = "seg" /\ pc' = "loop" /\ u8Locked' = 0
        /\ UNCHANGED <<last, au8DataToSend, u16Length>>
        /\ u8Seg' = (u8Seg + 1) % 256
    BY <1>3, <1>11 DEF CountSegment
  <2>2. /\ u16Length = MsgLen /\ last.msg = au8DataToSend
        /\ Offset < MsgLen /\ last.to = UpTo(Offset + g_u16SegSize)
        /\ au8DataToSend = msg
    BY <1>2, <2>1 DEF SendingInv, CallInv, Cutting
  <2>3. Offset' = Offset + g_u16SegSize
    <3>1. u8Seg' * g_u16SegSize = Offset + g_u16SegSize
      BY <1>1, <2>1, <2>2, NextOffset
    <3>2. QED BY <1>2, <3>1 DEF Offset
  <2>4. Position'
    BY <2>1, <2>2, <2>3 DEF Position, UpTo
  <2>5. SendingInv' /\ CallInv'
    BY <1>2, <1>3, <2>1, <2>2, <2>4 DEF SendingInv, CallInv, Cutting
  <2>6. QED BY <1>5, <1>6, <2>5
<1>12. CASE SetLocked
  <2>1. /\ pc = "lock" /\ pc' = "idle" /\ u8Locked' = 1
        /\ UNCHANGED <<last, au8DataToSend, u16Length, u8Seg>>
    BY <1>12 DEF SetLocked
  <2>2. u16Length = MsgLen /\ Position
    BY <1>2, <2>1 DEF SendingInv
  <2>3. Position'
    BY <1>2, <1>4, <2>1, <2>2, PositionStays
  <2>4. SendingInv' /\ CallInv'
    BY <1>2, <1>3, <2>1, <2>2, <2>3 DEF SendingInv, CallInv, Cutting
  <2>5. QED BY <1>5, <1>6, <2>4
<1>13. QED BY <1>8, <1>9, <1>10, <1>11, <1>12

\* The main loop, while it has a message and sends nothing.
LEMMA CallingWire ==
  ASSUME TxInv, OwnInv, WireInv, Main,
         \/ u32BLE_Uart_SendBuffer \/ TestLocked
         \/ CopyIndices \/ StoreBytes \/ PublishIndices
  PROVE  WireInv'
<1> USE DEF main, txInfo, service, queue, bounds, history
<1> SUFFICES ASSUME Orderly'
             PROVE  CallInv' /\ SendingInv' /\ RingNewer' /\ RingInOrder'
                    /\ WriteInv'
  BY DEF WireInv
<1>1. TypeOK
  BY DEF TxInv
<1>2. /\ Orderly /\ g_u16SegSize' = g_u16SegSize
      /\ CallInv /\ SendingInv /\ RingNewer /\ RingInOrder /\ WriteInv
  BY <1>1, OrderlyBefore DEF Main, WireInv
<1>3. /\ UNCHANGED <<last, au8DataToSend, u16Length, u8Seg, u8Locked>>
      /\ ~ Cutting /\ ~ Cutting'
  BY DEF u32BLE_Uart_SendBuffer, TestLocked, CopyIndices, StoreBytes,
         PublishIndices, Cutting
<1>4. last' = last /\ Done => Done'
  BY <1>1, <1>2, DoneStays DEF Next, CallInv
<1>5. Position => Position'
  BY <1>2, <1>3, <1>4, PositionStays
<1>6. SendingInv'
  BY <1>2, <1>3, <1>4, <1>5 DEF SendingInv, Cutting
<1>7. /\ last.msg \in Nat /\ au8DataToSend \in Nat /\ msg \in Nat
      /\ u8Locked \in {0, 1}
      /\ index_read \in Indices /\ index_write \in Indices
      /\ slot \in [Indices -> 0 .. MaxMessages]
  BY <1>1, WireTypes
<1>8. CASE u32BLE_Uart_SendBuffer
  <2>1. /\ msg' = msg + 1 /\ pc' \in {"test", "idle"}
        /\ UNCHANGED <<slot, index_read, index_write>>
    BY <1>8 DEF u32BLE_Uart_SendBuffer
  <2>2. RingNewer' /\ RingInOrder'
    BY <1>1, <1>2, <1>3, <2>1, RingStays
  <2>3. CallInv' /\ WriteInv'
    BY <1>2, <1>3, <1>7, <2>1 DEF CallInv, WriteInv
  <2>4. QED BY <1>6, <2>2, <2>3
<1>9. CASE TestLocked \/ CopyIndices
  <2>1. /\ msg' = msg /\ Calling
        /\ UNCHANGED <<slot, index_read, index_write>>
    BY <1>9 DEF TestLocked, CopyIndices, Calling
  <2>2. RingNewer' /\ RingInOrder'
    BY <1>1, <1>2, <1>3, <2>1, RingStays
  <2>3. CallInv'
    BY <1>2, <1>3, <2>1 DEF CallInv
  <2>4. WriteInv'
    BY <1>9, <2>1 DEF WriteInv, TestLocked, CopyIndices
  <2>5. QED BY <1>6, <2>2, <2>3, <2>4
<1>10. CASE StoreBytes
  <2>1. /\ pc = "store" /\ pc' = "publish" /\ msg' = msg
        /\ UNCHANGED <<indices, index_read, index_write>>
        /\ indices.read = index_read /\ indices.write = index_write
        /\ slot' = [slot EXCEPT ![index_write] = msg]
    BY <1>2, <1>10 DEF StoreBytes, WriteInv
  <2>2. CallInv' /\ WriteInv'
    BY <1>2, <1>3, <1>7, <2>1 DEF CallInv, WriteInv, Calling
  <2>3. /\ \A i \in Indices : InRing(i)' <=> InRing(i)
        /\ \A i, j \in Indices : Pos(i)' < Pos(j)' <=> Pos(i) < Pos(j)
    BY <2>1 DEF InRing, Pos
  <2>4. /\ ~ InRing(index_write)
        /\ \A i, j \in Indices : InRing(j) /\ Pos(i) < Pos(j) => InRing(i)
    BY <1>7, BleUartAssumption DEF InRing, Pos, Indices
  <2>5. \A i \in Indices : InRing(i) => slot'[i] = slot[i]
    BY <1>7, <2>1, <2>4
  <2>6. RingInOrder'
    BY <1>2, <2>3, <2>4, <2>5 DEF RingInOrder
  <2>7. RingNewer'
    BY <1>2, <1>3, <2>1, <2>3, <2>5 DEF RingNewer, WaitsBehind, Calling
  <2>8. QED BY <1>6, <2>2, <2>6, <2>7
<1>11. CASE PublishIndices
  <2>1. pc = "publish" /\ pc' = "idle" /\ msg' = msg
    BY <1>11 DEF PublishIndices
  <2>2. u8Locked = 1
    BY <1>2, <1>7, <2>1, UnlockedRing
  <2>3. au8DataToSend < msg /\ last.msg < msg
    BY <1>2, <2>1, <2>2 DEF CallInv, Calling
  <2>4. RingNewer' /\ RingInOrder'
    BY <1>1, <1>2, <1>3, <1>11, <2>3, RingPut
  <2>5. CallInv' /\ WriteInv'
    BY <1>2, <1>3, <2>1 DEF CallInv, WriteInv, Calling
  <2>6. QED BY <1>6, <2>4, <2>5
<1>12. QED BY <1>8, <1>9, <1>10, <1>11

-----------------------------------------------------------------------------
(***************************************************************************)
(* The handlers.                                                           *)
(***************************************************************************)
\* vBleUart_Reset between two calls leaves nothing to be sent; during a call it
\* is one of the windows.
LEMMA DisconnectWire ==
  ASSUME TypeOK, HandleEvent, OnDisconnect
  PROVE  WireInv'
<1> USE DEF main, txInfo, service, queue, radio, bounds, history
<1> SUFFICES ASSUME Orderly'
             PROVE  CallInv' /\ SendingInv' /\ RingNewer' /\ RingInOrder'
                    /\ WriteInv'
  BY DEF WireInv
<1>1. /\ pc = "idle" /\ UNCHANGED <<pc, msg, indices>>
      /\ index_read' = 0 /\ index_write' = 0
      /\ u8Locked' = 0 /\ au8DataToSend' = NoMessage /\ u16Length' = 0
      /\ last' = NoNotification
  BY DEF HandleEvent, OnDisconnect, ClearQueue, ClearTxInfo, Orderly
<1>2. 0 \in Indices /\ msg \in Nat
  BY WireTypes, BleUartAssumption DEF Indices
<1>3. RingNewer' /\ RingInOrder'
  BY <1>1, <1>2, EmptyRing
<1>4. last'.msg = 0 /\ au8DataToSend' = 0
  BY <1>1 DEF NoNotification, NoMessage
<1>5. CallInv' /\ SendingInv' /\ WriteInv'
  BY <1>1, <1>2, <1>4
  DEF CallInv, SendingInv, WriteInv, Done, Calling, Cutting
<1>6. QED BY <1>3, <1>5

\* The other events move no message.
LEMMA EventWire ==
  ASSUME TxInv, OwnInv, WireInv, HandleEvent, ~ OnDisconnect
  PROVE  WireInv'
<1> USE DEF main, txInfo, service, queue, radio, bounds, history
<1> SUFFICES ASSUME Orderly'
             PROVE  CallInv' /\ SendingInv' /\ RingNewer' /\ RingInOrder'
                    /\ WriteInv'
  BY DEF WireInv
<1>1. TypeOK
  BY DEF TxInv
<1>2. /\ Orderly
      /\ CallInv /\ SendingInv /\ RingNewer /\ RingInOrder /\ WriteInv
  BY <1>1, OrderlyBefore DEF WireInv
<1>3. UNCHANGED <<pc, msg, indices, slot, index_read, index_write, u8Locked,
                  au8DataToSend, u16Length, u8Seg, last, fate>>
  BY DEF HandleEvent, OnConnect, OnWriteCccd, vBLE_Uart_onGattEvt,
         OnTxComplete
<1>4. g_u16SegSize' = g_u16SegSize \/ ~ InProgress
  BY DEF HandleEvent, OnConnect, OnWriteCccd, vBLE_Uart_onGattEvt,
         OnTxComplete, Orderly
<1>5. Done => Done'
  BY <1>3 DEF Done
<1>6. RingNewer' /\ RingInOrder'
  BY <1>1, <1>2, <1>3, RingStays DEF Calling
<1>7. CallInv' /\ WriteInv'
  BY <1>2, <1>3 DEF CallInv, WriteInv, Calling, Cutting
<1>8. SendingInv'
  <2>1. CASE g_u16SegSize' = g_u16SegSize
    <3>1. Offset' = Offset /\ (Position => Position')
      BY <1>3, <1>5, <2>1, PositionStays DEF Offset
    <3>2. QED BY <1>2, <1>3, <1>5, <2>1, <3>1 DEF SendingInv, Cutting, UpTo
  <2>2. CASE ~ InProgress
    BY <1>2, <1>3, <1>5, <2>2 DEF SendingInv, Cutting, InProgress
  <2>3. QED BY <1>4, <2>1, <2>2
<1>9. QED BY <1>6, <1>7, <1>8

\* The handler sends the next segment of the message at hand.
LEMMA ContinueWire ==
  ASSUME TxInv, OwnInv, WireInv, ContinueMessage
  PROVE  WireInv'
<1> USE DEF main, txInfo, service, queue, radio, bounds, history
<1> SUFFICES ASSUME Orderly'
             PROVE  CallInv' /\ SendingInv' /\ RingNewer' /\ RingInOrder'
                    /\ WriteInv'
  BY DEF WireInv
<1>1. TypeOK /\ isr /\ u8Locked = 1
  BY DEF TxInv, SenderInv, ContinueMessage
<1>2. /\ Orderly
      /\ CallInv /\ SendingInv /\ RingNewer /\ RingInOrder /\ WriteInv
  BY <1>1, OrderlyBefore DEF WireInv
<1>3. /\ u8Locked' = 1 /\ ~ Cutting
      /\ UNCHANGED <<pc, msg, indices, slot, index_read, index_write,
                     au8DataToSend, u16Length, g_u16SegSize>>
  BY <1>1, <1>2, UnlockedRing DEF ContinueMessage
<1>4. u16Length = MsgLen /\ Position /\ Offset < MsgLen
  BY <1>1, <1>2 DEF SendingInv, ContinueMessage, MoreToSend
<1>5. last' = last /\ Done => Done'
  BY <1>1, <1>2, DoneStays DEF Next, Isr, CallInv
<1>6. last'.msg = last.msg \/ last'.msg = au8DataToSend
  <2>1. HvxTaken => last'.msg = au8DataToSend
    BY DEF HvxTaken
  <2>2. HvxTaken \/ last' = last
    BY DEF ContinueMessage
  <2>3. QED BY <2>1, <2>2
<1>7. RingNewer' /\ RingInOrder'
  BY <1>1, <1>2, <1>3, <1>6, RingStays DEF Calling
<1>8. CallInv' /\ WriteInv'
  BY <1>1, <1>2, <1>3, <1>6 DEF CallInv, WriteInv, Calling, Cutting
<1>9. Position'
  <2>1. CASE HvxTaken /\ u8Seg' = (u8Seg + 1) % 256
    <3>1. /\ last'.msg = au8DataToSend
          /\ last'.to = UpTo(Offset + g_u16SegSize)
      BY <1>1, <1>4, <2>1, HvxSegment DEF Orderly
    <3>2. u8Seg' * g_u16SegSize = Offset + g_u16SegSize
      BY <1>1, <1>4, <2>1, NextOffset
    <3>3. QED BY <1>3, <3>1, <3>2 DEF Position, Offset, UpTo
  <2>2. CASE UNCHANGED <<u8Seg, last>>
    BY <1>3, <1>4, <1>5, <2>2, PositionStays
  <2>3. QED BY <2>1, <2>2 DEF ContinueMessage
<1>10. SendingInv'
  BY <1>3, <1>4, <1>9 DEF SendingInv, Cutting
<1>11. QED BY <1>7, <1>8, <1>10

\* The handler is through with a message and takes the oldest of the ring.
LEMMA NextMessageWire ==
  ASSUME TxInv, OwnInv, WireInv, NextMessage
  PROVE  WireInv'
<1> USE DEF main, txInfo, service, queue, radio, bounds, history
<1> SUFFICES ASSUME Orderly'
             PROVE  CallInv' /\ SendingInv' /\ RingNewer' /\ RingInOrder'
                    /\ WriteInv'
  BY DEF WireInv
<1>1. TypeOK /\ isr /\ u8Locked = 1
  BY DEF TxInv, SenderInv, NextMessage
<1>2. /\ Orderly
      /\ CallInv /\ SendingInv /\ RingNewer /\ RingInOrder /\ WriteInv
  BY <1>1, OrderlyBefore DEF WireInv
<1>3. /\ ~ Cutting /\ pc \notin {"store", "publish"}
      /\ UNCHANGED <<pc, msg, slot, index_write, g_u16SegSize, last, fate>>
  BY <1>1, <1>2, UnlockedRing DEF NextMessage
<1>4. /\ last.msg \in Nat /\ MsgLen \in Nat /\ MsgLen > 0
      /\ u8Seg \in Nat /\ g_u16SegSize \in Nat
      /\ Offset \in Nat /\ Offset = u8Seg * g_u16SegSize
      /\ index_read \in Indices /\ index_write \in Indices
  BY <1>1, WireTypes
<1>5. Done
  <2>1. u16Length = MsgLen /\ Position /\ ~ (Offset < MsgLen)
    BY <1>1, <1>2 DEF SendingInv, NextMessage, MoreToSend
  <2>2. u8Seg # 0
    BY <1>4, <2>1, Multiples
  <2>3. last.to = MsgLen
    BY <1>4, <2>1, <2>2 DEF Position, UpTo
  <2>4. QED BY <2>3 DEF Done
<1>6. Done'
  BY <1>3, <1>5 DEF Done
<1>7. WriteInv'
  BY <1>3 DEF WriteInv
<1>8. CASE index_read = index_write
  <2>1. u8Locked' = 0 /\ UNCHANGED <<au8DataToSend, index_read>>
    BY <1>8 DEF NextMessage
  <2>2. RingNewer' /\ RingInOrder'
    BY <1>1, <1>2, <1>3, <2>1, RingStays DEF Calling
  <2>3. SendingInv' /\ CallInv'
    BY <1>2, <1>3, <1>6, <2>1 DEF SendingInv, CallInv, Cutting, Calling
  <2>4. QED BY <1>7, <2>2, <2>3
<1>9. CASE index_read # index_write
  <2>1. /\ au8DataToSend' = slot[index_read] /\ u8Seg' = 0 /\ u8Locked' = 1
        /\ u16Length' = IF slot[index_read] = NoMessage THEN 0 ELSE MsgLen
        /\ index_read' = Succ(index_read)
    BY <1>1, <1>9 DEF NextMessage
  <2>2. WaitsBehind(index_read)
    <3>1. InRing(index_read)
      BY <1>4, <1>9, BleUartAssumption DEF InRing, Pos, Indices
    <3>2. QED BY <1>2, <1>4, <3>1 DEF RingNewer
  <2>3. slot[index_read] # NoMessage
    BY <2>2 DEF WaitsBehind, Messages, NoMessage
  <2>4. RingNewer' /\ RingInOrder'
    BY <1>1, <1>2, <1>3, <1>9, <2>1, <2>2, RingTake DEF WaitsBehind
  <2>5. Position'
    BY <1>3, <1>6, <2>1, <2>2 DEF Position, WaitsBehind
  <2>6. SendingInv' /\ CallInv'
    BY <1>2, <1>3, <2>1, <2>2, <2>3, <2>5
    DEF SendingInv, CallInv, WaitsBehind, Cutting, Calling
  <2>7. QED BY <1>7, <2>4, <2>6
<1>10. QED BY <1>8, <1>9

\* What the SoftDevice does leaves the service as it is.
LEMMA QuietWire ==
  ASSUME WireInv, SoftDevice \/ UNCHANGED vars
  PROVE  WireInv'
<1> USE DEF main, txInfo, service, queue, bounds, history
<1>1. UNCHANGED <<main, txInfo, g_u16SegSize, queue, last, fate, hit>>
  BY DEF SoftDevice, LinkUp, LinkLost, AdvertisingEnds, radio, Subscribe,
     Unsubscribe, ExchangeMtu, Transmit, vars
<1>2. /\ Orderly' <=> Orderly
      /\ CallInv' <=> CallInv
      /\ WriteInv' <=> WriteInv
  BY <1>1 DEF Orderly, CallInv, WriteInv, Calling, Cutting
<1>3. SendingInv' <=> SendingInv
  BY <1>1 DEF SendingInv, Position, Done, UpTo, Offset, Cutting
<1>4. /\ RingNewer' <=> RingNewer
      /\ RingInOrder' <=> RingInOrder
  BY <1>1 DEF RingNewer, RingInOrder, WaitsBehind, InRing, Pos, Calling
<1>5. QED BY <1>2, <1>3, <1>4 DEF WireInv

\* Every step keeps what WireInOrder rests on.
LEMMA NextWire ==
  ASSUME TxInv, OwnInv, WireInv, [Next]_vars
  PROVE  WireInv'
<1>1. TypeOK
  BY DEF TxInv
<1>2. CASE Main
  BY <1>2, CuttingWire, CallingWire DEF Main
<1>3. CASE Isr
  BY <1>1, <1>3, DisconnectWire, EventWire, ContinueWire, NextMessageWire
  DEF Isr
<1>4. CASE SoftDevice \/ UNCHANGED vars
  BY <1>4, QuietWire
<1>5. QED BY <1>2, <1>3, <1>4 DEF Next

\* A segment follows the one before it, or begins a newer message after one
\* that needs no further segment.
LEMMA SegmentFollows ==
  ASSUME TypeOK, Position, u16Length = MsgLen, Offset < MsgLen, HvxTaken,
         "mtu" \notin hit'
  PROVE  IF last'.msg = last.msg
         THEN last'.from = last.to
         ELSE /\ last'.msg > last.msg /\ last'.from = 0
              /\ \/ last = NoNotification \/ last.to = MsgLen
                 \/ fate[last.msg] = "lost"
<1>1. last'.msg = au8DataToSend /\ last'.from = Offset
  BY HvxSegment
<1>2. /\ last.msg \in Nat /\ au8DataToSend \in Nat
      /\ u8Seg \in Nat /\ g_u16SegSize \in Nat
      /\ Offset = u8Seg * g_u16SegSize
  BY WireTypes
<1>3. CASE last.msg = au8DataToSend /\ last.to = UpTo(Offset)
  BY <1>1, <1>3 DEF UpTo
<1>4. CASE u8Seg = 0 /\ last.msg < au8DataToSend /\ Done
  <2>1. Offset = 0
    BY <1>2, <1>4
  <2>2. QED BY <1>1, <1>2, <1>4, <2>1 DEF Done
<1>5. QED BY <1>3, <1>4 DEF Position

\* The peer gets the messages in the order they were taken, the segments of
\* each one without a gap or a repetition, and another message only when one is
\* complete or lost, until one of the three windows is hit.
THEOREM SentInOrder == Spec => WireInOrder
<1> DEFINE Wire == Notifies /\ hit' \intersect {"queue", "reset", "mtu"} = {}
                     => IF last'.msg = last.msg
                        THEN last'.from = last.to
                        ELSE /\ last'.msg > last.msg /\ last'.from = 0
                             /\ \/ last = NoNotification \/ last.to = MsgLen
                                \/ fate[last.msg] = "lost"
<1>1. Init => OwnInv
  BY InitOwn
<1>2. TxInv /\ OwnInv /\ [Next]_vars => OwnInv'
  BY NextOwn
<1>3. Init => WireInv
  <2> SUFFICES ASSUME Init PROVE WireInv
    OBVIOUS
  <2>1. \A i \in Indices : ~ InRing(i)
    BY BleUartAssumption DEF Init, InRing, Pos, Indices
  <2>2. RingNewer /\ RingInOrder
    BY <2>1 DEF RingNewer, RingInOrder
  <2>3. CallInv /\ SendingInv /\ WriteInv
    BY DEF Init, CallInv, SendingInv, WriteInv, Done, Calling, Cutting,
           NoNotification, NoMessage
  <2>4. QED BY <2>2, <2>3 DEF WireInv
<1>4. TxInv /\ OwnInv /\ WireInv /\ [Next]_vars => WireInv'
  BY NextWire
<1>5. TxInv /\ WireInv /\ [Next]_vars => [Wire]_vars
  <2> SUFFICES ASSUME TxInv, WireInv, Next, Notifies, Orderly'
               PROVE  IF last'.msg = last.msg
                      THEN last'.from = last.to
                      ELSE /\ last'.msg > last.msg /\ last'.from = 0
                           /\ \/ last = NoNotification \/ last.to = MsgLen
                              \/ fate[last.msg] = "lost"
    BY DEF Orderly
  <2> USE DEF main, txInfo, service, queue, radio, bounds, history
  <2>1. TypeOK /\ inflight \in Nat
    BY BleUartAssumption DEF TxInv, TypeOK
  <2>2. HvxTaken /\ ((Main /\ SendSegment) \/ ContinueMessage)
    <3>1. CASE Main
      BY <2>1, <3>1 DEF Notifies, Main, u32BLE_Uart_SendBuffer, TestLocked,
         StoreData, TestMore, SendSegment, CountSegment, SetLocked,
         CopyIndices, StoreBytes, PublishIndices
    <3>2. CASE Isr
      BY <2>1, <3>2 DEF Notifies, Isr, HandleEvent, ContinueMessage,
         NextMessage
    <3>3. CASE SoftDevice
      BY <2>1, <3>3 DEF Notifies, SoftDevice, LinkUp, LinkLost, AdvertisingEnds,
         radio, Subscribe, Unsubscribe, ExchangeMtu, Transmit
    <3>4. QED BY <3>1, <3>2, <3>3 DEF Next
  <2>3. Orderly /\ SendingInv
    BY <2>1, <2>2, OrderlyBefore DEF WireInv
  <2>4. u16Length = MsgLen /\ Position /\ Offset < MsgLen
    <3>1. CASE SendSegment
      BY <2>3, <3>1 DEF SendingInv, SendSegment
    <3>2. CASE ContinueMessage
      <4>1. u8Locked = 1 /\ Offset < u16Length
        BY <3>2 DEF TxInv, SenderInv, ContinueMessage, MoreToSend
      <4>2. QED BY <2>3, <4>1 DEF SendingInv
    <3>3. QED BY <2>2, <3>1, <3>2
  <2>5. QED BY <2>1, <2>2, <2>4, SegmentFollows DEF Orderly
<1>6. QED BY <1>1, <1>2, <1>3, <1>4, <1>5, TxInvariant, PTL
         DEF Spec, WireInOrder
=============================================================================
