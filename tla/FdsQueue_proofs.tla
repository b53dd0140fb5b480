--------------------------- MODULE FdsQueue_proofs ---------------------------
(***************************************************************************)
(* The queue of operations of the file system is exact where no interrupt  *)
(* came at one of the places that FdsQueue names, for every size of the    *)
(* queue, every number of flash operations of a write and of calls.        *)
(*                                                                         *)
(* None of the properties is inductive.  That no empty slot is taken for   *)
(* an operation needs the contents of every slot (SlotsInv); that the      *)
(* queue is processed once at a time needs that a flash operation under    *)
(* way has its operation in the queue (RunningInv); that the counters are  *)
(* exact needs what the main loop has loaded of them (ReservedInv, IdsInv).*)
(***************************************************************************)
EXTENDS FdsQueue, SequenceTheorems, TLAPS

Record == [ticket : 0..MaxWrites, id : Nat, left : 0..Steps]

\* The types, with what the main loop holds at each place.
TypeInv ==
  /\ TypeOK
  /\ reg \in [value : Int, record : Record, slot : Slot]
  /\ writes \in 0..MaxWrites /\ ids \in [Ticket -> Nat]
  /\ Reserving \/ pc = "reserve" => reg.record.ticket \in Ticket
  /\ pc \in QueuePlace \union {"id", "idRead"} => reg.value \in Nat

\* No interrupt came between the test of the count and its store, or the test of
\* the flag and the flag.
Undisturbed == hit \intersect (QueuePlace \union {"start"}) = {}

\* The slot of the i-th operation behind the oldest, which is in slot r.
At(r, i) == (r + i) % QueueSize

\* The record is in its slot, and not yet counted.
Pending == pc \in {"countLoad", "count"}

\* The slots counted hold operations, all others are clear, but for the one that
\* the main loop is filling.
SlotsInv ==
  /\ count <= QueueSize
  /\ pc \in {"slot", "countLoad", "count"} =>
       count < QueueSize /\ reg.slot = FreeSlot
  /\ \A i \in Slot :
       /\ i < count => op[At(rp, i)].ticket # 0
       /\ i = count /\ Pending => op[At(rp, i)] = reg.record
       /\ i >= count /\ ~(i = count /\ Pending) => op[At(rp, i)] = None

\* A flash operation is one of an operation in the queue.
RunningInv ==
  /\ flashOps > 0 \/ inIsr => count > 0
  /\ pc = "start" => ~processing

\* One flash operation at a time: the conclusion of OneAtATime.
SingleInv ==
  /\ flashOps + (IF inIsr THEN 1 ELSE 0) + (IF pc = "process" THEN 1 ELSE 0)
       = IF processing THEN 1 ELSE 0
  /\ ~processing /\ pc \notin {"test", "start"} => count = 0

\* The tickets of the n operations from slot r on, in the slots o.
Line(o, r, n) == [i \in 1..n |-> o[At(r, i - 1)].ticket]

LineInv == accepted = ended \o Line(op, rp, count)

ExactInv == SlotsInv /\ RunningInv /\ SingleInv /\ LineInv

ReservedInv ==
  hit = {} /\ pc \in {"reserve", "free"} => reg.value = words_reserved

IdsInv ==
  hit \intersect {"id", "idRead"} = {} =>
    /\ \A n \in Ticket : ids[n] <= m_latest_rec_id
    /\ pc \in {"id", "idRead"} => reg.value = m_latest_rec_id
    /\ pc = "idRead" => \A n \in Ticket : ids[n] < m_latest_rec_id

QueueInv ==
  /\ TypeInv
  /\ Undisturbed => ExactInv
  /\ ReservedInv /\ ReservedExact
  /\ IdsInv /\ IdsUnique

-----------------------------------------------------------------------------
USE DEF QueuePlace

\* A position less than two turns ahead is wrapped once.
LEMMA Wrapped ==
  ASSUME NEW r \in Slot, NEW i \in Slot
  PROVE  (r + i) % QueueSize =
           IF r + i < QueueSize THEN r + i ELSE r + i - QueueSize
<1>1. /\ QueueSize \in Nat \ {0}
      /\ r \in 0 .. QueueSize - 1 /\ i \in 0 .. QueueSize - 1
  BY FdsQueueAssumption DEF Slot
<1>2. CASE r + i < QueueSize
  BY <1>1, <1>2, SMT
<1>3. CASE ~(r + i < QueueSize)
  BY <1>1, <1>3, SMT
<1>4. QED BY <1>2, <1>3

\* The positions are all the slots, each once.
LEMMA Positions ==
  ASSUME NEW r \in Slot
  PROVE  /\ At(r, 0) = r
         /\ \A i \in Nat : At(r, i) \in Slot /\ (i + r) % QueueSize = At(r, i)
         /\ \A i, j \in Slot : At(r, i) = At(r, j) => i = j
<1>1. QueueSize \in Nat /\ QueueSize > 0 /\ r \in 0 .. QueueSize - 1
  BY FdsQueueAssumption DEF Slot
<1>2. \A i \in Slot :
        At(r, i) = IF r + i < QueueSize THEN r + i ELSE r + i - QueueSize
  BY Wrapped, Zenon DEF At
<1>3. \A i, j \in Slot : At(r, i) = At(r, j) => i = j
  BY <1>1, <1>2 DEF Slot
<1>4. At(r, 0) = r
  BY <1>1, <1>2 DEF Slot
<1>5. ASSUME NEW i \in Nat
      PROVE  At(r, i) \in Slot /\ (i + r) % QueueSize = At(r, i)
  <2>1. i + r = r + i /\ r + i \in Nat
    BY <1>1
  <2>2. (r + i) % QueueSize \in 0 .. QueueSize - 1
    BY <1>1, <2>1, SMT
  <2>3. QED BY <2>1, <2>2 DEF At, Slot
<1>6. QED BY <1>3, <1>4, <1>5

\* When the oldest operation has left, every position is one less.
LEMMA PositionsAdvance ==
  ASSUME NEW r \in Slot, NEW n, n = (r + 1) % QueueSize
  PROVE  /\ n \in Slot
         /\ \A i \in Slot : i + 1 \in Slot => At(n, i) = At(r, i + 1)
         /\ At(n, QueueSize - 1) = r
<1>1. QueueSize \in Nat /\ QueueSize > 0 /\ r \in 0 .. QueueSize - 1
  BY FdsQueueAssumption DEF Slot
<1>2. n = IF r + 1 < QueueSize THEN r + 1 ELSE 0
  BY <1>1, SMT
<1>3. n \in Slot
  BY <1>1, <1>2 DEF Slot
<1>4. \A i \in Slot :
        /\ At(r, i) = IF r + i < QueueSize THEN r + i ELSE r + i - QueueSize
        /\ At(n, i) = IF n + i < QueueSize THEN n + i ELSE n + i - QueueSize
  BY <1>3, Wrapped, Zenon DEF At
<1>5. \A i \in Slot : i + 1 \in Slot => At(n, i) = At(r, i + 1)
  BY <1>1, <1>2, <1>4 DEF Slot
<1>6. At(n, QueueSize - 1) = r
  <2>1. QueueSize - 1 \in Slot
    BY <1>1 DEF Slot
  <2>2. QED BY <1>1, <1>2, <1>4, <2>1
<1>7. QED BY <1>3, <1>5, <1>6

\* An operation that leaves does not change which slot is the next free one.
LEMMA SlotKept ==
  ASSUME rp \in Slot, rp' = (rp + 1) % QueueSize,
         count \in 1 .. QueueSize, count' = count - 1
  PROVE  FreeSlot' = FreeSlot
<1>1. QueueSize \in Nat /\ QueueSize > 0 /\ rp \in 0 .. QueueSize - 1
      /\ count' \in Slot /\ count' + 1 = count /\ count \in Nat
  BY FdsQueueAssumption DEF Slot
<1>2. /\ rp' \in Slot
      /\ count \in Slot => At(rp', count') = At(rp, count)
      /\ At(rp', QueueSize - 1) = rp
  BY <1>1, PositionsAdvance
<1>3. FreeSlot' = At(rp', count') /\ FreeSlot = At(rp, count)
  <2>1. rp' \in Slot /\ count' \in Nat /\ rp \in Slot /\ count \in Nat
    BY <1>1, <1>2
  <2>2. (count' + rp') % QueueSize = At(rp', count')
    BY <2>1, Positions
  <2>3. (count + rp) % QueueSize = At(rp, count)
    BY <2>1, Positions
  <2>4. QED BY <2>2, <2>3 DEF FreeSlot
<1>4. CASE count \in Slot
  BY <1>2, <1>3, <1>4
<1>5. CASE count \notin Slot
  <2>1. count = QueueSize /\ count' = QueueSize - 1
    BY <1>1, <1>5 DEF Slot
  <2>2. FreeSlot' = rp
    BY <1>2, <1>3, <2>1
  <2>3. At(rp, QueueSize) = rp
    BY <1>1, SMT DEF At
  <2>4. QED BY <1>3, <2>1, <2>2, <2>3
<1>6. QED BY <1>4, <1>5

\* The harm done is never forgotten.
LEMMA HitGrows == Next => hit \subseteq hit'
<1> SUFFICES ASSUME Next PROVE hit \subseteq hit'
  OBVIOUS
<1>1. MainLoop => hit \subseteq hit'
  BY DEF MainLoop, ReserveLoad, ReserveStore, IdLoad, IdStore, IdRead,
     EnqueueTest, ChooseSlot, FreeLoad, FreeStore, StoreOp, CountLoad, CountStore, StartTest, StartSet,
     history
<1>2. queue_process => hit \subseteq hit'
  BY DEF queue_process, Meets
<1>3. FlashOperationEnds \/ PeerWrite => hit \subseteq hit'
  BY DEF FlashOperationEnds, PeerWrite, Meets, history
<1>4. QED BY <1>1, <1>2, <1>3 DEF Next

-----------------------------------------------------------------------------
\* The types in four parts.
QueueType == op \in [Slot -> Record] /\ rp \in Slot /\ count \in Nat
FlagsType ==
  /\ processing \in BOOLEAN /\ flashOps \in Nat /\ inIsr \in BOOLEAN
  /\ words_reserved \in Int /\ m_latest_rec_id \in Nat
MainPlace == Place \union {"idle", "idLoad", "full", "refused", "test", "process"}
MainType ==
  /\ pc \in MainPlace
  /\ reg \in [value : Int, record : Record, slot : Slot]
  /\ Reserving \/ pc = "reserve" => reg.record.ticket \in Ticket
  /\ pc \in QueuePlace \union {"id", "idRead"} => reg.value \in Nat
HistoryType ==
  /\ writes \in 0..MaxWrites /\ ids \in [Ticket -> Nat]
  /\ accepted \in Seq(Ticket) /\ ended \in Seq(Ticket) /\ hit \subseteq Place

LEMMA TypeParts ==
  /\ TypeInv <=> QueueType /\ FlagsType /\ MainType /\ HistoryType
  /\ TypeInv' <=> (QueueType /\ FlagsType /\ MainType /\ HistoryType)'
<1>1. TypeInv <=> QueueType /\ FlagsType /\ MainType /\ HistoryType
  BY DEF TypeInv, TypeOK, QueueType, FlagsType, MainType, HistoryType, Record, MainPlace
<1>2. TypeInv' <=> (QueueType /\ FlagsType /\ MainType /\ HistoryType)'
  BY DEF TypeInv, TypeOK, QueueType, FlagsType, MainType, HistoryType, Record, MainPlace
<1>3. QED BY <1>1, <1>2

LEMMA Typing ==
  /\ QueueSize \in Nat \ {0} /\ Steps \in Nat \ {0} /\ MaxWrites \in Nat
  /\ None \in Record
  /\ \A n \in Ticket, id \in Nat :
       Write(n, id) \in Record /\ Write(n, id).ticket = n
BY FdsQueueAssumption DEF None, Write, Record, Ticket

LEMMA TypeMain ==
  ASSUME TypeInv, MainLoop
  PROVE  TypeInv'
<1>0. QueueType /\ FlagsType /\ MainType /\ HistoryType
  BY TypeParts
<1> SUFFICES (QueueType /\ FlagsType /\ MainType /\ HistoryType)'
  BY TypeParts
<1> USE <1>0 DEF MainFrom, Goto, Reserving, Place, MainPlace
<1>1. CASE ReserveLoad
  <2>1. writes + 1 \in Ticket /\ writes + 1 \in 0 .. MaxWrites
    BY <1>1, FdsQueueAssumption DEF ReserveLoad, HistoryType, Ticket
  <2>2. MainType'
    <3>1. Write(writes + 1, 0) \in Record /\ Write(writes + 1, 0).ticket = writes + 1
      BY <2>1, Typing
    <3>2. reg' \in [value : Int, record : Record, slot : Slot]
          /\ reg'.record.ticket \in Ticket
      BY <1>1, <2>1, <3>1 DEF ReserveLoad, MainType, FlagsType
    <3>3. QED BY <1>1, <3>2 DEF ReserveLoad, MainType
  <2>3. QED BY <1>1, <2>1, <2>2
               DEF ReserveLoad, queueVars, counters, QueueType, FlagsType, HistoryType
<1>2. CASE ReserveStore
  BY <1>2 DEF ReserveStore, queueVars, history, QueueType, FlagsType, HistoryType, MainType
<1>3. CASE IdLoad
  <2>1. MainType'
    BY <1>3 DEF IdLoad, MainType, FlagsType
  <2>2. QED BY <1>3, <2>1 DEF IdLoad, queueVars, counters, history,
                              QueueType, FlagsType, HistoryType
<1>4. CASE IdStore \/ IdRead
  <2>1. CASE IdStore
    <3>1. reg.value + 1 \in Nat
      BY <2>1 DEF IdStore, MainType
    <3>2. MainType'
      BY <2>1, <3>1 DEF IdStore, MainType
    <3>3. QED BY <2>1, <3>1, <3>2
                 DEF IdStore, queueVars, history, QueueType, FlagsType, HistoryType
  <2>2. CASE IdRead
    <3>1. PICK n \in Nat : /\ reg' = [reg EXCEPT !.record.id = n]
                           /\ ids' = [ids EXCEPT ![reg.record.ticket] = n]
      BY <2>2 DEF IdRead, MainType, FlagsType
    <3>2. reg.record.ticket \in Ticket
      BY <2>2 DEF IdRead, MainType
    <3>3. MainType'
      BY <2>2, <3>1 DEF IdRead, MainType, Record
    <3>4. ids' \in [Ticket -> Nat]
      BY <3>1, <3>2 DEF HistoryType
    <3>5. QED BY <2>2, <3>3, <3>4 DEF IdRead, queueVars, counters,
                                      QueueType, FlagsType, HistoryType
  <2>3. QED BY <1>4, <2>1, <2>2
<1>5. CASE EnqueueTest \/ ChooseSlot
  <2>1. CASE EnqueueTest
    <3>1. MainType'
      <4>1. CASE Full
        BY <2>1, <4>1 DEF EnqueueTest, MainType
      <4>2. CASE ~Full
        <5>1. /\ pc = "full" /\ pc' = "choose" /\ count \in Nat /\ rp \in Slot
              /\ reg' = [reg EXCEPT !.value = count, !.slot = rp]
              /\ reg \in [value : Int, record : Record, slot : Slot]
              /\ reg.record.ticket \in Ticket
          BY <2>1, <4>2 DEF EnqueueTest, MainType, QueueType
        <5>2. reg' = [value |-> count, record |-> reg.record, slot |-> rp]
          BY <5>1
        <5>3. QED BY <5>1, <5>2 DEF MainType
      <4>3. QED BY <4>1, <4>2
    <3>2. QED BY <2>1, <3>1 DEF EnqueueTest, queueVars, counters, history,
                                QueueType, FlagsType, HistoryType
  <2>2. CASE ChooseSlot
    <3>1. PICK n \in Nat, r \in Slot :
            reg' = [reg EXCEPT !.value = n, !.slot = (n + r) % QueueSize]
      BY <2>2 DEF ChooseSlot, MainType, QueueType
    <3>2. (n + r) % QueueSize \in Slot
      BY Positions
    <3>3. MainType'
      <4>1. /\ pc = "choose" /\ pc' = "slot"
            /\ reg \in [value : Int, record : Record, slot : Slot]
            /\ reg.record.ticket \in Ticket
        BY <2>2 DEF ChooseSlot, MainType
      <4>2. reg' = [value |-> n, record |-> reg.record,
                    slot |-> (n + r) % QueueSize]
        BY <3>1, <4>1
      <4>3. QED BY <3>2, <4>1, <4>2 DEF MainType
    <3>4. hit' \subseteq Place
      BY <2>2 DEF ChooseSlot, HistoryType
    <3>5. QED BY <2>2, <3>3, <3>4 DEF ChooseSlot, queueVars, counters,
                                      QueueType, FlagsType, HistoryType
  <2>3. QED BY <1>5, <2>1, <2>2
<1>6. CASE FreeLoad \/ FreeStore
  <2>1. MainType'
    BY <1>6 DEF FreeLoad, FreeStore, MainType, FlagsType
  <2>2. words_reserved' \in Int
    BY <1>6 DEF FreeLoad, FreeStore, counters, MainType, FlagsType
  <2>3. QED BY <1>6, <2>1, <2>2 DEF FreeLoad, FreeStore, queueVars, counters,
                                    history, QueueType, FlagsType, HistoryType
<1>7. CASE StoreOp
  BY <1>7 DEF StoreOp, counters, history, QueueType, FlagsType, HistoryType, MainType
<1>8. CASE CountLoad
  <2>1. MainType'
    BY <1>8 DEF CountLoad, MainType, QueueType
  <2>2. QED BY <1>8, <2>1 DEF CountLoad, queueVars, counters, history,
                              QueueType, FlagsType, HistoryType
<1>9. CASE CountStore
  <2>1. count' \in Nat /\ reg.record.ticket \in Ticket
    BY <1>9 DEF CountStore, MainType
  <2>2. QueueType' /\ FlagsType' /\ MainType'
    BY <1>9, <2>1 DEF CountStore, counters, QueueType, FlagsType, MainType
  <2>3. HistoryType'
    BY <1>9, <2>1 DEF CountStore, HistoryType
  <2>4. QED BY <2>2, <2>3
<1>10. CASE StartTest \/ StartSet
  BY <1>10 DEF StartTest, StartSet, queueVars, counters, history,
               QueueType, FlagsType, HistoryType, MainType
<1>11. QED BY <1>1, <1>2, <1>3, <1>4, <1>5, <1>6, <1>7, <1>8, <1>9, <1>10
          DEF MainLoop

LEMMA TypeProcess ==
  ASSUME TypeInv, queue_process
  PROVE  TypeInv'
<1>0. QueueType /\ FlagsType /\ MainType /\ HistoryType
  BY TypeParts
<1> SUFFICES (QueueType /\ FlagsType /\ MainType /\ HistoryType)'
  BY TypeParts
<1>1. op[rp] \in Record /\ op \in [Slot -> Record] /\ rp \in Slot
  BY <1>0 DEF QueueType
<1>2. MainType'
  BY <1>0 DEF queue_process, Goto, MainType, Reserving, MainPlace, Place
<1>3. hit' \subseteq Place /\ inIsr' \in BOOLEAN
  BY <1>0 DEF queue_process, Goto, HistoryType, FlagsType, Meets, Place
<1>4. CASE StepStarts
  <2>1. op' \in [Slot -> Record]
    <3>1. [op[rp] EXCEPT !.left = @ - 1] \in Record
      BY <1>1, <1>4, FdsQueueAssumption DEF StepStarts, Record
    <3>2. QED BY <1>1, <1>4, <3>1 DEF StepStarts
  <2>2. QED BY <1>0, <1>2, <1>3, <1>4, <2>1
               DEF StepStarts, queue_process, QueueType, FlagsType, HistoryType
<1>5. CASE OperationEnds
  <2>1. op' \in [Slot -> Record]
    BY <1>1, <1>5, Typing DEF OperationEnds, Advanced
  <2>2. rp' \in Slot
    BY <1>1, <1>5, PositionsAdvance DEF OperationEnds
  <2>3. count' \in Nat /\ processing' \in BOOLEAN /\ flashOps' \in Nat
    BY <1>0, <1>5 DEF OperationEnds, QueueType, FlagsType
  <2>4. words_reserved' \in Int /\ ended' \in Seq(Ticket)
    <3>1. op[rp].ticket # 0 => op[rp].ticket \in Ticket
      BY <1>1 DEF Record, Ticket
    <3>2. CASE op[rp].ticket = 0
      BY <1>0, <1>5, <3>2 DEF OperationEnds, FlagsType, HistoryType
    <3>3. CASE op[rp].ticket # 0
      <4>1. words_reserved' = words_reserved - 1 /\ ended' = Append(ended, op[rp].ticket)
        BY <1>5, <3>3 DEF OperationEnds
      <4>2. ended \in Seq(Ticket) /\ words_reserved \in Int
        BY <1>0 DEF FlagsType, HistoryType
      <4>3. QED BY <3>1, <3>3, <4>1, <4>2
    <3>4. QED BY <3>2, <3>3
  <2>5. QED BY <1>0, <1>2, <1>3, <2>1, <2>2, <2>3, <2>4
               DEF queue_process, QueueType, FlagsType, HistoryType
<1>6. QED BY <1>4, <1>5 DEF queue_process

LEMMA TypePeer ==
  ASSUME TypeInv, PeerWrite
  PROVE  TypeInv'
<1>0. QueueType /\ FlagsType /\ MainType /\ HistoryType
  BY TypeParts
<1> SUFFICES (QueueType /\ FlagsType /\ MainType /\ HistoryType)'
  BY TypeParts
<1>1. writes + 1 \in Ticket /\ m_latest_rec_id + 1 \in Nat /\ FreeSlot \in Slot
  <2>1. FreeSlot \in Slot
    BY <1>0, Positions DEF QueueType, FreeSlot
  <2>2. QED BY <1>0, <2>1, FdsQueueAssumption DEF PeerWrite, Ticket, FlagsType, HistoryType
<1>2. Write(writes + 1, m_latest_rec_id + 1) \in Record
  BY <1>1, Typing
<1>3. QueueType' /\ FlagsType'
  <2>1. CASE Full
    BY <1>0, <1>1, <2>1 DEF PeerWrite, queueVars, QueueType, FlagsType
  <2>2. CASE ~Full
    <3>1. op' = [op EXCEPT ![FreeSlot] = Write(writes + 1, m_latest_rec_id + 1)]
          /\ count' = count + 1 /\ rp' = rp
      BY <2>2 DEF PeerWrite
    <3>2. QueueType'
      BY <1>0, <1>1, <1>2, <3>1 DEF QueueType
    <3>3. FlagsType'
      BY <1>0, <1>1, <2>2 DEF PeerWrite, FlagsType
    <3>4. QED BY <3>2, <3>3
  <2>3. QED BY <2>1, <2>2
<1>4. writes' \in 0 .. MaxWrites /\ ids' \in [Ticket -> Nat]
  BY <1>0, <1>1 DEF PeerWrite, Ticket, HistoryType
<1>5. hit' \subseteq Place
  BY <1>0 DEF PeerWrite, Meets, Place, HistoryType
<1>6. accepted' \in Seq(Ticket) /\ ended' \in Seq(Ticket)
  <2>1. accepted' \in {accepted, Append(accepted, writes + 1)} /\ ended' = ended
    BY DEF PeerWrite
  <2>2. accepted \in Seq(Ticket) /\ ended \in Seq(Ticket)
    BY <1>0 DEF HistoryType
  <2>3. QED BY <1>1, <2>1, <2>2
<1>7. MainType'
  BY <1>0 DEF PeerWrite, mainVars, MainType, Reserving
<1>8. QED BY <1>3, <1>4, <1>5, <1>6, <1>7 DEF HistoryType

LEMMA TypeStep ==
  ASSUME TypeInv, [Next]_vars
  PROVE  TypeInv'
<1>0. QueueType /\ FlagsType /\ MainType /\ HistoryType
  BY TypeParts
<1>1. CASE FlashOperationEnds
  <2>1. (QueueType /\ FlagsType /\ MainType /\ HistoryType)'
    BY <1>0, <1>1 DEF FlashOperationEnds, QueueType, FlagsType, MainType, HistoryType,
         queueVars, counters, mainVars, history, Reserving
  <2>2. QED BY <2>1, TypeParts
<1>2. CASE UNCHANGED vars
  <2>1. (QueueType /\ FlagsType /\ MainType /\ HistoryType)'
    BY <1>0, <1>2 DEF vars, QueueType, FlagsType, MainType, HistoryType,
         queueVars, counters, mainVars, history, Reserving
  <2>2. QED BY <2>1, TypeParts
<1>3. QED BY <1>1, <1>2, TypeMain, TypeProcess, TypePeer DEF Next

-----------------------------------------------------------------------------
LEMMA TicketsAreNumbers == Ticket \subseteq Nat /\ Seq(Ticket) \subseteq Seq(Nat)
<1>1. Ticket \subseteq Nat
  BY FdsQueueAssumption DEF Ticket
<1>2. ASSUME NEW s \in Seq(Ticket) PROVE s \in Seq(Nat)
  <2>1. Len(s) \in Nat /\ s \in [1 .. Len(s) -> Ticket]
    BY LenProperties
  <2>2. s \in [1 .. Len(s) -> Nat]
    BY <1>1, <2>1
  <2>3. QED BY <2>1, <2>2
<1>3. QED BY <1>1, <1>2

\* What the queue holds, in the slots.
LEMMA QueuedLine ==
  ASSUME QueueType
  PROVE  Tickets(Queued) = Line(op, rp, count)
<1>1. ASSUME NEW i \in 1 .. count
      PROVE  (rp + i - 1) % QueueSize = At(rp, i - 1)
  <2>1. rp + i - 1 = rp + (i - 1)
    BY FdsQueueAssumption DEF QueueType, Slot
  <2>2. QED BY <2>1 DEF At
<1>2. Tickets(Queued) = [i \in 1 .. count |-> op[(rp + i - 1) % QueueSize].ticket]
  BY DEF Tickets, Queued
<1>3. QED BY <1>1, <1>2 DEF Line

LEMMA LineIsSeq ==
  ASSUME NEW o \in [Slot -> Record], NEW r \in Slot, NEW n \in Nat
  PROVE  Line(o, r, n) \in Seq(Nat) /\ Len(Line(o, r, n)) = n
<1>1. \A i \in 1 .. n : At(r, i - 1) \in Slot
  BY Positions
<1>2. \A i \in 1 .. n : o[At(r, i - 1)].ticket \in Nat
  BY <1>1 DEF Record
<1>3. Line(o, r, n) \in [1 .. n -> Nat]
  BY <1>2 DEF Line
<1>4. QED BY <1>3

LEMMA LineSame ==
  ASSUME NEW o \in [Slot -> Record], NEW p \in [Slot -> Record],
         NEW r \in Slot, NEW n \in 0 .. QueueSize,
         \A i \in Slot : i < n => p[At(r, i)].ticket = o[At(r, i)].ticket
  PROVE  Line(p, r, n) = Line(o, r, n)
<1>1. \A i \in 1 .. n : i - 1 \in Slot /\ i - 1 < n
  BY FdsQueueAssumption DEF Slot
<1>2. QED BY <1>1 DEF Line

LEMMA LineGrows ==
  ASSUME NEW o \in [Slot -> Record], NEW p \in [Slot -> Record],
         NEW r \in Slot, NEW n \in Slot,
         \A i \in Slot : i < n => p[At(r, i)].ticket = o[At(r, i)].ticket
  PROVE  Line(p, r, n + 1) = Append(Line(o, r, n), p[At(r, n)].ticket)
<1>1. n \in Nat /\ n \in 0 .. QueueSize /\ n + 1 \in Nat
  BY FdsQueueAssumption DEF Slot
<1>2. Line(p, r, n) = Line(o, r, n)
  BY <1>1, LineSame
<1>3. /\ Line(p, r, n) \in Seq(Nat) /\ Len(Line(p, r, n)) = n
      /\ Line(p, r, n + 1) \in Seq(Nat) /\ Len(Line(p, r, n + 1)) = n + 1
  BY <1>1, LineIsSeq
<1> DEFINE last == p[At(r, n)].ticket
           grown == Append(Line(p, r, n), last)
<1>4. last \in Nat
  <2>1. At(r, n) \in Slot
    BY <1>1, Positions
  <2>2. QED BY <2>1 DEF Record
<1>5. \A i \in 1 .. n : Line(p, r, n + 1)[i] = Line(p, r, n)[i]
  BY <1>1 DEF Line
<1>6. Line(p, r, n + 1)[n + 1] = last
  <2>1. n + 1 \in 1 .. n + 1 /\ (n + 1) - 1 = n
    BY <1>1
  <2>2. Line(p, r, n + 1)[n + 1] = p[At(r, (n + 1) - 1)].ticket
    BY <2>1 DEF Line
  <2>3. QED BY <2>1, <2>2
<1> HIDE DEF last
<1>7. /\ grown \in Seq(Nat) /\ Len(grown) = n + 1 /\ grown[n + 1] = last
      /\ \A i \in 1 .. n : grown[i] = Line(p, r, n)[i]
  BY <1>1, <1>3, <1>4
<1> HIDE DEF grown
<1>8. Line(p, r, n + 1) = grown
  BY <1>1, <1>3, <1>5, <1>6, <1>7
<1>9. QED BY <1>2, <1>8 DEF grown, last

LEMMA LineLeaves ==
  ASSUME NEW o \in [Slot -> Record], NEW p \in [Slot -> Record],
         NEW r \in Slot, NEW q, q = (r + 1) % QueueSize, NEW n \in 1 .. QueueSize,
         \A i \in Slot : i # r => p[i] = o[i]
  PROVE  Line(o, r, n) = <<o[r].ticket>> \o Line(p, q, n - 1)
<1>1. n \in Nat /\ n - 1 \in Nat /\ QueueSize \in Nat
  BY FdsQueueAssumption
<1>2. q \in Slot /\ \A i \in Slot : i + 1 \in Slot => At(q, i) = At(r, i + 1)
  BY PositionsAdvance
<1>3. /\ At(r, 0) = r /\ \A i \in Slot : At(r, i) \in Slot
      /\ \A i, j \in Slot : At(r, i) = At(r, j) => i = j
  <2>1. \A i \in Slot : i \in Nat
    BY DEF Slot
  <2>2. QED BY <2>1, Positions
<1> DEFINE first == o[r].ticket  rest == Line(p, q, n - 1)  all == Line(o, r, n)
<1>4. first \in Nat
  BY DEF Record
<1>5. rest \in Seq(Nat) /\ Len(rest) = n - 1 /\ all \in Seq(Nat) /\ Len(all) = n
  BY <1>1, <1>2, LineIsSeq
<1>6. all[1] = first
  BY <1>1, <1>3 DEF Line
<1>7. ASSUME NEW i \in 1 .. n - 1 PROVE all[i + 1] = rest[i]
  <2>1. /\ i - 1 \in Slot /\ (i - 1) + 1 = i /\ i \in Slot /\ 0 \in Slot /\ i # 0
        /\ i + 1 \in 1 .. n /\ (i + 1) - 1 = i
    BY <1>1 DEF Slot
  <2>2. At(q, i - 1) = At(r, i) /\ At(r, i) # r /\ At(r, i) \in Slot
    BY <1>2, <1>3, <2>1
  <2>3. rest[i] = p[At(r, i)].ticket /\ all[i + 1] = o[At(r, i)].ticket
    BY <2>1, <2>2 DEF Line
  <2>4. QED BY <2>2, <2>3
<1> HIDE DEF first, rest, all
<1>8. /\ <<first>> \o rest \in Seq(Nat) /\ Len(<<first>> \o rest) = n
      /\ (<<first>> \o rest)[1] = first
      /\ \A i \in 1 .. n - 1 : (<<first>> \o rest)[i + 1] = rest[i]
  BY <1>1, <1>4, <1>5
<1>9. \A i \in 1 .. n : all[i] = (<<first>> \o rest)[i]
  <2>1. ASSUME NEW i \in 1 .. n, i # 1 PROVE all[i] = (<<first>> \o rest)[i]
    <3>1. i - 1 \in 1 .. n - 1 /\ (i - 1) + 1 = i
      BY <1>1, <2>1
    <3>2. QED BY <1>7, <1>8, <3>1
  <2>2. QED BY <1>6, <1>8, <2>1
<1>10. all = <<first>> \o rest
  BY <1>5, <1>8, <1>9, SeqEqual
<1>11. QED BY <1>10 DEF first, rest, all

\* An operation passes from the queue to the history, or comes to the queue.
LEMMA Handover ==
  ASSUME NEW e \in Seq(Nat), NEW q \in Seq(Nat), NEW t \in Nat
  PROVE  /\ e \o (<<t>> \o q) = Append(e, t) \o q
         /\ e \o Append(q, t) = Append(e \o q, t)
<1>1. <<t>> \in Seq(Nat)
  OBVIOUS
<1>2. Append(e, t) = e \o <<t>> /\ Append(q, t) = q \o <<t>>
      /\ Append(e \o q, t) = (e \o q) \o <<t>>
  <2>1. e \o q \in Seq(Nat)
    BY ConcatProperties
  <2>2. Append(e, t) = e \o <<t>>
    BY AppendIsConcat
  <2>3. Append(q, t) = q \o <<t>>
    BY AppendIsConcat
  <2>4. Append(e \o q, t) = (e \o q) \o <<t>>
    BY <2>1, AppendIsConcat
  <2>5. QED BY <2>2, <2>3, <2>4
<1>3. \A a, b, c \in Seq(Nat) : (a \o b) \o c = a \o (b \o c)
  <2>1. ASSUME NEW a \in Seq(Nat), NEW b \in Seq(Nat), NEW c \in Seq(Nat)
        PROVE  (a \o b) \o c = a \o (b \o c)
    BY SMTT(30), ConcatAssociative
  <2>2. QED BY <2>1, Zenon
<1>4. /\ (e \o <<t>>) \o q = e \o (<<t>> \o q)
      /\ (e \o q) \o <<t>> = e \o (q \o <<t>>)
  BY <1>1, <1>3, Zenon
<1>5. QED BY <1>2, <1>4

-----------------------------------------------------------------------------
\* The queue through the steps of the main loop.
LEMMA ExactMain ==
  ASSUME QueueType, FlagsType, MainType, HistoryType, QueueType', MainType',
         ExactInv, MainLoop, Undisturbed, Undisturbed'
  PROVE  ExactInv'
<1> DEFINE Quiet == ReserveLoad \/ ReserveStore \/ IdLoad \/ IdStore \/ IdRead
                      \/ EnqueueTest \/ FreeLoad \/ FreeStore \/ StartTest
                      \/ StartSet
           Filling == pc \in {"slot", "countLoad", "count"}
<1>0. count \in Nat /\ flashOps \in Nat /\ Slot \subseteq Nat /\ QueueSize \in Nat
      /\ rp \in Slot
  BY FdsQueueAssumption DEF QueueType, FlagsType, Slot
<1>1. CASE Quiet
  <2>1. /\ UNCHANGED <<op, rp, count, flashOps, accepted, ended, inIsr>>
        /\ ~Filling /\ ~Filling' /\ ~inIsr
        /\ pc # "process"
    BY <1>1 DEF ReserveLoad, ReserveStore, IdLoad, IdStore, IdRead, EnqueueTest,
       FreeLoad, FreeStore, StartTest, StartSet, MainFrom, Goto, queueVars, history
  <2>2. SlotsInv'
    BY <2>1 DEF ExactInv, SlotsInv, Pending
  <2>3. CASE StartTest \/ StartSet
    <3>1. \/ processing' = processing /\ processing /\ pc' = "idle"
          \/ processing' = processing /\ ~processing /\ pc' = "start"
          \/ processing' = TRUE /\ ~processing /\ pc' = "process"
      BY <2>3 DEF StartTest, StartSet, MainFrom, Goto, ExactInv, RunningInv
    <3>2. RunningInv' /\ SingleInv'
      BY <1>0, <2>1, <3>1 DEF ExactInv, RunningInv, SingleInv
    <3>3. QED BY <2>1, <2>2, <3>2 DEF ExactInv, LineInv
  <2>4. CASE ~(StartTest \/ StartSet)
    <3>1. processing' = processing /\ pc \notin {"test", "start"}
          /\ pc' \notin {"test", "start", "process"}
      BY <1>1, <2>4 DEF ReserveLoad, ReserveStore, IdLoad, IdStore, IdRead, EnqueueTest,
         FreeLoad, FreeStore, MainFrom, Goto, queueVars, history
    <3>2. RunningInv' /\ SingleInv'
      BY <1>0, <2>1, <3>1 DEF ExactInv, RunningInv, SingleInv
    <3>3. QED BY <2>1, <2>2, <3>2 DEF ExactInv, LineInv
  <2>5. QED BY <2>3, <2>4
<1>2. CASE ChooseSlot
  <2>1. /\ UNCHANGED <<op, rp, count, flashOps, processing, accepted, ended, inIsr>>
        /\ pc = "choose" /\ ~inIsr
        /\ pc' = "slot" /\ ~Full /\ reg'.slot = FreeSlot
    <3>1. PICK n \in {count, reg.value}, r \in {rp, reg.slot} :
            /\ reg' = [reg EXCEPT !.value = n, !.slot = (n + r) % QueueSize]
            /\ hit' = IF (n + r) % QueueSize = FreeSlot /\ ~Full
                      THEN hit ELSE hit \union {"choose"}
      BY <1>2 DEF ChooseSlot
    <3>2. (n + r) % QueueSize = FreeSlot /\ ~Full
      BY <3>1 DEF Undisturbed
    <3>3. reg'.slot = FreeSlot
      BY <3>1, <3>2 DEF MainType
    <3>4. QED BY <1>2, <3>2, <3>3 DEF ChooseSlot, MainFrom, Goto, queueVars
  <2>2. ~Full => count < QueueSize
    BY <1>0 DEF Full
  <2>3. FreeSlot' = FreeSlot
    BY <2>1 DEF FreeSlot
  <2>4. SlotsInv'
    BY <2>1, <2>2, <2>3 DEF ExactInv, SlotsInv, Pending
  <2>5. QED BY <2>1, <2>4 DEF ExactInv, RunningInv, SingleInv, LineInv
<1>3. CASE StoreOp
  <2>1. /\ UNCHANGED <<rp, count, flashOps, processing, accepted, ended, inIsr, reg>>
        /\ pc = "slot" /\ ~inIsr /\ pc' = "countLoad"
        /\ op' = [op EXCEPT ![reg.slot] = reg.record]
    BY <1>3 DEF StoreOp, MainFrom, Goto, counters, history
  <2>2. count < QueueSize /\ count \in Slot /\ reg.slot = At(rp, count)
        /\ count <= QueueSize
    <3>1. count < QueueSize /\ reg.slot = FreeSlot
      BY <2>1 DEF ExactInv, SlotsInv
    <3>2. FreeSlot = At(rp, count)
      BY <1>0, Positions DEF FreeSlot
    <3>3. QED BY <1>0, <3>1, <3>2 DEF Slot
  <2>3. /\ op'[At(rp, count)] = reg.record
        /\ \A i \in Slot : i # count => op'[At(rp, i)] = op[At(rp, i)]
    <3>1. \A i \in Slot : i # count => At(rp, i) # At(rp, count)
      BY <1>0, <2>2, Positions
    <3>2. At(rp, count) \in Slot
      BY <1>0, Positions
    <3>3. QED BY <2>1, <2>2, <3>1, <3>2 DEF QueueType
  <2>4. FreeSlot' = FreeSlot
    BY <2>1 DEF FreeSlot
  <2>5. SlotsInv'
    <3>1. /\ \A i \in Slot : i < count => op[At(rp, i)].ticket # 0
          /\ \A i \in Slot : i >= count => op[At(rp, i)] = None
          /\ reg.slot = FreeSlot
      BY <2>1 DEF ExactInv, SlotsInv, Pending
    <3>2. \A i \in Slot : i < count => i # count
      BY <1>0
    <3>3. \A i \in Slot :
            /\ i < count => op'[At(rp, i)].ticket # 0
            /\ i = count => op'[At(rp, i)] = reg.record
            /\ i >= count /\ ~(i = count) => op'[At(rp, i)] = None
      BY <2>3, <3>1, <3>2
    <3>4. QED BY <2>1, <2>2, <2>4, <3>1, <3>3 DEF SlotsInv, Pending
  <2>6. Line(op', rp, count) = Line(op, rp, count)
    <3>1. \A i \in Slot : i < count => op'[At(rp, i)].ticket = op[At(rp, i)].ticket
      BY <1>0, <2>3
    <3>2. count \in 0 .. QueueSize
      BY <1>0, <2>2
    <3>3. QED BY <1>0, <3>1, <3>2, LineSame DEF QueueType
  <2>7. LineInv'
    BY <2>1, <2>6 DEF ExactInv, LineInv
  <2>8. QED BY <2>1, <2>5, <2>7 DEF ExactInv, RunningInv, SingleInv
<1>4. CASE CountLoad
  <2>1. /\ UNCHANGED <<op, rp, count, flashOps, processing, accepted, ended, inIsr>>
        /\ pc = "countLoad" /\ ~inIsr /\ pc' = "count"
        /\ reg'.slot = reg.slot /\ reg'.record = reg.record
    BY <1>4 DEF CountLoad, MainFrom, Goto, queueVars, counters, history, MainType
  <2>2. FreeSlot' = FreeSlot
    BY <2>1 DEF FreeSlot
  <2>3. SlotsInv'
    BY <2>1, <2>2 DEF ExactInv, SlotsInv, Pending
  <2>4. QED BY <2>1, <2>3 DEF ExactInv, RunningInv, SingleInv, LineInv
<1>5. CASE CountStore
  <2>1. /\ UNCHANGED <<op, rp, flashOps, processing, ended, inIsr, reg>>
        /\ pc = "count" /\ ~inIsr /\ pc' = "test" /\ reg.value = count
        /\ count' = count + 1
        /\ accepted' = Append(accepted, reg.record.ticket)
    <3>1. reg.value = count
      BY <1>5 DEF CountStore, Undisturbed
    <3>2. QED BY <1>5, <3>1 DEF CountStore, MainFrom, Goto, counters
  <2>2. /\ count < QueueSize /\ count \in Slot /\ count' <= QueueSize
        /\ op[At(rp, count)] = reg.record
    <3>1. count < QueueSize
      BY <2>1 DEF ExactInv, SlotsInv
    <3>2. count \in Slot
      BY <1>0, <3>1 DEF Slot
    <3>3. op[At(rp, count)] = reg.record
      BY <2>1, <3>2 DEF ExactInv, SlotsInv, Pending
    <3>4. QED BY <1>0, <2>1, <3>1, <3>2, <3>3
  <2>3. reg.record.ticket \in Ticket /\ reg.record.ticket # 0
    BY <2>1 DEF MainType, Reserving, Ticket
  <2>4. SlotsInv'
    <3>1. \A i \in Slot :
            /\ i < count => op[At(rp, i)].ticket # 0
            /\ i >= count + 1 => op[At(rp, i)] = None
      <4>1. \A i \in Slot : i >= count + 1 => i >= count /\ i # count
        BY <1>0
      <4>2. QED BY <4>1 DEF ExactInv, SlotsInv, Pending
    <3>2. \A i \in Slot : i < count + 1 => i < count \/ i = count
      BY <1>0
    <3>3. \A i \in Slot : i < count + 1 => op[At(rp, i)].ticket # 0
      BY <2>2, <2>3, <3>1, <3>2
    <3>4. QED BY <2>1, <2>2, <3>1, <3>3 DEF SlotsInv, Pending
  <2>5. LineInv'
    <3>1. Line(op, rp, count + 1) = Append(Line(op, rp, count), reg.record.ticket)
      <4>1. op \in [Slot -> Record] /\ \A i \in Slot : i < count =>
              op[At(rp, i)].ticket = op[At(rp, i)].ticket
        BY DEF QueueType
      <4>2. Line(op, rp, count + 1) = Append(Line(op, rp, count), op[At(rp, count)].ticket)
        BY <1>0, <2>2, <4>1, LineGrows
      <4>3. QED BY <2>2, <4>2
    <3>2. Line(op, rp, count) \in Seq(Nat)
      BY <1>0, LineIsSeq DEF QueueType
    <3>3. ended \o Append(Line(op, rp, count), reg.record.ticket)
            = Append(ended \o Line(op, rp, count), reg.record.ticket)
      <4>1. ended \in Seq(Nat) /\ reg.record.ticket \in Nat
        BY <2>3, TicketsAreNumbers DEF HistoryType
      <4>2. QED BY <3>2, <4>1, Handover
    <3>4. QED BY <2>1, <3>1, <3>3 DEF ExactInv, LineInv
  <2>6. RunningInv' /\ SingleInv'
    BY <1>0, <2>1 DEF ExactInv, RunningInv, SingleInv
  <2>7. QED BY <2>4, <2>5, <2>6 DEF ExactInv
<1>6. QED BY <1>1, <1>2, <1>3, <1>4, <1>5 DEF MainLoop

\* Whoever calls queue_process, the flag is set and no flash operation is under
\* way; and afterwards at most this caller goes on.
LEMMA Processing ==
  ASSUME FlagsType, ExactInv, queue_process
  PROVE  /\ processing = TRUE /\ flashOps = 0 /\ pc # "start"
         /\ (inIsr /\ pc # "process") \/ (~inIsr /\ pc = "process")
         /\ ~inIsr' \/ ~(pc' = "process")
         /\ inIsr' \/ pc' = "process" <=> op[rp].left = 0 /\ count > 1
         /\ pc' \in {pc, "idle"} /\ (pc # "process" => pc' = pc)
         /\ pc = "process" => pc' \in {"process", "idle"}
<1>1. inIsr \/ pc = "process"
  BY DEF queue_process
<1>2. processing = TRUE /\ flashOps = 0 /\ ~(inIsr /\ pc = "process")
  BY <1>1 DEF ExactInv, SingleInv, FlagsType
<1>3. pc # "start"
  BY <1>2 DEF ExactInv, RunningInv
<1>4. QED BY <1>1, <1>2, <1>3 DEF queue_process, Goto, FlagsType

\* The head of the queue: clear if the queue is empty, else an operation.
LEMMA EmptyHead ==
  ASSUME QueueType, ExactInv, count = 0, ~inIsr => ~Pending
  PROVE  op[rp] = None
<1>1. 0 \in Slot /\ rp \in Slot
  BY FdsQueueAssumption DEF QueueType, Slot
<1>2. ~Pending
  BY DEF ExactInv, RunningInv
<1>3. op[At(rp, 0)] = None
  BY <1>1, <1>2 DEF ExactInv, SlotsInv
<1>4. QED BY <1>1, <1>3, Positions

LEMMA HeadIsTicket ==
  ASSUME QueueType, ExactInv, count # 0
  PROVE  op[rp].ticket # 0
<1>1. 0 \in Slot /\ rp \in Slot /\ 0 < count
  BY FdsQueueAssumption DEF QueueType, Slot
<1>2. op[At(rp, 0)].ticket # 0
  BY <1>1 DEF ExactInv, SlotsInv
<1>3. QED BY <1>1, <1>2, Positions

LEMMA ExactStep ==
  ASSUME QueueType, FlagsType, QueueType', ExactInv, queue_process, StepStarts
  PROVE  ExactInv'
<1>0. /\ count \in Nat /\ Slot \subseteq Nat /\ QueueSize \in Nat
      /\ 0 \in Slot /\ rp \in Slot /\ op[rp] \in Record
      /\ op \in [Slot -> Record]
  BY FdsQueueAssumption DEF QueueType, Slot
<1>1. /\ UNCHANGED <<rp, count, processing, accepted, ended, reg>>
      /\ flashOps' = flashOps + 1 /\ op[rp].left > 0
      /\ op' = [op EXCEPT ![rp].left = @ - 1]
  BY DEF StepStarts, queue_process
<1>2. count > 0
  <2>1. CASE inIsr
    BY <2>1 DEF ExactInv, RunningInv
  <2>2. CASE ~inIsr
    <3>1. pc = "process"
      BY <2>2 DEF queue_process
    <3>2. count = 0 => op[At(rp, 0)] = None
      BY <1>0, <3>1 DEF ExactInv, SlotsInv, Pending
    <3>3. At(rp, 0) = rp
      BY <1>0, Positions
    <3>4. QED BY <1>0, <1>1, <3>2, <3>3 DEF None
  <2>3. QED BY <2>1, <2>2
<1>3. \A i \in Slot : At(rp, i) \in Slot /\ (i > 0 => At(rp, i) # rp)
  BY <1>0, Positions
<1>4. \A s \in Slot : op'[s].ticket = op[s].ticket /\ (s # rp => op'[s] = op[s])
  BY <1>0, <1>1 DEF Record
<1>5. SlotsInv'
  <2>1. \A i \in Slot :
          /\ op'[At(rp, i)].ticket = op[At(rp, i)].ticket
          /\ i >= count => op'[At(rp, i)] = op[At(rp, i)]
    <3>1. \A i \in Slot : i >= count => i > 0
      BY <1>0, <1>2
    <3>2. QED BY <1>3, <1>4, <3>1
  <2>2. FreeSlot' = FreeSlot
    BY <1>1 DEF FreeSlot
  <2>3. pc' \in {pc, "idle"} /\ (pc = "process" => pc' = "idle") /\ (pc # "process" => pc' = pc)
    BY <1>1, <1>2, Processing
  <2>4. (pc' \in {"slot", "countLoad", "count"} <=> pc \in {"slot", "countLoad", "count"})
        /\ (Pending' <=> Pending)
    BY <2>3 DEF Pending
  <2>5. \A i \in Slot :
          /\ i < count => op'[At(rp, i)].ticket # 0
          /\ i = count /\ Pending => op'[At(rp, i)] = reg.record
          /\ i >= count /\ ~(i = count /\ Pending) => op'[At(rp, i)] = None
    BY <1>0, <2>1 DEF ExactInv, SlotsInv
  <2>6. QED BY <1>1, <2>2, <2>4, <2>5 DEF ExactInv, SlotsInv
<1>6. LineInv'
  <2>1. \A i \in Slot : i < count => op'[At(rp, i)].ticket = op[At(rp, i)].ticket
    BY <1>3, <1>4
  <2>2. count \in 0 .. QueueSize /\ op' \in [Slot -> Record]
    BY <1>0 DEF ExactInv, SlotsInv, QueueType
  <2>3. Line(op', rp, count) = Line(op, rp, count)
    BY <1>0, <2>1, <2>2, LineSame
  <2>4. QED BY <1>1, <2>3 DEF ExactInv, LineInv
<1>7. /\ processing = TRUE /\ flashOps = 0 /\ pc' # "start"
      /\ ~inIsr' /\ pc' # "process"
  BY <1>1, Processing
<1>8. RunningInv' /\ SingleInv'
  BY <1>1, <1>2, <1>7 DEF RunningInv, SingleInv
<1>9. QED BY <1>5, <1>6, <1>8 DEF ExactInv

LEMMA ExactEnd ==
  ASSUME QueueType, FlagsType, HistoryType, QueueType', FlagsType',
         ExactInv, queue_process, OperationEnds
  PROVE  ExactInv'
<1>0. /\ count \in Nat /\ Slot \subseteq Nat /\ QueueSize \in Nat /\ QueueSize > 0
      /\ 0 \in Slot /\ rp \in Slot /\ op[rp] \in Record /\ op \in [Slot -> Record]
      /\ op' \in [Slot -> Record] /\ rp' \in Slot /\ count' \in Nat
      /\ \A i \in Nat : i \in Slot <=> i < QueueSize
      /\ count <= QueueSize
  BY FdsQueueAssumption DEF QueueType, Slot, ExactInv, SlotsInv
<1>1. /\ UNCHANGED <<flashOps, accepted, reg>>
      /\ op[rp].left = 0
      /\ op' = [op EXCEPT ![rp] = None]
      /\ rp' = IF count = 0 THEN rp ELSE (rp + 1) % QueueSize
      /\ count' = IF count = 0 THEN 0 ELSE count - 1
      /\ processing' = (count' # 0)
      /\ ended' = IF op[rp].ticket = 0 THEN ended ELSE Append(ended, op[rp].ticket)
  BY DEF OperationEnds, Advanced, queue_process
<1>2. At(rp, 0) = rp /\ \A i \in Slot : At(rp, i) \in Slot /\ (i # 0 => At(rp, i) # rp)
  BY <1>0, Positions
<1>3. \A s \in Slot : s # rp => op'[s] = op[s]
  BY <1>0, <1>1
<1>4. op'[rp] = None
  BY <1>0, <1>1
<1>5. /\ pc' \in {"slot", "countLoad", "count"} => pc \in {"slot", "countLoad", "count"}
      /\ Pending' <=> Pending
  BY Processing DEF Pending
<1>6. count = 0 => op[rp] = None /\ ~Pending
  <2>1. ASSUME count = 0 PROVE ~Pending
    <3>1. ~inIsr
      BY <2>1 DEF ExactInv, RunningInv
    <3>2. pc = "process"
      BY <3>1, Processing
    <3>3. QED BY <3>2 DEF Pending
  <2>2. ASSUME count = 0 PROVE op[At(rp, 0)] = None
    BY <1>0, <2>1, <2>2 DEF ExactInv, SlotsInv
  <2>3. QED BY <1>2, <2>1, <2>2
<1>7. SlotsInv' /\ LineInv'
  <2>1. CASE count = 0
    <3>1. op' = op /\ rp' = rp /\ count' = 0 /\ ended' = ended
      BY <1>0, <1>1, <1>6, <2>1 DEF None
    <3>2. FreeSlot' = FreeSlot
      BY <2>1, <3>1 DEF FreeSlot
    <3>3. QED BY <1>1, <1>5, <2>1, <3>1, <3>2 DEF ExactInv, SlotsInv, LineInv
  <2>2. CASE count # 0
    <3>1. /\ rp' = (rp + 1) % QueueSize /\ count' = count - 1
          /\ count \in 1 .. QueueSize
      BY <1>0, <1>1, <2>2
    <3>2. op[rp].ticket # 0 /\ op[rp].ticket \in Nat
      <4>1. op[At(rp, 0)].ticket # 0
        BY <1>0, <3>1 DEF ExactInv, SlotsInv
      <4>2. QED BY <1>0, <1>2, <4>1 DEF Record
    <3>3. /\ \A i \in Slot : i + 1 \in Slot => At(rp', i) = At(rp, i + 1)
          /\ At(rp', QueueSize - 1) = rp
      BY <1>0, <3>1, PositionsAdvance
    <3>4. FreeSlot' = FreeSlot
      BY <1>0, <3>1, SlotKept
    <3>5. \A i \in Slot :
            /\ i < count' => op'[At(rp', i)].ticket # 0
            /\ i = count' /\ Pending' => op'[At(rp', i)] = reg'.record
            /\ i >= count' /\ ~(i = count' /\ Pending') => op'[At(rp', i)] = None
      <4> SUFFICES ASSUME NEW i \in Slot
                   PROVE  /\ i < count' => op'[At(rp', i)].ticket # 0
                          /\ i = count' /\ Pending => op'[At(rp', i)] = reg.record
                          /\ i >= count' /\ ~(i = count' /\ Pending)
                               => op'[At(rp', i)] = None
        BY <1>1, <1>5
      <4>1. CASE i + 1 \in Slot
        <5>1. op'[At(rp', i)] = op[At(rp, i + 1)]
          <6>1. i + 1 # 0 /\ At(rp', i) = At(rp, i + 1)
            BY <1>0, <3>3, <4>1
          <6>2. At(rp, i + 1) \in Slot /\ At(rp, i + 1) # rp
            BY <1>2, <4>1, <6>1
          <6>3. QED BY <1>3, <6>1, <6>2
        <5>2. /\ i + 1 < count => op[At(rp, i + 1)].ticket # 0
              /\ i + 1 = count /\ Pending => op[At(rp, i + 1)] = reg.record
              /\ i + 1 >= count /\ ~(i + 1 = count /\ Pending)
                   => op[At(rp, i + 1)] = None
          BY <4>1 DEF ExactInv, SlotsInv
        <5>3. /\ i < count' <=> i + 1 < count
              /\ i = count' <=> i + 1 = count
              /\ i >= count' <=> i + 1 >= count
          BY <1>0, <3>1
        <5>4. QED BY <5>1, <5>2, <5>3
      <4>2. CASE i + 1 \notin Slot
        <5>1. i = QueueSize - 1
          BY <1>0, <4>2
        <5>2. op'[At(rp', i)] = None
          BY <1>4, <3>3, <5>1
        <5>3. ~(i < count') /\ ~(i = count' /\ Pending)
          <6>1. Pending => count < QueueSize
            BY DEF Pending, ExactInv, SlotsInv
          <6>2. QED BY <1>0, <3>1, <5>1, <6>1
        <5>4. QED BY <5>2, <5>3
      <4>3. QED BY <4>1, <4>2
    <3>6. SlotsInv'
      <4>1. count' <= QueueSize /\ count' < count
        BY <1>0, <3>1
      <4>2. pc' \in {"slot", "countLoad", "count"} => count' < QueueSize /\ reg'.slot = FreeSlot'
        BY <1>0, <1>1, <1>5, <3>4, <4>1 DEF ExactInv, SlotsInv
      <4>3. QED BY <3>5, <4>1, <4>2 DEF SlotsInv
    <3>7. LineInv'
      <4>1. Line(op, rp, count) = <<op[rp].ticket>> \o Line(op', rp', count - 1)
        <5>1. op \in [Slot -> Record] /\ op' \in [Slot -> Record] /\ rp \in Slot
          BY <1>0
        <5>2. QED BY <1>3, <3>1, <5>1, LineLeaves
      <4>2. Line(op', rp', count - 1) \in Seq(Nat) /\ ended \in Seq(Nat)
        BY <1>0, <3>1, LineIsSeq, TicketsAreNumbers DEF HistoryType
      <4>3. ended \o Line(op, rp, count)
              = Append(ended, op[rp].ticket) \o Line(op', rp', count - 1)
        BY SMTT(30), <3>2, <4>1, <4>2, Handover
      <4>4. QED BY <1>1, <3>1, <3>2, <4>3 DEF ExactInv, LineInv
    <3>8. QED BY <3>6, <3>7
  <2>3. QED BY <2>1, <2>2
<1>8. /\ flashOps' = 0 /\ pc' # "start"
      /\ ~inIsr' \/ ~(pc' = "process")
      /\ inIsr' \/ pc' = "process" <=> count > 1
  BY <1>1, Processing
<1>9. RunningInv' /\ SingleInv'
  <2>1. count' = 0 <=> count \in {0, 1}
    BY <1>0, <1>1
  <2>2. RunningInv'
    BY <1>0, <1>8, <2>1 DEF RunningInv
  <2>3. CASE count > 1
    <3>1. processing' = TRUE
      <4>1. count' # 0
        BY <1>0, <1>1, <2>3
      <4>2. QED BY <1>1, <4>1, Zenon
    <3>2. SingleInv'
      <4>1. (IF inIsr' THEN 1 ELSE 0) + (IF pc' = "process" THEN 1 ELSE 0) = 1
        BY <1>8, <2>3
      <4>2. QED BY <1>8, <3>1, <4>1 DEF SingleInv
    <3>3. QED BY <2>2, <3>2
  <2>4. CASE ~(count > 1)
    <3>1. processing' = FALSE /\ count' = 0
      <4>1. count' = 0
        BY <1>0, <1>1, <2>4
      <4>2. QED BY <1>1, <4>1, Zenon
    <3>2. SingleInv'
      <4>1. (IF inIsr' THEN 1 ELSE 0) = 0 /\ (IF pc' = "process" THEN 1 ELSE 0) = 0
        BY <1>8, <2>4, Zenon
      <4>2. QED BY <1>8, <3>1, <4>1 DEF SingleInv
    <3>3. QED BY <2>2, <3>2
  <2>5. QED BY <2>3, <2>4
<1>10. QED BY <1>7, <1>9 DEF ExactInv

\* The queue through a call of the Peer Manager.
LEMMA ExactPeer ==
  ASSUME QueueType, FlagsType, HistoryType, QueueType', HistoryType',
         ExactInv, PeerWrite, Undisturbed'
  PROVE  ExactInv'
<1>0. /\ count \in Nat /\ Slot \subseteq Nat /\ QueueSize \in Nat /\ rp \in Slot
      /\ \A i \in Nat : i \in Slot <=> i < QueueSize
      /\ op \in [Slot -> Record] /\ op' \in [Slot -> Record]
  BY FdsQueueAssumption DEF QueueType, Slot
<1>1. CASE Full
  <2>1. UNCHANGED <<op, rp, count, processing, flashOps, inIsr, accepted, ended, pc, reg>>
    BY <1>1 DEF PeerWrite, queueVars, mainVars
  <2>2. FreeSlot' = FreeSlot
    BY <2>1 DEF FreeSlot
  <2>3. QED BY <2>1, <2>2 DEF ExactInv, SlotsInv, RunningInv, SingleInv, LineInv, Pending
<1>2. CASE ~Full
  <2> DEFINE new == Write(writes + 1, m_latest_rec_id + 1)
  <2>1. /\ UNCHANGED <<rp, flashOps, ended, pc, reg>>
        /\ ~inIsr /\ processing' = TRUE /\ inIsr' = ~processing
        /\ count' = count + 1 /\ accepted' = Append(accepted, writes + 1)
        /\ op' = [op EXCEPT ![FreeSlot] = new]
    BY <1>2 DEF PeerWrite, mainVars
  <2>2. pc \notin {"slot", "countLoad", "count", "start"}
    BY <1>2 DEF PeerWrite, Meets, Undisturbed, Place
  <2>3. new.ticket = writes + 1 /\ writes + 1 \in Nat /\ writes + 1 # 0
    BY DEF Write, HistoryType
  <2> HIDE DEF new
  <2>4. count < QueueSize /\ count \in Slot /\ FreeSlot = At(rp, count)
        /\ At(rp, count) \in Slot
    <3>1. count < QueueSize
      BY <1>0, <1>2 DEF Full
    <3>2. FreeSlot = At(rp, count) /\ At(rp, count) \in Slot
      BY <1>0, Positions DEF FreeSlot
    <3>3. QED BY <1>0, <3>1, <3>2
  <2>5. /\ op'[At(rp, count)] = new
        /\ \A i \in Slot : i # count => op'[At(rp, i)] = op[At(rp, i)]
    <3>1. \A i \in Slot : At(rp, i) \in Slot /\ (i # count => At(rp, i) # At(rp, count))
      BY <1>0, <2>4, Positions
    <3>2. QED BY <1>0, <2>1, <2>4, <3>1
  <2>6. SlotsInv'
    <3>1. \A i \in Slot :
            /\ i < count => op[At(rp, i)].ticket # 0
            /\ i >= count => op[At(rp, i)] = None
      BY <2>2 DEF ExactInv, SlotsInv, Pending
    <3>2. \A i \in Slot :
            /\ i < count + 1 => i = count \/ (i < count /\ i # count)
            /\ i >= count + 1 => i >= count /\ i # count
      BY <1>0
    <3>3. \A i \in Slot :
            /\ i < count + 1 => op'[At(rp, i)].ticket # 0
            /\ i >= count + 1 => op'[At(rp, i)] = None
      BY <2>3, <2>5, <3>1, <3>2
    <3>4. count' <= QueueSize
      BY <1>0, <2>1, <2>4
    <3>5. QED BY <2>1, <2>2, <3>3, <3>4 DEF SlotsInv, Pending
  <2>7. LineInv'
    <3>1. \A i \in Slot : i < count => op'[At(rp, i)].ticket = op[At(rp, i)].ticket
      <4>1. \A i \in Slot : i < count => i # count
        BY <1>0
      <4>2. QED BY <2>5, <4>1
    <3>2. Line(op', rp, count + 1) = Append(Line(op, rp, count), op'[At(rp, count)].ticket)
      BY <1>0, <2>4, <3>1, LineGrows
    <3>3. Line(op, rp, count) \in Seq(Nat) /\ ended \in Seq(Nat)
      BY <1>0, LineIsSeq, TicketsAreNumbers DEF HistoryType
    <3>4. ended \o Append(Line(op, rp, count), writes + 1)
            = Append(ended \o Line(op, rp, count), writes + 1)
      BY <2>3, <3>3, Handover
    <3>5. QED BY <2>1, <2>3, <2>5, <3>2, <3>4 DEF ExactInv, LineInv
  <2>8. RunningInv' /\ SingleInv'
    <3>1. count' > 0 /\ pc' # "start"
      BY <1>0, <2>1, <2>2
    <3>2. CASE processing = TRUE
      <4>1. ~inIsr' /\ ~inIsr
        BY <2>1, <3>2, Zenon
      <4>2. flashOps + (IF inIsr THEN 1 ELSE 0) + (IF pc = "process" THEN 1 ELSE 0) = 1
        BY <3>2 DEF ExactInv, SingleInv
      <4>3. flashOps' + (IF inIsr' THEN 1 ELSE 0) + (IF pc' = "process" THEN 1 ELSE 0) = 1
        BY <2>1, <4>1, <4>2
      <4>4. QED BY <2>1, <3>1, <4>3 DEF RunningInv, SingleInv
    <3>3. CASE processing = FALSE
      <4>1. inIsr' /\ ~inIsr
        BY <2>1, <3>3, Zenon
      <4>2. flashOps = 0 /\ pc # "process"
        BY <3>3, <4>1 DEF ExactInv, SingleInv, FlagsType
      <4>3. flashOps' + (IF inIsr' THEN 1 ELSE 0) + (IF pc' = "process" THEN 1 ELSE 0) = 1
        BY <2>1, <4>1, <4>2
      <4>4. QED BY <2>1, <3>1, <4>3 DEF RunningInv, SingleInv
    <3>4. QED BY <3>2, <3>3 DEF FlagsType
  <2>9. QED BY <2>6, <2>7, <2>8 DEF ExactInv
<1>3. QED BY <1>1, <1>2

LEMMA ExactNext ==
  ASSUME TypeInv, TypeInv', Undisturbed => ExactInv, [Next]_vars
  PROVE  (Undisturbed => ExactInv)'
<1>0. /\ QueueType /\ FlagsType /\ MainType /\ HistoryType
      /\ QueueType' /\ FlagsType' /\ MainType' /\ HistoryType'
  BY TypeParts
<1> SUFFICES ASSUME Undisturbed' PROVE ExactInv'
  OBVIOUS
<1>1. hit \subseteq hit'
  BY HitGrows DEF vars, history
<1>2. Undisturbed
  BY <1>1 DEF Undisturbed
<1>3. ExactInv
  BY <1>2
<1>4. CASE MainLoop
  BY <1>0, <1>2, <1>3, <1>4, ExactMain
<1>5. CASE queue_process
  <2>1. StepStarts \/ OperationEnds
    BY <1>5 DEF queue_process
  <2>2. QED BY <1>0, <1>3, <1>5, <2>1, ExactStep, ExactEnd
<1>6. CASE FlashOperationEnds
  <2>1. /\ UNCHANGED <<op, rp, count, processing, accepted, ended, pc, reg>>
        /\ ~inIsr /\ inIsr' = TRUE /\ flashOps > 0 /\ flashOps' = flashOps - 1
    BY <1>6 DEF FlashOperationEnds, queueVars, mainVars, history
  <2>2. FreeSlot' = FreeSlot
    BY <2>1 DEF FreeSlot
  <2>3. SlotsInv' /\ LineInv'
    BY <1>3, <2>1, <2>2 DEF ExactInv, SlotsInv, LineInv, Pending
  <2>4. RunningInv' /\ SingleInv'
    BY <1>0, <1>3, <2>1 DEF ExactInv, RunningInv, SingleInv, FlagsType
  <2>5. QED BY <2>3, <2>4 DEF ExactInv
<1>7. CASE PeerWrite
  BY <1>0, <1>3, <1>7, ExactPeer
<1>8. CASE UNCHANGED vars
  <2>1. UNCHANGED <<op, rp, count, processing, flashOps, inIsr, accepted, ended, pc, reg>>
    BY <1>8 DEF vars, queueVars, mainVars, history
  <2>2. FreeSlot' = FreeSlot
    BY <2>1 DEF FreeSlot
  <2>3. QED BY <1>3, <2>1, <2>2 DEF ExactInv, SlotsInv, RunningInv, SingleInv, LineInv, Pending
<1>9. QED BY <1>4, <1>5, <1>6, <1>7, <1>8 DEF Next

-----------------------------------------------------------------------------
\* No room is given away twice.
LEMMA ReservedNext ==
  ASSUME TypeInv, TypeInv', Undisturbed => ExactInv, ReservedInv, ReservedExact,
         [Next]_vars
  PROVE  ReservedInv' /\ ReservedExact'
<1>0. /\ QueueType /\ FlagsType /\ MainType /\ HistoryType
      /\ QueueType' /\ FlagsType' /\ MainType' /\ HistoryType'
  BY TypeParts
<1> DEFINE held == IF Reserving THEN 1 ELSE 0
<1> SUFFICES ASSUME hit' = {}
             PROVE  /\ words_reserved' = count' + held'
                    /\ pc' \in {"reserve", "free"} => reg'.value = words_reserved'
  BY DEF ReservedInv, ReservedExact
<1>1. hit = {}
  BY HitGrows DEF vars, history
<1>2. /\ words_reserved = count + held /\ words_reserved \in Int /\ count \in Nat
      /\ pc \in {"reserve", "free"} => reg.value = words_reserved
      /\ ExactInv
  <2>1. words_reserved = count + held
    BY <1>1, Zenon DEF ReservedExact
  <2>2. Undisturbed
    BY <1>1 DEF Undisturbed
  <2>3. QED BY <1>0, <1>1, <2>1, <2>2 DEF ReservedInv, FlagsType, QueueType
<1>3. CASE MainLoop
  <2>1. CASE ReserveLoad \/ FreeLoad
    <3>1. UNCHANGED <<words_reserved, count>> /\ reg'.value = words_reserved
      BY <1>0, <2>1 DEF ReserveLoad, FreeLoad, queueVars, counters, MainType
    <3>2. held' = held
      BY <2>1 DEF ReserveLoad, FreeLoad, MainFrom, Goto, Reserving
    <3>3. QED BY <1>2, <3>1, <3>2
  <2>2. CASE ReserveStore \/ FreeStore
    BY <1>2, <2>2 DEF ReserveStore, FreeStore, MainFrom, Goto, queueVars, Reserving
  <2>3. CASE IdLoad \/ IdStore \/ IdRead \/ EnqueueTest \/ ChooseSlot \/ StoreOp
              \/ CountLoad
    BY <1>2, <2>3 DEF IdLoad, IdStore, IdRead, EnqueueTest, ChooseSlot, StoreOp,
       CountLoad, MainFrom, Goto, queueVars, counters, Reserving
  <2>4. CASE CountStore
    <3>1. reg.value = count
      BY <2>4 DEF CountStore
    <3>2. QED BY <1>2, <2>4, <3>1 DEF CountStore, MainFrom, Goto, counters, Reserving
  <2>5. CASE StartTest \/ StartSet
    BY <1>2, <2>5 DEF StartTest, StartSet, MainFrom, Goto, queueVars, counters, Reserving
  <2>6. QED BY <1>3, <2>1, <2>2, <2>3, <2>4, <2>5 DEF MainLoop
<1>4. CASE queue_process
  <2>1. /\ pc' \in {pc, "idle"} /\ (pc # "process" => pc' = pc)
        /\ (inIsr /\ pc # "process") \/ (~inIsr /\ pc = "process")
    BY <1>0, <1>2, <1>4, Processing
  <2>2. held' = held
    BY <2>1 DEF Reserving
  <2>3. CASE StepStarts
    BY <1>2, <1>4, <2>1, <2>2, <2>3 DEF StepStarts, queue_process
  <2>4. CASE OperationEnds
    <3>1. op[rp].left = 0 /\ op[rp].ticket # 0 /\ inIsr => pc \notin {"reserve", "free"}
      BY <1>4 DEF queue_process, Meets
    <3>2. count = 0 => op[rp].ticket = 0
      <4>1. count = 0 => op[rp] = None
        <5>1. ~inIsr => ~Pending
          BY <2>1 DEF Pending
        <5>2. QED BY <1>0, <1>2, <5>1, EmptyHead
      <4>2. QED BY <4>1 DEF None
    <3>3. count # 0 => op[rp].ticket # 0
      BY <1>0, <1>2, HeadIsTicket
    <3>4. CASE count = 0
      BY <1>2, <1>4, <2>1, <2>2, <2>4, <3>2, <3>4 DEF OperationEnds, queue_process
    <3>5. CASE count # 0
      <4>1. /\ words_reserved' = words_reserved - 1 /\ count' = count - 1
            /\ reg' = reg /\ op[rp].left = 0
        BY <1>4, <2>4, <3>3, <3>5 DEF OperationEnds, queue_process
      <4>2. pc' \notin {"reserve", "free"}
        BY <2>1, <3>1, <3>3, <3>5, <4>1
      <4>3. QED BY <1>2, <2>2, <4>1, <4>2
    <3>6. QED BY <3>4, <3>5
  <2>5. QED BY <1>4, <2>3, <2>4 DEF queue_process
<1>5. CASE FlashOperationEnds
  BY <1>2, <1>5 DEF FlashOperationEnds, queueVars, counters, mainVars, Reserving
<1>6. CASE PeerWrite
  <2>1. CASE Full
    BY <1>2, <1>6, <2>1 DEF PeerWrite, queueVars, mainVars, Reserving
  <2>2. CASE ~Full
    <3>1. pc \notin {"reserve", "free"}
      BY <1>6, <2>2 DEF PeerWrite, Meets, Place
    <3>2. QED BY <1>2, <1>6, <2>2, <3>1 DEF PeerWrite, mainVars, Reserving
  <2>3. QED BY <2>1, <2>2
<1>7. CASE UNCHANGED vars
  BY <1>2, <1>7 DEF vars, queueVars, counters, mainVars, Reserving
<1>8. QED BY <1>3, <1>4, <1>5, <1>6, <1>7 DEF Next

\* No identity is given twice.
LEMMA IdsNext ==
  ASSUME TypeInv, TypeInv', IdsInv, IdsUnique, [Next]_vars
  PROVE  IdsInv' /\ IdsUnique'
<1>0. /\ FlagsType /\ MainType /\ HistoryType
      /\ FlagsType' /\ MainType' /\ HistoryType'
  BY TypeParts
<1> SUFFICES ASSUME hit' \intersect {"id", "idRead"} = {}
             PROVE  /\ \A n \in Ticket : ids'[n] <= m_latest_rec_id'
                    /\ pc' \in {"id", "idRead"} => reg'.value = m_latest_rec_id'
                    /\ pc' = "idRead" => \A n \in Ticket : ids'[n] < m_latest_rec_id'
                    /\ \A n1, n2 \in Ticket : n1 # n2 /\ ids'[n1] # 0 => ids'[n1] # ids'[n2]
  BY DEF IdsInv, IdsUnique
<1>1. hit \intersect {"id", "idRead"} = {}
  BY HitGrows DEF vars, history
<1>2. /\ \A n \in Ticket : ids[n] <= m_latest_rec_id /\ ids[n] \in Nat
      /\ pc \in {"id", "idRead"} => reg.value = m_latest_rec_id
      /\ pc = "idRead" => \A n \in Ticket : ids[n] < m_latest_rec_id
      /\ \A n1, n2 \in Ticket : n1 # n2 /\ ids[n1] # 0 => ids[n1] # ids[n2]
      /\ m_latest_rec_id \in Nat /\ ids \in [Ticket -> Nat]
  BY <1>0, <1>1 DEF IdsInv, IdsUnique, FlagsType, HistoryType
\* A new identity is greater than all others.
<1>3. ASSUME NEW t \in Ticket, NEW i \in Nat,
             ids' = [ids EXCEPT ![t] = i], m_latest_rec_id' = i,
             \A n \in Ticket : ids[n] < i
      PROVE  /\ \A n \in Ticket : ids'[n] <= m_latest_rec_id'
             /\ \A n1, n2 \in Ticket : n1 # n2 /\ ids'[n1] # 0 => ids'[n1] # ids'[n2]
  <2>1. \A n \in Ticket : ids'[n] = IF n = t THEN i ELSE ids[n]
    BY <1>2, <1>3
  <2>2. \A n \in Ticket : ids'[n] <= m_latest_rec_id'
    BY <1>2, <1>3, <2>1
  <2>3. \A n1, n2 \in Ticket : n1 # n2 /\ ids'[n1] # 0 => ids'[n1] # ids'[n2]
    BY <1>2, <1>3, <2>1
  <2>4. QED BY <2>2, <2>3
<1>4. CASE IdStore
  <2>1. /\ reg.value = m_latest_rec_id /\ ids' = ids /\ pc' = "idRead"
        /\ m_latest_rec_id' = m_latest_rec_id + 1
    BY <1>2, <1>4 DEF IdStore, MainFrom, Goto, history
  <2>2. reg'.value = m_latest_rec_id'
    BY <1>0, <1>4, <2>1 DEF IdStore, MainType
  <2>3. QED BY <1>2, <2>1, <2>2
<1>5. CASE IdRead
  <2>1. /\ reg.value = m_latest_rec_id /\ reg.record.ticket \in Ticket
        /\ \A n \in Ticket : ids[n] < m_latest_rec_id
        /\ m_latest_rec_id' = m_latest_rec_id /\ pc' = "full"
    BY <1>0, <1>2, <1>5 DEF IdRead, MainFrom, Goto, MainType, Reserving, counters
  <2>2. ids' = [ids EXCEPT ![reg.record.ticket] = m_latest_rec_id]
    BY <1>5, <2>1 DEF IdRead
  <2>3. QED BY <1>2, <1>3, <2>1, <2>2
<1>6. CASE PeerWrite
  <2>1. /\ writes + 1 \in Ticket
        /\ ids' = [ids EXCEPT ![writes + 1] = m_latest_rec_id + 1]
        /\ m_latest_rec_id' = m_latest_rec_id + 1
    BY <1>0, <1>6, FdsQueueAssumption DEF PeerWrite, Ticket, HistoryType
  <2>2. pc' = pc /\ pc \notin {"id", "idRead"}
    BY <1>6 DEF PeerWrite, Meets, mainVars, Place
  <2>3. m_latest_rec_id + 1 \in Nat /\ \A n \in Ticket : ids[n] < m_latest_rec_id + 1
    BY <1>2
  <2>4. QED BY <1>3, <2>1, <2>2, <2>3
<1>7. CASE MainLoop /\ ~IdStore /\ ~IdRead
  <2>1. UNCHANGED <<ids, m_latest_rec_id>>
    BY <1>7 DEF MainLoop, ReserveLoad, ReserveStore, IdLoad, EnqueueTest, ChooseSlot,
     FreeLoad, FreeStore, StoreOp, CountLoad, CountStore, StartTest, StartSet,
     history, counters
  <2>2. /\ pc' # "idRead"
        /\ pc' = "id" => reg'.value = m_latest_rec_id
    BY <1>0, <1>7 DEF MainLoop, ReserveLoad, ReserveStore, IdLoad, EnqueueTest,
     ChooseSlot, FreeLoad, FreeStore, StoreOp, CountLoad, CountStore, StartTest,
     StartSet, Goto, MainType
  <2>3. QED BY <1>2, <2>1, <2>2
<1>8. CASE queue_process
  BY <1>2, <1>8 DEF queue_process, Goto
<1>9. CASE FlashOperationEnds \/ UNCHANGED vars
  BY <1>2, <1>9 DEF FlashOperationEnds, vars, counters, mainVars, history
<1>10. QED BY <1>4, <1>5, <1>6, <1>7, <1>8, <1>9 DEF Next

-----------------------------------------------------------------------------
LEMMA QueueStarts == Init => QueueInv
<1> SUFFICES ASSUME Init PROVE QueueInv
  OBVIOUS
<1>1. QueueSize \in Nat /\ 0 \in Slot /\ MaxWrites \in Nat /\ Ticket = 1 .. MaxWrites
  BY FdsQueueAssumption DEF Slot, Ticket
<1>2. QueueType /\ FlagsType /\ MainType /\ HistoryType
  <2>1. QueueType /\ FlagsType
    BY <1>1, Typing DEF Init, QueueType, FlagsType
  <2>2. MainType
    BY <1>1, Typing DEF Init, MainType, MainPlace, Reserving
  <2>3. HistoryType
    <3>1. <<>> \in Seq(Ticket) /\ {} \subseteq Place /\ 0 \in 0 .. MaxWrites
      BY <1>1
    <3>2. ids \in [Ticket -> Nat]
      BY <1>1 DEF Init
    <3>3. QED BY <3>1, <3>2 DEF Init, HistoryType
  <2>4. QED BY <2>1, <2>2, <2>3
<1>3. SlotsInv
  <2>1. \A i \in Slot : At(rp, i) \in Slot /\ i \in Nat
    <3>1. rp \in Slot /\ Slot \subseteq Nat
      BY <1>1 DEF Init, Slot
    <3>2. QED BY <3>1, Positions
  <2>2. QED BY <1>1, <2>1 DEF Init, SlotsInv, Pending
<1>4. LineInv
  <2>1. Line(op, rp, count) = <<>>
    BY DEF Init, Line
  <2>2. QED BY <2>1 DEF Init, LineInv
<1>5. RunningInv /\ SingleInv
  BY DEF Init, RunningInv, SingleInv
<1>6. ReservedInv /\ ReservedExact /\ IdsInv /\ IdsUnique
  BY <1>1 DEF Init, ReservedInv, ReservedExact, IdsInv, IdsUnique, Reserving
<1>7. QED BY <1>2, <1>3, <1>4, <1>5, <1>6, TypeParts DEF QueueInv, ExactInv

LEMMA QueueNext == QueueInv /\ [Next]_vars => QueueInv'
<1> SUFFICES ASSUME QueueInv, [Next]_vars PROVE QueueInv'
  OBVIOUS
<1>1. /\ TypeInv /\ (Undisturbed => ExactInv) /\ ReservedInv /\ ReservedExact
      /\ IdsInv /\ IdsUnique
  BY DEF QueueInv
<1>2. TypeInv'
  BY <1>1, TypeStep
<1>3. (Undisturbed => ExactInv)'
  BY <1>1, <1>2, ExactNext
<1>4. ReservedInv' /\ ReservedExact'
  BY <1>1, <1>2, ReservedNext
<1>5. IdsInv' /\ IdsUnique'
  BY <1>1, <1>2, IdsNext
<1>6. QED BY <1>2, <1>3, <1>4, <1>5 DEF QueueInv

LEMMA QueueInvariant == Spec => []QueueInv
BY QueueStarts, QueueNext, PTL DEF Spec

\* The operation queue is processed once at a time, the room reserved is that of
\* the operations not ended yet, and no two records get the same identity, but
\* for the interrupts at the places named in each (op_enqueue, queue_start,
\* queue_process, write_space_reserve, record_id_new).
THEOREM FdsQueueHolds == Spec => []FdsQueueInv
<1>1. QueueInv => FdsQueueInv
  BY DEF QueueInv, FdsQueueInv, TypeInv, OneAtATime, ExactInv, SingleInv, Undisturbed
<1>2. QED BY <1>1, QueueInvariant, PTL

\* What write_enqueue accepted is what has ended and then what is queued, in
\* this order, but for an interrupt between the test of the count and its store,
\* or between the test of the flag and the flag.
THEOREM QueueIsExact == Spec => []QueueExact
<1>1. QueueInv => QueueExact
  <2> SUFFICES ASSUME QueueInv, Undisturbed
               PROVE  accepted = ended \o Tickets(Queued)
    BY DEF QueueExact, Undisturbed
  <2>1. QueueType /\ LineInv
    BY TypeParts DEF QueueInv, ExactInv
  <2>2. QED BY <2>1, QueuedLine DEF LineInv
<1>2. QED BY <1>1, QueueInvariant, PTL
=============================================================================
