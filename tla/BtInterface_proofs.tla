------------------------- MODULE BtInterface_proofs --------------------------
(***************************************************************************)
(* BT_Interface.c: the buffer of the handler is the part of the frame that *)
(* has come, and a frame of the outbox is signalled, for every length of a *)
(* frame, every way to cut it into writes and every depth of the queues.   *)
(*                                                                         *)
(* The second half is about what becomes of a frame that was received.     *)
(* A frame is received only when its last unit comes, and only if no link  *)
(* was lost in the middle of a frame: what such a link leaves in the       *)
(* buffer is never emptied and fails the check of every later frame.  So   *)
(* the frames enter the ring in the order in which the phone sends them,   *)
(* and the rest follows from where the main loop is in its read of it.     *)
(***************************************************************************)
EXTENDS BtInterface, FiniteSetTheorems, SequenceTheorems, TLAPS

\* The first n units of frame f.
Parts(f, n) == [k \in 1 .. n |-> [frame |-> f, part |-> k]]

PartInRange == part \in Nat /\ part < FrameLen
BufferInv == PartInRange /\ BufferIsPartOfFrame

OutboxInv ==
  outbox # <<>> => IF pc \in {"storeIn", "storeOut"} THEN "out" \in loaded
                                                     ELSE "out" \in flags

\* A frame has more units than its magic, and the buffer takes a whole frame.
LEMMA Lengths ==
  FrameLen \in Nat /\ FrameLen > 2 /\ BufferSize \in Nat /\ BufferSize >= FrameLen
BY BtInterfaceAssumption

\* Parts of a frame are a sequence of units.
LEMMA PartsAreUnits ==
  ASSUME NEW f, NEW n \in Nat
  PROVE  /\ Parts(f, n) \in Seq([frame : {f}, part : Nat])
         /\ Len(Parts(f, n)) = n
         /\ \A k \in 1 .. n : Parts(f, n)[k] = [frame |-> f, part |-> k]
BY DEF Parts

\* A write with the units that follow extends the part that has come.
LEMMA PartsExtend ==
  ASSUME NEW f, NEW p \in Nat, NEW n \in Nat
  PROVE  Parts(f, p) \o [k \in 1 .. n |-> [frame |-> f, part |-> p + k]]
           = Parts(f, p + n)
<1> DEFINE S == [frame : {f}, part : Nat]
           s == Parts(f, p)
           t == [k \in 1 .. n |-> [frame |-> f, part |-> p + k]]
           u == Parts(f, p + n)
<1>1. /\ s \in Seq(S) /\ Len(s) = p
      /\ \A k \in 1 .. p : s[k] = [frame |-> f, part |-> k]
  BY PartsAreUnits
<1>2. t \in Seq(S) /\ Len(t) = n
  OBVIOUS
<1>3. /\ u \in Seq(S) /\ Len(u) = p + n
      /\ \A k \in 1 .. p + n : u[k] = [frame |-> f, part |-> k]
  <2>1. p + n \in Nat
    OBVIOUS
  <2> HIDE DEF t
  <2>2. QED BY <2>1, PartsAreUnits
<1>4. \A k \in 1 .. n : t[k] = [frame |-> f, part |-> p + k]
  OBVIOUS
<1> HIDE DEF S, s, t, u
<1>5. /\ s \o t \in Seq(S) /\ Len(s \o t) = p + n
      /\ \A k \in 1 .. p + n :
           (s \o t)[k] = IF k <= p THEN s[k] ELSE t[k - p]
  BY <1>1, <1>2, ConcatProperties
<1>6. \A k \in 1 .. p + n : (s \o t)[k] = u[k]
  <2> SUFFICES ASSUME NEW k \in 1 .. p + n PROVE (s \o t)[k] = u[k]
    OBVIOUS
  <2>1. CASE k <= p
    <3>1. k \in 1 .. p
      BY <2>1
    <3>2. QED BY <2>1, <3>1, <1>1, <1>3, <1>5
  <2>2. CASE k > p
    <3>1. k - p \in 1 .. n /\ p + (k - p) = k
      BY <2>2
    <3>2. (s \o t)[k] = t[k - p]
      BY <2>2, <1>5
    <3>3. t[k - p] = [frame |-> f, part |-> p + (k - p)]
      BY <3>1, <1>4
    <3>4. QED BY <3>1, <3>2, <3>3, <1>3
  <2>3. k <= p \/ k > p
    OBVIOUS
  <2>4. QED BY <2>1, <2>2, <2>3
<1>7. s \o t = u
  BY <1>3, <1>5, <1>6, SeqEqual
<1>8. QED BY <1>7 DEF s, t, u

\* The check finds the magic of such a part at its first unit, and finds the
\* frame whole only if all of its units are there (ESP_CheckForValidFrame).
LEMMA PartsVerdict ==
  ASSUME NEW f, NEW n \in Nat, 0 < n, n <= FrameLen
  PROVE  /\ n < FrameLen => CheckForValidFrame(Parts(f, n)) = "receiving"
         /\ n = FrameLen => CheckForValidFrame(Parts(f, n)) = "valid"
<1> DEFINE u == Parts(f, n)
           S == [frame : {f}, part : Nat]
           heads == {k \in 1 .. Len(u) : u[k].part = 1}
<1>1. /\ u \in Seq(S) /\ Len(u) = n
      /\ \A k \in 1 .. n : u[k] = [frame |-> f, part |-> k]
  BY PartsAreUnits
<1> HIDE DEF u, S
<1>2. heads = {1}
  BY <1>1
<1>3. (CHOOSE k \in heads : \A j \in heads : k <= j) = 1
  BY <1>2
<1>4. FromMagic(u) = u
  <2>1. FromMagic(u) = SubSeq(u, 1, Len(u))
    BY <1>2, <1>3 DEF FromMagic
  <2>2. QED BY <1>1, <2>1, SubSeqFull
<1>5. u # <<>>
  BY <1>1
<1>6. n < FrameLen => CheckForValidFrame(u) = "receiving"
  <2> SUFFICES ASSUME n < FrameLen PROVE CheckForValidFrame(u) = "receiving"
    OBVIOUS
  <2>1. u # <<>> /\ Len(u) < FrameLen /\ ~(Len(u) >= FrameLen)
    BY <1>1, <1>5, Lengths
  <2>2. QED BY <1>4, <2>1 DEF CheckForValidFrame
<1>7. n = FrameLen => CheckForValidFrame(u) = "valid"
  <2>1. n = FrameLen => Whole(u)
    BY <1>1, Lengths DEF Whole
  <2>2. QED BY <1>1, <1>4, <1>5, <2>1, Lengths DEF CheckForValidFrame
<1>8. QED BY <1>6, <1>7 DEF u

\* A write of the phone's leaves the part that has come, or nothing of a frame
\* that is whole (vBT_ITF_DataReceived).
LEMMA WriteKeepsBuffer ==
  ASSUME BufferInv, NEW n \in 1 .. FrameLen, vBT_ITF_DataReceived(n)
  PROVE  BufferInv'
<1> DEFINE received == buffer \o [k \in 1 .. Room(n) |->
                                    [frame |-> sending, part |-> part + k]]
<1>1. /\ part + n <= FrameLen
      /\ buffer' = IF CheckForValidFrame(received) = "valid" THEN <<>>
                                                             ELSE received
      /\ IF part + n = FrameLen
         THEN sending' = sending + 1 /\ part' = 0
         ELSE sending' = sending /\ part' = part + n
  BY DEF vBT_ITF_DataReceived, Discarded
<1>2. "cut" \in hit => "cut" \in hit'
  BY DEF vBT_ITF_DataReceived, PutIntoInbox
<1>3. n \in Nat /\ 0 < n /\ part \in Nat
  BY Lengths DEF BufferInv, PartInRange
<1>4. PartInRange'
  BY <1>1, <1>3, Lengths DEF PartInRange
<1>5. ASSUME "cut" \notin hit'
      PROVE  buffer' = Parts(sending', part')
  <2>1. buffer = Parts(sending, part)
    BY <1>2, <1>5 DEF BufferInv, BufferIsPartOfFrame, Parts
  <2>2. Len(buffer) = part
    BY <1>3, <2>1, PartsAreUnits
  <2>3. Room(n) = n
    BY <1>1, <1>3, <2>2, Lengths DEF Room
  <2>4. received = Parts(sending, part + n)
    BY <1>3, <2>1, <2>3, PartsExtend
  <2> HIDE DEF received
  <2>5. CASE part + n = FrameLen
    <3>1. CheckForValidFrame(received) = "valid"
      BY <1>1, <1>3, <2>4, <2>5, PartsVerdict
    <3>2. buffer' = <<>> /\ part' = 0
      BY <1>1, <2>5, <3>1
    <3>3. Parts(sending', 0) = <<>>
      BY PartsAreUnits, EmptySeq
    <3>4. QED BY <3>2, <3>3
  <2>6. CASE part + n < FrameLen
    <3>1. CheckForValidFrame(received) = "receiving"
      BY <1>1, <1>3, <2>4, <2>6, PartsVerdict
    <3>2. QED BY <1>1, <1>3, <2>4, <2>6, <3>1, Lengths
  <2>7. QED BY <1>1, <1>3, <2>5, <2>6, Lengths
<1>6. QED BY <1>4, <1>5 DEF BufferInv, BufferIsPartOfFrame, Parts

\* No step of the main loop touches the buffer, and a lost link is "cut".
LEMMA NextKeepsBuffer == BufferInv /\ [Next]_vars => BufferInv'
<1> SUFFICES ASSUME BufferInv, [Next]_vars PROVE BufferInv'
  OBVIOUS
<1>1. CASE \E n \in 1 .. FrameLen : vBT_ITF_DataReceived(n)
  BY <1>1, WriteKeepsBuffer
<1>2. CASE LinkLost
  BY <1>2, Lengths DEF LinkLost, BufferInv, PartInRange, BufferIsPartOfFrame
<1>3. CASE Main \/ UNCHANGED vars
  <2>1. UNCHANGED <<buffer, sending, part, hit>>
    BY <1>3 DEF Main, StreamFrame, vBT_ITF_IdleTask, BeginRead, CopyFrame,
       PublishIndex, Handle, ClearInboxSignal, ProcessOutbox, StoreFlags,
       phone, history, vars
  <2>2. QED BY <2>1 DEF BufferInv, PartInRange, BufferIsPartOfFrame
<1>4. QED BY <1>1, <1>2, <1>3 DEF Next

\* The buffer of BT_Interface.c holds the part of the phone's frame that has
\* come, as long as no link is lost in the middle of a frame.
THEOREM BufferOfOneFrame == Spec => []BufferIsPartOfFrame
<1>1. Init => BufferInv
  <2> SUFFICES ASSUME Init PROVE BufferInv
    OBVIOUS
  <2>1. buffer = <<>> /\ part = 0
    BY DEF Init
  <2>2. Parts(sending, 0) = <<>>
    BY PartsAreUnits, EmptySeq
  <2>3. QED BY <2>1, <2>2, Lengths
        DEF BufferInv, PartInRange, BufferIsPartOfFrame, Parts
<1>2. BufferInv /\ [Next]_vars => BufferInv'
  BY NextKeepsBuffer
<1>3. BufferInv => BufferIsPartOfFrame
  BY DEF BufferInv
<1>4. QED BY <1>1, <1>2, <1>3, PTL DEF Spec

\* SetFlags and ClearFlags of the main loop, and the handler that comes in the
\* middle of them, keep the signal of the outbox.
LEMMA NextKeepsOutbox == OutboxInv /\ [Next]_vars => OutboxInv'
<1> SUFFICES ASSUME OutboxInv, [Next]_vars PROVE OutboxInv'
  OBVIOUS
<1>1. ASSUME NEW n \in 1 .. FrameLen, vBT_ITF_DataReceived(n)
      PROVE  OutboxInv'
  <2>1. UNCHANGED <<outbox, pc, loaded>> /\ flags \subseteq flags'
    BY <1>1 DEF vBT_ITF_DataReceived, PutIntoInbox, mainLocals
  <2>2. QED BY <2>1 DEF OutboxInv
<1>2. CASE LinkLost \/ UNCHANGED vars
  BY <1>2 DEF LinkLost, vars, mainLocals, OutboxInv
<1>3. CASE StreamFrame \/ Handle
  BY <1>3 DEF StreamFrame, Handle, SendFrame, SetFlags, OutboxInv
<1>4. CASE vBT_ITF_IdleTask \/ BeginRead \/ CopyFrame \/ PublishIndex
  BY <1>4 DEF vBT_ITF_IdleTask, BeginRead, CopyFrame, PublishIndex, OutboxInv
<1>5. CASE ClearInboxSignal
  BY <1>5 DEF ClearInboxSignal, ClearFlags, OutboxInv
<1>6. CASE ProcessOutbox
  BY <1>6 DEF ProcessOutbox, OutboxInv
<1>7. CASE StoreFlags
  BY <1>7 DEF StoreFlags, OutboxInv
<1>8. QED BY <1>1, <1>2, <1>3, <1>4, <1>5, <1>6, <1>7 DEF Next, Main

\* A frame of the outbox is signalled once eBT_ITF_SendFrame is through.
THEOREM OutboxIsSignalled == Spec => []OutboxSignalled
<1>1. Init => OutboxInv
  BY DEF Init, OutboxInv
<1>2. OutboxInv /\ [Next]_vars => OutboxInv'
  BY NextKeepsOutbox
<1>3. OutboxInv => OutboxSignalled
  BY DEF OutboxInv, OutboxSignalled
<1>4. QED BY <1>1, <1>2, <1>3, PTL DEF Spec

(***************************************************************************)
(* What becomes of a frame that was received.                              *)
(***************************************************************************)
\* How far behind the oldest frame of the ring a place is.
Pos(i) == IF i >= index_read THEN i - index_read
                             ELSE i - index_read + Depth + 1
InRing(i) == Pos(i) < Pos(index_write)

\* After a lost link the buffer begins with a magic, and another magic stands
\* where a frame that begins at the first has none, or is to come there.
CutInv ==
  "cut" \in hit =>
    /\ Len(buffer) > 0 /\ buffer[1].part = 1
    /\ \/ part = 0 /\ Len(buffer) < FrameLen
       \/ \E k \in 2 .. FrameLen : k <= Len(buffer) /\ buffer[k].part = 1

\* The ring holds frames that were received, the oldest first, and the main loop
\* reads the oldest.
RingOfReceived ==
  \A i \in Indices :
    InRing(i) => /\ slot[i] \in Frames /\ fate[slot[i]] = "received"
                 /\ slot[i] < sending

RingInOrder ==
  \A i, j \in Indices :
    InRing(j) /\ Pos(i) < Pos(j) => slot[i] < slot[j]

ReadsOldest ==
  /\ pc \in {"copy", "publish"} =>
       index = index_read /\ index_read # index_write
  /\ pc = "publish" => frame = slot[index_read]

HandlesOldest ==
  pc = "handle" =>
    /\ frame \in Frames /\ fate[frame] = "received" /\ frame < sending
    /\ \A i \in Indices : InRing(i) => frame < slot[i]

NoneForgotten ==
  \A f \in Frames :
    fate[f] = "received" =>
      \/ \E i \in Indices : InRing(i) /\ slot[i] = f
      \/ pc = "handle" /\ frame = f

RingInv ==
  "read" \notin hit =>
    /\ RingOfReceived /\ RingInOrder /\ ReadsOldest /\ HandlesOldest
    /\ NoneForgotten

\* The answers sent and to be sent belong to commands older than those that are
\* not handled yet.
AnsweredBefore(f) ==
  /\ \A k \in 1 .. Len(answered) : answered[k] < f
  /\ \A k \in 1 .. Len(outbox) : outbox[k] < f

AnswersInv ==
  "read" \notin hit =>
    /\ \A f \in Frames : f >= sending \/ fate[f] = "received"
                           => AnsweredBefore(f)
    /\ \A j, k \in 1 .. Len(answered) : j < k => answered[j] < answered[k]
    /\ \A j \in 1 .. Len(answered), k \in 1 .. Len(outbox) :
         outbox[k] # Streamed => answered[j] < outbox[k]
    /\ \A j, k \in 1 .. Len(outbox) :
         j < k /\ outbox[k] # Streamed => outbox[j] < outbox[k]

\* An update of flags that is under way does not lose the signal.
SignalInv ==
  hit \intersect {"flag", "read"} = {} /\ index_read # index_write =>
    /\ "in" \in flags /\ pc # "clear"
    /\ pc \in {"storeIn", "storeOut"} => "in" \in loaded

-----------------------------------------------------------------------------
\* The indices of a ring of Depth + 1 places.
LEMMA SuccCases ==
  \A i \in Indices : /\ Succ(i) = IF i = Depth THEN 0 ELSE i + 1
                     /\ Succ(i) \in Indices
BY BtInterfaceAssumption DEF Indices, Succ

\* What a write of the phone's makes of the buffer has the type of the buffer.
LEMMA ReceivedType ==
  ASSUME TypeOK, sending \in Frames, NEW n \in 1 .. FrameLen,
         part + n <= FrameLen
  PROVE  LET received == buffer \o [k \in 1 .. Room(n) |->
                                      [frame |-> sending, part |-> part + k]]
         IN  /\ Room(n) \in Nat /\ Room(n) <= n
             /\ (Len(buffer) < BufferSize => Room(n) > 0)
             /\ received \in Seq(Unit)
             /\ Len(received) = Len(buffer) + Room(n)
             /\ Len(received) <= BufferSize
             /\ \A k \in 1 .. Len(buffer) : received[k] = buffer[k]
             /\ \A k \in 1 .. Room(n) :
                  received[Len(buffer) + k]
                    = [frame |-> sending, part |-> part + k]
<1> DEFINE units == [k \in 1 .. Room(n) |->
                       [frame |-> sending, part |-> part + k]]
           received == buffer \o units
<1>1. /\ buffer \in Seq(Unit) /\ Len(buffer) \in Nat
      /\ Len(buffer) <= BufferSize
      /\ part \in Nat /\ n \in Nat /\ n > 0
  BY Lengths DEF TypeOK
<1>2. /\ Room(n) \in Nat /\ Room(n) <= n
      /\ (Len(buffer) < BufferSize => Room(n) > 0)
      /\ Len(buffer) + Room(n) <= BufferSize
  BY <1>1, Lengths DEF Room
<1>3. \A k \in 1 .. Room(n) : part + k \in 1 .. FrameLen
  BY <1>1, <1>2, Lengths
<1>4. units \in Seq(Unit) /\ Len(units) = Room(n)
  <2>1. \A k \in 1 .. Room(n) : [frame |-> sending, part |-> part + k] \in Unit
    BY <1>3 DEF Unit
  <2>2. QED BY <1>2, <2>1
<1>5. \A k \in 1 .. Room(n) : units[k] = [frame |-> sending, part |-> part + k]
  OBVIOUS
<1> HIDE DEF units
<1>6. /\ received \in Seq(Unit) /\ Len(received) = Len(buffer) + Len(units)
      /\ \A k \in 1 .. Len(buffer) + Len(units) :
           received[k] = IF k <= Len(buffer) THEN buffer[k]
                                             ELSE units[k - Len(buffer)]
  BY <1>1, <1>4, ConcatProperties
<1>7. ASSUME NEW k \in 1 .. Room(n)
      PROVE  received[Len(buffer) + k] = [frame |-> sending, part |-> part + k]
  <2>1. /\ Len(buffer) + k \in 1 .. Len(buffer) + Len(units)
        /\ ~ (Len(buffer) + k <= Len(buffer))
        /\ (Len(buffer) + k) - Len(buffer) = k
    BY <1>1, <1>2, <1>4
  <2>2. QED BY <1>5, <1>6, <2>1
<1>8. \A k \in 1 .. Len(buffer) : received[k] = buffer[k]
  BY <1>1, <1>2, <1>4, <1>6
<1> HIDE DEF received
<1>9. QED BY <1>2, <1>4, <1>6, <1>7, <1>8 DEF received, units

\* What begins with a magic and has another one inside a frame's length is no
\* frame (ESP_CheckForValidFrame).
LEMMA CutIsNoFrame ==
  ASSUME NEW units \in Seq(Unit), Len(units) > 0, units[1].part = 1,
         NEW m \in 2 .. FrameLen, m <= Len(units), units[m].part = 1
  PROVE  CheckForValidFrame(units) # "valid"
<1> DEFINE heads == {k \in 1 .. Len(units) : units[k].part = 1}
<1>1. 1 \in heads /\ \A j \in heads : 1 <= j
  OBVIOUS
<1>2. (CHOOSE k \in heads : \A j \in heads : k <= j) = 1
  <2>1. \A k \in heads : (\A j \in heads : k <= j) => k = 1
    BY <1>1
  <2> HIDE DEF heads
  <2>2. QED BY <1>1, <2>1
<1>3. FromMagic(units) = SubSeq(units, 1, Len(units))
  BY <1>1, <1>2 DEF FromMagic
<1>4. FromMagic(units) = units
  BY <1>3, SubSeqFull
<1>5. ~ Whole(units)
  <2>1. m \in 1 .. FrameLen /\ m # 1
    BY Lengths
  <2>2. units[m] # [frame |-> units[1].frame, part |-> m]
    BY <2>1
  <2>3. QED BY <2>1, <2>2 DEF Whole
<1>6. units # <<>>
  BY <1>1
<1>7. QED BY <1>4, <1>5, <1>6 DEF CheckForValidFrame

\* The frame that the parts of a frame are parts of.
LEMMA PartsFrame ==
  ASSUME NEW f, NEW n \in Nat, 0 < n
  PROVE  FromMagic(Parts(f, n))[1].frame = f
<1> DEFINE u == Parts(f, n)
           S == [frame : {f}, part : Nat]
           heads == {k \in 1 .. Len(u) : u[k].part = 1}
<1>1. /\ u \in Seq(S) /\ Len(u) = n
      /\ \A k \in 1 .. n : u[k] = [frame |-> f, part |-> k]
  BY PartsAreUnits
<1> HIDE DEF u, S
<1>2. heads = {1}
  BY <1>1
<1>3. (CHOOSE k \in heads : \A j \in heads : k <= j) = 1
  BY <1>2
<1>4. FromMagic(u) = SubSeq(u, 1, Len(u))
  BY <1>2, <1>3 DEF FromMagic
<1>5. FromMagic(u) = u
  BY <1>1, <1>4, SubSeqFull
<1>6. u[1].frame = f
  BY <1>1
<1>7. QED BY <1>5, <1>6 DEF u

\* What a write of the phone's may do to its frame.
Received ==
  /\ sending \in Frames /\ sending' = sending + 1
  /\ PutIntoInbox(sending)

NotReceived ==
  /\ UNCHANGED <<inbox, flags, hit>>
  /\ sending \in Frames
  /\ \/ sending' = sending /\ fate' = fate
     \/ /\ sending' = sending + 1
        /\ fate' = [fate EXCEPT ![sending] = "dropped"]

\* vBT_ITF_DataReceived either takes the whole frame of the phone's into the
\* inbox or takes no frame, and what a lost link left in the buffer stays.
LEMMA WriteOutcome ==
  ASSUME TypeOK, BufferInv, CutInv,
         NEW n \in 1 .. FrameLen, vBT_ITF_DataReceived(n)
  PROVE  (Received \/ NotReceived) /\ CutInv'
<1> DEFINE received == buffer \o [k \in 1 .. Room(n) |->
                                    [frame |-> sending, part |-> part + k]]
           f == FromMagic(received)[1].frame
           verdict == CheckForValidFrame(received)
<1>1. /\ sending \in Frames /\ part + n <= FrameLen
      /\ buffer' = IF verdict = "valid" THEN <<>> ELSE received
      /\ IF verdict = "valid" THEN PutIntoInbox(f)
         ELSE /\ fate' = IF part + n = FrameLen
                         THEN [fate EXCEPT ![sending] = "dropped"] ELSE fate
              /\ UNCHANGED <<inbox, flags, hit>>
      /\ IF part + n = FrameLen
         THEN sending' = sending + 1 /\ part' = 0
         ELSE sending' = sending /\ part' = part + n
  BY DEF vBT_ITF_DataReceived, Discarded
<1>2. n \in Nat /\ 0 < n /\ part \in Nat /\ part < FrameLen
  BY Lengths DEF BufferInv, PartInRange
<1>3. "cut" \in hit' <=> "cut" \in hit
  BY <1>1 DEF PutIntoInbox, WindowsHit
<1>4. CASE "cut" \notin hit
  <2>1. buffer = Parts(sending, part)
    BY <1>4 DEF BufferInv, BufferIsPartOfFrame, Parts
  <2>2. Len(buffer) = part
    BY <1>2, <2>1, PartsAreUnits
  <2>3. Room(n) = n
    BY <1>1, <1>2, <2>2, Lengths DEF Room
  <2>4. received = Parts(sending, part + n)
    BY <1>2, <2>1, <2>3, PartsExtend
  <2> HIDE DEF received
  <2>5. CASE part + n = FrameLen
    <3>1. verdict = "valid"
      BY <1>1, <1>2, <2>4, <2>5, PartsVerdict
    <3>2. f = sending
      BY <1>2, <2>4, <2>5, PartsFrame, Lengths
    <3>3. QED BY <1>1, <1>3, <1>4, <2>5, <3>1, <3>2 DEF Received, CutInv
  <2>6. CASE part + n # FrameLen
    <3>1. part + n < FrameLen
      BY <1>1, <1>2, <2>6, Lengths
    <3>2. verdict = "receiving"
      BY <1>1, <1>2, <2>4, <3>1, PartsVerdict
    <3>3. QED BY <1>1, <1>3, <1>4, <2>6, <3>2 DEF NotReceived, CutInv
  <2>7. QED BY <2>5, <2>6
<1>5. CASE "cut" \in hit
  <2>1. /\ Room(n) \in Nat /\ Room(n) <= n
        /\ (Len(buffer) < BufferSize => Room(n) > 0)
        /\ received \in Seq(Unit)
        /\ Len(received) = Len(buffer) + Room(n)
        /\ \A k \in 1 .. Len(buffer) : received[k] = buffer[k]
        /\ \A k \in 1 .. Room(n) :
             received[Len(buffer) + k] = [frame |-> sending, part |-> part + k]
    BY <1>1, ReceivedType
  <2>2. Len(buffer) \in Nat /\ Len(buffer) > 0 /\ buffer[1].part = 1
    BY <1>5 DEF CutInv, TypeOK
  <2> HIDE DEF received
  <2>3. Len(received) > 0 /\ received[1].part = 1
    BY <2>1, <2>2
  <2>4. PICK m \in 2 .. FrameLen : m <= Len(received) /\ received[m].part = 1
    <3>1. CASE part = 0 /\ Len(buffer) < FrameLen
      <4>1. /\ Len(buffer) + 1 \in 2 .. FrameLen
            /\ Len(buffer) + 1 <= Len(received) /\ 1 \in 1 .. Room(n)
        BY <2>1, <2>2, <3>1, Lengths
      <4>2. received[Len(buffer) + 1] = [frame |-> sending, part |-> part + 1]
        BY <2>1, <4>1
      <4>3. received[Len(buffer) + 1].part = 1
        BY <3>1, <4>2
      <4>4. QED BY <4>1, <4>3
    <3>2. CASE \E k \in 2 .. FrameLen : k <= Len(buffer) /\ buffer[k].part = 1
      <4>1. PICK k \in 2 .. FrameLen : k <= Len(buffer) /\ buffer[k].part = 1
        BY <3>2
      <4>2. k \in 1 .. Len(buffer) /\ k <= Len(received)
        BY <2>1, <2>2, <4>1, Lengths
      <4>3. QED BY <2>1, <4>1, <4>2
    <3>3. QED BY <1>5, <3>1, <3>2 DEF CutInv
  <2>5. verdict # "valid"
    BY <2>1, <2>3, <2>4, CutIsNoFrame
  <2>6. buffer' = received
    BY <1>1, <2>5
  <2>7. CutInv'
    BY <2>3, <2>4, <2>6 DEF CutInv
  <2>8. NotReceived
    BY <1>1, <2>5 DEF NotReceived
  <2>9. QED BY <2>7, <2>8
<1>6. QED BY <1>4, <1>5

\* A link lost in the middle of a frame leaves a part of it in the buffer.
LEMMA LinkLostOutcome ==
  ASSUME TypeOK, BufferInv, CutInv, LinkLost
  PROVE  /\ CutInv'
         /\ sending \in Frames /\ sending' = sending + 1
         /\ fate' = [fate EXCEPT ![sending] = "dropped"]
         /\ hit' = hit \union {"cut"}
         /\ UNCHANGED <<buffer, inbox, outbox, flags, mainLocals, streamed,
                        answered>>
<1>1. /\ buffer' = buffer /\ part' = 0 /\ part > 0 /\ part \in Nat
      /\ part < FrameLen
  BY DEF LinkLost, BufferInv, PartInRange
<1>2. CASE "cut" \notin hit
  <2>1. buffer = Parts(sending, part)
    BY <1>2 DEF BufferInv, BufferIsPartOfFrame, Parts
  <2>2. Len(buffer) = part /\ buffer[1] = [frame |-> sending, part |-> 1]
    <3>1. 1 \in 1 .. part
      BY <1>1
    <3>2. QED BY <1>1, <2>1, <3>1, PartsAreUnits
  <2>3. QED BY <1>1, <2>2 DEF CutInv, LinkLost
<1>3. CASE "cut" \in hit
  BY <1>1, <1>3 DEF CutInv, LinkLost
<1>4. QED BY <1>2, <1>3 DEF LinkLost

\* A write of the phone's keeps every variable in its type.
LEMMA WriteTypes ==
  ASSUME TypeOK, BufferInv, CutInv,
         NEW n \in 1 .. FrameLen, vBT_ITF_DataReceived(n)
  PROVE  TypeOK'
<1> DEFINE received == buffer \o [k \in 1 .. Room(n) |->
                                    [frame |-> sending, part |-> part + k]]
<1>1. /\ sending \in Frames /\ part + n <= FrameLen
      /\ buffer' = <<>> \/ buffer' = received
      /\ IF part + n = FrameLen
         THEN sending' = sending + 1 /\ part' = 0
         ELSE sending' = sending /\ part' = part + n
      /\ UNCHANGED <<outbox, mainLocals, streamed, answered>>
  BY DEF vBT_ITF_DataReceived
<1>2. buffer' \in Seq(Unit) /\ Len(buffer') <= BufferSize
  <2>1. received \in Seq(Unit) /\ Len(received) <= BufferSize
    BY <1>1, ReceivedType
  <2>2. <<>> \in Seq(Unit) /\ Len(<<>>) = 0
    OBVIOUS
  <2>3. 0 <= BufferSize
    BY Lengths
  <2> HIDE DEF received
  <2>4. CASE buffer' = <<>>
    BY <2>2, <2>3, <2>4
  <2>5. CASE buffer' = received
    BY <2>1, <2>5
  <2>6. QED BY <1>1, <2>4, <2>5
<1>3. sending' \in 1 .. MaxFrames + 1 /\ part' \in 0 .. FrameLen - 1
  BY <1>1, Lengths, BtInterfaceAssumption DEF TypeOK, Frames
<1>4. Received \/ NotReceived
  BY WriteOutcome
<1>5. /\ slot' \in [Indices -> Frames \union {NoFrame}]
      /\ index_read' \in Indices /\ index_write' \in Indices
      /\ flags' \subseteq Signal
      /\ fate' \in [Frames -> {"new", "received", "handled", "lost", "dropped"}]
      /\ hit' \subseteq {"flag", "read", "cut"}
  <2>1. CASE NotReceived
    BY <2>1 DEF NotReceived, inbox, TypeOK
  <2>2. CASE Received
    <3>1. WindowsHit(Succ(index_write) = index_read) \subseteq {"flag", "read"}
      BY DEF WindowsHit
    <3>2. QED BY <2>2, <3>1, SuccCases
          DEF Received, PutIntoInbox, ReadIndexAfter, Lose, Signal, TypeOK
  <2>3. QED BY <1>4, <2>1, <2>2
<1>6. QED BY <1>1, <1>2, <1>3, <1>5 DEF TypeOK, mainLocals

\* A frame appended to the outbox, the oldest given up if it is full.
LEMMA QueuedFrames ==
  ASSUME TypeOK, NEW f \in Frames \union {Streamed}
  PROVE  /\ Queued(f) \in Seq(Frames \union {Streamed})
         /\ Len(Queued(f)) \in Nat /\ 0 < Len(Queued(f))
         /\ Len(Queued(f)) <= Depth
         /\ Queued(f)[Len(Queued(f))] = f
         /\ \A k \in 1 .. Len(Queued(f)) - 1 :
              Queued(f)[k] = outbox[IF Len(outbox) = Depth THEN k + 1 ELSE k]
         /\ Len(Queued(f)) = IF Len(outbox) = Depth THEN Depth
                                                    ELSE Len(outbox) + 1
<1> DEFINE S == Frames \union {Streamed}
<1>1. /\ outbox \in Seq(S) /\ Len(outbox) \in Nat /\ Len(outbox) <= Depth
      /\ Depth \in Nat /\ Depth > 0
  BY BtInterfaceAssumption DEF TypeOK
<1>2. f \in S
  OBVIOUS
<1> HIDE DEF S
<1>3. CASE Len(outbox) = Depth
  <2> DEFINE rest == Tail(outbox)
  <2>1. outbox # <<>>
    BY <1>1, <1>3
  <2>2. /\ rest \in Seq(S) /\ Len(rest) = Depth - 1
        /\ \A k \in 1 .. Depth - 1 : rest[k] = outbox[k + 1]
    BY <1>1, <1>3, <2>1
  <2> HIDE DEF rest
  <2>3. /\ Append(rest, f) \in Seq(S) /\ Len(Append(rest, f)) = Depth
        /\ Append(rest, f)[Depth] = f
        /\ \A k \in 1 .. Depth - 1 : Append(rest, f)[k] = rest[k]
    BY <1>1, <1>2, <2>2, AppendProperties
  <2>4. Queued(f) = Append(rest, f)
    BY <1>3 DEF Queued, rest
  <2>5. QED BY <1>1, <1>3, <2>2, <2>3, <2>4 DEF S
<1>4. CASE Len(outbox) # Depth
  <2>1. Queued(f) = Append(outbox, f)
    BY <1>4 DEF Queued
  <2>2. /\ Append(outbox, f) \in Seq(S)
        /\ Len(Append(outbox, f)) = Len(outbox) + 1
        /\ Append(outbox, f)[Len(outbox) + 1] = f
        /\ \A k \in 1 .. Len(outbox) : Append(outbox, f)[k] = outbox[k]
    BY <1>1, <1>2, AppendProperties
  <2>3. QED BY <1>1, <1>4, <2>1, <2>2 DEF S
<1>5. QED BY <1>3, <1>4

\* And so does every step of the main loop.
LEMMA MainTypes ==
  ASSUME TypeOK, Main
  PROVE  TypeOK'
<1> USE DEF inbox, history
<1>1. /\ UNCHANGED <<buffer, sending, part>>
      /\ Depth \in Nat /\ MaxStreamed \in Nat
  BY BtInterfaceAssumption DEF Main, phone
<1>2. ASSUME NEW f \in Frames \union {Streamed}, NEW p, SendFrame(f, p)
      PROVE  /\ outbox' \in Seq(Frames \union {Streamed})
             /\ Len(outbox') <= Depth /\ loaded' \subseteq Signal
  BY <1>2, QueuedFrames DEF SendFrame, SetFlags, Signal, TypeOK
<1>3. CASE StreamFrame
  <2>1. /\ outbox' \in Seq(Frames \union {Streamed})
        /\ Len(outbox') <= Depth /\ loaded' \subseteq Signal
    BY <1>2, <1>3 DEF StreamFrame
  <2>2. streamed' \in 0 .. MaxStreamed
    BY <1>1, <1>3 DEF StreamFrame, TypeOK
  <2>3. QED BY <1>1, <1>3, <2>1, <2>2 DEF StreamFrame, SendFrame, TypeOK
<1>4. CASE vBT_ITF_IdleTask
  BY <1>1, <1>4 DEF vBT_ITF_IdleTask, TypeOK
<1>5. CASE BeginRead
  BY <1>1, <1>5 DEF BeginRead, TypeOK
<1>6. CASE CopyFrame
  BY <1>1, <1>6 DEF CopyFrame, TypeOK
<1>7. CASE PublishIndex
  BY <1>1, <1>7, SuccCases DEF PublishIndex, TypeOK
<1>8. CASE Handle
  <2>1. /\ outbox' \in Seq(Frames \union {Streamed})
        /\ Len(outbox') <= Depth /\ loaded' \subseteq Signal
        /\ pc' \in {"storeIn", "outbox"}
    <3>1. frame \in Frames \union {Streamed}
      BY DEF TypeOK, NoFrame, Streamed
    <3>2. CASE SendFrame(frame, "storeIn")
      BY <1>2, <3>1, <3>2 DEF SendFrame
    <3>3. CASE pc' = "outbox" /\ UNCHANGED <<outbox, loaded>>
      BY <3>3 DEF TypeOK
    <3>4. QED BY <1>8, <3>2, <3>3 DEF Handle
  <2>2. fate' \in [Frames -> {"new", "received", "handled", "lost", "dropped"}]
    BY <1>8 DEF Handle, TypeOK
  <2>3. QED BY <1>1, <1>8, <2>1, <2>2 DEF Handle, TypeOK
<1>9. CASE ClearInboxSignal
  BY <1>1, <1>9 DEF ClearInboxSignal, ClearFlags, TypeOK
<1>10. CASE ProcessOutbox
  <2>1. /\ outbox' \in Seq(Frames \union {Streamed}) /\ Len(outbox') <= Depth
        /\ answered' \in Seq(Frames) /\ loaded' \subseteq Signal
        /\ pc' \in {"idle", "storeOut"}
    <3>1. CASE UNCHANGED <<outbox, answered>>
      BY <1>10, <3>1 DEF ProcessOutbox, ClearFlags, TypeOK
    <3>2. CASE ~ UNCHANGED <<outbox, answered>>
      <4>1. /\ outbox # <<>> /\ outbox' = Tail(outbox)
            /\ answered' = IF Head(outbox) = Streamed THEN answered
                           ELSE Append(answered, Head(outbox))
            /\ UNCHANGED loaded /\ pc' = "idle"
        BY <1>10, <3>2 DEF ProcessOutbox
      <4>2. /\ outbox \in Seq(Frames \union {Streamed}) /\ Len(outbox) <= Depth
            /\ answered \in Seq(Frames) /\ loaded \subseteq Signal
        BY DEF TypeOK
      <4>3. /\ Head(outbox) \in Frames \union {Streamed}
            /\ Tail(outbox) \in Seq(Frames \union {Streamed})
            /\ Len(Tail(outbox)) <= Depth
        BY <1>1, <4>1, <4>2, HeadTailProperties
      <4>4. Head(outbox) # Streamed
              => Append(answered, Head(outbox)) \in Seq(Frames)
        BY <4>2, <4>3, AppendProperties
      <4>5. QED BY <4>1, <4>2, <4>3, <4>4
    <3>3. QED BY <3>1, <3>2
  <2>2. QED BY <1>1, <1>10, <2>1 DEF ProcessOutbox, TypeOK
<1>11. CASE StoreFlags
  BY <1>1, <1>11 DEF StoreFlags, TypeOK
<1>12. QED BY <1>3, <1>4, <1>5, <1>6, <1>7, <1>8, <1>9, <1>10, <1>11 DEF Main

\* The types, and what the buffer holds with or without a lost link.
BaseInv == TypeOK /\ BufferInv /\ CutInv

\* A step keeps the types and the buffer.
LEMMA NextKeepsBase == BaseInv /\ [Next]_vars => BaseInv'
<1> SUFFICES ASSUME BaseInv, [Next]_vars PROVE BaseInv'
  OBVIOUS
<1> USE DEF BaseInv
<1>1. BufferInv'
  BY NextKeepsBuffer
<1>2. CASE \E n \in 1 .. FrameLen : vBT_ITF_DataReceived(n)
  BY <1>1, <1>2, WriteOutcome, WriteTypes
<1>3. CASE LinkLost
  <2>1. sending' \in 1 .. MaxFrames + 1 /\ part' \in 0 .. FrameLen - 1
    BY <1>3, Lengths, BtInterfaceAssumption DEF LinkLost, TypeOK, Frames
  <2>2. TypeOK'
    BY <1>3, <2>1 DEF LinkLost, inbox, mainLocals, TypeOK
  <2>3. QED BY <1>1, <1>3, <2>2, LinkLostOutcome
<1>4. CASE Main
  <2>1. UNCHANGED <<buffer, part, hit>>
    BY <1>4 DEF Main, StreamFrame, vBT_ITF_IdleTask, BeginRead, CopyFrame,
       PublishIndex, Handle, ClearInboxSignal, ProcessOutbox, StoreFlags,
       phone, history
  <2>2. QED BY <1>1, <1>4, <2>1, MainTypes DEF CutInv
<1>5. CASE UNCHANGED vars
  BY <1>1, <1>5 DEF vars, inbox, mainLocals, phone, history, TypeOK, CutInv
<1>6. QED BY <1>2, <1>3, <1>4, <1>5 DEF Next

\* The link starts with an empty buffer and empty queues.
LEMMA InitBase == Init => BaseInv
<1> SUFFICES ASSUME Init PROVE BaseInv
  OBVIOUS
<1>1. /\ buffer = <<>> /\ part = 0 /\ hit = {} /\ sending = 1 /\ streamed = 0
      /\ outbox = <<>> /\ answered = <<>> /\ index = 0
      /\ index_read = 0 /\ index_write = 0
  BY DEF Init
<1>2. Parts(sending, 0) = <<>>
  BY PartsAreUnits, EmptySeq
<1>3. BufferInv
  BY <1>1, <1>2, Lengths DEF BufferInv, PartInRange, BufferIsPartOfFrame, Parts
<1>4. 0 \in Indices /\ 1 \in 1 .. MaxFrames + 1 /\ 0 \in 0 .. FrameLen - 1
      /\ 0 \in 0 .. MaxStreamed /\ 0 <= Depth /\ 0 <= BufferSize
  BY Lengths, BtInterfaceAssumption DEF Indices
<1>5. /\ <<>> \in Seq(Unit) /\ Len(<<>>) = 0 /\ <<>> \in Seq(Frames)
      /\ <<>> \in Seq(Frames \union {Streamed})
  OBVIOUS
<1>6. TypeOK
  BY <1>1, <1>4, <1>5 DEF Init, TypeOK
<1>7. QED BY <1>1, <1>3, <1>6 DEF BaseInv, CutInv

\* Every variable of the command link keeps its type: the buffer of the handler
\* never overflows, and no index leaves its ring.
THEOREM LinkTypes == Spec => []TypeOK
<1>1. BaseInv => TypeOK
  BY DEF BaseInv
<1>2. QED BY <1>1, InitBase, NextKeepsBase, PTL DEF Spec

-----------------------------------------------------------------------------
\* A frame put into the ring goes behind all others; the frame given up is the
\* oldest.
LEMMA RingPut ==
  ASSUME TypeOK, NEW f, PutIntoInbox(f)
  PROVE  LET full == Succ(index_write) = index_read
             stays(i) == InRing(i) /\ ~ (full /\ i = index_read)
         IN  /\ ~ InRing(index_write) /\ index_write' # index_read'
             /\ full => InRing(index_read) /\ Pos(index_read) = 0
             /\ ~ full => index_read' = index_read
             /\ \A i \in Indices :
                  /\ InRing(i)' <=> stays(i) \/ i = index_write
                  /\ i # index_read => Pos(i) > 0
             /\ \A i, j \in Indices :
                  InRing(j)' /\ Pos(i)' < Pos(j)' =>
                    stays(i) /\ (j = index_write
                                 \/ (stays(j) /\ Pos(i) < Pos(j)))
<1> DEFINE full == Succ(index_write) = index_read
<1>1. /\ index_read \in Indices /\ index_write \in Indices
      /\ Depth \in Nat /\ Depth > 0
  BY BtInterfaceAssumption DEF TypeOK
<1>2. /\ index_write' = Succ(index_write)
      /\ index_read' = IF full THEN Succ(index_read) ELSE index_read
  BY DEF PutIntoInbox, ReadIndexAfter
<1>3. /\ Succ(index_write) = IF index_write = Depth THEN 0 ELSE index_write + 1
      /\ Succ(index_read) = IF index_read = Depth THEN 0 ELSE index_read + 1
  BY <1>1, SuccCases
<1>4. QED BY <1>1, <1>2, <1>3 DEF InRing, Pos, Indices

\* A frame received whole goes behind the others, and the oldest is given up for
\* it if the ring is full: ESI_NewIncomingFrame.
LEMMA ReceivedKeepsRing ==
  ASSUME TypeOK, RingInv, Received, UNCHANGED mainLocals
  PROVE  RingInv'
<1> SUFFICES ASSUME "read" \notin hit'
             PROVE  /\ RingOfReceived' /\ RingInOrder' /\ ReadsOldest'
                    /\ HandlesOldest' /\ NoneForgotten'
  BY DEF RingInv
<1> DEFINE full == Succ(index_write) = index_read
           stays(i) == InRing(i) /\ ~ (full /\ i = index_read)
           evicted == IF full THEN {slot[index_read]} ELSE {}
<1>1. /\ sending \in Frames /\ sending' = sending + 1
      /\ slot' = [slot EXCEPT ![index_write] = sending]
      /\ fate' = [Lose(evicted) EXCEPT ![sending] = "received"]
      /\ hit' = hit \union WindowsHit(full)
      /\ UNCHANGED <<pc, index, frame>>
  BY DEF Received, PutIntoInbox, mainLocals
<1>2. "read" \notin hit /\ ~ (full /\ pc \in {"copy", "publish"})
  BY <1>1 DEF WindowsHit
<1>3. /\ RingOfReceived /\ RingInOrder /\ ReadsOldest /\ HandlesOldest
      /\ NoneForgotten
  BY <1>2 DEF RingInv
<1>4. /\ index_read \in Indices /\ index_write \in Indices
      /\ sending \in Nat
      /\ slot \in [Indices -> Frames \union {NoFrame}]
      /\ fate \in [Frames -> {"new", "received", "handled", "lost", "dropped"}]
  BY DEF TypeOK
<1>5. /\ ~ InRing(index_write) /\ index_write' # index_read'
      /\ full => InRing(index_read) /\ Pos(index_read) = 0
      /\ ~ full => index_read' = index_read
      /\ \A i \in Indices :
           /\ InRing(i)' <=> stays(i) \/ i = index_write
           /\ i # index_read => Pos(i) > 0
      /\ \A i, j \in Indices :
           InRing(j)' /\ Pos(i)' < Pos(j)' =>
             stays(i) /\ (j = index_write \/ (stays(j) /\ Pos(i) < Pos(j)))
  BY RingPut DEF Received
<1>6. \A i \in Indices : slot'[i] = IF i = index_write THEN sending ELSE slot[i]
  BY <1>1, <1>4
<1>7. \A g \in Frames :
        fate'[g] = IF g = sending THEN "received"
                   ELSE IF g \in evicted /\ fate[g] = "received" THEN "lost"
                   ELSE fate[g]
  BY <1>1, <1>4 DEF Lose
<1>8. \A i \in Indices :
        stays(i) => /\ i # index_write /\ slot[i] \in Frames
                    /\ slot[i] < sending /\ fate[slot[i]] = "received"
                    /\ slot[i] \notin evicted
  <2> SUFFICES ASSUME NEW i \in Indices, stays(i)
               PROVE  /\ i # index_write /\ slot[i] \in Frames
                      /\ slot[i] < sending /\ fate[slot[i]] = "received"
                      /\ slot[i] \notin evicted
    OBVIOUS
  <2>1. i # index_write
    BY <1>5
  <2>2. slot[i] \in Frames /\ slot[i] < sending /\ fate[slot[i]] = "received"
    BY <1>3 DEF RingOfReceived
  <2>3. ASSUME full PROVE slot[index_read] # slot[i]
    <3>1. Pos(index_read) < Pos(i) /\ InRing(i) /\ InRing(index_read)
      BY <1>5, <2>3
    <3>2. slot[index_read] < slot[i] /\ slot[index_read] \in Frames
      BY <1>3, <1>4, <3>1 DEF RingInOrder, RingOfReceived
    <3>3. QED BY <2>2, <3>2 DEF Frames
  <2>4. QED BY <2>1, <2>2, <2>3
<1> HIDE DEF full, evicted
<1>9. RingOfReceived'
  <2> SUFFICES ASSUME NEW i \in Indices, InRing(i)'
               PROVE  /\ slot'[i] \in Frames /\ fate'[slot'[i]] = "received"
                      /\ slot'[i] < sending'
    BY DEF RingOfReceived
  <2>1. CASE i = index_write
    BY <1>1, <1>4, <1>6, <1>7, <2>1
  <2>2. CASE stays(i)
    <3>1. slot'[i] = slot[i]
      BY <1>6, <1>8, <2>2
    <3>2. slot[i] # sending /\ slot[i] < sending + 1
      BY <1>4, <1>8, <2>2 DEF Frames
    <3>3. QED BY <1>1, <1>7, <1>8, <2>2, <3>1, <3>2
  <2>3. QED BY <1>5, <2>1, <2>2
<1>10. RingInOrder'
  <2> SUFFICES ASSUME NEW i \in Indices, NEW j \in Indices,
                      InRing(j)', Pos(i)' < Pos(j)'
               PROVE  slot'[i] < slot'[j]
    BY DEF RingInOrder
  <2>1. stays(i) /\ (j = index_write \/ (stays(j) /\ Pos(i) < Pos(j)))
    BY <1>5
  <2>2. slot'[i] = slot[i] /\ slot[i] < sending
    BY <1>6, <1>8, <2>1
  <2>3. CASE j = index_write
    BY <1>6, <2>2, <2>3
  <2>4. CASE stays(j) /\ Pos(i) < Pos(j)
    <3>1. slot'[j] = slot[j]
      BY <1>6, <1>8, <2>4
    <3>2. slot[i] < slot[j]
      BY <1>3, <2>4 DEF RingInOrder
    <3>3. QED BY <2>2, <3>1, <3>2
  <2>5. QED BY <2>1, <2>3, <2>4
<1>11. ReadsOldest'
  <2>1. CASE pc \in {"copy", "publish"}
    <3>1. ~ full /\ index_read' = index_read
      BY <1>2, <1>5, <2>1
    <3>2. index = index_read /\ index_read # index_write
      BY <1>3, <2>1 DEF ReadsOldest
    <3>3. slot'[index_read] = slot[index_read]
      BY <1>4, <1>6, <3>2
    <3>4. QED BY <1>1, <1>3, <1>5, <3>1, <3>2, <3>3 DEF ReadsOldest
  <2>2. CASE pc \notin {"copy", "publish"}
    BY <1>1, <2>2 DEF ReadsOldest
  <2>3. QED BY <2>1, <2>2
<1>12. HandlesOldest'
  <2> SUFFICES ASSUME pc = "handle"
               PROVE  /\ frame \in Frames /\ fate'[frame] = "received"
                      /\ frame < sending'
                      /\ \A i \in Indices : InRing(i)' => frame < slot'[i]
    BY <1>1 DEF HandlesOldest
  <2>1. /\ frame \in Frames /\ fate[frame] = "received" /\ frame < sending
        /\ \A i \in Indices : InRing(i) => frame < slot[i]
    BY <1>3 DEF HandlesOldest
  <2>2. frame \in Nat
    BY <2>1 DEF Frames
  <2>3. frame \notin evicted
    <3>1. ASSUME full PROVE frame # slot[index_read]
      <4>1. frame < slot[index_read]
        BY <1>4, <1>5, <2>1, <3>1
      <4>2. QED BY <2>2, <4>1
    <3>2. QED BY <3>1 DEF evicted
  <2>4. fate'[frame] = "received"
    BY <1>4, <1>7, <2>1, <2>2, <2>3
  <2>5. frame < sending'
    BY <1>1, <1>4, <2>1, <2>2
  <2>6. ASSUME NEW i \in Indices, InRing(i)' PROVE frame < slot'[i]
    <3>1. CASE i = index_write
      BY <1>6, <2>1, <3>1
    <3>2. CASE stays(i)
      BY <1>6, <1>8, <2>1, <3>2
    <3>3. QED BY <1>5, <2>6, <3>1, <3>2
  <2>7. QED BY <2>1, <2>4, <2>5, <2>6
<1>13. NoneForgotten'
  <2> SUFFICES ASSUME NEW g \in Frames, fate'[g] = "received"
               PROVE  \/ \E i \in Indices : InRing(i)' /\ slot'[i] = g
                      \/ pc = "handle" /\ frame = g
    BY <1>1 DEF NoneForgotten
  <2>1. CASE g = sending
    BY <1>4, <1>5, <1>6, <2>1
  <2>2. CASE g # sending
    <3>1. fate[g] = "received" /\ g \notin evicted
      BY <1>7, <2>2
    <3>2. CASE pc = "handle" /\ frame = g
      BY <3>2
    <3>3. CASE \E i \in Indices : InRing(i) /\ slot[i] = g
      <4>1. PICK i \in Indices : InRing(i) /\ slot[i] = g
        BY <3>3
      <4>2. stays(i)
        BY <3>1, <4>1 DEF evicted
      <4>3. InRing(i)' /\ slot'[i] = g
        BY <1>5, <1>6, <1>8, <4>1, <4>2
      <4>4. QED BY <4>3
    <3>4. QED BY <1>3, <3>1, <3>2, <3>3 DEF NoneForgotten
  <2>3. QED BY <2>1, <2>2
<1>14. QED BY <1>9, <1>10, <1>11, <1>12, <1>13

\* A frame that is dropped, by the check or with its link, was never received.
LEMMA DroppedKeepsRing ==
  ASSUME TypeOK, RingInv, UNCHANGED <<inbox, mainLocals>>,
         "read" \in hit => "read" \in hit',
         \/ sending' = sending /\ fate' = fate
         \/ /\ sending \in Frames /\ sending' = sending + 1
            /\ fate' = [fate EXCEPT ![sending] = "dropped"]
  PROVE  RingInv'
<1> SUFFICES ASSUME "read" \notin hit'
             PROVE  /\ RingOfReceived' /\ RingInOrder' /\ ReadsOldest'
                    /\ HandlesOldest' /\ NoneForgotten'
  BY DEF RingInv
<1>1. /\ RingOfReceived /\ RingInOrder /\ ReadsOldest /\ HandlesOldest
      /\ NoneForgotten
  BY DEF RingInv
<1>2. UNCHANGED <<slot, index_read, index_write, pc, index, frame>>
  BY DEF inbox, mainLocals
<1>3. sending \in Nat /\ sending' \in Nat /\ sending <= sending'
  BY DEF TypeOK
<1>4. \A f \in Frames :
        /\ fate'[f] = "received" => fate[f] = "received"
        /\ f < sending => fate'[f] = fate[f]
  <2> SUFFICES ASSUME NEW f \in Frames
               PROVE  /\ fate'[f] = "received" => fate[f] = "received"
                      /\ f < sending => fate'[f] = fate[f]
    OBVIOUS
  <2>1. CASE fate' = fate
    BY <2>1
  <2>2. CASE fate' = [fate EXCEPT ![sending] = "dropped"]
    <3>1. fate'[f] = IF f = sending THEN "dropped" ELSE fate[f]
      BY <2>2 DEF TypeOK
    <3>2. f \in Nat
      BY DEF Frames
    <3>3. QED BY <1>3, <3>1, <3>2
  <2>3. QED BY <2>1, <2>2
<1>5. \A i \in Indices : (InRing(i)' <=> InRing(i)) /\ Pos(i)' = Pos(i)
  BY <1>2 DEF InRing, Pos
<1>6. RingOfReceived'
  <2> SUFFICES ASSUME NEW i \in Indices, InRing(i)'
               PROVE  /\ slot'[i] \in Frames /\ fate'[slot'[i]] = "received"
                      /\ slot'[i] < sending'
    BY DEF RingOfReceived
  <2>1. slot[i] \in Frames /\ fate[slot[i]] = "received" /\ slot[i] < sending
    BY <1>1, <1>5 DEF RingOfReceived
  <2>2. slot[i] \in Nat
    BY <2>1 DEF Frames
  <2>3. QED BY <1>2, <1>3, <1>4, <2>1, <2>2
<1>7. RingInOrder'
  BY <1>1, <1>2, <1>5 DEF RingInOrder
<1>8. ReadsOldest'
  BY <1>1, <1>2 DEF ReadsOldest
<1>9. HandlesOldest'
  <2> SUFFICES ASSUME pc = "handle"
               PROVE  /\ frame \in Frames /\ fate'[frame] = "received"
                      /\ frame < sending'
                      /\ \A i \in Indices : InRing(i)' => frame < slot'[i]
    BY <1>2 DEF HandlesOldest
  <2>1. /\ frame \in Frames /\ fate[frame] = "received" /\ frame < sending
        /\ \A i \in Indices : InRing(i) => frame < slot[i]
    BY <1>1 DEF HandlesOldest
  <2>2. frame \in Nat
    BY <2>1 DEF Frames
  <2>3. QED BY <1>2, <1>3, <1>4, <1>5, <2>1, <2>2
<1>10. NoneForgotten'
  <2> SUFFICES ASSUME NEW g \in Frames, fate'[g] = "received"
               PROVE  \/ \E i \in Indices : InRing(i)' /\ slot'[i] = g
                      \/ pc = "handle" /\ frame = g
    BY <1>2 DEF NoneForgotten
  <2>1. fate[g] = "received"
    BY <1>4
  <2>2. QED BY <1>1, <1>2, <1>5, <2>1 DEF NoneForgotten
<1>11. QED BY <1>6, <1>7, <1>8, <1>9, <1>10

\* The read index of a ring that is not empty is the place of its oldest frame.
LEMMA OldestInRing ==
  ASSUME TypeOK, index_read # index_write
  PROVE  index_read \in Indices /\ InRing(index_read)
<1>1. /\ index_read \in Indices /\ index_write \in Indices
      /\ Depth \in Nat
  BY BtInterfaceAssumption DEF TypeOK
<1>2. index_read \in Nat /\ index_write \in Nat /\ index_read <= Depth
  BY <1>1 DEF Indices
<1>3. QED BY <1>1, <1>2 DEF InRing, Pos

\* ES_Queue_Read takes the oldest frame out of the ring.
LEMMA PublishKeepsRing ==
  ASSUME TypeOK, RingInv, PublishIndex, UNCHANGED sending
  PROVE  RingInv'
<1> SUFFICES ASSUME "read" \notin hit'
             PROVE  /\ RingOfReceived' /\ RingInOrder' /\ ReadsOldest'
                    /\ HandlesOldest' /\ NoneForgotten'
  BY DEF RingInv
<1>1. /\ RingOfReceived /\ RingInOrder /\ ReadsOldest /\ NoneForgotten
      /\ pc = "publish"
  BY DEF RingInv, PublishIndex, history
<1>2. /\ index = index_read /\ index_read # index_write
      /\ frame = slot[index_read]
  BY <1>1 DEF ReadsOldest
<1>3. /\ index_read' = Succ(index_read)
      /\ pc' = IF frame = NoFrame THEN "clear" ELSE "handle"
      /\ UNCHANGED <<slot, index_write, frame, fate, sending>>
  BY <1>2 DEF PublishIndex, history
<1>4. /\ index_read \in Indices /\ index_write \in Indices
      /\ Depth \in Nat /\ Depth > 0
  BY BtInterfaceAssumption DEF TypeOK
<1>5. Succ(index_read) = IF index_read = Depth THEN 0 ELSE index_read + 1
  BY <1>4, SuccCases
<1>6. /\ InRing(index_read) /\ Pos(index_read) = 0
      /\ \A i \in Indices :
           /\ InRing(i)' <=> InRing(i) /\ i # index_read
           /\ i # index_read => Pos(i) > 0
      /\ \A i, j \in Indices :
           InRing(j)' /\ Pos(i)' < Pos(j)' => InRing(j) /\ Pos(i) < Pos(j)
  BY <1>2, <1>3, <1>4, <1>5 DEF InRing, Pos, Indices
<1>7. frame \in Frames /\ fate[frame] = "received" /\ frame < sending
  BY <1>1, <1>2, <1>4, <1>6 DEF RingOfReceived
<1>8. pc' = "handle"
  BY <1>3, <1>7 DEF Frames, NoFrame
<1>9. ASSUME NEW i \in Indices, InRing(i)' PROVE frame < slot[i]
  <2>1. InRing(i) /\ Pos(index_read) < Pos(i)
    BY <1>6, <1>9
  <2>2. QED BY <1>1, <1>2, <1>4, <2>1 DEF RingInOrder
<1>10. RingOfReceived'
  BY <1>1, <1>3, <1>6 DEF RingOfReceived
<1>11. RingInOrder'
  BY <1>1, <1>3, <1>6 DEF RingInOrder
<1>12. HandlesOldest'
  BY <1>3, <1>7, <1>9 DEF HandlesOldest
<1>13. NoneForgotten'
  <2> SUFFICES ASSUME NEW g \in Frames, fate[g] = "received", g # frame
               PROVE  \E i \in Indices : InRing(i)' /\ slot[i] = g
    BY <1>3, <1>8 DEF NoneForgotten
  <2>1. PICK i \in Indices : InRing(i) /\ slot[i] = g
    BY <1>1 DEF NoneForgotten
  <2>2. i # index_read
    BY <1>2, <2>1
  <2>3. QED BY <1>6, <2>1, <2>2
<1>14. QED BY <1>8, <1>10, <1>11, <1>12, <1>13 DEF ReadsOldest

\* vES_CommandHandler has the frame it is handed, and no other.
LEMMA HandleKeepsRing ==
  ASSUME TypeOK, RingInv, Handle, UNCHANGED sending
  PROVE  RingInv'
<1> SUFFICES ASSUME "read" \notin hit'
             PROVE  /\ RingOfReceived' /\ RingInOrder' /\ ReadsOldest'
                    /\ HandlesOldest' /\ NoneForgotten'
  BY DEF RingInv
<1>1. /\ RingOfReceived /\ RingInOrder /\ HandlesOldest /\ NoneForgotten
      /\ pc = "handle" /\ pc' \in {"storeIn", "outbox"}
      /\ fate' = [fate EXCEPT ![frame] = "handled"]
      /\ UNCHANGED <<slot, index_read, index_write, sending>>
  BY DEF RingInv, Handle, SendFrame, inbox
<1>2. /\ frame \in Frames
      /\ \A i \in Indices : InRing(i) => frame < slot[i]
  BY <1>1 DEF HandlesOldest
<1>3. \A g \in Frames : fate'[g] = IF g = frame THEN "handled" ELSE fate[g]
  BY <1>1 DEF TypeOK
<1>4. \A i \in Indices : (InRing(i)' <=> InRing(i)) /\ Pos(i)' = Pos(i)
  BY <1>1 DEF InRing, Pos
<1>5. \A i \in Indices : InRing(i) => slot[i] # frame
  BY <1>2 DEF Frames
<1>6. RingOfReceived'
  BY <1>1, <1>3, <1>4, <1>5 DEF RingOfReceived
<1>7. RingInOrder'
  BY <1>1, <1>4 DEF RingInOrder
<1>8. NoneForgotten'
  <2> SUFFICES ASSUME NEW g \in Frames, fate'[g] = "received"
               PROVE  \E i \in Indices : InRing(i)' /\ slot'[i] = g
    BY DEF NoneForgotten
  <2>1. fate[g] = "received" /\ g # frame
    BY <1>3
  <2>2. PICK i \in Indices : InRing(i) /\ slot[i] = g
    BY <1>1, <2>1 DEF NoneForgotten
  <2>3. QED BY <1>1, <1>4, <2>2
<1>9. QED BY <1>1, <1>6, <1>7, <1>8 DEF ReadsOldest, HandlesOldest

\* No other step of the main loop touches the ring or a frame's fate.
LEMMA MainKeepsRing ==
  ASSUME TypeOK, RingInv, Main
  PROVE  RingInv'
<1>1. UNCHANGED sending
  BY DEF Main, phone
<1>2. CASE PublishIndex
  BY <1>1, <1>2, PublishKeepsRing
<1>3. CASE Handle
  BY <1>1, <1>3, HandleKeepsRing
<1>4. CASE ~ (PublishIndex \/ Handle)
  <2>1. UNCHANGED <<slot, index_read, index_write, fate, hit, sending>>
    BY <1>1, <1>4 DEF Main, StreamFrame, vBT_ITF_IdleTask, BeginRead, CopyFrame,
       ClearInboxSignal, ProcessOutbox, StoreFlags, inbox, history
  <2>2. pc' = "handle" => pc = "handle" /\ frame' = frame
    BY <1>4 DEF Main, StreamFrame, vBT_ITF_IdleTask, BeginRead, CopyFrame,
       ClearInboxSignal, ProcessOutbox, StoreFlags, SendFrame
  <2>3. pc # "handle"
    BY <1>4 DEF Main, StreamFrame, vBT_ITF_IdleTask, BeginRead, CopyFrame,
       ClearInboxSignal, ProcessOutbox, StoreFlags
  <2>4. ASSUME ReadsOldest PROVE ReadsOldest'
    BY <1>4, <2>1, <2>4 DEF ReadsOldest, Main, StreamFrame, vBT_ITF_IdleTask,
       BeginRead, CopyFrame, ClearInboxSignal, ProcessOutbox, StoreFlags,
       SendFrame
  <2>5. \A i \in Indices : (InRing(i)' <=> InRing(i)) /\ Pos(i)' = Pos(i)
    BY <2>1 DEF InRing, Pos
  <2>6. ASSUME RingOfReceived, RingInOrder, NoneForgotten
        PROVE  RingOfReceived' /\ RingInOrder' /\ NoneForgotten'
    BY <2>1, <2>3, <2>5, <2>6 DEF RingOfReceived, RingInOrder, NoneForgotten
  <2>7. QED BY <2>1, <2>2, <2>3, <2>4, <2>6 DEF RingInv, HandlesOldest
<1>5. QED BY <1>2, <1>3, <1>4

\* A step keeps the ring in the order of the frames.
LEMMA NextKeepsRing == BaseInv /\ RingInv /\ [Next]_vars => RingInv'
<1> SUFFICES ASSUME BaseInv, RingInv, [Next]_vars PROVE RingInv'
  OBVIOUS
<1> USE DEF BaseInv
<1>1. ASSUME NEW n \in 1 .. FrameLen, vBT_ITF_DataReceived(n)
      PROVE  RingInv'
  <2>1. UNCHANGED mainLocals
    BY <1>1 DEF vBT_ITF_DataReceived
  <2>2. CASE Received
    BY <2>1, <2>2, ReceivedKeepsRing
  <2>3. CASE NotReceived
    BY <2>1, <2>3, DroppedKeepsRing DEF NotReceived
  <2>4. QED BY <1>1, <2>2, <2>3, WriteOutcome
<1>2. CASE LinkLost
  BY <1>2, LinkLostOutcome, DroppedKeepsRing
<1>3. CASE Main
  BY <1>3, MainKeepsRing
<1>4. CASE UNCHANGED vars
  BY <1>4, DroppedKeepsRing DEF vars, phone, history
<1>5. QED BY <1>1, <1>2, <1>3, <1>4 DEF Next

\* The remainders an index of the ring comes to.
LEMMA Remainders ==
  ASSUME NEW m \in Nat, m > 0, NEW x \in Int
  PROVE  /\ 0 <= x /\ x < m => x % m = x
         /\ m <= x /\ x < m + m => x % m = x - m
         /\ x < 0 /\ 0 <= x + m => x % m = x + m
OBVIOUS

\* The frames the handler can still read are those of the ring.
LEMMA HeldIsRing ==
  ASSUME TypeOK
  PROVE  Held = {slot[i] : i \in {j \in Indices : InRing(j)}}
<1> DEFINE n == (index_write - index_read) % (Depth + 1)
<1>1. /\ index_read \in Nat /\ index_read <= Depth
      /\ index_write \in Nat /\ index_write <= Depth /\ Depth \in Nat
  BY BtInterfaceAssumption DEF TypeOK, Indices
<1>2. n = Pos(index_write)
  BY <1>1, Remainders DEF Pos
<1>3. Pos(index_write) \in Nat /\ Pos(index_write) <= Depth
  BY <1>1 DEF Pos
<1> HIDE DEF n
<1>4. ASSUME NEW k \in 0 .. n - 1
      PROVE  \E i \in Indices : InRing(i) /\ i = (index_read + k) % (Depth + 1)
  <2>1. CASE index_read + k <= Depth
    <3>1. (index_read + k) % (Depth + 1) = index_read + k
      BY <1>1, <1>2, <1>3, <2>1, Remainders
    <3>2. index_read + k \in Indices /\ InRing(index_read + k)
      BY <1>1, <1>2, <1>3, <2>1 DEF Indices, InRing, Pos
    <3>3. QED BY <3>1, <3>2
  <2>2. CASE ~ (index_read + k <= Depth)
    <3> DEFINE i == index_read + k - (Depth + 1)
    <3>1. (index_read + k) % (Depth + 1) = i
      BY <1>1, <1>2, <1>3, <2>2, Remainders
    <3>2. i \in Indices
      BY <1>1, <1>2, <1>3, <2>2 DEF Indices
    <3>3. ~ (i >= index_read) /\ i - index_read + Depth + 1 = k
      BY <1>1, <1>2, <1>3, <2>2
    <3> HIDE DEF i
    <3>4. Pos(i) = k
      BY <3>3 DEF Pos
    <3>5. InRing(i)
      BY <1>2, <1>3, <3>4 DEF InRing
    <3>6. QED BY <3>1, <3>2, <3>5
  <2>3. QED BY <2>1, <2>2
<1>5. ASSUME NEW i \in Indices, InRing(i)
      PROVE  \E k \in 0 .. n - 1 : i = (index_read + k) % (Depth + 1)
  <2>1. i \in Nat /\ i <= Depth
    BY <1>1 DEF Indices
  <2>2. Pos(i) \in 0 .. n - 1
    BY <1>1, <1>2, <1>3, <1>5, <2>1 DEF InRing, Pos
  <2>3. i = (index_read + Pos(i)) % (Depth + 1)
    <3>1. CASE i >= index_read
      <4>1. index_read + Pos(i) = i
        BY <1>1, <2>1, <3>1 DEF Pos
      <4>2. QED BY <1>1, <2>1, <4>1, Remainders
    <3>2. CASE ~ (i >= index_read)
      <4>1. index_read + Pos(i) = i + (Depth + 1)
        BY <1>1, <2>1, <3>2 DEF Pos
      <4>2. QED BY <1>1, <2>1, <4>1, Remainders
    <3>3. QED BY <3>1, <3>2
  <2>4. QED BY <2>2, <2>3
<1>6. Held = {slot[(index_read + k) % (Depth + 1)] : k \in 0 .. n - 1}
  BY DEF Held, n
<1>7. QED BY <1>4, <1>5, <1>6

\* The ring starts empty, and no frame was received.
LEMMA InitRing == Init => RingInv
<1> SUFFICES ASSUME Init PROVE RingInv
  OBVIOUS
<1>1. /\ index_read = 0 /\ index_write = 0 /\ pc = "idle"
      /\ fate = [f \in Frames |-> "new"]
  BY DEF Init
<1>2. \A i \in Indices : ~ InRing(i)
  BY <1>1, BtInterfaceAssumption DEF InRing, Pos, Indices
<1>3. QED BY <1>1, <1>2 DEF RingInv, RingOfReceived, RingInOrder, ReadsOldest,
             HandlesOldest, NoneForgotten

\* A frame received whole is in the inbox or in the hands of the main loop until
\* it is handled or given up, unless the inbox gave up a frame during
\* ES_Queue_Read.
THEOREM InboxNeverLeaks == Spec => []NothingLeaks
<1>1. BaseInv /\ RingInv => NothingLeaks
  <2> SUFFICES ASSUME TypeOK, RingInv, "read" \notin hit
               PROVE  {f \in Frames : fate[f] = "received"} = Held \union InHand
    BY DEF BaseInv, NothingLeaks
  <2>1. /\ RingOfReceived /\ RingInOrder /\ ReadsOldest /\ HandlesOldest
        /\ NoneForgotten
    BY DEF RingInv
  <2>2. Held = {slot[i] : i \in {j \in Indices : InRing(j)}}
    BY HeldIsRing
  <2>3. pc \in {"copy", "publish"} =>
          index \in Indices /\ InRing(index)
    BY <2>1, OldestInRing DEF ReadsOldest
  <2>4. ASSUME NEW f \in Held \union InHand
        PROVE  f \in Frames /\ fate[f] = "received"
    BY <2>1, <2>2, <2>3 DEF InHand, RingOfReceived, HandlesOldest
  <2>5. ASSUME NEW f \in Frames, fate[f] = "received"
        PROVE  f \in Held \union InHand
    BY <2>1, <2>2, <2>5 DEF InHand, NoneForgotten
  <2>6. QED BY <2>4, <2>5
<1>2. QED BY <1>1, InitBase, InitRing, NextKeepsBase, NextKeepsRing, PTL
         DEF Spec

\* Commands are handled in the order they were received, each one once, unless
\* the inbox gave up a frame during ES_Queue_Read.
THEOREM CommandsInOrder == Spec => HandledInOrder
<1> DEFINE InOrder ==
      \A f \in Frames :
        fate'[f] = "handled" /\ fate[f] # "handled" /\ "read" \notin hit
          => /\ fate[f] = "received"
             /\ \A g \in 1 .. f - 1 : fate[g] # "received"
<1>1. BaseInv /\ RingInv /\ [Next]_vars => InOrder
  <2> SUFFICES ASSUME BaseInv, RingInv, [Next]_vars, NEW f \in Frames,
                      fate'[f] = "handled", fate[f] # "handled",
                      "read" \notin hit
               PROVE  /\ fate[f] = "received"
                      /\ \A g \in 1 .. f - 1 : fate[g] # "received"
    OBVIOUS
  <2> USE DEF BaseInv
  <2>1. fate \in [Frames -> {"new", "received", "handled", "lost", "dropped"}]
    BY DEF TypeOK
  <2>2. ASSUME NEW n \in 1 .. FrameLen, vBT_ITF_DataReceived(n) PROVE FALSE
    <3>1. CASE Received
      BY <2>1, <3>1 DEF Received, PutIntoInbox, Lose
    <3>2. CASE NotReceived
      BY <2>1, <3>2 DEF NotReceived
    <3>3. QED BY <2>2, <3>1, <3>2, WriteOutcome
  <2>3. CASE LinkLost
    BY <2>1, <2>3 DEF LinkLost
  <2>4. CASE Main /\ ~ Handle
    <3>1. fate' = fate
      BY <2>4 DEF Main, StreamFrame, vBT_ITF_IdleTask, BeginRead, CopyFrame,
         PublishIndex, ClearInboxSignal, ProcessOutbox, StoreFlags, history
    <3>2. QED BY <3>1
  <2>5. CASE Handle
    <3>1. pc = "handle" /\ fate' = [fate EXCEPT ![frame] = "handled"]
      BY <2>5 DEF Handle
    <3>2. f = frame
      BY <2>1, <3>1
    <3>3. /\ fate[frame] = "received" /\ RingOfReceived /\ NoneForgotten
          /\ \A i \in Indices : InRing(i) => frame < slot[i]
      BY <3>1 DEF RingInv, HandlesOldest
    <3>4. ASSUME NEW g \in 1 .. f - 1, fate[g] = "received" PROVE FALSE
      <4>1. g \in Frames /\ g < f /\ f \in Nat /\ g \in Nat
        BY BtInterfaceAssumption DEF Frames
      <4>2. PICK i \in Indices : InRing(i) /\ slot[i] = g
        BY <3>2, <3>3, <3>4, <4>1 DEF NoneForgotten
      <4>3. f < g
        BY <3>2, <3>3, <4>2
      <4>4. QED BY <4>1, <4>3
    <3>5. QED BY <3>2, <3>3, <3>4
  <2>6. CASE UNCHANGED vars
    BY <2>6 DEF vars, history
  <2>7. QED BY <2>2, <2>3, <2>4, <2>5, <2>6 DEF Next
<1>2. BaseInv /\ RingInv /\ [Next]_vars => [InOrder]_vars
  BY <1>1
<1>3. QED BY <1>2, InitBase, InitRing, NextKeepsBase, NextKeepsRing, PTL
         DEF Spec, HandledInOrder

-----------------------------------------------------------------------------
\* A frame in the inbox keeps its signal through every update of the flags.
LEMMA NextKeepsSignal ==
  BaseInv /\ RingInv /\ SignalInv /\ [Next]_vars => SignalInv'
<1> SUFFICES ASSUME BaseInv, RingInv, SignalInv, [Next]_vars,
                    "flag" \notin hit', "read" \notin hit',
                    index_read' # index_write'
             PROVE  /\ "in" \in flags' /\ pc' # "clear"
                    /\ pc' \in {"storeIn", "storeOut"} => "in" \in loaded'
  BY DEF SignalInv
<1> USE DEF BaseInv
<1>1. ASSUME NEW n \in 1 .. FrameLen, vBT_ITF_DataReceived(n)
      PROVE  /\ "in" \in flags' /\ pc' # "clear"
             /\ pc' \in {"storeIn", "storeOut"} => "in" \in loaded'
  <2>1. UNCHANGED <<pc, loaded>>
    BY <1>1 DEF vBT_ITF_DataReceived, mainLocals
  <2>2. CASE NotReceived
    BY <2>1, <2>2 DEF NotReceived, inbox, SignalInv
  <2>3. CASE Received
    BY <2>1, <2>3 DEF Received, PutIntoInbox, WindowsHit
  <2>4. QED BY <1>1, <2>2, <2>3, WriteOutcome
<1>2. CASE LinkLost
  BY <1>2 DEF LinkLost, inbox, mainLocals, SignalInv
<1>3. CASE UNCHANGED vars
  BY <1>3 DEF vars, inbox, mainLocals, history, SignalInv
<1>4. CASE Main
  <2>1. UNCHANGED hit
    BY <1>4 DEF Main, StreamFrame, vBT_ITF_IdleTask, BeginRead, CopyFrame,
       PublishIndex, Handle, ClearInboxSignal, ProcessOutbox, StoreFlags,
       history
  <2>2. CASE PublishIndex
    <3>1. pc = "publish" /\ ReadsOldest /\ RingOfReceived
      BY <2>1, <2>2 DEF RingInv, PublishIndex
    <3>2. index_read # index_write /\ frame = slot[index_read]
      BY <3>1 DEF ReadsOldest
    <3>3. "in" \in flags
      BY <2>1, <3>2 DEF SignalInv
    <3>4. frame # NoFrame
      <4>1. index_read \in Indices /\ InRing(index_read)
        BY <3>2, OldestInRing
      <4>2. QED BY <3>1, <3>2, <4>1 DEF RingOfReceived, Frames, NoFrame
    <3>5. QED BY <2>2, <3>3, <3>4 DEF PublishIndex
  <2>3. CASE ~ PublishIndex
    <3>1. UNCHANGED <<index_read, index_write>>
      BY <1>4, <2>3 DEF Main, StreamFrame, vBT_ITF_IdleTask, BeginRead,
         CopyFrame, Handle, ClearInboxSignal, ProcessOutbox, StoreFlags, inbox
    <3>2. /\ "in" \in flags /\ pc # "clear"
          /\ pc \in {"storeIn", "storeOut"} => "in" \in loaded
      BY <2>1, <3>1 DEF SignalInv
    <3>3. CASE StreamFrame \/ Handle
      BY <3>2, <3>3 DEF StreamFrame, Handle, SendFrame, SetFlags
    <3>4. CASE vBT_ITF_IdleTask \/ BeginRead \/ CopyFrame
      BY <3>1, <3>2, <3>4 DEF vBT_ITF_IdleTask, BeginRead, CopyFrame, inbox
    <3>5. CASE ProcessOutbox
      BY <3>2, <3>5 DEF ProcessOutbox, ClearFlags
    <3>6. CASE StoreFlags
      BY <3>2, <3>6 DEF StoreFlags
    <3>7. CASE ClearInboxSignal
      BY <3>2, <3>7 DEF ClearInboxSignal
    <3>8. QED BY <1>4, <2>3, <3>3, <3>4, <3>5, <3>6, <3>7 DEF Main
  <2>4. QED BY <2>2, <2>3
<1>5. QED BY <1>1, <1>2, <1>3, <1>4 DEF Next

\* A frame in the inbox has its signal set, unless it came between the read that
\* found the inbox empty and the end of ClearFlags, or during the update of the
\* other signal.
THEOREM InboxIsSignalled == Spec => []InboxSignalled
<1>1. Init => SignalInv
  BY DEF Init, SignalInv
<1>2. SignalInv => InboxSignalled
  BY DEF SignalInv, InboxSignalled
<1>3. QED BY <1>1, <1>2, InitBase, InitRing, NextKeepsBase, NextKeepsRing,
             NextKeepsSignal, PTL DEF Spec

-----------------------------------------------------------------------------
\* A frame put into the outbox goes behind answers to older commands only.
LEMMA QueuedInOrder ==
  ASSUME TypeOK, AnswersInv, "read" \notin hit,
         NEW f \in Frames \union {Streamed},
         f # Streamed => AnsweredBefore(f),
         outbox' = Queued(f), UNCHANGED <<answered, hit, sending>>,
         \A g \in Frames : g >= sending \/ fate'[g] = "received"
           => f < g /\ (g >= sending \/ fate[g] = "received")
  PROVE  AnswersInv'
<1> DEFINE n == Len(Queued(f))
           old(k) == IF Len(outbox) = Depth THEN k + 1 ELSE k
<1>1. /\ \A g \in Frames : g >= sending \/ fate[g] = "received"
                             => AnsweredBefore(g)
      /\ \A j, k \in 1 .. Len(answered) : j < k => answered[j] < answered[k]
      /\ \A j \in 1 .. Len(answered), k \in 1 .. Len(outbox) :
           outbox[k] # Streamed => answered[j] < outbox[k]
      /\ \A j, k \in 1 .. Len(outbox) :
           j < k /\ outbox[k] # Streamed => outbox[j] < outbox[k]
  BY DEF AnswersInv
<1>2. /\ n \in Nat /\ 0 < n /\ outbox'[n] = f /\ Len(outbox') = n
      /\ \A k \in 1 .. n - 1 : outbox'[k] = outbox[old(k)]
      /\ n = IF Len(outbox) = Depth THEN Depth ELSE Len(outbox) + 1
      /\ Len(outbox) \in Nat
  BY QueuedFrames DEF TypeOK
<1>3. \A k \in 1 .. n - 1 : old(k) \in 1 .. Len(outbox)
  BY <1>2
<1>4. \A k \in 1 .. n : k = n \/ k \in 1 .. n - 1
  BY <1>2
<1>5. answered' = answered /\ "read" \notin hit'
  OBVIOUS
<1> HIDE DEF n
<1>6. ASSUME NEW g \in Frames, g >= sending' \/ fate'[g] = "received"
      PROVE  AnsweredBefore(g)'
  <2>1. f < g /\ AnsweredBefore(g)
    BY <1>1, <1>6
  <2>2. ASSUME NEW k \in 1 .. n PROVE outbox'[k] < g
    <3>1. CASE k = n
      BY <1>2, <2>1, <3>1
    <3>2. CASE k \in 1 .. n - 1
      BY <1>2, <1>3, <2>1, <3>2 DEF AnsweredBefore
    <3>3. QED BY <1>4, <3>1, <3>2
  <2>3. QED BY <1>2, <1>5, <2>1, <2>2 DEF AnsweredBefore
<1>7. ASSUME NEW j \in 1 .. Len(answered), NEW k \in 1 .. n,
             outbox'[k] # Streamed
      PROVE  answered[j] < outbox'[k]
  <2>1. CASE k = n
    BY <1>2, <1>7, <2>1 DEF AnsweredBefore
  <2>2. CASE k \in 1 .. n - 1
    BY <1>1, <1>2, <1>3, <1>7, <2>2
  <2>3. QED BY <1>4, <2>1, <2>2
<1>8. ASSUME NEW j \in 1 .. n, NEW k \in 1 .. n, j < k, outbox'[k] # Streamed
      PROVE  outbox'[j] < outbox'[k]
  <2>1. j \in 1 .. n - 1 /\ outbox'[j] = outbox[old(j)]
    BY <1>2, <1>8
  <2>2. CASE k = n
    BY <1>2, <1>3, <1>8, <2>1, <2>2 DEF AnsweredBefore
  <2>3. CASE k \in 1 .. n - 1
    <3>1. outbox'[k] = outbox[old(k)] /\ old(j) < old(k)
      BY <1>2, <1>8, <2>3
    <3>2. QED BY <1>1, <1>3, <1>8, <2>1, <2>3, <3>1
  <2>4. QED BY <1>4, <2>2, <2>3
<1>9. QED BY <1>1, <1>2, <1>5, <1>6, <1>7, <1>8 DEF AnswersInv

\* A frame passed on leaves the outbox at its oldest end.
LEMMA PassedOnInOrder ==
  ASSUME TypeOK, AnswersInv, outbox # <<>>, outbox' = Tail(outbox),
         answered' = IF Head(outbox) = Streamed THEN answered
                     ELSE Append(answered, Head(outbox)),
         UNCHANGED <<fate, hit, sending>>
  PROVE  AnswersInv'
<1> SUFFICES ASSUME "read" \notin hit
             PROVE  AnswersInv'
  BY DEF AnswersInv
<1> DEFINE S == Frames \union {Streamed}
           m == Len(answered)
<1>1. /\ \A g \in Frames : g >= sending \/ fate[g] = "received"
                             => AnsweredBefore(g)
      /\ \A j, k \in 1 .. m : j < k => answered[j] < answered[k]
      /\ \A j \in 1 .. m, k \in 1 .. Len(outbox) :
           outbox[k] # Streamed => answered[j] < outbox[k]
      /\ \A j, k \in 1 .. Len(outbox) :
           j < k /\ outbox[k] # Streamed => outbox[j] < outbox[k]
  BY DEF AnswersInv
<1>2. outbox \in Seq(S) /\ answered \in Seq(Frames) /\ m \in Nat
      /\ Len(outbox) \in Nat
  BY DEF TypeOK
<1>3. Head(outbox) = outbox[1] /\ outbox[1] \in S /\ 1 \in 1 .. Len(outbox)
  BY <1>2
<1>4. /\ Len(outbox') = Len(outbox) - 1
      /\ \A k \in 1 .. Len(outbox') : outbox'[k] = outbox[k + 1]
  BY <1>2, HeadTailProperties
<1>5. \A k \in 1 .. Len(outbox') : k + 1 \in 1 .. Len(outbox) /\ 1 < k + 1
  BY <1>2, <1>4
<1>6. \/ answered' = answered
      \/ /\ outbox[1] # Streamed /\ Len(answered') = m + 1
         /\ answered'[m + 1] = outbox[1]
         /\ \A k \in 1 .. m : answered'[k] = answered[k]
  <2>1. CASE outbox[1] = Streamed
    BY <1>3, <2>1
  <2>2. CASE outbox[1] # Streamed
    <3>1. outbox[1] \in Frames
      BY <1>3, <2>2
    <3>2. answered' = Append(answered, outbox[1])
      BY <1>3, <2>2
    <3>3. QED BY <1>2, <2>2, <3>1, <3>2, AppendProperties
  <2>3. QED BY <2>1, <2>2
<1> HIDE DEF S, m
\* An answer that was sent is an old one, or the oldest of the outbox.
<1>7. \A j \in 1 .. Len(answered') :
        \/ j \in 1 .. m /\ answered'[j] = answered[j]
        \/ /\ j = m + 1 /\ answered'[j] = outbox[1] /\ outbox[1] # Streamed
  BY <1>2, <1>6 DEF m
<1>8. ASSUME NEW g \in Frames, g >= sending' \/ fate'[g] = "received"
      PROVE  AnsweredBefore(g)'
  <2>1. AnsweredBefore(g)
    BY <1>1, <1>8
  <2>2. \A j \in 1 .. Len(answered') : answered'[j] < g
    BY <1>3, <1>7, <2>1 DEF AnsweredBefore, m
  <2>3. \A k \in 1 .. Len(outbox') : outbox'[k] < g
    BY <1>4, <1>5, <2>1 DEF AnsweredBefore
  <2>4. QED BY <2>2, <2>3 DEF AnsweredBefore
<1>9. ASSUME NEW j \in 1 .. Len(answered'), NEW k \in 1 .. Len(answered'), j < k
      PROVE  answered'[j] < answered'[k]
  <2>1. j \in 1 .. m /\ answered'[j] = answered[j]
    BY <1>2, <1>7, <1>9
  <2>2. CASE k \in 1 .. m /\ answered'[k] = answered[k]
    BY <1>1, <1>9, <2>1, <2>2
  <2>3. CASE answered'[k] = outbox[1] /\ outbox[1] # Streamed
    BY <1>1, <1>3, <2>1, <2>3
  <2>4. QED BY <1>7, <2>2, <2>3
<1>10. ASSUME NEW j \in 1 .. Len(answered'), NEW k \in 1 .. Len(outbox'),
              outbox'[k] # Streamed
       PROVE  answered'[j] < outbox'[k]
  <2>1. /\ outbox'[k] = outbox[k + 1] /\ k + 1 \in 1 .. Len(outbox)
        /\ 1 < k + 1
    BY <1>4, <1>5
  <2>2. CASE j \in 1 .. m /\ answered'[j] = answered[j]
    BY <1>1, <1>10, <2>1, <2>2
  <2>3. CASE answered'[j] = outbox[1]
    BY <1>1, <1>3, <1>10, <2>1, <2>3
  <2>4. QED BY <1>7, <2>2, <2>3
<1>11. ASSUME NEW j \in 1 .. Len(outbox'), NEW k \in 1 .. Len(outbox'),
              j < k, outbox'[k] # Streamed
       PROVE  outbox'[j] < outbox'[k]
  <2>1. j + 1 < k + 1
    BY <1>11
  <2>2. QED BY <1>1, <1>4, <1>5, <1>11, <2>1
<1>12. QED BY <1>8, <1>9, <1>10, <1>11 DEF AnswersInv

\* A step keeps the answers in the order of their commands.
LEMMA NextKeepsAnswers ==
  BaseInv /\ RingInv /\ AnswersInv /\ [Next]_vars => AnswersInv'
<1> SUFFICES ASSUME BaseInv, RingInv, AnswersInv, [Next]_vars
             PROVE  AnswersInv'
  OBVIOUS
<1> USE DEF BaseInv
<1>1. sending \in Nat /\ fate \in
        [Frames -> {"new", "received", "handled", "lost", "dropped"}]
  BY DEF TypeOK
\* The interrupt side sends no answer, and receives new frames only.
<1>2. ASSUME UNCHANGED <<outbox, answered>>, "read" \in hit => "read" \in hit',
             sending' \in Nat, sending' >= sending,
             \A g \in Frames : fate'[g] = "received" =>
               fate[g] = "received" \/ g >= sending
      PROVE  AnswersInv'
  <2> SUFFICES ASSUME "read" \notin hit' PROVE AnswersInv'
    BY DEF AnswersInv
  <2>1. \A g \in Frames : AnsweredBefore(g)' <=> AnsweredBefore(g)
    BY <1>2 DEF AnsweredBefore
  <2>2. \A g \in Frames : g >= sending' \/ fate'[g] = "received"
                             => g >= sending \/ fate[g] = "received"
    BY <1>1, <1>2 DEF Frames
  <2>3. QED BY <1>2, <2>1, <2>2 DEF AnswersInv
<1>3. ASSUME NEW n \in 1 .. FrameLen, vBT_ITF_DataReceived(n)
      PROVE  AnswersInv'
  <2>1. UNCHANGED <<outbox, answered>>
    BY <1>3 DEF vBT_ITF_DataReceived
  <2>2. CASE Received
    <3>1. \A g \in Frames : fate'[g] = "received" =>
            fate[g] = "received" \/ g = sending
      BY <1>1, <2>2 DEF Received, PutIntoInbox, Lose
    <3>2. QED BY <1>1, <1>2, <2>1, <2>2, <3>1 DEF Received, PutIntoInbox
  <2>3. CASE NotReceived
    <3>1. \A g \in Frames : fate'[g] = "received" => fate[g] = "received"
      BY <1>1, <2>3 DEF NotReceived
    <3>2. QED BY <1>1, <1>2, <2>1, <2>3, <3>1 DEF NotReceived
  <2>4. QED BY <1>3, <2>2, <2>3, WriteOutcome
<1>4. CASE LinkLost
  <2>1. \A g \in Frames : fate'[g] = "received" => fate[g] = "received"
    BY <1>1, <1>4 DEF LinkLost
  <2>2. QED BY <1>1, <1>2, <1>4, <2>1 DEF LinkLost
<1>5. CASE UNCHANGED vars
  BY <1>1, <1>2, <1>5 DEF vars, phone, history
<1>6. CASE Main
  <2>1. UNCHANGED <<sending, hit>>
    BY <1>6 DEF Main, StreamFrame, vBT_ITF_IdleTask, BeginRead, CopyFrame,
       PublishIndex, Handle, ClearInboxSignal, ProcessOutbox, StoreFlags,
       phone, history
  <2>2. CASE "read" \in hit
    BY <2>1, <2>2 DEF AnswersInv
  <2>3. CASE "read" \notin hit /\ StreamFrame
    <3>1. outbox' = Queued(Streamed) /\ UNCHANGED <<fate, answered>>
      BY <2>3 DEF StreamFrame, SendFrame, history
    <3>2. \A g \in Frames : Streamed < g
      BY DEF Frames, Streamed
    <3>3. QED BY <2>1, <2>3, <3>1, <3>2, QueuedInOrder
  <2>4. CASE "read" \notin hit /\ Handle
    <3>1. /\ fate' = [fate EXCEPT ![frame] = "handled"]
          /\ UNCHANGED answered /\ pc = "handle"
          /\ outbox' = Queued(frame) \/ outbox' = outbox
      BY <2>4 DEF Handle, SendFrame
    <3>2. /\ frame \in Frames /\ fate[frame] = "received" /\ frame < sending
          /\ \A i \in Indices : InRing(i) => frame < slot[i]
          /\ NoneForgotten
      BY <2>4, <3>1 DEF RingInv, HandlesOldest
    <3>3. AnsweredBefore(frame)
      BY <2>4, <3>2 DEF AnswersInv
    <3>4. ASSUME NEW g \in Frames, g >= sending \/ fate'[g] = "received"
          PROVE  frame < g /\ (g >= sending \/ fate[g] = "received")
      <4>1. CASE g >= sending
        BY <1>1, <3>2, <4>1 DEF Frames
      <4>2. CASE fate'[g] = "received"
        <5>1. g # frame /\ fate[g] = "received"
          BY <1>1, <3>1, <4>2
        <5>2. QED BY <3>2, <5>1 DEF NoneForgotten
      <4>3. QED BY <3>4, <4>1, <4>2
    <3>5. CASE outbox' = Queued(frame)
      BY <2>1, <2>4, <3>1, <3>2, <3>3, <3>4, <3>5, QueuedInOrder
    <3>6. CASE outbox' = outbox
      BY <1>1, <1>2, <2>1, <3>1, <3>4, <3>6
    <3>7. QED BY <3>1, <3>5, <3>6
  <2>5. CASE ProcessOutbox
    <3>1. \/ UNCHANGED <<outbox, answered>>
          \/ /\ outbox # <<>> /\ outbox' = Tail(outbox)
             /\ answered' = IF Head(outbox) = Streamed THEN answered
                            ELSE Append(answered, Head(outbox))
      BY <2>5 DEF ProcessOutbox
    <3>2. UNCHANGED fate
      BY <2>5 DEF ProcessOutbox
    <3>3. QED BY <1>1, <1>2, <2>1, <3>1, <3>2, PassedOnInOrder
  <2>6. CASE ~ (StreamFrame \/ Handle \/ ProcessOutbox)
    <3>1. UNCHANGED <<outbox, answered, fate>>
      BY <1>6, <2>6 DEF Main, vBT_ITF_IdleTask, BeginRead, CopyFrame,
         PublishIndex, ClearInboxSignal, StoreFlags, history
    <3>2. QED BY <1>1, <1>2, <2>1, <3>1
  <2>7. QED BY <2>2, <2>3, <2>4, <2>5, <2>6
<1>7. QED BY <1>3, <1>4, <1>5, <1>6 DEF Next

\* The answers leave in the order of the commands, none of them twice, whatever
\* the streamed frames push out of the outbox, unless the inbox gave up a frame
\* during ES_Queue_Read.
THEOREM AnswersLeaveInOrder == Spec => []AnswersInOrder
<1>1. Init => AnswersInv
  BY DEF Init, AnswersInv, AnsweredBefore
<1>2. AnswersInv => AnswersInOrder
  BY DEF AnswersInv, AnswersInOrder
<1>3. QED BY <1>1, <1>2, InitBase, InitRing, NextKeepsBase, NextKeepsRing,
             NextKeepsAnswers, PTL DEF Spec

=============================================================================
