------------------------------ MODULE ESQueue -------------------------------
(***************************************************************************)
(* Libraries/ES_Queue.c: a ring of bytes holding frames, each one behind   *)
(* its two length bytes (least significant first).  A write that catches   *)
(* up with the read index gives up the oldest frame and goes on.           *)
(*                                                                         *)
(* One step is one turn of a loop of the code, so that a frame is written, *)
(* given up or read byte by byte; the published indices change when an     *)
(* operation ends.  No client here preempts another in the middle of an    *)
(* operation: BleUartTx and BtInterface model the queues whose two ends    *)
(* are in different execution contexts.                                    *)
(*                                                                         *)
(* overlap_counter is not modelled: nothing in the firmware reads it.      *)
(***************************************************************************)
EXTENDS Integers, Sequences

CONSTANTS Size,       \* queue->buffer->size
          Frames,     \* the byte sequences the clients queue
          MaxWrites   \* bound of the model: the writes in one behaviour

Byte == 0 .. 255
Uint16 == 0 .. 65535
Slots == 0 .. Size - 1
LengthBytes == 2

Cost(frame) == LengthBytes + Len(frame)

\* Every user of the queue gives it a buffer larger than any of its frames
\* (4 * 254, 4 * 255 bytes for frames of 254, 255), of a uint16_t size.
ASSUME QueueAssumption ==
  /\ Size \in Nat /\ Size > 3 /\ Size < 65536
  /\ MaxWrites \in Nat
  /\ Frames \subseteq Seq(Byte)
  /\ \A frame \in Frames : Len(frame) > 0 /\ Cost(frame) < Size

VARIABLES
  buffer,             \* queue->buffer->data
  index_write, index_read, element_counter,
  pc,                 \* where the current operation is
  write,              \* index_write_, the local copy of a write
  read,               \* index_read_, the local copy of a write or a read
  frame,              \* the frame being written
  done,               \* how many bytes of it are in the ring
  frame_len,          \* bytes left to copy out or to skip
  out,                \* what the read in progress has copied out
  result,             \* the frame the last read returned, <<>> if none
  \* History, read by no action of the code:
  log,                \* every frame written
  oldest,             \* position in log of the oldest frame still held
  owner, offset       \* which frame (0: none), and which byte of it, is where

vars == <<buffer, index_write, index_read, element_counter, pc, write, read,
          frame, done, frame_len, out, result, log, oldest, owner, offset>>

ring == <<buffer, index_write, index_read, element_counter>>
history == <<log, oldest, owner, offset>>

-----------------------------------------------------------------------------
\* Operators whose comment begins with "Mutant" are wrong on purpose: with
\* one of them in place of the definition that follows, a property is violated.

\* ES_Queue_Next
Succ(i) == IF i + 1 < Size THEN i + 1 ELSE 0

\* Mutant of LengthAt: the length bytes are read in the other order.
LengthAtSwapped(i) == 256 * buffer[i] + buffer[Succ(i)]

\* The length stored in the two bytes at i.
LengthAt(i) == buffer[i] + 256 * buffer[Succ(i)]

\* Byte k of frame f as it goes into the ring, length bytes first.
ByteOf(f, k) == CASE k = 0 -> Len(f) % 256
                  [] k = 1 -> Len(f) \div 256
                  [] OTHER -> f[k - 1]

Writing == pc \in {"put", "overlap", "giveup"}

\* The slots s are no longer those of a frame in the queue.
Release(s) == owner' = [i \in Slots |-> IF i \in s THEN 0 ELSE owner[i]]

-----------------------------------------------------------------------------
Init ==
  /\ buffer = [i \in Slots |-> 0]
  /\ index_write = 0 /\ index_read = 0 /\ element_counter = 0
  /\ pc = "idle"
  /\ write = 0 /\ read = 0
  /\ frame = <<>> /\ done = 0
  /\ frame_len = 0 /\ out = <<>> /\ result = <<>>
  /\ log = <<>> /\ oldest = 1
  /\ owner = [i \in Slots |-> 0]
  /\ offset = [i \in Slots |-> 0]

(***************************************************************************)
(* ES_Queue_Write.                                                         *)
(***************************************************************************)
WriteBegin(f) ==
  /\ pc = "idle"
  /\ Len(log) < MaxWrites
  /\ Len(f) > 0
  /\ pc' = "put"
  /\ write' = index_write
  /\ read' = index_read
  /\ frame' = f
  /\ done' = 0
  /\ UNCHANGED <<ring, frame_len, out, result, history>>

\* Mutant of PutByte: ES_Queue_PreventOverlap is never called.
PutByteUnchecked ==
  /\ pc = "put"
  /\ done < Cost(frame)
  /\ buffer' = [buffer EXCEPT ![write] = ByteOf(frame, done)]
  /\ owner' = [owner EXCEPT ![write] = Len(log) + 1]
  /\ offset' = [offset EXCEPT ![write] = done]
  /\ write' = Succ(write)
  /\ done' = done + 1
  /\ UNCHANGED <<index_write, index_read, element_counter, pc, read, frame,
                 frame_len, out, result, log, oldest>>

\* One byte; ES_Queue_PreventOverlap starts when the indices meet.
PutByte ==
  /\ pc = "put"
  /\ done < Cost(frame)
  /\ buffer' = [buffer EXCEPT ![write] = ByteOf(frame, done)]
  /\ owner' = [owner EXCEPT ![write] = Len(log) + 1]
  /\ offset' = [offset EXCEPT ![write] = done]
  /\ write' = Succ(write)
  /\ done' = done + 1
  /\ pc' = IF Succ(write) = read THEN "overlap" ELSE "put"
  /\ UNCHANGED <<index_write, index_read, element_counter, read, frame,
                 frame_len, out, result, log, oldest>>

\* The length bytes of the oldest frame say how far the next one is.
OverlapLength ==
  /\ pc = "overlap"
  /\ frame_len' = LengthAt(read)
  /\ read' = Succ(Succ(read))
  /\ pc' = "giveup"
  /\ Release({read, Succ(read)})
  /\ UNCHANGED <<ring, write, frame, done, out, result, log, oldest,
                 offset>>

SkipByte ==
  /\ pc = "giveup"
  /\ frame_len > 0
  /\ read' = Succ(read)
  /\ frame_len' = frame_len - 1
  /\ Release({read})
  /\ UNCHANGED <<ring, pc, write, frame, done, out, result, log, oldest,
                 offset>>

GiveUpEnd ==
  /\ pc = "giveup"
  /\ frame_len = 0
  /\ element_counter' = (element_counter - 1) % 65536
  /\ oldest' = oldest + 1
  /\ pc' = "put"
  /\ UNCHANGED <<buffer, index_write, index_read, write, read, frame, done,
                 frame_len, out, result, log, owner, offset>>

\* Mutant of WriteEnd: the index moved by ES_Queue_PreventOverlap is not stored.
WriteEndKeepsRead ==
  /\ pc = "put"
  /\ done = Cost(frame)
  /\ index_write' = write
  /\ element_counter' = (element_counter + 1) % 65536
  /\ log' = Append(log, frame)
  /\ pc' = "idle"
  /\ UNCHANGED <<buffer, index_read, write, read, frame, done, frame_len, out,
                 result, oldest, owner, offset>>

WriteEnd ==
  /\ pc = "put"
  /\ done = Cost(frame)
  /\ index_write' = write
  /\ index_read' = read
  /\ element_counter' = (element_counter + 1) % 65536
  /\ log' = Append(log, frame)
  /\ pc' = "idle"
  /\ UNCHANGED <<buffer, write, read, frame, done, frame_len, out, result,
                 oldest, owner, offset>>

(***************************************************************************)
(* ES_Queue_Read.                                                          *)
(***************************************************************************)
ReadBegin ==
  /\ pc = "idle"
  /\ index_read # index_write
  /\ frame_len' = LengthAt(index_read)
  /\ read' = Succ(Succ(index_read))
  /\ out' = <<>>
  /\ pc' = "get"
  /\ Release({index_read, Succ(index_read)})
  /\ UNCHANGED <<ring, write, frame, done, result, log, oldest, offset>>

GetByte ==
  /\ pc = "get"
  /\ frame_len > 0
  /\ out' = Append(out, buffer[read])
  /\ read' = Succ(read)
  /\ frame_len' = frame_len - 1
  /\ Release({read})
  /\ UNCHANGED <<ring, pc, write, frame, done, result, log, oldest, offset>>

ReadEnd ==
  /\ pc = "get"
  /\ frame_len = 0
  /\ index_read' = read
  /\ element_counter' = (element_counter - 1) % 65536
  /\ oldest' = oldest + 1
  /\ result' = out
  /\ pc' = "idle"
  /\ UNCHANGED <<buffer, index_write, write, read, frame, done, frame_len, out,
                 log, owner, offset>>

\* Nothing to read: a length of 0.
ReadEmpty ==
  /\ pc = "idle"
  /\ index_read = index_write
  /\ result' = <<>>
  /\ UNCHANGED <<ring, pc, write, read, frame, done, frame_len, out, history>>

(***************************************************************************)
(* ES_Queue_ClearAll.                                                      *)
(***************************************************************************)
\* Mutant of ClearAll: the read index is left where it was.
ClearAllKeepsRead ==
  /\ pc = "idle"
  /\ buffer' = [i \in Slots |-> 0]
  /\ index_write' = 0 /\ element_counter' = 0
  /\ oldest' = Len(log) + 1
  /\ Release(Slots)
  /\ UNCHANGED <<index_read, pc, write, read, frame, done, frame_len, out,
                 result, log, offset>>

ClearAll ==
  /\ pc = "idle"
  /\ buffer' = [i \in Slots |-> 0]
  /\ index_write' = 0 /\ index_read' = 0 /\ element_counter' = 0
  /\ oldest' = Len(log) + 1
  /\ Release(Slots)
  /\ UNCHANGED <<pc, write, read, frame, done, frame_len, out, result, log,
                 offset>>

Next ==
  \/ \E f \in Frames : WriteBegin(f)
  \/ PutByte
  \/ OverlapLength
  \/ SkipByte
  \/ GiveUpEnd
  \/ WriteEnd
  \/ ReadBegin
  \/ GetByte
  \/ ReadEnd
  \/ ReadEmpty
  \/ ClearAll

Spec == Init /\ [][Next]_vars

-----------------------------------------------------------------------------
(***************************************************************************)
(* Properties.                                                             *)
(***************************************************************************)
\* The frames in the ring, oldest first.
Held == SubSeq(log, oldest, Len(log))

\* The index from which the next read starts, and the one a write is at.
ReadIndex == IF pc = "idle" THEN index_read ELSE read
WriteIndex == IF Writing THEN write ELSE index_write

\* Frame number id, the one being written included.
FrameOf(id) == IF id <= Len(log) THEN log[id] ELSE frame

\* n slots after slot i, for n below the size of the ring.
Ahead(i, n) == IF i + n < Size THEN i + n ELSE i + n - Size

\* Every variable stays in its type: above all, no index ever leaves the
\* buffer (ES_Queue_Next wraps each of them).
TypeOK ==
  /\ buffer \in [Slots -> Byte]
  /\ index_write \in Slots /\ index_read \in Slots
  /\ element_counter \in Uint16
  /\ pc \in {"idle", "put", "overlap", "giveup", "get"}
  /\ write \in Slots /\ read \in Slots
  /\ frame \in Seq(Byte) /\ done \in Nat
  /\ frame_len \in Nat
  /\ out \in Seq(Byte) /\ result \in Seq(Byte)
  /\ log \in Seq(Seq(Byte)) /\ oldest \in Nat
  /\ owner \in [Slots -> Nat] /\ offset \in [Slots -> Nat]

\* Once ES_Queue_PreventOverlap is through, the slot a write fills next belongs
\* to no frame, and outside writes the one at index_write is free: equal
\* indices always mean "empty", never "full".
WriteSlotFree == pc # "overlap" => owner[WriteIndex] = 0

\* A read copies out the oldest frame: its length is the one that was written
\* (a caller's buffer as long as the longest frame is never overrun) and so is
\* every byte copied so far.
ReadsOldest ==
  pc = "get" =>
    /\ oldest <= Len(log)
    /\ Len(out) + frame_len = Len(log[oldest])
    /\ \A j \in 1 .. Len(out) : out[j] = log[oldest][j]

\* element_counter is the number of frames between the two indices whenever
\* no operation is running, and it is 0 exactly when the indices are equal.
CounterExact ==
  pc = "idle" =>
    /\ element_counter = Len(log) + 1 - oldest
    /\ (element_counter = 0) <=> (index_read = index_write)

=============================================================================
