--------------------------- MODULE ESQueue_proofs ---------------------------
(***************************************************************************)
(* The ring of ES_Queue keeps its frames intact, for every size of the     *)
(* buffer and every set of frames shorter than it.                         *)
(*                                                                         *)
(* BytesIntact and WriteSlotFree are not inductive: what the slots from    *)
(* the read index on hold, and that the next slot is free when the indices *)
(* differ, follow only from the way the slots of the frames are chained.   *)
(* RingInv says how: every byte's successor is the next byte of its frame  *)
(* or the first of the next frame, up to the write index, and every byte   *)
(* but the one at the read index has a predecessor.  BytesIntact itself    *)
(* speaks of the contents only, not of the history owner and offset that   *)
(* the chain is stated with: walking along the chain from the read index   *)
(* proves it.                                                              *)
(*                                                                         *)
(* The second half accounts for the space: how many slots there are        *)
(* between the indices in each place of each operation (SpaceInv).  That   *)
(* the counter is exact follows, and that the ring is a DropOldestFifo.    *)
(***************************************************************************)
EXTENDS ESQueueFifo, SequenceTheorems, WellFoundedInduction, TLAPS

InRing(i) == owner[i] # 0

New == Len(log) + 1

LogInv ==
  /\ log \in Seq(Frames)
  /\ oldest \in 1 .. New
  /\ Writing => /\ frame \in Frames
                /\ done \in 0 .. Cost(frame)

\* Each byte is where the history says, and no two slots hold the same one.
OwnedInv ==
  \A i \in Slots : InRing(i) =>
    /\ owner[i] \in oldest .. New
    /\ owner[i] = New => Writing /\ offset[i] < done
    /\ offset[i] < Cost(FrameOf(owner[i]))
    /\ buffer[i] = ByteOf(FrameOf(owner[i]), offset[i])

DistinctInv ==
  \A i, j \in Slots :
    InRing(i) /\ owner[i] = owner[j] /\ offset[i] = offset[j] => i = j

\* The chain of the bytes of the frames, forwards ...
Linked(i) ==
  /\ owner[i] = New /\ offset[i] + 1 < done
       => owner[Succ(i)] = New /\ offset[Succ(i)] = offset[i] + 1
  /\ owner[i] = New /\ offset[i] + 1 = done
       => Succ(i) = write
  /\ owner[i] < New /\ offset[i] + 1 < Cost(log[owner[i]])
       => owner[Succ(i)] = owner[i] /\ offset[Succ(i)] = offset[i] + 1
  /\ owner[i] < New - 1 /\ offset[i] + 1 = Cost(log[owner[i]])
       => owner[Succ(i)] = owner[i] + 1 /\ offset[Succ(i)] = 0
  /\ owner[i] = New - 1 /\ offset[i] + 1 = Cost(log[owner[i]])
       => Succ(i) = index_write

LinkedInv == \A i \in Slots : InRing(i) => Linked(i)

\* ... and backwards.
BackInv ==
  \A i \in Slots :
    /\ InRing(Succ(i)) /\ Succ(i) # ReadIndex => InRing(i)
    /\ Succ(i) = WriteIndex
         => InRing(i) \/ (WriteIndex = ReadIndex /\ pc # "overlap")

\* Where a write is.
WriteInv ==
  /\ pc # "overlap" => owner[WriteIndex] = 0
  /\ Writing =>
       /\ write = Ahead(index_write, done)
       /\ done > 0 => owner[index_write] = New /\ offset[index_write] = 0

\* Where the next read, the read or the overlap in progress is.
ReadInv ==
  /\ pc \in {"idle", "put", "overlap"} =>
       IF oldest < New
       THEN owner[ReadIndex] = oldest /\ offset[ReadIndex] = 0
       ELSE ReadIndex = index_write
  /\ pc = "overlap" => oldest < New /\ read = write /\ done > 0
  /\ pc = "giveup" => done > 0
  /\ pc \in {"giveup", "get"} =>
       /\ oldest < New
       /\ frame_len <= Len(log[oldest])
       /\ IF frame_len > 0
          THEN /\ owner[read] = oldest
               /\ offset[read] = Cost(log[oldest]) - frame_len
          ELSE IF oldest < New - 1
               THEN owner[read] = oldest + 1 /\ offset[read] = 0
               ELSE read = index_write
       /\ \A i \in Slots :
            owner[i] = oldest => offset[i] >= Cost(log[oldest]) - frame_len

\* The inductive invariant of the ring.
RingInv ==
  /\ TypeOK
  /\ LogInv
  /\ OwnedInv
  /\ DistinctInv
  /\ LinkedInv
  /\ BackInv
  /\ WriteInv
  /\ ReadInv
  /\ ReadsOldest

-----------------------------------------------------------------------------
(***************************************************************************)
(* Facts about the operators.                                              *)
(***************************************************************************)
\* Any frame fits the buffer.
LEMMA FrameFits ==
  ASSUME NEW f \in Frames
  PROVE  /\ f \in Seq(Byte) /\ Len(f) \in Nat /\ Len(f) > 0
         /\ Cost(f) = Len(f) + 2 /\ Cost(f) < Size
         /\ Len(f) < 65536
BY QueueAssumption DEF Cost, LengthBytes

\* ES_Queue_Next stays in the buffer and never stands still or merges.
LEMMA SuccFacts ==
  /\ \A i \in Slots : Succ(i) \in Slots /\ Succ(i) # i /\ Succ(Succ(i)) # i
  /\ \A i, j \in Slots : Succ(i) = Succ(j) => i = j
BY QueueAssumption DEF Succ, Slots

\* Advancing slot by slot.
LEMMA AheadFacts ==
  ASSUME NEW i \in Slots, NEW n \in Nat, n + 1 < Size
  PROVE  /\ Ahead(i, n) \in Slots
         /\ Ahead(i, 0) = i
         /\ Ahead(i, n + 1) = Succ(Ahead(i, n))
         /\ Ahead(i, n + 1) # i
BY QueueAssumption DEF Ahead, Succ, Slots

\* element_counter stays in its width.
LEMMA CounterFacts ==
  \A n \in Uint16 : (n + 1) % 65536 \in Uint16 /\ (n - 1) % 65536 \in Uint16
<1>1. \A n \in Int : n % 65536 \in Uint16
  BY SMTT(30) DEF Uint16
<1>2. \A n \in Uint16 : n + 1 \in Int /\ n - 1 \in Int
  BY SMTT(30) DEF Uint16
<1>3. QED BY <1>1, <1>2

\* A length splits into two bytes.
LEMMA TwoBytes ==
  \A n \in Nat : n < 65536 =>
    /\ n % 256 \in Byte /\ n \div 256 \in Byte
    /\ (n % 256) + 256 * (n \div 256) = n
BY DEF Byte

\* What goes into the ring is bytes, and the two length bytes read back as the
\* length.
LEMMA ByteFacts ==
  ASSUME NEW f \in Frames
  PROVE  /\ \A k \in 0 .. Cost(f) - 1 : ByteOf(f, k) \in Byte
         /\ ByteOf(f, 0) + 256 * ByteOf(f, 1) = Len(f)
         /\ \A k \in 1 .. Len(f) : ByteOf(f, k + 1) = f[k]
<1>1. /\ f \in Seq(Byte) /\ Len(f) \in Nat /\ Len(f) < 65536
      /\ Cost(f) = Len(f) + 2
  BY FrameFits
<1>2. ByteOf(f, 0) = Len(f) % 256 /\ ByteOf(f, 1) = Len(f) \div 256
  BY DEF ByteOf
<1>3. \A k \in 1 .. Len(f) : ByteOf(f, k + 1) = f[k] /\ f[k] \in Byte
  BY <1>1 DEF ByteOf
<1>4. Len(f) % 256 \in Byte /\ Len(f) \div 256 \in Byte
      /\ (Len(f) % 256) + 256 * (Len(f) \div 256) = Len(f)
  <2> DEFINE n == Len(f)
  <2>1. n \in Nat /\ n < 65536
    BY <1>1
  <2> HIDE DEF n
  <2>2. /\ n % 256 \in Byte /\ n \div 256 \in Byte
        /\ (n % 256) + 256 * (n \div 256) = n
    BY <2>1, TwoBytes
  <2> QED BY <2>2 DEF n
<1>5. ASSUME NEW k \in 0 .. Cost(f) - 1 PROVE ByteOf(f, k) \in Byte
  <2>1. CASE k = 0 BY <2>1, <1>2, <1>4
  <2>2. CASE k = 1 BY <2>2, <1>2, <1>4
  <2>3. CASE k > 1
    <3>1. k - 1 \in 1 .. Len(f) /\ k = (k - 1) + 1
      BY <2>3, <1>1
    <3>2. QED BY <3>1, <1>3
  <2>4. QED BY <2>1, <2>2, <2>3, <1>1
<1>6. QED BY <1>2, <1>3, <1>4, <1>5

-----------------------------------------------------------------------------
(***************************************************************************)
(* Facts about states and steps used for several actions.                  *)
(***************************************************************************)
\* The types the steps below rest on.
LEMMA Types ==
  ASSUME TypeOK, LogInv
  PROVE  /\ New \in Nat /\ oldest \in Nat /\ oldest > 0 /\ oldest <= New
         /\ \A i \in Slots : owner[i] \in Nat /\ offset[i] \in Nat
         /\ done \in Nat /\ frame_len \in Nat
         /\ write \in Slots /\ read \in Slots
         /\ index_write \in Slots /\ index_read \in Slots
         /\ ReadIndex \in Slots /\ WriteIndex \in Slots
<1>1. New \in Nat /\ oldest \in Nat /\ oldest > 0 /\ oldest <= New
  BY DEF TypeOK, LogInv, New
<1>2. \A i \in Slots : owner[i] \in Nat /\ offset[i] \in Nat
  BY DEF TypeOK
<1>3. QED BY <1>1, <1>2 DEF TypeOK, ReadIndex, WriteIndex

\* A held frame is one of Frames, and so is the one being written.
LEMMA HeldFrames ==
  ASSUME LogInv, NEW id \in oldest .. New, id < New \/ Writing
  PROVE  /\ FrameOf(id) \in Frames
         /\ id < New => FrameOf(id) = log[id]
         /\ id = New => FrameOf(id) = frame
<1>1. id \in Nat /\ Len(log) \in Nat /\ id > 0
  BY DEF LogInv, New
<1>2. CASE id < New
  <2>1. id \in 1 .. Len(log)
    BY <1>1, <1>2 DEF New
  <2>2. QED BY <2>1, <1>2 DEF FrameOf, LogInv, New
<1>3. CASE id = New /\ Writing
  BY <1>1, <1>3 DEF FrameOf, LogInv, New
<1>4. QED BY <1>1, <1>2, <1>3 DEF New

\* At the first slot of the oldest frame, its length is read back and the two
\* length bytes lead to its first byte.
LEMMA LengthFacts ==
  ASSUME TypeOK, LogInv, OwnedInv, LinkedInv,
         NEW r \in Slots, oldest < New, owner[r] = oldest, offset[r] = 0
  PROVE  /\ log[oldest] \in Frames
         /\ LengthAt(r) = Len(log[oldest])
         /\ owner[Succ(r)] = oldest /\ offset[Succ(r)] = 1
         /\ owner[Succ(Succ(r))] = oldest /\ offset[Succ(Succ(r))] = 2
<1>1. /\ oldest \in Nat /\ oldest > 0 /\ FrameOf(oldest) = log[oldest]
      /\ log[oldest] \in Frames
  BY HeldFrames DEF TypeOK, LogInv
<1>2. /\ Cost(log[oldest]) = Len(log[oldest]) + 2 /\ Len(log[oldest]) \in Nat
      /\ Len(log[oldest]) > 0
  BY <1>1, FrameFits
<1>3. Succ(r) \in Slots /\ Succ(Succ(r)) \in Slots
  BY SuccFacts
<1>4. owner[Succ(r)] = oldest /\ offset[Succ(r)] = 1
  BY <1>1, <1>2 DEF LinkedInv, Linked, InRing
<1>5. owner[Succ(Succ(r))] = oldest /\ offset[Succ(Succ(r))] = 2
  BY <1>1, <1>2, <1>3, <1>4 DEF LinkedInv, Linked, InRing
<1>6. /\ buffer[r] = ByteOf(log[oldest], 0)
      /\ buffer[Succ(r)] = ByteOf(log[oldest], 1)
  BY <1>1, <1>3, <1>4 DEF OwnedInv, InRing
<1>7. LengthAt(r) = Len(log[oldest])
  BY <1>1, <1>6, ByteFacts DEF LengthAt
<1>8. QED BY <1>1, <1>4, <1>5, <1>7

\* The first bytes of what is left of the oldest frame are released: the chain
\* of the others is left as it is.
LEMMA ReleaseKeeps ==
  ASSUME TypeOK, LogInv, OwnedInv, DistinctInv, LinkedInv,
         oldest < New,
         NEW s \in SUBSET Slots,
         \A i \in s : owner[i] = oldest,
         \A i \in Slots \ s, j \in s :
            owner[i] = oldest => offset[i] > offset[j],
         Release(s),
         Writing' = Writing,
         UNCHANGED <<buffer, index_write, write, frame, done, log, oldest,
                     offset>>
  PROVE  OwnedInv' /\ DistinctInv' /\ LinkedInv'
<1>1. /\ \A i \in Slots \ s : owner'[i] = owner[i]
      /\ \A i \in s : owner'[i] = 0
      /\ \A i \in Slots : owner[i] \in Nat /\ offset[i] \in Nat
      /\ oldest \in Nat /\ oldest > 0
  <2>1. \A i \in Slots : owner'[i] = IF i \in s THEN 0 ELSE owner[i]
    BY DEF Release
  <2>2. \A i \in s : i \in Slots
    OBVIOUS
  <2>3. (\A i \in Slots \ s : owner'[i] = owner[i]) /\ \A i \in s : owner'[i] = 0
    BY <2>1, <2>2
  <2>4. QED BY <2>3, Types
<1>2. New' = New /\ \A id : FrameOf(id)' = FrameOf(id)
  BY DEF New, FrameOf
<1>3. OwnedInv'
  BY <1>1, <1>2 DEF OwnedInv, InRing
<1>4. DistinctInv'
  BY <1>1 DEF DistinctInv, InRing
<1>5. ASSUME NEW i \in Slots \ s, owner[i] # 0
      PROVE  Linked(i)'
  <2>1. Succ(i) \in Slots /\ New \in Nat
    BY SuccFacts, Types
  <2>2. Linked(i) /\ owner'[i] = owner[i] /\ owner[i] \in oldest .. New
    BY <1>1, <1>5 DEF LinkedInv, OwnedInv, InRing
  <2>3. Succ(i) \in s => /\ owner[Succ(i)] = oldest
                         /\ owner[i] = oldest => offset[i] > offset[Succ(i)]
    BY <2>1, <1>5
  <2>4. Succ(i) \notin s => owner'[Succ(i)] = owner[Succ(i)]
    BY <2>1, <1>1
  <2>5. QED
    BY <2>1, <2>2, <2>3, <2>4, <1>1, <1>2 DEF Linked
<1>6. LinkedInv'
  BY <1>1, <1>5 DEF LinkedInv, InRing
<1>7. QED BY <1>3, <1>4, <1>6

\* A new number for the same frames: what an unchanged log leaves unchanged.
LEMMA SameLog ==
  ASSUME UNCHANGED log
  PROVE  /\ New' = New
         /\ \A id : id <= Len(log) => FrameOf(id)' = FrameOf(id)
         /\ frame' = frame => \A id : FrameOf(id)' = FrameOf(id)
BY DEF New, FrameOf

-----------------------------------------------------------------------------
(***************************************************************************)
(* The invariant holds at first, and every step keeps it.                  *)
(***************************************************************************)
LEMMA InitRing ==
  ASSUME Init
  PROVE  RingInv
<1>1. Size \in Nat /\ 0 \in Slots /\ 0 \in Byte
  BY QueueAssumption DEF Slots, Byte
<1>2. /\ log = <<>> /\ log \in Seq(Frames) /\ log \in Seq(Seq(Byte))
      /\ Len(log) = 0 /\ <<>> \in Seq(Byte)
  BY DEF Init
<1>3. \A i \in Slots : owner[i] = 0
  BY DEF Init
<1>4. ~ Writing /\ pc = "idle" /\ New = 1 /\ oldest = 1
  BY <1>2 DEF Init, Writing, New
<1>5. TypeOK
  BY <1>1, <1>2, <1>4 DEF Init, TypeOK, Uint16
<1>6. LogInv
  BY <1>2, <1>4 DEF LogInv
<1>7. OwnedInv /\ DistinctInv /\ LinkedInv
  BY <1>3 DEF OwnedInv, DistinctInv, LinkedInv, InRing
<1>8. BackInv /\ WriteInv /\ ReadInv /\ ReadsOldest
  BY <1>1, <1>3, <1>4, SuccFacts
     DEF Init, BackInv, WriteInv, ReadInv, ReadsOldest, InRing, ReadIndex,
         WriteIndex
<1>9. QED BY <1>5, <1>6, <1>7, <1>8 DEF RingInv

\* A write starts where the indices are: no byte of it is in the ring yet.
LEMMA WriteBeginRing ==
  ASSUME RingInv, NEW f \in Frames, WriteBegin(f)
  PROVE  RingInv'
<1> USE DEF RingInv
<1>1. /\ pc = "idle" /\ pc' = "put" /\ ~ Writing /\ Writing'
      /\ write' = index_write /\ read' = index_read
      /\ frame' = f /\ done' = 0
      /\ UNCHANGED <<buffer, index_write, index_read, element_counter,
                     frame_len, out, result, log, oldest, owner, offset>>
  BY DEF WriteBegin, Writing, ring, history
<1>2. /\ New' = New /\ \A id \in Nat : id < New => FrameOf(id)' = FrameOf(id)
      /\ ReadIndex' = ReadIndex /\ WriteIndex' = WriteIndex
  BY <1>1, Types DEF New, FrameOf, ReadIndex, WriteIndex, Writing
<1>3. f \in Seq(Byte) /\ 0 \in 0 .. Cost(f)
  BY FrameFits
<1>4. TypeOK'
  BY <1>1, <1>3 DEF TypeOK
<1>5. LogInv'
  BY <1>1, <1>2, <1>3 DEF LogInv
<1>6. \A i \in Slots : InRing(i) => owner[i] \in oldest .. New - 1
  BY <1>1, Types DEF OwnedInv
<1>7. OwnedInv'
  BY <1>1, <1>2, <1>6, Types DEF OwnedInv, InRing
<1>8. DistinctInv'
  BY <1>1 DEF DistinctInv, InRing
<1>9. LinkedInv'
  BY <1>1, <1>2, <1>6, Types DEF LinkedInv, Linked, InRing
<1>10. BackInv'
  BY <1>1, <1>2 DEF BackInv, InRing
<1>11. WriteInv'
  <2>1. Ahead(index_write, 0) = index_write
    BY Types, AheadFacts, QueueAssumption
  <2>2. QED BY <1>1, <1>2, <2>1 DEF WriteInv
<1>12. ReadInv' /\ ReadsOldest'
  BY <1>1, <1>2 DEF ReadInv, ReadsOldest
<1>13. QED
  BY <1>4, <1>5, <1>7, <1>8, <1>9, <1>10, <1>11, <1>12

\* The slot at the write index is free, and so is the one behind it unless it
\* is the oldest byte, which the overlap test catches.
LEMMA PutByteRing ==
  ASSUME RingInv, PutByte
  PROVE  RingInv'
<1> USE DEF RingInv
<1>0. PICK w \in Slots : w = write
  BY Types
<1>1. /\ pc = "put" /\ Writing /\ Writing' /\ pc' \in {"put", "overlap"}
      /\ pc' # "overlap" => Succ(w) # read
      /\ pc' = "overlap" => Succ(w) = read
      /\ done < Cost(frame) /\ done' = done + 1
      /\ write' = Succ(w)
      /\ UNCHANGED <<index_write, index_read, element_counter, read, frame,
                     frame_len, out, result, log, oldest>>
  BY <1>0 DEF PutByte, Writing
<1>2. /\ New' = New /\ \A id : FrameOf(id)' = FrameOf(id)
      /\ ReadIndex = read /\ ReadIndex' = read
      /\ WriteIndex = w /\ WriteIndex' = Succ(w)
  BY <1>0, <1>1 DEF New, FrameOf, ReadIndex, WriteIndex
<1>3. /\ frame \in Frames /\ done \in Nat
      /\ Succ(w) \in Slots /\ Succ(w) # w /\ New \in Nat /\ New > 0
      /\ done + 1 < Size /\ Cost(frame) \in Nat
      /\ ByteOf(frame, done) \in Byte
  <2>1. frame \in Frames /\ done \in Nat /\ New \in Nat /\ New > 0
    BY <1>1, Types DEF LogInv
  <2>2. Succ(w) \in Slots /\ Succ(w) # w
    BY SuccFacts
  <2>3. Cost(frame) \in Nat /\ Cost(frame) < Size
    BY <2>1, FrameFits
  <2>4. done \in 0 .. Cost(frame) - 1
    BY <1>1, <2>1, <2>3
  <2>5. ByteOf(frame, done) \in Byte
    BY <2>1, <2>4, ByteFacts
  <2>6. QED BY <1>1, <2>1, <2>2, <2>3, <2>5, QueueAssumption
<1>4. owner[w] = 0
  BY <1>1, <1>2 DEF WriteInv
<1>5. /\ owner'[w] = New /\ offset'[w] = done
      /\ buffer'[w] = ByteOf(frame, done)
      /\ \A i \in Slots \ {w} : /\ owner'[i] = owner[i]
                                   /\ offset'[i] = offset[i]
                                   /\ buffer'[i] = buffer[i]
  BY <1>0 DEF PutByte, TypeOK, New
<1>6. TypeOK'
  <2>1. /\ owner' \in [Slots -> Nat] /\ offset' \in [Slots -> Nat]
        /\ buffer' \in [Slots -> Byte]
    BY <1>3 DEF PutByte, TypeOK, New
  <2>2. done + 1 \in Nat
    BY <1>3
  <2>3. QED BY <2>1, <2>2, <1>1, <1>3 DEF TypeOK
<1>7. LogInv'
  BY <1>1, <1>2, <1>3 DEF LogInv
<1>8. OwnedInv'
  <2>1. ASSUME NEW i \in Slots \ {w}, owner[i] # 0
        PROVE  owner'[i] = New => offset'[i] < done'
    BY <2>1, <1>1, <1>3, <1>5, Types DEF OwnedInv, InRing
  <2>2. ASSUME NEW i \in Slots \ {w}, owner[i] # 0
        PROVE  /\ owner'[i] \in oldest' .. New'
               /\ offset'[i] < Cost(FrameOf(owner[i])')
               /\ buffer'[i] = ByteOf(FrameOf(owner[i])', offset'[i])
    BY <2>2, <1>1, <1>2, <1>5 DEF OwnedInv, InRing
  <2>3. FrameOf(New) = frame
    BY <1>3 DEF FrameOf, New
  <2>4. QED
    BY <2>1, <2>2, <2>3, <1>1, <1>2, <1>3, <1>5, Types DEF OwnedInv, InRing
<1>9. DistinctInv'
  <2>1. \A i \in Slots : owner[i] = New => offset[i] < done
    BY <1>3 DEF OwnedInv, InRing
  <2>2. QED BY <2>1, <1>3, <1>4, <1>5, Types DEF DistinctInv, InRing
<1>10. LinkedInv'
  <2>1. Linked(w)'
    BY <1>1, <1>2, <1>3, <1>5 DEF Linked
  <2>2. ASSUME NEW i \in Slots \ {w}, owner[i] # 0
        PROVE  Linked(i)'
    <3>1. /\ Linked(i) /\ Succ(i) \in Slots
          /\ owner[i] \in Nat /\ offset[i] \in Nat
          /\ owner[i] = New => offset[i] < done
      BY <2>2, SuccFacts, Types DEF LinkedInv, OwnedInv, InRing
    <3>2. owner[Succ(i)] # 0 => /\ owner'[Succ(i)] = owner[Succ(i)]
                                /\ offset'[Succ(i)] = offset[Succ(i)]
      <4>1. owner[Succ(i)] # 0 => Succ(i) \in Slots \ {w}
        BY <1>4, <3>1
      <4>2. QED BY <4>1, <1>5
    <3>3. Succ(i) = w => owner'[Succ(i)] = New /\ offset'[Succ(i)] = done
      BY <1>5
    <3>4. CASE owner[i] = New
      BY <3>1, <3>2, <3>3, <3>4, <1>0, <1>1, <1>2, <1>3, <1>5 DEF Linked
    <3>5. CASE owner[i] # New
      <4>1. owner'[i] = owner[i] /\ offset'[i] = offset[i]
        BY <1>5
      <4>2. Cost(log'[owner'[i]]) = Cost(log[owner[i]])
        BY <4>1, <1>1
      <4>3. QED BY <2>2, <3>1, <3>2, <3>5, <4>1, <4>2, <1>1, <1>2, <1>3 DEF Linked
    <3>6. QED BY <3>4, <3>5
  <2>3. QED BY <2>1, <2>2, <1>5 DEF LinkedInv, InRing
<1>11. BackInv'
  BY <1>1, <1>2, <1>3, <1>4, <1>5, SuccFacts DEF BackInv, InRing
<1>12. WriteInv'
  <2>1. pc' # "overlap" => owner'[Succ(w)] = 0
    BY <1>1, <1>2, <1>3, <1>4, <1>5 DEF BackInv, InRing
  <2>2. write' = Ahead(index_write, done')
    BY <1>0, <1>1, <1>3, Types, AheadFacts DEF WriteInv
  <2>3. owner'[index_write] = New /\ offset'[index_write] = 0
    <3>1. CASE done = 0
      BY <3>1, <1>0, <1>1, <1>3, <1>5, Types, AheadFacts DEF WriteInv
    <3>2. CASE done > 0
      BY <3>2, <1>1, <1>3, <1>4, <1>5, Types DEF WriteInv
    <3>3. QED BY <3>1, <3>2, <1>3
  <2>4. QED BY <2>1, <2>2, <2>3, <1>1, <1>2 DEF WriteInv
<1>13. ReadInv'
  <2>1. oldest < New => owner'[read] = oldest /\ offset'[read] = 0
    BY <1>1, <1>2, <1>4, <1>5, Types DEF ReadInv
  <2>2. ~ (oldest < New) => read = index_write
    BY <1>1, <1>2 DEF ReadInv
  <2>3. Succ(w) # index_write
    BY <1>0, <1>1, <1>3, Types, AheadFacts DEF WriteInv
  <2>4. QED BY <2>1, <2>2, <2>3, <1>1, <1>2, <1>3 DEF ReadInv
<1>14. ReadsOldest'
  BY <1>1 DEF ReadsOldest
<1>15. QED
  BY <1>6, <1>7, <1>8, <1>9, <1>10, <1>11, <1>12, <1>13, <1>14

\* ES_Queue_Read and ES_Queue_PreventOverlap begin alike, with the two length
\* bytes of the oldest frame.
LEMMA LengthStep ==
  ASSUME RingInv, NEW r \in Slots,
         r = ReadIndex, oldest < New, owner[r] = oldest, offset[r] = 0,
         \/ pc = "overlap" /\ pc' = "giveup"
         \/ pc = "idle" /\ pc' = "get" /\ index_write # r,
         read' = Succ(Succ(r)), frame_len' = LengthAt(r),
         Release({r, Succ(r)}),
         UNCHANGED <<buffer, index_write, index_read, element_counter, write,
                     frame, done, log, oldest, offset>>
  PROVE  /\ LogInv' /\ OwnedInv' /\ DistinctInv' /\ LinkedInv' /\ BackInv'
         /\ WriteInv' /\ ReadInv'
         /\ read' \in Slots /\ frame_len' = Len(log[oldest])
         /\ frame_len' \in Nat /\ owner' \in [Slots -> Nat]
<1> USE DEF RingInv
<1>1. /\ Writing' = Writing /\ Writing = (pc = "overlap") /\ New' = New
      /\ WriteIndex' = WriteIndex /\ ReadIndex' = Succ(Succ(r))
      /\ pc' # "overlap"
  BY DEF Writing, New, WriteIndex, ReadIndex
<1>2. /\ log[oldest] \in Frames /\ LengthAt(r) = Len(log[oldest])
      /\ owner[Succ(r)] = oldest /\ offset[Succ(r)] = 1
      /\ owner[Succ(Succ(r))] = oldest /\ offset[Succ(Succ(r))] = 2
  BY LengthFacts
<1>3. /\ Len(log[oldest]) \in Nat /\ Len(log[oldest]) > 0
      /\ Cost(log[oldest]) = Len(log[oldest]) + 2
  BY <1>2, FrameFits
<1>4. /\ Succ(r) \in Slots /\ Succ(Succ(r)) \in Slots
      /\ Succ(r) # r /\ Succ(Succ(r)) # r /\ Succ(Succ(r)) # Succ(r)
  BY SuccFacts
<1>5. PICK q \in Slots : q = Succ(r)
  BY <1>4
<1>6. /\ owner' \in [Slots -> Nat] /\ owner'[r] = 0 /\ owner'[q] = 0
      /\ \A i \in Slots : i # r /\ i # q => owner'[i] = owner[i]
  BY <1>5, Types DEF Release
<1>7. LogInv'
  BY <1>1 DEF LogInv
<1>8. ASSUME NEW i \in Slots, i # r, i # q, owner[i] = oldest
      PROVE  offset[i] > 1
  <2>1. owner[i] # 0 /\ offset[i] \in Nat
    BY <1>8, Types
  <2>2. offset[i] # offset[r]
    BY <1>8, <2>1 DEF DistinctInv, InRing
  <2>3. offset[i] # offset[q]
    BY <1>2, <1>5, <1>8, <2>1 DEF DistinctInv, InRing
  <2>4. QED BY <2>1, <2>2, <2>3, <1>2, <1>5
<1>9. OwnedInv' /\ DistinctInv' /\ LinkedInv'
  <2>1. /\ {r, q} \in SUBSET Slots /\ Release({r, q})
        /\ \A i \in {r, q} : owner[i] = oldest
        /\ \A i \in Slots \ {r, q}, j \in {r, q} :
              owner[i] = oldest => offset[i] > offset[j]
    BY <1>2, <1>5, <1>8, Types
  <2>2. QED BY <2>1, <1>1, ReleaseKeeps
<1>10. BackInv'
  <2>1. ASSUME NEW i \in Slots, owner'[Succ(i)] # 0, Succ(i) # Succ(q)
        PROVE  owner'[i] # 0
    <3>1. Succ(i) \in Slots /\ Succ(i) # r /\ Succ(i) # q /\ owner[Succ(i)] # 0
      BY <2>1, <1>6, SuccFacts
    <3>2. owner[i] # 0
      BY <3>1 DEF BackInv, InRing
    <3>3. i # q /\ i # r
      BY <3>1, <2>1, <1>5
    <3>4. QED BY <3>2, <3>3, <1>6
  <2>2. ASSUME NEW i \in Slots, Succ(i) = WriteIndex, WriteIndex # Succ(q)
        PROVE  owner'[i] # 0
    <3>1. pc = "overlap" => WriteIndex = r
      BY <1>1 DEF ReadInv, WriteIndex, ReadIndex, Writing
    <3>2. pc = "idle" => owner[WriteIndex] = 0 /\ WriteIndex # r
      BY DEF WriteInv, WriteIndex, Writing
    <3>3. i # q
      BY <2>2
    <3>4. i # r
      BY <2>2, <3>1, <3>2, <1>2, <1>4, Types
    <3>5. owner[i] # 0
      BY <2>2, <3>2 DEF BackInv, InRing
    <3>6. QED BY <3>3, <3>4, <3>5, <1>6
  <2>3. QED BY <2>1, <2>2, <1>1, <1>5 DEF BackInv, InRing
<1>11. WriteInv'
  <2>1. owner'[WriteIndex] = 0
    <3>1. CASE pc = "overlap"
      BY <3>1, <1>1, <1>6 DEF ReadInv, WriteIndex, ReadIndex, Writing
    <3>2. CASE pc # "overlap"
      BY <3>2, <1>6, Types DEF WriteInv
    <3>3. QED BY <3>1, <3>2
  <2>2. pc = "overlap" => done > 0 /\ owner[index_write] = New
    BY <1>1 DEF ReadInv, WriteInv
  <2>3. owner[index_write] = New => owner'[index_write] = New
    BY <1>2, <1>5, <1>6, Types
  <2>4. QED BY <2>1, <2>2, <2>3, <1>1 DEF WriteInv
<1>12. ReadInv'
  <2>1. PICK n \in Slots : n = Succ(q)
    BY <1>4, <1>5
  <2>2. owner'[n] = oldest /\ offset'[n] = 2
    BY <2>1, <1>2, <1>4, <1>5, <1>6
  <2>3. \A i \in Slots : owner'[i] = oldest => offset'[i] >= 2
    BY <1>6, <1>8, Types
  <2>4. pc' = "giveup" => done > 0
    BY DEF ReadInv
  <2>5. QED
    BY <2>1, <2>2, <2>3, <2>4, <1>1, <1>2, <1>3, <1>5 DEF ReadInv
<1>13. QED
  BY <1>2, <1>3, <1>4, <1>6, <1>7, <1>9, <1>10, <1>11, <1>12

\* They go on alike, byte by byte.
LEMMA ByteStep ==
  ASSUME RingInv, NEW r \in Slots, r = read,
         pc \in {"giveup", "get"}, pc' = pc,
         frame_len > 0, frame_len' = frame_len - 1, read' = Succ(r),
         Release({r}),
         UNCHANGED <<buffer, index_write, index_read, element_counter, write,
                     frame, done, log, oldest, offset>>
  PROVE  /\ LogInv' /\ OwnedInv' /\ DistinctInv' /\ LinkedInv' /\ BackInv'
         /\ WriteInv' /\ ReadInv'
         /\ read' \in Slots /\ frame_len' \in Nat
         /\ owner' \in [Slots -> Nat]
<1> USE DEF RingInv
<1>1. /\ Writing' = Writing /\ New' = New /\ WriteIndex' = WriteIndex
      /\ ReadIndex = r /\ ReadIndex' = Succ(r)
  BY DEF Writing, New, WriteIndex, ReadIndex
<1>2. /\ oldest < New /\ frame_len \in Nat /\ frame_len <= Len(log[oldest])
      /\ owner[r] = oldest /\ offset[r] = Cost(log[oldest]) - frame_len
      /\ \A i \in Slots :
           owner[i] = oldest => offset[i] >= Cost(log[oldest]) - frame_len
  BY Types DEF ReadInv
<1>3. /\ log[oldest] \in Frames
      /\ Len(log[oldest]) \in Nat /\ Cost(log[oldest]) = Len(log[oldest]) + 2
  <2>1. log[oldest] \in Frames
    BY <1>2, Types DEF LogInv, New
  <2>2. QED BY <2>1, FrameFits
<1>4. PICK n \in Slots : n = Succ(r)
  BY SuccFacts
<1>5. /\ owner' \in [Slots -> Nat] /\ owner'[r] = 0
      /\ \A i \in Slots : i # r => owner'[i] = owner[i]
  BY Types DEF Release
<1>6. n # r
  BY <1>4, SuccFacts
<1>7. LogInv'
  BY <1>1 DEF LogInv
<1>8. ASSUME NEW i \in Slots, i # r, owner[i] = oldest
      PROVE  offset[i] > Cost(log[oldest]) - frame_len
  <2>1. owner[i] # 0 /\ offset[i] \in Nat /\ offset[r] \in Nat
    BY <1>8, Types
  <2>2. offset[i] # offset[r]
    BY <1>2, <1>8, <2>1 DEF DistinctInv, InRing
  <2>3. QED BY <2>1, <2>2, <1>2, <1>3, <1>8
<1>9. OwnedInv' /\ DistinctInv' /\ LinkedInv'
  BY <1>1, <1>2, <1>8, ReleaseKeeps
<1>10. BackInv'
  <2>1. ASSUME NEW i \in Slots, owner'[Succ(i)] # 0, Succ(i) # n
        PROVE  owner'[i] # 0
    <3>1. Succ(i) \in Slots /\ Succ(i) # r /\ owner[Succ(i)] # 0
      BY <2>1, <1>5, SuccFacts
    <3>2. owner[i] # 0
      BY <3>1, <1>1 DEF BackInv, InRing
    <3>3. QED BY <3>2, <2>1, <1>4, <1>5
  <2>2. ASSUME NEW i \in Slots, Succ(i) = WriteIndex, WriteIndex # n
        PROVE  owner'[i] # 0
    <3>1. owner[WriteIndex] = 0 /\ WriteIndex # r
      BY <1>2, Types DEF WriteInv
    <3>2. owner[i] # 0 /\ i # r
      BY <2>2, <3>1, <1>1, <1>4 DEF BackInv, InRing
    <3>3. QED BY <3>2, <1>5
  <2>3. QED BY <2>1, <2>2, <1>1, <1>4 DEF BackInv, InRing
<1>11. WriteInv'
  <2>1. owner'[WriteIndex] = 0
    BY <1>5, Types DEF WriteInv
  <2>2. owner[index_write] = New => owner'[index_write] = New
    BY <1>2, <1>5, Types
  <2>3. QED BY <2>1, <2>2, <1>1 DEF WriteInv
<1>12. ReadInv'
  <2>1. Linked(r) /\ offset[r] \in Nat /\ oldest \in Nat
    BY <1>2, Types DEF LinkedInv, InRing
  <2>2. ASSUME NEW i \in Slots, owner'[i] = oldest
        PROVE  offset[i] >= Cost(log[oldest]) - (frame_len - 1)
    <3>1. i # r /\ owner[i] = oldest
      BY <2>1, <2>2, <1>2, <1>5, Types
    <3>2. offset[i] > Cost(log[oldest]) - frame_len /\ offset[i] \in Nat
      BY <3>1, <1>8, Types
    <3>3. QED BY <3>2, <1>2, <1>3
  <2>3. CASE frame_len > 1
    <3>1. owner'[n] = oldest /\ offset'[n] = Cost(log[oldest]) - (frame_len - 1)
      BY <2>1, <2>3, <1>2, <1>3, <1>4, <1>5, <1>6 DEF Linked
    <3>2. QED
      BY <2>2, <2>3, <3>1, <1>1, <1>2, <1>3, <1>4 DEF ReadInv
  <2>4. CASE frame_len = 1
    <3>1. IF oldest < New - 1
          THEN owner'[n] = oldest + 1 /\ offset'[n] = 0
          ELSE n = index_write
      <4>1. offset[r] + 1 = Cost(log[owner[r]])
        BY <2>4, <1>2, <1>3
      <4>2. oldest < New - 1 \/ oldest = New - 1
        BY <1>2, Types
      <4>3. QED
        BY <2>1, <4>1, <4>2, <1>2, <1>4, <1>5, <1>6 DEF Linked
    <3>2. QED
      BY <2>2, <2>4, <3>1, <1>1, <1>2, <1>3, <1>4 DEF ReadInv
  <2>5. QED BY <2>3, <2>4, <1>2
<1>13. QED
  BY <1>2, <1>4, <1>5, <1>7, <1>9, <1>10, <1>11, <1>12

\* And they end alike: no byte of the oldest frame is left.
LEMMA EndStep ==
  ASSUME RingInv,
         \/ pc = "giveup" /\ pc' = "put" /\ index_read' = index_read
         \/ pc = "get" /\ pc' = "idle" /\ index_read' = read,
         frame_len = 0, oldest' = oldest + 1,
         UNCHANGED <<buffer, index_write, write, read, frame, done, log, owner,
                     offset>>
  PROVE  /\ LogInv' /\ OwnedInv' /\ DistinctInv' /\ LinkedInv' /\ BackInv'
         /\ WriteInv' /\ ReadInv' /\ oldest' \in Nat
<1> USE DEF RingInv
<1>1. /\ Writing' = Writing /\ New' = New /\ WriteIndex' = WriteIndex
      /\ ReadIndex = read /\ ReadIndex' = read
      /\ \A id : FrameOf(id)' = FrameOf(id)
  BY DEF Writing, New, WriteIndex, ReadIndex, FrameOf
<1>2. /\ oldest < New
      /\ \A i \in Slots :
           owner[i] = oldest => offset[i] >= Cost(log[oldest]) - frame_len
  BY DEF ReadInv
<1>3. /\ log[oldest] \in Frames /\ FrameOf(oldest) = log[oldest]
      /\ Cost(log[oldest]) \in Nat
  <2>1. log[oldest] \in Frames /\ FrameOf(oldest) = log[oldest]
    BY <1>2, Types DEF LogInv, New, FrameOf
  <2>2. QED BY <2>1, FrameFits
<1>4. \A i \in Slots : owner[i] # oldest
  BY <1>2, <1>3, Types DEF OwnedInv, InRing
<1>5. LogInv' /\ oldest' \in Nat
  BY <1>1, <1>2, Types DEF LogInv
<1>6. OwnedInv'
  BY <1>1, <1>4, Types DEF OwnedInv, InRing
<1>7. DistinctInv' /\ LinkedInv'
  BY <1>1 DEF DistinctInv, LinkedInv, Linked, InRing
<1>8. BackInv'
  BY <1>1 DEF BackInv, InRing
<1>9. WriteInv'
  BY <1>1 DEF WriteInv
<1>10. ReadInv'
  BY <1>1, <1>2, Types DEF ReadInv
<1>11. QED BY <1>5, <1>6, <1>7, <1>8, <1>9, <1>10

LEMMA OverlapLengthRing ==
  ASSUME RingInv, OverlapLength
  PROVE  RingInv'
<1>1. PICK r \in Slots : r = read
  BY Types DEF RingInv
<1>2. /\ pc = "overlap" /\ pc' = "giveup" /\ r = ReadIndex
      /\ oldest < New /\ owner[r] = oldest /\ offset[r] = 0
  BY <1>1 DEF OverlapLength, RingInv, ReadInv, ReadIndex
<1>3. /\ read' = Succ(Succ(r)) /\ frame_len' = LengthAt(r)
      /\ Release({r, Succ(r)})
      /\ UNCHANGED <<buffer, index_write, index_read, element_counter, write,
                     frame, done, out, result, log, oldest, offset>>
  BY <1>1 DEF OverlapLength, ring
<1>4. /\ LogInv' /\ OwnedInv' /\ DistinctInv' /\ LinkedInv' /\ BackInv'
      /\ WriteInv' /\ ReadInv'
      /\ read' \in Slots /\ frame_len' \in Nat /\ owner' \in [Slots -> Nat]
  BY <1>2, <1>3, LengthStep
<1>5. TypeOK' /\ ReadsOldest'
  BY <1>2, <1>3, <1>4 DEF RingInv, TypeOK, ReadsOldest
<1>6. QED BY <1>4, <1>5 DEF RingInv

LEMMA SkipByteRing ==
  ASSUME RingInv, SkipByte
  PROVE  RingInv'
<1>1. PICK r \in Slots : r = read
  BY Types DEF RingInv
<1>2. /\ pc = "giveup" /\ pc' = pc /\ frame_len > 0
      /\ read' = Succ(r) /\ frame_len' = frame_len - 1 /\ Release({r})
      /\ UNCHANGED <<buffer, index_write, index_read, element_counter, write,
                     frame, done, out, result, log, oldest, offset>>
  BY <1>1 DEF SkipByte, ring
<1>3. /\ LogInv' /\ OwnedInv' /\ DistinctInv' /\ LinkedInv' /\ BackInv'
      /\ WriteInv' /\ ReadInv'
      /\ read' \in Slots /\ frame_len' \in Nat /\ owner' \in [Slots -> Nat]
  BY <1>1, <1>2, ByteStep
<1>4. TypeOK' /\ ReadsOldest'
  BY <1>2, <1>3 DEF RingInv, TypeOK, ReadsOldest
<1>5. QED BY <1>3, <1>4 DEF RingInv

LEMMA GiveUpEndRing ==
  ASSUME RingInv, GiveUpEnd
  PROVE  RingInv'
<1>1. /\ pc = "giveup" /\ pc' = "put" /\ frame_len = 0 /\ oldest' = oldest + 1
      /\ UNCHANGED <<buffer, index_write, index_read, write, read, frame, done,
                     frame_len, out, result, log, owner, offset>>
  BY DEF GiveUpEnd
<1>2. /\ LogInv' /\ OwnedInv' /\ DistinctInv' /\ LinkedInv' /\ BackInv'
      /\ WriteInv' /\ ReadInv' /\ oldest' \in Nat
  BY <1>1, EndStep
<1>3. element_counter' \in Uint16
  BY CounterFacts DEF GiveUpEnd, RingInv, TypeOK
<1>4. TypeOK' /\ ReadsOldest'
  BY <1>1, <1>2, <1>3 DEF RingInv, TypeOK, ReadsOldest
<1>5. QED BY <1>2, <1>4 DEF RingInv

\* The frame is in the log: what was the chain of the new frame is that of the
\* newest held one.
LEMMA WriteEndRing ==
  ASSUME RingInv, WriteEnd
  PROVE  RingInv'
<1> USE DEF RingInv
<1>1. /\ pc = "put" /\ pc' = "idle" /\ Writing /\ ~ Writing'
      /\ done = Cost(frame) /\ index_write' = write /\ index_read' = read
      /\ log' = Append(log, frame)
      /\ UNCHANGED <<buffer, write, read, frame, done, frame_len, out, result,
                     oldest, owner, offset>>
  BY DEF WriteEnd, Writing
<1>2. /\ frame \in Frames /\ frame \in Seq(Byte) /\ done \in Nat /\ done > 2
      /\ New \in Nat /\ oldest \in Nat /\ oldest > 0 /\ oldest <= New
      /\ \A i \in Slots : owner[i] \in Nat /\ offset[i] \in Nat
  <2>1. frame \in Frames
    BY <1>1 DEF LogInv
  <2>2. QED BY <1>1, <2>1, FrameFits, Types
<1>3. /\ New' = New + 1 /\ log' \in Seq(Frames) /\ log' \in Seq(Seq(Byte))
      /\ log'[New] = frame
      /\ \A id \in Nat : 0 < id /\ id < New => log'[id] = log[id]
  BY SMTT(30), <1>1, <1>2 DEF New, LogInv, TypeOK
<1>4. /\ WriteIndex = write /\ WriteIndex' = write
      /\ ReadIndex = read /\ ReadIndex' = read
  BY <1>1 DEF WriteIndex, ReadIndex, Writing
<1>5. ASSUME NEW i \in Slots, owner[i] # 0
      PROVE  /\ owner[i] \in oldest .. New
             /\ FrameOf(owner[i])' = FrameOf(owner[i])
             /\ FrameOf(owner[i]) = log'[owner[i]]
  <2>1. owner[i] \in oldest .. New
    BY <1>5 DEF OwnedInv, InRing
  <2>2. CASE owner[i] < New
    BY <2>1, <2>2, <1>1, <1>2, <1>3 DEF FrameOf, New
  <2>3. CASE owner[i] = New
    BY <2>1, <2>3, <1>1, <1>2, <1>3 DEF FrameOf, New
  <2>4. QED BY <2>1, <2>2, <2>3, <1>2
<1>6. TypeOK'
  <2>1. element_counter' \in Uint16
    BY CounterFacts DEF WriteEnd, TypeOK
  <2>2. QED BY <2>1, <1>1, <1>3 DEF TypeOK
<1>7. LogInv'
  BY <1>1, <1>2, <1>3 DEF LogInv
<1>8. OwnedInv'
  BY <1>1, <1>2, <1>3, <1>5 DEF OwnedInv, InRing
<1>9. DistinctInv'
  BY <1>1 DEF DistinctInv, InRing
<1>10. owner[index_write] = New /\ offset[index_write] = 0
  BY <1>1, <1>2 DEF WriteInv
<1>11. LinkedInv'
  <2>1. ASSUME NEW i \in Slots, owner[i] # 0
        PROVE  Linked(i)'
    <3>1. /\ Linked(i) /\ owner[i] \in oldest .. New
          /\ owner[i] \in Nat /\ offset[i] \in Nat
      BY <2>1, <1>2, <1>5 DEF LinkedInv, InRing
    <3>2. CASE owner[i] = New
      <4>1. Cost(log'[owner'[i]]) = done
        BY <3>2, <1>1, <1>3
      <4>2. offset[i] + 1 < done => /\ owner[Succ(i)] = owner[i]
                                    /\ offset[Succ(i)] = offset[i] + 1
        BY <3>1, <3>2 DEF Linked
      <4>3. offset[i] + 1 = done => Succ(i) = write
        BY <3>1, <3>2 DEF Linked
      <4>4. QED BY <3>1, <3>2, <4>1, <4>2, <4>3, <1>1, <1>2, <1>3 DEF Linked
    <3>3. CASE owner[i] < New
      <4>1. log'[owner[i]] = log[owner[i]]
        BY <3>1, <3>3, <1>2, <1>3
      <4>2. owner[i] = New - 1 /\ offset[i] + 1 = Cost(log[owner[i]])
              => owner[Succ(i)] = New /\ offset[Succ(i)] = 0
        BY <3>1, <1>10 DEF Linked
      <4>3. Cost(log'[owner'[i]]) = Cost(log[owner[i]])
        BY <4>1, <1>1
      <4>4. offset[i] + 1 = Cost(log[owner[i]])
              => owner[Succ(i)] = owner[i] + 1 /\ offset[Succ(i)] = 0
        <5>1. CASE owner[i] = New - 1
          BY <5>1, <4>2, <1>2
        <5>2. CASE owner[i] < New - 1
          BY <5>2, <3>1 DEF Linked
        <5>3. QED BY <5>1, <5>2, <3>1, <3>3, <1>2
      <4>5. offset[i] + 1 < Cost(log[owner[i]])
              => owner[Succ(i)] = owner[i] /\ offset[Succ(i)] = offset[i] + 1
        BY <3>1, <3>3 DEF Linked
      <4>6. QED BY <3>1, <3>3, <4>3, <4>4, <4>5, <1>1, <1>2, <1>3 DEF Linked
    <3>4. QED BY <3>1, <3>2, <3>3, <1>2
  <2>2. QED BY <2>1, <1>1 DEF LinkedInv, InRing
<1>12. BackInv' /\ WriteInv'
  BY <1>1, <1>4 DEF BackInv, WriteInv, InRing
<1>13. ReadInv' /\ ReadsOldest'
  BY <1>1, <1>2, <1>3, <1>4, <1>10 DEF ReadInv, ReadsOldest
<1>14. QED
  BY <1>6, <1>7, <1>8, <1>9, <1>11, <1>12, <1>13

\* Different indices: the oldest frame starts at the read index.
LEMMA ReadBeginRing ==
  ASSUME RingInv, ReadBegin
  PROVE  RingInv'
<1>1. PICK r \in Slots : r = index_read
  BY Types DEF RingInv
<1>2. /\ pc = "idle" /\ pc' = "get" /\ index_write # r /\ r = ReadIndex
      /\ oldest < New /\ owner[r] = oldest /\ offset[r] = 0
  BY <1>1 DEF ReadBegin, RingInv, ReadInv, ReadIndex
<1>3. /\ read' = Succ(Succ(r)) /\ frame_len' = LengthAt(r) /\ out' = <<>>
      /\ Release({r, Succ(r)})
      /\ UNCHANGED <<buffer, index_write, index_read, element_counter, write,
                     frame, done, result, log, oldest, offset>>
  BY <1>1 DEF ReadBegin, ring
<1>4. /\ LogInv' /\ OwnedInv' /\ DistinctInv' /\ LinkedInv' /\ BackInv'
      /\ WriteInv' /\ ReadInv'
      /\ read' \in Slots /\ frame_len' = Len(log[oldest])
      /\ frame_len' \in Nat /\ owner' \in [Slots -> Nat]
  BY <1>2, <1>3, LengthStep
<1>5. TypeOK'
  <2>1. out' \in Seq(Byte)
    BY <1>3
  <2>2. QED BY <2>1, <1>2, <1>3, <1>4 DEF RingInv, TypeOK
<1>6. oldest <= Len(log)
  BY <1>2, Types DEF RingInv, New
<1>7. ReadsOldest'
  BY <1>2, <1>3, <1>4, <1>6 DEF ReadsOldest
<1>8. QED BY <1>4, <1>5, <1>7 DEF RingInv

\* The byte copied out is the next one of the oldest frame.
LEMMA GetByteRing ==
  ASSUME RingInv, GetByte
  PROVE  RingInv'
<1>1. PICK r \in Slots : r = read
  BY Types DEF RingInv
<1>2. /\ pc = "get" /\ pc' = pc /\ frame_len > 0
      /\ read' = Succ(r) /\ frame_len' = frame_len - 1 /\ Release({r})
      /\ out' = Append(out, buffer[r])
      /\ UNCHANGED <<buffer, index_write, index_read, element_counter, write,
                     frame, done, result, log, oldest, offset>>
  BY <1>1 DEF GetByte, ring
<1>3. /\ LogInv' /\ OwnedInv' /\ DistinctInv' /\ LinkedInv' /\ BackInv'
      /\ WriteInv' /\ ReadInv'
      /\ read' \in Slots /\ frame_len' \in Nat /\ owner' \in [Slots -> Nat]
  BY <1>1, <1>2, ByteStep
<1>4. buffer[r] \in Byte /\ out \in Seq(Byte)
  BY DEF RingInv, TypeOK
<1>5. TypeOK'
  <2>1. out' \in Seq(Byte)
    BY <1>2, <1>4
  <2>2. QED BY <2>1, <1>2, <1>3 DEF RingInv, TypeOK
<1>6. /\ oldest <= Len(log) /\ oldest < New /\ log[oldest] \in Frames
      /\ Len(out) + frame_len = Len(log[oldest])
      /\ \A j \in 1 .. Len(out) : out[j] = log[oldest][j]
      /\ owner[r] = oldest /\ offset[r] = Cost(log[oldest]) - frame_len
  <2>1. /\ oldest <= Len(log) /\ oldest < New
        /\ Len(out) + frame_len = Len(log[oldest])
        /\ \A j \in 1 .. Len(out) : out[j] = log[oldest][j]
        /\ owner[r] = oldest /\ offset[r] = Cost(log[oldest]) - frame_len
    BY <1>1, <1>2 DEF RingInv, ReadsOldest, ReadInv
  <2>2. log[oldest] \in Frames
    BY <2>1, Types DEF RingInv, LogInv
  <2>3. QED BY <2>1, <2>2
<1>7. PICK f \in Frames : f = log[oldest]
  BY <1>6
<1>8. /\ Len(f) \in Nat /\ Cost(f) = Len(f) + 2 /\ Len(out) \in Nat
      /\ frame_len \in Nat
  BY <1>4, FrameFits DEF RingInv, TypeOK
<1>9. buffer[r] = f[Len(out) + 1]
  <2>1. FrameOf(oldest) = f
    BY <1>6, <1>7 DEF FrameOf
  <2>2. buffer[r] = ByteOf(f, offset[r])
    <3>1. owner[r] # 0
      BY <1>6, Types DEF RingInv
    <3>2. buffer[r] = ByteOf(FrameOf(owner[r]), offset[r])
      BY <3>1 DEF RingInv, OwnedInv, InRing
    <3>3. QED BY <3>2, <2>1, <1>6
  <2>3. offset[r] = (Len(out) + 1) + 1 /\ Len(out) + 1 \in 1 .. Len(f)
    <3>1. Len(out) + frame_len = Len(f) /\ offset[r] = Cost(f) - frame_len
      BY <1>6, <1>7
    <3>2. QED BY <3>1, <1>2, <1>8
  <2>4. QED BY <2>2, <2>3, ByteFacts
<1>10. ReadsOldest'
  <2>1. /\ Len(out') = Len(out) + 1 /\ out'[Len(out) + 1] = buffer[r]
        /\ \A j \in 1 .. Len(out) : out'[j] = out[j]
    BY <1>2, <1>4
  <2>2. \A j \in 1 .. Len(out') : out'[j] = f[j]
    BY <2>1, <1>6, <1>7, <1>8, <1>9
  <2>3. Len(out') + frame_len' = Len(f)
    BY <2>1, <1>2, <1>6, <1>7, <1>8
  <2>4. QED BY <2>2, <2>3, <1>2, <1>6, <1>7 DEF ReadsOldest
<1>11. QED BY <1>3, <1>5, <1>10 DEF RingInv

LEMMA ReadEndRing ==
  ASSUME RingInv, ReadEnd
  PROVE  RingInv'
<1>1. /\ pc = "get" /\ pc' = "idle" /\ index_read' = read
      /\ frame_len = 0 /\ oldest' = oldest + 1 /\ result' = out
      /\ UNCHANGED <<buffer, index_write, write, read, frame, done,
                     frame_len, out, log, owner, offset>>
  BY DEF ReadEnd
<1>2. /\ LogInv' /\ OwnedInv' /\ DistinctInv' /\ LinkedInv' /\ BackInv'
      /\ WriteInv' /\ ReadInv' /\ oldest' \in Nat
  BY <1>1, EndStep
<1>3. element_counter' \in Uint16
  BY CounterFacts DEF ReadEnd, RingInv, TypeOK
<1>4. TypeOK' /\ ReadsOldest'
  BY <1>1, <1>2, <1>3 DEF RingInv, TypeOK, ReadsOldest
<1>5. QED BY <1>2, <1>4 DEF RingInv

\* What only changes the value of the last read keeps the ring as it is.
LEMMA SameRing ==
  ASSUME RingInv,
         UNCHANGED <<ring, pc, write, read, frame, done, frame_len, out,
                     history>>,
         result' \in Seq(Byte)
  PROVE  RingInv'
<1>1. /\ UNCHANGED <<buffer, index_write, index_read, element_counter, pc,
                     write, read, frame, done, frame_len, out, log, oldest,
                     owner, offset>>
      /\ Writing' = Writing /\ New' = New
      /\ ReadIndex' = ReadIndex /\ WriteIndex' = WriteIndex
      /\ \A id : FrameOf(id)' = FrameOf(id)
  BY DEF ring, history, Writing, New, ReadIndex, WriteIndex, FrameOf
<1>2. TypeOK' /\ LogInv' /\ ReadsOldest'
  BY <1>1 DEF RingInv, TypeOK, LogInv, ReadsOldest
<1>3. OwnedInv' /\ DistinctInv' /\ LinkedInv' /\ BackInv'
  BY <1>1 DEF RingInv, OwnedInv, DistinctInv, LinkedInv, Linked, BackInv, InRing
<1>4. WriteInv' /\ ReadInv'
  BY <1>1 DEF RingInv, WriteInv, ReadInv
<1>5. QED BY <1>2, <1>3, <1>4 DEF RingInv

LEMMA ClearAllRing ==
  ASSUME RingInv, ClearAll
  PROVE  RingInv'
<1> USE DEF RingInv
<1>1. /\ pc = "idle" /\ pc' = "idle" /\ ~ Writing /\ ~ Writing'
      /\ index_write' = 0 /\ index_read' = 0 /\ element_counter' = 0
      /\ oldest' = Len(log) + 1 /\ buffer' = [i \in Slots |-> 0]
      /\ UNCHANGED <<write, read, frame, done, frame_len, out, result, log,
                     offset>>
  BY DEF ClearAll, Writing
<1>2. /\ \A i \in Slots : owner'[i] = 0
      /\ owner' \in [Slots -> Nat]
  BY DEF ClearAll, Release
<1>3. New' = New /\ oldest' = New /\ New \in Nat /\ New > 0
  BY <1>1, Types DEF New
<1>4. 0 \in Slots /\ 0 \in Byte /\ 0 \in Uint16
  BY QueueAssumption DEF Slots, Byte, Uint16
<1>5. TypeOK'
  BY <1>1, <1>2, <1>3, <1>4 DEF TypeOK
<1>6. LogInv'
  BY <1>1, <1>3 DEF LogInv
<1>7. OwnedInv' /\ DistinctInv' /\ LinkedInv'
  BY <1>2 DEF OwnedInv, DistinctInv, LinkedInv, InRing
<1>8. BackInv' /\ WriteInv' /\ ReadInv' /\ ReadsOldest'
  BY <1>1, <1>2, <1>3, <1>4, SuccFacts
     DEF BackInv, WriteInv, ReadInv, ReadsOldest, InRing, ReadIndex, WriteIndex
<1>9. QED BY <1>5, <1>6, <1>7, <1>8

-----------------------------------------------------------------------------
(***************************************************************************)
(* The theorems.                                                           *)
(***************************************************************************)
\* RingInv is an invariant of the queue, whatever the size of the buffer and
\* the frames put through it.
THEOREM RingInvariant == Spec => []RingInv
<1>1. Init => RingInv
  BY InitRing
<1>2. RingInv /\ [Next]_vars => RingInv'
  <2> SUFFICES ASSUME RingInv, [Next]_vars
               PROVE  RingInv'
    OBVIOUS
  <2>1. ASSUME NEW f \in Frames, WriteBegin(f) PROVE RingInv'
    BY <2>1, WriteBeginRing
  <2>2. CASE PutByte
    BY <2>2, PutByteRing
  <2>3. CASE OverlapLength
    BY <2>3, OverlapLengthRing
  <2>4. CASE SkipByte
    BY <2>4, SkipByteRing
  <2>5. CASE GiveUpEnd
    BY <2>5, GiveUpEndRing
  <2>6. CASE WriteEnd
    BY <2>6, WriteEndRing
  <2>7. CASE ReadBegin
    BY <2>7, ReadBeginRing
  <2>8. CASE GetByte
    BY <2>8, GetByteRing
  <2>9. CASE ReadEnd
    BY <2>9, ReadEndRing
  <2>10. CASE ReadEmpty
    <3>1. result' \in Seq(Byte)
      BY <2>10 DEF ReadEmpty
    <3>2. QED BY <3>1, <2>10, SameRing DEF ReadEmpty
  <2>11. CASE ClearAll
    BY <2>11, ClearAllRing
  <2>12. CASE UNCHANGED vars
    <3>1. result' \in Seq(Byte)
      BY <2>12 DEF vars, RingInv, TypeOK
    <3>2. QED BY <3>1, <2>12, SameRing DEF vars, ring, history
  <2>13. QED
    BY <2>1, <2>2, <2>3, <2>4, <2>5, <2>6, <2>7, <2>8, <2>9, <2>10, <2>11,
       <2>12 DEF Next
<1>3. QED BY <1>1, <1>2, PTL DEF Spec

\* No index of the queue ever leaves its buffer.
THEOREM TypeCorrect == Spec => []TypeOK
<1>1. RingInv => TypeOK
  BY DEF RingInv
<1>2. QED BY <1>1, RingInvariant, PTL

\* The write index never rests on a held frame: a full ring is never taken for
\* an empty one.
THEOREM WriteSlotIsFree == Spec => []WriteSlotFree
<1>1. RingInv => WriteSlotFree
  BY DEF RingInv, WriteInv, WriteSlotFree
<1>2. QED BY <1>1, RingInvariant, PTL

\* A read returns the oldest frame: its length, and byte by byte.
THEOREM ReadsOldestFrame == Spec => []ReadsOldest
<1>1. RingInv => ReadsOldest
  BY DEF RingInv
<1>2. QED BY <1>1, RingInvariant, PTL

-----------------------------------------------------------------------------
(***************************************************************************)
(* The bytes of a sequence of frames.  DropOldestFifo defines them by a    *)
(* recursive function; what is needed of it is proved from the least       *)
(* counterexample.                                                         *)
(***************************************************************************)
\* Any numbers have a least one: the form in which an induction is done here.
LEMMA LeastNat ==
  ASSUME NEW T \in SUBSET Nat, T # {}
  PROVE  \E i \in T : \A j \in T : i <= j
<1>1. PICK i \in T : \A j \in T : <<j, i>> \notin OpToRel(<, Nat)
  BY NatLessThanWellFounded, WFMin
<1>2. \A j \in T : ~ (j < i)
  BY <1>1 DEF OpToRel
<1>3. QED BY <1>2

\* The running sums of the costs of the frames of s, up to its first n.
Sums(g, s, n) ==
  g = [k \in 0 .. n |-> IF k = 0 THEN 0 ELSE g[k - 1] + Cost(s[k])]

\* There are such sums, for any sequence ...
LEMMA SumsExist ==
  ASSUME NEW s, NEW n \in Nat
  PROVE  \E g : Sums(g, s, n)
<1> DEFINE T == {k \in Nat : ~ \E g : Sums(g, s, k)}
<1>1. SUFFICES ASSUME T # {} PROVE FALSE
  OBVIOUS
<1>2. PICK m \in T : \A j \in T : m <= j
  BY <1>1, LeastNat
<1>3. CASE m = 0
  <2> DEFINE g == [k \in 0 .. 0 |-> 0]
  <2>1. Sums(g, s, 0)
    BY DEF Sums
  <2>2. QED BY <2>1, <1>2, <1>3
<1>4. CASE m > 0
  <2>1. m - 1 \in Nat /\ m - 1 \notin T
    BY <1>2, <1>4
  <2>2. PICK h : Sums(h, s, m - 1)
    BY <2>1
  <2> DEFINE g == [k \in 0 .. m |-> IF k = m THEN h[m - 1] + Cost(s[m])
                                             ELSE h[k]]
  <2>3. \A k \in 0 .. m - 1 : /\ h[k] = IF k = 0 THEN 0
                                        ELSE h[k - 1] + Cost(s[k])
                              /\ g[k] = h[k]
    BY <2>2, <1>2 DEF Sums
  <2>4. g[m] = g[m - 1] + Cost(s[m])
    BY <2>3, <1>4, <1>2
  <2>5. ASSUME NEW k \in 0 .. m
        PROVE  g[k] = IF k = 0 THEN 0 ELSE g[k - 1] + Cost(s[k])
    <3>1. CASE k = m BY <3>1, <2>4, <1>4
    <3>2. CASE k = 0
      <4>1. m \in Nat /\ 0 \in 0 .. m - 1
        BY <1>2, <1>4
      <4>2. g[0] = h[0] /\ h[0] = 0
        BY <4>1, <2>3
      <4>3. QED BY <4>2, <3>2
    <3>3. CASE k # 0 /\ k # m
      <4>1. k \in 0 .. m - 1 /\ k - 1 \in 0 .. m - 1
        BY <3>3, <1>2
      <4>2. QED BY <4>1, <3>3, <2>3
    <3>4. QED BY <3>1, <3>2, <3>3
  <2>6. Sums(g, s, m)
    <3> HIDE DEF g
    <3>1. g = [k \in 0 .. m |-> g[k]]
      BY DEF g
    <3>2. QED BY <3>1, <2>5 DEF Sums
  <2>7. QED BY <2>6, <1>2
<1>5. QED BY <1>2, <1>3, <1>4

\* ... each of which follows from the one before ...
LEMMA SumsAt ==
  ASSUME NEW s, NEW n \in Nat, NEW g, Sums(g, s, n)
  PROVE  /\ g[0] = 0
         /\ \A k \in 1 .. n : g[k] = g[k - 1] + Cost(s[k])
<1>1. \A k \in 0 .. n :
        g[k] = IF k = 0 THEN 0 ELSE g[k - 1] + Cost(s[k])
  BY DEF Sums
<1>2. QED BY <1>1

\* ... and the last of which is what Bytes returns.
LEMMA BytesSums ==
  ASSUME NEW s, Len(s) \in Nat
  PROVE  \E g : Sums(g, s, Len(s)) /\ Fifo!Bytes(s) = g[Len(s)]
<1> DEFINE sum == CHOOSE g : Sums(g, s, Len(s))
<1>1. Sums(sum, s, Len(s))
  BY SumsExist
<1>2. Fifo!Bytes(s) = sum[Len(s)]
  BY DEF Fifo!Bytes, Sums
<1>3. QED BY <1>1, <1>2

\* The first n frames of t are those of s after its first d.
Shifted(s, t, d, n) ==
  n <= Len(t) /\ d + n <= Len(s) /\ \A k \in 1 .. n : t[k] = s[d + k]

LEMMA SumsShift ==
  ASSUME NEW s \in Seq(Frames), NEW t \in Seq(Frames), NEW d \in Nat,
         NEW n \in Nat, Shifted(s, t, d, n),
         NEW g, Sums(g, s, Len(s)), NEW h, Sums(h, t, Len(t))
  PROVE  g[d] \in Nat /\ h[n] \in Nat /\ n <= h[n] /\ g[d + n] = g[d] + h[n]
<1> USE DEF Shifted
<1>1. /\ Len(s) \in Nat /\ Len(t) \in Nat
      /\ \A k \in 1 .. Len(s) : Cost(s[k]) \in Nat /\ Cost(s[k]) > 0
      /\ \A k \in 1 .. Len(t) : Cost(t[k]) \in Nat /\ Cost(t[k]) > 0
  <2>1. \A f \in Frames : Cost(f) \in Nat /\ Cost(f) > 0
    BY FrameFits
  <2>2. QED BY <2>1
<1>2. /\ g[0] = 0 /\ h[0] = 0
      /\ \A k \in 1 .. Len(s) : g[k] = g[k - 1] + Cost(s[k])
      /\ \A k \in 1 .. Len(t) : h[k] = h[k - 1] + Cost(t[k])
  BY <1>1, SumsAt
<1>3. \A k \in 0 .. Len(s) : g[k] \in Nat
  <2> DEFINE T == {k \in 0 .. Len(s) : g[k] \notin Nat}
  <2>1. SUFFICES ASSUME T # {} PROVE FALSE
    OBVIOUS
  <2>2. T \in SUBSET Nat
    BY <1>1
  <2>3. PICK m \in T : \A j \in T : m <= j
    BY <2>1, <2>2, LeastNat
  <2>4. m # 0 /\ m \in 1 .. Len(s) /\ m - 1 \in 0 .. Len(s)
    BY <1>1, <1>2
  <2>5. m - 1 \notin T
    BY <2>3, <2>4
  <2>6. QED BY <2>3, <2>4, <2>5, <1>1, <1>2
<1>4. ASSUME NEW k \in 0 .. n
      PROVE  h[k] \in Nat /\ k <= h[k] /\ g[d + k] = g[d] + h[k]
  <2> DEFINE T == {j \in 0 .. n : ~ (/\ h[j] \in Nat /\ j <= h[j]
                                     /\ g[d + j] = g[d] + h[j])}
  <2>1. SUFFICES ASSUME T # {} PROVE FALSE
    OBVIOUS
  <2>2. T \in SUBSET Nat
    OBVIOUS
  <2>3. PICK m \in T : \A j \in T : m <= j
    BY <2>1, <2>2, LeastNat
  <2>4. g[d] \in Nat
    BY <1>1, <1>3
  <2>5. m # 0
    BY <1>2, <2>4
  <2>6. /\ m - 1 \in 0 .. n /\ m - 1 \notin T
        /\ m \in 1 .. Len(t) /\ d + m \in 1 .. Len(s)
        /\ m \in 1 .. n /\ (d + m) - 1 = d + (m - 1)
    BY <1>1, <2>3, <2>5
  <2>7. /\ h[m - 1] \in Nat /\ m - 1 <= h[m - 1]
        /\ g[d + (m - 1)] = g[d] + h[m - 1]
    BY <2>6
  <2>8. h[m] = h[m - 1] + Cost(t[m]) /\ Cost(t[m]) \in Nat /\ Cost(t[m]) > 0
    BY <2>6, <1>1, <1>2
  <2>9. g[d + m] = g[(d + m) - 1] + Cost(s[d + m]) /\ t[m] = s[d + m]
    BY <2>6, <1>2
  <2>10. g[d + m] = g[d] + h[m] /\ h[m] \in Nat /\ m <= h[m]
    BY SMTT(30), <2>4, <2>6, <2>7, <2>8, <2>9
  <2>11. QED BY <2>3, <2>10
<1>5. n \in 0 .. n /\ d \in 0 .. Len(s)
  BY <1>1
<1>6. QED BY <1>3, <1>4, <1>5

\* Bytes of no frame, of a queue with one frame more, and of one without its
\* oldest.
LEMMA BytesFacts ==
  ASSUME NEW s \in Seq(Frames)
  PROVE  /\ Fifo!Bytes(s) \in Nat
         /\ Len(s) <= Fifo!Bytes(s)
         /\ s = <<>> => Fifo!Bytes(s) = 0
         /\ \A f \in Frames :
              Fifo!Bytes(Append(s, f)) = Fifo!Bytes(s) + Cost(f)
         /\ s # <<>> =>
              Fifo!Bytes(s) = Cost(Head(s)) + Fifo!Bytes(Tail(s))
<1>1. PICK h : Sums(h, s, Len(s)) /\ Fifo!Bytes(s) = h[Len(s)]
  BY BytesSums
<1>2. Fifo!Bytes(s) \in Nat /\ Len(s) <= Fifo!Bytes(s)
  <2>1. /\ Len(s) \in Nat /\ 0 \in Nat /\ Shifted(s, s, 0, Len(s))
    BY DEF Shifted
  <2>2. h[Len(s)] \in Nat /\ Len(s) <= h[Len(s)]
    BY <1>1, <2>1, SumsShift
  <2>3. QED BY <1>1, <2>2
<1>3. s = <<>> => Fifo!Bytes(s) = 0
  BY <1>1 DEF Sums
<1>4. ASSUME NEW f \in Frames
      PROVE  Fifo!Bytes(Append(s, f)) = Fifo!Bytes(s) + Cost(f)
  <2> DEFINE a == Append(s, f)
             n == Len(s)
  <2>1. /\ a \in Seq(Frames) /\ n \in Nat /\ Len(a) = n + 1
        /\ a[n + 1] = f /\ \A k \in 1 .. n : s[k] = a[0 + k]
    OBVIOUS
  <2>2. PICK g : Sums(g, a, Len(a)) /\ Fifo!Bytes(a) = g[Len(a)]
    <3> HIDE DEF a
    <3>1. Len(a) \in Nat
      BY <2>1
    <3>2. QED BY <3>1, BytesSums
  <2> HIDE DEF a
  <2> HIDE DEF n
  <2>3. g[n] = g[0] + h[n] /\ h[n] \in Nat
    <3>1. PICK d \in Nat : d = 0
      OBVIOUS
    <3>2. /\ Shifted(a, s, d, n) /\ Sums(h, s, Len(s))
          /\ Sums(g, a, Len(a)) /\ a \in Seq(Frames) /\ n \in Nat
      BY <1>1, <2>1, <2>2, <3>1 DEF n, Shifted
    <3>3. g[d + n] = g[d] + h[n] /\ h[n] \in Nat
      BY <3>2, SumsShift
    <3>4. QED BY <2>1, <3>1, <3>3
  <2>4. g[0] = 0 /\ g[n + 1] = g[n] + Cost(a[n + 1])
    BY <2>1, <2>2, SumsAt
  <2>5. Fifo!Bytes(a) = Fifo!Bytes(s) + Cost(f)
    BY <1>1, <2>1, <2>2, <2>3, <2>4 DEF n
  <2>6. QED BY <2>5 DEF a
<1>5. ASSUME s # <<>>
      PROVE  Fifo!Bytes(s) = Cost(Head(s)) + Fifo!Bytes(Tail(s))
  <2> DEFINE b == Tail(s)
             n == Len(b)
  <2>1. /\ b \in Seq(Frames) /\ n \in Nat /\ Len(s) = 1 + n
        /\ s[1] = Head(s) /\ \A k \in 1 .. n : b[k] = s[1 + k]
        /\ s[1] \in Frames
    BY <1>5
  <2>2. PICK g : Sums(g, b, Len(b)) /\ Fifo!Bytes(b) = g[Len(b)]
    BY <2>1, BytesSums
  <2> HIDE DEF b
  <2> HIDE DEF n
  <2>3. h[1 + n] = h[1] + g[n] /\ g[n] \in Nat
    <3>1. PICK d \in Nat : d = 1
      OBVIOUS
    <3>2. /\ Shifted(s, b, d, n) /\ Sums(h, s, Len(s))
          /\ Sums(g, b, Len(b)) /\ b \in Seq(Frames) /\ n \in Nat
      BY <1>1, <2>1, <2>2, <3>1 DEF n, Shifted
    <3>3. h[d + n] = h[d] + g[n] /\ g[n] \in Nat
      BY <3>2, SumsShift
    <3>4. QED BY <2>1, <3>1, <3>3
  <2>4. h[0] = 0 /\ h[1] = h[0] + Cost(s[1])
    <3>1. 1 \in 1 .. Len(s)
      BY <2>1
    <3>2. QED BY <3>1, <1>1, SumsAt
  <2>5. Cost(s[1]) \in Nat
    BY <2>1, FrameFits
  <2>6. Fifo!Bytes(s) = Cost(Head(s)) + Fifo!Bytes(b)
    BY <1>1, <2>1, <2>2, <2>3, <2>4, <2>5 DEF n
  <2>7. QED BY <2>6 DEF b
<1>6. QED BY <1>2, <1>3, <1>4, <1>5

-----------------------------------------------------------------------------
(***************************************************************************)
(* BytesIntact: walking from the read index on, byte by byte, along the    *)
(* chain, and from the last byte of a frame to the next frame.             *)
(***************************************************************************)
\* The bytes of the frames before frame number id.
Before(id) == Fifo!Bytes(SubSeq(log, oldest, id - 1))

LEMMA BeforeFacts ==
  ASSUME LogInv
  PROVE  /\ Before(oldest) = 0
         /\ \A id \in oldest .. New - 1 :
              Before(id) \in Nat /\ Before(id + 1) = Before(id) + Cost(log[id])
<1>1. log \in Seq(Frames) /\ oldest \in 1 .. Len(log) + 1 /\ Len(log) \in Nat
  BY DEF LogInv, New
<1>2. Before(oldest) = 0
  <2>1. SubSeq(log, oldest, oldest - 1) = <<>>
    BY <1>1
  <2>2. <<>> \in Seq(Frames)
    OBVIOUS
  <2>3. QED BY <2>1, <2>2, BytesFacts DEF Before
<1>3. ASSUME NEW id \in oldest .. New - 1
      PROVE  Before(id) \in Nat /\ Before(id + 1) = Before(id) + Cost(log[id])
  <2> DEFINE s == SubSeq(log, oldest, id - 1)
             t == SubSeq(log, oldest, id)
             n == id - oldest
  <2>1. id \in oldest .. Len(log) /\ n \in Nat /\ (id + 1) - 1 = id
    BY <1>1 DEF New
  <2>2. /\ s \in Seq(Frames) /\ Len(s) = n
        /\ \A k \in 1 .. n : s[k] = log[oldest + k - 1]
    BY <1>1, <2>1
  <2>3. /\ t \in Seq(Frames) /\ Len(t) = n + 1
        /\ \A k \in 1 .. n + 1 : t[k] = log[oldest + k - 1]
    BY <1>1, <2>1
  <2>4. log[id] \in Frames
    BY <1>1, <2>1
  <2>5. t = Append(s, log[id])
    <3> DEFINE v == Append(s, log[id])
    <3> HIDE DEF s, t
    <3>1. /\ v \in Seq(Frames) /\ Len(v) = n + 1 /\ v[n + 1] = log[id]
          /\ \A k \in 1 .. n : v[k] = s[k]
      BY <2>1, <2>2, <2>4
    <3>2. ASSUME NEW k \in 1 .. n + 1 PROVE t[k] = v[k]
      <4>1. CASE k = n + 1
        <5>1. oldest + k - 1 = id
          BY <4>1, <1>1, <2>1
        <5>2. QED BY <4>1, <5>1, <2>3, <3>1
      <4>2. CASE k \in 1 .. n
        BY <4>2, <2>2, <2>3, <3>1
      <4>3. k = n + 1 \/ k \in 1 .. n
        <5> HIDE DEF n
        <5>1. QED BY <2>1
      <4>4. QED BY <4>1, <4>2, <4>3
    <3>3. QED BY <2>3, <3>1, <3>2, SeqEqual
  <2>6. /\ Fifo!Bytes(s) \in Nat
        /\ Fifo!Bytes(Append(s, log[id])) = Fifo!Bytes(s) + Cost(log[id])
    BY <2>2, <2>4, BytesFacts
  <2>7. QED BY <2>1, <2>5, <2>6 DEF Before
<1>4. QED BY <1>2, <1>3

LEMMA BeforeInNat ==
  ASSUME LogInv, NEW id \in oldest .. New
  PROVE  Before(id) \in Nat
<1>1. log \in Seq(Frames) /\ oldest \in 1 .. Len(log) + 1 /\ Len(log) \in Nat
  BY DEF LogInv, New
<1>2. SubSeq(log, oldest, id - 1) \in Seq(Frames)
  BY <1>1 DEF New
<1>3. QED BY <1>2, BytesFacts DEF Before

\* What the positions are made of.
LEMMA PassedFacts ==
  ASSUME RingInv
  PROVE  /\ Passed \in Nat
         /\ Passed > 0 => oldest < New /\ Passed <= Cost(log[oldest])
         /\ pc \in {"giveup", "get"} =>
              Passed = Cost(log[oldest]) - frame_len
         /\ pc \notin {"giveup", "get"} => Passed = 0
<1>1. CASE pc \in {"giveup", "get"}
  <2>1. oldest < New /\ frame_len <= Len(log[oldest]) /\ frame_len \in Nat
    BY <1>1 DEF RingInv, ReadInv, TypeOK
  <2>2. log[oldest] \in Frames
    <3>1. oldest \in 1 .. Len(log) /\ log \in Seq(Frames)
      BY <2>1 DEF RingInv, LogInv, New
    <3>2. QED BY <3>1
  <2>3. Cost(log[oldest]) = Len(log[oldest]) + 2 /\ Len(log[oldest]) \in Nat
    BY <2>2, FrameFits
  <2>4. Passed = Cost(log[oldest]) - frame_len
    BY <1>1 DEF Passed
  <2>5. QED BY <1>1, <2>1, <2>3, <2>4
<1>2. CASE pc \notin {"giveup", "get"}
  BY <1>2 DEF Passed
<1>3. QED BY <1>1, <1>2

\* Byte k of frame number id is in the slot where it is to be read.
InPlace(id, k) ==
  /\ Position(id, k) \in Slots
  /\ owner[Ahead(ReadIndex, Position(id, k))] = id
  /\ offset[Ahead(ReadIndex, Position(id, k))] = k

\* The slots from r on, and the one behind another that is not the last of them.
LEMMA NextSlot ==
  ASSUME NEW r \in Slots, NEW p \in Slots
  PROVE  /\ Ahead(r, p) \in Slots
         /\ Succ(Ahead(r, p)) # r =>
              p + 1 \in Slots /\ Ahead(r, p + 1) = Succ(Ahead(r, p))
BY QueueAssumption DEF Ahead, Succ, Slots

\* What is kept of each frame, without the cases of Kept.
LEMMA KeptFacts ==
  ASSUME RingInv, NEW id \in oldest .. New
  PROVE  /\ Kept(id) \subseteq Nat
         /\ \A k \in Kept(id) :
              /\ id = oldest => Passed <= k
              /\ id < New => k < Cost(log[id])
              /\ id = New => Writing /\ k < done
         /\ id < New => Cost(log[id]) \in Nat /\ Cost(log[id]) > 0
         /\ \A k \in Nat :
              /\ id = oldest => Passed <= k
              /\ id < New => k < Cost(log[id])
              /\ id = New => Writing /\ k < done
              => k \in Kept(id)
<1>1. /\ Passed \in Nat /\ done \in Nat /\ oldest \in Nat /\ New \in Nat
      /\ New = Len(log) + 1 /\ Len(log) \in Nat /\ id \in Nat
  <2>1. Passed \in Nat
    BY PassedFacts
  <2>2. done \in Nat /\ oldest \in Nat /\ New \in Nat
    BY Types DEF RingInv
  <2>3. Len(log) \in Nat /\ New = Len(log) + 1
    BY DEF RingInv, LogInv, New
  <2>4. QED BY <2>1, <2>2, <2>3
<1>2. id < New => Cost(log[id]) \in Nat /\ Cost(log[id]) > 0
  <2>1. SUFFICES ASSUME id < New
                 PROVE  Cost(log[id]) \in Nat /\ Cost(log[id]) > 0
    OBVIOUS
  <2>2. log \in Seq(Frames) /\ id \in 1 .. Len(log)
    BY <1>1, <2>1 DEF RingInv, LogInv
  <2>3. log[id] \in Frames
    BY <2>2
  <2>4. QED BY <2>3, FrameFits
<1>3. PICK lo : lo = IF id = oldest THEN Passed ELSE 0
  OBVIOUS
<1>4. PICK hi : hi = IF id <= Len(log) THEN Cost(log[id])
                     ELSE IF Writing THEN done ELSE 0
  OBVIOUS
<1>5. Kept(id) = lo .. hi - 1
  BY <1>3, <1>4 DEF Kept
<1>6. lo \in Nat /\ (id = oldest => lo = Passed) /\ (id # oldest => lo = 0)
  BY <1>1, <1>3
<1>7. /\ hi \in Nat
      /\ id < New => hi = Cost(log[id])
      /\ id = New => hi = IF Writing THEN done ELSE 0
  BY <1>1, <1>2, <1>4
<1>8. Kept(id) \subseteq Nat
  BY <1>5, <1>6, <1>7
<1>9. \A k \in Nat : k \in Kept(id) <=> lo <= k /\ k < hi
  BY <1>5, <1>6, <1>7
<1>10. ASSUME NEW k \in Nat
       PROVE  k \in Kept(id) <=> /\ id = oldest => Passed <= k
                                 /\ id < New => k < Cost(log[id])
                                 /\ id = New => Writing /\ k < done
  <2>1. lo <= k <=> (id = oldest => Passed <= k)
    BY <1>6
  <2>2. k < hi <=> /\ id < New => k < Cost(log[id])
                   /\ id = New => Writing /\ k < done
    <3>1. CASE id < New BY <3>1, <1>7, <1>1
    <3>2. CASE id = New BY <3>2, <1>7, <1>1
    <3>3. QED BY <3>1, <3>2, <1>1
  <2>3. QED BY <2>1, <2>2, <1>9
<1>11. QED BY <1>2, <1>8, <1>10

\* The byte at the read index, if there is one, is the first that is kept.
LEMMA FirstByte ==
  ASSUME RingInv
  PROVE  /\ Passed \in Kept(oldest) =>
              owner[ReadIndex] = oldest /\ offset[ReadIndex] = Passed
         /\ oldest < New /\ Passed = Cost(log[oldest]) /\ 0 \in Kept(oldest + 1)
              => owner[ReadIndex] = oldest + 1 /\ offset[ReadIndex] = 0
         /\ InRing(ReadIndex) =>
              \/ owner[ReadIndex] = oldest /\ offset[ReadIndex] = Passed
              \/ /\ owner[ReadIndex] = oldest + 1 /\ offset[ReadIndex] = 0
                 /\ oldest < New /\ Passed = Cost(log[oldest])
<1>1. /\ oldest \in Nat /\ New \in Nat /\ oldest <= New /\ done \in Nat
      /\ frame_len \in Nat /\ index_write \in Slots
  BY Types DEF RingInv
<1>2. /\ oldest \in oldest .. New
      /\ oldest < New => oldest + 1 \in oldest .. New
  BY <1>1
<1>3. oldest < New => Cost(log[oldest]) \in Nat /\ Cost(log[oldest]) > 0
  BY <1>2, KeptFacts
<1>4. /\ oldest < New /\ Passed \in Kept(oldest) => Passed < Cost(log[oldest])
      /\ oldest = New /\ Passed \in Kept(oldest) => Writing /\ 0 < done
      /\ oldest + 1 = New /\ 0 \in Kept(oldest + 1) => Writing /\ 0 < done
  <2>1. Passed \in Nat
    BY PassedFacts
  <2>2. /\ oldest < New /\ Passed \in Kept(oldest) => Passed < Cost(log[oldest])
        /\ oldest = New /\ Passed \in Kept(oldest) => Writing /\ Passed < done
    BY <1>2, KeptFacts
  <2>3. oldest + 1 = New /\ 0 \in Kept(oldest + 1) => Writing /\ 0 < done
    BY <1>1, <1>2, KeptFacts
  <2>4. QED BY <2>1, <2>2, <2>3, <1>1
\* What is at index_write.
<1>5. /\ Writing /\ done > 0 => owner[index_write] = New
                                /\ offset[index_write] = 0
      /\ InRing(index_write) => Writing /\ done > 0
  <2>1. Writing /\ done > 0 => owner[index_write] = New
                               /\ offset[index_write] = 0
    BY DEF RingInv, WriteInv
  <2>2. CASE ~ Writing
    <3>1. owner[index_write] = 0
      BY <2>2 DEF RingInv, WriteInv, WriteIndex, Writing
    <3>2. QED BY <2>2, <3>1 DEF InRing
  <2>3. CASE Writing /\ done = 0
    <3>1. pc # "overlap" /\ write = Ahead(index_write, 0)
      BY <2>3 DEF RingInv, WriteInv, ReadInv
    <3>2. Ahead(index_write, 0) = index_write
      BY <1>1, QueueAssumption DEF Ahead, Slots
    <3>3. owner[index_write] = 0
      BY <2>3, <3>1, <3>2 DEF RingInv, WriteInv, WriteIndex
    <3>4. QED BY <2>3, <3>3 DEF InRing
  <2>4. QED BY <2>1, <2>2, <2>3, <1>1
<1>6. CASE pc \in {"giveup", "get"}
  <2>1. /\ oldest < New /\ ReadIndex = read
        /\ Passed = Cost(log[oldest]) - frame_len
    BY <1>6, PassedFacts DEF RingInv, ReadInv, ReadIndex
  <2>2. IF frame_len > 0
        THEN /\ owner[read] = oldest
             /\ offset[read] = Cost(log[oldest]) - frame_len
        ELSE IF oldest < New - 1
             THEN owner[read] = oldest + 1 /\ offset[read] = 0
             ELSE read = index_write
    BY <1>6 DEF RingInv, ReadInv
  <2>3. CASE frame_len > 0
    <3>1. /\ owner[ReadIndex] = oldest /\ offset[ReadIndex] = Passed
          /\ Passed # Cost(log[oldest])
      BY <2>1, <2>2, <2>3, <1>3, <1>1
    <3>2. QED BY <3>1
  <2>4. CASE frame_len = 0 /\ oldest < New - 1
    <3>1. /\ owner[ReadIndex] = oldest + 1 /\ offset[ReadIndex] = 0
          /\ Passed = Cost(log[oldest])
      BY <2>1, <2>2, <2>4, <1>3
    <3>2. Passed \notin Kept(oldest)
      BY <3>1, <2>1, <1>3, <1>4
    <3>3. QED BY <3>1, <3>2, <2>1
  <2>5. CASE frame_len = 0 /\ oldest = New - 1
    <3>1. /\ ReadIndex = index_write /\ oldest + 1 = New
          /\ Passed = Cost(log[oldest])
      BY <2>1, <2>2, <2>5, <1>3, <1>1
    <3>2. Passed \notin Kept(oldest)
      BY <3>1, <2>1, <1>3, <1>4
    <3>3. InRing(index_write) =>
            owner[index_write] = oldest + 1 /\ offset[index_write] = 0
      BY <3>1, <1>5
    <3>4. 0 \in Kept(oldest + 1) =>
            owner[index_write] = oldest + 1 /\ offset[index_write] = 0
      BY <3>1, <1>4, <1>5
    <3>5. QED BY <3>1, <3>2, <3>3, <3>4, <2>1
  <2>6. frame_len = 0 \/ frame_len > 0
    BY <1>1
  <2>7. oldest < New - 1 \/ oldest = New - 1
    BY <2>1, <1>1
  <2>8. QED BY <2>3, <2>4, <2>5, <2>6, <2>7
<1>7. CASE pc \in {"idle", "put", "overlap"}
  <2>1. Passed = 0 /\ (oldest < New => Passed # Cost(log[oldest]))
    BY <1>7, <1>3, PassedFacts
  <2>2. IF oldest < New
        THEN owner[ReadIndex] = oldest /\ offset[ReadIndex] = 0
        ELSE ReadIndex = index_write
    BY <1>7 DEF RingInv, ReadInv
  <2>3. CASE oldest < New
    BY <2>1, <2>2, <2>3
  <2>4. CASE oldest = New
    <3>1. ReadIndex = index_write
      BY <2>2, <2>4, <1>1
    <3>2. Passed \in Kept(oldest) =>
            owner[index_write] = oldest /\ offset[index_write] = Passed
      BY <2>1, <2>4, <1>4, <1>5
    <3>3. InRing(index_write) =>
            owner[index_write] = oldest /\ offset[index_write] = Passed
      BY <2>1, <2>4, <1>5
    <3>4. ~ (oldest < New)
      BY <2>4, <1>1
    <3>5. QED BY <3>1, <3>2, <3>3, <3>4
  <2>5. QED BY <2>3, <2>4, <1>1
<1>8. pc \in {"idle", "put", "overlap", "giveup", "get"}
  BY DEF RingInv, TypeOK
<1>9. QED BY <1>6, <1>7, <1>8

\* From one byte of a frame to the next.
LEMMA NextByteInPlace ==
  ASSUME RingInv, NEW id \in oldest .. New, NEW k \in Nat,
         k \in Kept(id), k + 1 \in Kept(id), InPlace(id, k)
  PROVE  InPlace(id, k + 1)
<1>1. /\ oldest \in Nat /\ New \in Nat /\ oldest <= New /\ oldest > 0
      /\ ReadIndex \in Slots /\ Passed \in Nat /\ id \in Nat
  BY Types, PassedFacts DEF RingInv
<1>2. PICK p \in Slots : p = Position(id, k)
  BY DEF InPlace
<1>3. PICK i \in Slots : i = Ahead(ReadIndex, p)
  BY <1>1, NextSlot
<1>4. owner[i] = id /\ offset[i] = k
  BY <1>2, <1>3 DEF InPlace
<1>5. InRing(i)
  BY <1>1, <1>4 DEF InRing
<1>6. Linked(i)
  BY <1>5 DEF RingInv, LinkedInv
<1>7. owner[Succ(i)] = id /\ offset[Succ(i)] = k + 1
  <2>1. CASE id = New
    <3>1. k + 1 < done
      BY <2>1, KeptFacts
    <3>2. QED BY <2>1, <3>1, <1>4, <1>6 DEF Linked
  <2>2. CASE id < New
    <3>1. k + 1 < Cost(log[id])
      BY <2>2, KeptFacts
    <3>2. QED BY <2>2, <3>1, <1>4, <1>6 DEF Linked
  <2>3. QED BY <2>1, <2>2, <1>1
<1>8. Succ(i) # ReadIndex
  <2>1. SUFFICES ASSUME Succ(i) = ReadIndex PROVE FALSE
    OBVIOUS
  <2>2. owner[ReadIndex] = id /\ offset[ReadIndex] = k + 1 /\ id # 0
    BY <2>1, <1>7, <1>1
  <2>3. id = oldest /\ Passed = k + 1
    BY <2>2, FirstByte DEF InRing
  <2>4. Passed <= k
    BY <2>3, KeptFacts
  <2>5. QED BY <2>3, <2>4, <1>1
<1>9. p + 1 \in Slots /\ Ahead(ReadIndex, p + 1) = Succ(i)
  BY <1>1, <1>3, <1>8, NextSlot
<1>10. Position(id, k + 1) = p + 1
  <2>1. Before(id) \in Nat
    BY <1>1, BeforeInNat DEF RingInv
  <2>2. /\ p = Before(id) + k - Passed
        /\ Position(id, k + 1) = Before(id) + (k + 1) - Passed
    BY <1>2 DEF Position, Before
  <2>3. QED BY <2>1, <2>2, <1>1
<1>11. QED BY <1>7, <1>9, <1>10 DEF InPlace

\* From the last byte of a frame to the first one of the next frame.
LEMMA NextFrameInPlace ==
  ASSUME RingInv, NEW id \in oldest .. New, id < New,
         0 \in Kept(id + 1), NEW k \in Nat, k + 1 = Cost(log[id]),
         k \in Kept(id), InPlace(id, k)
  PROVE  InPlace(id + 1, 0)
<1>1. /\ oldest \in Nat /\ New \in Nat /\ oldest <= New /\ oldest > 0
      /\ ReadIndex \in Slots /\ Passed \in Nat /\ id \in Nat
      /\ id + 1 \in oldest .. New
  BY Types, PassedFacts DEF RingInv
<1>2. PICK p \in Slots : p = Position(id, k)
  BY DEF InPlace
<1>3. PICK i \in Slots : i = Ahead(ReadIndex, p)
  BY <1>1, NextSlot
<1>4. owner[i] = id /\ offset[i] = k
  BY <1>2, <1>3 DEF InPlace
<1>5. InRing(i)
  BY <1>1, <1>4 DEF InRing
<1>6. Linked(i)
  BY <1>5 DEF RingInv, LinkedInv
<1>7. owner[Succ(i)] = id + 1 /\ offset[Succ(i)] = 0
  <2>1. CASE id = New - 1
    <3>1. Succ(i) = index_write
      BY <2>1, <1>4, <1>6 DEF Linked
    <3>2. id + 1 = New
      BY <2>1, <1>1
    <3>3. Writing /\ 0 < done /\ done \in Nat
      BY <3>2, <1>1, KeptFacts DEF RingInv, TypeOK
    <3>4. owner[index_write] = New /\ offset[index_write] = 0
      BY <3>3 DEF RingInv, WriteInv
    <3>5. QED BY <3>1, <3>2, <3>4
  <2>2. CASE id < New - 1
    BY <2>2, <1>4, <1>6 DEF Linked
  <2>3. QED BY <2>1, <2>2, <1>1
<1>8. Succ(i) # ReadIndex
  <2>1. SUFFICES ASSUME Succ(i) = ReadIndex PROVE FALSE
    OBVIOUS
  <2>2. owner[ReadIndex] = id + 1 /\ id + 1 # 0 /\ id + 1 # oldest
    BY <2>1, <1>7, <1>1
  <2>3. id + 1 = oldest + 1 /\ Passed = Cost(log[oldest])
    BY <2>2, FirstByte DEF InRing
  <2>4. id = oldest
    BY <2>3, <1>1
  <2>5. Passed <= k
    BY <2>4, KeptFacts
  <2>6. QED BY <2>3, <2>4, <2>5, <1>1
<1>9. p + 1 \in Slots /\ Ahead(ReadIndex, p + 1) = Succ(i)
  BY <1>1, <1>3, <1>8, NextSlot
<1>10. Position(id + 1, 0) = p + 1
  <2>1. Before(id) \in Nat /\ Before(id + 1) = Before(id) + Cost(log[id])
    <3>1. id \in oldest .. New - 1
      BY <1>1
    <3>2. QED BY <3>1, BeforeFacts DEF RingInv
  <2>2. /\ p = Before(id) + k - Passed
        /\ Position(id + 1, 0) = Before(id + 1) + 0 - Passed
    BY <1>2 DEF Position, Before
  <2>3. QED BY <2>1, <2>2, <1>1
<1>11. QED BY <1>7, <1>9, <1>10 DEF InPlace

\* The first byte that is kept.
LEMMA FirstInPlace ==
  ASSUME RingInv, NEW id \in oldest .. New, NEW k \in Kept(id),
         \/ id = oldest /\ k = Passed
         \/ /\ id = oldest + 1 /\ k = 0
            /\ oldest < New /\ Passed = Cost(log[oldest])
  PROVE  InPlace(id, k)
<1>1. /\ oldest \in Nat /\ New \in Nat /\ ReadIndex \in Slots
      /\ Passed \in Nat /\ 0 \in Slots
  BY Types, PassedFacts, QueueAssumption DEF RingInv, Slots
<1>2. Position(id, k) = 0
  <2>1. Position(id, k) = Before(id) + k - Passed
    BY DEF Position, Before
  <2>2. /\ Before(oldest) = 0
        /\ oldest < New => Before(oldest + 1) = 0 + Cost(log[oldest])
    <3>1. Before(oldest) = 0
      BY BeforeFacts DEF RingInv
    <3>2. oldest < New => oldest \in oldest .. New - 1
      BY <1>1
    <3>3. QED BY <3>1, <3>2, BeforeFacts DEF RingInv
  <2>3. QED BY <2>1, <2>2, <1>1
<1>3. owner[ReadIndex] = id /\ offset[ReadIndex] = k
  BY FirstByte
<1>4. Ahead(ReadIndex, 0) = ReadIndex
  BY <1>1, QueueAssumption DEF Ahead, Slots
<1>5. QED BY <1>1, <1>2, <1>3, <1>4 DEF InPlace

\* A least byte out of place, of the first frame that has one, cannot be.
LEMMA AllInPlace ==
  ASSUME RingInv, NEW id \in oldest .. New, NEW k \in Kept(id)
  PROVE  InPlace(id, k)
<1> DEFINE T == {m \in oldest .. New : \E n \in Kept(m) : ~ InPlace(m, n)}
<1>1. SUFFICES ASSUME T # {} PROVE FALSE
  OBVIOUS
<1>2. oldest \in Nat /\ New \in Nat /\ Passed \in Nat
  BY Types, PassedFacts DEF RingInv
<1>3. PICK m \in T : \A j \in T : m <= j
  <2>1. T \in SUBSET Nat
    BY <1>2
  <2> HIDE DEF T
  <2>2. QED BY <1>1, <2>1, LeastNat
<1>4. m \in oldest .. New /\ m \in Nat
  BY <1>2
<1> DEFINE U == {n \in Kept(m) : ~ InPlace(m, n)}
<1>5. PICK n \in U : \A j \in U : n <= j
  <2>1. U \in SUBSET Nat
    BY <1>4, KeptFacts
  <2>2. U # {}
    BY <1>3
  <2> HIDE DEF U
  <2>3. QED BY <2>1, <2>2, LeastNat
<1>6. n \in Kept(m) /\ ~ InPlace(m, n) /\ n \in Nat
  BY <1>4, <1>5, KeptFacts
<1>7. CASE n > 0 /\ (m = oldest => n > Passed)
  <2>1. PICK q \in Nat : q = n - 1
    BY <1>7, <1>6
  <2>2. q + 1 = n /\ ~ (n <= q)
    BY <2>1, <1>6
  <2>3. q \in Kept(m)
    <3>1. /\ m = oldest => Passed <= q
          /\ m < New => q < Cost(log[m])
          /\ m = New => Writing /\ q < done
      <4>1. m = oldest => Passed <= q
        BY <1>2, <1>6, <1>7, <2>1
      <4>2. m < New => n < Cost(log[m]) /\ Cost(log[m]) \in Nat
        BY <1>4, <1>6, KeptFacts
      <4>3. m = New => Writing /\ n < done /\ done \in Nat
        BY <1>4, <1>6, KeptFacts DEF RingInv, TypeOK
      <4>4. QED BY <4>1, <4>2, <4>3, <2>1, <1>6
    <3>2. QED BY <3>1, <1>4, KeptFacts
  <2>4. InPlace(m, q)
    BY <2>2, <2>3, <1>5
  <2>5. QED BY <2>2, <2>3, <2>4, <1>4, <1>6, NextByteInPlace
<1>8. CASE m = oldest /\ n = Passed
  BY <1>4, <1>6, <1>8, FirstInPlace
<1>9. CASE m # oldest /\ n = 0
  <2>1. PICK d \in Nat : d = m - 1
    BY <1>2, <1>4, <1>9
  <2>2. d \in oldest .. New /\ d < New /\ d + 1 = m /\ ~ (m <= d)
    BY <2>1, <1>2, <1>4, <1>9
  <2>3. Cost(log[d]) \in Nat /\ Cost(log[d]) > 0
    BY <2>2, KeptFacts
  <2>4. PICK c \in Nat : c + 1 = Cost(log[d])
    <3>1. Cost(log[d]) - 1 \in Nat /\ (Cost(log[d]) - 1) + 1 = Cost(log[d])
      BY <2>3
    <3>2. QED BY <3>1
  <2>5. CASE c \in Kept(d)
    <3>1. d \notin T
      BY <2>2, <1>3
    <3>2. InPlace(d, c)
      BY <3>1, <2>2, <2>5
    <3>3. QED BY <2>2, <2>4, <2>5, <3>2, <1>6, <1>9, NextFrameInPlace
  <2>6. CASE c \notin Kept(d)
    <3>1. ~ (d = oldest => Passed <= c)
      <4>1. (d = oldest => Passed <= c) /\ c < Cost(log[d]) /\ d # New
              => c \in Kept(d)
        BY <2>2, KeptFacts
      <4>2. c < Cost(log[d]) /\ d # New
        BY <2>2, <2>4, <1>2
      <4>3. QED BY <4>1, <4>2, <2>6
    <3>2. d = oldest /\ Passed > c
      BY <3>1, <1>2
    <3>3. Passed = Cost(log[oldest])
      <4>1. Passed <= Cost(log[oldest])
        BY <3>2, <1>2, PassedFacts
      <4>2. QED BY <4>1, <3>2, <2>4, <1>2
    <3>4. m = oldest + 1 /\ oldest < New
      BY <2>2, <3>2
    <3>5. QED BY <1>4, <1>6, <1>9, <3>3, <3>4, FirstInPlace
  <2>7. QED BY <2>5, <2>6
<1>10. (m = oldest => Passed <= n)
  BY <1>4, <1>6, KeptFacts
<1>11. QED BY <1>2, <1>6, <1>7, <1>8, <1>9, <1>10

\* From the read index on, the ring spells the frames that were neither read
\* nor given up, and as much of a new one as is written: nothing that is still
\* to be read is ever overwritten.
THEOREM FramesIntact == Spec => []BytesIntact
<1>1. RingInv => BytesIntact
  <2> SUFFICES ASSUME RingInv, NEW id \in oldest .. Len(log) + 1,
                      NEW k \in Kept(id)
               PROVE  /\ Position(id, k) \in Slots
                      /\ buffer[Ahead(ReadIndex, Position(id, k))]
                           = ByteOf(FrameOf(id), k)
    BY DEF BytesIntact
  <2>1. InPlace(id, k)
    BY AllInPlace DEF New
  <2>2. PICK i \in Slots : i = Ahead(ReadIndex, Position(id, k))
    <3>1. ReadIndex \in Slots /\ Position(id, k) \in Slots
      BY <2>1, Types DEF RingInv, InPlace
    <3>2. QED BY <3>1, NextSlot
  <2>3. owner[i] = id /\ offset[i] = k
    BY <2>1, <2>2 DEF InPlace
  <2>4. id # 0
    BY DEF RingInv, LogInv, New
  <2>5. buffer[i] = ByteOf(FrameOf(id), k)
    BY <2>3, <2>4 DEF RingInv, OwnedInv, InRing
  <2>6. QED BY <2>1, <2>2, <2>5 DEF InPlace
<1>2. QED BY <1>1, RingInvariant, PTL

\* The frames after the oldest one.
Rest == SubSeq(log, oldest + 1, Len(log))

\* The slots from r up to w.
Apart(r, w) == IF r <= w THEN w - r ELSE w - r + Size

\* What is between the two indices: the held frames, the part of the new one
\* that is written, what is left of the oldest one when it is being given up or
\* read.  A frame is given up only when the held ones and the new one have
\* filled the ring.
SpaceInv ==
  /\ element_counter = New - oldest
  /\ pc = "idle" => Apart(ReadIndex, WriteIndex) = Fifo!Bytes(Held)
  /\ pc = "put" => Apart(ReadIndex, WriteIndex) = Fifo!Bytes(Held) + done
  /\ pc \in {"overlap", "giveup"} => Fifo!Bytes(Held) + done = Size
  /\ pc = "giveup" =>
       Apart(ReadIndex, WriteIndex) = Fifo!Bytes(Rest) + frame_len + done
  /\ pc = "get" => Apart(ReadIndex, WriteIndex) = Fifo!Bytes(Rest) + frame_len

\* Walking on from either end.
LEMMA ApartFacts ==
  ASSUME NEW r \in Slots, NEW w \in Slots
  PROVE  /\ Apart(r, w) \in 0 .. Size - 1
         /\ Apart(r, w) = 0 <=> r = w
         /\ Apart(r, Succ(w)) = IF Succ(w) = r THEN 0 ELSE Apart(r, w) + 1
         /\ Succ(w) = r => Apart(r, w) = Size - 1
         /\ Apart(Succ(r), w) = IF r = w THEN Size - 1 ELSE Apart(r, w) - 1
BY QueueAssumption DEF Apart, Succ, Slots

\* The end of a sequence from its position k on.
LEMMA EndOf ==
  ASSUME NEW s \in Seq(Frames), NEW k \in 1 .. Len(s) + 1
  PROVE  /\ SubSeq(s, k, Len(s)) \in Seq(Frames)
         /\ Len(SubSeq(s, k, Len(s))) = Len(s) + 1 - k
         /\ k = Len(s) + 1 => SubSeq(s, k, Len(s)) = <<>>
         /\ k <= Len(s) =>
              /\ SubSeq(s, k, Len(s)) # <<>>
              /\ Head(SubSeq(s, k, Len(s))) = s[k]
              /\ Tail(SubSeq(s, k, Len(s))) = SubSeq(s, k + 1, Len(s))
         /\ \A f \in Frames :
              SubSeq(Append(s, f), k, Len(s) + 1)
                = Append(SubSeq(s, k, Len(s)), f)
<1> DEFINE e == SubSeq(s, k, Len(s))
<1>1. /\ e \in Seq(Frames) /\ Len(e) = Len(s) + 1 - k /\ Len(s) \in Nat
      /\ \A i \in 1 .. Len(s) + 1 - k : e[i] = s[k + i - 1]
  OBVIOUS
<1>2. k = Len(s) + 1 => e = <<>>
  BY <1>1
<1>3. ASSUME k <= Len(s)
      PROVE  e # <<>> /\ Head(e) = s[k] /\ Tail(e) = SubSeq(s, k + 1, Len(s))
  <2> DEFINE u == Tail(e)
             v == SubSeq(s, k + 1, Len(s))
  <2>1. e # <<>> /\ Head(e) = s[k]
    <3> HIDE DEF e
    <3>1. Len(e) # 0 /\ 1 \in 1 .. Len(s) + 1 - k /\ k + 1 - 1 = k
      BY <1>1, <1>3
    <3>2. e # <<>> /\ Head(e) = e[1]
      BY <3>1, <1>1
    <3>3. e[1] = s[k]
      BY <3>1, <1>1
    <3>4. QED BY <3>2, <3>3
  <2>2. /\ u \in Seq(Frames) /\ Len(u) = Len(s) - k
        /\ \A i \in 1 .. Len(s) - k : u[i] = s[k + i]
    BY <1>1, <1>3, <2>1
  <2>3. /\ v \in Seq(Frames) /\ Len(v) = Len(s) - k
        /\ \A i \in 1 .. Len(s) - k : v[i] = s[k + i]
    BY <1>3
  <2>4. u = v
    <3> HIDE DEF u, v
    <3>1. \A i \in 1 .. Len(u) : u[i] = v[i]
      BY <2>2, <2>3
    <3>2. QED BY <2>2, <2>3, <3>1, SeqEqual
  <2>5. QED BY <2>1, <2>4
<1>4. ASSUME NEW f \in Frames
      PROVE  SubSeq(Append(s, f), k, Len(s) + 1) = Append(e, f)
  <2> DEFINE u == SubSeq(Append(s, f), k, Len(s) + 1)
             v == Append(e, f)
             n == Len(s) + 2 - k
  <2>1. /\ u \in Seq(Frames) /\ Len(u) = n
        /\ \A i \in 1 .. n : u[i] = Append(s, f)[k + i - 1]
    OBVIOUS
  <2>2. /\ v \in Seq(Frames) /\ Len(v) = n /\ v[n] = f
        /\ \A i \in 1 .. n - 1 : v[i] = s[k + i - 1]
    BY <1>1
  <2>3. \A i \in 1 .. n : u[i] = v[i]
    <3> HIDE DEF u, v
    <3>1. \A i \in 1 .. n - 1 : u[i] = s[k + i - 1]
      BY <2>1
    <3>2. u[n] = f
      BY <2>1
    <3>3. QED BY <2>2, <3>1, <3>2
  <2>4. u = v
    <3> HIDE DEF u, v
    <3>1. QED BY <2>1, <2>2, <2>3, SeqEqual
  <2>5. QED BY <2>4
<1>5. QED BY <1>1, <1>2, <1>3, <1>4

\* What the ring holds, frame by frame.
LEMMA HeldFacts ==
  ASSUME LogInv
  PROVE  /\ Held \in Seq(Frames) /\ Fifo!Bytes(Held) \in Nat
         /\ New \in Nat /\ oldest \in Nat /\ oldest <= New
         /\ Len(Held) = New - oldest /\ New - oldest <= Fifo!Bytes(Held)
         /\ oldest = New => Held = <<>> /\ Fifo!Bytes(Held) = 0
         /\ oldest < New =>
              /\ Held # <<>> /\ Head(Held) = log[oldest] /\ Tail(Held) = Rest
              /\ log[oldest] \in Frames
              /\ Fifo!Bytes(Rest) \in Nat
              /\ Fifo!Bytes(Held)
                   = Len(log[oldest]) + 2 + Fifo!Bytes(Rest)
<1>1. /\ log \in Seq(Frames) /\ oldest \in 1 .. Len(log) + 1
      /\ Len(log) \in Nat
  BY DEF LogInv, New
<1>2. /\ Held \in Seq(Frames) /\ Len(Held) = New - oldest
      /\ oldest = New => Held = <<>>
      /\ oldest < New => /\ Held # <<>> /\ Head(Held) = log[oldest]
                         /\ Tail(Held) = Rest
  BY <1>1, EndOf DEF Held, Rest, New
<1>3. /\ Fifo!Bytes(Held) \in Nat /\ New - oldest <= Fifo!Bytes(Held)
      /\ oldest = New => Fifo!Bytes(Held) = 0
  BY <1>2, BytesFacts
<1>4. ASSUME oldest < New
      PROVE  /\ log[oldest] \in Frames /\ Fifo!Bytes(Rest) \in Nat
             /\ Fifo!Bytes(Held) = Len(log[oldest]) + 2 + Fifo!Bytes(Rest)
  <2>1. log[oldest] \in Frames
    BY <1>1, <1>4 DEF New
  <2>2. oldest + 1 \in 1 .. Len(log) + 1
    BY <1>1, <1>4 DEF New
  <2>3. Rest \in Seq(Frames)
    BY <1>1, <2>2, EndOf DEF Rest
  <2>4. Fifo!Bytes(Rest) \in Nat
    BY <2>3, BytesFacts
  <2>5. Fifo!Bytes(Held) = Cost(log[oldest]) + Fifo!Bytes(Rest)
    BY <1>2, <1>4, BytesFacts
  <2>6. Cost(log[oldest]) = Len(log[oldest]) + 2 /\ Len(log[oldest]) \in Nat
    BY <2>1, FrameFits
  <2>7. QED BY <2>1, <2>4, <2>5, <2>6
<1>5. New \in Nat /\ oldest \in Nat /\ oldest <= New
  BY <1>1 DEF New
<1>6. QED BY <1>2, <1>3, <1>4, <1>5

\* What is held changes only with the log and the oldest frame of it.
LEMMA SameSpace ==
  ASSUME UNCHANGED <<log, oldest>>
  PROVE  Held' = Held /\ Rest' = Rest /\ New' = New
BY DEF Held, Rest, New

-----------------------------------------------------------------------------
(***************************************************************************)
(* SpaceInv holds at first, and every step keeps it.                       *)
(***************************************************************************)
LEMMA InitSpace ==
  ASSUME Init
  PROVE  SpaceInv
<1>1. RingInv /\ pc = "idle" /\ index_read = 0 /\ index_write = 0
      /\ element_counter = 0 /\ oldest = 1 /\ log = <<>>
  BY InitRing DEF Init
<1>2. ReadIndex = 0 /\ WriteIndex = 0 /\ New = 1 /\ 0 \in Slots
  BY <1>1 DEF ReadIndex, WriteIndex, Writing, New, RingInv, TypeOK
<1>3. Fifo!Bytes(Held) = 0
  BY <1>1, <1>2, HeldFacts DEF RingInv
<1>4. Apart(0, 0) = 0
  BY <1>2, ApartFacts
<1>5. QED BY <1>1, <1>2, <1>3, <1>4 DEF SpaceInv

LEMMA WriteBeginSpace ==
  ASSUME RingInv, SpaceInv, NEW f \in Frames, WriteBegin(f)
  PROVE  SpaceInv'
<1>1. /\ pc = "idle" /\ pc' = "put" /\ write' = index_write
      /\ read' = index_read /\ done' = 0
      /\ UNCHANGED <<element_counter, log, oldest>>
  BY DEF WriteBegin, ring, history
<1>2. ReadIndex' = ReadIndex /\ WriteIndex' = WriteIndex
  BY <1>1 DEF ReadIndex, WriteIndex, Writing
<1>3. Held' = Held /\ Rest' = Rest /\ New' = New
  BY <1>1, SameSpace
<1>4. Fifo!Bytes(Held)' = Fifo!Bytes(Held) /\ Fifo!Bytes(Held) \in Nat
  BY <1>3, HeldFacts DEF RingInv
<1>5. QED BY <1>1, <1>2, <1>3, <1>4 DEF SpaceInv

LEMMA PutByteSpace ==
  ASSUME RingInv, SpaceInv, PutByte
  PROVE  SpaceInv'
<1>1. /\ pc = "put" /\ write' = Succ(write) /\ done' = done + 1
      /\ pc' = IF Succ(write) = read THEN "overlap" ELSE "put"
      /\ UNCHANGED <<element_counter, log, oldest, read>>
  BY DEF PutByte
<1>2. /\ ReadIndex = read /\ WriteIndex = write
      /\ ReadIndex' = read /\ WriteIndex' = Succ(write)
  BY <1>1 DEF ReadIndex, WriteIndex, Writing
<1>3. Held' = Held /\ Rest' = Rest /\ New' = New
  BY <1>1, SameSpace
<1>4. Fifo!Bytes(Held)' = Fifo!Bytes(Held) /\ Fifo!Bytes(Held) \in Nat
  BY <1>3, HeldFacts DEF RingInv
<1>5. /\ Apart(read, write) = Fifo!Bytes(Held) + done
      /\ read \in Slots /\ write \in Slots /\ done \in Nat /\ Size \in Nat
  BY <1>1, <1>2, QueueAssumption DEF SpaceInv, RingInv, TypeOK
<1>6. /\ Apart(read, Succ(write))
           = IF Succ(write) = read THEN 0 ELSE Apart(read, write) + 1
      /\ Succ(write) = read => Apart(read, write) = Size - 1
  BY <1>5, ApartFacts
<1>7. CASE Succ(write) = read
  <2>1. Fifo!Bytes(Held)' + done' = Size
    BY <1>1, <1>4, <1>5, <1>6, <1>7
  <2>2. QED BY <1>1, <1>3, <1>7, <2>1 DEF SpaceInv
<1>8. CASE Succ(write) # read
  <2>1. Apart(ReadIndex, WriteIndex)' = Fifo!Bytes(Held)' + done'
    <3>1. Apart(ReadIndex, WriteIndex)' = Apart(read, Succ(write))
      BY <1>2 DEF Apart
    <3>2. QED BY <1>1, <1>4, <1>5, <1>6, <1>8, <3>1
  <2>2. QED BY <1>1, <1>3, <1>8, <2>1 DEF SpaceInv
<1>9. QED BY <1>7, <1>8

\* The two length bytes are given up, or read, together.
LEMMA OverlapLengthSpace ==
  ASSUME RingInv, SpaceInv, OverlapLength
  PROVE  SpaceInv'
<1>1. PICK r \in Slots : r = read
  BY Types DEF RingInv
<1>2. /\ pc = "overlap" /\ pc' = "giveup" /\ frame_len' = LengthAt(r)
      /\ read' = Succ(Succ(r))
      /\ UNCHANGED <<element_counter, log, oldest, write, done>>
  BY <1>1 DEF OverlapLength, ring
<1>3. /\ ReadIndex = r /\ WriteIndex = r /\ ReadIndex' = Succ(Succ(r))
      /\ WriteIndex' = r /\ oldest < New /\ owner[r] = oldest
      /\ offset[r] = 0
  BY <1>1, <1>2 DEF ReadIndex, WriteIndex, Writing, RingInv, ReadInv
<1>4. /\ LengthAt(r) = Len(log[oldest])
      /\ log[oldest] \in Frames
  BY <1>3, LengthFacts DEF RingInv
<1>5. Held' = Held /\ Rest' = Rest /\ New' = New
  BY <1>2, SameSpace
<1>6. /\ Fifo!Bytes(Held) \in Nat /\ Fifo!Bytes(Rest) \in Nat
      /\ Fifo!Bytes(Held) = Len(log[oldest]) + 2 + Fifo!Bytes(Rest)
  BY <1>3, HeldFacts DEF RingInv
<1>7. Fifo!Bytes(Held)' = Fifo!Bytes(Held) /\ Fifo!Bytes(Rest)' = Fifo!Bytes(Rest)
  BY <1>5
<1>8. Succ(r) \in Slots /\ Succ(r) # r
  BY SuccFacts
<1>9. Apart(Succ(r), r) = Size - 1
      /\ Apart(Succ(Succ(r)), r) = Apart(Succ(r), r) - 1
  BY <1>8, ApartFacts
<1>10. Apart(ReadIndex, WriteIndex)' = Apart(Succ(Succ(r)), r)
  BY <1>3 DEF Apart
<1>11. /\ Len(log[oldest]) \in Nat /\ done \in Nat /\ Size \in Nat
  BY <1>4, FrameFits, QueueAssumption DEF RingInv, TypeOK
<1>12. Apart(ReadIndex, WriteIndex)' = Fifo!Bytes(Rest)' + frame_len' + done'
  BY <1>2, <1>4, <1>6, <1>7, <1>9, <1>10, <1>11 DEF SpaceInv
<1>13. QED BY <1>2, <1>5, <1>7, <1>12 DEF SpaceInv

\* A byte of the oldest frame is skipped, or read.
LEMMA ByteSpace ==
  ASSUME RingInv, SpaceInv, pc \in {"giveup", "get"}, pc' = pc,
         frame_len > 0, frame_len' = frame_len - 1, read' = Succ(read),
         UNCHANGED <<element_counter, log, oldest, index_write, write, done>>
  PROVE  SpaceInv'
<1>1. /\ ReadIndex = read /\ ReadIndex' = Succ(read)
      /\ WriteIndex' = WriteIndex /\ oldest < New
  BY DEF ReadIndex, WriteIndex, Writing, RingInv, ReadInv
<1>2. /\ read \in Slots /\ WriteIndex \in Slots /\ frame_len \in Nat
      /\ done \in Nat /\ Size \in Nat
  BY Types, QueueAssumption DEF RingInv
<1>3. Held' = Held /\ Rest' = Rest /\ New' = New
  BY SameSpace
<1>4. Fifo!Bytes(Rest) \in Nat
  BY <1>1, HeldFacts DEF RingInv
<1>5. Fifo!Bytes(Held)' = Fifo!Bytes(Held) /\ Fifo!Bytes(Rest)' = Fifo!Bytes(Rest)
  BY <1>3
<1>6. /\ Apart(read, WriteIndex) = 0 <=> read = WriteIndex
      /\ Apart(Succ(read), WriteIndex)
           = IF read = WriteIndex THEN Size - 1 ELSE Apart(read, WriteIndex) - 1
  BY <1>2, ApartFacts
<1>7. Apart(ReadIndex, WriteIndex)' = Apart(Succ(read), WriteIndex)
  BY <1>1 DEF Apart
<1>8. CASE pc = "giveup"
  <2>1. Apart(read, WriteIndex) = Fifo!Bytes(Rest) + frame_len + done
    BY <1>1, <1>8 DEF SpaceInv
  <2>2. Apart(ReadIndex, WriteIndex)' = Fifo!Bytes(Rest)' + frame_len' + done'
    BY <2>1, <1>2, <1>4, <1>5, <1>6, <1>7
  <2>3. QED BY <2>2, <1>3, <1>5, <1>8 DEF SpaceInv
<1>9. CASE pc = "get"
  <2>1. Apart(read, WriteIndex) = Fifo!Bytes(Rest) + frame_len
    BY <1>1, <1>9 DEF SpaceInv
  <2>2. Apart(ReadIndex, WriteIndex)' = Fifo!Bytes(Rest)' + frame_len'
    BY <2>1, <1>2, <1>4, <1>5, <1>6, <1>7
  <2>3. QED BY <2>2, <1>3, <1>5, <1>9 DEF SpaceInv
<1>10. QED BY <1>8, <1>9

\* Inside its range, the counter counts.
LEMMA CounterSteps ==
  \A n \in Int :
    /\ 1 <= n /\ n <= 65535 => (n - 1) % 65536 = n - 1
    /\ 0 <= n /\ n < 65535 => (n + 1) % 65536 = n + 1
BY SMTT(30)

LEMMA CountsDown ==
  ASSUME RingInv, SpaceInv, oldest < New
  PROVE  (element_counter - 1) % 65536 = element_counter - 1
<1>1. element_counter \in Nat /\ element_counter <= 65535
  <2>1. element_counter \in Uint16
    BY Zenon DEF RingInv, TypeOK
  <2>2. QED BY <2>1 DEF Uint16
<1>2. element_counter = New - oldest
  BY DEF SpaceInv
<1>3. New \in Nat /\ oldest \in Nat
  BY Types DEF RingInv
<1>4. 1 <= element_counter
  BY <1>1, <1>2, <1>3
<1>5. QED BY <1>1, <1>4, CounterSteps

\* The oldest frame is gone: it was counted, and the others are held.
LEMMA EndSpace ==
  ASSUME RingInv, SpaceInv,
         \/ pc = "giveup" /\ pc' = "put" /\ read' = read
         \/ pc = "get" /\ pc' = "idle" /\ index_read' = read,
         frame_len = 0, oldest' = oldest + 1,
         element_counter' = element_counter - 1,
         UNCHANGED <<log, index_write, write, done>>
  PROVE  SpaceInv'
<1>1. /\ ReadIndex = read /\ ReadIndex' = read
      /\ WriteIndex' = WriteIndex /\ oldest < New
  BY DEF ReadIndex, WriteIndex, Writing, RingInv, ReadInv
<1>2. /\ Tail(Held) = Rest /\ Fifo!Bytes(Rest) \in Nat
      /\ New \in Nat /\ oldest \in Nat
  BY <1>1, HeldFacts DEF RingInv
<1>3. Held' = Rest /\ New' = New
  BY DEF Held, Rest, New
<1>4. Fifo!Bytes(Held)' = Fifo!Bytes(Rest)
  BY <1>3
<1>5. element_counter' = New' - oldest'
  BY <1>2, <1>3 DEF SpaceInv
<1>6. Apart(ReadIndex, WriteIndex)' = Apart(ReadIndex, WriteIndex)
  BY <1>1 DEF Apart
<1>7. CASE pc = "giveup" /\ pc' = "put"
  <2>1. Apart(ReadIndex, WriteIndex) = Fifo!Bytes(Rest) + done
    BY <1>2, <1>7 DEF SpaceInv, RingInv, TypeOK
  <2>2. QED BY <2>1, <1>4, <1>5, <1>6, <1>7 DEF SpaceInv
<1>8. CASE pc = "get" /\ pc' = "idle"
  <2>1. Apart(ReadIndex, WriteIndex) = Fifo!Bytes(Rest)
    BY <1>2, <1>8 DEF SpaceInv
  <2>2. QED BY <2>1, <1>4, <1>5, <1>6, <1>8 DEF SpaceInv
<1>9. QED BY <1>7, <1>8

\* What is held once a frame has been written.
LEMMA HeldAppended ==
  ASSUME log \in Seq(Frames), oldest \in 1 .. Len(log) + 1, frame \in Frames,
         log' = Append(log, frame), oldest' = oldest
  PROVE  Held' = Append(Held, frame) /\ New' = New + 1
<1>1. Len(log') = Len(log) + 1
  OBVIOUS
<1>2. SubSeq(Append(log, frame), oldest, Len(log) + 1)
        = Append(SubSeq(log, oldest, Len(log)), frame)
  BY EndOf
<1>3. Held' = SubSeq(log', oldest, Len(log'))
  BY DEF Held
<1>4. Held' = SubSeq(Append(log, frame), oldest, Len(log) + 1)
  BY <1>1, <1>3, Zenon
<1>5. Held' = Append(Held, frame)
  BY <1>2, <1>4, Zenon DEF Held
<1>6. New' = New + 1
  BY <1>1 DEF New
<1>7. QED BY <1>5, <1>6

\* The new frame is held: there is room for it, so the counter does not wrap.
LEMMA WriteEndSpace ==
  ASSUME RingInv, SpaceInv, WriteEnd
  PROVE  SpaceInv'
<1>1. /\ pc = "put" /\ pc' = "idle" /\ done = Cost(frame)
      /\ index_write' = write /\ index_read' = read
      /\ element_counter' = (element_counter + 1) % 65536
      /\ log' = Append(log, frame) /\ oldest' = oldest
  BY DEF WriteEnd
<1>2. /\ ReadIndex = read /\ WriteIndex = write
      /\ ReadIndex' = read /\ WriteIndex' = write
  BY <1>1 DEF ReadIndex, WriteIndex, Writing
<1>3. /\ frame \in Frames /\ log \in Seq(Frames)
      /\ oldest \in 1 .. Len(log) + 1 /\ Len(log) \in Nat
  BY <1>1 DEF RingInv, LogInv, Writing, New
<1>4. Held' = Append(Held, frame) /\ New' = New + 1
  BY <1>1, <1>3, HeldAppended
<1>5. /\ Held \in Seq(Frames) /\ Fifo!Bytes(Held) \in Nat
      /\ New \in Nat /\ oldest \in Nat /\ New - oldest <= Fifo!Bytes(Held)
      /\ oldest <= New
  BY HeldFacts DEF RingInv
<1>6. Fifo!Bytes(Held)' = Fifo!Bytes(Held) + Cost(frame)
  <2>1. Fifo!Bytes(Append(Held, frame)) = Fifo!Bytes(Held) + Cost(frame)
    BY <1>3, <1>5, BytesFacts
  <2>2. QED BY <2>1, <1>4
<1>7. /\ Apart(read, write) = Fifo!Bytes(Held) + Cost(frame)
      /\ Apart(read, write) \in 0 .. Size - 1 /\ Cost(frame) \in Nat
  <2>1. Apart(read, write) = Fifo!Bytes(Held) + Cost(frame)
    BY <1>1, <1>2 DEF SpaceInv
  <2>2. Apart(read, write) \in 0 .. Size - 1
    BY ApartFacts DEF RingInv, TypeOK
  <2>3. QED BY <2>1, <2>2, <1>3, FrameFits
<1>8. element_counter' = New' - oldest'
  <2>1. /\ element_counter = New - oldest
        /\ element_counter \in Nat /\ element_counter < 65535
    <3>1. element_counter = New - oldest
      BY DEF SpaceInv
    <3>2. QED BY <3>1, <1>5, <1>7, QueueAssumption
  <2>2. (element_counter + 1) % 65536 = element_counter + 1
    BY <2>1, CounterSteps
  <2>3. element_counter' = element_counter + 1
    <3>1. element_counter' = (element_counter + 1) % 65536
      BY DEF WriteEnd
    <3>2. QED BY <2>2, <3>1
  <2>4. element_counter = New - oldest /\ New' = New + 1 /\ oldest' = oldest
    BY <2>1, <1>1, <1>4
  <2>5. QED BY <2>3, <2>4, <1>5
<1>9. Apart(ReadIndex, WriteIndex)' = Fifo!Bytes(Held)'
  <2>1. Apart(ReadIndex, WriteIndex)' = Apart(read, write)
    BY <1>2 DEF Apart
  <2>2. QED BY <2>1, <1>6, <1>7
<1>10. QED BY <1>1, <1>8, <1>9 DEF SpaceInv

\* Different indices: there is a frame to read.
LEMMA IdleSpace ==
  ASSUME RingInv, SpaceInv, pc = "idle"
  PROVE  /\ index_read = index_write <=> oldest = New
         /\ element_counter = 0 <=> index_read = index_write
<1>1. ReadIndex = index_read /\ WriteIndex = index_write
  BY DEF ReadIndex, WriteIndex, Writing
<1>2. Apart(index_read, index_write) = 0 <=> index_read = index_write
  BY ApartFacts DEF RingInv, TypeOK
<1>3. Apart(index_read, index_write) = Fifo!Bytes(Held)
  BY <1>1 DEF SpaceInv
<1>4. /\ Fifo!Bytes(Held) \in Nat /\ New \in Nat /\ oldest \in Nat
      /\ oldest <= New /\ New - oldest <= Fifo!Bytes(Held)
      /\ oldest = New => Fifo!Bytes(Held) = 0
  BY HeldFacts DEF RingInv
<1>5. element_counter = New - oldest
  BY DEF SpaceInv
<1>6. QED BY <1>2, <1>3, <1>4, <1>5

LEMMA ReadBeginSpace ==
  ASSUME RingInv, SpaceInv, ReadBegin
  PROVE  SpaceInv'
<1>1. PICK r \in Slots : r = index_read
  BY Types DEF RingInv
<1>2. /\ pc = "idle" /\ pc' = "get" /\ frame_len' = LengthAt(r)
      /\ read' = Succ(Succ(r)) /\ index_read # index_write
      /\ UNCHANGED <<element_counter, log, oldest, index_write>>
  BY <1>1 DEF ReadBegin, ring
<1>3. /\ ReadIndex = r /\ WriteIndex = index_write
      /\ ReadIndex' = Succ(Succ(r)) /\ WriteIndex' = index_write
  BY <1>1, <1>2 DEF ReadIndex, WriteIndex, Writing
<1>4. oldest < New
  BY <1>2, IdleSpace, HeldFacts DEF RingInv
<1>5. owner[r] = oldest /\ offset[r] = 0
  BY <1>2, <1>3, <1>4 DEF RingInv, ReadInv
<1>6. LengthAt(r) = Len(log[oldest]) /\ log[oldest] \in Frames
  BY <1>4, <1>5, LengthFacts DEF RingInv
<1>7. Held' = Held /\ Rest' = Rest /\ New' = New
  BY <1>2, SameSpace
<1>8. /\ Fifo!Bytes(Held) \in Nat /\ Fifo!Bytes(Rest) \in Nat
      /\ Fifo!Bytes(Held) = Len(log[oldest]) + 2 + Fifo!Bytes(Rest)
  BY <1>4, HeldFacts DEF RingInv
<1>9. Fifo!Bytes(Rest)' = Fifo!Bytes(Rest)
  BY <1>7
<1>10. /\ Succ(r) \in Slots /\ index_write \in Slots
       /\ Len(log[oldest]) \in Nat /\ Size \in Nat
  BY <1>6, SuccFacts, FrameFits, QueueAssumption DEF RingInv, TypeOK
<1>11. Apart(r, index_write) = Fifo!Bytes(Held)
  BY <1>2, <1>3 DEF SpaceInv
<1>12. Apart(Succ(r), index_write) = Apart(r, index_write) - 1
  BY <1>1, <1>2, <1>10, ApartFacts
<1>13. Apart(Succ(r), index_write) # 0
  BY <1>8, <1>10, <1>11, <1>12
<1>14. Succ(r) # index_write
  BY <1>10, <1>13, ApartFacts
<1>15. Apart(Succ(Succ(r)), index_write) = Apart(Succ(r), index_write) - 1
  BY <1>10, <1>14, ApartFacts
<1>16. Apart(ReadIndex, WriteIndex)' = Apart(Succ(Succ(r)), index_write)
  BY <1>3 DEF Apart
<1>17. Apart(ReadIndex, WriteIndex)' = Fifo!Bytes(Rest)' + frame_len'
  BY <1>2, <1>6, <1>8, <1>9, <1>10, <1>11, <1>12, <1>15, <1>16
<1>18. QED BY <1>2, <1>7, <1>17 DEF SpaceInv

LEMMA ClearAllSpace ==
  ASSUME RingInv, SpaceInv, ClearAll
  PROVE  SpaceInv' /\ Held' = <<>>
<1>1. /\ pc = "idle" /\ pc' = "idle" /\ index_read' = 0 /\ index_write' = 0
      /\ element_counter' = 0 /\ oldest' = New /\ log' = log
  BY DEF ClearAll, New
<1>2. ReadIndex' = 0 /\ WriteIndex' = 0 /\ New' = New /\ 0 \in Slots
  BY <1>1, QueueAssumption DEF ReadIndex, WriteIndex, Writing, New, Slots
<1>3. Held' = SubSeq(log, New, Len(log))
  BY <1>1 DEF Held
<1>4. log \in Seq(Frames) /\ New = Len(log) + 1 /\ New \in 1 .. Len(log) + 1
  BY DEF RingInv, LogInv, New
<1>5. Held' = <<>>
  BY <1>3, <1>4, EndOf
<1>6. <<>> \in Seq(Frames)
  OBVIOUS
<1>7. Fifo!Bytes(Held)' = 0
  BY <1>5, <1>6, BytesFacts
<1>8. Apart(ReadIndex, WriteIndex)' = 0
  <2>1. Apart(0, 0) = 0
    BY <1>2, ApartFacts
  <2>2. QED BY <2>1, <1>2 DEF Apart
<1>9. New \in Nat
  BY <1>4
<1>10. QED BY <1>1, <1>2, <1>5, <1>7, <1>8, <1>9 DEF SpaceInv

-----------------------------------------------------------------------------
\* The bytes between the two indices are accounted for at every step.
THEOREM SpaceInvariant == Spec => []SpaceInv
<1>1. Init => SpaceInv
  BY InitSpace
<1>2. RingInv /\ SpaceInv /\ [Next]_vars => SpaceInv'
  <2> SUFFICES ASSUME RingInv, SpaceInv, [Next]_vars
               PROVE  SpaceInv'
    OBVIOUS
  <2>1. ASSUME NEW f \in Frames, WriteBegin(f) PROVE SpaceInv'
    BY <2>1, WriteBeginSpace
  <2>2. CASE PutByte
    BY <2>2, PutByteSpace
  <2>3. CASE OverlapLength
    BY <2>3, OverlapLengthSpace
  <2>4. CASE SkipByte
    BY <2>4, ByteSpace DEF SkipByte, ring
  <2>5. CASE GiveUpEnd
    <3>1. oldest < New
      BY <2>5 DEF GiveUpEnd, RingInv, ReadInv
    <3>2. element_counter' = element_counter - 1
      <4>1. element_counter' = (element_counter - 1) % 65536
        BY <2>5 DEF GiveUpEnd
      <4>2. (element_counter - 1) % 65536 = element_counter - 1
        BY <3>1, CountsDown
      <4>3. QED BY <4>1, <4>2
    <3>3. QED BY <2>5, <3>2, EndSpace DEF GiveUpEnd
  <2>6. CASE WriteEnd
    BY <2>6, WriteEndSpace
  <2>7. CASE ReadBegin
    BY <2>7, ReadBeginSpace
  <2>8. CASE GetByte
    <3>1. /\ pc \in {"giveup", "get"} /\ pc' = pc /\ frame_len > 0
          /\ frame_len' = frame_len - 1 /\ read' = Succ(read)
          /\ UNCHANGED <<element_counter, log, oldest, index_write, write, done>>
      BY <2>8 DEF GetByte, ring
    <3>2. QED BY <3>1, ByteSpace
  <2>9. CASE ReadEnd
    <3>1. oldest < New
      BY <2>9 DEF ReadEnd, RingInv, ReadInv
    <3>2. element_counter' = element_counter - 1
      <4>1. element_counter' = (element_counter - 1) % 65536
        BY <2>9 DEF ReadEnd
      <4>2. (element_counter - 1) % 65536 = element_counter - 1
        BY <3>1, CountsDown
      <4>3. QED BY <4>1, <4>2
    <3>3. QED BY <2>9, <3>2, EndSpace DEF ReadEnd
  <2>10. CASE ReadEmpty
    <3>1. UNCHANGED <<index_write, index_read, element_counter, pc, write, read,
                      done, frame_len, log, oldest>>
      BY <2>10 DEF ReadEmpty, ring, history
    <3>2. QED BY <3>1
              DEF SpaceInv, New, Held, Rest, ReadIndex, WriteIndex, Writing, Apart
  <2>11. CASE ClearAll
    BY <2>11, ClearAllSpace
  <2>12. CASE UNCHANGED vars
    <3>1. UNCHANGED <<index_write, index_read, element_counter, pc, write, read,
                      done, frame_len, log, oldest>>
      BY <2>12 DEF vars
    <3>2. QED BY <3>1
              DEF SpaceInv, New, Held, Rest, ReadIndex, WriteIndex, Writing, Apart
  <2>13. QED
    BY <2>1, <2>2, <2>3, <2>4, <2>5, <2>6, <2>7, <2>8, <2>9, <2>10, <2>11,
       <2>12 DEF Next
<1>3. QED BY <1>1, <1>2, RingInvariant, PTL DEF Spec

\* element_counter is the number of frames in the ring, and 0 exactly when
\* the indices are equal.
THEOREM CounterIsExact == Spec => []CounterExact
<1>1. RingInv /\ SpaceInv => CounterExact
  <2> SUFFICES ASSUME RingInv, SpaceInv, pc = "idle"
               PROVE  /\ element_counter = Len(log) + 1 - oldest
                      /\ (element_counter = 0) <=> (index_read = index_write)
    BY DEF CounterExact
  <2>1. element_counter = Len(log) + 1 - oldest
    <3>1. element_counter = New - oldest
      BY DEF SpaceInv
    <3>2. Len(log) \in Nat /\ oldest \in Nat
      BY DEF RingInv, LogInv, TypeOK
    <3>3. QED BY <3>1, <3>2 DEF New
  <2>2. QED BY <2>1, IdleSpace
<1>2. QED BY <1>1, RingInvariant, SpaceInvariant, PTL

-----------------------------------------------------------------------------
(***************************************************************************)
(* The refinement of DropOldestFifo: what each step is to a user of the    *)
(* queue.                                                                  *)
(***************************************************************************)
\* A frame is queued, or what is held and was returned is left alone.
LEMMA OfferStep ==
  ASSUME RingInv, NEW f \in Frames, WriteBegin(f)
  PROVE  Fifo!Offer(f)
<1>1. ~ Writing /\ Writing' /\ frame' = f /\ UNCHANGED <<log, oldest, result>>
  BY DEF WriteBegin, Writing, history
<1>2. Held' = Held
  BY <1>1, SameSpace
<1>3. QED BY <1>1, <1>2 DEF Fifo!Offer

LEMMA StutterStep ==
  ASSUME UNCHANGED <<log, oldest, frame, result>>, Writing' = Writing
  PROVE  UNCHANGED Fifo!fifoVars
<1>1. Held' = Held
  BY SameSpace
<1>2. QED BY <1>1 DEF Fifo!fifoVars

\* A frame is given up only while the new one does not fit.
LEMMA GiveUpStep ==
  ASSUME RingInv, SpaceInv, GiveUpEnd
  PROVE  Fifo!GiveUpOldest
<1>1. /\ pc = "giveup" /\ Writing /\ Writing'
      /\ oldest' = oldest + 1 /\ UNCHANGED <<frame, log, result>>
  BY DEF GiveUpEnd, Writing
<1>2. oldest < New
  BY <1>1 DEF RingInv, ReadInv
<1>3. Held # <<>> /\ Tail(Held) = Rest /\ Fifo!Bytes(Held) \in Nat
  BY <1>2, HeldFacts DEF RingInv
<1>4. Held' = Tail(Held)
  BY <1>1, <1>3 DEF Held, Rest
<1>5. frame \in Frames /\ done \in Nat /\ done <= Cost(frame)
  BY <1>1 DEF RingInv, TypeOK, LogInv
<1>6. frame # <<>> /\ Cost(frame) \in Nat
  BY <1>5, FrameFits
<1>7. Fifo!Bytes(Held) + done = Size /\ Size \in Nat
  BY <1>1, QueueAssumption DEF SpaceInv
<1>8. ~ (Fifo!Bytes(Held) + Cost(frame) <= Size - 1)
  BY <1>3, <1>5, <1>6, <1>7
<1>9. ~ Fifo!Fits(frame)
  BY <1>8 DEF Fifo!Fits
<1>10. QED BY <1>1, <1>3, <1>4, <1>6, <1>9 DEF Fifo!GiveUpOldest

\* A frame is accepted only when it fits with those that are held.
LEMMA AcceptStep ==
  ASSUME RingInv, SpaceInv, WriteEnd
  PROVE  Fifo!Accept
<1>1. /\ pc = "put" /\ Writing /\ ~ Writing' /\ done = Cost(frame)
      /\ log' = Append(log, frame) /\ UNCHANGED <<oldest, result>>
  BY DEF WriteEnd, Writing
<1>2. /\ frame \in Frames /\ log \in Seq(Frames)
      /\ oldest \in 1 .. Len(log) + 1
  BY <1>1 DEF RingInv, LogInv, New
<1>3. frame # <<>> /\ Cost(frame) \in Nat
  BY <1>2, FrameFits
<1>4. Held' = Append(Held, frame)
  BY <1>1, <1>2, HeldAppended
<1>5. Apart(read, write) = Fifo!Bytes(Held) + Cost(frame)
  BY <1>1 DEF SpaceInv, ReadIndex, WriteIndex
<1>6. Apart(read, write) \in 0 .. Size - 1 /\ Size \in Nat
  BY ApartFacts, QueueAssumption DEF RingInv, TypeOK
<1>7. Fifo!Bytes(Held) + Cost(frame) <= Size - 1
  BY <1>5, <1>6
<1>8. Fifo!Fits(frame)
  BY <1>7 DEF Fifo!Fits
<1>9. QED BY <1>1, <1>3, <1>4, <1>8 DEF Fifo!Accept

\* A read delivers the oldest frame, whole.
LEMMA TakeStep ==
  ASSUME RingInv, SpaceInv, ReadEnd
  PROVE  Fifo!Take
<1>1. /\ pc = "get" /\ ~ Writing /\ ~ Writing' /\ frame_len = 0
      /\ oldest' = oldest + 1 /\ result' = out /\ UNCHANGED <<frame, log>>
  BY DEF ReadEnd, Writing
<1>2. oldest < New
  BY <1>1 DEF RingInv, ReadInv
<1>3. /\ Held # <<>> /\ Tail(Held) = Rest /\ Head(Held) = log[oldest]
      /\ log[oldest] \in Frames
  BY <1>2, HeldFacts DEF RingInv
<1>4. Held' = Tail(Held)
  BY <1>1, <1>3 DEF Held, Rest
<1>5. out = log[oldest]
  <2>1. /\ out \in Seq(Byte) /\ log[oldest] \in Seq(Byte)
        /\ Len(out) \in Nat /\ Len(log[oldest]) \in Nat
    BY <1>3, FrameFits DEF RingInv, TypeOK
  <2>2. /\ Len(out) = Len(log[oldest])
        /\ \A j \in 1 .. Len(out) : out[j] = log[oldest][j]
    BY <1>1, <2>1 DEF RingInv, ReadsOldest
  <2>3. QED BY <2>1, <2>2, SeqEqual
<1>6. QED BY <1>1, <1>3, <1>4, <1>5 DEF Fifo!Take

\* Equal indices: there is nothing to deliver.
LEMMA TakeNothingStep ==
  ASSUME RingInv, SpaceInv, ReadEmpty
  PROVE  Fifo!TakeNothing
<1>1. /\ pc = "idle" /\ ~ Writing /\ ~ Writing' /\ result' = <<>>
      /\ index_read = index_write /\ UNCHANGED <<frame, log, oldest>>
  BY DEF ReadEmpty, Writing, history
<1>2. oldest = New
  BY <1>1, IdleSpace
<1>3. Held = <<>> /\ Held' = Held
  BY <1>1, <1>2, HeldFacts, SameSpace DEF RingInv
<1>4. QED BY <1>1, <1>3 DEF Fifo!TakeNothing

LEMMA ClearStep ==
  ASSUME RingInv, SpaceInv, ClearAll
  PROVE  Fifo!Clear
<1>1. ~ Writing /\ ~ Writing' /\ UNCHANGED <<frame, result>>
  BY DEF ClearAll, Writing
<1>2. QED BY <1>1, ClearAllSpace DEF Fifo!Clear

\* ES_Queue keeps the promise made to its users: a first-in first-out queue
\* that never refuses a frame, gives up its oldest ones, and no more of them
\* than the new frame needs.
THEOREM RingIsDropOldestFifo == Spec => IsDropOldestFifo
<1>1. Init => Fifo!Init
  <2> SUFFICES ASSUME Init PROVE Fifo!Init
    OBVIOUS
  <2>1. RingInv /\ oldest = New /\ ~ Writing /\ result = <<>>
    BY InitRing DEF Init, New, Writing
  <2>2. Held = <<>>
    BY <2>1, HeldFacts DEF RingInv
  <2>3. QED BY <2>1, <2>2 DEF Fifo!Init
<1>2. RingInv /\ SpaceInv /\ [Next]_vars => [Fifo!Next]_(Fifo!fifoVars)
  <2> SUFFICES ASSUME RingInv, SpaceInv, [Next]_vars
               PROVE  Fifo!Next \/ UNCHANGED Fifo!fifoVars
    OBVIOUS
  <2>1. ASSUME NEW f \in Frames, WriteBegin(f) PROVE Fifo!Next
    BY <2>1, OfferStep DEF Fifo!Next
  <2>2. CASE PutByte
    BY <2>2, StutterStep DEF PutByte, Writing
  <2>3. CASE OverlapLength
    BY <2>3, StutterStep DEF OverlapLength, Writing
  <2>4. CASE SkipByte
    BY <2>4, StutterStep DEF SkipByte, Writing
  <2>5. CASE GiveUpEnd
    BY <2>5, GiveUpStep DEF Fifo!Next
  <2>6. CASE WriteEnd
    BY <2>6, AcceptStep DEF Fifo!Next
  <2>7. CASE ReadBegin
    BY <2>7, StutterStep DEF ReadBegin, Writing
  <2>8. CASE GetByte
    BY <2>8, StutterStep DEF GetByte, Writing
  <2>9. CASE ReadEnd
    BY <2>9, TakeStep DEF Fifo!Next
  <2>10. CASE ReadEmpty
    BY <2>10, TakeNothingStep DEF Fifo!Next
  <2>11. CASE ClearAll
    BY <2>11, ClearStep DEF Fifo!Next
  <2>12. CASE UNCHANGED vars
    BY <2>12, StutterStep DEF vars, Writing
  <2>13. QED
    BY <2>1, <2>2, <2>3, <2>4, <2>5, <2>6, <2>7, <2>8, <2>9, <2>10, <2>11,
       <2>12 DEF Next
<1>3. QED
  BY <1>1, <1>2, RingInvariant, SpaceInvariant, PTL
     DEF Spec, IsDropOldestFifo, Fifo!Spec
=============================================================================
