------------------------------ MODULE FdsQueue ------------------------------
(***************************************************************************)
(* The queue of operations of the file system (fds.c), as this firmware is *)
(* built: FDS_THREADS is not defined, so CRITICAL_SECTION_ENTER and _EXIT  *)
(* are empty (fds_internal_defs.h:327).  The main loop writes the name and *)
(* the frame windows through write_enqueue (eMemory_Write), the Peer       *)
(* Manager its bonds in the interrupt of a BLE event, and the end of every *)
(* flash operation is handled in an interrupt of the same priority.        *)
(*                                                                         *)
(* A step of the main loop is one access to what an interrupt changes; an  *)
(* interrupt is one step.  An operation is its ticket, its record identity *)
(* and the flash operations it still has to start.  What it does to the    *)
(* pages is the matter of FdsPages.                                        *)
(***************************************************************************)
EXTENDS Integers, Sequences, FiniteSets

CONSTANTS
  QueueSize,               \* FDS_OP_QUEUE_SIZE
  Steps,                   \* the flash operations of a write
  MaxWrites                \* bound: the calls of write_enqueue

ASSUME FdsQueueAssumption ==
  /\ QueueSize \in Nat \ {0}
  /\ Steps \in Nat \ {0}
  /\ MaxWrites \in Nat

VARIABLES
  op, rp, count,           \* m_op_queue
  processing,              \* FDS_FLAG_PROCESSING
  flashOps,                \* flash operations started, not yet ended
  words_reserved,          \* of the page written to, in records
  m_latest_rec_id,
  pc,                      \* where the main loop is in write_enqueue
  reg,                     \* what it has loaded: a counter, its record, a slot
  inIsr,                   \* the interrupt is about to call queue_process
  \* History, read by no action of the code:
  writes,                  \* calls so far, each with its number as a ticket
  accepted,                \* those that returned FDS_SUCCESS, in that order
  ended,                   \* those whose event was sent, in that order
  ids,                     \* the record identity of each call
  hit                      \* the places where an interrupt did harm

queueVars == <<op, rp, count>>
counters == <<words_reserved, m_latest_rec_id>>
mainVars == <<pc, reg>>
history == <<writes, accepted, ended, ids, hit>>
vars == <<queueVars, processing, flashOps, counters, mainVars, inIsr, history>>

\* The places of the main loop where an interrupt that changes what was loaded
\* or tested does harm: a counter ("reserve", "free", "count"), the latest
\* identity ("id", "idRead"), the free slot ("choose") or the slot chosen
\* ("slot", "countLoad", "count"), the flag ("start").
QueuePlace == {"choose", "slot", "countLoad", "count"}
Place == QueuePlace \union {"reserve", "free", "id", "idRead", "start"}

-----------------------------------------------------------------------------
Slot == 0..QueueSize - 1

FreeSlot == (count + rp) % QueueSize
Full == count > QueueSize - 1

\* A slot that holds no operation has been cleared: its op_code is FDS_OP_NONE.
None == [ticket |-> 0, id |-> 0, left |-> 0]
Write(ticket, id) == [ticket |-> ticket, id |-> id, left |-> Steps]

\* The places of the queue that its indices say are used, oldest first.
Queued == [i \in 1..count |-> op[(rp + i - 1) % QueueSize]]

\* The interrupt does harm if the main loop is in one of these places; for the
\* free slot and the count, ChooseSlot and CountStore say so.
Meets(places) == hit' = hit \union ({pc} \intersect places)

Init ==
  /\ op = [s \in Slot |-> None] /\ rp = 0 /\ count = 0
  /\ processing = FALSE /\ flashOps = 0
  /\ words_reserved = 0 /\ m_latest_rec_id = 0
  /\ pc = "idle" /\ reg = [value |-> 0, record |-> None, slot |-> 0]
  /\ inIsr = FALSE
  /\ writes = 0 /\ accepted = <<>> /\ ended = <<>>
  /\ ids = [n \in 1..MaxWrites |-> 0] /\ hit = {}

(***************************************************************************)
(* write_enqueue in the main loop.                                         *)
(***************************************************************************)
MainFrom(place) == pc = place /\ ~inIsr
Goto(place) == pc' = place

\* write_space_reserve: words_reserved += total_len_words, in two accesses.
\* There is room in the page.
ReserveLoad ==
  /\ MainFrom("idle") /\ writes < MaxWrites
  /\ writes' = writes + 1
  /\ reg' = [reg EXCEPT !.value = words_reserved,
                        !.record = Write(writes + 1, 0)]
  /\ Goto("reserve")
  /\ UNCHANGED <<queueVars, processing, flashOps, counters, inIsr, accepted,
                 ended, ids, hit>>

ReserveStore ==
  /\ MainFrom("reserve")
  /\ words_reserved' = reg.value + 1
  /\ Goto("idLoad")
  /\ UNCHANGED <<queueVars, processing, flashOps, m_latest_rec_id, reg, inIsr,
                 history>>

\* record_id_new: m_latest_rec_id++, in two accesses, and the value returned.
IdLoad ==
  /\ MainFrom("idLoad")
  /\ reg' = [reg EXCEPT !.value = m_latest_rec_id]
  /\ Goto("id")
  /\ UNCHANGED <<queueVars, processing, flashOps, counters, inIsr, history>>

IdStore ==
  /\ MainFrom("id")
  /\ m_latest_rec_id' = reg.value + 1
  /\ reg' = [reg EXCEPT !.value = @ + 1]
  /\ Goto("idRead")
  /\ UNCHANGED <<queueVars, processing, flashOps, words_reserved, inIsr, history>>

\* It is read again, or kept since its store: both are compilations of the code.
IdRead ==
  /\ MainFrom("idRead")
  /\ \E id \in {m_latest_rec_id, reg.value} :
       /\ reg' = [reg EXCEPT !.record.id = id]
       /\ ids' = [ids EXCEPT ![reg.record.ticket] = id]
  /\ Goto("full")
  /\ UNCHANGED <<queueVars, processing, flashOps, counters, inIsr, writes,
                 accepted, ended, hit>>

\* op_enqueue: the test of the count.
EnqueueTest ==
  /\ MainFrom("full")
  /\ IF Full
     THEN Goto("refused") /\ UNCHANGED reg
     ELSE Goto("choose") /\ reg' = [reg EXCEPT !.value = count, !.slot = rp]
  /\ UNCHANGED <<queueVars, processing, flashOps, counters, inIsr, history>>

\* The slot is chosen from the count and rp, each of them loaded again or kept
\* since the test.  Harm is done if it is not, or no longer, the free slot.
ChooseSlot ==
  /\ MainFrom("choose")
  /\ \E n \in {count, reg.value}, r \in {rp, reg.slot} :
       LET slot == (n + r) % QueueSize IN
       /\ reg' = [reg EXCEPT !.value = n, !.slot = slot]
       /\ hit' = IF slot = FreeSlot /\ ~Full THEN hit ELSE hit \union {"choose"}
  /\ Goto("slot")
  /\ UNCHANGED <<queueVars, processing, flashOps, counters, inIsr, writes,
                 accepted, ended, ids>>

\* write_space_free, in two accesses too.
FreeLoad ==
  /\ MainFrom("refused")
  /\ reg' = [reg EXCEPT !.value = words_reserved]
  /\ Goto("free")
  /\ UNCHANGED <<queueVars, processing, flashOps, counters, inIsr, history>>

\* Mutant of FreeStore: a refused write keeps its reservation.
FreeStoreNot ==
  /\ MainFrom("free")
  /\ Goto("idle")
  /\ UNCHANGED <<queueVars, processing, flashOps, counters, reg, inIsr, history>>

FreeStore ==
  /\ MainFrom("free")
  /\ words_reserved' = reg.value - 1
  /\ Goto("idle")
  /\ UNCHANGED <<queueVars, processing, flashOps, m_latest_rec_id, reg, inIsr,
                 history>>

StoreOp ==
  /\ MainFrom("slot")
  /\ op' = [op EXCEPT ![reg.slot] = reg.record]
  /\ Goto("countLoad")
  /\ UNCHANGED <<rp, count, processing, flashOps, counters, reg, inIsr, history>>

\* The count is loaded again for its increment, or kept since the test: both
\* are compilations of the code.
CountLoad ==
  /\ MainFrom("countLoad")
  /\ \E value \in {count, reg.value} : reg' = [reg EXCEPT !.value = value]
  /\ Goto("count")
  /\ UNCHANGED <<queueVars, processing, flashOps, counters, inIsr, history>>

CountStore ==
  /\ MainFrom("count")
  /\ count' = reg.value + 1
  /\ accepted' = Append(accepted, reg.record.ticket)
  /\ hit' = IF reg.value = count THEN hit ELSE hit \union {"count"}
  /\ Goto("test")
  /\ UNCHANGED <<op, rp, processing, flashOps, counters, reg, inIsr, writes,
                 ended, ids>>

\* Mutant of StartTest: the queue is taken to be processed already.
StartTestNever ==
  /\ MainFrom("test")
  /\ Goto("idle")
  /\ UNCHANGED <<queueVars, processing, flashOps, counters, reg, inIsr, history>>

\* queue_start: the test of the flag, the flag, queue_process.
StartTest ==
  /\ MainFrom("test")
  /\ Goto(IF processing THEN "idle" ELSE "start")
  /\ UNCHANGED <<queueVars, processing, flashOps, counters, reg, inIsr, history>>

StartSet ==
  /\ MainFrom("start")
  /\ processing' = TRUE
  /\ Goto("process")
  /\ UNCHANGED <<queueVars, flashOps, counters, reg, inIsr, history>>

(***************************************************************************)
(* queue_process, in the main loop or in the interrupt.                    *)
(***************************************************************************)
\* Mutant of Advanced: the slot of the operation is left as it was.
AdvancedKeeping(rest) == [op EXCEPT ![rp] = op[rp]]

\* queue_advance clears the slot.
Advanced(rest) == [op EXCEPT ![rp] = None]

\* write_execute starts the next flash operation.
StepStarts ==
  /\ op[rp].left > 0
  /\ op' = [op EXCEPT ![rp].left = @ - 1]
  /\ flashOps' = flashOps + 1
  /\ UNCHANGED <<rp, count, processing, words_reserved, ended>>

\* The operation is at its end, or the slot was empty (FDS_ERR_INTERNAL): the
\* event is sent, and the flag is cleared if the queue is empty.
OperationEnds ==
  /\ op[rp].left = 0
  /\ LET rest == IF count = 0 THEN 0 ELSE count - 1 IN
     /\ op' = Advanced(rest)
     /\ rp' = IF count = 0 THEN rp ELSE (rp + 1) % QueueSize
     /\ count' = rest
     /\ processing' = (rest # 0)
  /\ IF op[rp].ticket = 0
     THEN UNCHANGED <<words_reserved, ended>>
     ELSE /\ ended' = Append(ended, op[rp].ticket)
          /\ words_reserved' = words_reserved - 1
  /\ UNCHANGED flashOps

\* The queue is processed again while operations end at once.
queue_process ==
  /\ IF inIsr
     THEN /\ inIsr' = (op[rp].left = 0 /\ count > 1)
          /\ Meets(IF op[rp].left = 0 /\ op[rp].ticket # 0
                   THEN {"reserve", "free"} ELSE {})
          /\ UNCHANGED pc
     ELSE /\ pc = "process"
          /\ Goto(IF op[rp].left = 0 /\ count > 1 THEN "process" ELSE "idle")
          /\ UNCHANGED <<inIsr, hit>>
  /\ StepStarts \/ OperationEnds
  /\ UNCHANGED <<m_latest_rec_id, reg, writes, accepted, ids>>

(***************************************************************************)
(* The interrupts.                                                         *)
(***************************************************************************)
\* fs_event_handler.
FlashOperationEnds ==
  /\ ~inIsr /\ flashOps > 0
  /\ flashOps' = flashOps - 1
  /\ inIsr' = TRUE
  /\ UNCHANGED <<queueVars, processing, counters, mainVars, history>>

\* write_enqueue called by the Peer Manager: the same code, not interrupted.
PeerWrite ==
  /\ ~inIsr /\ writes < MaxWrites
  /\ writes' = writes + 1
  /\ m_latest_rec_id' = m_latest_rec_id + 1
  /\ ids' = [ids EXCEPT ![writes + 1] = m_latest_rec_id + 1]
  /\ IF Full
     THEN /\ Meets({"id", "idRead"})
          /\ UNCHANGED <<queueVars, processing, words_reserved, inIsr, accepted>>
     ELSE /\ op' = [op EXCEPT ![FreeSlot] =
                      Write(writes + 1, m_latest_rec_id + 1)]
          /\ count' = count + 1
          /\ words_reserved' = words_reserved + 1
          /\ accepted' = Append(accepted, writes + 1)
          /\ processing' = TRUE
          /\ inIsr' = ~processing
          /\ Meets(Place \ {"choose"})
          /\ UNCHANGED rp
  /\ UNCHANGED <<flashOps, mainVars, ended>>

-----------------------------------------------------------------------------
MainLoop ==
  \/ ReserveLoad \/ ReserveStore \/ IdLoad \/ IdStore \/ IdRead
  \/ EnqueueTest \/ ChooseSlot \/ FreeLoad \/ FreeStore
  \/ StoreOp \/ CountLoad \/ CountStore \/ StartTest \/ StartSet

Next == MainLoop \/ queue_process \/ FlashOperationEnds \/ PeerWrite

Spec == Init /\ [][Next]_vars

\* A call of write_enqueue that has begun goes on, interrupts are taken, and a
\* flash operation ends; whether there is another call is open.
FairSpec ==
  /\ Spec
  /\ WF_vars(MainLoop /\ pc # "idle")
  /\ WF_vars(queue_process) /\ WF_vars(FlashOperationEnds)

-----------------------------------------------------------------------------
Ticket == 1..MaxWrites
Tickets(queue) == [i \in DOMAIN queue |-> queue[i].ticket]
In(n, seq) == \E i \in DOMAIN seq : seq[i] = n

\* The main loop between the store of words_reserved and the end of its call.
Reserving == pc \in QueuePlace \union {"idLoad", "id", "idRead", "full",
                                       "refused", "free"}

TypeOK ==
  /\ op \in [Slot -> [ticket : 0..MaxWrites, id : Nat, left : 0..Steps]]
  /\ rp \in Slot /\ count \in Nat
  /\ processing \in BOOLEAN /\ flashOps \in Nat /\ inIsr \in BOOLEAN
  /\ words_reserved \in Int /\ m_latest_rec_id \in Nat
  /\ pc \in Place \union {"idle", "idLoad", "full", "refused", "test",
                          "process"}
  /\ reg.value \in Int /\ reg.slot \in Slot
  /\ accepted \in Seq(Ticket) /\ ended \in Seq(Ticket) /\ hit \subseteq Place

\* What was accepted is what has ended and then what is queued, in this order:
\* no operation is lost, done twice or overtaken, and no empty slot is taken for
\* one; unless an interrupt comes between the test of the count and its store, or
\* between the test of the flag and the flag.
QueueExact ==
  hit \intersect (QueuePlace \union {"start"}) = {} =>
    accepted = ended \o Tickets(Queued)

\* One operation at a time: one flash operation is under way, or its end is
\* being handled, exactly while the flag says so; unless the queue is started
\* twice.
OneAtATime ==
  hit \intersect (QueuePlace \union {"start"}) = {} =>
    /\ flashOps + (IF inIsr THEN 1 ELSE 0) + (IF pc = "process" THEN 1 ELSE 0)
         = IF processing THEN 1 ELSE 0
    /\ ~processing /\ pc \notin {"test", "start"} => count = 0

\* The room reserved is that of the operations not ended yet: none is given away
\* twice, and none is lost until the next reset.
ReservedExact ==
  hit = {} =>
    words_reserved = count + (IF Reserving THEN 1 ELSE 0)

\* No two records have the same identity, by which an update finds the record
\* that it replaces (fds.c:1169), in whatever file.
IdsUnique ==
  hit \intersect {"id", "idRead"} = {} => \A n1, n2 \in Ticket :
    n1 # n2 /\ ids[n1] # 0 => ids[n1] # ids[n2]

\* The queue is processed once at a time, and the counters that main loop and
\* interrupts change without a critical section are exact, but for the places
\* named in each.
FdsQueueInv == TypeOK /\ OneAtATime /\ ReservedExact /\ IdsUnique

\* The event of every operation accepted comes; its caller waits for it.
EventComes ==
  \A n \in Ticket :
    In(n, accepted) ~> (In(n, ended)
                       \/ hit \intersect QueuePlace # {})
=============================================================================
