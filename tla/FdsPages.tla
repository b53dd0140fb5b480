------------------------------ MODULE FdsPages ------------------------------
(***************************************************************************)
(* The pages of the file system (fds.c): what fds_init finds after a reset *)
(* at any moment, the writes and updates, and garbage collection, which    *)
(* copies the valid records of a page to the swap page, erases the page    *)
(* and exchanges the two.  The Peer Manager's event PM_EVT_STORAGE_FULL    *)
(* makes BLE_Application.c start it.                                       *)
(*                                                                         *)
(* A page is a tag and slots for records of one length.  One flash         *)
(* operation is under way at a time (FdsQueue says when that is so); its   *)
(* end is an interrupt that calls queue_process, which starts the next     *)
(* one.  A caller writes a key again only after the event of its last      *)
(* write.  Deletions are not modelled.                                     *)
(***************************************************************************)
EXTENDS Integers, Sequences, FiniteSets, FiniteSetsExt

CONSTANTS
  NumPages,                \* FDS_VIRTUAL_PAGES
  Slots,                   \* records that a page has room for
  Key,                     \* record keys
  QueueSize,               \* FDS_OP_QUEUE_SIZE
  \* Bounds of the model:
  MaxWrites, MaxGcs,       \* writes, and calls of fds_gc
  MaxFaults,               \* resets and flash operations that fail
  MaxOpens                 \* records opened

ASSUME FdsPagesAssumption ==
  /\ NumPages \in Nat /\ NumPages > 1
  /\ {Slots, QueueSize} \subseteq Nat \ {0}
  /\ {MaxWrites, MaxGcs, MaxFaults, MaxOpens} \subseteq Nat

Page == 0..NumPages - 1    \* in the flash
Index == 0..NumPages - 2   \* of m_pages
NoPage == NumPages

VARIABLES
  flash,
  mode,                    \* the flags: "off", "init", "ready"; "failed": an
                           \* operation of fds_init failed; "dead": no swap page
  m_pages, m_swap_page, m_gc, m_op_queue, m_latest_rec_id,
  fs,                      \* the flash operation under way
  opened,                  \* the record that is open
  bounds,
  \* History, read by no action of the code:
  acked,                   \* by key, the identity of the record of the last
                           \* event
  hit                      \* mishaps

ramVars == <<m_pages, m_swap_page, m_gc, m_op_queue, m_latest_rec_id>>
vars == <<flash, mode, ramVars, fs, opened, bounds, acked, hit>>

\* "gap": the first word of a record could not be written.
\* "twins": an update stops between its new record and the removal of the old,
\* or a write does not find the record that a repeated erasure leaves on the
\* swap page alone.
\* "resume": a record is written while a collection is suspended.
\* "advance": a step fails, or ends in an error, while a second collection is in
\* the queue, and the first has taken the mark that the step is to be tried again.
\* "tag": a reset leaves half a tag.
\* "candidate": the swap page is promoted in exchange for a page with records.
\* "open": a record is opened while the erasure of its page is under way.
\* "unset": fds_init finds pages that its switch has no case for, and does a step
\* that was never set.
Mishap == {"gap", "twins", "resume", "advance", "tag", "candidate", "open", "unset"}

-----------------------------------------------------------------------------
(***************************************************************************)
(* The flash.                                                              *)
(***************************************************************************)
\* "begun": key and length; "torn": a whole header, not all the data; "dirty":
\* no longer valid.
Empty == [key |-> "none", id |-> 0, state |-> "erased"]
ErasedPage == [tag |-> "none", slots |-> [s \in 1..Slots |-> Empty]]

IsErased(page) == flash[page] = ErasedPage

\* The slots before the first erased word.
Used(page) ==
  Max({n \in 0..Slots : \A s \in 1..n : flash[page].slots[s].state # "erased"})

\* record_find_next: a search ends at the first erased word.
Valid(slot) == slot.state \in {"valid", "torn"}
Records(page) == {s \in 1..Used(page) : Valid(flash[page].slots[s])}

\* A write only clears bits.
Over(old, new) ==
  IF old = Empty THEN new
  ELSE IF old.key = new.key /\ old.id = new.id
       THEN IF old.state = "dirty" THEN old ELSE new
       ELSE [old EXCEPT !.state = "begun"]
Tagged(old, new) == IF old = "data" THEN "data" ELSE new

NoFs == [do |-> "none"]
Call(ok) == [do |-> "call", ok |-> ok]
Tag(page, tag) == [do |-> "tag", page |-> page, tag |-> tag]
Erase(page) == [do |-> "erase", page |-> page]
Store(do, page, slot, new) ==
  [do |-> do, page |-> page, slot |-> slot, new |-> new]
FlashOp == {"tag", "erase", "begin", "finalize", "dirty", "copy"}

\* The flash when the operation is done; a slot behind the page is none of it.
DoneTo(page, f) ==
  CASE f.do = "erase" -> ErasedPage
    [] f.do = "tag" -> [page EXCEPT !.tag = Tagged(@, f.tag)]
    [] OTHER -> [page EXCEPT !.slots[f.slot] = Over(@, f.new)]

Done(f) == [flash EXCEPT ![f.page] = DoneTo(flash[f.page], f)]

\* What else a reset may leave of it: half a tag, a part of a record that is
\* copied.
PartlyDone(f) ==
  LET parts == IF f.do = "copy" /\ Valid(f.new) THEN {"begun", "torn"} ELSE {}
      halves == f.do = "tag" /\ flash[f.page].tag = "none" /\ "tag" \notin hit
  IN {[flash EXCEPT ![f.page].slots[f.slot] =
         Over(@, [f.new EXCEPT !.state = p])] : p \in parts} \union
     IF halves THEN {[flash EXCEPT ![f.page].tag = "half"]} ELSE {}

(***************************************************************************)
(* fds_init.                                                               *)
(***************************************************************************)
Entry(type, page) ==
  [type |-> type, addr |-> page, reserved |-> 0, open |-> 0,
   offset |-> IF type = "data" THEN Used(page) ELSE 0,
   can_gc |-> type = "data" /\ Records(page) # 1..Used(page)]

Found(acc, type, page, opt) ==
  [acc EXCEPT !.pages = Append(@, Entry(type, page)), !.opts = @ \union opt]

SwapFound(acc, page) ==
  [acc EXCEPT !.swap = [addr |-> page, offset |-> Used(page)],
              !.opts = @ \union {IF Used(page) = 0 THEN "swap clean"
                                 ELSE "swap dirty"}]

\* Mutant of PageOfSwap: the erased page taken for the swap is forgotten.
PageOfSwapForgotten(acc) == acc

\* The erased page taken for the swap page, if any, is an erased page after all.
PageOfSwap(acc) ==
  IF acc.held THEN Found(acc, "erased", acc.swap.addr, {}) ELSE acc

\* One turn of the loop: an erased page is the swap page until one with the tag
\* is found, or if there is a swap page before it, the candidate for a new one.
Scan(acc, page) ==
  LET tag == flash[page].tag IN
  IF tag = "data" THEN Found(acc, "data", page, {"data"})
  ELSE IF tag = "swap"
  THEN SwapFound(PageOfSwap(acc), page)
  ELSE IF ~IsErased(page) THEN Found(acc, "undefined", NoPage, {})
  ELSE IF acc.swap.addr = NoPage
  THEN [acc EXCEPT !.swap.addr = page, !.held = TRUE,
                   !.opts = @ \union {"erased"}]
  ELSE [Found(acc, "erased", page, {"erased"}) EXCEPT !.cur = Len(acc.pages)]

NothingSeen ==
  [pages |-> <<>>, swap |-> [addr |-> NoPage, offset |-> 0],
   held |-> FALSE, cur |-> 0, opts |-> {}]

\* What the loop knows when it has seen the first n pages.
Scanned[n \in 0..NumPages] ==
  IF n = 0 THEN NothingSeen ELSE Scan(Scanned[n - 1], n - 1)

pages_init == Scanned[NumPages]

\* Mutant of FirstStep: an erased page is made the swap page in a fresh
\* installation only.
FirstStepFresh(opts) ==
  IF "swap dirty" \in opts
  THEN IF "erased" \in opts THEN "promote" ELSE "erase swap"
  ELSE IF "swap clean" \in opts
  THEN IF "erased" \in opts THEN "tag data" ELSE "none"
  ELSE IF opts = {"erased"} THEN "tag swap" ELSE "dead"

\* The first step of the initialisation, where the switch has a case: "none" if
\* there is nothing to do, "dead" if there is no page for the swap.
FirstStep(opts) ==
  IF "swap dirty" \in opts
  THEN IF "erased" \in opts THEN "promote" ELSE "erase swap"
  ELSE IF "swap clean" \in opts
  THEN IF "erased" \in opts THEN "tag data" ELSE "none"
  ELSE IF "erased" \in opts THEN "tag swap" ELSE "dead"

\* The default case ("should not happen"): two swap pages, or a swap page and
\* none for data.  The step is then whatever the operation on the stack holds.
Unnamed(opts) == \/ {"swap clean", "swap dirty"} \subseteq opts
                 \/ opts \in {{"swap clean"}, {"swap dirty"}}
FirstSteps(opts) ==
  IF Unnamed(opts)
  THEN {"tag swap", "tag data", "erase swap", "promote", "unset"}
  ELSE {FirstStep(opts)}

GcIdle == [state |-> "begin", cur |-> 0, src |-> 0, todo |-> {},
           resume |-> FALSE, run |-> 0]
NoPages ==
  [i \in Index |-> [type |-> "undefined", addr |-> NoPage, offset |-> 0,
                    reserved |-> 0, open |-> 0, can_gc |-> FALSE]]
NoSwap == [addr |-> NoPage, offset |-> 0]
NotOpen == [id |-> 0]

Init ==
  /\ flash = [p \in Page |-> ErasedPage]
  /\ mode = "off" /\ fs = NoFs /\ opened = NotOpen
  /\ m_pages = NoPages /\ m_swap_page = NoSwap /\ m_gc = GcIdle
  /\ m_op_queue = <<>> /\ m_latest_rec_id = 0
  /\ bounds = [writes |-> 0, gcs |-> 0, faults |-> 0, opens |-> 0]
  /\ acked = [k \in Key |-> 0] /\ hit = {}

Operation(op, step) ==
  [op |-> op, step |-> step, key |-> "none", id |-> 0, old |-> 0, page |-> 0,
   target |-> <<0, 0>>]

fds_init ==
  /\ mode = "off"
  /\ LET found == pages_init IN \E step \in FirstSteps(found.opts) :
        /\ m_pages' = [i \in Index |-> IF i < Len(found.pages)
                                      THEN found.pages[i + 1] ELSE NoPages[i]]
        /\ m_swap_page' = found.swap
        /\ m_gc' = [m_gc EXCEPT !.cur = found.cur]
        /\ m_latest_rec_id' =
             Max({0} \union UNION {{flash[p].slots[s].id : s \in Records(p)} :
                                     p \in Page})
        /\ mode' = CASE step = "none" -> "ready" [] step = "dead" -> "dead"
                     [] OTHER -> "init"
        /\ IF step \in {"none", "dead"} THEN UNCHANGED <<m_op_queue, fs>>
           ELSE m_op_queue' = <<Operation("init", step)>> /\ fs' = Call(TRUE)
        /\ hit' = IF Unnamed(found.opts) THEN hit \union {"unset"} ELSE hit
  /\ UNCHANGED <<flash, opened, bounds, acked>>

(***************************************************************************)
(* queue_process.                                                          *)
(***************************************************************************)
Runs(op) == fs = Call(TRUE) /\ m_op_queue # <<>> /\ Head(m_op_queue).op \in op
Fails(op) == fs = Call(FALSE) /\ m_op_queue # <<>> /\ Head(m_op_queue).op \in op
Operation1 == Head(m_op_queue)
Next1(op) == m_op_queue' = <<op>> \o Tail(m_op_queue)

\* The event is sent, and the next operation begins.
Pop ==
  /\ m_op_queue' = Tail(m_op_queue)
  /\ fs' = IF Len(m_op_queue) > 1 THEN Call(TRUE) ELSE NoFs

\* init_execute.
InitTagSwap ==
  /\ Runs({"init"}) /\ Operation1.step = "tag swap"
  /\ m_swap_page.addr # NoPage
  /\ fs' = Tag(m_swap_page.addr, "swap")
  /\ Next1(Operation("init", "tag data"))
  /\ UNCHANGED <<flash, mode, m_pages, m_swap_page, m_gc, m_latest_rec_id,
                 opened, bounds, acked, hit>>

ErasedPages == {i \in Index : m_pages[i].type = "erased"}

InitTagData ==
  /\ Runs({"init"}) /\ Operation1.step = "tag data" /\ ErasedPages # {}
  /\ LET i == Min(ErasedPages) IN
     /\ fs' = Tag(m_pages[i].addr, "data")
     /\ m_pages' = [m_pages EXCEPT ![i].type = "data"]
  /\ UNCHANGED <<flash, mode, m_swap_page, m_gc, m_op_queue,
                 m_latest_rec_id, opened, bounds, acked, hit>>

InitDone ==
  /\ Runs({"init"}) /\ Operation1.step = "tag data" /\ ErasedPages = {}
  /\ mode' = "ready"
  /\ Pop
  /\ UNCHANGED <<flash, m_pages, m_swap_page, m_gc, m_latest_rec_id, opened,
                 bounds, acked, hit>>

InitEraseSwap ==
  /\ Runs({"init"}) /\ Operation1.step = "erase swap"
  /\ fs' = Erase(m_swap_page.addr)
  /\ m_swap_page' = [m_swap_page EXCEPT !.offset = 0]
  /\ Next1(Operation("init", "tag swap"))
  /\ UNCHANGED <<flash, mode, m_pages, m_gc, m_latest_rec_id, opened,
                 bounds, acked, hit>>

\* The page exchanged for the swap page is m_gc.cur_page, which pages_init sets
\* for an erased page behind the swap page only.
InitPromote ==
  /\ Runs({"init"}) /\ Operation1.step = "promote"
  /\ LET old == m_pages[m_gc.cur] IN
     /\ fs' = Tag(m_swap_page.addr, "data")
     /\ m_swap_page' = [addr |-> old.addr, offset |-> 0]
     /\ m_pages' = [m_pages EXCEPT ![m_gc.cur] =
                      [old EXCEPT !.addr = m_swap_page.addr, !.type = "data",
                                  !.offset = m_swap_page.offset]]
     /\ hit' = IF old.type = "erased" THEN hit ELSE hit \union {"candidate"}
  /\ Next1(Operation("init", "tag swap"))
  /\ UNCHANGED <<flash, mode, m_gc, m_latest_rec_id, opened, bounds, acked>>

\* The flash operation failed, or there is none: for a step that is none of the
\* four, or an address that is not set.
InitFails ==
  /\ \/ Fails({"init"})
     \/ Runs({"init"}) /\ Operation1.step = "unset"
     \/ /\ Runs({"init"}) /\ Operation1.step = "tag swap"
        /\ m_swap_page.addr = NoPage
  /\ mode' = "failed"
  /\ Pop
  /\ UNCHANGED <<flash, m_pages, m_swap_page, m_gc, m_latest_rec_id, opened,
                 bounds, acked, hit>>

\* write_execute.  The identity and the data are written with the key.
Writes == {"write", "update"}
DataPages == {i \in Index : m_pages[i].type = "data"}

\* The places of a search through the data pages, and what is there.
InPages ==
  {at \in DataPages \X (1..Slots) : at[2] \in Records(m_pages[at[1]].addr)}
SlotAt(at) == flash[m_pages[at[1]].addr].slots[at[2]]

\* record_find_by_desc: where the record with this identity is.
Places(id) == {at \in InPages : SlotAt(at).id = id}
Lowest(places) ==
  CHOOSE p \in places : \A q \in places :
    p[1] < q[1] \/ (p[1] = q[1] /\ p[2] <= q[2])

\* What the current step of the operation writes to the place of its record.
StoreRecord(do, state) ==
  LET op == Operation1
      page == m_pages[op.page]
  IN fs' = Store(do, page.addr, page.offset + 1,
                 [key |-> op.key, id |-> op.id, state |-> state])

WriteBegin ==
  /\ Runs(Writes) /\ Operation1.step = "begin"
  /\ Operation1.op = "update" => Places(Operation1.old) # {}
  /\ StoreRecord("begin", "begun")
  /\ Next1([Operation1 EXCEPT !.step = "finalize", !.target =
              IF Operation1.op = "write" THEN <<0, 0>>
              ELSE Lowest(Places(Operation1.old))])
  /\ hit' = IF m_gc.state = "begin" THEN hit ELSE hit \union {"resume"}
  /\ UNCHANGED <<flash, mode, m_pages, m_swap_page, m_gc, m_latest_rec_id,
                 opened, bounds, acked>>

WriteFinalize ==
  /\ Runs(Writes) /\ Operation1.step = "finalize"
  /\ StoreRecord("finalize", "valid")
  /\ Next1([Operation1 EXCEPT !.step =
              IF Operation1.op = "write" THEN "done" ELSE "dirty"])
  /\ UNCHANGED <<flash, mode, m_pages, m_swap_page, m_gc, m_latest_rec_id,
                 opened, bounds, acked, hit>>

WriteDirty ==
  /\ Runs(Writes) /\ Operation1.step = "dirty"
  /\ LET at == Operation1.target
     IN /\ fs' = Store("dirty", m_pages[at[1]].addr, at[2],
                       [SlotAt(at) EXCEPT !.state = "dirty"])
        /\ m_pages' = [m_pages EXCEPT ![at[1]].can_gc = TRUE]
  /\ Next1([Operation1 EXCEPT !.step = "done"])
  /\ UNCHANGED <<flash, mode, m_swap_page, m_gc, m_latest_rec_id, opened,
                 bounds, acked, hit>>

\* page_offsets_update.
OffsetsUpdate ==
  m_pages' = [m_pages EXCEPT ![Operation1.page].offset = @ + 1,
                             ![Operation1.page].reserved = @ - 1]

WriteEnds ==
  /\ Runs(Writes) /\ Operation1.step = "done"
  /\ OffsetsUpdate
  /\ acked' = [acked EXCEPT ![Operation1.key] = Operation1.id]
  /\ Pop
  /\ UNCHANGED <<flash, mode, m_swap_page, m_gc, m_latest_rec_id, opened,
                 bounds, hit>>

Updating(step) ==
  m_op_queue # <<>> /\ Operation1.op = "update" /\ Operation1.step = step

\* The flash operation failed, or the record to update is not found.
WriteFails ==
  /\ \/ Fails(Writes)
     \/ /\ Runs({"update"}) /\ Operation1.step = "begin"
        /\ Places(Operation1.old) = {}
  /\ OffsetsUpdate
  /\ hit' = hit \union IF Operation1.step \in {"begin", "finalize"} THEN {"gap"}
                   ELSE IF Updating("done") THEN {"twins"} ELSE {}
  /\ Pop
  /\ UNCHANGED <<flash, mode, m_swap_page, m_gc, m_latest_rec_id, opened,
                 bounds, acked>>

(***************************************************************************)
(* gc_execute.                                                             *)
(***************************************************************************)
\* gc_record_copy.
GcCopy(gc, swap) ==
  LET from == m_pages[gc.cur].addr
  IN /\ m_gc' = [gc EXCEPT !.state = "copy"]
     /\ m_swap_page' = swap
     /\ fs' = Store("copy", swap.addr, swap.offset + 1,
                    flash[from].slots[gc.src])
     /\ UNCHANGED m_op_queue

\* gc_page_erase, gc_swap_erase.
GcErase(gc, swap) ==
  /\ IF m_pages[gc.cur].open = 0
     THEN /\ m_gc' = [gc EXCEPT !.state = "erase"]
          /\ m_swap_page' = swap
          /\ fs' = Erase(m_pages[gc.cur].addr)
     ELSE /\ m_gc' = [gc EXCEPT !.state = "discard"]
          /\ m_swap_page' = [swap EXCEPT !.offset = 0]
          /\ fs' = Erase(swap.addr)
  /\ UNCHANGED m_op_queue

\* Mutant of GcFindNext: no record is copied.
GcFindNextNone(gc, swap) == GcErase(gc, swap)

\* gc_record_find_next.
GcFindNext(gc, swap) ==
  LET next == {s \in Records(m_pages[gc.cur].addr) : s > gc.src}
  IN IF next = {} THEN GcErase(gc, swap)
     ELSE GcCopy([gc EXCEPT !.src = Min(next)], swap)

\* Mutant of Behind: a page may be collected again and again.
BehindAndAt(pages, i) == {j \in pages : j >= i}

\* gc_page_next: a page is not tried again.
Behind(pages, i) == {j \in pages : j > i}

\* gc_next_page.
GcNextPage(gc) ==
  LET ready == {i \in gc.todo : m_pages[i].open = 0 /\ m_pages[i].can_gc}
  IN IF ready = {}
     THEN /\ m_gc' = [GcIdle EXCEPT !.run = gc.run]
          /\ Pop
          /\ UNCHANGED m_swap_page
     ELSE LET i == Min(ready) IN
          GcFindNext([gc EXCEPT !.cur = i, !.todo = Behind(@, i)],
                     m_swap_page)

GcRuns(states) == Runs({"gc"}) /\ ~m_gc.resume /\ m_gc.state \in states

\* gc_init.
GcBegin ==
  /\ GcRuns({"begin"})
  /\ GcNextPage([GcIdle EXCEPT !.todo = DataPages, !.run = m_gc.run + 1])
  /\ UNCHANGED <<flash, mode, m_pages, m_latest_rec_id, opened, bounds,
                 acked, hit>>

GcCopied ==
  /\ GcRuns({"copy"})
  /\ GcFindNext(m_gc, [m_swap_page EXCEPT !.offset = @ + 1])
  /\ UNCHANGED <<flash, mode, m_pages, m_latest_rec_id, opened, bounds,
                 acked, hit>>

\* gc_swap_pages, gc_swap_promote.
GcErased ==
  /\ GcRuns({"erase"})
  /\ m_pages' = [m_pages EXCEPT ![m_gc.cur].addr = m_swap_page.addr,
                                ![m_gc.cur].offset = m_swap_page.offset]
  /\ m_swap_page' = [addr |-> m_pages[m_gc.cur].addr, offset |-> 0]
  /\ m_gc' = [m_gc EXCEPT !.state = "promote"]
  /\ fs' = Tag(m_swap_page.addr, "data")
  /\ UNCHANGED <<flash, mode, m_op_queue, m_latest_rec_id, opened, bounds,
                 acked, hit>>

\* gc_tag_new_swap.
GcPromoted ==
  /\ GcRuns({"promote", "discard"})
  /\ m_gc' = [m_gc EXCEPT !.state = "tag", !.src = 0]
  /\ fs' = Tag(m_swap_page.addr, "swap")
  /\ UNCHANGED <<flash, mode, m_pages, m_swap_page, m_op_queue,
                 m_latest_rec_id, opened, bounds, acked, hit>>

GcTagged ==
  /\ GcRuns({"tag"})
  /\ GcNextPage(m_gc)
  /\ UNCHANGED <<flash, mode, m_pages, m_latest_rec_id, opened, bounds,
                 acked, hit>>

\* A collection behind the one that ends.
AnotherGc == \E i \in 2..Len(m_op_queue) : m_op_queue[i].op = "gc"

\* The last step again; there is none for "discard", which is an error.
GcResume ==
  /\ Runs({"gc"}) /\ m_gc.resume
  /\ LET gc == [m_gc EXCEPT !.resume = FALSE] IN
     \/ gc.state = "copy" /\ GcCopy(gc, m_swap_page)
     \/ gc.state = "erase" /\ GcErase(gc, m_swap_page)
     \/ /\ gc.state \in {"promote", "tag"}
        /\ m_gc' = [gc EXCEPT !.src = IF gc.state = "tag" THEN 0 ELSE @]
        /\ fs' = IF gc.state = "tag" THEN Tag(m_swap_page.addr, "swap")
                 ELSE Tag(m_pages[gc.cur].addr, "data")
        /\ UNCHANGED <<m_swap_page, m_op_queue>>
     \/ gc.state = "discard" /\ m_gc' = gc /\ Pop /\ UNCHANGED m_swap_page
  /\ hit' = IF m_gc.state = "discard" /\ AnotherGc THEN hit \union {"advance"}
            ELSE hit
  /\ UNCHANGED <<flash, mode, m_pages, m_latest_rec_id, opened, bounds, acked>>

GcFails ==
  /\ Fails({"gc"})
  /\ Pop
  /\ hit' = IF AnotherGc /\ ~m_gc.resume THEN hit \union {"advance"} ELSE hit
  /\ UNCHANGED <<flash, mode, m_pages, m_swap_page, m_gc, m_latest_rec_id,
                 opened, bounds, acked>>

(***************************************************************************)
(* The callers, in the main loop or in an interrupt, but never between a   *)
(* flash operation and queue_process.                                      *)
(***************************************************************************)
Calm == mode = "ready" /\ fs.do # "call"
Count(what, max) ==
  bounds[what] < max /\ bounds' = [bounds EXCEPT ![what] = @ + 1]

Enqueue(op) ==
  /\ Len(m_op_queue) < QueueSize
  /\ m_op_queue' = Append(m_op_queue, op)
  /\ fs' = IF fs = NoFs THEN Call(TRUE) ELSE fs

\* record_find: the place of the first record of a key.
OfKey(key) == {at \in InPages : SlotAt(at).key = key}

\* In any page, the swap page too.
Stored(key) ==
  \E p \in Page : \E s \in Records(p) : flash[p].slots[s].key = key

\* page_has_space.
HasRoom(i) == m_pages[i].offset + m_pages[i].reserved < Slots

\* write_enqueue: a new record, or an update of the one that is found.
write_enqueue(key) ==
  /\ Calm /\ Count("writes", MaxWrites)
  /\ \A i \in DOMAIN m_op_queue : m_op_queue[i].key # key
  /\ LET room == {i \in DataPages : HasRoom(i)}
         found == OfKey(key)
     IN /\ room # {}
        /\ m_pages' = [m_pages EXCEPT ![Min(room)].reserved = @ + 1]
        /\ m_latest_rec_id' = m_latest_rec_id + 1
        /\ Enqueue([Operation(IF found = {} THEN "write" ELSE "update", "begin")
             EXCEPT !.key = key, !.id = m_latest_rec_id + 1, !.page = Min(room),
                    !.old = IF found = {} THEN 0 ELSE SlotAt(Lowest(found)).id])
        /\ hit' = IF found = {} /\ Stored(key) THEN hit \union {"twins"} ELSE hit
  /\ UNCHANGED <<flash, mode, m_swap_page, m_gc, opened, acked>>

fds_gc ==
  /\ Calm /\ Count("gcs", MaxGcs)
  /\ Enqueue(Operation("gc", "none"))
  /\ m_gc' = [m_gc EXCEPT !.resume = @ \/ m_gc.state # "begin"]
  /\ UNCHANGED <<flash, mode, m_pages, m_swap_page, m_latest_rec_id, opened,
                 acked, hit>>

fds_record_open(key) ==
  /\ Calm /\ opened = NotOpen /\ OfKey(key) # {} /\ Count("opens", MaxOpens)
  /\ LET at == Lowest(OfKey(key))
         page == m_pages[at[1]].addr
     IN /\ opened' = [id |-> SlotAt(at).id, page |-> page,
                       slot |-> at[2], run |-> m_gc.run]
        /\ m_pages' = [m_pages EXCEPT ![at[1]].open = @ + 1]
        /\ hit' = IF fs = Erase(page) THEN hit \union {"open"} ELSE hit
  /\ UNCHANGED <<flash, mode, m_swap_page, m_gc, m_op_queue,
                 m_latest_rec_id, fs, acked>>

\* The page is that of the record, or if a collection has begun since, or the
\* record is not there any more, the one where a search for its identity ends.
fds_record_close ==
  /\ Calm /\ opened # NotOpen
  /\ opened' = NotOpen
  /\ LET there == /\ opened.run = m_gc.run
                  /\ flash[opened.page].slots[opened.slot].id = opened.id
         pages == IF there THEN {i \in Index : m_pages[i].addr = opened.page}
                  ELSE {p[1] : p \in Places(opened.id)}
     IN m_pages' = IF pages = {} THEN m_pages
                   ELSE [m_pages EXCEPT ![Min(pages)].open = Max({0, @ - 1})]
  /\ UNCHANGED <<flash, mode, m_swap_page, m_gc, m_op_queue,
                 m_latest_rec_id, fs, bounds, acked, hit>>

(***************************************************************************)
(* The flash and the supply.                                               *)
(***************************************************************************)
FlashEnds ==
  /\ fs.do \in FlashOp
  /\ flash' = Done(fs)
  /\ fs' = Call(TRUE)
  /\ UNCHANGED <<mode, ramVars, opened, bounds, acked, hit>>

FlashFails ==
  /\ fs.do \in FlashOp /\ Count("faults", MaxFaults)
  /\ fs' = Call(FALSE)
  /\ UNCHANGED <<flash, mode, ramVars, opened, acked, hit>>

\* An erasure is done or not; a word is written or not.
Reset ==
  /\ Count("faults", MaxFaults)
  /\ flash' \in {flash} \union
       (IF fs.do \in FlashOp THEN {Done(fs)} \union PartlyDone(fs) ELSE {})
  /\ hit' = hit \union
       (IF \E p \in Page : flash'[p].tag = "half" THEN {"tag"} ELSE {}) \union
       (IF Updating("dirty") \/ Updating("done") THEN {"twins"} ELSE {})
  /\ mode' = "off" /\ fs' = NoFs /\ opened' = NotOpen
  /\ m_pages' = NoPages /\ m_swap_page' = NoSwap /\ m_gc' = GcIdle
  /\ m_op_queue' = <<>> /\ m_latest_rec_id' = 0
  /\ UNCHANGED acked

-----------------------------------------------------------------------------
queue_process ==
  \/ InitTagSwap \/ InitTagData \/ InitDone \/ InitEraseSwap \/ InitPromote
  \/ InitFails
  \/ WriteBegin \/ WriteFinalize \/ WriteDirty \/ WriteEnds \/ WriteFails
  \/ GcBegin \/ GcCopied \/ GcErased \/ GcPromoted \/ GcTagged \/ GcResume
  \/ GcFails

Callers ==
  \/ \E key \in Key : write_enqueue(key) \/ fds_record_open(key)
  \/ fds_gc \/ fds_record_close

Next == fds_init \/ queue_process \/ Callers \/ FlashEnds \/ FlashFails \/ Reset

Spec == Init /\ [][Next]_vars

\* The start calls fds_init; a flash operation ends, and its interrupt is taken.
FairSpec ==
  /\ Spec
  /\ WF_vars(fds_init) /\ WF_vars(FlashEnds \/ FlashFails)
  /\ WF_vars(queue_process)

-----------------------------------------------------------------------------
TypeOK ==
  /\ flash \in [Page -> [tag : {"none", "half", "swap", "data"},
        slots : [1..Slots -> [key : Key \union {"none"}, id : Nat,
                  state : {"erased", "begun", "valid", "torn", "dirty"}]]]]
  /\ mode \in {"off", "init", "ready", "failed", "dead"}
  /\ m_pages \in [Index -> [type : {"data", "erased", "undefined"},
       addr : Page \union {NoPage}, offset : Nat, reserved : Nat,
       open : 0..MaxOpens, can_gc : BOOLEAN]]
  /\ m_swap_page \in [addr : Page \union {NoPage}, offset : Nat]
  /\ m_gc.state \in {"begin", "copy", "erase", "discard", "promote", "tag"}
  /\ m_gc.todo \subseteq Index /\ m_gc.cur \in Index
  /\ Len(m_op_queue) <= QueueSize
  /\ acked \in [Key -> Nat] /\ hit \subseteq Mishap

Unhurt(mishaps) == hit \intersect mishaps = {}

\* What was acknowledged is found, whole, and nothing older of its key: in any
\* collection and after any reset, except where a record was written after a gap
\* or in a suspended collection, the wrong page was exchanged, a failed step not
\* tried again, or a record opened while its page is erased.  (A second fds_gc
\* repeats an erasure: meanwhile the records are on the swap page alone.)
RecordsKept ==
  (/\ Calm /\ m_gc.state # "erase"
   /\ Unhurt({"gap", "resume", "advance", "candidate", "open", "unset"})) =>
    \A key \in Key : acked[key] # 0 =>
      LET found == {SlotAt(at) : at \in OfKey(key)}
      IN /\ \E slot \in found : slot.id >= acked[key]
         /\ \A slot \in found :
              /\ slot.state = "valid"
              /\ slot.id >= acked[key] \/ "twins" \in hit

\* A reset at any moment leaves pages that fds_init can use, except in the
\* middle of a tag, or if the wrong page was exchanged or a failed step not
\* tried again; and pages that its switch names, except then or where a record
\* was written in a suspended collection or opened while its page is erased.
AlwaysMounts ==
  /\ mode = "dead" => ~Unhurt({"tag", "advance", "candidate", "unset"})
  /\ "unset" \in hit => ~Unhurt({"tag", "advance", "candidate", "resume", "open"})

\* A record, or its copy, is written to an erased place in its page: the room
\* reserved before a collection is there after it, and the offsets that fds_init
\* finds are those of the records.
WritesFit ==
  fs.do \in {"begin", "copy"} /\ Unhurt({"gap", "advance", "candidate", "unset"}) =>
    /\ fs.slot <= Slots
    /\ LET there == flash[fs.page].slots[fs.slot]
       IN there = Empty \/ (fs.do = "copy" /\ there.id = fs.new.id)

\* Every page is a data page or the swap page, and not two of them; their tags
\* in the flash say the same, but for the end of a collection.
PagesAgree ==
  Calm /\ Unhurt({"tag", "advance", "candidate", "resume", "open"}) =>
    /\ {m_pages[i].addr : i \in DataPages} \union {m_swap_page.addr} = Page
    /\ m_gc.state \notin {"erase", "discard", "promote", "tag"} =>
         /\ flash[m_swap_page.addr].tag = "swap"
         /\ \A i \in Index : flash[m_pages[i].addr].tag = "data"

\* The pages in RAM, the pages in the flash and the room in them go together at
\* every step of an initialisation, a write and a collection.
FdsPagesInv == TypeOK /\ WritesFit /\ PagesAgree

\* Every operation ends, a collection too.
OperationsEnd == m_op_queue # <<>> ~> m_op_queue = <<>>

(***************************************************************************)
(* What the comments promise, and the code does not keep.                  *)
(***************************************************************************)
\* "Because there is also an erased page, assume that that page has been garbage
\* collected. Hence, tag the swap as data (promote), an erased page as swap"
\* (fds_internal_defs.h:275): the page that takes its place has no records.
SwapHasNoRecord ==
  Calm /\ m_gc.state = "begin" => Records(m_swap_page.addr) = {}

=============================================================================
