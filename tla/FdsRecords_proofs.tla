-------------------------- MODULE FdsRecords_proofs --------------------------
(***************************************************************************)
(* Proofs about FdsPages, on top of those about the pages: the records.    *)
(* First the room for them (FitInv), then what becomes of those that were  *)
(* acknowledged (KeptInv).                                                 *)
(***************************************************************************)
EXTENDS FdsPages_proofs

(***************************************************************************)
(* FitInv: every record is written behind those that are there.            *)
(***************************************************************************)

\* The slots of a page: written up to n; not written behind n; a place that has
\* no state is free; no place that is free before one that is not.
Filled(page, n) ==
  \A s \in 1..Slots : s <= n => page.slots[s].state # "erased"
Blank(page, n) == \A s \in 1..Slots : s > n => page.slots[s] = Empty
Honest(page) ==
  \A s \in 1..Slots : page.slots[s].state = "erased" => page.slots[s] = Empty
NoGap(page) ==
  \A s, t \in 1..Slots :
    s < t /\ page.slots[s].state = "erased" => page.slots[t] = Empty

Ungapped == Unhurt({"gap", "advance", "candidate", "unset"})

\* The record of a write under way may be behind the offset of its page; f is the
\* flash operation under way, here and below.
Begun(f, i) ==
  /\ Writing /\ Operation1.page = i /\ Operation1.step # "begin"
  /\ f.do # "begin"

\* The data page i in a flash g.
DataFit(g, f, i) ==
  /\ Blank(g[Adr(i)], m_pages[i].offset + 1)
  /\ ~Begun(f, i) => Blank(g[Adr(i)], m_pages[i].offset)
  /\ mode = "init" \/ g[Adr(i)].tag \in {"data", "swap"} =>
       Filled(g[Adr(i)], m_pages[i].offset)

PagesFit(g, f) ==
  mode \in {"init", "ready"} => \A i \in DataPages : DataFit(g, f, i)

\* The room of the pages in RAM.
RoomFit ==
  /\ \A i \in DataPages : m_pages[i].offset + m_pages[i].reserved <= Slots
  /\ mode = "init" => \A i \in ErasedPages : m_pages[i].offset = 0
  /\ mode = "init" /\ Operation1.step \in {"tag swap", "tag data"} =>
       m_swap_page.offset = 0
  /\ m_gc.state = "copy" =>
       m_swap_page.offset < m_gc.src /\ m_gc.src <= m_pages[Cur].offset
  /\ m_gc.state = "erase" => m_swap_page.offset <= m_pages[Cur].offset
  /\ mode = "ready" /\ m_gc.state \notin {"copy", "erase"} => m_swap_page.offset = 0

\* The record that is written is there, and so is the one it replaces.
WriteFit(g, f) ==
  Writing =>
    LET op == Operation1 IN
    /\ op.step \in {"dirty", "done"} \/ (op.step = "finalize" /\ f = Call(TRUE)) =>
         g[Adr(op.page)].slots[m_pages[op.page].offset + 1].state # "erased"
    /\ op.op = "update" /\ op.step # "begin" =>
         g[Adr(op.target[1])].slots[op.target[2]].state # "erased"

\* The record that is copied, and its place.
CopyFit(g, f) ==
  LET there == g[Swap].slots[m_swap_page.offset + 1]
      record == g[Adr(Cur)].slots[m_gc.src]
  IN /\ record.state # "erased"
     /\ there = Empty \/ there.id = record.id
     /\ Collecting /\ f = Call(TRUE) /\ ~m_gc.resume => there.state # "erased"

SwapFit(g, f) ==
  LET at == m_swap_page.offset IN
  /\ mode = "init" /\ Operation1.step = "promote" =>
       /\ at <= Slots
       /\ Filled(g[Swap], at) /\ Blank(g[Swap], at)
  /\ mode = "init" /\ Operation1.step = "tag data" => Blank(g[Swap], 0)
  /\ mode = "ready" /\ m_gc.state \in {"begin", "promote", "tag"} =>
       Blank(g[Swap], 0)
  /\ m_gc.state = "erase" => Filled(g[Swap], at) /\ Blank(g[Swap], at)
  /\ m_gc.state = "copy" =>
       Filled(g[Swap], at) /\ Blank(g[Swap], at + 1) /\ CopyFit(g, f)
  /\ m_gc.state = "promote" => g[Adr(Cur)].tag \in {"data", "swap"}

FlashFit(g) ==
  \A p \in Page : Honest(g[p]) /\ (g[p].tag \in {"data", "swap"} => NoGap(g[p]))

\* Every record is written behind those that are there.
FitIn(g, f) ==
  FlashFit(g) /\ PagesFit(g, f) /\ WriteFit(g, f) /\ SwapFit(g, f)
FitInv == Ungapped => RoomFit /\ FitIn(flash, fs)

LEMMA BlankMore ==
  ASSUME NEW page, NEW m \in Nat, NEW n \in Nat, m <= n, Blank(page, m)
  PROVE  Blank(page, n)
BY Constants DEF Blank

LEMMA BlankSlots ==
  ASSUME NEW page, NEW n \in Nat, Blank(page, n)
  PROVE  \A s \in 1..Slots : page.slots[s].state # "erased" => s <= n
BY Constants DEF Blank, Empty

\* With at most one place that is not known, a page has no gap.
LEMMA FilledBlank ==
  ASSUME NEW page, NEW n \in Nat, Filled(page, n), Blank(page, n + 1)
  PROVE  NoGap(page)
BY Constants DEF Filled, Blank, NoGap

LEMMA ErasedFits ==
  /\ Honest(ErasedPage) /\ NoGap(ErasedPage)
  /\ \A n : Blank(ErasedPage, n)
  /\ Filled(ErasedPage, 0)
BY Constants DEF Honest, NoGap, Blank, Filled, ErasedPage

LEMMA SameSlots ==
  ASSUME NEW x, NEW y, y.slots = x.slots
  PROVE  /\ Honest(y) <=> Honest(x)
         /\ NoGap(y) <=> NoGap(x)
         /\ \A n : (Blank(y, n) <=> Blank(x, n)) /\ (Filled(y, n) <=> Filled(x, n))
BY DEF Honest, NoGap, Blank, Filled

\* What a scan finds.
LEMMA UsedFits ==
  ASSUME NEW p \in Page, Honest(flash[p]), NoGap(flash[p])
  PROVE  /\ Used(p) \in Nat /\ Used(p) <= Slots
         /\ Filled(flash[p], Used(p)) /\ Blank(flash[p], Used(p))
<1>1. /\ Used(p) \in 0..Slots
      /\ \A s \in 1..Slots : s <= Used(p) => flash[p].slots[s].state # "erased"
      /\ Used(p) < Slots => flash[p].slots[Used(p) + 1].state = "erased"
  BY UsedFacts
<1>2. ASSUME NEW s \in 1..Slots, s > Used(p)
      PROVE  flash[p].slots[s] = Empty
  <2>1. Used(p) + 1 \in 1..Slots /\ flash[p].slots[Used(p) + 1].state = "erased"
    BY <1>1, <1>2, Constants
  <2>2. s = Used(p) + 1 \/ Used(p) + 1 < s
    BY <1>1, <1>2, Constants
  <2>3. QED BY <2>1, <2>2 DEF Honest, NoGap
<1>3. QED BY <1>1, <1>2, Constants DEF Filled, Blank

\* A place that is written, all of it or a part, is not free after it.
Wrote(x, y, k) ==
  \A s \in 1..Slots :
    y.slots[s] = x.slots[s] \/ (s = k /\ y.slots[s].state # "erased")

LEMMA WroteFacts ==
  ASSUME NEW x, NEW y, NEW k, Wrote(x, y, k)
  PROVE  /\ Honest(x) => Honest(y)
         /\ \A n \in Nat : Filled(x, n) => Filled(y, n)
         /\ \A s \in 1..Slots :
              x.slots[s].state # "erased" => y.slots[s].state # "erased"
         /\ \A n \in Nat :
              Blank(x, n) /\ (k \in 1..Slots /\ x.slots[k].state = "erased" => k <= n)
                => Blank(y, n)
<1>1. Honest(x) => Honest(y)
  BY DEF Wrote, Honest
<1>2. \A n \in Nat : Filled(x, n) => Filled(y, n)
  BY DEF Wrote, Filled
<1>3. \A s \in 1..Slots : x.slots[s].state # "erased" => y.slots[s].state # "erased"
  BY DEF Wrote
<1>4. ASSUME NEW n \in Nat, Blank(x, n),
             k \in 1..Slots /\ x.slots[k].state = "erased" => k <= n,
             NEW s \in 1..Slots, s > n
      PROVE  y.slots[s] = Empty
  <2>1. x.slots[s] = Empty /\ x.slots[s].state = "erased"
    BY <1>4 DEF Blank, Empty
  <2>2. s # k
    BY <1>4, <2>1, Constants
  <2>3. QED BY <2>1, <2>2 DEF Wrote
<1>5. QED BY <1>1, <1>2, <1>3, <1>4 DEF Blank

LEMMA DoneWrote ==
  ASSUME flash \in FlashType, NEW f \in FlashOpType, f.do \notin {"erase", "tag"},
         f.new.state # "erased", NEW g, g = Done(f)
  PROVE  /\ g \in FlashType /\ f.page \in Page /\ f.slot \in Nat
         /\ \A p \in Page : p # f.page => g[p] = flash[p]
         /\ g[f.page].tag = flash[f.page].tag
         /\ Wrote(flash[f.page], g[f.page], f.slot)
         /\ f.slot \in 1..Slots =>
              /\ g[f.page].slots[f.slot].state # "erased"
              /\ g[f.page].slots[f.slot] =
                   Over(flash[f.page].slots[f.slot], f.new)
<1>1. f.page \in Page /\ f.slot \in Nat /\ f.new \in SlotType
  BY FlashOpCases
<1>2. /\ g \in FlashType
      /\ \A p \in Page : p # f.page => g[p] = flash[p]
      /\ g[f.page] = DoneTo(flash[f.page], f)
  BY DoneFacts DEF FlashType
<1>3. flash[f.page] \in PageType
  BY <1>1 DEF FlashType
<1>4. /\ g[f.page].tag = flash[f.page].tag
      /\ \A s \in 1..Slots :
           g[f.page].slots[s] = IF s = f.slot
                                THEN Over(flash[f.page].slots[s], f.new)
                                ELSE flash[f.page].slots[s]
  BY <1>2, <1>3, DoneToFacts
<1>5. \A s \in 1..Slots : flash[f.page].slots[s] \in SlotType
  BY <1>3 DEF PageType
<1>6. \A s \in 1..Slots : Over(flash[f.page].slots[s], f.new).state # "erased"
  BY <1>1, <1>5, OverFacts
<1>7. Wrote(flash[f.page], g[f.page], f.slot)
  BY <1>4, <1>6 DEF Wrote
<1>8. QED BY <1>1, <1>2, <1>4, <1>6, <1>7

(***************************************************************************)
(* FitInv: the flash operation under way, done or failed.                  *)
(***************************************************************************)

LEMMA MountedPages ==
  ASSUME ShapeInv, mode \in {"init", "ready"}
  PROVE  \A i \in DataPages :
           /\ i \in Index /\ Adr(i) \in Page /\ Adr(i) # Swap
           /\ m_pages[i] \in PageRecord
           /\ m_pages[i].offset \in Nat /\ m_pages[i].reserved \in Nat
           /\ \A j \in DataPages : j # i => Adr(j) # Adr(i)
<1>1. TAKE i \in DataPages
<1>2. i \in Index /\ m_pages[i].type = "data" /\ m_pages[i] \in PageRecord
  BY DEF DataPages, ShapeInv, TypeInv
<1>3. Adr(i) \in Page /\ Adr(i) # Swap
  BY <1>2 DEF ShapeInv, AddrInv, Mounted
<1>4. ASSUME NEW j \in DataPages, j # i PROVE Adr(j) # Adr(i)
  <2>1. j \in Index
    BY DEF DataPages
  <2>2. Adr(i) # NoPage
    BY <1>3, Constants
  <2>3. QED BY <1>2, <1>4, <2>1, <2>2 DEF ShapeInv, AddrInv, Mounted
<1>5. QED BY <1>2, <1>3, <1>4 DEF PageRecord

LEMMA WriteReserves ==
  ASSUME ShapeInv, Writing
  PROVE  m_pages[Operation1.page].reserved >= 1
<1>1. /\ mode = "ready" /\ m_op_queue # <<>> /\ Operation1.op \in Writes
      /\ Operation1.page \in DataPages
  BY WritingMode
<1>2. m_op_queue \in Seq(OpType) /\ Operation1 = m_op_queue[1]
  BY <1>1, FirstFits DEF ShapeInv, TypeInv
<1>3. PICK p \in Index : p = Operation1.page
  BY <1>1 DEF DataPages
<1>4. m_pages[p].reserved = Cardinality(Reserving(Tail(m_op_queue), p)) + 1
  BY <1>1, <1>2, <1>3, ReservingLeaves DEF ShapeInv, ReservedInv
<1>5. Cardinality(Reserving(Tail(m_op_queue), p)) \in Nat
  BY <1>1, <1>2, QueueFacts, ReservingFinite
<1>6. QED BY <1>3, <1>4, <1>5

\* The place of the record that is written.
LEMMA WriteHasRoom ==
  ASSUME ShapeInv, RoomFit, Writing
  PROVE  /\ Operation1.page \in DataPages
         /\ m_pages[Operation1.page].offset \in Nat
         /\ m_pages[Operation1.page].offset + 1 \in 1..Slots
<1>1. mode = "ready" /\ Operation1.page \in DataPages
  BY WritingMode
<1>2. PICK i \in DataPages : i = Operation1.page
  BY <1>1
<1>3. /\ m_pages[i].offset \in Nat /\ m_pages[i].reserved \in Nat
      /\ m_pages[i].reserved >= 1
  BY <1>1, <1>2, MountedPages, WriteReserves
<1>4. m_pages[i].offset + m_pages[i].reserved <= Slots
  BY DEF RoomFit
<1>5. QED BY <1>1, <1>2, <1>3, <1>4, Constants

\* What a write does to the flash.
WritesAt(i) ==
  /\ fs.page = Adr(i) /\ fs.slot \in 1..Slots
  /\ fs.new.state # "erased" /\ fs.new \in SlotType
  /\ \/ /\ i = Operation1.page /\ fs.slot = m_pages[i].offset + 1
        /\ fs.do \in {"begin", "finalize"}
     \/ /\ flash[Adr(i)].slots[fs.slot].state # "erased"
        /\ fs.new.id = flash[Adr(i)].slots[fs.slot].id
        /\ Operation1.step = "done"

LEMMA WriteOps ==
  ASSUME ShapeInv, FsInv, RoomFit, WriteFit(flash, fs), Writing, fs.do \in FlashOp
  PROVE  /\ Operation1.step # "begin"
         /\ fs.do \in {"begin", "finalize", "dirty"}
         /\ \E i \in DataPages : WritesAt(i)
<1>1. /\ mode = "ready" /\ Operation1 \in OpType /\ Operation1.page \in DataPages
      /\ Operation1.op = "update" /\ Operation1.step # "begin" =>
           Operation1.target[1] \in DataPages /\ Operation1.target[2] \in 1..Slots
  BY WritingMode
<1>2. /\ m_pages[Operation1.page].offset + 1 \in 1..Slots
  BY WriteHasRoom
<1>3. fs # Call(TRUE) /\ fs # Call(FALSE)
  BY FsFacts DEF FlashOp
<1>4. CASE Operation1.step = "finalize" /\ WriteStore("begin")
  <2>1. PICK new : new = [key |-> Operation1.key, id |-> Operation1.id,
                          state |-> "begun"]
    OBVIOUS
  <2>2. new \in SlotType /\ new.state = "begun"
    BY <1>1, <2>1 DEF SlotType, OpType
  <2>3. fs = Store("begin", Adr(Operation1.page),
                   m_pages[Operation1.page].offset + 1, new)
    BY <1>4, <2>1 DEF WriteStore
  <2>4. /\ fs.page = Adr(Operation1.page) /\ fs.new = new /\ fs.do = "begin"
        /\ fs.slot = m_pages[Operation1.page].offset + 1
    BY <2>3, OpFacts
  <2>5. WritesAt(Operation1.page)
    BY <1>2, <2>2, <2>4 DEF WritesAt
  <2>6. QED BY <1>1, <1>4, <2>4, <2>5
<1>5. CASE /\ Operation1.step = IF Operation1.op = "write" THEN "done" ELSE "dirty"
           /\ WriteStore("finalize")
  <2>1. PICK new : new = [key |-> Operation1.key, id |-> Operation1.id,
                          state |-> "valid"]
    OBVIOUS
  <2>2. new \in SlotType /\ new.state = "valid"
    BY <1>1, <2>1 DEF SlotType, OpType
  <2>3. fs = Store("finalize", Adr(Operation1.page),
                   m_pages[Operation1.page].offset + 1, new)
    BY <1>5, <2>1 DEF WriteStore
  <2>4. /\ fs.page = Adr(Operation1.page) /\ fs.new = new /\ fs.do = "finalize"
        /\ fs.slot = m_pages[Operation1.page].offset + 1
    BY <2>3, OpFacts
  <2>5. WritesAt(Operation1.page)
    BY <1>2, <2>2, <2>4 DEF WritesAt
  <2>6. QED BY <1>1, <1>5, <2>4, <2>5
<1>6. CASE /\ Operation1.op = "update" /\ Operation1.step = "done"
           /\ fs = Store("dirty", Adr(Operation1.target[1]), Operation1.target[2],
                         [SlotAt(Operation1.target) EXCEPT !.state = "dirty"])
  <2>1. PICK i \in DataPages : i = Operation1.target[1]
    BY <1>1, <1>6
  <2>2. PICK s \in 1..Slots : s = Operation1.target[2]
    BY <1>1, <1>6
  <2>3. PICK old : old = SlotAt(Operation1.target)
    OBVIOUS
  <2>4. old = flash[Adr(i)].slots[s] /\ old \in SlotType
    BY <1>1, <2>1, <2>2, <2>3, SlotAtType DEF SlotAt, Adr
  <2>5. old.state # "erased"
    BY <1>6, <2>1, <2>2, <2>4 DEF WriteFit
  <2>6. PICK new : new = [old EXCEPT !.state = "dirty"]
    OBVIOUS
  <2>7. new \in SlotType /\ new.state = "dirty" /\ new.id = old.id
    BY <2>4, <2>6 DEF SlotType
  <2>8. fs = Store("dirty", Adr(i), s, new)
    BY <1>6, <2>1, <2>2, <2>3, <2>6
  <2>9. fs.page = Adr(i) /\ fs.new = new /\ fs.do = "dirty" /\ fs.slot = s
    BY <2>8, OpFacts
  <2>10. WritesAt(i)
    BY <1>6, <2>4, <2>5, <2>7, <2>9 DEF WritesAt
  <2>11. QED BY <1>6, <2>9, <2>10
<1>7. QED BY <1>3, <1>4, <1>5, <1>6 DEF FsInv, WriteFs

LEMMA CallDoes ==
  /\ Call(TRUE).do # "begin" /\ Call(FALSE).do # "begin"
  /\ Call(TRUE) # Call(FALSE)
BY FsFacts

\* A write leaves its pages as it found them but for its own place.
LEMMA WriteDone ==
  ASSUME ShapeInv, FsInv, RoomFit, FitIn(flash, fs), Writing, fs.do \in FlashOp,
         NEW g, g = Done(fs)
  PROVE  FitIn(g, Call(TRUE))
<1>1. /\ Operation1.step # "begin" /\ mode = "ready"
      /\ fs.do \in {"begin", "finalize", "dirty"}
  BY WriteOps, WritingMode DEF FitIn
<1>2. PICK i \in DataPages : WritesAt(i)
  BY WriteOps DEF FitIn
<1>3. fs \in FlashOpType /\ flash \in FlashType
  BY FsFacts DEF ShapeInv, TypeInv
<1>4. PICK x : x = flash[Adr(i)]
  OBVIOUS
<1>5. PICK y : y = g[Adr(i)]
  OBVIOUS
<1>6. PICK k \in 1..Slots : k = fs.slot
  BY <1>2 DEF WritesAt
<1>7. PICK n \in Nat : n = m_pages[i].offset
  BY <1>1, MountedPages
<1>8. /\ Adr(i) \in Page /\ Adr(i) # Swap /\ i \in Index
      /\ \A j \in DataPages : j # i => Adr(j) # Adr(i)
      /\ \A j \in DataPages : Adr(j) \in Page /\ Adr(j) # Swap
  BY <1>1, MountedPages
<1>9. fs.page = Adr(i) /\ fs.new.state # "erased"
  BY <1>2 DEF WritesAt
<1>10. /\ \A p \in Page : p # Adr(i) => g[p] = flash[p]
       /\ y.tag = x.tag /\ Wrote(x, y, k) /\ y.slots[k].state # "erased"
       /\ y.slots[k] = Over(x.slots[k], fs.new)
  BY <1>1, <1>3, <1>4, <1>5, <1>6, <1>9, DoneWrote
<1>11. /\ Blank(x, n + 1) /\ (~Begun(fs, i) => Blank(x, n))
       /\ x.tag \in {"data", "swap"} => Filled(x, n)
  BY <1>1, <1>4, <1>7 DEF FitIn, PagesFit, DataFit
<1>12. Honest(x) /\ (x.tag \in {"data", "swap"} => NoGap(x))
  BY <1>4, <1>8 DEF FitIn, FlashFit
<1>13. x.slots[k].state = "erased" => k = n + 1 /\ i = Operation1.page
  BY <1>2, <1>4, <1>6, <1>7 DEF WritesAt
<1>14. /\ Honest(y) /\ Blank(y, n + 1)
       /\ y.tag \in {"data", "swap"} => Filled(y, n)
       /\ \A s \in 1..Slots : x.slots[s].state # "erased" => y.slots[s].state # "erased"
  BY <1>10, <1>11, <1>12, <1>13, WroteFacts, Constants
<1>15. y.tag \in {"data", "swap"} => NoGap(y)
  BY <1>14, FilledBlank
<1>16. FlashFit(g)
  BY <1>5, <1>10, <1>14, <1>15 DEF FlashFit, FitIn
<1>17. ASSUME NEW j \in DataPages PROVE DataFit(g, Call(TRUE), j)
  <2>1. CASE j # i
    <3>1. g[Adr(j)] = flash[Adr(j)]
      BY <1>8, <1>10, <2>1
    <3>2. ~Begun(Call(TRUE), j) => ~Begun(fs, j)
      BY CallDoes DEF Begun
    <3>3. DataFit(flash, fs, j)
      BY <1>1 DEF FitIn, PagesFit
    <3>4. QED BY <1>1, <3>1, <3>2, <3>3 DEF DataFit
  <2>2. CASE j = i
    <3>1. ASSUME ~Begun(Call(TRUE), i) PROVE Blank(y, n)
      <4>1. i # Operation1.page
        BY <1>1, <3>1, CallDoes DEF Begun
      <4>2. ~Begun(fs, i)
        BY <4>1 DEF Begun
      <4>3. QED BY <1>10, <1>11, <1>13, <4>1, <4>2, WroteFacts
    <3>2. QED BY <1>1, <1>5, <1>7, <1>14, <2>2, <3>1 DEF DataFit
  <2>3. QED BY <2>1, <2>2
<1>18. PagesFit(g, Call(TRUE))
  BY <1>17 DEF PagesFit
\* No place that was written is free after it.
<1>19. ASSUME NEW j \in DataPages, NEW s \in 1..Slots,
              flash[Adr(j)].slots[s].state # "erased"
       PROVE  g[Adr(j)].slots[s].state # "erased"
  <2>1. CASE Adr(j) = Adr(i)
    BY <1>4, <1>5, <1>14, <1>19, <2>1
  <2>2. CASE Adr(j) # Adr(i)
    BY <1>8, <1>10, <1>19, <2>2
  <2>3. QED BY <2>1, <2>2
<1>20. WriteFit(g, Call(TRUE))
  <2>1. PICK o \in DataPages : o = Operation1.page
    BY WritingMode
  <2>2. PICK s \in 1..Slots : s = m_pages[o].offset + 1
    BY <2>1, WriteHasRoom
  <2>3. g[Adr(o)].slots[s].state # "erased"
    <3>1. CASE fs.do \in {"begin", "finalize"}
      <4>1. (i = o /\ fs.slot = m_pages[i].offset + 1) \/ Operation1.step = "done"
        BY <1>2, <2>1 DEF WritesAt
      <4>2. CASE Operation1.step = "done"
        <5>1. flash[Adr(o)].slots[s].state # "erased"
          BY <2>1, <2>2, <4>2 DEF FitIn, WriteFit
        <5>2. QED BY <5>1, <1>19
      <4>3. QED BY <1>5, <1>6, <1>10, <2>2, <4>1, <4>2
    <3>2. CASE fs.do = "dirty"
      <4>1. Operation1.step = "done"
        BY <1>2, <3>2 DEF WritesAt
      <4>2. flash[Adr(o)].slots[s].state # "erased"
        BY <2>1, <2>2, <4>1 DEF FitIn, WriteFit
      <4>3. QED BY <4>2, <1>19
    <3>3. QED BY <1>1, <3>1, <3>2
  <2>4. ASSUME Operation1.op = "update"
        PROVE  g[Adr(Operation1.target[1])].slots[Operation1.target[2]].state # "erased"
    <3>1. /\ Operation1.target[1] \in DataPages /\ Operation1.target[2] \in 1..Slots
      BY <1>1, <2>4, WritingMode
    <3>2. flash[Adr(Operation1.target[1])].slots[Operation1.target[2]].state # "erased"
      BY <1>1, <2>4 DEF FitIn, WriteFit
    <3>3. QED BY <1>19, <3>1, <3>2
  <2>5. QED BY <2>1, <2>2, <2>3, <2>4 DEF WriteFit
<1>21. SwapFit(g, Call(TRUE))
  <2>1. g[Swap] = flash[Swap]
    <3>1. Swap \in Page
      BY <1>1 DEF ShapeInv, AddrInv
    <3>2. QED BY <1>8, <1>10, <3>1
  <2>2. SwapFit(flash, fs)
    BY DEF FitIn
  <2>3. ASSUME m_gc.state = "copy" PROVE CopyFit(g, Call(TRUE))
    <3>1. CopyFit(flash, fs)
      BY <2>2, <2>3 DEF SwapFit
    <3>2. Cur \in DataPages /\ m_gc.src \in 1..Slots /\ m_gc.src <= m_pages[Cur].offset
      BY <2>3 DEF ShapeInv, GcInv, RoomFit
    <3>3. PICK r : r = flash[Adr(Cur)].slots[m_gc.src]
      OBVIOUS
    <3>4. r.state # "erased"
      BY <3>1, <3>3 DEF CopyFit
    <3>5. g[Adr(Cur)].slots[m_gc.src].state # "erased"
      BY <1>19, <3>2, <3>3, <3>4
    <3>6. g[Adr(Cur)].slots[m_gc.src].id = r.id
      <4>1. CASE Cur = i /\ m_gc.src = k
        <5>1. k # n + 1
          BY <1>7, <3>2, <4>1
        <5>2. fs.new.id = x.slots[k].id /\ fs.new \in SlotType
          BY <1>2, <1>4, <1>6, <1>7, <5>1 DEF WritesAt
        <5>3. x.slots[k] \in SlotType
          BY <1>3, <1>4, <1>8 DEF FlashType, PageType
        <5>4. Over(x.slots[k], fs.new).id = fs.new.id
          BY <5>2, <5>3, OverFacts
        <5>5. QED BY <1>4, <1>5, <1>10, <3>3, <4>1, <5>2, <5>4
      <4>2. CASE Cur = i /\ m_gc.src # k
        BY <1>4, <1>5, <1>10, <3>2, <3>3, <4>2 DEF Wrote
      <4>3. CASE Cur # i
        BY <1>8, <1>10, <3>2, <3>3, <4>3
      <4>4. QED BY <4>1, <4>2, <4>3
    <3>7. ~Collecting
      BY DEF Writing, Collecting, Writes
    <3>8. QED BY <2>1, <3>1, <3>3, <3>5, <3>6, <3>7 DEF CopyFit
  <2>4. ASSUME m_gc.state = "promote" PROVE g[Adr(Cur)].tag \in {"data", "swap"}
    <3>1. Cur \in DataPages /\ flash[Adr(Cur)].tag \in {"data", "swap"}
      BY <2>2, <2>4 DEF ShapeInv, GcInv, SwapFit
    <3>2. QED BY <1>4, <1>5, <1>8, <1>10, <3>1
  <2>5. QED BY <1>1, <2>1, <2>2, <2>3, <2>4 DEF SwapFit
<1>22. QED BY <1>16, <1>18, <1>20, <1>21 DEF FitIn

\* A page that is erased or gets a tag.
LEMMA TagOrErase ==
  ASSUME flash \in FlashType, NEW f \in FlashOpType, f.do \in {"erase", "tag"},
         NEW g, g = Done(f)
  PROVE  /\ f.page \in Page /\ \A p \in Page : p # f.page => g[p] = flash[p]
         /\ f.do = "erase" => g[f.page] = ErasedPage
         /\ f.do = "tag" =>
              /\ g[f.page].slots = flash[f.page].slots
              /\ g[f.page].tag \in {"data", "swap"}
              /\ f.tag = "data" => g[f.page].tag = "data"
<1>1. /\ f.page \in Page /\ g[f.page] = DoneTo(flash[f.page], f)
      /\ \A p \in Page : p # f.page => g[p] = flash[p]
  BY FlashOpCases, DoneFacts DEF FlashType
<1>2. flash[f.page] \in PageType
  BY <1>1 DEF FlashType
<1>3. CASE f.do = "erase"
  BY <1>1, <1>2, <1>3, DoneToFacts
<1>4. CASE f.do = "tag"
  <2>1. f.tag \in {"swap", "data"}
    BY <1>4, FlashOpCases
  <2>2. /\ g[f.page].slots = flash[f.page].slots
        /\ g[f.page].tag = Tagged(flash[f.page].tag, f.tag)
    BY <1>1, <1>2, <1>4, DoneToFacts
  <2>3. QED BY <1>1, <1>4, <2>1, <2>2 DEF Tagged
<1>5. QED BY <1>3, <1>4

\* The pages of a flash, when the others are as they were.
LEMMA FlashFitAt ==
  ASSUME FlashFit(flash), NEW g, NEW q \in Page,
         \A p \in Page : p # q => g[p] = flash[p],
         Honest(g[q]), g[q].tag \in {"data", "swap"} => NoGap(g[q])
  PROVE  FlashFit(g)
<1>1. SUFFICES ASSUME NEW p \in Page
               PROVE  Honest(g[p]) /\ (g[p].tag \in {"data", "swap"} => NoGap(g[p]))
  BY DEF FlashFit
<1>2. CASE p = q
  BY <1>2
<1>3. CASE p # q
  BY <1>3 DEF FlashFit
<1>4. QED BY <1>2, <1>3

\* The data pages, when no write is under way and their flash is as it was.
LEMMA PagesFitStay ==
  ASSUME ShapeInv, mode \in {"init", "ready"}, ~Writing, PagesFit(flash, fs), NEW g,
         \A i \in DataPages :
           \/ g[Adr(i)] = flash[Adr(i)]
           \/ /\ Blank(g[Adr(i)], m_pages[i].offset)
              /\ mode = "init" \/ g[Adr(i)].tag \in {"data", "swap"} =>
                   Filled(g[Adr(i)], m_pages[i].offset)
  PROVE  PagesFit(g, Call(TRUE))
<1>1. SUFFICES ASSUME NEW i \in DataPages PROVE DataFit(g, Call(TRUE), i)
  BY DEF PagesFit
<1>2. ~Begun(Call(TRUE), i) /\ ~Begun(fs, i) /\ DataFit(flash, fs, i)
  BY DEF Begun, PagesFit
<1>3. PICK n \in Nat : n = m_pages[i].offset
  BY MountedPages
<1>4. CASE g[Adr(i)] = flash[Adr(i)]
  BY <1>2, <1>4 DEF DataFit
<1>5. CASE /\ Blank(g[Adr(i)], n)
           /\ mode = "init" \/ g[Adr(i)].tag \in {"data", "swap"} =>
                Filled(g[Adr(i)], n)
  <2>1. Blank(g[Adr(i)], n + 1)
    BY <1>5, BlankMore
  <2>2. QED BY <1>3, <1>5, <2>1 DEF DataFit
<1>6. QED BY <1>3, <1>4, <1>5

LEMMA InitFitDone ==
  ASSUME ShapeInv, FsInv, RoomFit, FitIn(flash, fs), mode = "init",
         fs.do \in FlashOp, NEW g, g = Done(fs)
  PROVE  FitIn(g, Call(TRUE))
<1>1. fs \in FlashOpType /\ flash \in FlashType /\ m_gc.state = "begin"
  BY FsUnderWay DEF ShapeInv, TypeInv, GcInv
<1>2. ~Writing
  BY WritingMode
<1>3. WriteFit(g, Call(TRUE))
  BY <1>2 DEF WriteFit
<1>4. \A i \in DataPages : Adr(i) \in Page /\ Adr(i) # Swap /\ i \in Index
  BY MountedPages
<1>5. FlashFit(flash) /\ PagesFit(flash, fs) /\ SwapFit(flash, fs)
  BY DEF FitIn
<1>6. CASE Operation1.step = "tag swap" /\ Swap \in Page /\ fs = Erase(Swap)
  <2>1. fs.do = "erase" /\ fs.page = Swap
    BY <1>6, OpFacts
  <2>2. g[Swap] = ErasedPage /\ \A p \in Page : p # Swap => g[p] = flash[p]
    BY <1>1, <2>1, TagOrErase
  <2>3. FlashFit(g)
    BY <1>5, <1>6, <2>2, FlashFitAt, ErasedFits
  <2>4. PagesFit(g, Call(TRUE))
    BY <1>2, <1>4, <1>5, <2>2, PagesFitStay
  <2>5. SwapFit(g, Call(TRUE))
    BY <1>1, <1>6 DEF SwapFit
  <2>6. QED BY <1>3, <2>3, <2>4, <2>5 DEF FitIn
<1>7. CASE Operation1.step = "tag data" /\ Swap \in Page /\ fs = Tag(Swap, "swap")
  <2>1. fs.do = "tag" /\ fs.page = Swap
    <3>1. Tag(Swap, "swap").do = "tag" /\ Tag(Swap, "swap").page = Swap
      BY OpFacts
    <3>2. QED BY <1>7, <3>1, Zenon
  <2>2. /\ g[Swap].slots = flash[Swap].slots
        /\ \A p \in Page : p # Swap => g[p] = flash[p]
    BY <1>1, <2>1, TagOrErase
  <2>3. Blank(flash[Swap], 0)
    BY <1>5, <1>7 DEF SwapFit
  <2>4. Blank(g[Swap], 0)
    BY <2>2, <2>3, SameSlots
  <2>5. Honest(g[Swap])
    BY <1>5, <1>7, <2>2, SameSlots DEF FlashFit
  <2>6. NoGap(g[Swap])
    <3>1. Filled(g[Swap], 0)
      BY Constants DEF Filled
    <3>2. Blank(g[Swap], 0 + 1)
      BY <2>4, BlankMore
    <3>3. QED BY <3>1, <3>2, FilledBlank
  <2>7. FlashFit(g)
    BY <1>5, <1>7, <2>2, <2>5, <2>6, FlashFitAt
  <2>8. PagesFit(g, Call(TRUE))
    BY <1>2, <1>4, <1>5, <2>2, PagesFitStay
  <2>9. SwapFit(g, Call(TRUE))
    BY <1>1, <1>7, <2>4 DEF SwapFit
  <2>10. QED BY <1>3, <2>7, <2>8, <2>9 DEF FitIn
<1>8. CASE /\ Operation1.step \in {"tag swap", "tag data"}
           /\ \E i \in DataPages : Adr(i) \in Page /\ Adr(i) # Swap
                                   /\ fs = Tag(Adr(i), "data")
  <2>1. PICK i \in DataPages : fs = Tag(Adr(i), "data")
    BY <1>8
  <2>2. fs.do = "tag" /\ fs.page = Adr(i)
    BY <2>1, OpFacts
  <2>3. /\ g[Adr(i)].slots = flash[Adr(i)].slots
        /\ \A p \in Page : p # Adr(i) => g[p] = flash[p]
    BY <1>1, <2>2, TagOrErase
  <2>4. PICK n \in Nat : n = m_pages[i].offset
    BY MountedPages
  <2>5. Filled(flash[Adr(i)], n) /\ Blank(flash[Adr(i)], n)
    <3>1. ~Begun(fs, i)
      BY <1>2 DEF Begun
    <3>2. QED BY <1>5, <2>4, <3>1 DEF PagesFit, DataFit
  <2>6. Filled(g[Adr(i)], n) /\ Blank(g[Adr(i)], n)
    BY <2>3, <2>5, SameSlots
  <2>7. NoGap(g[Adr(i)])
    BY <2>6, BlankMore, FilledBlank
  <2>8. Honest(g[Adr(i)])
    BY <1>4, <1>5, <2>3, SameSlots DEF FlashFit
  <2>9. FlashFit(g)
    BY <1>4, <1>5, <2>3, <2>7, <2>8, FlashFitAt
  <2>10. ASSUME NEW j \in DataPages
         PROVE  \/ g[Adr(j)] = flash[Adr(j)]
                \/ /\ Blank(g[Adr(j)], m_pages[j].offset)
                   /\ Filled(g[Adr(j)], m_pages[j].offset)
    <3>1. CASE Adr(j) = Adr(i)
      <4>1. j = i
        BY <3>1, MountedPages
      <4>2. QED BY <2>4, <2>6, <4>1
    <3>2. CASE Adr(j) # Adr(i)
      BY <1>4, <2>3, <3>2
    <3>3. QED BY <3>1, <3>2
  <2>11. PagesFit(g, Call(TRUE))
    BY <1>2, <1>5, <2>10, PagesFitStay
  <2>12. SwapFit(g, Call(TRUE))
    <3>1. CASE Swap \in Page
      <4>1. g[Swap] = flash[Swap]
        BY <1>4, <2>3, <3>1
      <4>2. QED BY <1>1, <1>5, <1>8, <4>1 DEF SwapFit
    <3>2. CASE Swap \notin Page
      <4>1. Operation1.step = "tag swap"
        BY <1>8, <3>2 DEF ShapeInv, AddrInv
      <4>2. QED BY <1>1, <4>1 DEF SwapFit
    <3>3. QED BY <3>1, <3>2
  <2>13. QED BY <1>3, <2>9, <2>11, <2>12 DEF FitIn
<1>9. QED BY <1>6, <1>7, <1>8, FsUnderWay

LEMMA CopyOp ==
  ASSUME ShapeInv, m_gc.state = "copy", fs = GcOp
  PROVE  /\ fs.do = "copy" /\ fs.page = Swap /\ fs.slot = m_swap_page.offset + 1
         /\ fs.new = flash[Adr(Cur)].slots[m_gc.src]
<1>1. fs = Store("copy", Swap, m_swap_page.offset + 1,
                 flash[Adr(Cur)].slots[m_gc.src])
  BY DEF GcOp
<1>2. QED BY <1>1, OpFacts

LEMMA CopyFitDone ==
  ASSUME ShapeInv, RoomFit, FitIn(flash, fs), Collecting, m_gc.state = "copy",
         fs \in FlashOpType, fs = GcOp, NEW g, g = Done(fs)
  PROVE  FitIn(g, Call(TRUE))
<1>1. /\ mode = "ready" /\ Cur \in DataPages /\ Swap \in Page /\ Adr(Cur) \in Page
      /\ Adr(Cur) # Swap /\ flash \in FlashType
      /\ \A i \in DataPages : Adr(i) \in Page /\ Adr(i) # Swap
  BY GcOpFacts, MountedPages DEF ShapeInv, TypeInv
<1>2. ~Writing /\ m_gc.src \in 1..Slots
  BY DEF Writing, Collecting, Writes, ShapeInv, GcInv
<1>3. PICK at \in Nat : at = m_swap_page.offset
  BY DEF ShapeInv, TypeInv, SwapType
<1>4. at + 1 \in 1..Slots
  <2>1. at < m_gc.src
    BY <1>3 DEF RoomFit
  <2>2. QED BY <1>2, <1>3, <2>1, Constants
<1>5. PICK r : r = flash[Adr(Cur)].slots[m_gc.src]
  OBVIOUS
<1>6. r \in SlotType /\ r.state # "erased"
  BY <1>1, <1>2, <1>5 DEF FitIn, SwapFit, CopyFit, FlashType, PageType
<1>7. fs.do = "copy" /\ fs.page = Swap /\ fs.slot = at + 1 /\ fs.new = r
  BY <1>3, <1>5, CopyOp
<1>8. PICK x : x = flash[Swap]
  OBVIOUS
<1>9. PICK y : y = g[Swap]
  OBVIOUS
<1>10. PICK k \in 1..Slots : k = at + 1
  BY <1>4
<1>11. /\ \A p \in Page : p # Swap => g[p] = flash[p]
       /\ y.tag = x.tag /\ Wrote(x, y, k) /\ y.slots[k].state # "erased"
       /\ y.slots[k] = Over(x.slots[k], r)
  BY <1>1, <1>6, <1>7, <1>8, <1>9, <1>10, DoneWrote
<1>12. /\ Filled(x, at) /\ Blank(x, at + 1) /\ Honest(x)
       /\ x.slots[k] = Empty \/ x.slots[k].id = r.id
  BY <1>1, <1>3, <1>5, <1>8, <1>10 DEF FitIn, SwapFit, CopyFit, FlashFit
<1>13. Filled(y, at) /\ Blank(y, at + 1) /\ Honest(y)
  BY <1>10, <1>11, <1>12, WroteFacts
<1>14. NoGap(y)
  BY <1>13, FilledBlank
<1>15. FlashFit(g)
  BY <1>1, <1>9, <1>11, <1>13, <1>14, FlashFitAt DEF FitIn
<1>16. PagesFit(g, Call(TRUE))
  BY <1>1, <1>2, <1>11, PagesFitStay DEF FitIn
<1>17. y.slots[k].id = r.id
  <2>1. x.slots[k] \in SlotType
    BY <1>1, <1>8 DEF FlashType, PageType
  <2>2. QED BY <1>6, <1>11, <1>12, <2>1, OverFacts
<1>18. CopyFit(g, Call(TRUE))
  <2>1. g[Adr(Cur)].slots[m_gc.src] = r
    BY <1>1, <1>5, <1>11
  <2>2. QED BY <1>3, <1>6, <1>9, <1>10, <1>11, <1>17, <2>1 DEF CopyFit
<1>19. SwapFit(g, Call(TRUE))
  BY <1>1, <1>3, <1>9, <1>13, <1>18 DEF SwapFit
<1>20. QED BY <1>2, <1>15, <1>16, <1>19 DEF FitIn, WriteFit

LEMMA GcFitDone ==
  ASSUME ShapeInv, RoomFit, FitIn(flash, fs), Collecting, m_gc.state # "begin",
         fs \in FlashOpType, fs = GcOp, NEW g, g = Done(fs)
  PROVE  FitIn(g, Call(TRUE))
<1>1. /\ mode = "ready" /\ Cur \in DataPages /\ Swap \in Page /\ Adr(Cur) \in Page
      /\ Adr(Cur) # Swap /\ flash \in FlashType
      /\ m_gc.state \in {"copy", "erase", "discard", "promote", "tag"}
      /\ m_gc.state = "erase" => GcOp = Erase(Adr(Cur))
      /\ m_gc.state = "discard" => GcOp = Erase(Swap)
      /\ m_gc.state = "promote" => GcOp = Tag(Adr(Cur), "data")
      /\ m_gc.state = "tag" => GcOp = Tag(Swap, "swap")
  BY GcOpFacts DEF ShapeInv, TypeInv
<1>2. ~Writing /\ WriteFit(g, Call(TRUE))
  BY DEF Writing, Collecting, Writes, WriteFit
<1>3. FlashFit(flash) /\ PagesFit(flash, fs) /\ SwapFit(flash, fs)
  BY DEF FitIn
<1>4. \A i \in DataPages : Adr(i) \in Page /\ Adr(i) # Swap
  BY <1>1, MountedPages
<1>5. CASE m_gc.state = "copy"
  BY <1>5, CopyFitDone
<1>6. CASE m_gc.state = "erase"
  <2>1. fs.do = "erase" /\ fs.page = Adr(Cur)
    BY <1>1, <1>6, OpFacts
  <2>2. g[Adr(Cur)] = ErasedPage /\ \A p \in Page : p # Adr(Cur) => g[p] = flash[p]
    BY <1>1, <2>1, TagOrErase
  <2>3. FlashFit(g)
    BY <1>1, <1>3, <2>2, FlashFitAt, ErasedFits
  <2>4. PagesFit(g, Call(TRUE))
    <3>1. ASSUME NEW i \in DataPages
          PROVE  \/ g[Adr(i)] = flash[Adr(i)]
                 \/ /\ Blank(g[Adr(i)], m_pages[i].offset)
                    /\ g[Adr(i)].tag \notin {"data", "swap"}
      <4>1. CASE Adr(i) = Adr(Cur)
        BY <2>2, <4>1, ErasedFits, OpFacts
      <4>2. CASE Adr(i) # Adr(Cur)
        BY <1>4, <2>2, <4>2
      <4>3. QED BY <4>1, <4>2
    <3>2. mode # "init"
      BY <1>1
    <3>3. QED BY <1>1, <1>2, <1>3, <3>1, <3>2, PagesFitStay
  <2>5. SwapFit(g, Call(TRUE))
    <3>1. g[Swap] = flash[Swap]
      BY <1>1, <2>2
    <3>2. QED BY <1>1, <1>3, <1>6, <3>1 DEF SwapFit
  <2>6. QED BY <1>2, <2>3, <2>4, <2>5 DEF FitIn
<1>7. CASE m_gc.state = "discard"
  <2>1. fs.do = "erase" /\ fs.page = Swap
    BY <1>1, <1>7, OpFacts
  <2>2. g[Swap] = ErasedPage /\ \A p \in Page : p # Swap => g[p] = flash[p]
    BY <1>1, <2>1, TagOrErase
  <2>3. FlashFit(g)
    BY <1>1, <1>3, <2>2, FlashFitAt, ErasedFits
  <2>4. PagesFit(g, Call(TRUE))
    BY <1>1, <1>2, <1>3, <1>4, <2>2, PagesFitStay
  <2>5. SwapFit(g, Call(TRUE))
    BY <1>1, <1>7 DEF SwapFit
  <2>6. QED BY <1>2, <2>3, <2>4, <2>5 DEF FitIn
<1>8. CASE m_gc.state = "promote"
  <2>1. fs.do = "tag" /\ fs.page = Adr(Cur)
    BY <1>1, <1>8, OpFacts
  <2>2. /\ g[Adr(Cur)].slots = flash[Adr(Cur)].slots
        /\ g[Adr(Cur)].tag \in {"data", "swap"}
        /\ \A p \in Page : p # Adr(Cur) => g[p] = flash[p]
    BY <1>1, <2>1, TagOrErase
  <2>3. flash[Adr(Cur)].tag \in {"data", "swap"} /\ Blank(flash[Swap], 0)
    BY <1>1, <1>3, <1>8 DEF SwapFit
  <2>4. Honest(g[Adr(Cur)]) /\ NoGap(g[Adr(Cur)])
    BY <1>1, <1>3, <2>2, <2>3, SameSlots DEF FlashFit
  <2>5. FlashFit(g)
    BY <1>1, <1>3, <2>2, <2>4, FlashFitAt
  <2>6. ASSUME NEW i \in DataPages
        PROVE  \/ g[Adr(i)] = flash[Adr(i)]
               \/ /\ Blank(g[Adr(i)], m_pages[i].offset)
                  /\ Filled(g[Adr(i)], m_pages[i].offset)
    <3>1. CASE Adr(i) = Adr(Cur)
      <4>1. DataFit(flash, fs, i) /\ ~Begun(fs, i)
        BY <1>1, <1>2, <1>3 DEF PagesFit, Begun
      <4>2. /\ Blank(flash[Adr(i)], m_pages[i].offset)
            /\ Filled(flash[Adr(i)], m_pages[i].offset)
        BY <2>3, <3>1, <4>1 DEF DataFit
      <4>3. QED BY <2>2, <3>1, <4>2, SameSlots
    <3>2. CASE Adr(i) # Adr(Cur)
      BY <1>4, <2>2, <3>2
    <3>3. QED BY <3>1, <3>2
  <2>7. PagesFit(g, Call(TRUE))
    BY <1>1, <1>2, <1>3, <2>6, PagesFitStay
  <2>8. SwapFit(g, Call(TRUE))
    BY <1>1, <1>8, <2>2, <2>3 DEF SwapFit
  <2>9. QED BY <1>2, <2>5, <2>7, <2>8 DEF FitIn
<1>9. CASE m_gc.state = "tag"
  <2>1. fs.do = "tag" /\ fs.page = Swap
    BY <1>1, <1>9, OpFacts
  <2>2. /\ g[Swap].slots = flash[Swap].slots
        /\ \A p \in Page : p # Swap => g[p] = flash[p]
    BY <1>1, <2>1, TagOrErase
  <2>3. Blank(g[Swap], 0) /\ Honest(g[Swap])
    <3>1. Blank(flash[Swap], 0) /\ Honest(flash[Swap])
      BY <1>1, <1>3, <1>9 DEF SwapFit, FlashFit
    <3>2. QED BY <2>2, <3>1, SameSlots
  <2>4. NoGap(g[Swap])
    <3>1. Filled(g[Swap], 0) /\ Blank(g[Swap], 0 + 1)
      BY <2>3, BlankMore, Constants DEF Filled
    <3>2. QED BY <3>1, FilledBlank
  <2>5. FlashFit(g)
    BY <1>1, <1>3, <2>2, <2>3, <2>4, FlashFitAt
  <2>6. PagesFit(g, Call(TRUE))
    BY <1>1, <1>2, <1>3, <1>4, <2>2, PagesFitStay
  <2>7. SwapFit(g, Call(TRUE))
    BY <1>1, <1>9, <2>3 DEF SwapFit
  <2>8. QED BY <1>2, <2>5, <2>6, <2>7 DEF FitIn
<1>10. QED BY <1>1, <1>5, <1>6, <1>7, <1>8, <1>9

\* A step that only changes the flash.
LEMMA SameRam ==
  ASSUME UNCHANGED <<mode, ramVars>>, RoomFit, NEW g, g = flash', NEW f, f = fs',
         FitIn(g, f)
  PROVE  RoomFit' /\ FitIn(flash, fs)'
<1>1. /\ mode' = mode /\ m_pages' = m_pages /\ m_swap_page' = m_swap_page
      /\ m_gc' = m_gc /\ m_op_queue' = m_op_queue
  BY DEF ramVars
<1>2. /\ Operation1' = Operation1 /\ DataPages' = DataPages /\ ErasedPages' = ErasedPages
      /\ Swap' = Swap /\ Cur' = Cur /\ \A i : Adr(i)' = Adr(i)
  BY <1>1 DEF Operation1, DataPages, ErasedPages, Swap, Cur, Adr
<1>3. (Writing' <=> Writing) /\ (Collecting' <=> Collecting)
  BY <1>1, <1>2 DEF Writing, Collecting
<1>4. RoomFit'
  BY <1>1, <1>2 DEF RoomFit
<1>5. FlashFit(flash)'
  BY DEF FitIn, FlashFit
<1>6. PagesFit(flash, fs)'
  <2>1. \A i : Begun(fs, i)' <=> Begun(f, i)
    BY <1>2, <1>3 DEF Begun
  <2>2. \A i : DataFit(g, f, i) => DataFit(flash, fs, i)'
    BY <1>1, <1>2, <2>1 DEF DataFit
  <2>3. PagesFit(g, f)
    BY DEF FitIn
  <2>4. QED BY <1>1, <1>2, <2>2, <2>3 DEF PagesFit
<1>7. WriteFit(flash, fs)'
  <2>1. WriteFit(g, f)
    BY DEF FitIn
  <2>2. QED BY <1>1, <1>2, <1>3, <2>1 DEF WriteFit
<1>8. SwapFit(flash, fs)'
  <2>1. SwapFit(g, f)
    BY DEF FitIn
  <2>2. CopyFit(g, f) => CopyFit(flash, fs)'
    BY <1>1, <1>2, <1>3 DEF CopyFit
  <2>3. QED BY <1>1, <1>2, <2>1, <2>2 DEF SwapFit
<1>9. QED BY <1>4, <1>5, <1>6, <1>7, <1>8 DEF FitIn

LEMMA FitDone ==
  ASSUME ShapeInv, FsInv, RoomFit, FitIn(flash, fs), fs.do \in FlashOp,
         NEW g, g = Done(fs)
  PROVE  FitIn(g, Call(TRUE))
<1>1. fs \in FlashOpType
  BY FsUnderWay
<1>2. CASE mode = "init"
  BY <1>2, InitFitDone
<1>3. CASE Writing
  BY <1>3, WriteDone
<1>4. CASE Collecting /\ m_gc.state # "begin" /\ fs = GcOp
  BY <1>1, <1>4, GcFitDone
<1>5. QED BY <1>2, <1>3, <1>4, FsUnderWay

\* An operation that fails leaves the flash as it is.
LEMMA FitFailed ==
  ASSUME FitIn(flash, fs)
  PROVE  FitIn(flash, Call(FALSE))
<1>1. FlashFit(flash) /\ PagesFit(flash, fs) /\ WriteFit(flash, fs) /\ SwapFit(flash, fs)
  BY DEF FitIn
<1>2. PagesFit(flash, Call(FALSE))
  <2>1. \A i : Begun(fs, i) => Begun(Call(FALSE), i)
    BY CallDoes DEF Begun
  <2>2. \A i : DataFit(flash, fs, i) => DataFit(flash, Call(FALSE), i)
    BY <2>1 DEF DataFit
  <2>3. QED BY <1>1, <2>2 DEF PagesFit
<1>3. WriteFit(flash, Call(FALSE))
  BY <1>1, CallDoes DEF WriteFit
<1>4. SwapFit(flash, Call(FALSE))
  <2>1. CopyFit(flash, fs) => CopyFit(flash, Call(FALSE))
    BY CallDoes DEF CopyFit
  <2>2. QED BY <1>1, <2>1 DEF SwapFit
<1>5. QED BY <1>1, <1>2, <1>3, <1>4 DEF FitIn

LEMMA FlashFits ==
  ASSUME ShapeInv, FsInv, FitInv, FlashEnds \/ FlashFails
  PROVE  FitInv'
<1>1. hit' = hit /\ UNCHANGED <<mode, ramVars>> /\ fs.do \in FlashOp
  BY DEF FlashEnds, FlashFails
<1>2. SUFFICES ASSUME Ungapped PROVE RoomFit' /\ FitIn(flash, fs)'
  BY <1>1 DEF FitInv, Ungapped, Unhurt
<1>3. RoomFit /\ FitIn(flash, fs)
  BY <1>2 DEF FitInv
<1>4. CASE FlashEnds
  <2>1. flash' = Done(fs) /\ fs' = Call(TRUE)
    BY <1>4 DEF FlashEnds
  <2>2. PICK g : g = flash'
    OBVIOUS
  <2>3. FitIn(g, Call(TRUE))
    BY <1>1, <1>3, <2>1, <2>2, FitDone
  <2>4. QED BY <1>1, <1>3, <2>1, <2>2, <2>3, SameRam
<1>5. CASE FlashFails
  <2>1. flash' = flash /\ fs' = Call(FALSE)
    BY <1>5 DEF FlashFails
  <2>2. FitIn(flash, Call(FALSE))
    BY <1>3, FitFailed
  <2>3. QED BY <1>1, <1>3, <2>1, <2>2, SameRam
<1>6. QED BY <1>4, <1>5

\* A part of a record that is copied is in its place.
LEMMA PartlyCopied ==
  ASSUME flash \in FlashType, NEW f \in FlashOpType, NEW g \in PartlyDone(f),
         f.do = "copy"
  PROVE  Wrote(flash[f.page], g[f.page], f.slot)
<1>1. PICK p \in Page : p = f.page
  BY FlashOpCases
<1>2. flash[p] \in PageType /\ f.new \in SlotType
  BY FlashOpCases DEF FlashType
<1>3. PICK part \in {"begun", "torn"} :
         g = [flash EXCEPT ![p].slots[f.slot] =
                Over(@, [f.new EXCEPT !.state = part])]
  BY <1>1 DEF PartlyDone
<1>4. PICK new : new = [f.new EXCEPT !.state = part]
  OBVIOUS
<1>5. new \in SlotType /\ new.state # "erased"
  BY <1>2, <1>3, <1>4 DEF SlotType
<1>6. PICK old : old = Over(flash[p].slots[f.slot], new)
  OBVIOUS
<1>7. f.slot \in 1..Slots => old.state # "erased"
  BY <1>2, <1>5, <1>6, OverFacts DEF PageType
<1>8. \A s \in 1..Slots : g[p].slots[s] = IF s = f.slot THEN old
                                          ELSE flash[p].slots[s]
  BY <1>2, <1>3, <1>4, <1>6 DEF FlashType, PageType
<1>9. QED BY <1>1, <1>7, <1>8 DEF Wrote

LEMMA PartlyFits ==
  ASSUME ShapeInv, FsInv, RoomFit, FitIn(flash, fs), fs \in FlashOpType,
         NEW g \in PartlyDone(fs)
  PROVE  FlashFit(g)
<1>1. flash \in FlashType /\ fs.page \in Page /\ fs.do \in FlashOp /\ FlashFit(flash)
  BY FlashOpCases DEF ShapeInv, TypeInv, FitIn
<1>2. PICK x : x = flash[fs.page]
  OBVIOUS
<1>3. PICK y : y = g[fs.page]
  OBVIOUS
<1>4. Honest(x) /\ \A p \in Page : p # fs.page => g[p] = flash[p]
  <2>1. \A p \in Page : p # fs.page => g[p] = flash[p]
    BY <1>1, PartlyDoneFacts, Zenon
  <2>2. QED BY <1>1, <1>2, <2>1 DEF FlashFit
<1>5. CASE fs.do = "tag" /\ y.tag = "half" /\ y.slots = x.slots
  <2>1. Honest(y)
    BY <1>4, <1>5, SameSlots
  <2>2. QED BY <1>1, <1>3, <1>4, <1>5, <2>1, FlashFitAt
<1>6. CASE fs.do = "copy" /\ y.tag = x.tag
  <2>1. mode = "ready" /\ m_gc.state = "copy" /\ Swap \in Page /\ fs = GcOp
    <3>1. mode = "ready" /\ Collecting /\ m_gc.state # "begin" /\ fs = GcOp
      <4>1. \A f : f.do = "copy" => /\ \A p : f # Erase(p)
                                    /\ \A p, tag : f # Tag(p, tag)
        <5>1. SUFFICES ASSUME NEW f, f.do = "copy"
              PROVE  (\A p : f # Erase(p)) /\ \A p, tag : f # Tag(p, tag)
          OBVIOUS
        <5>2. \A p : Erase(p).do # f.do
          BY <5>1, OpFacts
        <5>3. \A p, tag : Tag(p, tag).do # f.do
          BY <5>1, OpFacts
        <5>4. QED BY <5>2, <5>3, Zenon
      <4>2. QED BY <1>1, <1>6, <4>1, FsUnderWay
    <3>2. GcOp.do = "copy"
      BY <1>6, <3>1
    <3>3. QED BY <3>1, <3>2, GcOpFacts, OpFacts
  <2>2. PICK at \in Nat : at = m_swap_page.offset
    BY DEF ShapeInv, TypeInv, SwapType
  <2>3. fs.page = Swap /\ fs.slot = at + 1
    BY <2>1, <2>2, CopyOp
  <2>4. Filled(x, at) /\ Blank(x, at + 1)
    BY <1>2, <2>1, <2>2, <2>3 DEF FitIn, SwapFit
  <2>5. Wrote(x, y, fs.slot)
    BY <1>1, <1>2, <1>3, <1>6, PartlyCopied
  <2>6. Honest(y) /\ Filled(y, at) /\ Blank(y, at + 1)
    BY <1>4, <2>2, <2>3, <2>4, <2>5, WroteFacts
  <2>7. NoGap(y)
    BY <2>2, <2>6, FilledBlank
  <2>8. QED BY <1>1, <1>3, <1>4, <2>6, <2>7, FlashFitAt
<1>7. \/ fs.do = "tag" /\ y.tag = "half" /\ y.slots = x.slots
      \/ fs.do = "copy" /\ y.tag = x.tag
  BY <1>1, <1>2, <1>3, PartlyDoneFacts, Zenon
<1>8. QED BY <1>5, <1>6, <1>7

LEMMA ResetFits ==
  ASSUME ShapeInv, FsInv, FitInv, Ungapped' => Ungapped, Reset
  PROVE  FitInv'
<1>1. /\ mode' = "off" /\ m_gc'.state = "begin" /\ DataPages' = {}
      /\ m_op_queue' = <<>>
  BY DEF Reset, GcIdle, DataPages, NoPages
<1>2. SUFFICES ASSUME Ungapped, RoomFit, FitIn(flash, fs)
               PROVE  RoomFit' /\ FitIn(flash, fs)'
  BY DEF FitInv
<1>3. PICK g : g = flash'
  OBVIOUS
<1>4. FlashFit(g)
  <2>1. CASE g = flash
    BY <1>2, <2>1 DEF FitIn
  <2>2. CASE fs \in FlashOpType /\ g = Done(fs)
    <3>1. FitIn(g, Call(TRUE))
      BY <1>2, <2>2, FitDone, FlashOpCases
    <3>2. QED BY <3>1 DEF FitIn
  <2>3. CASE fs \in FlashOpType /\ g \in PartlyDone(fs)
    BY <1>2, <2>3, PartlyFits
  <2>4. QED BY <1>3, <2>1, <2>2, <2>3, ResetFlash
<1>5. FlashFit(flash)'
  BY <1>3, <1>4 DEF FlashFit
<1>6. RoomFit'
  BY <1>1 DEF RoomFit
<1>7. PagesFit(flash, fs)' /\ WriteFit(flash, fs)'
  BY <1>1 DEF PagesFit, WriteFit, Writing
<1>8. SwapFit(flash, fs)'
  BY <1>1 DEF SwapFit
<1>9. QED BY <1>5, <1>6, <1>7, <1>8 DEF FitIn

(***************************************************************************)
(* FitInv: the callers and the steps of a write.                           *)
(***************************************************************************)

SameGc ==
  m_gc'.state = m_gc.state /\ m_gc'.cur = m_gc.cur /\ m_gc'.src = m_gc.src

\* A step that changes neither the flash nor the offsets of the pages.
LEMMA StayFit ==
  ASSUME ShapeInv, RoomFit, FitIn(flash, fs), mode = "ready", mode' = mode,
         flash' = flash, m_swap_page' = m_swap_page, PagesStay,
         \A i \in DataPages : m_pages'[i].offset + m_pages'[i].reserved <= Slots,
         SameGc \/ (m_gc'.state = "begin" /\ m_gc.state \in {"begin", "tag"}),
         \A i : Begun(fs, i) => Begun(fs, i)',
         Writing' => \/ Operation1'.step = "begin"
                     \/ Writing /\ Operation1' = Operation1 /\ fs' = fs,
         m_gc'.state = "copy" /\ Collecting' /\ fs' = Call(TRUE) /\ ~m_gc'.resume
           => Collecting /\ fs = Call(TRUE) /\ ~m_gc.resume
  PROVE  RoomFit' /\ FitIn(flash, fs)'
<1>1. /\ DataPages' = DataPages /\ Swap' = Swap /\ DataPages \subseteq Index
      /\ \A i \in DataPages : Adr(i)' = Adr(i) /\ m_pages'[i].offset = m_pages[i].offset
  BY SamePagesFacts DEF PagesStay, SamePages, DataPages, Swap, Adr
<1>2. ASSUME m_gc.state # "begin" PROVE Cur \in DataPages
  BY <1>2 DEF ShapeInv, GcInv
<1>3. /\ m_gc.state \in {"copy", "erase"} => Cur \in DataPages
      /\ m_gc'.state \in {"copy", "erase", "promote", "discard"} =>
           SameGc /\ Cur' = Cur /\ Cur \in DataPages
  BY <1>2 DEF SameGc, Cur
<1>4. RoomFit'
  <2>1. m_gc'.state = "copy" =>
          m_swap_page'.offset < m_gc'.src /\ m_gc'.src <= m_pages'[Cur'].offset
    BY <1>1, <1>3 DEF RoomFit, SameGc
  <2>2. m_gc'.state = "erase" => m_swap_page'.offset <= m_pages'[Cur'].offset
    BY <1>1, <1>3 DEF RoomFit, SameGc
  <2>3. m_gc'.state \notin {"copy", "erase"} => m_swap_page'.offset = 0
    BY DEF RoomFit, SameGc
  <2>4. QED BY <1>1, <2>1, <2>2, <2>3 DEF RoomFit
<1>5. FlashFit(flash)'
  BY DEF FitIn, FlashFit
<1>6. PagesFit(flash, fs)'
  <2>1. ASSUME NEW i \in DataPages PROVE DataFit(flash, fs, i)'
    <3>1. DataFit(flash, fs, i)
      BY DEF FitIn, PagesFit
    <3>2. ~Begun(fs, i)' => ~Begun(fs, i)
      OBVIOUS
    <3>3. QED BY <1>1, <3>1, <3>2 DEF DataFit
  <2>2. QED BY <1>1, <2>1 DEF PagesFit
<1>7. WriteFit(flash, fs)'
  <2>1. SUFFICES ASSUME Writing' PROVE WriteFit(flash, fs)'
    BY DEF WriteFit
  <2>2. CASE Operation1'.step = "begin"
    BY <2>2 DEF WriteFit
  <2>3. CASE Writing /\ Operation1' = Operation1 /\ fs' = fs
    <3>1. /\ Operation1.page \in DataPages
          /\ Operation1.op = "update" /\ Operation1.step # "begin" =>
               Operation1.target[1] \in DataPages
      BY <2>3, WritingMode
    <3>2. WriteFit(flash, fs)
      BY DEF FitIn
    <3>3. QED BY <1>1, <2>3, <3>1, <3>2 DEF WriteFit
  <2>4. QED BY <2>1, <2>2, <2>3
<1>8. SwapFit(flash, fs)'
  <2>1. SwapFit(flash, fs)
    BY DEF FitIn
  <2>2. ASSUME m_gc'.state = "copy" PROVE CopyFit(flash, fs)'
    <3>1. CopyFit(flash, fs)
      BY <1>3, <2>1, <2>2 DEF SwapFit, SameGc
    <3>2. Adr(Cur)' = Adr(Cur)
      BY <1>1, <1>3, <2>2 DEF Adr
    <3>3. QED BY <1>1, <1>3, <2>2, <3>1, <3>2 DEF CopyFit, SameGc
  <2>3. m_gc'.state = "promote" => Adr(Cur)' = Adr(Cur)
    BY <1>1, <1>3 DEF Adr
  <2>4. QED BY <1>1, <2>1, <2>2, <2>3 DEF SwapFit, SameGc
<1>9. QED BY <1>4, <1>5, <1>6, <1>7, <1>8 DEF FitIn

LEMMA EnqueuedFits ==
  ASSUME ShapeInv, RoomFit, FitIn(flash, fs), mode = "ready", mode' = mode, Calm,
         flash' = flash, m_swap_page' = m_swap_page, PagesStay,
         \A i \in DataPages : m_pages'[i].offset + m_pages'[i].reserved <= Slots,
         SameGc, NEW op, Enqueued(op), op.op \in Writes => op.step = "begin",
         op.op = "gc" => m_gc'.resume = (m_gc.resume \/ m_gc.state # "begin"),
         op.op # "gc" => m_gc'.resume = m_gc.resume
  PROVE  RoomFit' /\ FitIn(flash, fs)'
<1>1. /\ m_op_queue # <<>> => Operation1' = Operation1 /\ fs' = fs
      /\ m_op_queue = <<>> => Operation1' = op
      /\ m_op_queue' # <<>>
  BY DEF Enqueued
<1>2. \A i : Begun(fs, i) => Begun(fs, i)'
  BY <1>1 DEF Begun, Writing
<1>3. Writing' => \/ Operation1'.step = "begin"
                  \/ Writing /\ Operation1' = Operation1 /\ fs' = fs
  BY <1>1 DEF Writing
<1>4. m_gc'.state = "copy" /\ Collecting' /\ fs' = Call(TRUE) /\ ~m_gc'.resume
        => Collecting /\ fs = Call(TRUE) /\ ~m_gc.resume
  <2>1. CASE m_op_queue # <<>>
    BY <1>1, <2>1 DEF Collecting
  <2>2. CASE m_op_queue = <<>>
    <3>1. Collecting' => op.op = "gc"
      BY <1>1, <2>2 DEF Collecting
    <3>2. QED BY <3>1 DEF SameGc
  <2>3. QED BY <2>1, <2>2
<1>5. QED BY <1>2, <1>3, <1>4, StayFit

LEMMA CallersFit ==
  ASSUME ShapeInv, FitInv, Ungapped' => Ungapped, Callers
  PROVE  FitInv'
<1>1. SUFFICES ASSUME Ungapped, RoomFit, FitIn(flash, fs)
               PROVE  RoomFit' /\ FitIn(flash, fs)'
  BY DEF FitInv
<1>2. \A i \in DataPages : m_pages[i].offset + m_pages[i].reserved <= Slots
  BY <1>1 DEF RoomFit
<1>3. ASSUME NEW key \in Key, write_enqueue(key)
      PROVE  RoomFit' /\ FitIn(flash, fs)'
  <2>1. /\ flash' = flash /\ m_swap_page' = m_swap_page /\ m_gc' = m_gc /\ mode' = mode
        /\ mode = "ready" /\ Calm /\ PagesStay
    BY <1>3, WriteEnqueueFacts DEF write_enqueue
  <2>2. PICK i \in DataPages, op \in OpType :
          /\ Enqueued(op) /\ op.op \in Writes /\ op.step = "begin" /\ HasRoom(i)
          /\ m_pages'[i].reserved = m_pages[i].reserved + 1
          /\ \A j \in Index : j # i => m_pages'[j] = m_pages[j]
    BY <1>3, WriteEnqueueFacts
  <2>3. ASSUME NEW j \in DataPages
        PROVE  m_pages'[j].offset + m_pages'[j].reserved <= Slots
    <3>1. /\ m_pages[j].offset \in Nat /\ m_pages[j].reserved \in Nat /\ j \in Index
          /\ m_pages'[j].offset = m_pages[j].offset
      BY <2>1, MountedPages DEF PagesStay
    <3>2. CASE j = i
      BY <2>2, <3>1, <3>2, Constants DEF HasRoom
    <3>3. CASE j # i
      BY <1>2, <2>2, <3>1, <3>3
    <3>4. QED BY <3>2, <3>3
  <2>4. op.op # "gc"
    BY <2>2 DEF Writes
  <2>5. QED BY <1>1, <2>1, <2>2, <2>3, <2>4, EnqueuedFits DEF SameGc
<1>4. CASE fds_gc
  <2>1. /\ flash' = flash /\ m_swap_page' = m_swap_page /\ mode' = mode
        /\ m_pages' = m_pages
    BY <1>4 DEF fds_gc
  <2>2. PICK op \in OpType : Enqueued(op) /\ op.op = "gc"
    BY <1>4, FdsGcFacts
  <2>3. QED BY <1>1, <1>2, <1>4, <2>1, <2>2, FdsGcFacts, StayPages, EnqueuedFits
            DEF SameGc, Writes
<1>5. ASSUME PagesStay, mode = "ready",
             \A i \in Index : m_pages'[i].reserved = m_pages[i].reserved,
             UNCHANGED <<flash, mode, m_swap_page, m_gc, m_op_queue, fs>>
      PROVE  RoomFit' /\ FitIn(flash, fs)'
  <2>1. Operation1' = Operation1 /\ (Writing' <=> Writing) /\ (Collecting' <=> Collecting)
    BY <1>5 DEF Operation1, Writing, Collecting
  <2>2. \A i : Begun(fs, i) => Begun(fs, i)'
    BY <1>5, <2>1 DEF Begun
  <2>3. \A i \in DataPages : m_pages'[i].offset + m_pages'[i].reserved <= Slots
    BY <1>2, <1>5 DEF PagesStay, DataPages
  <2>4. QED BY <1>1, <1>5, <2>1, <2>2, <2>3, StayFit DEF SameGc
<1>6. ASSUME NEW key \in Key, fds_record_open(key)
      PROVE  RoomFit' /\ FitIn(flash, fs)'
  <2>1. /\ mode = "ready" /\ PagesStay
        /\ UNCHANGED <<flash, mode, m_swap_page, m_gc, m_op_queue, fs>>
    BY <1>6, OpenFacts DEF fds_record_open
  <2>2. \A i \in Index : m_pages'[i].reserved = m_pages[i].reserved
    <3>1. m_pages \in [Index -> PageRecord]
      BY DEF ShapeInv, TypeInv
    <3>2. PICK i, n : m_pages' = [m_pages EXCEPT ![i].open = n]
      BY <1>6 DEF fds_record_open
    <3>3. QED BY <3>1, <3>2 DEF PageRecord
  <2>3. QED BY <1>5, <2>1, <2>2
<1>7. CASE fds_record_close
  BY <1>5, <1>7, CloseFacts, ClosePages, Zenon DEF fds_record_close
<1>8. QED BY <1>3, <1>4, <1>6, <1>7 DEF Callers

LEMMA UngappedMeans ==
  Ungapped => RightSwap /\ "gap" \notin hit /\ "advance" \notin hit
BY DEF Ungapped, Unhurt, RightSwap

LEMMA AnotherFacts ==
  ASSUME ShapeInv, m_op_queue # <<>>, Pop, Collecting'
  PROVE  AnotherGc /\ GcQueued
<1>1. /\ Len(m_op_queue) \in Nat /\ Len(m_op_queue') = Len(m_op_queue) - 1
      /\ \A j \in 1..Len(m_op_queue') : m_op_queue'[j] = m_op_queue[j + 1]
  BY PopFacts
<1>2. m_op_queue' # <<>> /\ Operation1'.op = "gc" /\ m_op_queue' = Tail(m_op_queue)
  BY DEF Collecting, Pop
<1>3. m_op_queue' \in Seq(OpType)
  BY <1>2, QueueFacts DEF ShapeInv, TypeInv
<1>4. /\ Operation1' = m_op_queue'[1] /\ Len(m_op_queue') >= 1
  BY <1>2, <1>3, QueueFacts DEF Operation1
<1>5. 2 \in 2..Len(m_op_queue) /\ m_op_queue'[1] = m_op_queue[2]
  BY <1>1, <1>4
<1>6. 2 \in 1..Len(m_op_queue)
  BY <1>1, <1>5
<1>7. QED BY <1>2, <1>4, <1>5, <1>6 DEF AnotherGc, GcQueued

\* The record of a write that ends has its place.
LEMMA WriteLeaves ==
  ASSUME ShapeInv, ResumeInv, Ungapped, RoomFit, FitIn(flash, fs), Writing,
         Operation1.step \in {"dirty", "done"}, OffsetsUpdate, Pop,
         UNCHANGED <<flash, mode, m_swap_page, m_gc>>
  PROVE  RoomFit' /\ FitIn(flash, fs)'
<1>1. mode = "ready" /\ m_op_queue # <<>> /\ Operation1.op \in Writes
  BY WritingMode
<1>2. PICK o \in DataPages : o = Operation1.page
  BY WritingMode
<1>3. /\ SamePages /\ \A i \in Index : i # o => m_pages'[i] = m_pages[i]
      /\ m_pages'[o].offset = m_pages[o].offset + 1
      /\ m_pages'[o].reserved = m_pages[o].reserved - 1
  BY <1>1, <1>2, OffsetsFacts
<1>4. /\ DataPages' = DataPages /\ Swap' = Swap /\ DataPages \subseteq Index
      /\ Cur' = Cur /\ \A i \in DataPages : Adr(i)' = Adr(i)
  BY <1>3, SamePagesFacts DEF SamePages, DataPages, Swap, Adr, Cur
<1>5. \A i \in DataPages : m_pages[i].offset \in Nat /\ m_pages[i].reserved \in Nat
  BY <1>1, MountedPages
<1>6. Writing' => Operation1'.step = "begin"
  BY <1>1, PopCalm
<1>7. \A i : ~Begun(fs, i)'
  BY <1>6 DEF Begun
<1>8. RoomFit'
  <2>1. ASSUME NEW i \in DataPages
        PROVE  /\ m_pages'[i].offset + m_pages'[i].reserved <= Slots
               /\ m_pages'[i].offset >= m_pages[i].offset
    <3>1. m_pages[i].offset + m_pages[i].reserved <= Slots
      BY DEF RoomFit
    <3>2. QED BY <1>3, <1>4, <1>5, <3>1
  <2>2. m_gc.state # "begin" => Cur \in DataPages
    BY DEF ShapeInv, GcInv
  <2>3. m_gc \in GcType /\ m_swap_page \in SwapType
    BY DEF ShapeInv, TypeInv
  <2>4. m_gc.src \in Nat /\ m_swap_page.offset \in Nat
    BY <2>3 DEF GcType, SwapType
  <2>5. m_gc.state = "copy" => m_gc.src <= m_pages'[Cur].offset
    <3>1. SUFFICES ASSUME m_gc.state = "copy"
                   PROVE  m_gc.src <= m_pages'[Cur].offset
      OBVIOUS
    <3>2. m_gc.src <= m_pages[Cur].offset /\ Cur \in DataPages
      BY <2>2, <3>1 DEF RoomFit
    <3>3. PICK n \in Nat : n = m_pages'[Cur].offset
      BY <1>3, <1>4, <1>5, <3>2
    <3>4. QED BY <1>5, <2>1, <2>4, <3>2, <3>3
  <2>6. m_gc.state = "erase" => m_swap_page.offset <= m_pages'[Cur].offset
    <3>1. SUFFICES ASSUME m_gc.state = "erase"
                   PROVE  m_swap_page.offset <= m_pages'[Cur].offset
      OBVIOUS
    <3>2. m_swap_page.offset <= m_pages[Cur].offset /\ Cur \in DataPages
      BY <2>2, <3>1 DEF RoomFit
    <3>3. PICK n \in Nat : n = m_pages'[Cur].offset
      BY <1>3, <1>4, <1>5, <3>2
    <3>4. QED BY <1>5, <2>1, <2>4, <3>2, <3>3
  <2>7. QED BY <1>1, <1>4, <2>1, <2>5, <2>6 DEF RoomFit
<1>9. FlashFit(flash)'
  BY DEF FitIn, FlashFit
<1>10. PagesFit(flash, fs)'
  <2>1. ASSUME NEW i \in DataPages PROVE DataFit(flash, fs, i)'
    <3>1. DataFit(flash, fs, i)
      BY <1>1 DEF FitIn, PagesFit
    <3>2. CASE i # o
      <4>1. ~Begun(fs, i) /\ m_pages'[i].offset = m_pages[i].offset
        BY <1>2, <1>3, <1>4, <3>2 DEF Begun
      <4>2. QED BY <1>4, <3>1, <4>1 DEF DataFit
    <3>3. CASE i = o
      <4>1. PICK n \in Nat : n = m_pages[o].offset
        BY <1>5
      <4>2. PICK x : x = flash[Adr(o)]
        OBVIOUS
      <4>3. /\ Blank(x, n + 1)
            /\ x.tag \in {"data", "swap"} => Filled(x, n)
        BY <3>1, <3>3, <4>1, <4>2 DEF DataFit
      <4>4. x.slots[n + 1].state # "erased"
        BY <1>2, <4>1, <4>2 DEF FitIn, WriteFit
      <4>5. Blank(x, n + 1 + 1)
        BY <4>1, <4>3, BlankMore
      <4>6. Filled(x, n) => Filled(x, n + 1)
        BY <4>1, <4>4, Constants DEF Filled
      <4>7. m_pages'[o].offset = n + 1 /\ flash'[Adr(o)'] = x /\ mode' # "init"
        BY <1>1, <1>3, <1>4, <4>1, <4>2
      <4>8. QED BY <3>3, <4>3, <4>5, <4>6, <4>7 DEF DataFit
    <3>4. QED BY <3>2, <3>3
  <2>2. QED BY <1>4, <2>1 DEF PagesFit
<1>11. WriteFit(flash, fs)'
  BY <1>6 DEF WriteFit
<1>12. SwapFit(flash, fs)'
  <2>1. SwapFit(flash, fs)
    BY DEF FitIn
  <2>2. m_gc.state # "begin" => Adr(Cur)' = Adr(Cur)
    <3>1. m_gc.state # "begin" => Cur \in DataPages
      BY DEF ShapeInv, GcInv
    <3>2. QED BY <1>3, <1>4, <3>1 DEF Adr, SamePages
  <2>3. ASSUME m_gc.state = "copy" PROVE CopyFit(flash, fs)'
    <3>1. CopyFit(flash, fs)
      BY <2>1, <2>3 DEF SwapFit
    <3>2. Collecting' => m_gc.resume
      <4>1. Collecting' => GcQueued
        BY <1>1, AnotherFacts
      <4>2. ~Collecting
        BY <1>1 DEF Collecting, Writes
      <4>3. QED BY <2>3, <4>1, <4>2, UngappedMeans, ResumeMeans
    <3>3. QED BY <1>4, <2>2, <2>3, <3>1, <3>2 DEF CopyFit
  <2>4. QED BY <1>1, <1>4, <2>1, <2>2, <2>3 DEF SwapFit
<1>13. QED BY <1>8, <1>9, <1>10, <1>11, <1>12 DEF FitIn

LEMMA WriteLeft ==
  ASSUME ShapeInv, ResumeInv, FitInv, Ungapped' => Ungapped, WriteEnds \/ WriteFails
  PROVE  FitInv'
<1>1. SUFFICES ASSUME Ungapped', Ungapped, RoomFit, FitIn(flash, fs)
               PROVE  RoomFit' /\ FitIn(flash, fs)'
  BY DEF FitInv
<1>2. /\ Writing /\ OffsetsUpdate /\ Pop
      /\ UNCHANGED <<flash, mode, m_swap_page, m_gc>>
  BY DEF WriteEnds, WriteFails, Runs, Fails, Writing, Operation1, Writes
<1>3. Operation1.step \in {"dirty", "done"}
  <2>1. CASE WriteEnds
    BY <2>1 DEF WriteEnds
  <2>2. CASE WriteFails
    <3>1. Operation1.step \notin {"begin", "finalize"}
      BY <1>1, <2>2 DEF WriteFails, Ungapped, Unhurt
    <3>2. QED BY <1>2, <3>1, WritingMode
  <2>3. QED BY <2>1, <2>2
<1>4. QED BY <1>1, <1>2, <1>3, WriteLeaves

\* The next step of a write.
LEMMA WriteOnFit ==
  ASSUME ShapeInv, RoomFit, FitIn(flash, fs), Writing, Writing', PagesStay,
         \A i \in Index : m_pages'[i].reserved = m_pages[i].reserved,
         UNCHANGED <<flash, mode, m_swap_page, m_gc>>,
         Operation1'.page = Operation1.page, Operation1'.op = Operation1.op,
         \A i : Begun(fs, i) => Begun(fs, i)',
         Operation1'.step = "finalize" => fs' # Call(TRUE),
         Operation1'.step \in {"dirty", "done"} =>
           flash[Adr(Operation1.page)].slots[m_pages[Operation1.page].offset + 1].state
             # "erased",
         Operation1'.op = "update" =>
           /\ Operation1'.target[1] \in DataPages
           /\ flash[Adr(Operation1'.target[1])].slots[Operation1'.target[2]].state
                # "erased"
  PROVE  RoomFit' /\ FitIn(flash, fs)'
<1>1. mode = "ready" /\ Operation1.page \in DataPages
  BY WritingMode
<1>2. /\ DataPages' = DataPages /\ Swap' = Swap /\ DataPages \subseteq Index
      /\ Cur' = Cur
      /\ \A i \in DataPages : Adr(i)' = Adr(i) /\ m_pages'[i].offset = m_pages[i].offset
  BY SamePagesFacts DEF PagesStay, SamePages, DataPages, Swap, Adr, Cur
<1>3. m_gc.state # "begin" => Cur \in DataPages
  BY DEF ShapeInv, GcInv
<1>4. RoomFit'
  BY <1>1, <1>2, <1>3 DEF RoomFit
<1>5. FlashFit(flash)'
  BY DEF FitIn, FlashFit
<1>6. PagesFit(flash, fs)'
  <2>1. ASSUME NEW i \in DataPages PROVE DataFit(flash, fs, i)'
    <3>1. DataFit(flash, fs, i)
      BY <1>1 DEF FitIn, PagesFit
    <3>2. ~Begun(fs, i)' => ~Begun(fs, i)
      OBVIOUS
    <3>3. QED BY <1>2, <3>1, <3>2 DEF DataFit
  <2>2. QED BY <1>2, <2>1 DEF PagesFit
<1>7. WriteFit(flash, fs)'
  BY <1>1, <1>2 DEF WriteFit
<1>8. SwapFit(flash, fs)'
  <2>1. SwapFit(flash, fs)
    BY DEF FitIn
  <2>2. m_gc.state # "begin" => Adr(Cur)' = Adr(Cur)
    BY <1>2, <1>3 DEF Adr
  <2>3. ~Collecting'
    BY DEF Collecting, Writing, Writes
  <2>4. m_gc.state = "copy" /\ CopyFit(flash, fs) => CopyFit(flash, fs)'
    BY <1>2, <2>2, <2>3 DEF CopyFit
  <2>5. QED BY <1>1, <1>2, <2>1, <2>2, <2>4 DEF SwapFit
<1>9. QED BY <1>4, <1>5, <1>6, <1>7, <1>8 DEF FitIn

LEMMA PlaceWritten ==
  ASSUME ShapeInv, mode = "ready", NEW id, Places(id) # {},
         NEW at, at = Lowest(Places(id))
  PROVE  at[1] \in DataPages /\ flash[Adr(at[1])].slots[at[2]].state # "erased"
<1>1. at \in Places(id)
  BY PlacesFacts, LowestFacts
<1>2. at[1] \in DataPages /\ at[2] \in Records(Adr(at[1]))
  BY <1>1 DEF Places, InPages, Adr
<1>3. QED BY <1>2 DEF Records, Valid

LEMMA WriteSteps ==
  ASSUME ShapeInv, FitInv, Ungapped' => Ungapped,
         WriteBegin \/ WriteFinalize \/ WriteDirty
  PROVE  FitInv'
<1>1. SUFFICES ASSUME RoomFit, FitIn(flash, fs)
               PROVE  RoomFit' /\ FitIn(flash, fs)'
  BY DEF FitInv
<1>2. UNCHANGED <<flash, mode, m_swap_page, m_gc>> /\ fs = Call(TRUE)
  BY DEF WriteBegin, WriteFinalize, WriteDirty, Runs
<1>3. CASE WriteBegin
  <2>1. m_pages' = m_pages /\ (Operation1.op = "update" => Places(Operation1.old) # {})
    BY <1>3 DEF WriteBegin
  <2>2. /\ PagesStay
        /\ \A i \in Index : m_pages'[i].reserved = m_pages[i].reserved
    BY <2>1, StayPages
  <2>3. /\ mode = "ready" /\ Writing /\ Writing'
        /\ Operation1'.op = Operation1.op /\ Operation1'.page = Operation1.page
        /\ Operation1.step = "begin" /\ Operation1'.step = "finalize"
        /\ Operation1'.target = IF Operation1.op = "write" THEN <<0, 0>>
                                ELSE Lowest(Places(Operation1.old))
        /\ WriteStore("begin")'
    BY <1>3, WriteBeginFacts
  <2>4. fs'.do = "begin"
    BY <2>3, OpFacts DEF WriteStore
  <2>5. fs' # Call(TRUE)
    BY <2>4, CallDoes
  <2>6. \A i : ~Begun(fs, i)
    BY <2>3 DEF Begun
  <2>7. PICK at : at = Operation1'.target
    OBVIOUS
  <2>8. Operation1'.op = "update" =>
          /\ at[1] \in DataPages
          /\ flash[Adr(at[1])].slots[at[2]].state # "erased"
    BY <2>1, <2>3, <2>7, PlaceWritten
  <2>9. QED BY <1>1, <1>2, <2>2, <2>3, <2>5, <2>6, <2>7, <2>8, WriteOnFit
<1>4. ASSUME PagesStay, \A i \in Index : m_pages'[i].reserved = m_pages[i].reserved,
             Writing, Writing',
             Operation1'.op = Operation1.op, Operation1'.page = Operation1.page,
             Operation1'.target = Operation1.target,
             Operation1.step \in {"finalize", "dirty"},
             Operation1'.step \in {"dirty", "done"}, fs'.do # "begin"
      PROVE  RoomFit' /\ FitIn(flash, fs)'
  <2>1. \A i : Begun(fs, i) => Begun(fs, i)'
    BY <1>4 DEF Begun
  <2>2. flash[Adr(Operation1.page)].slots[m_pages[Operation1.page].offset + 1].state
          # "erased"
    BY <1>1, <1>2, <1>4 DEF FitIn, WriteFit
  <2>3. Operation1.op = "update" =>
          /\ Operation1.target[1] \in DataPages
          /\ flash[Adr(Operation1.target[1])].slots[Operation1.target[2]].state
               # "erased"
    BY <1>1, <1>4, WritingMode DEF FitIn, WriteFit
  <2>4. QED BY <1>1, <1>2, <1>4, <2>1, <2>2, <2>3, WriteOnFit
<1>5. CASE WriteFinalize
  <2>1. m_pages' = m_pages
    BY <1>5 DEF WriteFinalize
  <2>2. /\ PagesStay
        /\ \A i \in Index : m_pages'[i].reserved = m_pages[i].reserved
    BY <2>1, StayPages
  <2>3. /\ Writing /\ Writing' /\ Operation1.step = "finalize"
        /\ Operation1'.op = Operation1.op /\ Operation1'.page = Operation1.page
        /\ Operation1'.target = Operation1.target
        /\ Operation1'.step \in {"dirty", "done"} /\ WriteStore("finalize")'
    BY <1>5, WriteFinalizeFacts
  <2>4. fs'.do # "begin"
    BY <2>3, OpFacts DEF WriteStore
  <2>5. QED BY <1>4, <2>2, <2>3, <2>4
<1>6. CASE WriteDirty
  <2>1. \A i \in Index : m_pages'[i].reserved = m_pages[i].reserved
    <3>1. m_pages \in [Index -> PageRecord]
      BY DEF ShapeInv, TypeInv
    <3>2. PICK i : m_pages' = [m_pages EXCEPT ![i].can_gc = TRUE]
      BY <1>6 DEF WriteDirty
    <3>3. QED BY <3>1, <3>2 DEF PageRecord
  <2>2. /\ Writing /\ Writing' /\ Operation1.step = "dirty" /\ PagesStay
        /\ Operation1'.op = Operation1.op /\ Operation1'.page = Operation1.page
        /\ Operation1'.target = Operation1.target /\ Operation1'.step = "done"
    BY <1>6, WriteDirtyFacts
  <2>3. fs'.do # "begin"
    <3>1. PICK p, n, new : fs' = Store("dirty", p, n, new)
      BY <1>6, WriteDirtyFacts
    <3>2. QED BY <3>1, OpFacts
  <2>4. QED BY <1>4, <2>1, <2>2, <2>3
<1>7. QED BY <1>3, <1>5, <1>6

(***************************************************************************)
(* FitInv: the collection.                                                 *)
(***************************************************************************)

\* The room in the swap page and in the page that is collected.
GcRoom ==
  /\ m_gc.state = "copy" =>
       m_swap_page.offset < m_gc.src /\ m_gc.src <= m_pages[Cur].offset
  /\ m_gc.state = "erase" => m_swap_page.offset <= m_pages[Cur].offset
  /\ m_gc.state \notin {"copy", "erase"} => m_swap_page.offset = 0

\* A step of a collection leaves the data pages as they are.
LEMMA GcRest ==
  ASSUME ShapeInv, RoomFit, FitIn(flash, fs), mode = "ready", mode' = mode,
         m_pages' = m_pages, flash' = flash, Collecting, Collecting',
         GcRoom', SwapFit(flash, fs)'
  PROVE  RoomFit' /\ FitIn(flash, fs)'
<1>1. DataPages' = DataPages /\ \A i : Adr(i)' = Adr(i)
  BY DEF DataPages, Adr
<1>2. ~Writing /\ ~Writing'
  BY DEF Writing, Collecting, Writes
<1>3. RoomFit'
  BY <1>1 DEF RoomFit, GcRoom
<1>4. FlashFit(flash)'
  BY DEF FitIn, FlashFit
<1>5. PagesFit(flash, fs)'
  <2>1. ASSUME NEW i \in DataPages PROVE DataFit(flash, fs, i)'
    <3>1. DataFit(flash, fs, i) /\ ~Begun(fs, i) /\ ~Begun(fs, i)'
      BY <1>2 DEF FitIn, PagesFit, Begun
    <3>2. QED BY <1>1, <3>1 DEF DataFit
  <2>2. QED BY <1>1, <2>1 DEF PagesFit
<1>6. WriteFit(flash, fs)'
  BY <1>2 DEF WriteFit
<1>7. QED BY <1>3, <1>4, <1>5, <1>6 DEF FitIn

\* The next record, or the end of the page.
LEMMA GcFindsFit ==
  ASSUME ShapeInv, RoomFit, FitIn(flash, fs), mode = "ready", mode' = mode,
         m_pages' = m_pages, flash' = flash, Collecting, Collecting',
         NEW gc, NEW swap, GcArguments(gc, swap), GcGoes(gc), GcFinds(gc, swap),
         NEW at \in Nat, at = swap.offset, at <= gc.src,
         at <= m_pages[gc.cur].offset,
         Filled(flash[Swap], at), Blank(flash[Swap], at)
  PROVE  RoomFit' /\ FitIn(flash, fs)'
<1>1. /\ gc.cur \in DataPages /\ swap.addr = Swap /\ gc \in GcType
      /\ m_gc'.cur = gc.cur /\ m_swap_page'.addr = Swap /\ fs' \in FlashOpType
  BY DEF GcArguments, GcGoes
<1>2. PICK i \in DataPages : i = gc.cur
  BY <1>1
<1>3. /\ Swap' = Swap /\ Cur' = i /\ Adr(Cur)' = Adr(i) /\ fs' # Call(TRUE)
  BY <1>1, <1>2, FsFacts DEF Swap, Cur, Adr
<1>4. gc.src \in Nat /\ m_pages[i].offset \in Nat
  BY <1>1, MountedPages DEF GcType
<1>5. CASE /\ m_gc'.state = "copy" /\ m_swap_page' = swap
           /\ m_gc'.src \in Records(Adr(gc.cur)) /\ m_gc'.src > gc.src
  <2>1. PICK s \in 1..Slots : s = m_gc'.src
    BY <1>5 DEF GcGoes
  <2>2. PICK record : record = flash[Adr(i)].slots[s]
    OBVIOUS
  <2>3. record.state # "erased"
    BY <1>2, <1>5, <2>1, <2>2 DEF Records, Valid
  <2>4. s <= m_pages[i].offset
    <3>1. ~Begun(fs, i)
      BY DEF Begun, Writing, Collecting, Writes
    <3>2. Blank(flash[Adr(i)], m_pages[i].offset)
      BY <3>1 DEF FitIn, PagesFit, DataFit
    <3>3. QED BY <1>4, <2>2, <2>3, <3>2, BlankSlots
  <2>5. at < s
    BY <1>4, <1>5, <2>1
  <2>6. GcRoom'
    BY <1>2, <1>3, <1>5, <2>1, <2>4, <2>5 DEF GcRoom
  <2>7. at + 1 \in 1..Slots
    BY <2>1, <2>5, Constants
  <2>8. flash[Swap].slots[at + 1] = Empty /\ Blank(flash[Swap], at + 1)
    BY <2>7, BlankMore DEF Blank
  <2>9. CopyFit(flash, fs)'
    BY <1>3, <1>5, <2>1, <2>2, <2>3, <2>8 DEF CopyFit
  <2>10. SwapFit(flash, fs)'
    BY <1>3, <1>5, <2>8, <2>9 DEF SwapFit
  <2>11. QED BY <2>6, <2>10, GcRest
<1>6. CASE m_gc'.state = "erase" /\ m_swap_page' = swap
  <2>1. GcRoom'
    BY <1>2, <1>3, <1>6 DEF GcRoom
  <2>2. SwapFit(flash, fs)'
    BY <1>3, <1>6 DEF SwapFit
  <2>3. QED BY <2>1, <2>2, GcRest
<1>7. CASE m_gc'.state = "discard" /\ m_swap_page'.offset = 0
  <2>1. GcRoom' /\ SwapFit(flash, fs)'
    BY <1>7 DEF GcRoom, SwapFit
  <2>2. QED BY <2>1, GcRest
<1>8. QED BY <1>5, <1>6, <1>7 DEF GcFinds

LEMMA GcEndsFit ==
  ASSUME ShapeInv, RoomFit, FitIn(flash, fs), mode = "ready", mode' = mode,
         m_pages' = m_pages, flash' = flash, Collecting, m_swap_page' = m_swap_page,
         Pop, SameGc \/ (m_gc'.state = "begin" /\ m_gc.state \in {"begin", "tag"}),
         m_gc'.state # "copy" \/ m_gc'.resume \/ ~Collecting'
  PROVE  RoomFit' /\ FitIn(flash, fs)'
<1>1. ~Writing /\ m_op_queue # <<>>
  BY DEF Writing, Collecting, Writes
<1>2. Writing' => Operation1'.step = "begin"
  BY <1>1, PopCalm
<1>3. \A i : ~Begun(fs, i)
  BY <1>1 DEF Begun
<1>4. /\ PagesStay
      /\ \A i \in DataPages : m_pages'[i].offset + m_pages'[i].reserved <= Slots
  BY StayPages DEF RoomFit
<1>5. QED BY <1>2, <1>3, <1>4, StayFit

LEMMA GcNextPageFit ==
  ASSUME ShapeInv, RoomFit, FitIn(flash, fs), mode = "ready", mode' = mode,
         m_pages' = m_pages, flash' = flash, Collecting,
         m_gc.state \in {"begin", "tag"},
         NEW gc \in GcType, \A i \in gc.todo : i \in DataPages, gc.src = 0,
         GcNextPage(gc)
  PROVE  RoomFit' /\ FitIn(flash, fs)'
<1>1. UNCHANGED <<flash, m_pages>>
  OBVIOUS
<1>2. CASE GcEnds
  BY <1>2, GcEndsFit DEF GcEnds
<1>3. CASE \E g : /\ GcArguments(g, m_swap_page) /\ GcGoes(g)
                  /\ g.resume = gc.resume /\ g.src = gc.src
                  /\ \A i \in g.todo : i \in DataPages
                  /\ GcFinds(g, m_swap_page)
  <2>1. PICK g : /\ GcArguments(g, m_swap_page) /\ GcGoes(g)
                 /\ g.src = gc.src /\ GcFinds(g, m_swap_page)
    BY <1>3
  <2>2. Collecting'
    <3>1. m_op_queue' = m_op_queue
      BY <2>1 DEF GcGoes
    <3>2. QED BY <3>1 DEF Collecting, Operation1
  <2>3. m_swap_page.offset = 0
    BY DEF RoomFit
  <2>4. Blank(flash[Swap], 0) /\ Filled(flash[Swap], 0)
    BY Constants DEF FitIn, SwapFit, Filled
  <2>5. g.cur \in DataPages
    BY <2>1 DEF GcArguments
  <2>6. 0 \in Nat /\ 0 = m_swap_page.offset /\ 0 <= g.src /\ 0 <= m_pages[g.cur].offset
    <3>1. m_pages[g.cur].offset \in Nat
      BY <2>5, MountedPages
    <3>2. QED BY <2>1, <2>3, <3>1
  <2>7. QED BY <2>1, <2>2, <2>4, <2>6, GcFindsFit
<1>4. QED BY <1>1, <1>2, <1>3, GcNextPageFacts

LEMMA GcCopiedFit ==
  ASSUME ShapeInv, RoomFit, FitIn(flash, fs), GcCopied
  PROVE  RoomFit' /\ FitIn(flash, fs)'
<1>1. /\ m_pages' = m_pages /\ flash' = flash /\ mode' = mode
      /\ fs = Call(TRUE) /\ ~m_gc.resume /\ m_gc.state = "copy"
  BY DEF GcCopied, GcRuns, Runs
<1>2. /\ mode = "ready" /\ Collecting /\ m_op_queue' = m_op_queue
  BY GcCopiedFacts DEF GcMoves, Collecting
<1>3. Collecting'
  BY <1>2 DEF Collecting, Operation1
<1>4. PICK swap \in SwapType :
        /\ swap.addr = Swap /\ swap.offset = m_swap_page.offset + 1
        /\ GcArguments(m_gc, swap) /\ GcFinds(m_gc, swap) /\ GcGoes(m_gc)
  BY GcCopiedFacts
<1>5. PICK n \in Nat : n = m_swap_page.offset
  BY DEF ShapeInv, TypeInv, SwapType
<1>6. n < m_gc.src /\ m_gc.src <= m_pages[Cur].offset /\ m_gc.src \in 1..Slots
  BY <1>1, <1>5 DEF RoomFit, ShapeInv, GcInv
<1>7. m_pages[Cur].offset \in Nat
  BY <1>1, <1>2, MountedPages DEF ShapeInv, GcInv
<1>8. PICK at \in Nat : at = n + 1
  OBVIOUS
<1>9. at <= m_gc.src /\ at <= m_pages[m_gc.cur].offset /\ at = swap.offset
      /\ at \in 1..Slots
  BY <1>4, <1>5, <1>6, <1>7, <1>8, Constants DEF Cur
<1>10. /\ Filled(flash[Swap], n) /\ Blank(flash[Swap], at)
       /\ flash[Swap].slots[at].state # "erased"
  BY <1>1, <1>2, <1>5, <1>8 DEF FitIn, SwapFit, CopyFit
<1>11. Filled(flash[Swap], at)
  BY <1>8, <1>10 DEF Filled
<1>12. QED BY <1>1, <1>2, <1>3, <1>4, <1>9, <1>10, <1>11, GcFindsFit

LEMMA GcErasedFit ==
  ASSUME ShapeInv, SwapInv, ResumeInv, RightSwap, RoomFit, FitIn(flash, fs), GcErased
  PROVE  RoomFit' /\ FitIn(flash, fs)'
<1>1. /\ mode = "ready" /\ mode' = mode /\ flash' = flash
      /\ m_op_queue' = m_op_queue /\ Collecting /\ fs' \in FlashOpType
  BY GcErasedFacts DEF GcMoves, Collecting
<1>2. ~Writing /\ ~Writing'
  BY <1>1 DEF Writing, Collecting, Writes, Operation1
<1>3. PICK c \in DataPages : c = Cur
  BY GcErasedPages
<1>4. PICK old \in Nat : old = m_pages[c].offset
  BY <1>1, MountedPages
<1>5. PICK at \in Nat : at = m_swap_page.offset
  BY DEF ShapeInv, TypeInv, SwapType
<1>6. PICK res \in Nat : res = m_pages[c].reserved
  BY <1>1, MountedPages
<1>7. /\ m_gc.state = "erase" /\ m_gc'.state = "promote" /\ Cur' = c
      /\ m_pages'[c].addr = Swap /\ m_pages'[c].offset = at /\ m_pages'[c].reserved = res
      /\ Swap' = Adr(c) /\ m_swap_page'.offset = 0 /\ DataPages' = DataPages
      /\ c \in Index /\ \A i \in Index : i # c => m_pages'[i] = m_pages[i]
  BY <1>3, <1>5, <1>6, GcErasedPages DEF Swap, Cur, DataPages
<1>8. at <= old /\ old + res <= Slots
  BY <1>3, <1>4, <1>5, <1>6, <1>7 DEF RoomFit
<1>9. Filled(flash[Swap], at) /\ Blank(flash[Swap], at)
  BY <1>5, <1>7 DEF FitIn, SwapFit
<1>10. flash[Adr(c)] = ErasedPage
  <2>1. GcRuns({"erase"})
    BY DEF GcErased
  <2>2. StepDone
    BY <1>7, <2>1, BeforeGcStep
  <2>3. QED BY <1>3, <1>7, <2>2 DEF StepDone, IsErased
<1>11. flash[Swap].tag = "swap"
  BY <1>1, <1>7 DEF SwapInv, SwapTag
<1>12. DataPages \subseteq Index
  BY DEF DataPages
<1>13. RoomFit'
  <2>1. ASSUME NEW i \in DataPages
        PROVE  m_pages'[i].offset + m_pages'[i].reserved <= Slots
    <3>1. CASE i = c
      BY <1>4, <1>5, <1>6, <1>7, <1>8, <3>1, Constants
    <3>2. CASE i # c
      BY <1>7, <1>12, <3>2 DEF RoomFit
    <3>3. QED BY <3>1, <3>2
  <2>2. QED BY <1>1, <1>7, <2>1 DEF RoomFit
<1>14. FlashFit(flash)'
  BY <1>1 DEF FitIn, FlashFit
<1>15. PagesFit(flash, fs)'
  <2>1. ASSUME NEW i \in DataPages PROVE DataFit(flash, fs, i)'
    <3>1. CASE i = c
      <4>1. Blank(flash[Swap], at + 1)
        BY <1>5, <1>9, BlankMore
      <4>2. Adr(i)' = Swap /\ m_pages'[i].offset = at
        BY <1>7, <3>1 DEF Adr
      <4>3. QED BY <1>1, <1>9, <4>1, <4>2 DEF DataFit
    <3>2. CASE i # c
      <4>1. DataFit(flash, fs, i) /\ ~Begun(fs, i) /\ ~Begun(fs, i)'
        BY <1>1, <1>2 DEF FitIn, PagesFit, Begun
      <4>2. m_pages'[i] = m_pages[i]
        BY <1>7, <1>12, <3>2
      <4>3. QED BY <1>1, <4>1, <4>2 DEF DataFit, Adr
    <3>3. QED BY <3>1, <3>2
  <2>2. QED BY <1>7, <2>1 DEF PagesFit
<1>16. WriteFit(flash, fs)'
  BY <1>2 DEF WriteFit
<1>17. SwapFit(flash, fs)'
  <2>1. Blank(flash[Adr(c)], 0)
    BY <1>10, ErasedFits
  <2>2. Adr(Cur)' = Swap
    BY <1>7 DEF Adr
  <2>3. QED BY <1>1, <1>7, <1>11, <2>1, <2>2 DEF SwapFit
<1>18. QED BY <1>13, <1>14, <1>15, <1>16, <1>17 DEF FitIn

LEMMA GcPromotedFit ==
  ASSUME ShapeInv, ResumeInv, RightSwap, RoomFit, FitIn(flash, fs), GcPromoted
  PROVE  RoomFit' /\ FitIn(flash, fs)'
<1>1. /\ mode = "ready" /\ mode' = mode /\ flash' = flash /\ m_pages' = m_pages
      /\ m_op_queue' = m_op_queue /\ Collecting /\ m_swap_page' = m_swap_page
      /\ m_gc'.state = "tag" /\ m_gc.state \in {"promote", "discard"}
  BY GcPromotedFacts DEF GcMoves, Collecting
<1>2. Collecting'
  BY <1>1 DEF Collecting, Operation1
<1>3. Blank(flash[Swap], 0)
  <2>1. CASE m_gc.state = "promote"
    BY <1>1, <2>1 DEF FitIn, SwapFit
  <2>2. CASE m_gc.state = "discard"
    <3>1. GcRuns({"promote", "discard"})
      BY DEF GcPromoted
    <3>2. StepDone
      BY <2>2, <3>1, BeforeGcStep
    <3>3. QED BY <2>2, <3>2, ErasedFits DEF StepDone, IsErased
  <2>3. QED BY <1>1, <2>1, <2>2
<1>4. GcRoom'
  BY <1>1 DEF GcRoom, RoomFit
<1>5. SwapFit(flash, fs)'
  BY <1>1, <1>3 DEF SwapFit, Swap
<1>6. QED BY <1>1, <1>2, <1>4, <1>5, GcRest

LEMMA GcResumedFit ==
  ASSUME ShapeInv, RoomFit, FitIn(flash, fs), GcResume
  PROVE  RoomFit' /\ FitIn(flash, fs)'
<1>1. flash' = flash /\ mode' = mode /\ m_pages' = m_pages
  BY DEF GcResume
<1>2. PICK gc \in GcType :
           /\ mode = "ready" /\ m_op_queue # <<>> /\ Operation1.op = "gc"
           /\ m_gc.state # "begin"
           /\ gc.state = m_gc.state /\ gc.cur = m_gc.cur
           /\ gc.cur \in DataPages /\ gc.src = m_gc.src
           /\ \/ m_gc.state = "copy" /\ GcCopy(gc, m_swap_page) /\ GcGoes(gc)
                 /\ m_gc'.state = "copy" /\ m_gc'.src = m_gc.src
                 /\ m_swap_page' = m_swap_page
              \/ m_gc.state = "erase" /\ GcErase(gc, m_swap_page) /\ GcGoes(gc)
              \/ GcAgain(gc)
              \/ /\ m_gc.state = "discard" /\ m_gc' = gc /\ Pop
                 /\ m_swap_page' = m_swap_page
  BY GcResumeFacts
<1>3. Collecting /\ (m_op_queue' = m_op_queue => Collecting')
  BY <1>2 DEF Collecting, Operation1
<1>4. Cur \in DataPages /\ SwapFit(flash, fs) /\ mode = "ready"
  BY <1>2 DEF Cur, FitIn
<1>5. CASE m_gc.state = "copy" /\ GcGoes(gc)
           /\ m_gc'.state = "copy" /\ m_gc'.src = m_gc.src
           /\ m_swap_page' = m_swap_page
  <2>1. Cur' = Cur /\ Swap' = Swap /\ Adr(Cur)' = Adr(Cur) /\ fs' \in FlashOpType
        /\ m_op_queue' = m_op_queue
    BY <1>1, <1>2, <1>5 DEF GcGoes, Cur, Swap, Adr
  <2>2. fs' # Call(TRUE)
    BY <2>1, FsFacts
  <2>3. GcRoom'
    BY <1>1, <1>5, <2>1 DEF GcRoom, RoomFit
  <2>4. CopyFit(flash, fs)'
    BY <1>1, <1>4, <1>5, <2>1, <2>2 DEF CopyFit, SwapFit
  <2>5. SwapFit(flash, fs)'
    BY <1>1, <1>4, <1>5, <2>1, <2>4 DEF SwapFit
  <2>6. QED BY <1>1, <1>2, <1>3, <2>1, <2>3, <2>5, GcRest
<1>6. CASE m_gc.state = "erase" /\ GcErase(gc, m_swap_page) /\ GcGoes(gc)
  <2>1. Cur' = Cur /\ Swap' = Swap /\ m_op_queue' = m_op_queue
    BY <1>2, <1>6 DEF GcGoes, Cur, Swap
  <2>2. \/ m_gc'.state = "erase" /\ m_swap_page' = m_swap_page
        \/ m_gc'.state = "discard" /\ m_swap_page'.offset = 0
    <3>1. m_swap_page \in SwapType /\ m_swap_page.addr = Swap
      BY DEF ShapeInv, TypeInv, Swap
    <3>2. GcArguments(gc, m_swap_page)
      BY <1>2, <3>1 DEF GcArguments
    <3>3. UNCHANGED <<flash, m_pages>>
      BY <1>1
    <3>4. QED BY <1>2, <1>6, <3>2, <3>3, GcEraseFacts
  <2>3. GcRoom'
    BY <1>1, <1>6, <2>1, <2>2 DEF GcRoom, RoomFit
  <2>4. SwapFit(flash, fs)'
    BY <1>1, <1>4, <1>6, <2>1, <2>2 DEF SwapFit
  <2>5. QED BY <1>1, <1>2, <1>3, <2>1, <2>3, <2>4, GcRest
<1>7. CASE GcAgain(gc)
  <2>1. /\ Cur' = Cur /\ Swap' = Swap /\ m_op_queue' = m_op_queue
        /\ m_swap_page' = m_swap_page /\ m_gc'.state = m_gc.state
        /\ m_gc.state \in {"promote", "tag"} /\ Adr(Cur)' = Adr(Cur)
    BY <1>1, <1>2, <1>7 DEF GcAgain, Cur, Swap, Adr
  <2>2. GcRoom'
    BY <1>2, <2>1 DEF GcRoom, RoomFit
  <2>3. SwapFit(flash, fs)'
    BY <1>1, <1>4, <2>1 DEF SwapFit
  <2>4. QED BY <1>1, <1>2, <1>3, <2>1, <2>2, <2>3, GcRest
<1>8. CASE /\ m_gc.state = "discard" /\ m_gc' = gc /\ Pop
           /\ m_swap_page' = m_swap_page
  BY <1>1, <1>2, <1>3, <1>8, GcEndsFit DEF SameGc
<1>9. QED BY <1>2, <1>5, <1>6, <1>7, <1>8

LEMMA GcFit ==
  ASSUME ShapeInv, SwapInv, ResumeInv, FitInv, Ungapped' => Ungapped,
         \/ GcBegin \/ GcCopied \/ GcErased \/ GcPromoted \/ GcTagged
         \/ GcResume \/ GcFails
  PROVE  FitInv'
<1>1. SUFFICES ASSUME Ungapped', RightSwap, RoomFit, FitIn(flash, fs)
               PROVE  RoomFit' /\ FitIn(flash, fs)'
  BY UngappedMeans DEF FitInv
<1>2. CASE GcBegin \/ GcTagged
  <2>1. /\ m_pages' = m_pages /\ flash' = flash /\ mode' = mode
        /\ m_gc.state \in {"begin", "tag"} /\ Runs({"gc"})
    BY <1>2 DEF GcBegin, GcTagged, GcRuns
  <2>2. mode = "ready" /\ Collecting
    BY <2>1, CollectingMode DEF Collecting
  <2>3. \E gc \in GcType : /\ gc.src = 0 /\ GcNextPage(gc)
                           /\ \A i \in gc.todo : i \in DataPages
    <3>1. m_gc \in GcType /\ DataPages \in Todos
      BY DEF ShapeInv, TypeInv, Todos, DataPages
    <3>2. CASE GcTagged
      BY <3>1, <3>2 DEF GcTagged, GcRuns, ShapeInv, GcInv
    <3>3. CASE GcBegin
      <4>1. PICK run \in Nat : run = m_gc.run + 1
        BY <3>1 DEF GcType
      <4>2. PICK gc : gc = [GcIdle EXCEPT !.todo = DataPages, !.run = run]
        OBVIOUS
      <4>3. gc \in GcType /\ gc.src = 0 /\ gc.todo = DataPages
        BY <3>1, <4>2, Constants DEF GcIdle, GcType
      <4>4. GcNextPage(gc)
        BY <3>3, <4>1, <4>2 DEF GcBegin
      <4>5. QED BY <4>3, <4>4
    <3>4. QED BY <1>2, <3>2, <3>3
  <2>4. QED BY <1>1, <2>1, <2>2, <2>3, GcNextPageFit
<1>3. CASE GcFails
  <2>1. /\ m_pages' = m_pages /\ flash' = flash /\ mode' = mode /\ Pop
        /\ m_swap_page' = m_swap_page /\ m_gc' = m_gc /\ Fails({"gc"})
        /\ hit' = IF AnotherGc /\ ~m_gc.resume THEN hit \union {"advance"} ELSE hit
    BY <1>3 DEF GcFails
  <2>2. mode = "ready" /\ Collecting
    BY <2>1, CollectingMode DEF Collecting
  <2>3. Collecting' => m_gc.resume
    <3>1. ~(AnotherGc /\ ~m_gc.resume)
      BY <1>1, <2>1 DEF Ungapped, Unhurt
    <3>2. Collecting' => AnotherGc
      BY <2>1, <2>2, AnotherFacts DEF Collecting
    <3>3. QED BY <3>1, <3>2
  <2>4. QED BY <1>1, <2>1, <2>2, <2>3, GcEndsFit DEF SameGc
<1>4. QED BY <1>1, <1>2, <1>3, GcCopiedFit, GcErasedFit, GcPromotedFit, GcResumedFit

(***************************************************************************)
(* FitInv: fds_init and the steps of an initialisation.                    *)
(***************************************************************************)

\* The pages and the swap page while the file system is initialised, and when it
\* is.
DataMounts ==
  \A i \in DataPages :
    /\ m_pages[i].offset \in Nat
    /\ m_pages[i].offset + m_pages[i].reserved <= Slots
    /\ Filled(flash[Adr(i)], m_pages[i].offset)
    /\ Blank(flash[Adr(i)], m_pages[i].offset)
ErasedMounts == \A i \in ErasedPages : m_pages[i].offset = 0
SwapClean == m_swap_page.offset = 0 /\ Blank(flash[Swap], 0)
SwapMounts ==
  /\ Operation1.step = "tag swap" => m_swap_page.offset = 0
  /\ Operation1.step = "tag data" => SwapClean
  /\ Operation1.step = "promote" =>
       /\ m_swap_page.offset <= Slots
       /\ Filled(flash[Swap], m_swap_page.offset)
       /\ Blank(flash[Swap], m_swap_page.offset)

LEMMA FitMounts ==
  ASSUME ShapeInv, RoomFit, FitIn(flash, fs), mode = "init"
  PROVE  DataMounts /\ ErasedMounts /\ SwapMounts
<1>1. ASSUME NEW i \in DataPages
      PROVE  /\ m_pages[i].offset \in Nat
             /\ m_pages[i].offset + m_pages[i].reserved <= Slots
             /\ Filled(flash[Adr(i)], m_pages[i].offset)
             /\ Blank(flash[Adr(i)], m_pages[i].offset)
  <2>1. ~Begun(fs, i) /\ DataFit(flash, fs, i)
    BY WritingMode DEF Begun, FitIn, PagesFit
  <2>2. m_pages[i].offset \in Nat
    BY MountedPages
  <2>3. QED BY <2>1, <2>2 DEF DataFit, RoomFit
<1>2. SwapMounts
  BY DEF SwapMounts, SwapClean, FitIn, SwapFit, RoomFit
<1>3. ErasedMounts
  BY DEF ErasedMounts, RoomFit
<1>4. QED BY <1>1, <1>2, <1>3 DEF DataMounts

LEMMA DataMountsFit ==
  ASSUME DataMounts', FlashFit(flash), flash' = flash, ~Writing'
  PROVE  /\ FlashFit(flash)' /\ PagesFit(flash, fs)' /\ WriteFit(flash, fs)'
         /\ \A i \in DataPages' : m_pages'[i].offset + m_pages'[i].reserved <= Slots
<1>1. ASSUME NEW i \in DataPages' PROVE DataFit(flash, fs, i)'
  <2>1. PICK n \in Nat : n = m_pages'[i].offset
    BY DEF DataMounts
  <2>2. Filled(flash'[Adr(i)'], n) /\ Blank(flash'[Adr(i)'], n)
    BY <2>1 DEF DataMounts
  <2>3. Blank(flash'[Adr(i)'], n + 1)
    BY <2>2, BlankMore
  <2>4. QED BY <2>1, <2>2, <2>3 DEF DataFit
<1>2. PagesFit(flash, fs)'
  BY <1>1 DEF PagesFit
<1>3. QED BY <1>2 DEF FlashFit, WriteFit, DataMounts

LEMMA MountsFit ==
  ASSUME DataMounts', ErasedMounts', SwapMounts', FlashFit(flash), flash' = flash,
         mode' = "init", m_gc'.state = "begin", ~Writing'
  PROVE  RoomFit' /\ FitIn(flash, fs)'
<1>1. /\ FlashFit(flash)' /\ PagesFit(flash, fs)' /\ WriteFit(flash, fs)'
      /\ \A i \in DataPages' : m_pages'[i].offset + m_pages'[i].reserved <= Slots
  BY DataMountsFit
<1>2. RoomFit'
  BY <1>1 DEF RoomFit, ErasedMounts, SwapMounts, SwapClean
<1>3. SwapFit(flash, fs)'
  BY DEF SwapFit, SwapMounts, SwapClean
<1>4. QED BY <1>1, <1>2, <1>3 DEF FitIn

LEMMA MountedFit ==
  ASSUME DataMounts', FlashFit(flash), flash' = flash, m_gc'.state = "begin", ~Writing',
         mode' # "init", mode' = "ready" => SwapClean'
  PROVE  RoomFit' /\ FitIn(flash, fs)'
<1>1. /\ FlashFit(flash)' /\ PagesFit(flash, fs)' /\ WriteFit(flash, fs)'
      /\ \A i \in DataPages' : m_pages'[i].offset + m_pages'[i].reserved <= Slots
  BY DataMountsFit
<1>2. RoomFit'
  BY <1>1 DEF RoomFit, SwapClean
<1>3. SwapFit(flash, fs)'
  BY DEF SwapFit, SwapClean
<1>4. QED BY <1>1, <1>2, <1>3 DEF FitIn

\* Nothing else changes.
LEMMA PagesMount ==
  ASSUME DataMounts, ErasedMounts, m_pages' = m_pages, flash' = flash
  PROVE  DataMounts' /\ ErasedMounts'
BY DEF DataMounts, ErasedMounts, DataPages, ErasedPages, Adr

LEMMA InitStepsFit ==
  ASSUME ShapeInv, SwapInv, RightSwap, RoomFit, FitIn(flash, fs),
         InitTagSwap \/ InitTagData \/ InitEraseSwap \/ InitPromote
  PROVE  RoomFit' /\ FitIn(flash, fs)'
<1>1. /\ mode = "init" /\ mode' = "init" /\ m_gc.state = "begin" /\ m_gc' = m_gc
      /\ flash' = flash /\ fs = Call(TRUE) /\ m_op_queue # <<>>
      /\ Len(m_op_queue) = 1 /\ Operation1.op = "init"
      /\ \A i \in Index : m_pages[i].reserved = 0
  <2>1. Runs({"init"}) /\ mode' = mode /\ m_gc' = m_gc /\ flash' = flash
    BY DEF InitTagSwap, InitTagData, InitEraseSwap, InitPromote
  <2>2. QED BY <2>1, InitMode DEF Runs
<1>2. DataMounts /\ ErasedMounts /\ SwapMounts /\ FlashFit(flash)
  BY <1>1, FitMounts DEF FitIn
<1>3. SwapMounting
  BY <1>1, SwapIsMounting
<1>4. /\ Swap \in Page /\ \A i \in ErasedPages : flash[Adr(i)] = ErasedPage
      /\ Operation1.step = "tag swap" => flash[Swap] = ErasedPage
  BY <1>1, <1>3 DEF SwapMounting, SwapStep, IsErased
<1>5. \A step \in Steps : fs' \in FlashOpType /\ Next1(Operation("init", step)) =>
        Operation1'.step = step /\ ~Writing'
  <2>1. SUFFICES ASSUME NEW step \in Steps, fs' \in FlashOpType,
                        Next1(Operation("init", step))
                 PROVE  Operation1'.step = step /\ ~Writing'
    OBVIOUS
  <2>2. Operation1'.step = step /\ m_op_queue'[1].op = "init"
        /\ m_op_queue' \in Seq(OpType)
    BY <1>1, <2>1, InitNext
  <2>3. ~Writing'
    BY <2>2, QueueFacts DEF Writing, Operation1, Writes
  <2>4. QED BY <2>2, <2>3
<1>6. CASE InitTagSwap
  <2>1. /\ Operation1.step = "tag swap" /\ fs' = Tag(Swap, "swap")
        /\ Next1(Operation("init", "tag data")) /\ m_pages' = m_pages
        /\ m_swap_page' = m_swap_page
    BY <1>6 DEF InitTagSwap, Swap
  <2>2. Operation1'.step = "tag data" /\ ~Writing'
    <3>1. fs' \in FlashOpType
      BY <1>4, <2>1, OpTypes
    <3>2. QED BY <1>5, <2>1, <3>1 DEF Steps
  <2>3. SwapClean
    BY <1>2, <1>4, <2>1, ErasedFits DEF SwapMounts, SwapClean
  <2>4. SwapMounts'
    BY <1>1, <2>1, <2>2, <2>3 DEF SwapMounts, SwapClean, Swap
  <2>5. QED BY <1>1, <1>2, <2>1, <2>2, <2>4, PagesMount, MountsFit
<1>7. CASE InitTagData
  <2>1. /\ Operation1' = Operation1 /\ m_op_queue' = m_op_queue
        /\ m_swap_page' = m_swap_page
    BY <1>7 DEF InitTagData, Operation1
  <2>2. ~Writing'
    BY <1>1, <2>1 DEF Writing, Writes
  <2>3. PICK i \in ErasedPages :
           /\ i \in Index
           /\ \A j \in Index : j # i => m_pages'[j] = m_pages[j]
           /\ m_pages'[i].type = "data" /\ m_pages'[i].addr = m_pages[i].addr
           /\ m_pages'[i].offset = m_pages[i].offset
           /\ m_pages'[i].reserved = m_pages[i].reserved
    BY <1>7, InitTagDataPages
  <2>4. ASSUME NEW j \in DataPages'
        PROVE  /\ m_pages'[j].offset \in Nat
               /\ m_pages'[j].offset + m_pages'[j].reserved <= Slots
               /\ Filled(flash'[Adr(j)'], m_pages'[j].offset)
               /\ Blank(flash'[Adr(j)'], m_pages'[j].offset)
    <3>1. CASE j = i
      <4>1. m_pages'[i].offset = 0 /\ m_pages'[i].reserved = 0
        BY <1>1, <1>2, <2>3 DEF ErasedMounts
      <4>2. flash'[Adr(i)'] = ErasedPage
        BY <1>1, <1>4, <2>3 DEF Adr
      <4>3. Filled(ErasedPage, 0) /\ Blank(ErasedPage, 0)
        BY ErasedFits
      <4>4. QED BY <3>1, <4>1, <4>2, <4>3, Constants
    <3>2. CASE j # i
      <4>1. j \in DataPages /\ m_pages'[j] = m_pages[j]
        BY <2>3, <3>2 DEF DataPages
      <4>2. QED BY <1>1, <1>2, <4>1 DEF DataMounts, Adr
    <3>3. QED BY <3>1, <3>2
  <2>5. ErasedMounts'
    BY <1>2, <2>3 DEF ErasedMounts, ErasedPages
  <2>6. SwapMounts'
    BY <1>1, <1>2, <2>1 DEF SwapMounts, SwapClean, Swap
  <2>7. DataMounts'
    BY <2>4 DEF DataMounts
  <2>8. QED BY <1>1, <1>2, <2>2, <2>5, <2>6, <2>7, MountsFit
<1>8. CASE InitEraseSwap
  <2>1. /\ Operation1.step = "erase swap" /\ fs' = Erase(Swap)
        /\ Next1(Operation("init", "tag swap")) /\ m_pages' = m_pages
        /\ m_swap_page' = [m_swap_page EXCEPT !.offset = 0]
    BY <1>8 DEF InitEraseSwap, Swap
  <2>2. Operation1'.step = "tag swap" /\ ~Writing'
    <3>1. fs' \in FlashOpType
      BY <1>4, <2>1, OpTypes
    <3>2. QED BY <1>5, <2>1, <3>1 DEF Steps
  <2>3. m_swap_page'.offset = 0
    BY <2>1 DEF ShapeInv, TypeInv, SwapType
  <2>4. SwapMounts'
    BY <2>2, <2>3 DEF SwapMounts
  <2>5. QED BY <1>1, <1>2, <2>1, <2>2, <2>4, PagesMount, MountsFit
<1>9. CASE InitPromote
  <2>1. /\ Operation1.step = "promote" /\ fs' = Tag(Swap, "data")
        /\ Next1(Operation("init", "tag swap"))
    BY <1>9 DEF InitPromote, Swap
  <2>2. Operation1'.step = "tag swap" /\ ~Writing'
    <3>1. fs' \in FlashOpType
      BY <1>4, <2>1, OpTypes
    <3>2. QED BY <1>5, <2>1, <3>1 DEF Steps
  <2>3. PICK c \in Index : c = Cur
    BY <1>9, InitPromotePages
  <2>4. /\ \A i \in Index : i # c => m_pages'[i] = m_pages[i]
        /\ m_pages'[c].addr = Swap /\ m_pages'[c].type = "data"
        /\ m_pages'[c].offset = m_swap_page.offset
        /\ m_pages'[c].reserved = m_pages[c].reserved
        /\ m_swap_page'.offset = 0
    BY <1>9, <2>3, InitPromotePages
  <2>5. PICK at \in Nat : at = m_swap_page.offset
    BY DEF ShapeInv, TypeInv, SwapType
  <2>6. at <= Slots /\ Filled(flash[Swap], at) /\ Blank(flash[Swap], at)
    BY <1>2, <2>1, <2>5 DEF SwapMounts
  <2>7. ASSUME NEW j \in DataPages'
        PROVE  /\ m_pages'[j].offset \in Nat
               /\ m_pages'[j].offset + m_pages'[j].reserved <= Slots
               /\ Filled(flash'[Adr(j)'], m_pages'[j].offset)
               /\ Blank(flash'[Adr(j)'], m_pages'[j].offset)
    <3>1. CASE j = c
      <4>1. m_pages'[c].offset = at /\ m_pages'[c].reserved = 0
        BY <1>1, <2>4, <2>5
      <4>2. flash'[Adr(c)'] = flash[Swap]
        BY <1>1, <2>4 DEF Adr
      <4>3. QED BY <2>6, <3>1, <4>1, <4>2, Constants
    <3>2. CASE j # c
      <4>1. j \in DataPages /\ m_pages'[j] = m_pages[j]
        BY <2>4, <3>2 DEF DataPages
      <4>2. QED BY <1>1, <1>2, <4>1 DEF DataMounts, Adr
    <3>3. QED BY <3>1, <3>2
  <2>8. ErasedMounts'
    BY <1>2, <2>4 DEF ErasedMounts, ErasedPages
  <2>9. SwapMounts'
    BY <2>2, <2>4 DEF SwapMounts
  <2>10. DataMounts'
    BY <2>7 DEF DataMounts
  <2>11. QED BY <1>1, <1>2, <2>2, <2>8, <2>9, <2>10, MountsFit
<1>10. QED BY <1>6, <1>7, <1>8, <1>9

LEMMA InitEndsFit ==
  ASSUME ShapeInv, RoomFit, FitIn(flash, fs), InitDone \/ InitFails
  PROVE  RoomFit' /\ FitIn(flash, fs)'
<1>1. /\ Runs({"init"}) \/ Fails({"init"})
      /\ Pop /\ flash' = flash /\ m_pages' = m_pages /\ m_swap_page' = m_swap_page
      /\ m_gc' = m_gc
      /\ (mode' = "ready" /\ Operation1.step = "tag data") \/ mode' = "failed"
  BY DEF InitDone, InitFails
<1>2. mode = "init" /\ m_op_queue # <<>> /\ Len(m_op_queue) = 1 /\ m_gc.state = "begin"
  BY <1>1, InitMode
<1>3. DataMounts /\ ErasedMounts /\ SwapMounts /\ FlashFit(flash)
  BY <1>2, FitMounts DEF FitIn
<1>4. DataMounts'
  BY <1>1, <1>3, PagesMount
<1>5. ~Writing'
  <2>1. m_op_queue' \in Seq(OpType) /\ Len(m_op_queue') = 0
    BY <1>1, <1>2, PopFacts, QueueFacts DEF ShapeInv, TypeInv, Pop
  <2>2. QED BY <2>1 DEF Writing
<1>6. mode' = "ready" => SwapClean'
  BY <1>1, <1>3 DEF SwapMounts, SwapClean, Swap
<1>7. QED BY <1>1, <1>2, <1>3, <1>4, <1>5, <1>6, MountedFit

LEMMA FdsInitFit ==
  ASSUME ShapeInv, FlashFit(flash), fds_init, Ungapped'
  PROVE  RoomFit' /\ FitIn(flash, fs)'
<1>1. PICK acc, step : InitFinds(acc, step)
  BY FdsInitFacts
<1>1a. ~Unnamed(acc.opts)
  BY <1>1 DEF InitFinds, Ungapped, Unhurt
<1>2. InitQueues(step) /\ flash' = flash
  BY <1>1, FdsInitQueue DEF fds_init
<1>3. /\ acc \in AccType /\ ScanSwap(NumPages, acc) /\ Entries(NumPages, acc.pages)
      /\ ScanOpts(NumPages, acc) /\ FirstStepFacts(acc.opts, step)
      /\ m_swap_page' = acc.swap /\ m_gc'.state = "begin"
  BY <1>1, <1>1a DEF InitFinds, StepFacts, ScanInv, ScanEntries
<1>4. \A i \in Index :
       /\ i < Len(acc.pages) =>
            /\ i + 1 \in 1..Len(acc.pages)
            /\ m_pages'[i] = acc.pages[i + 1]
       /\ ~(i < Len(acc.pages)) => m_pages'[i].type = "undefined"
       /\ m_pages'[i].reserved = 0
  BY <1>1 DEF InitFinds
<1>5. ASSUME NEW i \in Index, m_pages'[i].type # "undefined"
      PROVE  /\ m_pages'[i].type = "data" =>
                  /\ m_pages'[i].addr \in Page /\ flash[m_pages'[i].addr].tag = "data"
                  /\ m_pages'[i].offset = Used(m_pages'[i].addr)
             /\ m_pages'[i].type = "erased" => m_pages'[i].offset = 0
  <2>1. i + 1 \in 1..Len(acc.pages) /\ m_pages'[i] = acc.pages[i + 1]
    BY <1>4, <1>5
  <2>2. PICK n \in 1..Len(acc.pages) : n = i + 1
    BY <2>1
  <2>3. QED BY <1>3, <2>1, <2>2 DEF Entries
<1>6. DataMounts'
  <2>1. ASSUME NEW i \in DataPages'
        PROVE  /\ m_pages'[i].offset \in Nat
               /\ m_pages'[i].offset + m_pages'[i].reserved <= Slots
               /\ Filled(flash'[Adr(i)'], m_pages'[i].offset)
               /\ Blank(flash'[Adr(i)'], m_pages'[i].offset)
    <3>1. i \in Index /\ m_pages'[i].type = "data"
      BY DEF DataPages
    <3>2. PICK p \in Page : p = m_pages'[i].addr
      BY <1>5, <3>1
    <3>3. flash[p].tag = "data" /\ m_pages'[i].offset = Used(p)
          /\ m_pages'[i].reserved = 0
      BY <1>4, <1>5, <3>1, <3>2
    <3>4. /\ Used(p) \in Nat /\ Used(p) <= Slots
          /\ Filled(flash[p], Used(p)) /\ Blank(flash[p], Used(p))
      BY <3>3, UsedFits DEF FlashFit
    <3>5. PICK n \in Nat : n = Used(p)
      BY <3>4
    <3>6. m_pages'[i].offset = n /\ flash'[Adr(i)'] = flash[p]
      BY <1>2, <3>2, <3>3, <3>5 DEF Adr
    <3>7. QED BY <3>3, <3>4, <3>5, <3>6, Constants
  <2>2. QED BY <2>1 DEF DataMounts
<1>7. ErasedMounts'
  BY <1>5 DEF ErasedMounts, ErasedPages
<1>8. ~Writing'
  <2>1. mode' = "init" => Operation1'.op = "init"
    BY <1>2 DEF InitQueues
  <2>2. mode' # "init" => m_op_queue' = <<>>
    BY <1>2 DEF InitQueues
  <2>3. QED BY <2>1, <2>2 DEF Writing, Writes
\* The swap page that is found.
<1>9. step = "tag swap" => m_swap_page'.offset = 0
  BY <1>3 DEF ScanOpts, FirstStepFacts
<1>10. ASSUME SwapSeen(acc)
       PROVE  /\ acc.swap.offset <= Slots
              /\ Filled(flash[acc.swap.addr], acc.swap.offset)
              /\ Blank(flash[acc.swap.addr], acc.swap.offset)
  <2>1. acc.swap.addr \in Page /\ SwapTag(acc.swap.addr)
        /\ acc.swap.offset = Used(acc.swap.addr)
    BY <1>3, <1>10 DEF ScanSwap, AccType
  <2>2. PICK p \in Page : p = acc.swap.addr
    BY <2>1
  <2>3. QED BY <2>1, <2>2, UsedFits DEF FlashFit, SwapTag
<1>11. step \in {"tag data", "none"} => SwapClean'
  <2>1. SUFFICES ASSUME step \in {"tag data", "none"} PROVE SwapClean'
    OBVIOUS
  <2>2. "swap dirty" \notin acc.opts /\ "swap clean" \in acc.opts
    BY <1>3, <2>1 DEF FirstStepFacts
  <2>3. acc.swap.offset = 0 /\ SwapSeen(acc)
    BY <1>3, <2>2 DEF ScanOpts, SwapSeen
  <2>4. QED BY <1>2, <1>3, <1>10, <2>3 DEF SwapClean, Swap
<1>12. step = "promote" => SwapSeen(acc)
  BY <1>3 DEF FirstStepFacts, SwapSeen
<1>13. CASE mode' = "init"
  <2>1. Operation1'.step = step
    BY <1>2, <1>13 DEF InitQueues
  <2>2. SwapMounts'
    BY <1>2, <1>3, <1>9, <1>10, <1>11, <1>12, <2>1 DEF SwapMounts, Swap
  <2>3. QED BY <1>2, <1>3, <1>6, <1>7, <1>8, <1>13, <2>2, MountsFit
<1>14. CASE mode' # "init"
  <2>1. mode' = "ready" => step = "none"
    BY <1>2 DEF InitQueues
  <2>2. QED BY <1>2, <1>3, <1>6, <1>8, <1>11, <1>14, <2>1, MountedFit
<1>15. QED BY <1>13, <1>14

LEMMA InitFit ==
  ASSUME Init
  PROVE  FitInv
<1>1. /\ mode = "off" /\ m_gc.state = "begin" /\ DataPages = {}
      /\ m_op_queue = <<>>
  BY DEF Init, GcIdle, DataPages, NoPages
<1>2. FlashFit(flash)
  BY ErasedFits DEF Init, FlashFit
<1>3. RoomFit
  BY <1>1 DEF RoomFit
<1>4. PagesFit(flash, fs) /\ WriteFit(flash, fs) /\ SwapFit(flash, fs)
  BY <1>1 DEF PagesFit, WriteFit, Writing, SwapFit
<1>5. QED BY <1>2, <1>3, <1>4 DEF FitInv, FitIn

LEMMA MountingFit ==
  ASSUME ShapeInv, SwapInv, FitInv, Ungapped' => Ungapped,
         \/ fds_init \/ InitTagSwap \/ InitTagData \/ InitEraseSwap \/ InitPromote
         \/ InitDone \/ InitFails
  PROVE  FitInv'
<1>1. SUFFICES ASSUME Ungapped', RightSwap, RoomFit, FitIn(flash, fs)
               PROVE  RoomFit' /\ FitIn(flash, fs)'
  BY UngappedMeans DEF FitInv
<1>2. FlashFit(flash)
  BY <1>1 DEF FitIn
<1>3. QED BY <1>1, <1>2, FdsInitFit, InitStepsFit, InitEndsFit

LEMMA NextFit ==
  ASSUME ShapeInv, FsInv, ResumeInv, SwapInv, FitInv, [Next]_vars
  PROVE  FitInv'
<1>1. Ungapped' => Ungapped
  <2>1. hit \subseteq hit'
    BY HitGrows
  <2>2. QED BY <2>1 DEF Ungapped, Unhurt
<1>2. CASE fds_init BY <1>1, <1>2, MountingFit
<1>3. CASE queue_process
  <2>1. CASE \/ InitTagSwap \/ InitTagData \/ InitEraseSwap \/ InitPromote
             \/ InitDone \/ InitFails
    BY <1>1, <2>1, MountingFit
  <2>2. CASE WriteBegin \/ WriteFinalize \/ WriteDirty
    BY <1>1, <2>2, WriteSteps
  <2>3. CASE WriteEnds \/ WriteFails
    BY <1>1, <2>3, WriteLeft
  <2>4. CASE \/ GcBegin \/ GcCopied \/ GcErased \/ GcPromoted \/ GcTagged
             \/ GcResume \/ GcFails
    BY <1>1, <2>4, GcFit
  <2>5. QED BY <1>3, <2>1, <2>2, <2>3, <2>4 DEF queue_process
<1>4. CASE Callers BY <1>1, <1>4, CallersFit
<1>5. CASE FlashEnds \/ FlashFails BY <1>5, FlashFits
<1>6. CASE Reset BY <1>1, <1>6, ResetFits
<1>7. CASE UNCHANGED vars
  <2>1. UNCHANGED <<mode, ramVars>> /\ flash' = flash /\ fs' = fs /\ hit' = hit
    BY <1>7 DEF vars
  <2>2. SUFFICES ASSUME RoomFit, FitIn(flash, fs)
                 PROVE  RoomFit' /\ FitIn(flash, fs)'
    BY <1>1 DEF FitInv
  <2>3. QED BY <2>1, <2>2, SameRam
<1>8. QED BY <1>2, <1>3, <1>4, <1>5, <1>6, <1>7 DEF Next

(***************************************************************************)
(* What follows for the records that are written.                          *)
(***************************************************************************)

\* The offset of every page is the number of the records written in it, the room
\* reserved in it is still there after a collection or an initialisation, and a
\* copy goes to a place before that of its record.
THEOREM RoomIsKept == Spec => [](PagesInv /\ AgreeInv /\ FitInv)
<1>1. Init => PagesInv /\ AgreeInv /\ FitInv
  BY InitShape, InitMount, InitAgree, InitFit DEF PagesInv
<1>2. PagesInv /\ AgreeInv /\ FitInv /\ [Next]_vars => (PagesInv /\ AgreeInv /\ FitInv)'
  BY NextShape, NextFs, NextResume, NextSwap, NextAgree, NextFit DEF PagesInv
<1>3. QED BY <1>1, <1>2, PTL DEF Spec

\* What is under way when a record or its copy is written.
LEMMA RecordOp ==
  ASSUME ShapeInv, FsInv, fs.do \in {"begin", "copy"}
  PROVE  \/ /\ Writing /\ fs.do = "begin" /\ fs.page = Adr(Operation1.page)
            /\ fs.slot = m_pages[Operation1.page].offset + 1
         \/ /\ Collecting /\ fs.do = "copy" /\ m_gc.state = "copy" /\ fs = GcOp
<1>1. fs.do \in FlashOp
  BY DEF FlashOp
<1>2. (\A p : fs # Erase(p)) /\ \A p, tag : fs # Tag(p, tag)
  <2>1. \A p : Erase(p).do # fs.do
    BY OpFacts
  <2>2. \A p, tag : Tag(p, tag).do # fs.do
    BY OpFacts
  <2>3. QED BY <2>1, <2>2, Zenon
<1>3. CASE Writing
  <2>1. fs.do = "begin"
    BY <1>1, <1>2, <1>3, FsUnderWay DEF Writing, Collecting, Writes
  <2>2. fs # Call(TRUE) /\ fs # Call(FALSE)
    BY <2>1, CallDoes
  <2>3. ~WriteStore("finalize")
    BY <2>1, OpFacts DEF WriteStore
  <2>4. \A p, n, new : fs # Store("dirty", p, n, new)
    <3>1. \A p, n, new : Store("dirty", p, n, new).do # fs.do
      BY <2>1, OpFacts
    <3>2. QED BY <3>1, Zenon
  <2>5. WriteStore("begin")
    BY <1>3, <2>2, <2>3, <2>4 DEF FsInv, WriteFs
  <2>6. QED BY <1>3, <2>1, <2>5, OpFacts DEF WriteStore
<1>4. CASE Collecting /\ m_gc.state # "begin" /\ fs = GcOp
  <2>1. m_gc.state = "copy"
    <3>1. m_gc.state = "erase" => fs = Erase(Adr(Cur))
      BY <1>4, GcOpFacts
    <3>2. m_gc.state = "discard" => fs = Erase(Swap)
      BY <1>4, GcOpFacts
    <3>3. m_gc.state = "promote" => fs = Tag(Adr(Cur), "data")
      BY <1>4, GcOpFacts
    <3>4. m_gc.state = "tag" => fs = Tag(Swap, "swap")
      BY <1>4, GcOpFacts
    <3>5. QED BY <1>2, <1>4, <3>1, <3>2, <3>3, <3>4, GcOpFacts
  <2>2. fs.do = "copy"
    BY <1>4, <2>1, CopyOp
  <2>3. QED BY <1>4, <2>1, <2>2
<1>5. QED BY <1>1, <1>2, <1>3, <1>4, FsUnderWay

LEMMA FitMeans ==
  ASSUME PagesInv, FitInv
  PROVE  WritesFit
<1>1. SUFFICES ASSUME fs.do \in {"begin", "copy"}, RoomFit, FitIn(flash, fs)
               PROVE  /\ fs.slot <= Slots
                      /\ \/ flash[fs.page].slots[fs.slot] = Empty
                         \/ /\ fs.do = "copy"
                            /\ flash[fs.page].slots[fs.slot].id = fs.new.id
  BY DEF WritesFit, FitInv, Ungapped
<1>2. ShapeInv /\ FsInv
  BY DEF PagesInv
<1>3. CASE /\ Writing /\ fs.do = "begin" /\ fs.page = Adr(Operation1.page)
           /\ fs.slot = m_pages[Operation1.page].offset + 1
  <2>1. PICK i \in DataPages : i = Operation1.page
    BY <1>2, <1>3, WritingMode
  <2>2. m_pages[i].offset \in Nat /\ m_pages[i].offset + 1 \in 1..Slots
    BY <1>1, <1>2, <1>3, <2>1, WriteHasRoom
  <2>3. ~Begun(fs, i) /\ mode = "ready"
    BY <1>2, <1>3, WritingMode DEF Begun
  <2>4. Blank(flash[Adr(i)], m_pages[i].offset)
    BY <1>1, <2>3 DEF FitIn, PagesFit, DataFit
  <2>5. QED BY <1>3, <2>1, <2>2, <2>4, Constants DEF Blank
<1>4. CASE Collecting /\ fs.do = "copy" /\ m_gc.state = "copy" /\ fs = GcOp
  <2>1. PICK at \in Nat : at = m_swap_page.offset
    BY <1>2 DEF ShapeInv, TypeInv, SwapType
  <2>2. at < m_gc.src /\ m_gc.src \in 1..Slots
    BY <1>1, <1>2, <1>4, <2>1 DEF RoomFit, ShapeInv, GcInv
  <2>3. /\ fs.page = Swap /\ fs.slot = at + 1
        /\ fs.new = flash[Adr(Cur)].slots[m_gc.src]
    BY <1>2, <1>4, <2>1, CopyOp
  <2>4. CopyFit(flash, fs)
    BY <1>1, <1>4 DEF FitIn, SwapFit
  <2>5. QED BY <1>4, <2>1, <2>2, <2>3, <2>4, Constants DEF CopyFit
<1>5. QED BY <1>1, <1>2, <1>3, <1>4, RecordOp

\* A record, or its copy, is written to an erased place in its page, whatever
\* writes, collections, failures and resets came before, unless a header without
\* its first word was left among the records, or the wrong page was exchanged.
THEOREM EveryWriteFits == Spec => []WritesFit
<1>1. PagesInv /\ FitInv => WritesFit
  BY FitMeans
<1>2. QED BY <1>1, RoomIsKept, PTL

\* Types, room and tags together: the offsets in RAM are those of the records in
\* the flash, and the pages in RAM those with the tags.
THEOREM PagesAreConsistent == Spec => []FdsPagesInv
<1>1. TypeOK /\ WritesFit /\ PagesAgree => FdsPagesInv
  BY DEF FdsPagesInv
<1>2. QED BY <1>1, TypesAreKept, EveryWriteFits, PagesAgreeWithFlash, PTL

-----------------------------------------------------------------------------
(***************************************************************************)
(* The records.                                                            *)
(***************************************************************************)
Kept == Unhurt({"gap", "resume", "advance", "candidate", "open", "unset"})

\* The pages whose records fds_init finds in a flash g: if there is an erased page
\* it exchanges the swap page for it.
Home(g, p) ==
  \/ g[p].tag = "data"
  \/ g[p].tag = "swap" /\ \E q \in Page : g[q] = ErasedPage
Held(g, p, s) == Home(g, p) /\ Valid(g[p].slots[s])

\* The place of the record that is being written.
Started == Writing /\ Operation1.step # "begin"
Own(p, s) ==
  /\ Started /\ p = Adr(Operation1.page)
  /\ s = m_pages[Operation1.page].offset + 1

\* What was acknowledged is there; what is there is whole, and not older; a record
\* is of one key; there is one of a key, but for the one that is being written.
AckedKept(g) ==
  \A key \in Key : acked[key] # 0 =>
    \E p \in Page, s \in 1..Slots :
      /\ Held(g, p, s) /\ g[p].slots[s].key = key
      /\ g[p].slots[s].id >= acked[key]
WholeRecord(r) ==
  /\ r.state = "valid" /\ r.key \in Key
  /\ "twins" \in hit \/ r.id >= acked[r.key]
Whole(g) ==
  \A p \in Page, s \in 1..Slots : Held(g, p, s) => WholeRecord(g[p].slots[s])
OneKey(g) ==
  \A p, q \in Page, s, t \in 1..Slots :
    Held(g, p, s) /\ Held(g, q, t) /\ g[p].slots[s].id = g[q].slots[t].id
      => g[p].slots[s].key = g[q].slots[t].key
Single(g) ==
  "twins" \notin hit =>
    \A p, q \in Page, s, t \in 1..Slots :
      Held(g, p, s) /\ Held(g, q, t) /\ g[p].slots[s].key = g[q].slots[t].key
        => (p = q /\ s = t) \/ Own(p, s) \/ Own(q, t)
FlashKept(g) == AckedKept(g) /\ Whole(g) /\ OneKey(g) /\ Single(g)

\* The erasure of the swap page is not begun when another page is erased.
EraseKept(g, f) ==
  mode = "init" /\ (Operation1.step = "erase swap" \/ f = Erase(Swap)) =>
    \A p \in Page : g[p] # ErasedPage

IdsKept(g) ==
  mode \in {"init", "ready"} =>
    \A p \in Page, s \in 1..Slots :
      Valid(g[p].slots[s]) => g[p].slots[s].id <= m_latest_rec_id

\* A write in the queue, and a record that is there: it is the one to be replaced,
\* or of another key.
Matches(op, r) ==
  /\ r.id # op.id
  /\ op.op = "update" /\ r.id = op.old => r.key = op.key
  /\ "twins" \notin hit /\ r.key = op.key => op.op = "update" /\ r.id = op.old
OpKept(g, op) ==
  /\ op.key \in Key /\ op.old < op.id /\ op.id <= m_latest_rec_id
  /\ acked[op.key] <= op.id
  /\ \A p \in Page, s \in 1..Slots :
       Held(g, p, s) /\ ~Own(p, s) => Matches(op, g[p].slots[s])
Apart(a, b) == a.key # b.key /\ a.id # b.id /\ a.old # b.id
QueueKept(g) ==
  \A j \in 1..Len(m_op_queue) : m_op_queue[j].op \in Writes =>
    /\ OpKept(g, m_op_queue[j])
    /\ \A i \in 1..Len(m_op_queue) :
         m_op_queue[i].op \in Writes /\ i # j => Apart(m_op_queue[i], m_op_queue[j])

\* The record that is being written, and the one that it replaces.
New(r, state) == r.key = Operation1.key /\ r.id = Operation1.id /\ r.state = state
LastStep == IF Operation1.op = "write" THEN "done" ELSE "dirty"
NewSlot(g) == g[Adr(Operation1.page)].slots[m_pages[Operation1.page].offset + 1]
OldSlot(g) == g[Adr(Operation1.target[1])].slots[Operation1.target[2]]
NewKept(g, f) ==
  /\ Operation1.step = "finalize" => ~Valid(NewSlot(g))
  /\ \/ Operation1.step = "finalize" /\ f = Call(TRUE)
     \/ Operation1.step = LastStep /\ f # Call(TRUE)
     => New(NewSlot(g), "begun")
  /\ \/ Operation1.step = LastStep /\ f = Call(TRUE)
     \/ Operation1.op = "update" /\ Operation1.step = "done"
     => New(NewSlot(g), "valid")
OldKept(g, f) ==
  Operation1.op = "update" =>
    /\ OldSlot(g).key = Operation1.key /\ OldSlot(g).id = Operation1.old
    /\ ~(Operation1.step = "done" /\ f = Call(TRUE)) => OldSlot(g).state = "valid"
    /\ Operation1.step = "done" /\ f = Call(TRUE) =>
         /\ OldSlot(g).state = "dirty"
         /\ "twins" \notin hit =>
              \A p \in Page, s \in 1..Slots :
                Held(g, p, s) /\ g[p].slots[s].key = Operation1.key => Own(p, s)
OwnKept(g, f) == Started => NewKept(g, f) /\ OldKept(g, f)

\* The records before slot n of the page that is collected are those up to slot m of
\* the swap page.
CopiesFrom(g, n, m) ==
  \A t \in 1..Slots : t <= m /\ Valid(g[Swap].slots[t]) =>
    \E s \in 1..Slots : s < n /\ g[Adr(Cur)].slots[s] = g[Swap].slots[t]
CopiesTo(g, n, m) ==
  \A s \in 1..Slots : s < n /\ Valid(g[Adr(Cur)].slots[s]) =>
    \E t \in 1..Slots : t <= m /\ g[Swap].slots[t] = g[Adr(Cur)].slots[s]
CopiedOnce(g, m) ==
  "twins" \notin hit =>
    \A t, u \in 1..Slots :
      /\ t <= m /\ u <= m /\ Valid(g[Swap].slots[t]) /\ Valid(g[Swap].slots[u])
      /\ g[Swap].slots[t].key = g[Swap].slots[u].key
      => t = u
Copies(g, n, m) == CopiesFrom(g, n, m) /\ CopiesTo(g, n, m) /\ CopiedOnce(g, m)
CopyPlace(g) == g[Swap].slots[m_swap_page.offset + 1]
Copied(g) == g[Adr(Cur)].slots[m_gc.src]
CopyKept(g, f) ==
  /\ Copies(g, m_gc.src, m_swap_page.offset)
  /\ Valid(Copied(g))
  /\ CopyPlace(g) = Empty \/ CopyPlace(g) = Copied(g)
  /\ Collecting /\ f = Call(TRUE) /\ ~m_gc.resume => CopyPlace(g) = Copied(g)
GcKept(g, f) ==
  /\ m_gc.state = "copy" => CopyKept(g, f)
  /\ m_gc.state = "erase" /\ g[Adr(Cur)] # ErasedPage => Copies(g, Slots + 1, Slots)

KeptIn(g, f) ==
  /\ FlashKept(g) /\ EraseKept(g, f) /\ IdsKept(g) /\ QueueKept(g)
  /\ OwnKept(g, f) /\ GcKept(g, f)
KeptInv == Kept => KeptIn(flash, fs)

LEMMA KeptMeans ==
  Kept => /\ Unmixed /\ Ungapped /\ RightSwap /\ Unhurt({"resume"})
          /\ "resume" \notin hit /\ "gap" \notin hit /\ "open" \notin hit
          /\ "advance" \notin hit /\ "candidate" \notin hit
BY DEF Kept, Unmixed, Ungapped, RightSwap, Unhurt

LEMMA NoRecord == ~Valid(Empty)
BY DEF Valid, Empty

LEMMA BlankPages ==
  /\ \A s \in 1..Slots : ErasedPage.slots[s] = Empty /\ HalfPage.slots[s] = Empty
  /\ ErasedPage.tag = "none" /\ HalfPage.tag = "half"
BY DEF ErasedPage, HalfPage

\* A search comes to every record.
LEMMA ValidRecords ==
  ASSUME ShapeInv, AgreeInv, FitInv, Kept
  PROVE  \A p \in Page, s \in 1..Slots : Valid(flash[p].slots[s]) <=> s \in Records(p)
<1>1. PagesClean /\ FlashFit(flash)
  BY KeptMeans DEF AgreeInv, TagInv, FitInv, FitIn
<1>2. SUFFICES ASSUME NEW p \in Page, NEW s \in 1..Slots
               PROVE  Valid(flash[p].slots[s]) <=> s \in Records(p)
  OBVIOUS
<1>3. s \in Records(p) => Valid(flash[p].slots[s])
  BY DEF Records
<1>4. CASE flash[p].tag \in {"data", "swap"}
  <2>1. Honest(flash[p]) /\ NoGap(flash[p])
    BY <1>1, <1>4 DEF FlashFit
  <2>2. PICK n \in Nat : n = Used(p) /\ n <= Slots /\ Blank(flash[p], n)
    BY <2>1, UsedFits
  <2>3. Valid(flash[p].slots[s]) => s <= n
    BY <2>2, NoRecord, Constants DEF Blank
  <2>4. QED BY <1>3, <2>2, <2>3, Constants DEF Records
<1>5. CASE flash[p].tag \notin {"data", "swap"}
  <2>1. flash[p] = ErasedPage \/ flash[p] = HalfPage
    BY <1>1, <1>5 DEF PagesClean, Clean, Spoilt, IsErased
  <2>2. ~Valid(flash[p].slots[s])
    BY <2>1, BlankPages, NoRecord
  <2>3. QED BY <1>3, <2>2
<1>6. QED BY <1>4, <1>5

\* When the file system is ready: the data pages, an erased page, and where the
\* records are.
LEMMA ReadyHomes ==
  ASSUME ShapeInv, FsInv, ResumeInv, SwapInv, AgreeInv, FitInv, Kept, mode = "ready"
  PROVE  /\ \A p \in Page : Spoilt(p) \/ p = Swap \/ \E i \in DataPages : Adr(i) = p
         /\ \A i \in DataPages :
              \/ Home(flash, Adr(i))
              \/ m_gc.state = "erase" /\ i = Cur /\ flash[Adr(i)] = ErasedPage
         /\ \A p \in Page : flash[p] = ErasedPage =>
              \/ p = Swap /\ m_gc.state \notin {"begin", "copy", "erase"}
              \/ m_gc.state = "erase" /\ p = Adr(Cur)
         /\ \A p \in Page : Home(flash, p) =>
              \/ \E i \in DataPages : Adr(i) = p
              \/ m_gc.state = "erase" /\ p = Swap /\ flash[Adr(Cur)] = ErasedPage
<1>1. /\ Covers /\ EntriesClean /\ DataTags(flash) /\ RightSwap
      /\ \A i \in Index : m_pages[i].type # "erased"
      /\ SwapFit(flash, fs)
  BY KeptMeans DEF AgreeInv, TagInv, FitInv, FitIn, Mounted
<1>2. SwapReady
  BY <1>1, SwapIsReady
<1>3. \A i \in DataPages : i \in Index /\ Adr(i) \in Page /\ Adr(i) # Swap
  BY DataPageFacts
<1>4. \A p \in Page : Spoilt(p) \/ p = Swap \/ \E i \in DataPages : Adr(i) = p
  <2>1. \A i \in Index : Adr(i) \in Page => m_pages[i].type # "undefined"
    BY Constants DEF ShapeInv, AddrInv, Mounted
  <2>2. \A i \in Index : Adr(i) \in Page => i \in DataPages
    BY <1>1, <2>1 DEF DataPages, ShapeInv, TypeInv, PageRecord
  <2>3. QED BY <1>1, <2>2 DEF Covers
<1>5. \A i \in DataPages :
        \/ flash[Adr(i)].tag = "data"
        \/ m_gc.state = "erase" /\ i = Cur /\ flash[Adr(i)] = ErasedPage
        \/ /\ m_gc.state = "promote" /\ i = Cur /\ flash[Adr(i)].tag \in {"data", "swap"}
           /\ flash[Swap] = ErasedPage
  BY <1>1, <1>2 DEF DataTags, SwapFit, SwapReady, IsErased
<1>6. Swap \in Page
  BY <1>2 DEF SwapReady
<1>7. \A i \in DataPages :
        \/ Home(flash, Adr(i))
        \/ m_gc.state = "erase" /\ i = Cur /\ flash[Adr(i)] = ErasedPage
  BY <1>5, <1>6 DEF Home
<1>8. \A p \in Page : flash[p] = ErasedPage =>
        \/ p = Swap /\ m_gc.state \notin {"begin", "copy", "erase"}
        \/ m_gc.state = "erase" /\ p = Adr(Cur)
  <2>1. SUFFICES ASSUME NEW p \in Page, flash[p] = ErasedPage
                 PROVE  \/ p = Swap /\ m_gc.state \notin {"begin", "copy", "erase"}
                        \/ m_gc.state = "erase" /\ p = Adr(Cur)
    OBVIOUS
  <2>2. flash[p].tag = "none" /\ ~Spoilt(p)
    BY <2>1, BlankPages DEF Spoilt
  <2>3. CASE p = Swap
    BY <1>2, <2>2, <2>3 DEF SwapReady, SwapTag
  <2>4. CASE \E i \in DataPages : Adr(i) = p
    BY <1>5, <2>2, <2>4
  <2>5. QED BY <1>4, <2>2, <2>3, <2>4
<1>9. \A p \in Page : Home(flash, p) =>
        \/ \E i \in DataPages : Adr(i) = p
        \/ m_gc.state = "erase" /\ p = Swap /\ flash[Adr(Cur)] = ErasedPage
  <2>1. SUFFICES ASSUME NEW p \in Page, Home(flash, p), p = Swap
                 PROVE  m_gc.state = "erase" /\ flash[Adr(Cur)] = ErasedPage
    <3>1. \A p \in Page : Home(flash, p) => ~Spoilt(p)
      BY BlankPages DEF Home, Spoilt
    <3>2. QED BY <1>4, <3>1
  <2>2. flash[p].tag # "data"
    BY <1>2, <2>1, BlankPages DEF SwapReady, SwapTag, IsErased
  <2>3. flash[p].tag = "swap" /\ \E q \in Page : flash[q] = ErasedPage
    BY <2>1, <2>2 DEF Home
  <2>4. PICK q \in Page : flash[q] = ErasedPage
    BY <2>3
  <2>5. q # Swap
    BY <2>1, <2>3, <2>4, BlankPages
  <2>6. QED BY <1>8, <2>4, <2>5
<1>10. QED BY <1>4, <1>7, <1>8, <1>9

\* Where a search in the data pages ends.
LEMMA FoundHeld ==
  ASSUME ShapeInv, FsInv, ResumeInv, SwapInv, AgreeInv, FitInv, Kept, mode = "ready"
  PROVE  /\ \A at \in InPages :
              /\ at[1] \in DataPages /\ at[2] \in 1..Slots /\ Adr(at[1]) \in Page
              /\ Held(flash, Adr(at[1]), at[2])
              /\ SlotAt(at) = flash[Adr(at[1])].slots[at[2]]
         /\ m_gc.state # "erase" =>
              \A p \in Page, s \in 1..Slots : Held(flash, p, s) =>
                \E at \in InPages : SlotAt(at) = flash[p].slots[s]
<1>1. \A at \in InPages :
        /\ at[1] \in DataPages /\ at[2] \in 1..Slots /\ at[2] \in Records(Adr(at[1]))
        /\ SlotAt(at) = flash[Adr(at[1])].slots[at[2]]
  BY DEF InPages, SlotAt, Adr
<1>2. \A at \in InPages : Held(flash, Adr(at[1]), at[2]) /\ Adr(at[1]) \in Page
  <2>1. SUFFICES ASSUME NEW at \in InPages
                 PROVE  Held(flash, Adr(at[1]), at[2]) /\ Adr(at[1]) \in Page
    OBVIOUS
  <2>2. Adr(at[1]) \in Page
    BY <1>1, DataPageFacts
  <2>3. Valid(flash[Adr(at[1])].slots[at[2]])
    BY <1>1, <2>2, ValidRecords
  <2>4. flash[Adr(at[1])] # ErasedPage
    BY <1>1, <2>3, BlankPages, NoRecord
  <2>5. Home(flash, Adr(at[1]))
    BY <1>1, <2>4, ReadyHomes
  <2>6. QED BY <2>2, <2>3, <2>5 DEF Held
<1>3. ASSUME m_gc.state # "erase", NEW p \in Page, NEW s \in 1..Slots, Held(flash, p, s)
      PROVE  \E at \in InPages : SlotAt(at) = flash[p].slots[s]
  <2>1. PICK i \in DataPages : Adr(i) = p
    BY <1>3, ReadyHomes DEF Held
  <2>2. s \in Records(p)
    BY <1>3, ValidRecords DEF Held
  <2>3. <<i, s>> \in InPages /\ SlotAt(<<i, s>>) = flash[p].slots[s]
    BY <2>1, <2>2 DEF InPages, SlotAt, Adr
  <2>4. QED BY <2>3
<1>4. QED BY <1>1, <1>2, <1>3

\* What RecordsKept says follows from KeptInv.
LEMMA KeptRecords ==
  ASSUME PagesInv, AgreeInv, FitInv, KeptInv
  PROVE  RecordsKept
<1>1. SUFFICES ASSUME Calm, m_gc.state # "erase", Kept, NEW key \in Key, acked[key] # 0
               PROVE  /\ \E at \in OfKey(key) : SlotAt(at).id >= acked[key]
                      /\ \A at \in OfKey(key) :
                           /\ SlotAt(at).state = "valid"
                           /\ SlotAt(at).id >= acked[key] \/ "twins" \in hit
  BY DEF RecordsKept, Kept
<1>2. /\ ShapeInv /\ FsInv /\ ResumeInv /\ SwapInv /\ mode = "ready"
      /\ AckedKept(flash) /\ Whole(flash)
  BY <1>1 DEF PagesInv, KeptInv, KeptIn, FlashKept, Calm
<1>3. \E at \in OfKey(key) : SlotAt(at).id >= acked[key]
  <2>1. PICK p \in Page, s \in 1..Slots :
          /\ Held(flash, p, s) /\ flash[p].slots[s].key = key
          /\ flash[p].slots[s].id >= acked[key]
    BY <1>1, <1>2 DEF AckedKept
  <2>2. PICK at \in InPages : SlotAt(at) = flash[p].slots[s]
    BY <1>1, <1>2, <2>1, FoundHeld
  <2>3. QED BY <2>1, <2>2 DEF OfKey
<1>4. ASSUME NEW at \in OfKey(key)
      PROVE  /\ SlotAt(at).state = "valid"
             /\ SlotAt(at).id >= acked[key] \/ "twins" \in hit
  <2>1. at \in InPages /\ SlotAt(at).key = key
    BY DEF OfKey
  <2>2. WholeRecord(SlotAt(at))
    BY <1>1, <1>2, <2>1, FoundHeld DEF Whole
  <2>3. QED BY <2>1, <2>2 DEF WholeRecord
<1>5. QED BY <1>3, <1>4

(***************************************************************************)
(* KeptInv: the flash operation under way, done, failed or cut short by a  *)
(* reset.                                                                  *)
(***************************************************************************)

\* Two flashes that hold the same records, in the same places or in others.
SameHeld(h, g) ==
  \A p \in Page, s \in 1..Slots :
    /\ Held(g, p, s) <=> Held(h, p, s)
    /\ Held(h, p, s) => g[p].slots[s] = h[p].slots[s]
HeldIn(h, g) ==
  \A p \in Page, s \in 1..Slots : Held(h, p, s) =>
    \E q \in Page, t \in 1..Slots :
      Held(g, q, t) /\ g[q].slots[t] = h[p].slots[s]
NoValid(page) == \A s \in 1..Slots : ~Valid(page.slots[s])

LEMMA SameMeans ==
  ASSUME NEW h, NEW g, SameHeld(h, g)
  PROVE  HeldIn(h, g) /\ HeldIn(g, h)
BY DEF SameHeld, HeldIn

LEMMA MovedKept ==
  ASSUME NEW h, NEW g, HeldIn(h, g), HeldIn(g, h),
         AckedKept(h), Whole(h), OneKey(h)
  PROVE  AckedKept(g) /\ Whole(g) /\ OneKey(g)
<1>1. AckedKept(g)
  <2>1. SUFFICES ASSUME NEW key \in Key, acked[key] # 0
                 PROVE  \E p \in Page, s \in 1..Slots :
                          /\ Held(g, p, s) /\ g[p].slots[s].key = key
                          /\ g[p].slots[s].id >= acked[key]
    BY DEF AckedKept
  <2>2. PICK p \in Page, s \in 1..Slots :
          /\ Held(h, p, s) /\ h[p].slots[s].key = key
          /\ h[p].slots[s].id >= acked[key]
    BY <2>1 DEF AckedKept
  <2>3. PICK q \in Page, t \in 1..Slots :
          Held(g, q, t) /\ g[q].slots[t] = h[p].slots[s]
    BY <2>2 DEF HeldIn
  <2>4. QED BY <2>2, <2>3
<1>2. Whole(g)
  <2>1. SUFFICES ASSUME NEW p \in Page, NEW s \in 1..Slots, Held(g, p, s)
                 PROVE  WholeRecord(g[p].slots[s])
    BY DEF Whole
  <2>2. PICK q \in Page, t \in 1..Slots :
          Held(h, q, t) /\ h[q].slots[t] = g[p].slots[s]
    BY <2>1 DEF HeldIn
  <2>3. WholeRecord(h[q].slots[t])
    BY <2>2 DEF Whole
  <2>4. QED BY <2>2, <2>3
<1>3. OneKey(g)
  <2>1. SUFFICES ASSUME NEW p \in Page, NEW q \in Page, NEW s \in 1..Slots,
                        NEW t \in 1..Slots, Held(g, p, s), Held(g, q, t),
                        g[p].slots[s].id = g[q].slots[t].id
                 PROVE  g[p].slots[s].key = g[q].slots[t].key
    BY DEF OneKey
  <2>2. PICK p1 \in Page, s1 \in 1..Slots :
          Held(h, p1, s1) /\ h[p1].slots[s1] = g[p].slots[s]
    BY <2>1 DEF HeldIn
  <2>3. PICK q1 \in Page, t1 \in 1..Slots :
          Held(h, q1, t1) /\ h[q1].slots[t1] = g[q].slots[t]
    BY <2>1 DEF HeldIn
  <2>4. h[p1].slots[s1].id = h[q1].slots[t1].id
    BY <2>1, <2>2, <2>3
  <2>5. \A m, n \in Page, i, j \in 1..Slots :
          Held(h, m, i) /\ Held(h, n, j) /\ h[m].slots[i].id = h[n].slots[j].id
          => h[m].slots[i].key = h[n].slots[j].key
    BY DEF OneKey
  <2>6. Held(h, p1, s1) /\ Held(h, q1, t1) /\ h[p1].slots[s1].id = h[q1].slots[t1].id
          => h[p1].slots[s1].key = h[q1].slots[t1].key
    BY <2>5
  <2>7. h[p1].slots[s1].key = h[q1].slots[t1].key
    BY <2>2, <2>3, <2>4, <2>6
  <2>8. QED BY <2>2, <2>3, <2>7
<1>4. QED BY <1>1, <1>2, <1>3

LEMMA SameKept ==
  ASSUME NEW h, NEW g, SameHeld(h, g)
  PROVE  /\ FlashKept(h) => FlashKept(g)
         /\ QueueKept(h) => QueueKept(g)
<1>1. Single(h) => Single(g)
  BY DEF Single, SameHeld
<1>2. FlashKept(h) => FlashKept(g)
  BY <1>1, SameMeans, MovedKept DEF FlashKept
<1>3. \A op : OpKept(h, op) => OpKept(g, op)
  BY DEF OpKept, SameHeld
<1>4. QueueKept(h) => QueueKept(g)
  BY <1>3 DEF QueueKept
<1>5. QED BY <1>2, <1>4

\* The same records in other places, when none is being written.
LEMMA MovedQueue ==
  ASSUME NEW h, NEW g, HeldIn(g, h), ~Started, QueueKept(h)
  PROVE  QueueKept(g)
<1>1. \A p, s : ~Own(p, s)
  BY DEF Own
<1>2. ASSUME NEW op, OpKept(h, op)
      PROVE  OpKept(g, op)
  <2>1. ASSUME NEW p \in Page, NEW s \in 1..Slots, Held(g, p, s)
        PROVE  Matches(op, g[p].slots[s])
    <3>1. PICK q \in Page, t \in 1..Slots :
            Held(h, q, t) /\ h[q].slots[t] = g[p].slots[s]
      BY <2>1 DEF HeldIn
    <3>2. Matches(op, h[q].slots[t])
      BY <1>1, <1>2, <3>1 DEF OpKept
    <3>3. QED BY <3>1, <3>2
  <2>2. QED BY <1>2, <2>1 DEF OpKept
<1>3. QED BY <1>2 DEF QueueKept

LEMMA IdsStay ==
  ASSUME NEW h, NEW g, IdsKept(h),
         mode \in {"init", "ready"} =>
           \A p \in Page, s \in 1..Slots : Valid(g[p].slots[s]) =>
             \E q \in Page, t \in 1..Slots :
               Valid(h[q].slots[t]) /\ h[q].slots[t].id = g[p].slots[s].id
  PROVE  IdsKept(g)
<1>1. SUFFICES ASSUME mode \in {"init", "ready"}, NEW p \in Page, NEW s \in 1..Slots,
                      Valid(g[p].slots[s])
               PROVE  g[p].slots[s].id <= m_latest_rec_id
  BY DEF IdsKept
<1>2. PICK q \in Page, t \in 1..Slots :
        Valid(h[q].slots[t]) /\ h[q].slots[t].id = g[p].slots[s].id
  BY <1>1
<1>3. h[q].slots[t].id <= m_latest_rec_id
  BY <1>1, <1>2 DEF IdsKept
<1>4. QED BY <1>2, <1>3

\* A page gets another tag, and keeps its records.
LEMMA TagHolds ==
  ASSUME NEW h, NEW g, NEW p \in Page,
         \A q \in Page : q # p => g[q] = h[q],
         g[p].slots = h[p].slots, g[p] # ErasedPage,
         (Home(g, p) <=> Home(h, p)) \/ NoValid(h[p]),
         h[p] # ErasedPage \/
           \A q \in Page : q # p /\ h[q].tag = "swap" => NoValid(h[q])
  PROVE  SameHeld(h, g)
<1>1. ASSUME NEW q \in Page, q # p, ~NoValid(h[q])
      PROVE  Home(g, q) <=> Home(h, q)
  <2>1. g[q] = h[q]
    BY <1>1
  <2>2. CASE h[p] # ErasedPage
    <3>1. \A r \in Page : g[r] = ErasedPage <=> h[r] = ErasedPage
      BY <2>2
    <3>2. QED BY <2>1, <3>1 DEF Home
  <2>3. CASE h[q].tag # "swap"
    BY <2>1, <2>3 DEF Home
  <2>4. QED BY <1>1, <2>2, <2>3
<1>2. ASSUME NEW q \in Page, NEW s \in 1..Slots
      PROVE  /\ Held(g, q, s) <=> Held(h, q, s)
             /\ g[q].slots[s] = h[q].slots[s]
  <2>1. g[q].slots[s] = h[q].slots[s]
    BY DEF NoValid
  <2>2. CASE NoValid(h[q])
    BY <2>1, <2>2 DEF NoValid, Held
  <2>3. CASE ~NoValid(h[q])
    <3>1. Home(g, q) <=> Home(h, q)
      BY <1>1, <2>3
    <3>2. QED BY <2>1, <3>1 DEF Held
  <2>4. QED BY <2>1, <2>2, <2>3
<1>3. QED BY <1>2 DEF SameHeld

LEMMA NoneValid ==
  /\ NoValid(ErasedPage)
  /\ \A page : Blank(page, 0) => NoValid(page)
<1>1. NoValid(ErasedPage)
  BY BlankPages, NoRecord DEF NoValid
<1>2. \A page : Blank(page, 0) => NoValid(page)
  BY NoRecord, Constants DEF NoValid, Blank
<1>3. QED BY <1>1, <1>2

LEMMA MountedTags ==
  ASSUME ShapeInv, AgreeInv, Kept, mode \in {"init", "ready"}
  PROVE  \A i \in DataPages :
           flash[Adr(i)].tag \in {"data", "swap"} \/ flash[Adr(i)] = ErasedPage
<1>1. EntriesClean
  BY KeptMeans DEF AgreeInv, TagInv, Mounted
<1>2. QED BY <1>1 DEF EntriesClean, DataPages, Clean, IsErased

\* The page that gets a tag has it, or no records, or it was the swap page that an
\* erased one takes the place of; no other swap page has records.
LEMMA TagHere ==
  ASSUME ShapeInv, FsInv, SwapInv, AgreeInv, FitInv, Kept, fs.do = "tag"
  PROVE  /\ fs.page \in Page
         /\ \A q \in Page :
              q # fs.page /\ flash[q].tag = "swap" => NoValid(flash[q])
         /\ \/ flash[fs.page].tag = "data"
            \/ NoValid(flash[fs.page])
            \/ /\ flash[fs.page].tag = "swap" /\ fs.tag = "data"
               /\ Home(flash, fs.page)
<1>1. RightSwap /\ SwapFit(flash, fs)
  BY KeptMeans DEF FitInv, FitIn
<1>2. fs.do \in FlashOp
  BY DEF FlashOp
<1>3. CASE /\ mode = "init" /\ Operation1.step = "tag data" /\ Swap \in Page
           /\ fs = Tag(Swap, "swap")
  <2>1. fs.page = Swap
    BY <1>3, OpFacts
  <2>2. NoSwapTag /\ (SwapTag(Swap) \/ IsErased(Swap))
    BY <1>1, <1>3, SwapIsMounting DEF SwapMounting, SwapStep
  <2>3. flash[Swap] = ErasedPage
    BY <1>3, <2>2 DEF NoSwapTag, IsErased
  <2>4. NoValid(flash[Swap])
    BY <2>3, NoneValid
  <2>5. QED BY <1>3, <2>1, <2>2, <2>4 DEF NoSwapTag, SwapTag
<1>4. ASSUME mode = "init", NEW i \in DataPages, Adr(i) \in Page, Adr(i) # Swap,
             fs = Tag(Adr(i), "data"), Operation1.step \in {"tag swap", "tag data"}
      PROVE  /\ fs.page \in Page
             /\ \A q \in Page :
                  q # fs.page /\ flash[q].tag = "swap" => NoValid(flash[q])
             /\ \/ flash[fs.page].tag = "data"
                \/ NoValid(flash[fs.page])
                \/ /\ flash[fs.page].tag = "swap" /\ fs.tag = "data"
                   /\ Home(flash, fs.page)
  <2>1. fs.page = Adr(i) /\ fs.do = "tag" /\ fs.tag = "data"
    <3>1. fs = Tag(Adr(i), "data")
      BY <1>4
    <3>2. PICK a : a = Adr(i)
      OBVIOUS
    <3>3. Tag(a, "data").page = a /\ Tag(a, "data").tag = "data"
      BY OpFacts
    <3>4. QED BY <3>1, <3>2, <3>3
  <2>2. flash[Adr(i)].tag \in {"data", "swap"} \/ flash[Adr(i)] = ErasedPage
    BY <1>4, MountedTags
  <2>3. SwapMounting
    BY <1>1, <1>4, SwapIsMounting
  <2>4. flash[Adr(i)] = ErasedPage => NoValid(flash[Adr(i)])
    BY NoneValid
  <2>5. CASE Operation1.step = "tag swap"
    <3>1. flash[Swap] = ErasedPage /\ \A p \in Page : SwapTag(p) => p = Adr(i)
      BY <2>1, <2>3, <2>5 DEF SwapMounting, SwapStep, IsErased
    <3>2. flash[Adr(i)].tag = "swap" => Home(flash, Adr(i))
      BY <2>3, <3>1 DEF Home, SwapMounting
    <3>3. QED BY <1>4, <2>1, <2>2, <2>4, <3>1, <3>2 DEF SwapTag
  <2>6. CASE Operation1.step = "tag data"
    <3>1. fs # Tag(Swap, "swap") /\ fs # Call(FALSE)
      <4>1. Tag(Swap, "swap").page = Swap /\ Call(FALSE).do = "call"
        BY OpFacts, FsFacts
      <4>2. fs # Tag(Swap, "swap")
        BY <1>4, <2>1, <4>1
      <4>3. QED BY <2>1, <4>1, <4>2
    <3>2. SwapTag(Swap) /\ OneSwapTag /\ Swap \in Page
      BY <2>3, <2>6, <3>1 DEF SwapMounting, SwapStep
    <3>3. NoValid(flash[Swap])
      BY <1>1, <1>4, <2>6, NoneValid DEF SwapFit
    <3>4. \A q \in Page : flash[q].tag = "swap" => q = Swap
      BY <3>2 DEF OneSwapTag, SwapTag
    <3>5. flash[Adr(i)].tag # "swap"
      BY <1>4, <3>4
    <3>6. QED BY <1>4, <2>1, <2>2, <2>4, <3>3, <3>4, <3>5
  <2>7. QED BY <1>4, <2>5, <2>6
<1>5. CASE mode = "ready" /\ Collecting /\ m_gc.state # "begin" /\ fs = GcOp
  <2>1. SwapReady
    BY <1>1, <1>5, SwapIsReady
  <2>2. /\ Adr(Cur) \in Page /\ Swap \in Page /\ Adr(Cur) # Swap
        /\ m_gc.state \in {"promote", "tag"}
        /\ m_gc.state = "promote" => fs = Tag(Adr(Cur), "data")
        /\ m_gc.state = "tag" => fs = Tag(Swap, "swap")
    BY <1>5, GcOpFacts, OpFacts
  <2>3. CASE m_gc.state = "promote"
    <3>1. fs.page = Adr(Cur) /\ fs.tag = "data"
      BY <2>2, <2>3, OpFacts
    <3>2. flash[Swap] = ErasedPage /\ \A p \in Page : SwapTag(p) => p = Adr(Cur)
      BY <2>1, <2>3 DEF SwapReady, IsErased
    <3>3. flash[Adr(Cur)].tag \in {"data", "swap"}
      BY <1>1, <2>3 DEF SwapFit
    <3>4. flash[Adr(Cur)].tag = "swap" => Home(flash, Adr(Cur))
      BY <2>2, <3>2 DEF Home
    <3>5. QED BY <2>2, <3>1, <3>2, <3>3, <3>4 DEF SwapTag
  <2>4. CASE m_gc.state = "tag"
    <3>1. fs.page = Swap
      BY <2>2, <2>4, OpFacts
    <3>2. NoValid(flash[Swap])
      BY <1>1, <1>5, <2>4, NoneValid DEF SwapFit
    <3>3. \A p \in Page : SwapTag(p) => p = Swap
      BY <2>1, <2>4 DEF SwapReady
    <3>4. QED BY <2>2, <3>1, <3>2, <3>3 DEF SwapTag
  <2>5. QED BY <2>2, <2>3, <2>4
<1>6. \/ /\ mode = "init" /\ Operation1.step = "tag data" /\ Swap \in Page
         /\ fs = Tag(Swap, "swap")
      \/ /\ mode = "init" /\ Operation1.step \in {"tag swap", "tag data"}
         /\ \E i \in DataPages : Adr(i) \in Page /\ Adr(i) # Swap
                                 /\ fs = Tag(Adr(i), "data")
      \/ mode = "ready" /\ Collecting /\ m_gc.state # "begin" /\ fs = GcOp
  BY <1>2, FsUnderWay, OpFacts
<1>7. CASE /\ mode = "init" /\ Operation1.step \in {"tag swap", "tag data"}
           /\ \E i \in DataPages : Adr(i) \in Page /\ Adr(i) # Swap
                                   /\ fs = Tag(Adr(i), "data")
  <2>1. PICK i \in DataPages : Adr(i) \in Page /\ Adr(i) # Swap
                               /\ fs = Tag(Adr(i), "data")
    BY <1>7
  <2>2. QED BY <1>4, <1>7, <2>1
<1>8. QED BY <1>3, <1>5, <1>6, <1>7

\* A tag that is written leaves the records where they are.
LEMMA TagDone ==
  ASSUME ShapeInv, FsInv, SwapInv, AgreeInv, FitInv, Kept, fs.do = "tag",
         NEW g, g = Done(fs)
  PROVE  SameHeld(flash, g)
<1>1. fs \in FlashOpType /\ flash \in FlashType
  <2>1. fs.do \in FlashOp
    BY DEF FlashOp
  <2>2. QED BY <2>1, FsUnderWay DEF ShapeInv, TypeInv
<1>2. PICK p \in Page : p = fs.page
  BY TagHere
<1>3. /\ \A q \in Page : q # p => g[q] = flash[q]
      /\ g[p].slots = flash[p].slots
      /\ g[p].tag \in {"data", "swap"}
      /\ fs.tag = "data" => g[p].tag = "data"
  BY <1>1, <1>2, TagOrErase
<1>4. flash[p].tag = "data" => g[p].tag = "data"
  BY <1>1, <1>2, DoneTags
<1>5. g[p] # ErasedPage
  BY <1>3, BlankPages
<1>6. (Home(g, p) <=> Home(flash, p)) \/ NoValid(flash[p])
  <2>1. CASE flash[p].tag = "data"
    BY <1>4, <2>1 DEF Home
  <2>2. CASE flash[p].tag = "swap" /\ fs.tag = "data" /\ Home(flash, p)
    BY <1>3, <2>2 DEF Home
  <2>3. QED BY <1>2, <2>1, <2>2, TagHere
<1>7. \A q \in Page : q # p /\ flash[q].tag = "swap" => NoValid(flash[q])
  BY <1>2, TagHere
<1>8. QED BY <1>3, <1>5, <1>6, <1>7, TagHolds

\* Half a tag, too.
LEMMA TagHalved ==
  ASSUME ShapeInv, FsInv, SwapInv, AgreeInv, FitInv, Kept, fs.do = "tag",
         NEW g, NEW p \in Page, p = fs.page,
         \A q \in Page : q # p => g[q] = flash[q],
         flash[p].tag = "none", g[p].tag = "half", g[p].slots = flash[p].slots
  PROVE  SameHeld(flash, g)
<1>1. g[p] # ErasedPage
  BY BlankPages
<1>2. Home(g, p) <=> Home(flash, p)
  BY DEF Home
<1>3. \A q \in Page : q # p /\ flash[q].tag = "swap" => NoValid(flash[q])
  BY TagHere
<1>4. QED BY <1>1, <1>2, <1>3, TagHolds

\* So does the erasure of the swap page, if no other page is erased.
LEMMA SwapErased ==
  ASSUME NEW h, NEW g, Swap \in Page,
         \A q \in Page : q # Swap => g[q] = h[q], g[Swap] = ErasedPage,
         \A q \in Page : h[q].tag = "swap" => q = Swap,
         \/ h[Swap] = ErasedPage
         \/ h[Swap].tag = "swap" /\ \A q \in Page : h[q] # ErasedPage
  PROVE  SameHeld(h, g)
<1>1. CASE h[Swap] = ErasedPage
  <2>1. \A q \in Page : g[q] = h[q]
    BY <1>1
  <2>2. \A q \in Page : Home(g, q) <=> Home(h, q)
    BY <2>1 DEF Home
  <2>3. QED BY <2>1, <2>2 DEF SameHeld, Held
<1>2. CASE h[Swap].tag = "swap" /\ \A q \in Page : h[q] # ErasedPage
  <2>1. ~Home(h, Swap) /\ ~Home(g, Swap)
    BY <1>2, BlankPages DEF Home
  <2>2. \A q \in Page : q # Swap => (Home(g, q) <=> Home(h, q))
    BY DEF Home
  <2>3. QED BY <2>1, <2>2 DEF SameHeld, Held
<1>3. QED BY <1>1, <1>2

\* The initialisation: nothing is written, nothing is collected.
LEMMA InitIdle ==
  ASSUME ShapeInv, mode \in {"init", "off", "dead", "failed"}
  PROVE  /\ m_gc.state = "begin" /\ ~Writing /\ ~Started
         /\ \A j \in 1..Len(m_op_queue) : m_op_queue[j].op \notin Writes
<1>1. m_gc.state = "begin"
  BY DEF ShapeInv, GcInv
<1>2. CASE mode = "init"
  <2>1. /\ Len(m_op_queue) = 1 /\ Operation1.op = "init"
        /\ m_op_queue \in Seq(OpType)
    BY <1>2 DEF ShapeInv, QueueInv, TypeInv
  <2>5. m_op_queue # <<>>
    BY <2>1
  <2>2. Operation1 = m_op_queue[1]
    BY <2>1, <2>5, QueueFacts DEF Operation1
  <2>3. Operation1.op \notin Writes
    BY <2>1 DEF Writes
  <2>4. QED BY <1>1, <2>1, <2>2, <2>3, <2>5 DEF Writing, Started
<1>3. CASE mode # "init"
  <2>1. m_op_queue = <<>>
    BY <1>3 DEF ShapeInv, QueueInv
  <2>2. QED BY <1>1, <2>1 DEF Writing, Started
<1>4. QED BY <1>2, <1>3

LEMMA IdleKept ==
  ASSUME ShapeInv, mode \in {"init", "off", "dead", "failed"}, NEW g, NEW f,
         FlashKept(g), IdsKept(g), EraseKept(g, f)
  PROVE  KeptIn(g, f)
<1>1. QueueKept(g)
  BY InitIdle DEF QueueKept
<1>2. OwnKept(g, f) /\ GcKept(g, f)
  BY InitIdle DEF OwnKept, GcKept
<1>3. QED BY <1>1, <1>2 DEF KeptIn

\* Nothing becomes valid when a tag is written or a page erased.
LEMMA TagEraseIds ==
  ASSUME ShapeInv, FsInv, fs.do \in {"erase", "tag"}, IdsKept(flash), NEW g, g = Done(fs)
  PROVE  IdsKept(g)
<1>1. fs \in FlashOpType /\ flash \in FlashType
  <2>1. fs.do \in FlashOp
    BY DEF FlashOp
  <2>2. QED BY <2>1, FsUnderWay DEF ShapeInv, TypeInv
<1>2. PICK p \in Page : p = fs.page /\ \A q \in Page : q # p => g[q] = flash[q]
  BY <1>1, TagOrErase
<1>3. g[p].slots = flash[p].slots \/ g[p] = ErasedPage
  BY <1>1, <1>2, TagOrErase
<1>4. \A q \in Page, t \in 1..Slots : Valid(g[q].slots[t]) =>
        Valid(flash[q].slots[t]) /\ flash[q].slots[t].id = g[q].slots[t].id
  BY <1>2, <1>3, BlankPages, NoRecord
<1>5. QED BY <1>4, IdsStay

LEMMA InitKeptDone ==
  ASSUME ShapeInv, FsInv, SwapInv, AgreeInv, FitInv, Kept, KeptIn(flash, fs),
         mode = "init", fs.do \in FlashOp, NEW g, g = Done(fs)
  PROVE  KeptIn(g, Call(TRUE))
<1>1. /\ FlashKept(flash) /\ IdsKept(flash) /\ EraseKept(flash, fs) /\ RightSwap
      /\ fs \in FlashOpType /\ flash \in FlashType
  BY KeptMeans, FsUnderWay DEF KeptIn, ShapeInv, TypeInv
<1>2. \/ Operation1.step = "tag swap" /\ Swap \in Page /\ fs = Erase(Swap)
      \/ Operation1.step \in {"tag swap", "tag data"} /\ fs.do = "tag"
  <2>1. \/ Operation1.step = "tag swap" /\ Swap \in Page /\ fs = Erase(Swap)
        \/ Operation1.step = "tag data" /\ Swap \in Page /\ fs = Tag(Swap, "swap")
        \/ /\ Operation1.step \in {"tag swap", "tag data"}
           /\ \E i \in DataPages : Adr(i) \in Page /\ Adr(i) # Swap
                                   /\ fs = Tag(Adr(i), "data")
    BY FsUnderWay
  <2>2. \A p, tag : fs = Tag(p, tag) => fs.do = "tag"
    BY OpFacts
  <2>3. QED BY <2>1, <2>2
<1>3. SameHeld(flash, g)
  <2>1. CASE fs.do = "tag"
    BY <2>1, TagDone
  <2>2. CASE Operation1.step = "tag swap" /\ Swap \in Page /\ fs = Erase(Swap)
    <3>1. fs.do = "erase" /\ fs.page = Swap
      BY <2>2, OpFacts
    <3>2. /\ \A q \in Page : q # Swap => g[q] = flash[q]
          /\ g[Swap] = ErasedPage
      BY <1>1, <3>1, DoneTags
    <3>3. SwapTag(Swap) /\ OneSwapTag
      BY <1>1, <2>2, SwapIsMounting DEF SwapMounting, SwapStep
    <3>4. \A q \in Page : flash[q] # ErasedPage
      BY <1>1, <2>2 DEF EraseKept
    <3>5. \A q \in Page : flash[q].tag = "swap" => q = Swap
      BY <2>2, <3>3 DEF OneSwapTag, SwapTag
    <3>6. QED BY <2>2, <3>2, <3>3, <3>4, <3>5, SwapErased DEF SwapTag
  <2>3. QED BY <1>2, <2>1, <2>2
<1>4. FlashKept(g)
  BY <1>1, <1>3, SameKept
<1>5. IdsKept(g)
  <2>1. fs.do \in {"erase", "tag"}
    BY <1>2, OpFacts
  <2>2. QED BY <1>1, <2>1, TagEraseIds
<1>6. EraseKept(g, Call(TRUE))
  <2>1. Call(TRUE) # Erase(Swap)
    BY FsFacts, OpFacts
  <2>2. QED BY <1>2, <2>1 DEF EraseKept
<1>7. QED BY <1>4, <1>5, <1>6, IdleKept

\* A record that is written, in a page of records.
LEMMA WriteAt ==
  ASSUME ShapeInv, FsInv, AgreeInv, FitInv, Kept, Writing, fs.do \in FlashOp,
         NEW g, g = Done(fs)
  PROVE  /\ fs \in FlashOpType /\ fs.do \in {"begin", "finalize", "dirty"}
         /\ fs.page \in Page /\ fs.slot \in 1..Slots
         /\ m_gc.state = "begin" /\ Started /\ mode = "ready"
         /\ \A p \in Page : Home(g, p) <=> Home(flash, p)
         /\ Home(g, fs.page)
         /\ \A p \in Page, s \in 1..Slots :
              p # fs.page \/ s # fs.slot => g[p].slots[s] = flash[p].slots[s]
         /\ g[fs.page].slots[fs.slot] =
              Over(flash[fs.page].slots[fs.slot], fs.new)
<1>1. RoomFit /\ WriteFit(flash, fs) /\ DataTags(flash) /\ Unhurt({"resume"})
  <2>1. mode = "ready"
    BY WritingMode
  <2>2. QED BY <2>1, KeptMeans DEF FitInv, FitIn, AgreeInv, TagInv
<1>2. /\ Operation1.step # "begin" /\ fs.do \in {"begin", "finalize", "dirty"}
      /\ \E i \in DataPages : WritesAt(i)
  BY <1>1, WriteOps
<1>3. PICK i \in DataPages : WritesAt(i)
  BY <1>2
<1>4. /\ mode = "ready" /\ m_gc.state = "begin" /\ Started
      /\ fs \in FlashOpType /\ flash \in FlashType
  BY <1>1, <1>2, WritingMode, FsUnderWay
     DEF AgreeInv, WriteCalm, Started, ShapeInv, TypeInv
<1>5. PICK p \in Page : p = fs.page /\ p = Adr(i)
  BY <1>3, <1>4, DataPageFacts DEF WritesAt
<1>6. PICK k \in 1..Slots : k = fs.slot
  BY <1>3 DEF WritesAt
<1>7. fs.do \notin {"erase", "tag"} /\ fs.new.state # "erased"
  BY <1>2, <1>3 DEF WritesAt
<1>8. /\ \A q \in Page : q # p => g[q] = flash[q]
      /\ g[p].tag = flash[p].tag
      /\ g[p].slots[k] = Over(flash[p].slots[k], fs.new)
  BY <1>4, <1>5, <1>6, <1>7, DoneWrote
<1>9. \A s \in 1..Slots : s # k => g[p].slots[s] = flash[p].slots[s]
  <2>1. DoneTo(flash[p], fs) = g[p]
    BY <1>4, <1>5, DoneFacts DEF FlashType
  <2>2. flash[p] \in PageType
    BY <1>4 DEF FlashType
  <2>3. QED BY <1>4, <1>6, <1>7, <2>1, <2>2, DoneToFacts
<1>10. flash[p].tag = "data"
  BY <1>1, <1>4, <1>5 DEF DataTags
<1>11. \A q \in Page : (g[q] = ErasedPage <=> flash[q] = ErasedPage)
  BY <1>8, <1>10, BlankPages
<1>12. \A q \in Page : Home(g, q) <=> Home(flash, q)
  BY <1>8, <1>11 DEF Home
<1>13. Home(g, p)
  BY <1>8, <1>10 DEF Home
<1>14. QED BY <1>2, <1>4, <1>5, <1>6, <1>8, <1>9, <1>12, <1>13

LEMMA FirstKept ==
  ASSUME ShapeInv, Writing, NEW g, QueueKept(g)
  PROVE  /\ OpKept(g, Operation1) /\ Operation1 \in OpType
         /\ Operation1.op \in {"write", "update"}
         /\ Operation1.key \in Key /\ Operation1.id \in Nat /\ Operation1.old \in Nat
         /\ acked[Operation1.key] \in Nat
<1>1. /\ m_op_queue # <<>> /\ m_op_queue \in Seq(OpType)
      /\ Operation1.op \in Writes
  BY DEF Writing, ShapeInv, TypeInv
<1>2. Operation1 = m_op_queue[1] /\ Len(m_op_queue) \in Nat /\ Len(m_op_queue) >= 1
  BY <1>1, QueueFacts DEF Operation1
<1>3. OpKept(g, Operation1)
  BY <1>1, <1>2 DEF QueueKept
<1>4. Operation1 \in OpType /\ Operation1.op \in {"write", "update"}
  BY <1>1, WritingMode DEF Writes
<1>5. Operation1.key \in Key /\ Operation1.id \in Nat /\ Operation1.old \in Nat
  BY <1>3, <1>4 DEF OpKept, OpType
<1>6. acked[Operation1.key] \in Nat
  BY <1>5 DEF ShapeInv, TypeInv
<1>7. QED BY <1>3, <1>4, <1>5, <1>6

LEMMA OwnPlace ==
  ASSUME ShapeInv, RoomFit, Started
  PROVE  \E p \in Page, k \in 1..Slots :
           /\ p = Adr(Operation1.page) /\ k = m_pages[Operation1.page].offset + 1
           /\ \A q, t : Own(q, t) <=> q = p /\ t = k
           /\ \A h : NewSlot(h) = h[p].slots[k]
<1>1. Writing /\ Operation1.page \in DataPages /\ mode = "ready"
  BY WritingMode DEF Started
<1>2. PICK k \in 1..Slots : k = m_pages[Operation1.page].offset + 1
  BY <1>1, WriteHasRoom
<1>3. PICK p \in Page : p = Adr(Operation1.page)
  BY <1>1, DataPageFacts
<1>4. \A q, t : Own(q, t) <=> q = p /\ t = k
  BY <1>2, <1>3 DEF Own
<1>5. \A h : NewSlot(h) = h[p].slots[k]
  BY <1>2, <1>3 DEF NewSlot
<1>6. QED BY <1>2, <1>3, <1>4, <1>5

LEMMA OldPlace ==
  ASSUME ShapeInv, Started, Operation1.op = "update", m_gc.state = "begin",
         DataTags(flash)
  PROVE  \E q \in Page, t \in 1..Slots :
           /\ q = Adr(Operation1.target[1]) /\ t = Operation1.target[2]
           /\ Home(flash, q)
           /\ \A h : OldSlot(h) = h[q].slots[t]
<1>1. /\ Operation1.target[1] \in DataPages /\ Operation1.target[2] \in 1..Slots
      /\ mode = "ready"
  BY WritingMode DEF Started
<1>2. PICK t \in 1..Slots : t = Operation1.target[2]
  BY <1>1
<1>3. PICK q \in Page : q = Adr(Operation1.target[1])
  BY <1>1, DataPageFacts
<1>4. Home(flash, q)
  BY <1>1, <1>3 DEF DataTags, Home
<1>5. \A h : OldSlot(h) = h[q].slots[t]
  BY <1>2, <1>3 DEF OldSlot
<1>6. QED BY <1>2, <1>3, <1>4, <1>5

\* The header: nothing is valid yet.
LEMMA BeginKept ==
  ASSUME ShapeInv, FsInv, AgreeInv, FitInv, Kept, KeptIn(flash, fs), Writing,
         Operation1.step = "finalize", WriteStore("begin"), fs.do \in FlashOp,
         NEW g, g = Done(fs)
  PROVE  KeptIn(g, Call(TRUE))
<1>1. /\ RoomFit /\ PagesFit(flash, fs) /\ FlashKept(flash) /\ IdsKept(flash)
      /\ QueueKept(flash) /\ OwnKept(flash, fs) /\ Started
      /\ m_gc.state = "begin" /\ mode = "ready" /\ DataTags(flash)
  BY KeptMeans, WriteAt DEF FitInv, FitIn, KeptIn, AgreeInv, TagInv
<1>2. PICK p \in Page, k \in 1..Slots :
        /\ p = Adr(Operation1.page) /\ k = m_pages[Operation1.page].offset + 1
        /\ \A q, t : Own(q, t) <=> q = p /\ t = k
        /\ \A h : NewSlot(h) = h[p].slots[k]
  BY <1>1, OwnPlace
<1>3. PICK r : r = [key |-> Operation1.key, id |-> Operation1.id, state |-> "begun"]
  OBVIOUS
<1>4. /\ fs.do = "begin" /\ fs.page = p /\ fs.slot = k /\ fs.new = r
  BY <1>2, <1>3, OpFacts DEF WriteStore
<1>5. flash[p].slots[k] = Empty
  <2>1. Operation1.page \in DataPages /\ m_pages[Operation1.page].offset \in Nat
    BY <1>1, WriteHasRoom
  <2>2. ~Begun(fs, Operation1.page)
    BY <1>4 DEF Begun
  <2>3. Blank(flash[p], m_pages[Operation1.page].offset)
    BY <1>1, <1>2, <2>1, <2>2 DEF PagesFit, DataFit
  <2>4. QED BY <1>2, <2>1, <2>3 DEF Blank
<1>6. /\ \A q \in Page : Home(g, q) <=> Home(flash, q)
      /\ \A q \in Page, s \in 1..Slots :
           q # p \/ s # k => g[q].slots[s] = flash[q].slots[s]
      /\ g[p].slots[k] = r
  <2>1. Over(flash[p].slots[k], r) = r
    BY <1>5 DEF Over
  <2>2. QED BY <1>4, <2>1, WriteAt
<1>7. ~Valid(r) /\ ~Valid(flash[p].slots[k]) /\ New(r, "begun")
  BY <1>3, <1>5, NoRecord DEF Valid, New
<1>8. SameHeld(flash, g)
  BY <1>6, <1>7 DEF SameHeld, Held
<1>9. FlashKept(g) /\ QueueKept(g)
  BY <1>1, <1>8, SameKept
<1>10. IdsKept(g)
  <2>1. \A q \in Page, t \in 1..Slots : Valid(g[q].slots[t]) =>
          g[q].slots[t] = flash[q].slots[t]
    BY <1>6, <1>7
  <2>2. QED BY <1>1, <2>1, IdsStay
<1>11. NewKept(g, Call(TRUE))
  <2>1. NewSlot(g) = r
    BY <1>2, <1>6
  <2>2. LastStep # "finalize"
    BY DEF LastStep
  <2>3. QED BY <1>7, <2>1, <2>2 DEF NewKept
<1>12. OldKept(g, Call(TRUE))
  <2>1. SUFFICES ASSUME Operation1.op = "update"
                 PROVE  /\ OldSlot(g).key = Operation1.key
                        /\ OldSlot(g).id = Operation1.old
                        /\ OldSlot(g).state = "valid"
    BY DEF OldKept
  <2>2. PICK q \in Page, t \in 1..Slots : \A h : OldSlot(h) = h[q].slots[t]
    BY <1>1, <2>1, OldPlace
  <2>3. /\ OldSlot(flash).key = Operation1.key
        /\ OldSlot(flash).id = Operation1.old
        /\ OldSlot(flash).state = "valid"
    BY <1>1, <2>1 DEF OwnKept, OldKept
  <2>4. Valid(flash[q].slots[t])
    BY <2>2, <2>3 DEF Valid
  <2>5. q # p \/ t # k
    BY <1>7, <2>4
  <2>6. QED BY <1>6, <2>2, <2>3, <2>5
<1>13. /\ EraseKept(g, Call(TRUE)) /\ GcKept(g, Call(TRUE))
  BY <1>1 DEF EraseKept, GcKept
<1>14. QED BY <1>9, <1>10, <1>11, <1>12, <1>13 DEF KeptIn, OwnKept

\* The record: it is one more.
LEMMA FinalizeKept ==
  ASSUME ShapeInv, FsInv, AgreeInv, FitInv, Kept, KeptIn(flash, fs), Writing,
         Operation1.step = LastStep, WriteStore("finalize"), fs.do \in FlashOp,
         NEW g, g = Done(fs)
  PROVE  KeptIn(g, Call(TRUE))
<1>1. /\ RoomFit /\ FlashKept(flash) /\ IdsKept(flash)
      /\ QueueKept(flash) /\ OwnKept(flash, fs) /\ Started
      /\ m_gc.state = "begin" /\ mode = "ready" /\ DataTags(flash)
  BY KeptMeans, WriteAt DEF FitInv, FitIn, KeptIn, AgreeInv, TagInv
<1>2. PICK p \in Page, k \in 1..Slots :
        /\ p = Adr(Operation1.page) /\ k = m_pages[Operation1.page].offset + 1
        /\ \A q, t : Own(q, t) <=> q = p /\ t = k
        /\ \A h : NewSlot(h) = h[p].slots[k]
  BY <1>1, OwnPlace
<1>3. PICK r : r = [key |-> Operation1.key, id |-> Operation1.id, state |-> "valid"]
  OBVIOUS
<1>4. /\ fs.do = "finalize" /\ fs.page = p /\ fs.slot = k /\ fs.new = r
  BY <1>2, <1>3, OpFacts DEF WriteStore
<1>5. New(flash[p].slots[k], "begun")
  <2>1. fs # Call(TRUE)
    BY <1>4, CallDoes, FsFacts
  <2>2. QED BY <1>1, <1>2, <2>1 DEF OwnKept, NewKept
<1>6. /\ \A q \in Page : Home(g, q) <=> Home(flash, q)
      /\ Home(g, p)
      /\ \A q \in Page, s \in 1..Slots :
           q # p \/ s # k => g[q].slots[s] = flash[q].slots[s]
      /\ g[p].slots[k] = r
  <2>1. Over(flash[p].slots[k], r) = r
    BY <1>3, <1>5 DEF Over, New, Empty
  <2>2. QED BY <1>4, <2>1, WriteAt
<1>7. Valid(r) /\ ~Valid(flash[p].slots[k]) /\ New(r, "valid")
  BY <1>3, <1>5 DEF Valid, New
<1>8. /\ OpKept(flash, Operation1) /\ Operation1.key \in Key /\ Operation1.id \in Nat
      /\ acked[Operation1.key] \in Nat /\ Operation1.old \in Nat
  BY <1>1, FirstKept
<1>9. \A q \in Page, s \in 1..Slots :
        \/ q = p /\ s = k
        \/ /\ Held(g, q, s) <=> Held(flash, q, s)
           /\ g[q].slots[s] = flash[q].slots[s]
           /\ ~Own(q, s)
  BY <1>2, <1>6 DEF Held
<1>10. \A q \in Page, s \in 1..Slots :
         Held(flash, q, s) => Held(g, q, s) /\ g[q].slots[s] = flash[q].slots[s] /\ ~Own(q, s)
  BY <1>7, <1>9 DEF Held
<1>11. AckedKept(g)
  BY <1>1, <1>10 DEF FlashKept, AckedKept
<1>12. Whole(g)
  <2>1. WholeRecord(r)
    BY <1>3, <1>8 DEF WholeRecord, OpKept
  <2>2. QED BY <1>1, <1>6, <1>9, <2>1 DEF FlashKept, Whole
<1>13. OneKey(g)
  <2>1. \A q \in Page, s \in 1..Slots :
          Held(flash, q, s) => flash[q].slots[s].id # r.id
    BY <1>3, <1>8, <1>10 DEF OpKept, Matches
  <2>2. SUFFICES ASSUME NEW q1 \in Page, NEW q2 \in Page, NEW s \in 1..Slots,
                        NEW t \in 1..Slots, Held(g, q1, s), Held(g, q2, t),
                        g[q1].slots[s].id = g[q2].slots[t].id
                 PROVE  g[q1].slots[s].key = g[q2].slots[t].key
    BY DEF OneKey
  <2>3. CASE Held(flash, q1, s) /\ Held(flash, q2, t)
    <3>1. flash[q1].slots[s].id = flash[q2].slots[t].id
      BY <1>10, <2>2, <2>3
    <3>2. flash[q1].slots[s].key = flash[q2].slots[t].key
      BY <1>1, <2>3, <3>1 DEF FlashKept, OneKey
    <3>3. QED BY <1>10, <2>3, <3>2
  <2>4. CASE ~Held(flash, q1, s)
    <3>1. g[q1].slots[s] = r /\ q1 = p /\ s = k
      BY <1>6, <1>9, <2>2, <2>4
    <3>2. ~Held(flash, q2, t)
      BY <1>10, <2>1, <2>2, <3>1
    <3>3. g[q2].slots[t] = r
      BY <1>6, <1>9, <2>2, <3>2
    <3>4. QED BY <3>1, <3>3
  <2>5. CASE ~Held(flash, q2, t)
    <3>1. g[q2].slots[t] = r /\ q2 = p /\ t = k
      BY <1>6, <1>9, <2>2, <2>5
    <3>2. ~Held(flash, q1, s)
      BY <1>10, <2>1, <2>2, <3>1
    <3>3. g[q1].slots[s] = r
      BY <1>6, <1>9, <2>2, <3>2
    <3>4. QED BY <3>1, <3>3
  <2>6. QED BY <2>3, <2>4, <2>5
<1>14. Single(g)
  <2>1. SUFFICES ASSUME "twins" \notin hit,
                        NEW q1 \in Page, NEW q2 \in Page, NEW s \in 1..Slots,
                        NEW t \in 1..Slots, Held(g, q1, s), Held(g, q2, t),
                        g[q1].slots[s].key = g[q2].slots[t].key,
                        ~Own(q1, s), ~Own(q2, t)
                 PROVE  q1 = q2 /\ s = t
    BY DEF Single
  <2>2. /\ Held(flash, q1, s) /\ g[q1].slots[s] = flash[q1].slots[s]
        /\ Held(flash, q2, t) /\ g[q2].slots[t] = flash[q2].slots[t]
    BY <1>2, <1>9, <2>1
  <2>3. flash[q1].slots[s].key = flash[q2].slots[t].key
    BY <2>1, <2>2
  <2>4. QED BY <1>1, <2>1, <2>2, <2>3 DEF FlashKept, Single
<1>15. QueueKept(g)
  <2>1. \A q \in Page, s \in 1..Slots : Held(g, q, s) /\ ~Own(q, s) =>
          Held(flash, q, s) /\ g[q].slots[s] = flash[q].slots[s]
    BY <1>2, <1>9
  <2>2. ASSUME NEW op, OpKept(flash, op)
        PROVE  OpKept(g, op)
    BY <2>1, <2>2 DEF OpKept
  <2>3. QED BY <1>1, <2>2 DEF QueueKept
<1>16. IdsKept(g)
  <2>1. r.id <= m_latest_rec_id
    BY <1>3, <1>8 DEF OpKept
  <2>2. QED BY <1>1, <1>6, <2>1 DEF IdsKept
<1>17. NewKept(g, Call(TRUE))
  <2>1. NewSlot(g) = r
    BY <1>2, <1>6
  <2>2. LastStep # "finalize"
    BY DEF LastStep
  <2>3. QED BY <1>7, <2>1, <2>2 DEF NewKept
<1>18. OldKept(g, Call(TRUE))
  <2>1. SUFFICES ASSUME Operation1.op = "update"
                 PROVE  /\ OldSlot(g).key = Operation1.key
                        /\ OldSlot(g).id = Operation1.old
                        /\ OldSlot(g).state = "valid"
                        /\ Operation1.step # "done"
    BY DEF OldKept
  <2>2. PICK q \in Page, t \in 1..Slots : \A h : OldSlot(h) = h[q].slots[t]
    BY <1>1, <2>1, OldPlace
  <2>3. Operation1.step = "dirty"
    BY <2>1 DEF LastStep
  <2>4. /\ OldSlot(flash).key = Operation1.key
        /\ OldSlot(flash).id = Operation1.old
        /\ OldSlot(flash).state = "valid"
    BY <1>1, <2>1, <2>3 DEF OwnKept, OldKept
  <2>5. Valid(flash[q].slots[t])
    BY <2>2, <2>4 DEF Valid
  <2>6. q # p \/ t # k
    BY <1>7, <2>5
  <2>7. QED BY <1>6, <2>2, <2>3, <2>4, <2>6
<1>19. /\ EraseKept(g, Call(TRUE)) /\ GcKept(g, Call(TRUE))
  BY <1>1 DEF EraseKept, GcKept
<1>20. QED BY <1>11, <1>12, <1>13, <1>14, <1>15, <1>16, <1>17, <1>18, <1>19
           DEF KeptIn, OwnKept, FlashKept

DirtyStore ==
  fs = Store("dirty", Adr(Operation1.target[1]), Operation1.target[2],
             [SlotAt(Operation1.target) EXCEPT !.state = "dirty"])

\* The record that is replaced: it is one less.
LEMMA DirtyKept ==
  ASSUME ShapeInv, FsInv, AgreeInv, FitInv, Kept, KeptIn(flash, fs), Writing,
         Operation1.op = "update", Operation1.step = "done", DirtyStore,
         NEW g, g = Done(fs)
  PROVE  KeptIn(g, Call(TRUE))
<1>0. fs.do = "dirty" /\ fs.do \in FlashOp
  <2>1. fs.do = "dirty"
    BY OpFacts DEF DirtyStore
  <2>2. QED BY <2>1 DEF FlashOp
<1>1. /\ RoomFit /\ FlashKept(flash) /\ IdsKept(flash)
      /\ QueueKept(flash) /\ OwnKept(flash, fs) /\ Started
      /\ m_gc.state = "begin" /\ mode = "ready" /\ DataTags(flash)
  BY <1>0, KeptMeans, WriteAt DEF FitInv, FitIn, KeptIn, AgreeInv, TagInv
<1>2. PICK p \in Page, k \in 1..Slots :
        /\ p = Adr(Operation1.page) /\ k = m_pages[Operation1.page].offset + 1
        /\ \A q, t : Own(q, t) <=> q = p /\ t = k
        /\ \A h : NewSlot(h) = h[p].slots[k]
  BY <1>1, OwnPlace
<1>3. PICK o \in Page, m \in 1..Slots :
        /\ o = Adr(Operation1.target[1]) /\ m = Operation1.target[2]
        /\ Home(flash, o) /\ \A h : OldSlot(h) = h[o].slots[m]
  BY <1>1, OldPlace
<1>4. PICK old : old = flash[o].slots[m]
  OBVIOUS
<1>5. /\ old.key = Operation1.key /\ old.id = Operation1.old /\ old.state = "valid"
      /\ New(flash[p].slots[k], "valid")
  <2>1. fs # Call(TRUE)
    BY <1>0, CallDoes, FsFacts
  <2>2. QED BY <1>1, <1>2, <1>3, <1>4, <2>1 DEF OwnKept, OldKept, NewKept
<1>6. /\ OpKept(flash, Operation1) /\ Operation1.key \in Key /\ Operation1.id \in Nat
      /\ acked[Operation1.key] \in Nat /\ Operation1.old \in Nat
  BY <1>1, FirstKept
<1>7. o # p \/ m # k
  <2>1. flash[p].slots[k].id = Operation1.id
    BY <1>5 DEF New
  <2>2. Operation1.old < Operation1.id
    BY <1>6 DEF OpKept
  <2>3. QED BY <1>4, <1>5, <1>6, <2>1, <2>2
<1>8. old \in SlotType
  BY <1>3, <1>4 DEF ShapeInv, TypeInv, FlashType, PageType
<1>9. PICK r : r = [old EXCEPT !.state = "dirty"]
  OBVIOUS
<1>10. /\ fs.page = o /\ fs.slot = m /\ fs.new = r
       /\ r.key = old.key /\ r.id = old.id /\ r.state = "dirty"
  <2>1. SlotAt(Operation1.target) = old
    BY <1>3, <1>4 DEF SlotAt, Adr
  <2>2. fs = Store("dirty", o, m, r)
    BY <1>3, <1>9, <2>1 DEF DirtyStore
  <2>3. fs.page = o /\ fs.slot = m /\ fs.new = r
    BY <2>2, OpFacts
  <2>4. QED BY <1>8, <1>9, <2>3 DEF SlotType
<1>11. /\ \A q \in Page : Home(g, q) <=> Home(flash, q)
       /\ \A q \in Page, s \in 1..Slots :
            q # o \/ s # m => g[q].slots[s] = flash[q].slots[s]
       /\ g[o].slots[m] = r
  <2>1. Over(old, r) = r
    BY <1>5, <1>10 DEF Over, Empty
  <2>2. QED BY <1>0, <1>4, <1>10, <2>1, WriteAt
<1>12. \A q \in Page, s \in 1..Slots :
         /\ Held(g, q, s) <=> Held(flash, q, s) /\ (q # o \/ s # m)
         /\ Held(g, q, s) => g[q].slots[s] = flash[q].slots[s]
  <2>1. ~Valid(r)
    BY <1>10 DEF Valid
  <2>2. QED BY <1>11, <2>1 DEF Held
<1>13. Held(g, p, k) /\ New(g[p].slots[k], "valid") /\ g[p].slots[k] = flash[p].slots[k]
  <2>1. Home(flash, p)
    <3>1. Operation1.page \in DataPages
      BY <1>1, WritingMode
    <3>2. QED BY <1>1, <1>2, <3>1 DEF DataTags, Home
  <2>2. QED BY <1>5, <1>7, <1>11, <2>1 DEF Held, New, Valid
<1>14. AckedKept(g)
  <2>1. SUFFICES ASSUME NEW key \in Key, acked[key] # 0
                 PROVE  \E q \in Page, s \in 1..Slots :
                          /\ Held(g, q, s) /\ g[q].slots[s].key = key
                          /\ g[q].slots[s].id >= acked[key]
    BY DEF AckedKept
  <2>2. CASE key = Operation1.key
    <3>1. g[p].slots[k].key = key /\ g[p].slots[k].id >= acked[key]
      BY <1>6, <1>13, <2>2 DEF New, OpKept
    <3>2. QED BY <1>13, <3>1
  <2>3. CASE key # Operation1.key
    <3>1. PICK q \in Page, s \in 1..Slots :
            /\ Held(flash, q, s) /\ flash[q].slots[s].key = key
            /\ flash[q].slots[s].id >= acked[key]
      BY <1>1, <2>1 DEF FlashKept, AckedKept
    <3>2. q # o \/ s # m
      BY <1>4, <1>5, <2>3, <3>1
    <3>3. QED BY <1>12, <3>1, <3>2
  <2>4. QED BY <2>2, <2>3
<1>15. Whole(g)
  BY <1>1, <1>12 DEF FlashKept, Whole
<1>16. OneKey(g) /\ Single(g)
  <2>1. OneKey(g)
    <3>1. SUFFICES ASSUME NEW q1 \in Page, NEW q2 \in Page, NEW s \in 1..Slots,
                          NEW t \in 1..Slots, Held(g, q1, s), Held(g, q2, t),
                          g[q1].slots[s].id = g[q2].slots[t].id
                   PROVE  g[q1].slots[s].key = g[q2].slots[t].key
      BY DEF OneKey
    <3>2. /\ Held(flash, q1, s) /\ g[q1].slots[s] = flash[q1].slots[s]
          /\ Held(flash, q2, t) /\ g[q2].slots[t] = flash[q2].slots[t]
      BY <1>12, <3>1
    <3>3. flash[q1].slots[s].id = flash[q2].slots[t].id
      BY <3>1, <3>2
    <3>4. flash[q1].slots[s].key = flash[q2].slots[t].key
      BY <1>1, <3>2, <3>3 DEF FlashKept, OneKey
    <3>5. QED BY <3>2, <3>4
  <2>2. Single(g)
    BY <1>1, <1>12 DEF FlashKept, Single
  <2>3. QED BY <2>1, <2>2
<1>17. QueueKept(g)
  <2>1. ASSUME NEW op, OpKept(flash, op)
        PROVE  OpKept(g, op)
    BY <1>12, <2>1 DEF OpKept
  <2>2. QED BY <1>1, <2>1 DEF QueueKept
<1>18. IdsKept(g)
  <2>1. \A q \in Page, t \in 1..Slots : Valid(g[q].slots[t]) =>
          g[q].slots[t] = flash[q].slots[t]
    BY <1>10, <1>11 DEF Valid
  <2>2. QED BY <1>1, <2>1, IdsStay
<1>19. NewKept(g, Call(TRUE))
  <2>1. New(NewSlot(g), "valid")
    BY <1>2, <1>13
  <2>2. Operation1.step # "finalize" /\ LastStep # Operation1.step
    BY DEF LastStep
  <2>3. QED BY <2>1, <2>2 DEF NewKept
<1>20. OldKept(g, Call(TRUE))
  <2>1. OldSlot(g) = r
    BY <1>3, <1>11
  <2>2. ASSUME "twins" \notin hit, NEW q \in Page, NEW s \in 1..Slots, Held(g, q, s),
               g[q].slots[s].key = Operation1.key, ~Own(q, s)
        PROVE  FALSE
    <3>1. Held(flash, q, s) /\ flash[q].slots[s].key = Operation1.key
      BY <1>12, <2>2
    <3>2. Held(flash, o, m) /\ flash[o].slots[m].key = Operation1.key
      BY <1>3, <1>4, <1>5 DEF Held, Valid
    <3>3. ~Own(o, m)
      BY <1>2, <1>7
    <3>4. q = o /\ s = m
      <4>1. flash[q].slots[s].key = flash[o].slots[m].key
        BY <3>1, <3>2
      <4>2. QED BY <1>1, <2>2, <3>1, <3>2, <3>3, <4>1 DEF FlashKept, Single
    <3>5. QED BY <1>12, <2>2, <3>4
  <2>3. QED BY <1>5, <1>10, <2>1, <2>2 DEF OldKept
<1>21. /\ EraseKept(g, Call(TRUE)) /\ GcKept(g, Call(TRUE))
  BY <1>1 DEF EraseKept, GcKept
<1>22. QED BY <1>14, <1>15, <1>16, <1>17, <1>18, <1>19, <1>20, <1>21
           DEF KeptIn, OwnKept, FlashKept

LEMMA WriteKeptDone ==
  ASSUME ShapeInv, FsInv, AgreeInv, FitInv, Kept, KeptIn(flash, fs), Writing,
         fs.do \in FlashOp, NEW g, g = Done(fs)
  PROVE  KeptIn(g, Call(TRUE))
<1>1. fs # Call(TRUE) /\ fs # Call(FALSE)
  BY FsFacts DEF FlashOp
<1>2. \/ Operation1.step = "finalize" /\ WriteStore("begin")
      \/ Operation1.step = LastStep /\ WriteStore("finalize")
      \/ Operation1.op = "update" /\ Operation1.step = "done" /\ DirtyStore
  BY <1>1 DEF FsInv, WriteFs, LastStep, DirtyStore
<1>3. QED BY <1>2, BeginKept, FinalizeKept, DirtyKept

LEMMA NotStarted ==
  ASSUME Collecting
  PROVE  ~Writing /\ ~Started /\ \A p, s : ~Own(p, s)
BY DEF Collecting, Writing, Writes, Started, Own

\* While records are copied, what is on the swap page is not looked for.
LEMMA CopyHolds ==
  ASSUME ShapeInv, FsInv, ResumeInv, SwapInv, AgreeInv, FitInv, Kept, mode = "ready",
         m_gc.state = "copy", NEW g,
         \A q \in Page : q # Swap => g[q] = flash[q], g[Swap].tag = flash[Swap].tag
  PROVE  SameHeld(flash, g)
<1>1. SwapTag(Swap) /\ Swap \in Page
  BY KeptMeans, SwapIsReady DEF SwapReady
<1>2. \A q \in Page : flash[q] # ErasedPage
  BY ReadyHomes
<1>3. \A q \in Page : g[q] # ErasedPage
  BY <1>1, <1>2, BlankPages DEF SwapTag
<1>4. ~Home(flash, Swap) /\ ~Home(g, Swap)
  BY <1>1, <1>2, <1>3 DEF Home, SwapTag
<1>5. \A q \in Page : q # Swap => (Home(g, q) <=> Home(flash, q))
  BY <1>2, <1>3 DEF Home
<1>6. QED BY <1>4, <1>5 DEF SameHeld, Held

LEMMA CopyKeptDone ==
  ASSUME ShapeInv, FsInv, ResumeInv, SwapInv, AgreeInv, FitInv, Kept,
         KeptIn(flash, fs), Collecting, m_gc.state = "copy", fs = GcOp,
         fs \in FlashOpType, NEW g, g = Done(fs)
  PROVE  KeptIn(g, Call(TRUE))
<1>1. /\ mode = "ready" /\ ~Started /\ FlashKept(flash) /\ IdsKept(flash)
      /\ QueueKept(flash) /\ CopyKept(flash, fs) /\ RoomFit
      /\ Cur \in DataPages /\ Adr(Cur) \in Page /\ Swap \in Page /\ Adr(Cur) # Swap
      /\ flash \in FlashType
  BY KeptMeans, NotStarted, GcOpFacts DEF KeptIn, GcKept, FitInv, ShapeInv, TypeInv
<1>2. PICK k \in 1..Slots : k = m_swap_page.offset + 1 /\ m_swap_page.offset \in Nat
  <2>1. m_swap_page.offset \in Nat /\ m_gc.src \in 1..Slots
    BY DEF ShapeInv, TypeInv, SwapType, GcInv
  <2>2. m_swap_page.offset < m_gc.src
    BY <1>1 DEF RoomFit
  <2>3. m_swap_page.offset + 1 \in 1..Slots
    BY <2>1, <2>2, Constants
  <2>4. QED BY <2>1, <2>3
<1>3. PICK c : c = Copied(flash)
  OBVIOUS
<1>4. /\ fs.do = "copy" /\ fs.page = Swap /\ fs.slot = k /\ fs.new = c
  BY <1>2, <1>3, CopyOp DEF Copied
<1>5. Valid(c) /\ (flash[Swap].slots[k] = Empty \/ flash[Swap].slots[k] = c)
  BY <1>1, <1>2, <1>3 DEF CopyKept, CopyPlace
<1>6. c.state # "erased" /\ c # Empty /\ c.state # "dirty"
  BY <1>5, NoRecord DEF Valid
<1>7. /\ \A q \in Page : q # Swap => g[q] = flash[q]
      /\ g[Swap].tag = flash[Swap].tag
      /\ g[Swap].slots[k] = c
      /\ \A s \in 1..Slots : s # k => g[Swap].slots[s] = flash[Swap].slots[s]
  <2>1. fs.do \notin {"erase", "tag"} /\ fs.new.state # "erased"
    BY <1>4, <1>6
  <2>2. /\ \A q \in Page : q # Swap => g[q] = flash[q]
        /\ g[Swap].tag = flash[Swap].tag
        /\ g[Swap].slots[k] = Over(flash[Swap].slots[k], c)
    BY <1>1, <1>2, <1>4, <2>1, DoneWrote
  <2>3. Over(flash[Swap].slots[k], c) = c
    BY <1>5, <1>6 DEF Over
  <2>4. DoneTo(flash[Swap], fs) = g[Swap] /\ flash[Swap] \in PageType
    BY <1>1, <1>4, DoneFacts DEF FlashType
  <2>5. \A s \in 1..Slots : s # k => g[Swap].slots[s] = flash[Swap].slots[s]
    BY <1>4, <2>1, <2>4, DoneToFacts
  <2>6. QED BY <2>2, <2>3, <2>5
<1>8. SameHeld(flash, g)
  BY <1>1, <1>7, CopyHolds
<1>9. FlashKept(g) /\ QueueKept(g)
  BY <1>1, <1>8, SameKept
<1>10. IdsKept(g)
  <2>1. c = flash[Adr(Cur)].slots[m_gc.src] /\ m_gc.src \in 1..Slots
    BY <1>3 DEF Copied, ShapeInv, GcInv
  <2>2. SUFFICES ASSUME NEW q \in Page, NEW t \in 1..Slots, Valid(g[q].slots[t])
                 PROVE  \E p \in Page, s \in 1..Slots :
                          /\ Valid(flash[p].slots[s])
                          /\ flash[p].slots[s].id = g[q].slots[t].id
    BY <1>1, IdsStay
  <2>3. CASE q = Swap /\ t = k
    BY <1>1, <1>5, <1>7, <2>1, <2>3
  <2>4. CASE q # Swap \/ t # k
    <3>1. g[q].slots[t] = flash[q].slots[t]
      BY <1>7, <2>4
    <3>2. QED BY <2>2, <3>1
  <2>5. QED BY <2>3, <2>4
<1>11. CopyKept(g, Call(TRUE))
  <2>1. g[Adr(Cur)] = flash[Adr(Cur)]
    BY <1>1, <1>7
  <2>2. Copied(g) = c /\ CopyPlace(g) = c
    BY <1>2, <1>3, <1>7, <2>1 DEF Copied, CopyPlace
  <2>3. Copies(flash, m_gc.src, m_swap_page.offset)
    BY <1>1 DEF CopyKept
  <2>4. \A t \in 1..Slots : t <= m_swap_page.offset =>
          g[Swap].slots[t] = flash[Swap].slots[t]
    <3>1. \A t \in 1..Slots : t <= m_swap_page.offset => t # k
      BY <1>2
    <3>2. QED BY <1>7, <3>1
  <2>5. CopiesFrom(g, m_gc.src, m_swap_page.offset)
    BY <2>1, <2>3, <2>4 DEF Copies, CopiesFrom
  <2>6. CopiesTo(g, m_gc.src, m_swap_page.offset)
    BY <2>1, <2>3, <2>4 DEF Copies, CopiesTo
  <2>7. CopiedOnce(g, m_swap_page.offset)
    BY <2>3, <2>4 DEF Copies, CopiedOnce
  <2>8. QED BY <1>5, <2>2, <2>5, <2>6, <2>7 DEF CopyKept, Copies
<1>12. /\ EraseKept(g, Call(TRUE)) /\ GcKept(g, Call(TRUE)) /\ OwnKept(g, Call(TRUE))
  BY <1>1, <1>11 DEF EraseKept, GcKept, OwnKept
<1>13. QED BY <1>9, <1>10, <1>12 DEF KeptIn

\* The page is erased: the copies of its records take their place.
LEMMA EraseKeptDone ==
  ASSUME ShapeInv, FsInv, ResumeInv, SwapInv, AgreeInv, FitInv, Kept,
         KeptIn(flash, fs), Collecting, m_gc.state = "erase", fs = GcOp,
         fs \in FlashOpType, NEW g, g = Done(fs)
  PROVE  KeptIn(g, Call(TRUE))
<1>1. /\ mode = "ready" /\ ~Started /\ FlashKept(flash) /\ IdsKept(flash)
      /\ QueueKept(flash) /\ \A p, s : ~Own(p, s)
      /\ flash[Adr(Cur)] # ErasedPage => Copies(flash, Slots + 1, Slots)
      /\ Cur \in DataPages /\ Adr(Cur) \in Page /\ Swap \in Page /\ Adr(Cur) # Swap
      /\ flash \in FlashType /\ fs = Erase(Adr(Cur))
  BY KeptMeans, NotStarted, GcOpFacts DEF KeptIn, GcKept, ShapeInv, TypeInv
<1>2. PICK c \in Page : c = Adr(Cur)
  BY <1>1
<1>3. fs.do = "erase" /\ fs.page = c
  BY <1>1, <1>2, OpFacts
<1>4. (\A q \in Page : q # c => g[q] = flash[q]) /\ g[c] = ErasedPage
  BY <1>1, <1>3, TagOrErase
<1>5. SwapTag(Swap) /\ \A p \in Page : SwapTag(p) => p = Swap
  BY <1>1, KeptMeans, SwapIsReady DEF SwapReady
<1>6. IdsKept(g)
  BY <1>1, <1>3, TagEraseIds
<1>7. /\ EraseKept(g, Call(TRUE)) /\ GcKept(g, Call(TRUE)) /\ OwnKept(g, Call(TRUE))
  BY <1>1, <1>2, <1>4 DEF EraseKept, GcKept, OwnKept
<1>8. CASE flash[c] = ErasedPage
  <2>1. \A q \in Page : g[q] = flash[q]
    BY <1>4, <1>8
  <2>2. SameHeld(flash, g)
    BY <2>1 DEF SameHeld, Held, Home
  <2>3. QED BY <1>1, <1>6, <1>7, <2>2, SameKept DEF KeptIn
<1>9. CASE flash[c] # ErasedPage
  <2>1. Copies(flash, Slots + 1, Slots)
    BY <1>1, <1>2, <1>9
  <2>2. \A q \in Page : flash[q] # ErasedPage
    BY <1>1, <1>2, <1>9, ReadyHomes
  <2>3. Home(flash, c) /\ ~Home(flash, Swap)
    BY <1>1, <1>2, <1>5, <1>9, <2>2, ReadyHomes DEF Home, SwapTag
  <2>4. Home(g, Swap) /\ ~Home(g, c) /\ c # Swap
    BY <1>1, <1>2, <1>4, <1>5, BlankPages DEF Home, SwapTag
  <2>5. \A q \in Page : q # c /\ q # Swap => (Home(g, q) <=> Home(flash, q))
    BY <1>4, <1>5, <2>2 DEF Home, SwapTag
  <2>6. \A q \in Page, s \in 1..Slots :
          q # c /\ q # Swap =>
            (Held(g, q, s) <=> Held(flash, q, s)) /\ g[q].slots[s] = flash[q].slots[s]
    BY <1>4, <2>5 DEF Held
  <2>7. \A s \in 1..Slots :
          /\ ~Held(g, c, s) /\ ~Held(flash, Swap, s)
          /\ Held(g, Swap, s) <=> Valid(flash[Swap].slots[s])
          /\ Held(flash, c, s) <=> Valid(flash[c].slots[s])
          /\ g[Swap].slots[s] = flash[Swap].slots[s]
    BY <1>1, <1>4, <2>3, <2>4 DEF Held
  <2>8. /\ \A t \in 1..Slots : Valid(flash[Swap].slots[t]) =>
             \E s \in 1..Slots : flash[c].slots[s] = flash[Swap].slots[t]
        /\ \A s \in 1..Slots : Valid(flash[c].slots[s]) =>
             \E t \in 1..Slots : flash[Swap].slots[t] = flash[c].slots[s]
        /\ "twins" \notin hit =>
             \A t, u \in 1..Slots :
               /\ Valid(flash[Swap].slots[t]) /\ Valid(flash[Swap].slots[u])
               /\ flash[Swap].slots[t].key = flash[Swap].slots[u].key
               => t = u
    BY <1>2, <2>1, Constants DEF Copies, CopiesFrom, CopiesTo, CopiedOnce
  <2>9. HeldIn(flash, g)
    <3>1. SUFFICES ASSUME NEW p \in Page, NEW s \in 1..Slots, Held(flash, p, s)
                   PROVE  \E q \in Page, t \in 1..Slots :
                            Held(g, q, t) /\ g[q].slots[t] = flash[p].slots[s]
      BY DEF HeldIn
    <3>2. CASE p = c
      <4>1. PICK t \in 1..Slots : flash[Swap].slots[t] = flash[c].slots[s]
        BY <2>7, <2>8, <3>1, <3>2
      <4>2. Held(g, Swap, t) /\ g[Swap].slots[t] = flash[p].slots[s]
        BY <2>7, <3>1, <3>2, <4>1
      <4>3. QED BY <1>1, <4>2
    <3>3. CASE p # c
      BY <2>6, <2>7, <3>1, <3>3
    <3>4. QED BY <3>2, <3>3
  <2>10. HeldIn(g, flash)
    <3>1. SUFFICES ASSUME NEW p \in Page, NEW s \in 1..Slots, Held(g, p, s)
                   PROVE  \E q \in Page, t \in 1..Slots :
                            Held(flash, q, t) /\ flash[q].slots[t] = g[p].slots[s]
      BY DEF HeldIn
    <3>2. CASE p = Swap
      <4>1. PICK t \in 1..Slots : flash[c].slots[t] = flash[Swap].slots[s]
        BY <2>7, <2>8, <3>1, <3>2
      <4>2. Held(flash, c, t) /\ flash[c].slots[t] = g[p].slots[s]
        BY <2>7, <3>1, <3>2, <4>1
      <4>3. QED BY <4>2
    <3>3. CASE p # Swap
      BY <2>6, <2>7, <3>1, <3>3
    <3>4. QED BY <3>2, <3>3
  <2>11. AckedKept(g) /\ Whole(g) /\ OneKey(g) /\ QueueKept(g)
    BY <1>1, <2>9, <2>10, MovedKept, MovedQueue DEF FlashKept
  <2>12. Single(g)
    <3>1. SUFFICES ASSUME "twins" \notin hit, NEW p \in Page, NEW q \in Page,
                          NEW s \in 1..Slots, NEW t \in 1..Slots,
                          Held(g, p, s), Held(g, q, t),
                          g[p].slots[s].key = g[q].slots[t].key
                   PROVE  p = q /\ s = t
      BY DEF Single
    <3>2. \A p1, q1 \in Page, s1, t1 \in 1..Slots :
            Held(flash, p1, s1) /\ Held(flash, q1, t1)
              /\ flash[p1].slots[s1].key = flash[q1].slots[t1].key
            => p1 = q1 /\ s1 = t1
      BY <1>1, <3>1 DEF FlashKept, Single
    <3>3. CASE p # Swap /\ q # Swap
      <4>1. /\ Held(flash, p, s) /\ g[p].slots[s] = flash[p].slots[s]
            /\ Held(flash, q, t) /\ g[q].slots[t] = flash[q].slots[t]
        BY <2>6, <2>7, <3>1, <3>3
      <4>2. flash[p].slots[s].key = flash[q].slots[t].key
        BY <3>1, <4>1
      <4>3. QED BY <3>2, <4>1, <4>2
    <3>4. CASE p = Swap /\ q = Swap
      BY <2>7, <2>8, <3>1, <3>4
    <3>5. ASSUME NEW b \in Page, NEW n \in 1..Slots, NEW m \in 1..Slots,
                 Held(g, b, n), Held(g, Swap, m), b # Swap,
                 g[b].slots[n].key = g[Swap].slots[m].key
          PROVE  FALSE
      <4>1. /\ Held(flash, b, n) /\ g[b].slots[n] = flash[b].slots[n] /\ b # c
        BY <2>6, <2>7, <3>5
      <4>2. PICK u \in 1..Slots : flash[c].slots[u] = flash[Swap].slots[m]
        BY <2>7, <2>8, <3>5
      <4>3. Held(flash, c, u) /\ flash[b].slots[n].key = flash[c].slots[u].key
        BY <2>7, <3>5, <4>1, <4>2
      <4>4. QED BY <3>2, <4>1, <4>3
    <3>6. CASE p = Swap /\ q # Swap
      BY <3>1, <3>5, <3>6
    <3>7. CASE p # Swap /\ q = Swap
      BY <3>1, <3>5, <3>7
    <3>8. QED BY <3>3, <3>4, <3>6, <3>7
  <2>13. QED BY <1>6, <1>7, <2>11, <2>12 DEF KeptIn, FlashKept
<1>10. QED BY <1>8, <1>9

\* The other steps of a collection leave the records where they are.
LEMMA RestKeptDone ==
  ASSUME ShapeInv, FsInv, ResumeInv, SwapInv, AgreeInv, FitInv, Kept,
         KeptIn(flash, fs), Collecting, m_gc.state \in {"discard", "promote", "tag"},
         fs = GcOp, fs \in FlashOpType, NEW g, g = Done(fs)
  PROVE  KeptIn(g, Call(TRUE))
<1>1. /\ mode = "ready" /\ ~Started /\ FlashKept(flash) /\ IdsKept(flash)
      /\ QueueKept(flash) /\ Swap \in Page /\ flash \in FlashType
      /\ m_gc.state = "discard" => fs = Erase(Swap)
      /\ m_gc.state = "promote" => fs = Tag(Adr(Cur), "data")
      /\ m_gc.state = "tag" => fs = Tag(Swap, "swap")
  BY NotStarted, GcOpFacts DEF KeptIn, ShapeInv, TypeInv
<1>2. fs.do \in {"erase", "tag"} /\ (m_gc.state # "discard" => fs.do = "tag")
  BY <1>1, OpFacts
<1>3. SameHeld(flash, g)
  <2>1. CASE m_gc.state # "discard"
    BY <1>2, <2>1, TagDone
  <2>2. CASE m_gc.state = "discard"
    <3>1. fs.do = "erase" /\ fs.page = Swap
      BY <1>1, <2>2, OpFacts
    <3>2. /\ \A q \in Page : q # Swap => g[q] = flash[q]
          /\ g[Swap] = ErasedPage
      BY <1>1, <3>1, DoneTags
    <3>3. /\ SwapTag(Swap) \/ flash[Swap] = ErasedPage
          /\ \A q \in Page : SwapTag(q) => q = Swap
      BY <1>1, <2>2, KeptMeans, SwapIsReady DEF SwapReady, IsErased
    <3>4. \A q \in Page : flash[q] = ErasedPage => q = Swap
      BY <1>1, <2>2, ReadyHomes
    <3>5. flash[Swap] # ErasedPage => \A q \in Page : flash[q] # ErasedPage
      BY <3>4
    <3>6. QED BY <1>1, <3>2, <3>3, <3>5, SwapErased DEF SwapTag
  <2>3. QED BY <2>1, <2>2
<1>4. FlashKept(g) /\ QueueKept(g)
  BY <1>1, <1>3, SameKept
<1>5. IdsKept(g)
  BY <1>1, <1>2, TagEraseIds
<1>6. /\ EraseKept(g, Call(TRUE)) /\ GcKept(g, Call(TRUE)) /\ OwnKept(g, Call(TRUE))
  BY <1>1 DEF EraseKept, GcKept, OwnKept
<1>7. QED BY <1>4, <1>5, <1>6 DEF KeptIn

LEMMA KeptDone ==
  ASSUME ShapeInv, FsInv, ResumeInv, SwapInv, AgreeInv, FitInv, Kept,
         KeptIn(flash, fs), fs.do \in FlashOp, NEW g, g = Done(fs)
  PROVE  KeptIn(g, Call(TRUE))
<1>1. /\ fs \in FlashOpType
      /\ mode = "init" \/ Writing \/ (Collecting /\ m_gc.state # "begin" /\ fs = GcOp)
  BY FsUnderWay
<1>2. CASE mode = "init"
  BY <1>2, InitKeptDone
<1>3. CASE Writing
  BY <1>3, WriteKeptDone
<1>4. CASE Collecting /\ m_gc.state # "begin" /\ fs = GcOp
  <2>1. m_gc.state \in {"copy", "erase", "discard", "promote", "tag"}
    BY <1>4, GcOpFacts
  <2>2. QED BY <1>1, <1>4, <2>1, CopyKeptDone, EraseKeptDone, RestKeptDone
<1>5. QED BY <1>1, <1>2, <1>3, <1>4

LEMMA KeptFailed ==
  ASSUME KeptIn(flash, fs), fs.do \in FlashOp
  PROVE  KeptIn(flash, Call(FALSE))
<1>1. /\ FlashKept(flash) /\ IdsKept(flash) /\ QueueKept(flash) /\ EraseKept(flash, fs)
      /\ OwnKept(flash, fs) /\ GcKept(flash, fs)
  BY DEF KeptIn
<1>2. fs # Call(TRUE) /\ Call(FALSE) # Call(TRUE) /\ Call(FALSE) # Erase(Swap)
  BY CallDoes, OpFacts, FsFacts DEF FlashOp
<1>3. EraseKept(flash, Call(FALSE))
  BY <1>1, <1>2 DEF EraseKept
<1>4. OwnKept(flash, Call(FALSE))
  <2>1. NewKept(flash, fs) => NewKept(flash, Call(FALSE))
    BY <1>2 DEF NewKept
  <2>2. OldKept(flash, fs) => OldKept(flash, Call(FALSE))
    BY <1>2 DEF OldKept
  <2>3. QED BY <1>1, <2>1, <2>2 DEF OwnKept
<1>5. GcKept(flash, Call(FALSE))
  <2>1. CopyKept(flash, fs) => CopyKept(flash, Call(FALSE))
    BY <1>2 DEF CopyKept
  <2>2. QED BY <1>1, <2>1 DEF GcKept
<1>6. QED BY <1>1, <1>3, <1>4, <1>5 DEF KeptIn

\* What is kept is not the next flash's business alone: the pages in RAM and the
\* queue are the same.
LEMMA SameRamKept ==
  ASSUME UNCHANGED <<mode, ramVars, acked, hit>>, NEW g, g = flash', NEW f, f = fs',
         KeptIn(g, f)
  PROVE  KeptIn(flash, fs)'
<1>1. /\ mode' = mode /\ m_pages' = m_pages /\ m_swap_page' = m_swap_page
      /\ m_gc' = m_gc /\ m_op_queue' = m_op_queue /\ acked' = acked /\ hit' = hit
      /\ m_latest_rec_id' = m_latest_rec_id
  BY DEF ramVars
<1>2. /\ Operation1' = Operation1 /\ Swap' = Swap /\ Cur' = Cur
      /\ \A i : Adr(i)' = Adr(i)
  BY <1>1 DEF Operation1, Swap, Cur, Adr
<1>3. (Writing' <=> Writing) /\ (Collecting' <=> Collecting)
  BY <1>1, <1>2 DEF Writing, Collecting
<1>4. /\ Started' <=> Started
      /\ \A p, s : Own(p, s)' <=> Own(p, s)
      /\ \A p, s : Held(flash, p, s)' <=> Held(g, p, s)
  BY <1>1, <1>2, <1>3 DEF Started, Own, Held, Home
<1>5. FlashKept(flash)'
  <2>1. AckedKept(flash)'
    BY <1>1, <1>4 DEF KeptIn, FlashKept, AckedKept
  <2>2. Whole(flash)'
    <3>1. \A r : WholeRecord(r)' <=> WholeRecord(r)
      BY <1>1 DEF WholeRecord
    <3>2. QED BY <1>4, <3>1 DEF KeptIn, FlashKept, Whole
  <2>3. OneKey(flash)'
    BY <1>4 DEF KeptIn, FlashKept, OneKey
  <2>4. Single(flash)'
    BY <1>1, <1>4 DEF KeptIn, FlashKept, Single
  <2>5. QED BY <2>1, <2>2, <2>3, <2>4 DEF FlashKept
<1>6. EraseKept(flash, fs)' /\ IdsKept(flash)'
  BY <1>1, <1>2 DEF KeptIn, EraseKept, IdsKept
<1>7. QueueKept(flash)'
  <2>1. \A op, r : Matches(op, r)' <=> Matches(op, r)
    BY <1>1 DEF Matches
  <2>2. \A op : OpKept(g, op) => OpKept(flash, op)'
    BY <1>1, <1>4, <2>1 DEF OpKept
  <2>3. QED BY <1>1, <2>2 DEF KeptIn, QueueKept
<1>8. OwnKept(flash, fs)'
  <2>1. /\ NewSlot(flash)' = NewSlot(g) /\ OldSlot(flash)' = OldSlot(g)
        /\ LastStep' = LastStep
        /\ \A r, state : New(r, state)' <=> New(r, state)
    BY <1>1, <1>2 DEF NewSlot, OldSlot, LastStep, New
  <2>2. NewKept(g, f) => NewKept(flash, fs)'
    BY <1>2, <2>1 DEF NewKept
  <2>3. OldKept(g, f) => OldKept(flash, fs)'
    BY <1>1, <1>2, <1>4, <2>1 DEF OldKept
  <2>4. QED BY <1>4, <2>2, <2>3 DEF KeptIn, OwnKept
<1>9. GcKept(flash, fs)'
  <2>1. \A n, m : Copies(g, n, m) => Copies(flash, n, m)'
    BY <1>1, <1>2 DEF Copies, CopiesFrom, CopiesTo, CopiedOnce
  <2>2. CopyPlace(flash)' = CopyPlace(g) /\ Copied(flash)' = Copied(g)
    BY <1>1, <1>2 DEF CopyPlace, Copied
  <2>3. CopyKept(g, f) => CopyKept(flash, fs)'
    BY <1>1, <1>3, <2>1, <2>2 DEF CopyKept
  <2>4. QED BY <1>1, <1>2, <2>1, <2>3 DEF KeptIn, GcKept
<1>10. QED BY <1>5, <1>6, <1>7, <1>8, <1>9 DEF KeptIn

LEMMA FlashKeeps ==
  ASSUME ShapeInv, FsInv, ResumeInv, SwapInv, AgreeInv, FitInv, KeptInv,
         FlashEnds \/ FlashFails
  PROVE  KeptInv'
<1>1. SUFFICES ASSUME Kept'
               PROVE  KeptIn(flash, fs)'
  BY DEF KeptInv
<1>2. UNCHANGED <<mode, ramVars, acked, hit>> /\ fs.do \in FlashOp
  BY DEF FlashEnds, FlashFails
<1>3. Kept
  BY <1>1, <1>2 DEF Kept, Unhurt
<1>4. KeptIn(flash, fs)
  BY <1>3 DEF KeptInv
<1>5. CASE FlashEnds
  <2>1. PICK g : g = flash' /\ g = Done(fs)
    BY <1>5 DEF FlashEnds
  <2>2. PICK f : f = fs' /\ f = Call(TRUE)
    BY <1>5 DEF FlashEnds
  <2>3. KeptIn(g, f)
    BY <1>2, <1>3, <1>4, <2>1, <2>2, KeptDone
  <2>4. QED BY <1>2, <2>1, <2>2, <2>3, SameRamKept
<1>6. CASE FlashFails
  <2>1. PICK g : g = flash' /\ g = flash
    BY <1>6 DEF FlashFails
  <2>2. PICK f : f = fs' /\ f = Call(FALSE)
    BY <1>6 DEF FlashFails
  <2>3. KeptIn(g, f)
    BY <1>2, <1>4, <2>1, <2>2, KeptFailed
  <2>4. QED BY <1>2, <2>1, <2>2, <2>3, SameRamKept
<1>7. QED BY <1>5, <1>6

\* A part of an operation leaves the records where they are.
LEMMA PartlyHolds ==
  ASSUME ShapeInv, FsInv, ResumeInv, SwapInv, AgreeInv, FitInv, Kept,
         fs \in FlashOpType, NEW g \in PartlyDone(fs)
  PROVE  SameHeld(flash, g) /\ fs.do \in {"copy", "tag"}
<1>1. PICK p \in Page : p = fs.page
  BY FlashOpCases
<1>2. flash \in FlashType
  BY DEF ShapeInv, TypeInv
<1>3. \A q \in Page : q # p => g[q] = flash[q]
  BY <1>1, <1>2, PartlyDoneFacts
<1>4. \/ fs.do = "copy" /\ g[p].tag = flash[p].tag
      \/ /\ fs.do = "tag" /\ flash[p].tag = "none"
         /\ g[p].tag = "half" /\ g[p].slots = flash[p].slots
  BY <1>1, <1>2, PartlyDoneFacts, Zenon
<1>5. CASE fs.do = "tag" /\ flash[p].tag = "none"
           /\ g[p].tag = "half" /\ g[p].slots = flash[p].slots
  BY <1>1, <1>3, <1>5, TagHalved
<1>6. CASE fs.do = "copy" /\ g[p].tag = flash[p].tag
  <2>1. Collecting /\ m_gc.state = "copy" /\ fs = GcOp
    BY <1>6, RecordOp
  <2>2. p = Swap /\ mode = "ready"
    BY <1>1, <2>1, CopyOp, GcOpFacts
  <2>3. QED BY <1>3, <1>6, <2>1, <2>2, CopyHolds
<1>7. QED BY <1>4, <1>5, <1>6

\* The record that is written is the only one of its key, unless it is an update
\* that has written its record.
Lone(g) ==
  \A p, q \in Page, s, t \in 1..Slots :
    Held(g, p, s) /\ Held(g, q, t) /\ g[p].slots[s].key = g[q].slots[t].key
      => p = q /\ s = t

LEMMA Alone ==
  ASSUME ShapeInv, RoomFit, NEW g, NEW f, KeptIn(g, f), "twins" \notin hit,
         Updating("dirty") => f # Call(TRUE), ~Updating("done")
  PROVE  Lone(g)
<1>1. Single(g) /\ QueueKept(g) /\ OwnKept(g, f)
  BY DEF KeptIn, FlashKept
<1>2. CASE ~Started
  <2>1. \A p, s : ~Own(p, s)
    BY <1>2 DEF Own
  <2>2. QED BY <1>1, <2>1 DEF Single, Lone
<1>3. CASE Started
  <2>1. PICK p0 \in Page, k0 \in 1..Slots :
          /\ \A q, t : Own(q, t) <=> q = p0 /\ t = k0
          /\ \A h : NewSlot(h) = h[p0].slots[k0]
    BY <1>3, OwnPlace
  <2>2. /\ Writing /\ OpKept(g, Operation1) /\ m_op_queue # <<>>
        /\ Operation1.op \in {"write", "update"}
        /\ Operation1.step \in {"finalize", "dirty", "done"}
        /\ Operation1.step = "dirty" => Operation1.op = "update"
    BY <1>1, <1>3, FirstKept, WritingMode DEF Started
  <2>3. Operation1.op = "update" /\ Operation1.step = "dirty" => f # Call(TRUE)
    BY <2>2 DEF Updating
  <2>4. ~(Operation1.op = "update" /\ Operation1.step = "done")
    BY <2>2 DEF Updating
  <2>5. \/ ~Valid(g[p0].slots[k0])
        \/ Operation1.op = "write" /\ g[p0].slots[k0].key = Operation1.key
    <3>1. NewKept(g, f)
      BY <1>1, <1>3 DEF OwnKept
    <3>2. CASE Operation1.step = "finalize"
      BY <2>1, <3>1, <3>2 DEF NewKept
    <3>3. CASE Operation1.step # "finalize"
      <4>1. Operation1.step = LastStep
        BY <2>2, <2>4, <3>3 DEF LastStep
      <4>2. CASE f # Call(TRUE)
        <5>1. New(g[p0].slots[k0], "begun")
          BY <2>1, <3>1, <4>1, <4>2 DEF NewKept
        <5>2. QED BY <5>1 DEF New, Valid
      <4>3. CASE f = Call(TRUE)
        <5>1. New(g[p0].slots[k0], "valid")
          BY <2>1, <3>1, <4>1, <4>3 DEF NewKept
        <5>2. Operation1.op = "write"
          BY <2>2, <2>3, <2>4, <3>3, <4>3
        <5>3. QED BY <5>1, <5>2 DEF New
      <4>4. QED BY <4>2, <4>3
    <3>4. QED BY <3>2, <3>3
  <2>6. ASSUME NEW q \in Page, NEW t \in 1..Slots, Held(g, p0, k0), Held(g, q, t),
               g[q].slots[t].key = g[p0].slots[k0].key
        PROVE  q = p0 /\ t = k0
    <3>1. SUFFICES ASSUME ~Own(q, t)
                   PROVE  FALSE
      BY <2>1
    <3>2. Operation1.op = "write" /\ g[q].slots[t].key = Operation1.key
      BY <2>5, <2>6 DEF Held
    <3>3. Matches(Operation1, g[q].slots[t])
      BY <2>2, <2>6, <3>1 DEF OpKept
    <3>4. QED BY <3>2, <3>3 DEF Matches
  <2>7. SUFFICES ASSUME NEW p \in Page, NEW q \in Page, NEW s \in 1..Slots,
                        NEW t \in 1..Slots, Held(g, p, s), Held(g, q, t),
                        g[p].slots[s].key = g[q].slots[t].key
                 PROVE  p = q /\ s = t
    BY DEF Lone
  <2>8. CASE Own(p, s)
    BY <2>1, <2>6, <2>7, <2>8
  <2>9. CASE Own(q, t)
    <3>1. q = p0 /\ t = k0
      BY <2>1, <2>9
    <3>2. Held(g, p0, k0) /\ g[p].slots[s].key = g[p0].slots[k0].key
      BY <2>7, <3>1
    <3>3. QED BY <2>6, <2>7, <3>1, <3>2
  <2>10. CASE ~Own(p, s) /\ ~Own(q, t)
    BY <1>1, <2>7, <2>10 DEF Single
  <2>11. QED BY <2>8, <2>9, <2>10
<1>4. QED BY <1>2, <1>3

\* The records, one step later.
LEMMA FlashStays ==
  ASSUME NEW g, g = flash', acked' = acked, hit \subseteq hit',
         AckedKept(g), Whole(g), OneKey(g),
         "twins" \notin hit' =>
           \A p, q \in Page, s, t \in 1..Slots :
             /\ Held(g, p, s) /\ Held(g, q, t) /\ g[p].slots[s].key = g[q].slots[t].key
             /\ ~Own(p, s)' /\ ~Own(q, t)'
             => p = q /\ s = t
  PROVE  FlashKept(flash)'
<1>1. \A p, s : Held(flash, p, s)' <=> Held(g, p, s)
  BY DEF Held, Home
<1>2. AckedKept(flash)'
  BY <1>1 DEF AckedKept
<1>3. Whole(flash)'
  <2>1. \A r : WholeRecord(r) => WholeRecord(r)'
    BY DEF WholeRecord
  <2>2. QED BY <1>1, <2>1 DEF Whole
<1>4. OneKey(flash)'
  BY <1>1 DEF OneKey
<1>5. Single(flash)'
  BY <1>1 DEF Single
<1>6. QED BY <1>2, <1>3, <1>4, <1>5 DEF FlashKept

\* Nothing is written, and nothing collected.
LEMMA IdleNext ==
  ASSUME m_gc'.state = "begin", ~Writing',
         \A j \in 1..Len(m_op_queue') : m_op_queue'[j].op \notin Writes,
         FlashKept(flash)', EraseKept(flash, fs)', IdsKept(flash)'
  PROVE  KeptIn(flash, fs)'
<1>1. QueueKept(flash)'
  BY DEF QueueKept
<1>2. OwnKept(flash, fs)' /\ GcKept(flash, fs)'
  BY DEF OwnKept, GcKept, Started
<1>3. QED BY <1>1, <1>2 DEF KeptIn

LEMMA ResetKeeps ==
  ASSUME ShapeInv, FsInv, ResumeInv, SwapInv, AgreeInv, FitInv, KeptInv, Reset
  PROVE  KeptInv'
<1>1. SUFFICES ASSUME Kept'
               PROVE  KeptIn(flash, fs)'
  BY DEF KeptInv
<1>2. /\ mode' = "off" /\ m_op_queue' = <<>> /\ m_gc'.state = "begin"
      /\ acked' = acked /\ hit \subseteq hit'
      /\ Updating("dirty") \/ Updating("done") => "twins" \in hit'
  BY DEF Reset, GcIdle
<1>3. Kept /\ KeptIn(flash, fs)
  <2>1. Kept
    BY <1>1, <1>2, StillUnhurt DEF Kept
  <2>2. QED BY <2>1 DEF KeptInv
<1>4. RoomFit
  BY <1>3, KeptMeans DEF FitInv
<1>5. PICK g : g = flash'
  OBVIOUS
<1>6. AckedKept(g) /\ Whole(g) /\ OneKey(g) /\ ("twins" \notin hit' => Lone(g))
  <2>1. ASSUME NEW h, NEW f, KeptIn(h, f)
        PROVE  AckedKept(h) /\ Whole(h) /\ OneKey(h) /\ ("twins" \notin hit' => Lone(h))
    <3>1. "twins" \notin hit' => Lone(h)
      BY <1>2, <1>4, <2>1, Alone
    <3>2. QED BY <2>1, <3>1 DEF KeptIn, FlashKept
  <2>2. CASE g = flash
    BY <1>3, <2>1, <2>2
  <2>3. CASE fs.do \in FlashOp /\ g = Done(fs)
    <3>1. KeptIn(g, Call(TRUE))
      BY <1>3, <2>3, KeptDone
    <3>2. QED BY <2>1, <3>1
  <2>4. CASE fs \in FlashOpType /\ g \in PartlyDone(fs)
    <3>1. SameHeld(flash, g)
      BY <1>3, <2>4, PartlyHolds
    <3>2. AckedKept(flash) /\ Whole(flash) /\ OneKey(flash)
          /\ ("twins" \notin hit' => Lone(flash))
      BY <1>3, <2>1
    <3>3. Lone(flash) => Lone(g)
      BY <3>1 DEF Lone, SameHeld
    <3>4. QED BY <3>1, <3>2, <3>3, SameMeans, MovedKept
  <2>5. QED BY <1>5, <2>2, <2>3, <2>4, ResetFlash, FlashOpCases
<1>7. FlashKept(flash)'
  BY <1>2, <1>5, <1>6, FlashStays DEF Lone
<1>8. EraseKept(flash, fs)' /\ IdsKept(flash)'
  BY <1>2 DEF EraseKept, IdsKept
<1>9. ~Writing' /\ \A j \in 1..Len(m_op_queue') : m_op_queue'[j].op \notin Writes
  BY <1>2 DEF Writing
<1>10. QED BY <1>2, <1>7, <1>8, <1>9, IdleNext

(***************************************************************************)
(* KeptInv: fds_init and the steps of an initialisation.                   *)
(***************************************************************************)

Unmounted == mode \in {"init", "off", "dead", "failed"}
Idle ==
  /\ m_gc.state = "begin" /\ ~Writing
  /\ \A j \in 1..Len(m_op_queue) : m_op_queue[j].op \notin Writes

LEMMA IdleMeans == ShapeInv /\ Unmounted => Idle
BY InitIdle DEF Unmounted, Idle

LEMMA IdleHere ==
  ASSUME ShapeInv', mode' \in {"init", "off", "dead", "failed"}
  PROVE  Idle'
<1>1. Unmounted'
  BY DEF Unmounted
<1>2. QED BY <1>1, IdleMeans, PTL

\* The initialisation leaves the flash to its operations.
LEMMA IdleKeeps ==
  ASSUME ShapeInv, KeptIn(flash, fs), Unmounted, Idle',
         flash' = flash, acked' = acked, hit \subseteq hit',
         EraseKept(flash, fs)', IdsKept(flash)'
  PROVE  KeptIn(flash, fs)'
<1>1. PICK g : g = flash'
  OBVIOUS
<1>2. AckedKept(g) /\ Whole(g) /\ OneKey(g) /\ Single(g)
  BY <1>1 DEF KeptIn, FlashKept
<1>3. \A p, s : ~Own(p, s)
  BY IdleMeans DEF Own, Started, Idle
<1>4. "twins" \notin hit' =>
        \A p, q \in Page, s, t \in 1..Slots :
          /\ Held(g, p, s) /\ Held(g, q, t) /\ g[p].slots[s].key = g[q].slots[t].key
          /\ ~Own(p, s)' /\ ~Own(q, t)'
          => p = q /\ s = t
  BY <1>2, <1>3 DEF Single
<1>5. FlashKept(flash)'
  BY <1>1, <1>2, <1>4, FlashStays
<1>6. QED BY <1>5, IdleNext DEF Idle

LEMMA FdsInitKeeps ==
  ASSUME ShapeInv, ShapeInv', AgreeInv, FitInv, Kept, Kept', KeptIn(flash, fs), fds_init
  PROVE  KeptIn(flash, fs)'
<1>1. PICK acc, step : InitFinds(acc, step)
  BY FdsInitFacts
<1>1a. ~Unnamed(acc.opts) /\ hit' = hit
  BY <1>1 DEF InitFinds, Kept, Unhurt
<1>2. /\ InitQueues(step) /\ flash' = flash /\ acked' = acked /\ hit' = hit
      /\ mode = "off"
  BY <1>1, <1>1a, FdsInitQueue DEF fds_init
<1>3. ScanOpts(NumPages, acc) /\ FirstStepFacts(acc.opts, step)
      /\ m_latest_rec_id' = Max(Identities) /\ m_gc'.state = "begin"
  BY <1>1, <1>1a DEF InitFinds, StepFacts, ScanInv
<1>4. Idle'
  <2>1. CASE mode' = "ready"
    <3>1. m_op_queue' = <<>>
      BY <1>2, <2>1 DEF InitQueues
    <3>2. QED BY <1>3, <3>1 DEF Idle, Writing
  <2>2. CASE mode' # "ready"
    <3>1. mode' \in {"init", "off", "dead", "failed"}
      BY <1>2, <2>2 DEF InitQueues
    <3>2. QED BY <3>1, IdleHere
  <2>3. QED BY <2>1, <2>2
<1>5. IdsKept(flash)'
  <2>1. \A p \in Page : \A s \in Records(p) : flash[p].slots[s].id <= Max(Identities)
    BY LatestFacts DEF ShapeInv, TypeInv
  <2>2. PICK max : max = Max(Identities)
    OBVIOUS
  <2>3. \A p \in Page : \A s \in Records(p) : flash[p].slots[s].id <= max
    BY <2>1, <2>2
  <2>4. \A p \in Page, s \in 1..Slots : Valid(flash[p].slots[s]) => s \in Records(p)
    BY ValidRecords
  <2>5. \A p \in Page, s \in 1..Slots :
          Valid(flash[p].slots[s]) => flash[p].slots[s].id <= max
    BY <2>3, <2>4
  <2>6. QED BY <1>2, <1>3, <2>2, <2>5 DEF IdsKept
<1>6. EraseKept(flash, fs)'
  <2>1. SUFFICES ASSUME mode' = "init", Operation1'.step = "erase swap" \/ fs' = Erase(Swap)'
                 PROVE  \A p \in Page : flash'[p] # ErasedPage
    BY DEF EraseKept
  <2>2. fs' = Call(TRUE) /\ Operation1'.step = step
    BY <1>2, <2>1 DEF InitQueues
  <2>3. fs' # Erase(Swap)'
    <3>1. PICK a : a = Swap'
      OBVIOUS
    <3>2. Erase(a).do = "erase"
      BY OpFacts
    <3>3. fs' # Erase(a)
      BY <2>2, <3>2, FsFacts
    <3>4. QED BY <3>1, <3>3
  <2>4. "erased" \notin acc.opts
    BY <1>3, <2>1, <2>2, <2>3 DEF FirstStepFacts
  <2>5. \A p \in Page : p < NumPages
    BY Constants DEF Page
  <2>6. QED BY <1>2, <1>3, <2>4, <2>5 DEF ScanOpts, IsErased
<1>7. QED BY <1>2, <1>4, <1>5, <1>6, IdleKeeps DEF Unmounted

LEMMA InitStepsKeep ==
  ASSUME ShapeInv, ShapeInv', KeptIn(flash, fs),
         \/ InitTagSwap \/ InitTagData \/ InitEraseSwap \/ InitPromote
         \/ InitDone \/ InitFails
  PROVE  KeptIn(flash, fs)'
<1>1. /\ mode = "init" /\ m_op_queue # <<>> /\ Len(m_op_queue) = 1 /\ m_gc.state = "begin"
      /\ flash' = flash /\ acked' = acked /\ m_latest_rec_id' = m_latest_rec_id
      /\ m_gc' = m_gc
  <2>1. /\ Runs({"init"}) \/ Fails({"init"})
        /\ flash' = flash /\ acked' = acked /\ m_latest_rec_id' = m_latest_rec_id
        /\ m_gc' = m_gc
    BY DEF InitTagSwap, InitTagData, InitEraseSwap, InitPromote, InitDone, InitFails
  <2>2. QED BY <2>1, InitMode
<1>2. hit \subseteq hit'
  BY DEF InitTagSwap, InitTagData, InitEraseSwap, InitPromote, InitDone, InitFails
<1>3. \/ mode' = "init"
      \/ mode' \in {"ready", "failed"} /\ Pop
  BY <1>1 DEF InitTagSwap, InitTagData, InitEraseSwap, InitPromote, InitDone, InitFails
<1>4. Idle'
  <2>1. CASE mode' = "ready"
    <3>1. Pop
      BY <1>3, <2>1
    <3>2. Len(m_op_queue') = 0
      BY <1>1, <3>1, PopFacts
    <3>3. m_op_queue' = <<>>
      BY <3>2 DEF ShapeInv, TypeInv
    <3>4. QED BY <1>1, <3>3 DEF Idle, Writing
  <2>2. CASE mode' # "ready"
    <3>1. mode' \in {"init", "off", "dead", "failed"}
      BY <1>3, <2>2
    <3>2. QED BY <3>1, IdleHere
  <2>3. QED BY <2>1, <2>2
<1>5. IdsKept(flash)'
  <2>1. IdsKept(flash)
    BY DEF KeptIn
  <2>2. QED BY <1>1, <2>1 DEF IdsKept
<1>6. EraseKept(flash, fs)'
  <2>1. SUFFICES ASSUME mode' = "init", Operation1'.step = "erase swap" \/ fs' = Erase(Swap)'
                 PROVE  \A p \in Page : flash'[p] # ErasedPage
    BY DEF EraseKept
  <2>2. Operation1.step = "erase swap" => \A p \in Page : flash[p] # ErasedPage
    BY <1>1 DEF KeptIn, EraseKept
  <2>3. \A step : Next1(Operation("init", step)) => Operation1'.step = step
    <3>1. SUFFICES ASSUME NEW step, Next1(Operation("init", step))
                   PROVE  Operation1'.step = step
      OBVIOUS
    <3>2. PICK op : op = Operation("init", step)
      OBVIOUS
    <3>3. Tail(m_op_queue) \in Seq(OpType)
      BY <1>1, QueueFacts DEF ShapeInv, TypeInv
    <3>4. m_op_queue' = <<op>> \o Tail(m_op_queue)
      BY <3>1, <3>2 DEF Next1
    <3>5. Head(m_op_queue') = op
      BY <3>3, <3>4
    <3>6. op.step = step
      BY <3>2 DEF Operation
    <3>7. QED BY <3>5, <3>6 DEF Operation1
  <2>4. PICK a : a = Swap'
    OBVIOUS
  <2>5. Erase(a).do = "erase"
    BY OpFacts
  <2>6. CASE InitEraseSwap
    <3>1. Operation1.step = "erase swap"
      BY <2>6 DEF InitEraseSwap
    <3>2. QED BY <1>1, <2>2, <3>1
  <2>7. CASE InitTagSwap \/ InitPromote
    <3>1. Next1(Operation("init", "tag data")) \/ Next1(Operation("init", "tag swap"))
      BY <2>7 DEF InitTagSwap, InitPromote
    <3>2. Operation1'.step # "erase swap"
      BY <2>3, <3>1
    <3>3. fs'.do = "tag"
      <4>1. fs' = Tag(Swap, "swap") \/ fs' = Tag(Swap, "data")
        BY <2>7, Zenon DEF InitTagSwap, InitPromote, Swap
      <4>2. QED BY <4>1, OpFacts
    <3>4. QED BY <2>1, <2>4, <2>5, <3>2, <3>3
  <2>8. CASE InitTagData
    <3>1. Operation1' = Operation1 /\ Operation1.step = "tag data"
      BY <2>8 DEF InitTagData, Operation1
    <3>2. fs'.do = "tag"
      <4>1. PICK i \in ErasedPages : fs' = Tag(Adr(i), "data")
        BY <2>8, InitTagDataPages
      <4>2. QED BY <4>1, OpFacts
    <3>3. QED BY <2>1, <2>4, <2>5, <3>1, <3>2
  <2>9. CASE InitDone \/ InitFails
    BY <2>1, <2>9 DEF InitDone, InitFails
  <2>10. QED BY <2>6, <2>7, <2>8, <2>9
<1>7. QED BY <1>1, <1>2, <1>4, <1>5, <1>6, IdleKeeps DEF Unmounted

(***************************************************************************)
(* KeptInv: the writes.                                                    *)
(***************************************************************************)

LEMMA HeldNext ==
  ASSUME NEW g, g = flash'
  PROVE  \A p, s : /\ Held(flash, p, s)' <=> Held(g, p, s)
                   /\ flash'[p].slots[s] = g[p].slots[s]
BY DEF Held, Home

\* A write in the queue, one step later.
LEMMA OpStays ==
  ASSUME NEW g, g = flash', NEW op, OpKept(g, op), hit \subseteq hit',
         m_latest_rec_id \in Nat, m_latest_rec_id' \in Nat, op.id \in Nat,
         m_latest_rec_id <= m_latest_rec_id', acked'[op.key] = acked[op.key],
         \A p \in Page, s \in 1..Slots :
           Held(g, p, s) /\ ~Own(p, s)' => ~Own(p, s) \/ Matches(op, g[p].slots[s])
  PROVE  OpKept(flash, op)'
<1>1. \A r : Matches(op, r) => Matches(op, r)'
  BY DEF Matches
<1>2. \A p \in Page, s \in 1..Slots :
        Held(g, p, s) /\ ~Own(p, s)' => Matches(op, g[p].slots[s])
  BY DEF OpKept
<1>3. \A p \in Page, s \in 1..Slots :
        Held(flash, p, s)' /\ ~Own(p, s)' => Matches(op, flash[p].slots[s])'
  BY <1>1, <1>2, HeldNext
<1>4. op.id <= m_latest_rec_id' /\ acked'[op.key] <= op.id
  BY DEF OpKept
<1>5. QED BY <1>3, <1>4 DEF OpKept

LEMMA PopQueue ==
  ASSUME ShapeInv, mode = "ready", m_op_queue # <<>>, Pop, NEW g, g = flash',
         QueueKept(g), hit \subseteq hit', m_latest_rec_id' = m_latest_rec_id,
         \A p \in Page, s \in 1..Slots :
           Own(p, s) /\ Held(g, p, s) =>
             g[p].slots[s].key = Operation1.key /\ g[p].slots[s].id = Operation1.id,
         \A key \in Key :
           acked'[key] = acked[key] \/ (Writing /\ key = Operation1.key)
  PROVE  QueueKept(flash)' /\ ~Started'
<1>1. /\ Operation1 = m_op_queue[1] /\ Len(m_op_queue) \in Nat
      /\ Len(m_op_queue) >= 1 /\ Len(m_op_queue') = Len(m_op_queue) - 1
      /\ \A j \in 1..Len(m_op_queue') :
           /\ j + 1 \in 2..Len(m_op_queue) /\ j + 1 \in 1..Len(m_op_queue)
           /\ m_op_queue'[j] = m_op_queue[j + 1]
  BY PopFacts
<1>2. ASSUME NEW j \in 1..Len(m_op_queue'), m_op_queue'[j].op \in Writes
      PROVE  OpKept(flash, m_op_queue[j])'
  <2>1. PICK n \in 2..Len(m_op_queue) : n = j + 1
    BY <1>1
  <2>2. PICK op : op = m_op_queue[n]
    OBVIOUS
  <2>3. op = m_op_queue'[j] /\ n \in 1..Len(m_op_queue) /\ 1 \in 1..Len(m_op_queue)
    BY <1>1, <2>1, <2>2
  <2>4. OpKept(g, op)
    BY <1>2, <2>2, <2>3 DEF QueueKept
  <2>5. op \in OpType
    BY <2>2, <2>3, QueueFacts DEF ShapeInv, TypeInv
  <2>6. Writing => Apart(Operation1, op) /\ Apart(op, Operation1)
    <3>1. SUFFICES ASSUME Operation1.op \in Writes
                   PROVE  Apart(Operation1, op) /\ Apart(op, Operation1)
      BY DEF Writing
    <3>2. n # 1 /\ op.op \in Writes
      BY <1>2, <2>3
    <3>3. QED BY <1>1, <2>2, <2>3, <3>1, <3>2 DEF QueueKept
  <2>7. acked'[op.key] = acked[op.key]
    BY <2>4, <2>6 DEF OpKept, Apart
  <2>8. \A p \in Page, s \in 1..Slots :
          Held(g, p, s) /\ ~Own(p, s)' => ~Own(p, s) \/ Matches(op, g[p].slots[s])
    <3>1. SUFFICES ASSUME NEW p \in Page, NEW s \in 1..Slots, Held(g, p, s), Own(p, s)
                   PROVE  Matches(op, g[p].slots[s])
      OBVIOUS
    <3>2. g[p].slots[s].key = Operation1.key /\ g[p].slots[s].id = Operation1.id
      BY <3>1
    <3>3. Apart(Operation1, op) /\ Apart(op, Operation1)
      BY <2>6, <3>1 DEF Own, Started
    <3>4. QED BY <3>2, <3>3 DEF Matches, Apart
  <2>9. OpKept(flash, op)'
    <3>1. op.id \in Nat
      BY <2>5 DEF OpType
    <3>2. m_latest_rec_id \in Nat
      BY DEF ShapeInv, TypeInv
    <3>3. QED BY <2>4, <2>7, <2>8, <3>1, <3>2, OpStays
  <2>10. QED BY <2>3, <2>9 DEF OpKept, Matches
<1>3. ASSUME NEW j \in 1..Len(m_op_queue'), NEW i \in 1..Len(m_op_queue'),
             m_op_queue'[j].op \in Writes, m_op_queue'[i].op \in Writes, i # j
      PROVE  Apart(m_op_queue'[i], m_op_queue'[j])
  <2>1. PICK n \in 2..Len(m_op_queue) : n = j + 1
    BY <1>1
  <2>2. PICK m \in 2..Len(m_op_queue) : m = i + 1
    BY <1>1
  <2>3. /\ m # n /\ n \in 1..Len(m_op_queue) /\ m \in 1..Len(m_op_queue)
        /\ m_op_queue'[j] = m_op_queue[n] /\ m_op_queue'[i] = m_op_queue[m]
    BY <1>1, <1>3, <2>1, <2>2
  <2>4. QED BY <1>3, <2>3 DEF QueueKept
<1>4. QueueKept(flash)'
  BY <1>2, <1>3 DEF QueueKept, Apart
<1>5. ~Started'
  BY PopCalm DEF Started
<1>6. QED BY <1>4, <1>5

\* Every step of a write leaves the operations as they are, but for the first.
LEMMA NextOpQueue ==
  ASSUME ShapeInv, Writing, NEW op \in OpType, Next1(op),
         op.op = Operation1.op, op.key = Operation1.key, op.id = Operation1.id,
         op.old = Operation1.old
  PROVE  /\ Len(m_op_queue') = Len(m_op_queue) /\ Len(m_op_queue) \in Nat
         /\ \A j \in 1..Len(m_op_queue) :
              /\ m_op_queue'[j].op = m_op_queue[j].op
              /\ m_op_queue'[j].key = m_op_queue[j].key
              /\ m_op_queue'[j].id = m_op_queue[j].id
              /\ m_op_queue'[j].old = m_op_queue[j].old
<1>1. m_op_queue \in Seq(OpType) /\ m_op_queue # <<>> /\ Operation1 = m_op_queue[1]
  <2>1. m_op_queue \in Seq(OpType) /\ m_op_queue # <<>>
    BY DEF ShapeInv, TypeInv, Writing
  <2>2. QED BY <2>1, QueueFacts DEF Operation1
<1>2. PICK q \in Seq(OpType) : q = m_op_queue
  BY <1>1
<1>3. PICK r : r = m_op_queue'
  OBVIOUS
<1>4. r = <<op>> \o Tail(q) /\ q # <<>>
  BY <1>1, <1>2, <1>3 DEF Next1
<1>5. Len(r) = Len(q) /\ r[1] = op /\ \A j \in 2..Len(q) : r[j] = q[j]
  BY <1>4, NextFacts
<1>6. Len(q) \in Nat
  OBVIOUS
<1>7. ASSUME NEW j \in 1..Len(q)
      PROVE  /\ r[j].op = q[j].op /\ r[j].key = q[j].key
             /\ r[j].id = q[j].id /\ r[j].old = q[j].old
  <2>1. CASE j = 1
    BY <1>1, <1>2, <1>5, <2>1
  <2>2. CASE j # 1
    BY <1>5, <1>6, <2>2
  <2>3. QED BY <2>1, <2>2
<1>8. QED BY <1>2, <1>3, <1>5, <1>6, <1>7

\* What goes on while the operations stay the same.
LEMMA SameQueue ==
  ASSUME ShapeInv, NEW g, g = flash', QueueKept(g), hit \subseteq hit',
         acked' = acked, m_latest_rec_id' = m_latest_rec_id,
         Len(m_op_queue') = Len(m_op_queue),
         \A j \in 1..Len(m_op_queue) :
           /\ m_op_queue'[j].op = m_op_queue[j].op
           /\ m_op_queue'[j].key = m_op_queue[j].key
           /\ m_op_queue'[j].id = m_op_queue[j].id
           /\ m_op_queue'[j].old = m_op_queue[j].old,
         \A p \in Page, s \in 1..Slots : Own(p, s) => Own(p, s)'
  PROVE  QueueKept(flash)'
<1>1. ASSUME NEW j \in 1..Len(m_op_queue), m_op_queue[j].op \in Writes
      PROVE  OpKept(flash, m_op_queue[j])'
  <2>1. PICK op : op = m_op_queue[j]
    OBVIOUS
  <2>2. OpKept(g, op)
    BY <1>1, <2>1 DEF QueueKept
  <2>3. op \in OpType
    <3>1. m_op_queue \in Seq(OpType)
      BY DEF ShapeInv, TypeInv
    <3>2. QED BY <2>1, <3>1
  <2>4. OpKept(flash, op)'
    <3>1. op.id \in Nat
      BY <2>3 DEF OpType
    <3>2. m_latest_rec_id \in Nat
      BY DEF ShapeInv, TypeInv
    <3>3. acked'[op.key] = acked[op.key]
      OBVIOUS
    <3>4. QED BY <2>2, <3>1, <3>2, <3>3, OpStays
  <2>5. PICK o : o = m_op_queue'[j]
    OBVIOUS
  <2>6. o.op = op.op /\ o.key = op.key /\ o.id = op.id /\ o.old = op.old
    BY <2>1, <2>5
  <2>7. \A r : Matches(op, r)' => Matches(o, r)'
    BY <2>6 DEF Matches
  <2>8. OpKept(flash, o)'
    BY <2>4, <2>6, <2>7 DEF OpKept
  <2>9. QED BY <2>5, <2>8 DEF OpKept, Matches
<1>2. ASSUME NEW j \in 1..Len(m_op_queue), NEW i \in 1..Len(m_op_queue),
             m_op_queue[j].op \in Writes, m_op_queue[i].op \in Writes, i # j
      PROVE  Apart(m_op_queue'[i], m_op_queue'[j])
  <2>1. Apart(m_op_queue[i], m_op_queue[j])
    BY <1>2 DEF QueueKept
  <2>2. QED BY <2>1 DEF Apart
<1>3. QED BY <1>1, <1>2 DEF QueueKept, Apart

\* The places of a write, one step later.
LEMMA SamePlaces ==
  ASSUME ShapeInv, Writing, PagesStay, flash' = flash,
         Operation1'.page = Operation1.page
  PROVE  /\ Adr(Operation1.page)' = Adr(Operation1.page)
         /\ m_pages'[Operation1'.page].offset = m_pages[Operation1.page].offset
         /\ NewSlot(flash)' = NewSlot(flash)
         /\ \A i \in DataPages : Adr(i)' = Adr(i)
<1>1. Operation1.page \in Index
  BY WritingMode DEF DataPages
<1>2. PICK i \in Index : i = Operation1.page
  BY <1>1
<1>3. /\ m_pages'[i].addr = m_pages[i].addr /\ m_pages'[i].offset = m_pages[i].offset
      /\ Operation1'.page = i
  BY <1>2 DEF PagesStay, SamePages
<1>4. Adr(Operation1.page)' = Adr(Operation1.page)
  BY <1>2, <1>3 DEF Adr
<1>5. m_pages'[Operation1'.page].offset = m_pages[Operation1.page].offset
  BY <1>2, <1>3
<1>6. NewSlot(flash)' = NewSlot(flash)
  BY <1>4, <1>5 DEF NewSlot
<1>7. \A j \in DataPages : Adr(j)' = Adr(j)
  BY DEF PagesStay, SamePages, Adr, DataPages
<1>8. QED BY <1>4, <1>5, <1>6, <1>7

LEMMA SameOld ==
  ASSUME ShapeInv, Writing, PagesStay, flash' = flash, Operation1.op = "update",
         Operation1.step # "begin", Operation1'.target = Operation1.target
  PROVE  OldSlot(flash)' = OldSlot(flash)
<1>1. PICK i \in Index : i = Operation1.target[1]
  BY WritingMode DEF DataPages
<1>2. m_pages'[i].addr = m_pages[i].addr
  BY DEF PagesStay, SamePages
<1>3. QED BY <1>1, <1>2 DEF OldSlot, Adr

\* A write that does not end.
WriteGoes ==
  /\ mode = "ready" /\ Writing /\ Writing' /\ PagesStay
  /\ Operation1'.op = Operation1.op /\ Operation1'.page = Operation1.page
  /\ Operation1'.key = Operation1.key /\ Operation1'.id = Operation1.id
  /\ Operation1'.old = Operation1.old
  /\ Operation1'.step # "begin" /\ m_gc.state = "begin" /\ m_gc' = m_gc
  /\ flash' = flash /\ mode' = mode /\ acked' = acked /\ hit \subseteq hit'
  /\ m_latest_rec_id' = m_latest_rec_id
  /\ \E op \in OpType : Next1(op) /\ op = Operation1'

LEMMA WriteKeeps ==
  ASSUME ShapeInv, KeptIn(flash, fs), WriteGoes, OwnKept(flash, fs)'
  PROVE  KeptIn(flash, fs)'
<1>1. PICK g : g = flash'
  OBVIOUS
<1>2. AckedKept(g) /\ Whole(g) /\ OneKey(g) /\ Single(g) /\ QueueKept(g) /\ IdsKept(g)
  BY <1>1 DEF KeptIn, FlashKept, WriteGoes
<1>3. \A p \in Page, s \in 1..Slots : Own(p, s) => Own(p, s)'
  <2>1. /\ Adr(Operation1.page)' = Adr(Operation1.page)
        /\ m_pages'[Operation1'.page].offset = m_pages[Operation1.page].offset
    BY SamePlaces DEF WriteGoes
  <2>2. Started'
    BY DEF WriteGoes, Started
  <2>3. QED BY <2>1, <2>2 DEF Own
<1>4. FlashKept(flash)'
  <2>1. "twins" \notin hit' =>
          \A p, q \in Page, s, t \in 1..Slots :
            /\ Held(g, p, s) /\ Held(g, q, t) /\ g[p].slots[s].key = g[q].slots[t].key
            /\ ~Own(p, s)' /\ ~Own(q, t)'
            => p = q /\ s = t
    BY <1>2, <1>3 DEF Single, WriteGoes
  <2>2. QED BY <1>1, <1>2, <2>1, FlashStays DEF WriteGoes
<1>5. QueueKept(flash)'
  <2>1. PICK op \in OpType : Next1(op) /\ op = Operation1'
    BY DEF WriteGoes
  <2>2. /\ op.op = Operation1.op /\ op.key = Operation1.key /\ op.id = Operation1.id
        /\ op.old = Operation1.old
    BY <2>1 DEF WriteGoes
  <2>3. /\ Len(m_op_queue') = Len(m_op_queue)
        /\ \A j \in 1..Len(m_op_queue) :
              /\ m_op_queue'[j].op = m_op_queue[j].op
              /\ m_op_queue'[j].key = m_op_queue[j].key
              /\ m_op_queue'[j].id = m_op_queue[j].id
              /\ m_op_queue'[j].old = m_op_queue[j].old
    BY <2>1, <2>2, NextOpQueue DEF WriteGoes
  <2>4. QED BY <1>1, <1>2, <1>3, <2>3, SameQueue DEF WriteGoes
<1>6. EraseKept(flash, fs)' /\ IdsKept(flash)' /\ GcKept(flash, fs)'
  BY <1>1, <1>2 DEF WriteGoes, EraseKept, IdsKept, GcKept
<1>7. QED BY <1>4, <1>5, <1>6 DEF KeptIn

\* The record to be replaced.
LEMMA FoundOld ==
  ASSUME ShapeInv, FsInv, ResumeInv, SwapInv, AgreeInv, FitInv, Kept, KeptIn(flash, fs),
         Writing, Operation1.op = "update", ~Started, Places(Operation1.old) # {},
         NEW at, at = Lowest(Places(Operation1.old))
  PROVE  /\ at[1] \in DataPages
         /\ flash[Adr(at[1])].slots[at[2]].key = Operation1.key
         /\ flash[Adr(at[1])].slots[at[2]].id = Operation1.old
         /\ flash[Adr(at[1])].slots[at[2]].state = "valid"
<1>1. at \in Places(Operation1.old)
  BY PlacesFacts, LowestFacts
<1>2. at \in InPages /\ SlotAt(at).id = Operation1.old
  BY <1>1 DEF Places
<1>3. mode = "ready"
  BY WritingMode
<1>4. /\ at[1] \in DataPages /\ at[2] \in 1..Slots /\ Adr(at[1]) \in Page
      /\ Held(flash, Adr(at[1]), at[2])
      /\ SlotAt(at) = flash[Adr(at[1])].slots[at[2]]
  BY <1>2, <1>3, FoundHeld
<1>5. PICK p \in Page, s \in 1..Slots : p = Adr(at[1]) /\ s = at[2]
  BY <1>4
<1>6. Held(flash, p, s) /\ flash[p].slots[s].id = Operation1.old
  BY <1>2, <1>4, <1>5
<1>7. OpKept(flash, Operation1) /\ WholeRecord(flash[p].slots[s])
  BY <1>6, FirstKept DEF KeptIn, FlashKept, Whole
<1>8. Matches(Operation1, flash[p].slots[s])
  BY <1>6, <1>7 DEF OpKept, Own
<1>9. QED BY <1>4, <1>5, <1>6, <1>7, <1>8 DEF Matches, WholeRecord

LEMMA WriteBeginKeeps ==
  ASSUME ShapeInv, FsInv, ResumeInv, SwapInv, AgreeInv, FitInv, Kept, KeptIn(flash, fs),
         ShapeInv', Kept', WriteBegin
  PROVE  KeptIn(flash, fs)'
<1>1. /\ mode = "ready" /\ Writing /\ Writing'
      /\ Operation1'.op = Operation1.op /\ Operation1'.page = Operation1.page
      /\ Operation1'.key = Operation1.key /\ Operation1'.id = Operation1.id
      /\ Operation1'.old = Operation1.old
      /\ Operation1.step = "begin" /\ Operation1'.step = "finalize"
      /\ Operation1'.target = IF Operation1.op = "write" THEN <<0, 0>>
                              ELSE Lowest(Places(Operation1.old))
      /\ WriteStore("begin")' /\ fs' \in FlashOpType
  BY WriteBeginFacts
<1>2. PagesStay
  BY StayPages DEF WriteBegin
<1>3. "resume" \notin hit'
  BY DEF Kept, Unhurt
<1>4. m_gc.state = "begin"
  BY <1>3 DEF WriteBegin
<1>5. \E op \in OpType : Next1(op) /\ op = Operation1'
  <2>1. PICK op : Next1(op) /\ op = [Operation1 EXCEPT !.step = "finalize", !.target =
              IF Operation1.op = "write" THEN <<0, 0>>
              ELSE Lowest(Places(Operation1.old))]
    BY DEF WriteBegin
  <2>2. Operation1' \in OpType
    BY <1>1, QueueFacts DEF ShapeInv, TypeInv, Writing, Operation1
  <2>3. Operation1' = op
    BY <2>1 DEF Next1, Operation1
  <2>4. QED BY <2>1, <2>2, <2>3
<1>6. WriteGoes
  BY <1>1, <1>2, <1>4, <1>5 DEF WriteGoes, WriteBegin
<1>7. ~Started
  BY <1>1 DEF Started
<1>8. ~Valid(NewSlot(flash))
  <2>1. RoomFit /\ FitIn(flash, fs)
    BY KeptMeans DEF FitInv
  <2>2. PICK i \in DataPages, n \in Nat :
          i = Operation1.page /\ n = m_pages[i].offset /\ n + 1 \in 1..Slots
    BY <1>1, <2>1, WriteHasRoom
  <2>3. DataFit(flash, fs, i)
    BY <1>1, <2>1 DEF FitIn, PagesFit
  <2>4. ~Begun(fs, i)
    BY <1>1 DEF Begun
  <2>5. Blank(flash[Adr(i)], n)
    BY <2>2, <2>3, <2>4 DEF DataFit
  <2>6. NewSlot(flash) = Empty
    BY <2>2, <2>5 DEF NewSlot, Blank
  <2>7. QED BY <2>6, NoRecord
<1>9. fs' # Call(TRUE)
  BY <1>1, FsFacts
<1>10. NewKept(flash, fs)'
  <2>1. ~Valid(NewSlot(flash)')
    BY <1>6, <1>8, SamePlaces DEF WriteGoes
  <2>2. Operation1'.step # LastStep'
    BY <1>1 DEF LastStep
  <2>3. QED BY <1>1, <1>9, <2>1, <2>2 DEF NewKept, Valid
<1>11. OldKept(flash, fs)'
  <2>1. SUFFICES ASSUME Operation1.op = "update" PROVE OldKept(flash, fs)'
    BY <1>1 DEF OldKept
  <2>2. Places(Operation1.old) # {}
    BY <2>1 DEF WriteBegin
  <2>3. PICK at : at = Lowest(Places(Operation1.old))
    OBVIOUS
  <2>4. /\ at[1] \in DataPages
        /\ flash[Adr(at[1])].slots[at[2]].key = Operation1.key
        /\ flash[Adr(at[1])].slots[at[2]].id = Operation1.old
        /\ flash[Adr(at[1])].slots[at[2]].state = "valid"
    BY <1>1, <1>7, <2>1, <2>2, <2>3, FoundOld
  <2>5. Operation1'.target = at
    BY <1>1, <2>1, <2>3
  <2>6. Adr(at[1])' = Adr(at[1])
    BY <1>6, <2>4, SamePlaces DEF WriteGoes
  <2>7. OldSlot(flash)' = flash[Adr(at[1])].slots[at[2]]
    BY <1>6, <2>5, <2>6 DEF OldSlot, WriteGoes
  <2>8. QED BY <1>1, <2>1, <2>4, <2>7 DEF OldKept
<1>12. QED BY <1>6, <1>10, <1>11, WriteKeeps DEF OwnKept

LEMMA NextOp ==
  ASSUME ShapeInv', Writing', NEW op, Next1(op)
  PROVE  Operation1' = op /\ op \in OpType
<1>1. Operation1' = op
  BY DEF Next1, Operation1
<1>2. Operation1' \in OpType
  BY QueueFacts DEF ShapeInv, TypeInv, Writing, Operation1
<1>3. QED BY <1>1, <1>2

LEMMA WriteFinalizeKeeps ==
  ASSUME ShapeInv, AgreeInv, Kept, KeptIn(flash, fs), ShapeInv', WriteFinalize
  PROVE  KeptIn(flash, fs)'
<1>1. /\ mode = "ready" /\ Writing /\ Writing'
      /\ Operation1'.op = Operation1.op /\ Operation1'.page = Operation1.page
      /\ Operation1'.key = Operation1.key /\ Operation1'.id = Operation1.id
      /\ Operation1'.old = Operation1.old /\ Operation1'.target = Operation1.target
      /\ Operation1.step = "finalize" /\ Operation1'.step = LastStep
      /\ fs' \in FlashOpType
  BY WriteFinalizeFacts DEF LastStep
<1>2. PagesStay
  BY StayPages DEF WriteFinalize
<1>3. m_gc.state = "begin"
  BY <1>1, KeptMeans DEF AgreeInv, WriteCalm
<1>4. \E op \in OpType : Next1(op) /\ op = Operation1'
  <2>1. PICK op : Next1(op)
    BY DEF WriteFinalize
  <2>2. QED BY <1>1, <2>1, NextOp
<1>5. Operation1'.step # "begin" /\ Operation1'.step # "finalize" /\ LastStep' = LastStep
  BY <1>1 DEF LastStep
<1>6. WriteGoes
  BY <1>1, <1>2, <1>3, <1>4, <1>5 DEF WriteGoes, WriteFinalize
<1>7. fs' # Call(TRUE) /\ fs = Call(TRUE)
  BY <1>1, FsFacts DEF WriteFinalize, Runs
<1>8. NewKept(flash, fs) /\ OldKept(flash, fs)
  <2>1. Started
    BY <1>1 DEF Started
  <2>2. QED BY <2>1 DEF KeptIn, OwnKept
<1>9. NewKept(flash, fs)'
  <2>1. NewSlot(flash)' = NewSlot(flash)
    BY <1>6, SamePlaces DEF WriteGoes
  <2>2. New(NewSlot(flash), "begun")
    BY <1>1, <1>7, <1>8 DEF NewKept
  <2>3. New(NewSlot(flash), "begun")'
    BY <1>1, <2>1, <2>2 DEF New
  <2>4. ~(Operation1'.op = "update" /\ Operation1'.step = "done")
    BY <1>1, <1>5 DEF LastStep
  <2>5. QED BY <1>5, <1>7, <2>3, <2>4 DEF NewKept
<1>10. OldKept(flash, fs)'
  <2>1. SUFFICES ASSUME Operation1.op = "update" PROVE OldKept(flash, fs)'
    BY <1>1 DEF OldKept
  <2>2. OldSlot(flash)' = OldSlot(flash)
    BY <1>1, <1>6, <2>1, SameOld DEF WriteGoes
  <2>3. /\ OldSlot(flash).key = Operation1.key /\ OldSlot(flash).id = Operation1.old
        /\ OldSlot(flash).state = "valid"
    BY <1>1, <1>8, <2>1 DEF OldKept
  <2>4. QED BY <1>1, <1>7, <2>2, <2>3 DEF OldKept
<1>11. QED BY <1>6, <1>9, <1>10, WriteKeeps DEF OwnKept

LEMMA WriteDirtyKeeps ==
  ASSUME ShapeInv, AgreeInv, Kept, KeptIn(flash, fs), ShapeInv', WriteDirty
  PROVE  KeptIn(flash, fs)'
<1>1. /\ mode = "ready" /\ Writing /\ Writing' /\ PagesStay
      /\ Operation1.op = "update"
      /\ Operation1'.op = Operation1.op /\ Operation1'.page = Operation1.page
      /\ Operation1'.key = Operation1.key /\ Operation1'.id = Operation1.id
      /\ Operation1'.old = Operation1.old /\ Operation1'.target = Operation1.target
      /\ Operation1.step = "dirty" /\ Operation1'.step = "done"
      /\ fs' \in FlashOpType
  BY WriteDirtyFacts
<1>3. m_gc.state = "begin"
  BY <1>1, KeptMeans DEF AgreeInv, WriteCalm
<1>4. \E op \in OpType : Next1(op) /\ op = Operation1'
  <2>1. PICK op : Next1(op)
    BY DEF WriteDirty
  <2>2. QED BY <1>1, <2>1, NextOp
<1>6. WriteGoes
  BY <1>1, <1>3, <1>4 DEF WriteGoes, WriteDirty
<1>7. fs' # Call(TRUE) /\ fs = Call(TRUE)
  BY <1>1, FsFacts DEF WriteDirty, Runs
<1>8. NewKept(flash, fs) /\ OldKept(flash, fs)
  <2>1. Started
    BY <1>1 DEF Started
  <2>2. QED BY <2>1 DEF KeptIn, OwnKept
<1>9. NewKept(flash, fs)'
  <2>1. NewSlot(flash)' = NewSlot(flash)
    BY <1>6, SamePlaces DEF WriteGoes
  <2>2. New(NewSlot(flash), "valid")
    BY <1>1, <1>7, <1>8 DEF NewKept, LastStep
  <2>3. New(NewSlot(flash), "valid")'
    BY <1>1, <2>1, <2>2 DEF New
  <2>4. LastStep' = "dirty"
    BY <1>1 DEF LastStep
  <2>5. QED BY <1>1, <2>3, <2>4 DEF NewKept
<1>10. OldKept(flash, fs)'
  <2>2. OldSlot(flash)' = OldSlot(flash)
    BY <1>1, <1>6, SameOld DEF WriteGoes
  <2>3. /\ OldSlot(flash).key = Operation1.key /\ OldSlot(flash).id = Operation1.old
        /\ OldSlot(flash).state = "valid"
    BY <1>1, <1>8 DEF OldKept
  <2>4. QED BY <1>1, <1>7, <2>2, <2>3 DEF OldKept
<1>11. QED BY <1>6, <1>9, <1>10, WriteKeeps DEF OwnKept

\* The record that is written, where it is found.
LEMMA OwnRecord ==
  ASSUME ShapeInv, RoomFit, NEW g, NEW f, KeptIn(g, f), f \in {Call(TRUE), Call(FALSE)}
  PROVE  \A p \in Page, s \in 1..Slots :
           Own(p, s) /\ Held(g, p, s) =>
             g[p].slots[s].key = Operation1.key /\ g[p].slots[s].id = Operation1.id
<1>1. SUFFICES ASSUME NEW p \in Page, NEW s \in 1..Slots, Own(p, s), Held(g, p, s)
               PROVE  g[p].slots[s].key = Operation1.key
                      /\ g[p].slots[s].id = Operation1.id
  OBVIOUS
<1>2. NewSlot(g) = g[p].slots[s] /\ Started
  BY <1>1 DEF Own, NewSlot
<1>3. Valid(NewSlot(g)) /\ NewKept(g, f)
  BY <1>1, <1>2 DEF KeptIn, OwnKept, Held
<1>4. \/ Operation1.step \in {"finalize", LastStep}
      \/ Operation1.op = "update" /\ Operation1.step = "done"
  <2>1. /\ Operation1.op \in {"write", "update"}
        /\ Operation1.step \in {"finalize", "dirty", "done"}
        /\ Operation1.step = "dirty" => Operation1.op = "update"
    BY <1>2, WritingMode DEF Started, Writes
  <2>2. CASE Operation1.op = "write"
    BY <2>1, <2>2 DEF LastStep
  <2>3. CASE Operation1.op = "update"
    BY <2>1, <2>3 DEF LastStep
  <2>4. QED BY <2>1, <2>2, <2>3
<1>5. Operation1.step # "finalize"
  BY <1>3 DEF NewKept
<1>6. New(NewSlot(g), "begun") \/ New(NewSlot(g), "valid")
  BY <1>3, <1>4, <1>5 DEF NewKept
<1>7. QED BY <1>2, <1>6 DEF New

\* The end of a write.
LEMMA PopKeeps ==
  ASSUME ShapeInv, mode = "ready", mode' = mode, m_op_queue # <<>>, Pop,
         NEW g, g = flash', KeptIn(g, fs), hit \subseteq hit',
         m_latest_rec_id' = m_latest_rec_id, FlashKept(flash)', QueueKept(flash)',
         ~Started', GcKept(flash, fs)'
  PROVE  KeptIn(flash, fs)'
<1>1. EraseKept(flash, fs)'
  BY DEF EraseKept
<1>2. IdsKept(flash)'
  <2>1. IdsKept(g)
    BY DEF KeptIn
  <2>2. QED BY <2>1 DEF IdsKept
<1>3. OwnKept(flash, fs)'
  BY DEF OwnKept
<1>4. QED BY <1>1, <1>2, <1>3 DEF KeptIn

LEMMA WriteEndsKeeps ==
  ASSUME ShapeInv, AgreeInv, FitInv, Kept, KeptIn(flash, fs), WriteEnds
  PROVE  KeptIn(flash, fs)'
<1>1. /\ Writing /\ Operation1.step = "done" /\ fs = Call(TRUE) /\ m_op_queue # <<>>
      /\ flash' = flash /\ mode' = mode /\ hit' = hit /\ Pop /\ m_gc' = m_gc
      /\ m_latest_rec_id' = m_latest_rec_id
      /\ acked' = [acked EXCEPT ![Operation1.key] = Operation1.id]
  BY DEF WriteEnds, Runs, Writing, Operation1
<1>2. mode = "ready" /\ Started
  BY <1>1, WritingMode DEF Started
<1>3. m_gc.state = "begin"
  BY <1>1, KeptMeans DEF AgreeInv, WriteCalm
<1>4. RoomFit
  BY KeptMeans DEF FitInv
<1>5. PICK g : g = flash /\ g = flash'
  BY <1>1
<1>6. /\ AckedKept(g) /\ Whole(g) /\ OneKey(g) /\ Single(g) /\ QueueKept(g)
      /\ NewKept(g, fs) /\ OldKept(g, fs)
  BY <1>2, <1>5 DEF KeptIn, FlashKept, OwnKept
<1>7. /\ OpKept(g, Operation1) /\ Operation1 \in OpType
      /\ Operation1.op \in {"write", "update"}
      /\ Operation1.key \in Key /\ Operation1.id \in Nat
  BY <1>1, <1>6, FirstKept
<1>8. New(NewSlot(g), "valid")
  BY <1>1, <1>6, <1>7 DEF NewKept, LastStep
<1>9. PICK p0 \in Page, k0 \in 1..Slots :
        /\ p0 = Adr(Operation1.page)
        /\ \A q, t : Own(q, t) <=> q = p0 /\ t = k0
        /\ \A h : NewSlot(h) = h[p0].slots[k0]
  BY <1>2, <1>4, OwnPlace
<1>10. Held(g, p0, k0)
  <2>1. Unmixed
    BY KeptMeans
  <2>2. TagReady
    BY <1>2, <2>1, TagIsReady DEF AgreeInv
  <2>3. DataTags(flash)
    BY <2>2 DEF TagReady
  <2>4. flash[Adr(Operation1.page)].tag = "data"
    BY <1>1, <1>3, <2>3, WritingMode DEF DataTags
  <2>5. QED BY <1>5, <1>8, <1>9, <2>4 DEF Held, Home, New, Valid
<1>11. acked'[Operation1.key] = Operation1.id
       /\ \A key \in Key : key # Operation1.key => acked'[key] = acked[key]
  BY <1>1, <1>7 DEF ShapeInv, TypeInv
\* It is the only one of its key.
<1>12. ASSUME "twins" \notin hit, NEW p \in Page, NEW s \in 1..Slots, Held(g, p, s),
              g[p].slots[s].key = Operation1.key
       PROVE  p = p0 /\ s = k0
  <2>1. Own(p, s)
    <3>1. CASE Operation1.op = "update"
      BY <1>1, <1>6, <1>12, <3>1 DEF OldKept
    <3>2. CASE Operation1.op # "update"
      BY <1>7, <1>12, <3>2 DEF OpKept, Matches
    <3>3. QED BY <3>1, <3>2
  <2>2. QED BY <1>9, <2>1
<1>13. FlashKept(flash)'
  <2>1. \A p, s : Held(flash, p, s)' <=> Held(g, p, s)
    BY <1>5, HeldNext
  <2>2. AckedKept(flash)'
    <3>1. SUFFICES ASSUME NEW key \in Key, acked'[key] # 0
                   PROVE  \E p \in Page, s \in 1..Slots :
                            /\ Held(g, p, s) /\ g[p].slots[s].key = key
                            /\ g[p].slots[s].id >= acked'[key]
      BY <1>5, <2>1 DEF AckedKept
    <3>2. CASE key = Operation1.key
      <4>1. g[p0].slots[k0].key = key /\ g[p0].slots[k0].id = acked'[key]
        BY <1>8, <1>9, <1>11, <3>2 DEF New
      <4>2. g[p0].slots[k0].id >= acked'[key]
        BY <1>7, <1>11, <3>2, <4>1
      <4>3. QED BY <1>10, <4>1, <4>2
    <3>3. CASE key # Operation1.key
      BY <1>6, <1>11, <3>1, <3>3 DEF AckedKept
    <3>4. QED BY <3>2, <3>3
  <2>3. Whole(flash)'
    <3>1. SUFFICES ASSUME NEW p \in Page, NEW s \in 1..Slots, Held(g, p, s)
                   PROVE  WholeRecord(g[p].slots[s])'
      BY <1>5, <2>1 DEF Whole, WholeRecord
    <3>2. PICK r : r = g[p].slots[s]
      OBVIOUS
    <3>3. WholeRecord(r)
      BY <1>6, <3>1, <3>2 DEF Whole
    <3>4. CASE "twins" \notin hit /\ r.key = Operation1.key
      <4>1. r.id = Operation1.id
        BY <1>8, <1>9, <1>12, <3>1, <3>2, <3>4 DEF New
      <4>2. r.id >= acked'[r.key]
        BY <1>7, <1>11, <3>4, <4>1
      <4>3. QED BY <3>2, <3>3, <4>2 DEF WholeRecord
    <3>5. CASE ~("twins" \notin hit /\ r.key = Operation1.key)
      BY <1>1, <1>11, <3>2, <3>3, <3>5 DEF WholeRecord
    <3>6. QED BY <3>4, <3>5
  <2>4. OneKey(flash)'
    BY <1>5, <1>6, <2>1 DEF OneKey
  <2>5. Single(flash)'
    <3>1. SUFFICES ASSUME "twins" \notin hit, NEW p \in Page, NEW s \in 1..Slots,
                          NEW q \in Page, NEW t \in 1..Slots,
                          Held(g, p, s), Held(g, q, t),
                          g[p].slots[s].key = g[q].slots[t].key
                   PROVE  p = q /\ s = t
      BY <1>1, <1>5, <2>1 DEF Single
    <3>2. CASE Own(p, s) \/ Own(q, t)
      <4>1. g[p].slots[s].key = Operation1.key /\ g[q].slots[t].key = Operation1.key
        BY <1>8, <1>9, <3>1, <3>2 DEF New
      <4>2. p = p0 /\ s = k0
        BY <1>12, <3>1, <4>1
      <4>3. q = p0 /\ t = k0
        BY <1>12, <3>1, <4>1
      <4>4. QED BY <4>2, <4>3
    <3>3. CASE ~Own(p, s) /\ ~Own(q, t)
      BY <1>6, <3>1, <3>3 DEF Single
    <3>4. QED BY <3>2, <3>3
  <2>6. QED BY <2>2, <2>3, <2>4, <2>5 DEF FlashKept
<1>14. \A p \in Page, s \in 1..Slots :
         Own(p, s) /\ Held(g, p, s) =>
           g[p].slots[s].key = Operation1.key /\ g[p].slots[s].id = Operation1.id
  BY <1>8, <1>9 DEF New
<1>15. \A key \in Key :
         acked'[key] = acked[key] \/ (Writing /\ key = Operation1.key)
  BY <1>1, <1>11
<1>16. QueueKept(flash)' /\ ~Started'
  BY <1>1, <1>2, <1>5, <1>6, <1>14, <1>15, PopQueue
<1>17. GcKept(flash, fs)'
  BY <1>1, <1>3 DEF GcKept
<1>18. QED BY <1>1, <1>2, <1>5, <1>13, <1>16, <1>17, PopKeeps

LEMMA WriteFailsKeeps ==
  ASSUME ShapeInv, AgreeInv, FitInv, Kept, KeptIn(flash, fs), Kept', WriteFails
  PROVE  KeptIn(flash, fs)'
<1>1. "gap" \notin hit'
  BY DEF Kept, Unhurt
<1>2. Operation1.step \notin {"begin", "finalize"}
  BY <1>1 DEF WriteFails
<1>3. /\ Writing /\ fs = Call(FALSE) /\ m_op_queue # <<>>
      /\ flash' = flash /\ mode' = mode /\ Pop /\ m_gc' = m_gc
      /\ m_latest_rec_id' = m_latest_rec_id /\ acked' = acked
      /\ hit \subseteq hit'
      /\ Updating("done") => "twins" \in hit'
  BY <1>2 DEF WriteFails, Fails, Writing, Operation1
<1>4. mode = "ready" /\ Started
  BY <1>2, <1>3, WritingMode DEF Started
<1>5. m_gc.state = "begin"
  BY <1>2, <1>3, KeptMeans DEF AgreeInv, WriteCalm
<1>6. RoomFit
  BY KeptMeans DEF FitInv
<1>7. PICK g : g = flash /\ g = flash'
  BY <1>3
<1>8. fs # Call(TRUE)
  BY <1>3, FsFacts
<1>9. "twins" \notin hit' => Lone(g)
  BY <1>3, <1>6, <1>7, <1>8, Alone
<1>10. FlashKept(flash)'
  <2>1. AckedKept(g) /\ Whole(g) /\ OneKey(g)
    BY <1>7 DEF KeptIn, FlashKept
  <2>2. QED BY <1>3, <1>7, <1>9, <2>1, FlashStays DEF Lone
<1>11. \A p \in Page, s \in 1..Slots :
         Own(p, s) /\ Held(g, p, s) =>
           g[p].slots[s].key = Operation1.key /\ g[p].slots[s].id = Operation1.id
  BY <1>3, <1>6, <1>7, OwnRecord
<1>12. QueueKept(flash)' /\ ~Started'
  <2>1. QueueKept(g)
    BY <1>7 DEF KeptIn
  <2>2. QED BY <1>3, <1>4, <1>7, <1>11, <2>1, PopQueue
<1>13. GcKept(flash, fs)'
  BY <1>3, <1>5 DEF GcKept
<1>14. QED BY <1>3, <1>4, <1>7, <1>10, <1>12, <1>13, PopKeeps

(***************************************************************************)
(* KeptInv: the collection.                                                *)
(***************************************************************************)

\* A step of a collection, and the end of one.
LEMMA GcFlashStays ==
  ASSUME ShapeInv, Collecting, KeptIn(flash, fs), mode = "ready",
         UNCHANGED <<flash, mode, acked, m_latest_rec_id>>, hit \subseteq hit'
  PROVE  FlashKept(flash)'
<1>1. PICK g : g = flash /\ g = flash'
  OBVIOUS
<1>2. AckedKept(g) /\ Whole(g) /\ OneKey(g) /\ Single(g)
  BY <1>1 DEF KeptIn, FlashKept
<1>3. \A p, s : ~Own(p, s)
  BY NotStarted
<1>4. "twins" \notin hit' =>
        \A p, q \in Page, s, t \in 1..Slots :
          /\ Held(g, p, s) /\ Held(g, q, t) /\ g[p].slots[s].key = g[q].slots[t].key
          /\ ~Own(p, s)' /\ ~Own(q, t)'
          => p = q /\ s = t
  BY <1>2, <1>3 DEF Single
<1>5. QED BY <1>1, <1>2, <1>4, FlashStays

LEMMA GcGoesKeeps ==
  ASSUME ShapeInv, Collecting, KeptIn(flash, fs), mode = "ready",
         UNCHANGED <<flash, mode, acked, m_latest_rec_id>>, hit \subseteq hit',
         m_op_queue' = m_op_queue, GcKept(flash, fs)'
  PROVE  KeptIn(flash, fs)'
<1>1. FlashKept(flash)'
  BY GcFlashStays
<1>2. PICK g : g = flash /\ g = flash'
  OBVIOUS
<1>3. ~Started' /\ \A p, s : ~Own(p, s)
  BY NotStarted DEF Started, Writing, Operation1, Collecting, Writes
<1>4. QueueKept(flash)'
  <2>1. QueueKept(g)
    BY <1>2 DEF KeptIn
  <2>2. QED BY <1>2, <1>3, <2>1, SameQueue
<1>5. EraseKept(flash, fs)' /\ OwnKept(flash, fs)'
  BY <1>3 DEF EraseKept, OwnKept
<1>6. IdsKept(flash)'
  BY <1>2 DEF KeptIn, IdsKept
<1>7. QED BY <1>1, <1>4, <1>5, <1>6 DEF KeptIn

LEMMA GcPopKeeps ==
  ASSUME ShapeInv, Collecting, KeptIn(flash, fs), mode = "ready",
         UNCHANGED <<flash, mode, acked, m_latest_rec_id>>, hit \subseteq hit',
         Pop, GcKept(flash, fs)'
  PROVE  KeptIn(flash, fs)'
<1>1. FlashKept(flash)'
  BY GcFlashStays
<1>2. PICK g : g = flash /\ g = flash'
  OBVIOUS
<1>3. m_op_queue # <<>> /\ \A p, s : ~Own(p, s)
  BY NotStarted DEF Collecting
<1>4. QueueKept(g) /\ KeptIn(g, fs)
  BY <1>2 DEF KeptIn
<1>5. QueueKept(flash)' /\ ~Started'
  BY <1>2, <1>3, <1>4, PopQueue
<1>6. QED BY <1>1, <1>2, <1>3, <1>4, <1>5, PopKeeps

\* The next record to be copied is the next one.
FindsNext(gc, swap) ==
  \/ /\ m_gc'.state = "copy" /\ m_swap_page' = swap /\ m_gc'.src > gc.src
     /\ m_gc'.src \in Records(Adr(gc.cur))
     /\ \A s \in Records(Adr(gc.cur)) : s > gc.src => m_gc'.src <= s
  \/ /\ m_gc'.state = "erase" /\ m_swap_page' = swap
     /\ \A s \in Records(Adr(gc.cur)) : ~(s > gc.src)
  \/ m_gc'.state = "discard"

LEMMA NextFound ==
  ASSUME ShapeInv, mode = "ready", UNCHANGED <<flash, m_pages>>,
         NEW gc, NEW swap, GcArguments(gc, swap), GcFindNext(gc, swap)
  PROVE  GcGoes(gc) /\ FindsNext(gc, swap)
<1>1. gc \in GcType /\ gc.cur \in DataPages /\ swap \in SwapType /\ swap.addr = Swap
  BY DEF GcArguments
<1>2. PICK next : next = {s \in Records(Adr(gc.cur)) : s > gc.src}
  OBVIOUS
<1>3. GcGoes(gc)
  BY GcFindNextFacts
<1>4. CASE next = {}
  <2>1. GcErase(gc, swap)
    BY <1>2, <1>4 DEF GcFindNext, Adr
  <2>2. \/ m_gc'.state = "erase" /\ m_swap_page' = swap
        \/ m_gc'.state = "discard"
    BY <2>1, GcEraseFacts
  <2>3. \A s \in Records(Adr(gc.cur)) : ~(s > gc.src)
    BY <1>2, <1>4
  <2>4. QED BY <1>3, <2>2, <2>3 DEF FindsNext
<1>5. CASE next # {}
  <2>1. Records(Adr(gc.cur)) \subseteq 1..Slots
    BY <1>1, DataPageFacts, UsedFacts
  <2>2. next \in SUBSET Nat
    BY <1>2, <2>1, Constants
  <2>3. PICK s \in next : s = Min(next) /\ \A t \in next : s <= t
    BY <1>5, <2>2, MinFacts
  <2>4. s \in Records(Adr(gc.cur)) /\ s > gc.src
    BY <1>2, <2>3
  <2>5. PICK g : g = [gc EXCEPT !.src = s]
    OBVIOUS
  <2>6. g \in GcType /\ g.cur = gc.cur /\ g.src = s
    <3>1. s \in Nat
      BY <2>2
    <3>2. QED BY <3>1, <1>1, <2>5 DEF GcType
  <2>7. GcCopy(g, swap)
    BY <1>2, <1>5, <2>3, <2>5, Zenon DEF GcFindNext, Adr
  <2>8. m_gc'.state = "copy" /\ m_swap_page' = swap /\ m_gc'.src = s
    <3>1. m_gc' = [g EXCEPT !.state = "copy"] /\ m_swap_page' = swap
      BY <2>7 DEF GcCopy
    <3>2. QED BY <2>6, <3>1 DEF GcType
  <2>9. \A t \in Records(Adr(gc.cur)) : t > gc.src => s <= t
    BY <1>2, <2>3
  <2>10. QED BY <1>3, <2>4, <2>8, <2>9 DEF FindsNext
<1>6. QED BY <1>4, <1>5

LEMMA NextPageFound ==
  ASSUME ShapeInv, mode = "ready", UNCHANGED <<flash, m_pages>>,
         NEW gc \in GcType, \A i \in gc.todo : i \in DataPages, GcNextPage(gc)
  PROVE  \/ m_gc'.state = "begin" /\ Pop
         \/ \E g : /\ GcArguments(g, m_swap_page) /\ GcGoes(g) /\ g.src = gc.src
                   /\ FindsNext(g, m_swap_page)
<1>1. PICK ready : ready = {i \in gc.todo : m_pages[i].open = 0 /\ m_pages[i].can_gc}
  OBVIOUS
<1>2. CASE ready = {}
  <2>1. m_gc' = [GcIdle EXCEPT !.run = gc.run] /\ Pop
    BY <1>1, <1>2 DEF GcNextPage
  <2>2. m_gc'.state = "begin"
    BY <2>1 DEF GcIdle
  <2>3. QED BY <2>1, <2>2
<1>3. CASE ready # {}
  <2>1. gc.todo \subseteq Index /\ \A i \in ready : i \in gc.todo
    BY <1>1 DEF GcType, Todos
  <2>2. ready \in SUBSET Nat
    BY <2>1, Constants
  <2>3. PICK i \in ready : i = Min(ready)
    BY <1>3, <2>2, MinFacts
  <2>4. PICK todo \in Todos : todo = Behind(gc.todo, i)
    BY <2>1 DEF Behind, Todos
  <2>5. PICK g : g = [gc EXCEPT !.cur = i, !.todo = todo]
    OBVIOUS
  <2>6. i \in Index /\ i \in DataPages
    BY <2>1
  <2>7. g \in GcType /\ g.cur = i /\ g.src = gc.src
    BY <2>5, <2>6 DEF GcType
  <2>8. GcFindNext(g, m_swap_page)
    BY <1>1, <1>3, <2>3, <2>4, <2>5 DEF GcNextPage
  <2>9. GcArguments(g, m_swap_page)
    BY <2>6, <2>7 DEF GcArguments, ShapeInv, TypeInv, Swap
  <2>10. GcGoes(g) /\ FindsNext(g, m_swap_page)
    BY <2>8, <2>9, NextFound
  <2>11. QED BY <2>7, <2>9, <2>10
<1>4. QED BY <1>2, <1>3

\* The records up to slot n of page c are those up to slot m of page w.
CopiedFrom(c, w, n, m) ==
  \A t \in 1..Slots : t <= m /\ Valid(flash[w].slots[t]) =>
    \E s \in 1..Slots : s <= n /\ flash[c].slots[s] = flash[w].slots[t]
CopiedTo(c, w, n, m) ==
  \A s \in 1..Slots : s <= n /\ Valid(flash[c].slots[s]) =>
    \E t \in 1..Slots : t <= m /\ flash[w].slots[t] = flash[c].slots[s]
OnceOnly(w, m) ==
  "twins" \notin hit =>
    \A t, u \in 1..Slots :
      /\ t <= m /\ u <= m /\ Valid(flash[w].slots[t]) /\ Valid(flash[w].slots[u])
      /\ flash[w].slots[t].key = flash[w].slots[u].key
      => t = u

LEMMA FoundKept ==
  ASSUME ShapeInv, AgreeInv, FitInv, Kept, mode = "ready",
         UNCHANGED <<flash, m_pages>>, hit \subseteq hit',
         NEW gc, NEW swap, GcArguments(gc, swap), GcGoes(gc), FindsNext(gc, swap),
         NEW c \in Page, c = Adr(gc.cur), NEW w \in Page, w = Swap,
         NEW n \in Nat, n = gc.src, NEW m \in Nat, m = swap.offset, m <= n,
         Blank(flash[w], m),
         CopiedFrom(c, w, n, m), CopiedTo(c, w, n, m), OnceOnly(w, m)
  PROVE  GcKept(flash, fs)'
<1>1. PICK g : g = flash /\ g = flash'
  OBVIOUS
<1>2. \A s \in 1..Slots : Valid(g[c].slots[s]) <=> s \in Records(c)
  BY <1>1, ValidRecords
<1>3. /\ Cur' = gc.cur /\ Adr(Cur)' = c /\ Swap' = w /\ swap.addr = w
      /\ fs' \in FlashOpType
  BY DEF GcGoes, GcArguments, Cur, Adr, Swap
<1>4. "twins" \notin hit' => "twins" \notin hit
  OBVIOUS
<1>5. ASSUME m_gc'.state = "copy"
      PROVE  CopyKept(flash, fs)'
  <2>1. /\ m_swap_page'.offset = m /\ m_gc'.src > n /\ m_gc'.src \in Records(c)
        /\ \A s \in Records(c) : s > n => m_gc'.src <= s
    BY <1>5 DEF FindsNext
  <2>2. Records(c) \subseteq 1..Slots
    BY UsedFacts
  <2>3. PICK k \in 1..Slots :
          k = m_gc'.src /\ k > n /\ k \in Records(c) /\ \A s \in Records(c) : s > n => k <= s
    BY <2>1, <2>2
  <2>4. m + 1 \in 1..Slots
    BY <2>3, Constants
  <2>5. CopiesFrom(flash, m_gc.src, m_swap_page.offset)'
    <3>1. SUFFICES ASSUME NEW t \in 1..Slots, t <= m, Valid(g[w].slots[t])
                   PROVE  \E s \in 1..Slots : s < k /\ g[c].slots[s] = g[w].slots[t]
      BY <1>1, <1>3, <2>1, <2>3 DEF CopiesFrom, Valid
    <3>2. PICK s \in 1..Slots : s <= n /\ g[c].slots[s] = g[w].slots[t]
      BY <1>1, <3>1 DEF CopiedFrom
    <3>3. s < k
      BY <2>3, <3>2
    <3>4. QED BY <3>2, <3>3
  <2>6. CopiesTo(flash, m_gc.src, m_swap_page.offset)'
    <3>1. SUFFICES ASSUME NEW s \in 1..Slots, s < k, Valid(g[c].slots[s])
                   PROVE  \E t \in 1..Slots : t <= m /\ g[w].slots[t] = g[c].slots[s]
      BY <1>1, <1>3, <2>1, <2>3 DEF CopiesTo, Valid
    <3>2. s \in Records(c)
      BY <1>2, <3>1
    <3>3. s <= n
      BY <2>3, <3>1, <3>2
    <3>4. QED BY <1>1, <3>1, <3>3 DEF CopiedTo
  <2>7. CopiedOnce(flash, m_swap_page.offset)'
    BY <1>1, <1>3, <1>4, <2>1 DEF CopiedOnce, OnceOnly, Valid
  <2>8. Copied(flash)' = g[c].slots[k] /\ Valid(g[c].slots[k])
    BY <1>1, <1>2, <1>3, <2>3 DEF Copied
  <2>9. CopyPlace(flash)' = Empty
    <3>1. flash[w].slots[m + 1] = Empty
      BY <2>4 DEF Blank
    <3>2. QED BY <1>3, <2>1, <3>1 DEF CopyPlace
  <2>10. fs' # Call(TRUE)
    BY <1>3, FsFacts
  <2>11. Valid(Copied(flash))'
    BY <2>8 DEF Valid
  <2>12. Copies(flash, m_gc.src, m_swap_page.offset)'
    BY <2>5, <2>6, <2>7 DEF Copies
  <2>13. QED BY <2>9, <2>10, <2>11, <2>12 DEF CopyKept
<1>6. ASSUME m_gc'.state = "erase"
      PROVE  Copies(flash, Slots + 1, Slots)'
  <2>1. \A s \in Records(c) : ~(s > n)
    BY <1>6 DEF FindsNext
  <2>2. \A t \in 1..Slots : Valid(g[w].slots[t]) => t <= m
    BY <1>1, NoRecord DEF Blank
  <2>3. \A s \in 1..Slots : Valid(g[c].slots[s]) => s <= n
    BY <1>2, <2>1
  <2>4. CopiesFrom(flash, Slots + 1, Slots)'
    <3>1. SUFFICES ASSUME NEW t \in 1..Slots, Valid(g[w].slots[t])
                   PROVE  \E s \in 1..Slots :
                            s < Slots + 1 /\ g[c].slots[s] = g[w].slots[t]
      BY <1>1, <1>3 DEF CopiesFrom, Valid
    <3>2. PICK s \in 1..Slots : g[c].slots[s] = g[w].slots[t]
      BY <1>1, <2>2, <3>1 DEF CopiedFrom
    <3>3. s < Slots + 1
      BY Constants
    <3>4. QED BY <3>2, <3>3
  <2>5. CopiesTo(flash, Slots + 1, Slots)'
    <3>1. SUFFICES ASSUME NEW s \in 1..Slots, Valid(g[c].slots[s])
                   PROVE  \E t \in 1..Slots :
                            t <= Slots /\ g[w].slots[t] = g[c].slots[s]
      BY <1>1, <1>3 DEF CopiesTo, Valid
    <3>2. PICK t \in 1..Slots : g[w].slots[t] = g[c].slots[s]
      BY <1>1, <2>3, <3>1 DEF CopiedTo
    <3>3. t <= Slots
      BY Constants
    <3>4. QED BY <3>2, <3>3
  <2>6. CopiedOnce(flash, Slots)'
    <3>1. SUFFICES ASSUME "twins" \notin hit, NEW t \in 1..Slots, NEW u \in 1..Slots,
                          Valid(g[w].slots[t]), Valid(g[w].slots[u]),
                          g[w].slots[t].key = g[w].slots[u].key
                   PROVE  t = u
      BY <1>1, <1>3, <1>4 DEF CopiedOnce, Valid
    <3>2. t <= m /\ u <= m
      BY <2>2, <3>1
    <3>3. QED BY <1>1, <3>1, <3>2 DEF OnceOnly
  <2>7. QED BY <2>4, <2>5, <2>6 DEF Copies
<1>7. QED BY <1>5, <1>6 DEF GcKept

\* A step of a collection that leads to no copy and no erasure.
LEMMA GcElseKept ==
  ASSUME m_gc'.state \notin {"copy", "erase"}
  PROVE  GcKept(flash, fs)'
BY DEF GcKept

\* The first record of a page: none has been copied yet.
LEMMA NextPageKeeps ==
  ASSUME ShapeInv, AgreeInv, FitInv, Kept, KeptIn(flash, fs), Collecting, mode = "ready",
         UNCHANGED <<flash, mode, m_pages, acked, m_latest_rec_id>>, hit \subseteq hit',
         m_gc.state \in {"begin", "tag"},
         NEW gc \in GcType, gc.src = 0, \A i \in gc.todo : i \in DataPages, GcNextPage(gc)
  PROVE  KeptIn(flash, fs)'
<1>1. UNCHANGED <<flash, m_pages>> /\ UNCHANGED <<flash, mode, acked, m_latest_rec_id>>
  OBVIOUS
<1>2. CASE m_gc'.state = "begin" /\ Pop
  <2>1. GcKept(flash, fs)'
    BY <1>2, GcElseKept
  <2>2. QED BY <1>1, <1>2, <2>1, GcPopKeeps
<1>3. CASE \E g : /\ GcArguments(g, m_swap_page) /\ GcGoes(g) /\ g.src = gc.src
                  /\ FindsNext(g, m_swap_page)
  <2>1. PICK g : /\ GcArguments(g, m_swap_page) /\ GcGoes(g) /\ g.src = 0
                 /\ FindsNext(g, m_swap_page)
    BY <1>3
  <2>2. g.cur \in DataPages
    BY <2>1 DEF GcArguments
  <2>3. PICK c \in Page : c = Adr(g.cur)
    BY <2>2, DataPageFacts
  <2>4. PICK w \in Page : w = Swap
    BY DEF ShapeInv, AddrInv
  <2>5. RoomFit /\ FitIn(flash, fs)
    BY KeptMeans DEF FitInv
  <2>6. m_swap_page.offset = 0
    BY <2>5 DEF RoomFit
  <2>7. Blank(flash[w], 0)
    BY <2>4, <2>5 DEF FitIn, SwapFit
  <2>8. /\ CopiedFrom(c, w, 0, 0) /\ CopiedTo(c, w, 0, 0) /\ OnceOnly(w, 0)
    <3>1. \A s \in 1..Slots : ~(s <= 0)
      BY Constants
    <3>2. QED BY <3>1 DEF CopiedFrom, CopiedTo, OnceOnly
  <2>9. GcKept(flash, fs)'
    BY <1>1, <2>1, <2>3, <2>4, <2>6, <2>7, <2>8, FoundKept
  <2>10. m_op_queue' = m_op_queue
    BY <2>1 DEF GcGoes
  <2>11. QED BY <1>1, <2>9, <2>10, GcGoesKeeps
<1>4. QED BY <1>1, <1>2, <1>3, NextPageFound

\* The next record of the page: one more has been copied.
LEMMA GcCopiedKeeps ==
  ASSUME ShapeInv, FsInv, ResumeInv, SwapInv, AgreeInv, FitInv, Kept,
         KeptIn(flash, fs), GcCopied
  PROVE  KeptIn(flash, fs)'
<1>1. /\ UNCHANGED <<flash, mode, m_pages, acked, m_latest_rec_id>> /\ hit' = hit
      /\ fs = Call(TRUE) /\ ~m_gc.resume /\ m_gc.state = "copy"
  BY DEF GcCopied, GcRuns, Runs
<1>2. mode = "ready" /\ Collecting /\ m_op_queue' = m_op_queue
  BY GcCopiedFacts DEF GcMoves, Collecting
<1>3. PICK m \in Nat : m = m_swap_page.offset
  BY DEF ShapeInv, TypeInv, SwapType
<1>4. PICK at \in Nat : at = m + 1
  BY <1>3
<1>5. PICK swap : swap = [m_swap_page EXCEPT !.offset = @ + 1]
  OBVIOUS
<1>6. swap.addr = Swap /\ swap.offset = at /\ swap \in SwapType
  BY <1>3, <1>4, <1>5 DEF ShapeInv, TypeInv, SwapType, Swap
<1>7. GcArguments(m_gc, swap) /\ GcFindNext(m_gc, swap)
  BY <1>1, <1>5, <1>6 DEF GcArguments, ShapeInv, TypeInv, GcInv, Cur, GcCopied
<1>8. GcGoes(m_gc) /\ FindsNext(m_gc, swap)
  <2>1. UNCHANGED <<flash, m_pages>>
    BY <1>1
  <2>2. QED BY <1>2, <1>7, <2>1, NextFound
<1>9. Cur \in DataPages
  BY <1>7 DEF GcArguments, Cur
<1>10. PICK c \in Page : c = Adr(Cur)
  BY <1>2, <1>9, DataPageFacts
<1>11. PICK w \in Page : w = Swap
  BY <1>2 DEF ShapeInv, AddrInv
<1>12. RoomFit /\ FitIn(flash, fs)
  BY KeptMeans DEF FitInv
<1>13. PICK k \in 1..Slots : k = m_gc.src /\ m < k
  BY <1>1, <1>3, <1>12 DEF RoomFit, ShapeInv, GcInv
<1>14. at \in 1..Slots /\ at <= k
  BY <1>4, <1>13, Constants
<1>15. Blank(flash[w], at)
  BY <1>1, <1>3, <1>4, <1>11, <1>12 DEF FitIn, SwapFit
<1>16. PICK g : g = flash
  OBVIOUS
<1>17. CopyKept(g, fs) /\ OneKey(g) /\ Single(g)
  BY <1>1, <1>16 DEF KeptIn, GcKept, FlashKept
<1>18. /\ CopiesFrom(g, k, m) /\ CopiesTo(g, k, m) /\ CopiedOnce(g, m)
       /\ g[w].slots[at] = g[c].slots[k] /\ Valid(g[c].slots[k])
  BY <1>1, <1>2, <1>3, <1>4, <1>10, <1>11, <1>13, <1>17
     DEF CopyKept, Copies, CopyPlace, Copied
<1>19. CopiedFrom(c, w, k, at)
  <2>1. SUFFICES ASSUME NEW t \in 1..Slots, t <= at, Valid(g[w].slots[t])
                 PROVE  \E s \in 1..Slots : s <= k /\ g[c].slots[s] = g[w].slots[t]
    BY <1>16 DEF CopiedFrom
  <2>2. CASE t = at
    BY <1>13, <1>18, <2>2
  <2>3. CASE t # at
    <3>1. t <= m
      BY <1>4, <2>1, <2>3
    <3>2. PICK s \in 1..Slots : s < k /\ g[c].slots[s] = g[w].slots[t]
      BY <1>10, <1>11, <1>18, <2>1, <3>1 DEF CopiesFrom
    <3>3. s <= k
      BY <3>2
    <3>4. QED BY <3>2, <3>3
  <2>4. QED BY <2>2, <2>3
<1>20. CopiedTo(c, w, k, at)
  <2>1. SUFFICES ASSUME NEW s \in 1..Slots, s <= k, Valid(g[c].slots[s])
                 PROVE  \E t \in 1..Slots : t <= at /\ g[w].slots[t] = g[c].slots[s]
    BY <1>16 DEF CopiedTo
  <2>2. CASE s = k
    BY <1>14, <1>18, <2>2
  <2>3. CASE s # k
    <3>1. s < k
      BY <2>1, <2>3
    <3>2. PICK t \in 1..Slots : t <= m /\ g[w].slots[t] = g[c].slots[s]
      BY <1>10, <1>11, <1>18, <2>1, <3>1 DEF CopiesTo
    <3>3. t <= at
      BY <1>4, <3>2
    <3>4. QED BY <3>2, <3>3
  <2>4. QED BY <2>2, <2>3
<1>21. Home(g, c)
  BY <1>1, <1>2, <1>9, <1>10, <1>16, ReadyHomes
<1>22. OnceOnly(w, at)
  <2>1. SUFFICES ASSUME "twins" \notin hit, NEW t \in 1..Slots, NEW u \in 1..Slots,
                        t <= at, u <= at, Valid(g[w].slots[t]), Valid(g[w].slots[u]),
                        g[w].slots[t].key = g[w].slots[u].key
                 PROVE  t = u
    BY <1>16 DEF OnceOnly
  <2>2. ASSUME NEW v \in 1..Slots, v <= m, Valid(g[w].slots[v]),
               g[w].slots[v].key = g[c].slots[k].key
        PROVE  FALSE
    <3>1. PICK s \in 1..Slots : s < k /\ g[c].slots[s] = g[w].slots[v]
      BY <1>10, <1>11, <1>18, <2>2 DEF CopiesFrom
    <3>2. Held(g, c, s) /\ Held(g, c, k)
      BY <1>18, <1>21, <2>2, <3>1 DEF Held
    <3>3. g[c].slots[s].key = g[c].slots[k].key
      BY <2>2, <3>1
    <3>4. s = k
      BY <1>2, <1>17, <2>1, <3>2, <3>3, NotStarted DEF Single
    <3>5. QED BY <3>1, <3>4
  <2>3. CASE t <= m /\ u <= m
    BY <1>11, <1>18, <2>1, <2>3 DEF CopiedOnce
  <2>4. CASE t = at /\ u <= m
    BY <1>18, <2>1, <2>2, <2>4
  <2>5. CASE u = at /\ t <= m
    BY <1>18, <2>1, <2>2, <2>5
  <2>6. CASE t = at /\ u = at
    BY <2>6
  <2>7. QED BY <1>4, <2>1, <2>3, <2>4, <2>5, <2>6
<1>23. GcKept(flash, fs)'
  <2>1. k \in Nat /\ hit \subseteq hit' /\ UNCHANGED <<flash, m_pages>>
        /\ c = Adr(m_gc.cur)
    BY <1>1, <1>10, Constants DEF Cur
  <2>2. QED BY <1>2, <1>6, <1>7, <1>8, <1>11, <1>13, <1>14, <1>15, <1>19, <1>20,
               <1>22, <2>1, FoundKept
<1>24. QED BY <1>1, <1>2, <1>23, GcGoesKeeps

\* A collection that stays where it is.
LEMMA GcSameKept ==
  ASSUME GcKept(flash, fs), hit \subseteq hit', SameGc,
         UNCHANGED <<flash, m_swap_page>>,
         m_gc.state \in {"copy", "erase"} => Adr(Cur)' = Adr(Cur),
         m_gc'.state = "copy" /\ Collecting' /\ fs' = Call(TRUE) /\ ~m_gc'.resume
           => Collecting /\ fs = Call(TRUE) /\ ~m_gc.resume
  PROVE  GcKept(flash, fs)'
<1>1. PICK g : g = flash /\ g = flash'
  OBVIOUS
<1>2. PICK w : w = Swap /\ w = Swap' /\ m_swap_page' = m_swap_page
  BY DEF Swap
<1>3. /\ m_gc'.state = m_gc.state /\ m_gc'.src = m_gc.src
      /\ "twins" \notin hit' => "twins" \notin hit
  BY DEF SameGc
<1>4. GcKept(g, fs)
  BY <1>1
<1>5. ASSUME m_gc.state = "copy" PROVE CopyKept(flash, fs)'
  <2>1. CopyKept(g, fs)
    BY <1>4, <1>5 DEF GcKept
  <2>2. PICK c : c = Adr(Cur) /\ c = Adr(Cur)'
    BY <1>5
  <2>3. PICK n : n = m_gc.src /\ n = m_gc'.src
    BY <1>3
  <2>4. PICK m : m = m_swap_page.offset /\ m = m_swap_page'.offset
    BY <1>2
  <2>5. CopiesFrom(g, n, m) /\ CopiesTo(g, n, m) /\ CopiedOnce(g, m)
    BY <2>1, <2>3, <2>4 DEF CopyKept, Copies
  <2>6. CopiesFrom(flash, m_gc.src, m_swap_page.offset)'
    BY <1>1, <1>2, <2>2, <2>3, <2>4, <2>5 DEF CopiesFrom, Valid
  <2>7. CopiesTo(flash, m_gc.src, m_swap_page.offset)'
    BY <1>1, <1>2, <2>2, <2>3, <2>4, <2>5 DEF CopiesTo, Valid
  <2>8. CopiedOnce(flash, m_swap_page.offset)'
    BY <1>1, <1>2, <1>3, <2>4, <2>5 DEF CopiedOnce, Valid
  <2>9. Copied(flash)' = Copied(g) /\ CopyPlace(flash)' = CopyPlace(g)
    BY <1>1, <1>2, <2>2, <2>3, <2>4 DEF Copied, CopyPlace
  <2>10. Valid(Copied(flash))'
    BY <2>1, <2>9 DEF CopyKept, Valid
  <2>11. Copies(flash, m_gc.src, m_swap_page.offset)'
    BY <2>6, <2>7, <2>8 DEF Copies
  <2>12. QED BY <1>3, <1>5, <2>1, <2>9, <2>10, <2>11 DEF CopyKept
<1>6. ASSUME m_gc.state = "erase", g[Adr(Cur)] # ErasedPage
      PROVE  Copies(flash, Slots + 1, Slots)'
  <2>1. Copies(g, Slots + 1, Slots)
    BY <1>4, <1>6 DEF GcKept
  <2>2. PICK c : c = Adr(Cur) /\ c = Adr(Cur)'
    BY <1>6
  <2>3. CopiesFrom(flash, Slots + 1, Slots)'
    BY <1>1, <1>2, <2>1, <2>2 DEF Copies, CopiesFrom, Valid
  <2>4. CopiesTo(flash, Slots + 1, Slots)'
    BY <1>1, <1>2, <2>1, <2>2 DEF Copies, CopiesTo, Valid
  <2>5. CopiedOnce(flash, Slots)'
    BY <1>1, <1>2, <1>3, <2>1 DEF Copies, CopiedOnce, Valid
  <2>6. QED BY <2>3, <2>4, <2>5 DEF Copies
<1>7. m_gc.state = "erase" => (Adr(Cur)' = Adr(Cur))
  OBVIOUS
<1>8. QED BY <1>1, <1>3, <1>5, <1>6, <1>7 DEF GcKept

LEMMA GcTurnsKeep ==
  ASSUME ShapeInv, KeptIn(flash, fs), GcErased \/ GcPromoted
  PROVE  KeptIn(flash, fs)'
<1>1. GcMoves /\ m_gc'.state \in {"promote", "tag"}
  BY GcErasedFacts, GcPromotedFacts
<1>2. UNCHANGED <<flash, mode, acked, m_latest_rec_id>> /\ hit' = hit
  BY DEF GcErased, GcPromoted
<1>3. mode = "ready" /\ Collecting /\ m_op_queue' = m_op_queue
  BY <1>1 DEF GcMoves, Collecting
<1>4. GcKept(flash, fs)'
  BY <1>1, GcElseKept
<1>5. QED BY <1>2, <1>3, <1>4, GcGoesKeeps

LEMMA GcResumeKeeps ==
  ASSUME ShapeInv, KeptIn(flash, fs), GcResume
  PROVE  KeptIn(flash, fs)'
<1>1. UNCHANGED <<flash, mode, m_pages, acked, m_latest_rec_id>> /\ hit \subseteq hit'
  BY DEF GcResume
<1>2. PICK gc \in GcType :
           /\ mode = "ready" /\ m_op_queue # <<>> /\ Operation1.op = "gc"
           /\ gc.state = m_gc.state /\ gc.cur = m_gc.cur
           /\ gc.cur \in DataPages /\ gc.src = m_gc.src
           /\ \/ m_gc.state = "copy" /\ GcCopy(gc, m_swap_page) /\ GcGoes(gc)
                 /\ m_gc'.state = "copy" /\ m_gc'.src = m_gc.src
                 /\ m_swap_page' = m_swap_page
              \/ m_gc.state = "erase" /\ GcErase(gc, m_swap_page) /\ GcGoes(gc)
              \/ GcAgain(gc)
              \/ /\ m_gc.state = "discard" /\ m_gc' = gc /\ Pop
                 /\ m_swap_page' = m_swap_page
  BY GcResumeFacts
<1>3. Collecting /\ mode = "ready" /\ GcKept(flash, fs)
  BY <1>2 DEF Collecting, KeptIn
<1>4. UNCHANGED <<flash, mode, acked, m_latest_rec_id>>
  BY <1>1
<1>5. ASSUME GcGoes(gc), SameGc, m_swap_page' = m_swap_page
      PROVE  KeptIn(flash, fs)'
  <2>1. Adr(Cur)' = Adr(Cur) /\ fs' \in FlashOpType /\ m_op_queue' = m_op_queue
    BY <1>1, <1>2, <1>5 DEF GcGoes, Cur, Adr
  <2>2. fs' # Call(TRUE)
    BY <2>1, FsFacts
  <2>3. UNCHANGED <<flash, m_swap_page>>
    BY <1>1, <1>5
  <2>4. GcKept(flash, fs)'
    BY <1>1, <1>3, <1>5, <2>1, <2>2, <2>3, GcSameKept
  <2>5. QED BY <1>1, <1>3, <1>4, <2>1, <2>4, GcGoesKeeps
<1>6. ASSUME m_gc'.state \notin {"copy", "erase"}, m_op_queue' = m_op_queue \/ Pop
      PROVE  KeptIn(flash, fs)'
  <2>1. GcKept(flash, fs)'
    BY <1>6, GcElseKept
  <2>2. QED BY <1>1, <1>3, <1>4, <1>6, <2>1, GcGoesKeeps, GcPopKeeps
<1>7. CASE m_gc.state = "copy" /\ GcGoes(gc)
           /\ m_gc'.state = "copy" /\ m_gc'.src = m_gc.src
           /\ m_swap_page' = m_swap_page
  <2>1. SameGc
    BY <1>2, <1>7 DEF GcGoes, SameGc
  <2>2. QED BY <1>5, <1>7, <2>1
<1>8. CASE m_gc.state = "erase" /\ GcErase(gc, m_swap_page) /\ GcGoes(gc)
  <2>1. /\ \/ m_gc'.state = "erase" /\ m_swap_page' = m_swap_page
           \/ m_gc'.state = "discard"
        /\ m_gc'.src = gc.src
    <3>1. m_swap_page \in SwapType /\ m_swap_page.addr = Swap
      BY DEF ShapeInv, TypeInv, Swap
    <3>2. GcArguments(gc, m_swap_page)
      BY <1>2, <3>1 DEF GcArguments
    <3>3. UNCHANGED <<flash, m_pages>>
      BY <1>1
    <3>4. QED BY <1>2, <1>8, <3>2, <3>3, GcEraseFacts
  <2>2. CASE m_gc'.state = "erase" /\ m_swap_page' = m_swap_page
    <3>1. SameGc
      BY <1>2, <1>8, <2>1, <2>2 DEF GcGoes, SameGc
    <3>2. QED BY <1>5, <1>8, <2>2, <3>1
  <2>3. CASE m_gc'.state = "discard"
    <3>1. m_op_queue' = m_op_queue
      BY <1>8 DEF GcGoes
    <3>2. QED BY <1>6, <2>3, <3>1
  <2>4. QED BY <2>1, <2>2, <2>3
<1>9. CASE GcAgain(gc)
  <2>1. m_gc'.state \in {"promote", "tag"} /\ m_op_queue' = m_op_queue
    BY <1>9 DEF GcAgain
  <2>2. QED BY <1>6, <2>1
<1>10. CASE m_gc.state = "discard" /\ m_gc' = gc /\ Pop
  <2>1. m_gc'.state = "discard"
    BY <1>2, <1>10
  <2>2. QED BY <1>6, <1>10, <2>1
<1>11. QED BY <1>2, <1>7, <1>8, <1>9, <1>10

LEMMA GcFailsKeeps ==
  ASSUME ShapeInv, KeptIn(flash, fs), Kept', GcFails
  PROVE  KeptIn(flash, fs)'
<1>1. /\ UNCHANGED <<flash, mode, m_pages, m_swap_page, m_gc, acked, m_latest_rec_id>>
      /\ Pop /\ Fails({"gc"})
      /\ hit' = IF AnotherGc /\ ~m_gc.resume THEN hit \union {"advance"} ELSE hit
  BY DEF GcFails
<1>2. mode = "ready" /\ Collecting
  BY <1>1, CollectingMode DEF Collecting
<1>3. Collecting' => m_gc.resume
  <2>1. ~(AnotherGc /\ ~m_gc.resume)
    BY <1>1 DEF Kept, Unhurt
  <2>2. Collecting' => AnotherGc
    BY <1>1, <1>2, AnotherFacts DEF Collecting
  <2>3. QED BY <2>1, <2>2
<1>4. hit \subseteq hit' /\ SameGc /\ Adr(Cur)' = Adr(Cur) /\ m_gc' = m_gc
  BY <1>1 DEF SameGc, Adr, Cur
<1>5. UNCHANGED <<flash, m_swap_page>>
  BY <1>1
<1>6. GcKept(flash, fs)
  BY DEF KeptIn
<1>7. GcKept(flash, fs)'
  BY <1>3, <1>4, <1>5, <1>6, GcSameKept
<1>8. UNCHANGED <<flash, mode, acked, m_latest_rec_id>>
  BY <1>1
<1>9. QED BY <1>1, <1>2, <1>4, <1>7, <1>8, GcPopKeeps

LEMMA GcKeeps ==
  ASSUME ShapeInv, FsInv, ResumeInv, SwapInv, AgreeInv, FitInv, Kept,
         KeptIn(flash, fs), Kept',
         \/ GcBegin \/ GcCopied \/ GcErased \/ GcPromoted \/ GcTagged
         \/ GcResume \/ GcFails
  PROVE  KeptIn(flash, fs)'
<1>1. CASE GcBegin \/ GcTagged
  <2>1. /\ UNCHANGED <<flash, mode, m_pages, acked, m_latest_rec_id>> /\ hit' = hit
        /\ m_gc.state \in {"begin", "tag"} /\ Runs({"gc"})
    BY <1>1 DEF GcBegin, GcTagged, GcRuns
  <2>2. mode = "ready" /\ Collecting
    BY <2>1, CollectingMode DEF Collecting
  <2>3. \E gc \in GcType : /\ gc.src = 0 /\ GcNextPage(gc)
                           /\ \A i \in gc.todo : i \in DataPages
    <3>1. m_gc \in GcType /\ DataPages \in Todos
      BY DEF ShapeInv, TypeInv, Todos, DataPages
    <3>2. CASE GcTagged
      BY <3>1, <3>2 DEF GcTagged, GcRuns, ShapeInv, GcInv
    <3>3. CASE GcBegin
      <4>1. PICK run \in Nat : run = m_gc.run + 1
        BY <3>1 DEF GcType
      <4>2. PICK gc : gc = [GcIdle EXCEPT !.todo = DataPages, !.run = run]
        OBVIOUS
      <4>3. gc \in GcType /\ gc.src = 0 /\ gc.todo = DataPages
        BY <3>1, <4>2, Constants DEF GcIdle, GcType
      <4>4. GcNextPage(gc)
        BY <3>3, <4>1, <4>2 DEF GcBegin
      <4>5. QED BY <4>3, <4>4
    <3>4. QED BY <1>1, <3>2, <3>3
  <2>4. QED BY <2>1, <2>2, <2>3, NextPageKeeps
<1>2. QED BY <1>1, GcCopiedKeeps, GcTurnsKeep, GcResumeKeeps, GcFailsKeeps

(***************************************************************************)
(* KeptInv: the callers.                                                   *)
(***************************************************************************)

\* What a caller leaves alone.
CallStays ==
  /\ mode = "ready" /\ mode' = mode /\ PagesStay /\ SameGc
  /\ flash' = flash /\ m_swap_page' = m_swap_page /\ acked' = acked
  /\ hit \subseteq hit' /\ m_latest_rec_id <= m_latest_rec_id'
  /\ Started => Writing' /\ Operation1' = Operation1 /\ fs' = fs
  /\ Started' => Started
  /\ m_gc'.state = "copy" /\ Collecting' /\ fs' = Call(TRUE) /\ ~m_gc'.resume
       => Collecting /\ fs = Call(TRUE) /\ ~m_gc.resume

LEMMA OwnStays ==
  ASSUME ShapeInv, CallStays
  PROVE  \A p, s : Own(p, s)' <=> Own(p, s)
<1>1. CASE Started
  <2>1. Writing /\ Writing' /\ Operation1' = Operation1 /\ Started'
    BY <1>1 DEF CallStays, Started
  <2>2. /\ Adr(Operation1.page)' = Adr(Operation1.page)
        /\ m_pages'[Operation1'.page].offset = m_pages[Operation1.page].offset
    BY <2>1, SamePlaces DEF CallStays
  <2>3. QED BY <1>1, <2>1, <2>2 DEF Own
<1>2. CASE ~Started
  BY <1>2 DEF CallStays, Own
<1>3. QED BY <1>1, <1>2

LEMMA CallKeeps ==
  ASSUME ShapeInv, ShapeInv', KeptIn(flash, fs), CallStays, QueueKept(flash)'
  PROVE  KeptIn(flash, fs)'
<1>1. PICK g : g = flash /\ g = flash'
  BY DEF CallStays
<1>2. AckedKept(g) /\ Whole(g) /\ OneKey(g) /\ Single(g) /\ IdsKept(g) /\ OwnKept(g, fs)
  BY <1>1 DEF KeptIn, FlashKept
<1>3. \A p, s : Own(p, s)' <=> Own(p, s)
  BY OwnStays
<1>4. FlashKept(flash)'
  <2>1. "twins" \notin hit' =>
          \A p, q \in Page, s, t \in 1..Slots :
            /\ Held(g, p, s) /\ Held(g, q, t) /\ g[p].slots[s].key = g[q].slots[t].key
            /\ ~Own(p, s)' /\ ~Own(q, t)'
            => p = q /\ s = t
    BY <1>2, <1>3 DEF Single, CallStays
  <2>2. QED BY <1>1, <1>2, <2>1, FlashStays DEF CallStays
<1>5. IdsKept(flash)'
  <2>1. SUFFICES ASSUME NEW p \in Page, NEW s \in 1..Slots, Valid(g[p].slots[s])
                 PROVE  g[p].slots[s].id <= m_latest_rec_id'
    BY <1>1 DEF IdsKept, Valid
  <2>2. g[p].slots[s].id <= m_latest_rec_id
    BY <1>2, <2>1 DEF IdsKept, CallStays
  <2>3. m_latest_rec_id \in Nat /\ m_latest_rec_id' \in Nat
    BY DEF ShapeInv, TypeInv
  <2>4. g[p].slots[s].id \in Nat
    BY <1>1 DEF ShapeInv, TypeInv, FlashType, PageType, SlotType
  <2>5. QED BY <2>2, <2>3, <2>4 DEF CallStays
<1>6. OwnKept(flash, fs)'
  <2>1. SUFFICES ASSUME Started, Started' PROVE NewKept(flash, fs)' /\ OldKept(flash, fs)'
    BY DEF OwnKept, CallStays
  <2>2. Writing /\ Writing' /\ Operation1' = Operation1 /\ fs' = fs /\ Operation1.step # "begin"
    BY <2>1 DEF CallStays, Started
  <2>3. NewKept(g, fs) /\ OldKept(g, fs)
    BY <1>2, <2>1 DEF OwnKept
  <2>4. NewSlot(flash)' = NewSlot(g) /\ LastStep' = LastStep
    BY <1>1, <2>2, SamePlaces DEF LastStep, CallStays
  <2>5. NewKept(flash, fs)'
    BY <2>2, <2>3, <2>4 DEF NewKept, New, Valid
  <2>6. Operation1.op = "update" => OldSlot(flash)' = OldSlot(g)
    BY <1>1, <2>2, SameOld DEF CallStays
  <2>7. "twins" \notin hit' => "twins" \notin hit
    BY DEF CallStays
  <2>8. OldKept(flash, fs)'
    <3>1. SUFFICES ASSUME Operation1.op = "update" PROVE OldKept(flash, fs)'
      BY <2>2 DEF OldKept
    <3>2. PICK old : old = OldSlot(g) /\ old = OldSlot(flash)'
      BY <2>6, <3>1
    <3>3. /\ old.key = Operation1.key /\ old.id = Operation1.old
          /\ ~(Operation1.step = "done" /\ fs = Call(TRUE)) => old.state = "valid"
          /\ Operation1.step = "done" /\ fs = Call(TRUE) => old.state = "dirty"
      BY <2>3, <3>1, <3>2 DEF OldKept
    <3>4. Operation1.step = "done" /\ fs = Call(TRUE) /\ "twins" \notin hit' =>
            \A p \in Page, s \in 1..Slots :
              Held(flash, p, s)' /\ flash'[p].slots[s].key = Operation1.key => Own(p, s)'
      BY <1>1, <1>3, <2>3, <2>7, <3>1, HeldNext DEF OldKept
    <3>5. QED BY <2>2, <3>2, <3>3, <3>4 DEF OldKept
  <2>9. QED BY <2>5, <2>8
<1>7. EraseKept(flash, fs)'
  BY DEF EraseKept, CallStays
<1>8. GcKept(flash, fs)'
  <2>1. m_gc.state \in {"copy", "erase"} => Adr(Cur)' = Adr(Cur)
    <3>1. SUFFICES ASSUME m_gc.state \in {"copy", "erase"} PROVE Adr(Cur)' = Adr(Cur)
      OBVIOUS
    <3>2. Cur \in Index /\ Cur' = Cur
      BY <3>1 DEF CallStays, SameGc, ShapeInv, GcInv, DataPages, Cur
    <3>3. QED BY <3>2 DEF CallStays, PagesStay, SamePages, Adr
  <2>2. QED BY <2>1, GcSameKept DEF CallStays, KeptIn
<1>9. QED BY <1>4, <1>5, <1>6, <1>7, <1>8 DEF KeptIn

\* An operation behind those in the queue.
LEMMA EnqueuedKept ==
  ASSUME ShapeInv, ShapeInv', NEW g, g = flash', QueueKept(g), CallStays,
         NEW op \in OpType, Enqueued(op),
         op.op \in Writes =>
           /\ OpKept(flash, op)'
           /\ \A i \in 1..Len(m_op_queue) : m_op_queue[i].op \in Writes =>
                Apart(m_op_queue[i], op) /\ Apart(op, m_op_queue[i])
  PROVE  QueueKept(flash)'
<1>1. PICK n \in Nat : n = Len(m_op_queue) /\ Len(m_op_queue') = n + 1
  BY DEF Enqueued
<1>2. m_op_queue'[n + 1] = op /\ \A j \in 1..n : m_op_queue'[j] = m_op_queue[j]
  BY <1>1 DEF Enqueued
<1>3. ASSUME NEW j \in 1..n, m_op_queue[j].op \in Writes
      PROVE  OpKept(flash, m_op_queue[j])'
  <2>1. PICK o : o = m_op_queue[j]
    OBVIOUS
  <2>2. OpKept(g, o)
    BY <1>1, <1>3, <2>1 DEF QueueKept
  <2>3. o \in OpType
    <3>1. m_op_queue \in Seq(OpType)
      BY DEF ShapeInv, TypeInv
    <3>2. QED BY <1>1, <2>1, <3>1
  <2>4. o.id \in Nat
    BY <2>3 DEF OpType
  <2>5. m_latest_rec_id \in Nat /\ m_latest_rec_id' \in Nat
    BY DEF ShapeInv, TypeInv
  <2>6. \A p \in Page, s \in 1..Slots :
          Held(g, p, s) /\ ~Own(p, s)' => ~Own(p, s) \/ Matches(o, g[p].slots[s])
    BY OwnStays
  <2>7. OpKept(flash, o)'
    <3>1. hit \subseteq hit' /\ m_latest_rec_id <= m_latest_rec_id' /\ acked'[o.key] = acked[o.key]
      BY DEF CallStays
    <3>2. QED BY <2>2, <2>4, <2>5, <2>6, <3>1, OpStays
  <2>8. PICK o2 : o2 = m_op_queue'[j] /\ o2 = o
    BY <1>2, <2>1
  <2>9. QED BY <2>7, <2>8 DEF OpKept, Matches
<1>4. ASSUME NEW j \in 1..n + 1, m_op_queue'[j].op \in Writes
      PROVE  /\ OpKept(flash, m_op_queue[j])'
             /\ \A i \in 1..n + 1 : m_op_queue'[i].op \in Writes /\ i # j =>
                  Apart(m_op_queue'[i], m_op_queue'[j])
  <2>1. CASE j = n + 1
    <3>1. m_op_queue'[j] = op /\ op.op \in Writes
      BY <1>2, <1>4, <2>1
    <3>2. OpKept(flash, m_op_queue[j])'
      BY <3>1 DEF OpKept, Matches
    <3>3. ASSUME NEW i \in 1..n + 1, m_op_queue'[i].op \in Writes, i # j
          PROVE  Apart(m_op_queue'[i], m_op_queue'[j])
      <4>1. i \in 1..n
        BY <2>1, <3>3
      <4>2. QED BY <1>1, <1>2, <3>1, <3>3, <4>1
    <3>4. QED BY <3>2, <3>3
  <2>2. CASE j # n + 1
    <3>1. j \in 1..n
      BY <2>2
    <3>2. m_op_queue'[j] = m_op_queue[j] /\ m_op_queue[j].op \in Writes
      BY <1>2, <1>4, <3>1
    <3>3. OpKept(flash, m_op_queue[j])'
      BY <1>3, <3>1, <3>2 DEF OpKept, Matches
    <3>4. ASSUME NEW i \in 1..n + 1, m_op_queue'[i].op \in Writes, i # j
          PROVE  Apart(m_op_queue'[i], m_op_queue'[j])
      <4>1. CASE i = n + 1
        <5>1. m_op_queue'[i] = op /\ op.op \in Writes
          BY <1>2, <3>4, <4>1
        <5>2. QED BY <1>1, <3>1, <3>2, <5>1
      <4>2. CASE i # n + 1
        <5>1. i \in 1..n
          BY <4>2
        <5>2. m_op_queue'[i] = m_op_queue[i]
          BY <1>2, <5>1
        <5>3. QED BY <1>1, <3>1, <3>2, <3>4, <5>1, <5>2 DEF QueueKept
      <4>3. QED BY <4>1, <4>2
    <3>5. QED BY <3>3, <3>4
  <2>3. QED BY <2>1, <2>2
<1>5. QED BY <1>1, <1>4 DEF QueueKept, Apart

\* The operation that write_enqueue puts in the queue.
LEMMA NewWrite ==
  ASSUME ShapeInv, NEW key \in Key, write_enqueue(key)
  PROVE  \E op \in OpType :
           /\ Enqueued(op) /\ op.op \in Writes /\ op.step = "begin"
           /\ op.key = key /\ op.id = m_latest_rec_id + 1
           /\ OfKey(key) = {} => op.op = "write" /\ op.old = 0
           /\ OfKey(key) # {} =>
                op.op = "update" /\ op.old = SlotAt(Lowest(OfKey(key))).id
<1>1. mode = "ready" /\ Calm
  BY DEF write_enqueue, Calm
<1>2. PICK room : room = {i \in DataPages : HasRoom(i)}
  OBVIOUS
<1>3. room # {} /\ room \in SUBSET Nat
  BY <1>2, Constants DEF write_enqueue, DataPages
<1>4. PICK i \in room : i = Min(room)
  BY <1>3, MinFacts
<1>5. i \in Index
  BY <1>2, <1>4 DEF DataPages
<1>6. PICK kind \in Writes : kind = IF OfKey(key) = {} THEN "write" ELSE "update"
  BY DEF Writes
<1>7. PICK old \in Nat : old = IF OfKey(key) = {} THEN 0 ELSE SlotAt(Lowest(OfKey(key))).id
  <2>1. CASE OfKey(key) = {}
    BY <2>1
  <2>2. CASE OfKey(key) # {}
    <3>1. Lowest(OfKey(key)) \in OfKey(key)
      BY <2>2, OfKeyFacts, LowestFacts
    <3>2. SlotAt(Lowest(OfKey(key))) \in SlotType
      BY <1>1, <3>1, OfKeyFacts, SlotAtType
    <3>3. SlotAt(Lowest(OfKey(key))).id \in Nat
      BY <3>2 DEF SlotType
    <3>4. QED BY <2>2, <3>3
  <2>3. QED BY <2>1, <2>2
<1>8. PICK id \in Nat : id = m_latest_rec_id + 1
  BY DEF ShapeInv, TypeInv
<1>9. PICK op0 \in OpType : op0 = Operation(kind, "begin") /\ op0.op = kind /\ op0.step = "begin"
  <2>1. kind \in {"init", "write", "update", "gc"} /\ "begin" \in Steps
    BY DEF Steps, Writes
  <2>2. QED BY <2>1, OperationType
<1>10. PICK op : op = [op0 EXCEPT !.key = key, !.id = id, !.page = i, !.old = old]
  OBVIOUS
<1>11. /\ op \in OpType /\ op.op = kind /\ op.step = "begin"
       /\ op.key = key /\ op.id = id /\ op.old = old
  BY <1>5, <1>9, <1>10 DEF OpType
<1>12. Enqueue(op)
  <2>1. Enqueue([Operation(IF OfKey(key) = {} THEN "write" ELSE "update", "begin")
             EXCEPT !.key = key, !.id = m_latest_rec_id + 1, !.page = Min(room),
                    !.old = IF OfKey(key) = {} THEN 0 ELSE SlotAt(Lowest(OfKey(key))).id])
    BY <1>2 DEF write_enqueue
  <2>2. QED BY <2>1, <1>4, <1>6, <1>7, <1>8, <1>9, <1>10
<1>13. Enqueued(op)
  BY <1>1, <1>11, <1>12, EnqueueFacts
<1>14. QED BY <1>6, <1>7, <1>8, <1>11, <1>13

\* The record that is being written is not found under another key than its own.
LEMMA OwnKey ==
  ASSUME ShapeInv, RoomFit, FsInv, NEW g, KeptIn(g, fs), Calm
  PROVE  \A p \in Page, s \in 1..Slots :
           Own(p, s) /\ Held(g, p, s) =>
             g[p].slots[s].key = Operation1.key
<1>1. SUFFICES ASSUME NEW p \in Page, NEW s \in 1..Slots, Own(p, s), Held(g, p, s)
               PROVE  g[p].slots[s].key = Operation1.key
  OBVIOUS
<1>2. Started /\ Writing
  BY <1>1 DEF Own, Started
<1>3. NewSlot(g) = g[p].slots[s] /\ Valid(NewSlot(g))
  BY <1>1 DEF Own, NewSlot, Held
<1>4. NewKept(g, fs) /\ fs # Call(TRUE)
  BY <1>2 DEF KeptIn, OwnKept, Calm, Call
<1>5. Operation1.step # "finalize" /\ Operation1.step # LastStep
  BY <1>3, <1>4 DEF NewKept, New, Valid
<1>6. Operation1.op = "update" /\ Operation1.step = "done"
  <2>1. /\ Operation1.step \in {"begin", "finalize", "dirty", "done"}
        /\ Operation1.op \in Writes
        /\ Operation1.step = "dirty" => Operation1.op = "update"
    BY <1>2, WritingMode
  <2>2. QED BY <1>2, <1>5, <2>1 DEF LastStep, Started, Writes
<1>7. QED BY <1>3, <1>4, <1>6 DEF NewKept, New

\* Nothing was acknowledged, or is there, with an identity not given yet.
LEMMA AckedIds ==
  ASSUME ShapeInv, mode = "ready", KeptIn(flash, fs), NEW key \in Key
  PROVE  acked[key] <= m_latest_rec_id
<1>1. PICK a \in Nat : a = acked[key]
  BY DEF ShapeInv, TypeInv
<1>2. PICK id \in Nat : id = m_latest_rec_id
  BY DEF ShapeInv, TypeInv
<1>3. AckedKept(flash) /\ IdsKept(flash)
  BY DEF KeptIn, FlashKept
<1>4. CASE a # 0
  <2>1. PICK p \in Page, s \in 1..Slots :
          Held(flash, p, s) /\ flash[p].slots[s].id >= a
    BY <1>1, <1>3, <1>4 DEF AckedKept
  <2>2. flash[p].slots[s].id <= id
    BY <1>2, <1>3, <2>1 DEF IdsKept, Held
  <2>3. flash[p].slots[s].id \in Nat
    BY DEF ShapeInv, TypeInv, FlashType, PageType, SlotType
  <2>4. QED BY <1>1, <1>2, <2>1, <2>2, <2>3
<1>5. CASE a = 0
  BY <1>1, <1>2, <1>5
<1>6. QED BY <1>4, <1>5

\* The record that is found, when there is no operation in the queue for its key.
LEMMA FoundOne ==
  ASSUME ShapeInv, FsInv, ResumeInv, SwapInv, AgreeInv, FitInv, Kept, KeptIn(flash, fs),
         Calm, NEW key \in Key, OfKey(key) # {},
         \A i \in DOMAIN m_op_queue : m_op_queue[i].key # key
  PROVE  \E p \in Page, s \in 1..Slots :
           /\ Held(flash, p, s) /\ ~Own(p, s) /\ flash[p].slots[s].key = key
           /\ flash[p].slots[s] = SlotAt(Lowest(OfKey(key)))
<1>1. mode = "ready"
  BY DEF Calm
<1>2. PICK at \in OfKey(key) : at = Lowest(OfKey(key))
  BY OfKeyFacts, LowestFacts
<1>3. at \in InPages /\ SlotAt(at).key = key
  BY <1>2 DEF OfKey
<1>4. PICK p \in Page, s \in 1..Slots :
        Held(flash, p, s) /\ SlotAt(at) = flash[p].slots[s]
  BY <1>1, <1>3, FoundHeld
<1>5. ~Own(p, s)
  <2>1. SUFFICES ASSUME Own(p, s) PROVE FALSE
    OBVIOUS
  <2>2. Operation1.key = key
    <3>1. RoomFit
      BY KeptMeans DEF FitInv
    <3>2. QED BY <1>3, <1>4, <2>1, <3>1, OwnKey
  <2>3. m_op_queue \in Seq(OpType) /\ m_op_queue # <<>>
    BY <2>1 DEF ShapeInv, TypeInv, Own, Started, Writing
  <2>4. Operation1 = m_op_queue[1] /\ 1 \in DOMAIN m_op_queue
    BY <2>3, QueueFacts DEF Operation1
  <2>5. QED BY <2>2, <2>4
<1>6. QED BY <1>2, <1>3, <1>4, <1>5

LEMMA NewWriteKept ==
  ASSUME ShapeInv, FsInv, ResumeInv, SwapInv, AgreeInv, FitInv, Kept, KeptIn(flash, fs),
         ShapeInv', NEW key \in Key, write_enqueue(key), CallStays,
         NEW op \in OpType, op.op \in Writes,
         op.key = key, op.id = m_latest_rec_id + 1,
         OfKey(key) = {} => op.op = "write" /\ op.old = 0,
         OfKey(key) # {} => op.op = "update" /\ op.old = SlotAt(Lowest(OfKey(key))).id
  PROVE  /\ OpKept(flash, op)'
         /\ \A i \in 1..Len(m_op_queue) : m_op_queue[i].op \in Writes =>
              Apart(m_op_queue[i], op) /\ Apart(op, m_op_queue[i])
<1>1. /\ mode = "ready" /\ Calm /\ m_latest_rec_id' = m_latest_rec_id + 1
      /\ \A i \in DOMAIN m_op_queue : m_op_queue[i].key # key
      /\ hit' = IF OfKey(key) = {} /\ Stored(key) THEN hit \union {"twins"} ELSE hit
  BY DEF write_enqueue, Calm
<1>2. PICK g : g = flash /\ g = flash'
  BY DEF CallStays
<1>3. /\ OneKey(g) /\ Single(g) /\ IdsKept(g) /\ QueueKept(g)
  BY <1>2 DEF KeptIn, FlashKept
<1>4. PICK n \in Nat : n = m_latest_rec_id
  BY DEF ShapeInv, TypeInv
<1>5. \A p \in Page, s \in 1..Slots : Held(g, p, s) =>
        g[p].slots[s].id <= n /\ g[p].slots[s].id \in Nat
  <2>1. SUFFICES ASSUME NEW p \in Page, NEW s \in 1..Slots, Held(g, p, s)
                 PROVE  g[p].slots[s].id <= n /\ g[p].slots[s].id \in Nat
    OBVIOUS
  <2>2. g[p].slots[s].id <= n
    BY <1>1, <1>3, <1>4, <2>1 DEF IdsKept, Held
  <2>3. g[p].slots[s].id \in Nat
    BY <1>2 DEF ShapeInv, TypeInv, FlashType, PageType, SlotType
  <2>4. QED BY <2>2, <2>3
<1>6. OfKey(key) # {} =>
        \E p \in Page, s \in 1..Slots :
          /\ Held(g, p, s) /\ ~Own(p, s) /\ g[p].slots[s].key = key
          /\ g[p].slots[s].id = op.old
  <2>1. SUFFICES ASSUME OfKey(key) # {}
                 PROVE  \E p \in Page, s \in 1..Slots :
                          /\ Held(g, p, s) /\ ~Own(p, s) /\ g[p].slots[s].key = key
                          /\ g[p].slots[s].id = op.old
    OBVIOUS
  <2>2. PICK p \in Page, s \in 1..Slots :
           /\ Held(g, p, s) /\ ~Own(p, s) /\ g[p].slots[s].key = key
           /\ g[p].slots[s] = SlotAt(Lowest(OfKey(key)))
    BY <1>1, <1>2, <2>1, FoundOne
  <2>3. QED BY <2>1, <2>2
<1>7. op.old <= n /\ op.old \in Nat /\ op.id = n + 1
  BY <1>4, <1>5, <1>6
<1>8. OpKept(flash, op)'
  <2>1. op.id <= m_latest_rec_id' /\ op.old < op.id
    BY <1>1, <1>4, <1>7
  <2>2. acked'[op.key] <= op.id
    <3>1. acked[key] <= n
      BY <1>1, <1>4, AckedIds
    <3>2. acked[key] \in Nat /\ acked' = acked
      BY DEF ShapeInv, TypeInv, CallStays
    <3>3. QED BY <1>7, <3>1, <3>2
  <2>3. ASSUME NEW p \in Page, NEW s \in 1..Slots, Held(g, p, s), ~Own(p, s)
        PROVE  Matches(op, g[p].slots[s])'
    <3>1. PICK r : r = g[p].slots[s]
      OBVIOUS
    <3>2. r.id # op.id
      BY <1>5, <1>7, <2>3, <3>1
    <3>3. ASSUME op.op = "update", r.id = op.old PROVE r.key = op.key
      <4>1. CASE OfKey(key) # {}
        BY <1>3, <1>6, <2>3, <3>1, <3>3, <4>1 DEF OneKey
      <4>2. CASE OfKey(key) = {}
        BY <3>3, <4>2
      <4>3. QED BY <4>1, <4>2
    <3>4. ASSUME "twins" \notin hit', r.key = key
          PROVE  op.op = "update" /\ r.id = op.old
      <4>1. Stored(key)
        <5>1. s \in Records(p)
          BY <1>2, <2>3, ValidRecords DEF Held
        <5>2. QED BY <1>2, <3>1, <3>4, <5>1 DEF Stored
      <4>2. OfKey(key) # {} /\ "twins" \notin hit
        BY <1>1, <3>4, <4>1
      <4>3. PICK q \in Page, t \in 1..Slots :
              /\ Held(g, q, t) /\ ~Own(q, t) /\ g[q].slots[t].key = key
              /\ g[q].slots[t].id = op.old
        BY <1>6, <4>2
      <4>4. q = p /\ t = s
        BY <1>3, <2>3, <3>1, <3>4, <4>2, <4>3 DEF Single
      <4>5. QED BY <3>1, <4>2, <4>3, <4>4
    <3>5. QED BY <3>1, <3>2, <3>3, <3>4 DEF Matches
  <2>4. \A p \in Page, s \in 1..Slots :
          Held(flash, p, s)' /\ ~Own(p, s)' => Matches(op, flash[p].slots[s])'
    BY <1>2, <2>3, OwnStays, HeldNext
  <2>5. QED BY <2>1, <2>2, <2>4 DEF OpKept
<1>9. ASSUME NEW i \in 1..Len(m_op_queue), m_op_queue[i].op \in Writes
      PROVE  Apart(m_op_queue[i], op) /\ Apart(op, m_op_queue[i])
  <2>1. PICK o : o = m_op_queue[i]
    OBVIOUS
  <2>2. OpKept(g, o)
    BY <1>3, <1>9, <2>1 DEF QueueKept
  <2>3. o \in OpType /\ i \in DOMAIN m_op_queue
    <3>1. m_op_queue \in Seq(OpType)
      BY DEF ShapeInv, TypeInv
    <3>2. QED BY <1>9, <2>1, <3>1
  <2>4. o.id \in Nat /\ o.old \in Nat
    BY <2>3 DEF OpType
  <2>5. o.key # key /\ o.id <= n /\ o.old < o.id
    BY <1>1, <1>4, <2>1, <2>2, <2>3 DEF OpKept
  <2>6. op.old # o.id
    <3>1. CASE OfKey(key) = {}
      BY <2>4, <2>5, <3>1
    <3>2. CASE OfKey(key) # {}
      <4>1. PICK p \in Page, s \in 1..Slots :
              /\ Held(g, p, s) /\ ~Own(p, s) /\ g[p].slots[s].id = op.old
        BY <1>6, <3>2
      <4>2. Matches(o, g[p].slots[s])
        BY <2>2, <4>1 DEF OpKept
      <4>3. QED BY <4>1, <4>2 DEF Matches
    <3>3. QED BY <3>1, <3>2
  <2>7. QED BY <1>7, <2>1, <2>4, <2>5, <2>6 DEF Apart
<1>10. QED BY <1>8, <1>9

LEMMA EnqueueStays ==
  ASSUME mode = "ready", mode' = mode, PagesStay, SameGc, flash' = flash,
         m_swap_page' = m_swap_page, acked' = acked, hit \subseteq hit',
         m_latest_rec_id <= m_latest_rec_id',
         NEW op, Enqueued(op), op.op \in Writes => op.step = "begin",
         op.op = "gc" => m_gc'.resume = (m_gc.resume \/ m_gc.state # "begin"),
         op.op # "gc" => m_gc'.resume = m_gc.resume
  PROVE  CallStays
<1>1. /\ m_op_queue # <<>> => Operation1' = Operation1 /\ fs' = fs
      /\ m_op_queue = <<>> => Operation1' = op
      /\ m_op_queue' # <<>>
  BY DEF Enqueued
<1>2. Started => Writing' /\ Operation1' = Operation1 /\ fs' = fs
  BY <1>1 DEF Started, Writing
<1>3. Started' => Started
  <2>1. CASE m_op_queue # <<>>
    BY <1>1, <2>1 DEF Started, Writing
  <2>2. CASE m_op_queue = <<>>
    BY <1>1, <2>2 DEF Started, Writing
  <2>3. QED BY <2>1, <2>2
<1>4. m_gc'.state = "copy" /\ Collecting' /\ fs' = Call(TRUE) /\ ~m_gc'.resume
        => Collecting /\ fs = Call(TRUE) /\ ~m_gc.resume
  <2>1. CASE m_op_queue # <<>>
    <3>1. ~m_gc'.resume => ~m_gc.resume
      OBVIOUS
    <3>2. QED BY <1>1, <2>1, <3>1 DEF Collecting
  <2>2. CASE m_op_queue = <<>>
    <3>1. Collecting' => op.op = "gc"
      BY <1>1, <2>2 DEF Collecting
    <3>2. QED BY <3>1 DEF SameGc
  <2>3. QED BY <2>1, <2>2
<1>5. QED BY <1>2, <1>3, <1>4 DEF CallStays

LEMMA WriteEnqueueKeeps ==
  ASSUME ShapeInv, FsInv, ResumeInv, SwapInv, AgreeInv, FitInv, Kept, KeptIn(flash, fs),
         ShapeInv', NEW key \in Key, write_enqueue(key)
  PROVE  KeptIn(flash, fs)'
<1>1. /\ flash' = flash /\ m_swap_page' = m_swap_page /\ m_gc' = m_gc /\ mode' = mode
      /\ acked' = acked /\ hit \subseteq hit' /\ mode = "ready" /\ PagesStay
  BY WriteEnqueueFacts, Zenon DEF write_enqueue
<1>2. m_latest_rec_id <= m_latest_rec_id'
  <2>1. m_latest_rec_id \in Nat
    BY DEF ShapeInv, TypeInv
  <2>2. QED BY <2>1 DEF write_enqueue
<1>3. PICK op \in OpType :
           /\ Enqueued(op) /\ op.op \in Writes /\ op.step = "begin"
           /\ op.key = key /\ op.id = m_latest_rec_id + 1
           /\ OfKey(key) = {} => op.op = "write" /\ op.old = 0
           /\ OfKey(key) # {} =>
                op.op = "update" /\ op.old = SlotAt(Lowest(OfKey(key))).id
  BY NewWrite
<1>4. op.op # "gc"
  BY <1>3 DEF Writes
<1>5. CallStays
  BY <1>1, <1>2, <1>3, <1>4, EnqueueStays DEF SameGc
<1>6. /\ OpKept(flash, op)'
      /\ \A i \in 1..Len(m_op_queue) : m_op_queue[i].op \in Writes =>
           Apart(m_op_queue[i], op) /\ Apart(op, m_op_queue[i])
  BY <1>3, <1>5, NewWriteKept
<1>7. PICK g : g = flash /\ g = flash'
  BY <1>1
<1>8. QueueKept(g)
  BY <1>7 DEF KeptIn
<1>9. QueueKept(flash)'
  BY <1>3, <1>5, <1>6, <1>7, <1>8, EnqueuedKept
<1>10. QED BY <1>5, <1>9, CallKeeps

LEMMA FdsGcKeeps ==
  ASSUME ShapeInv, ShapeInv', KeptIn(flash, fs), fds_gc
  PROVE  KeptIn(flash, fs)'
<1>1. /\ flash' = flash /\ m_swap_page' = m_swap_page /\ m_pages' = m_pages /\ mode' = mode
      /\ acked' = acked /\ hit \subseteq hit' /\ m_latest_rec_id' = m_latest_rec_id
  BY DEF fds_gc
<1>2. /\ mode = "ready" /\ SameGc
      /\ m_gc'.resume = (m_gc.resume \/ m_gc.state # "begin")
      /\ \E op \in OpType : Enqueued(op) /\ op.op = "gc"
  BY FdsGcFacts DEF SameGc
<1>3. PICK op \in OpType : Enqueued(op) /\ op.op = "gc"
  BY <1>2
<1>4. op.op \notin Writes
  BY <1>3 DEF Writes
<1>5. m_latest_rec_id <= m_latest_rec_id'
  <2>1. m_latest_rec_id \in Nat
    BY DEF ShapeInv, TypeInv
  <2>2. QED BY <1>1, <2>1
<1>6. CallStays
  BY <1>1, <1>2, <1>3, <1>4, <1>5, StayPages, EnqueueStays
<1>7. PICK g : g = flash /\ g = flash'
  BY <1>1
<1>8. QueueKept(g)
  BY <1>7 DEF KeptIn
<1>9. QueueKept(flash)'
  BY <1>3, <1>4, <1>6, <1>7, <1>8, EnqueuedKept
<1>10. QED BY <1>6, <1>9, CallKeeps

LEMMA OpenKeeps ==
  ASSUME ShapeInv, ShapeInv', KeptIn(flash, fs), mode = "ready", PagesStay,
         hit \subseteq hit',
         UNCHANGED <<flash, mode, m_swap_page, m_gc, m_op_queue, m_latest_rec_id, fs, acked>>
  PROVE  KeptIn(flash, fs)'
<1>1. m_latest_rec_id <= m_latest_rec_id'
  <2>1. m_latest_rec_id \in Nat
    BY DEF ShapeInv, TypeInv
  <2>2. QED BY <2>1
<1>2. /\ Operation1' = Operation1 /\ (Writing' <=> Writing)
      /\ (Started' <=> Started) /\ (Collecting' <=> Collecting)
  BY DEF Operation1, Writing, Started, Collecting
<1>3. Started => Writing
  BY DEF Started
<1>4. CallStays
  BY <1>1, <1>2, <1>3 DEF CallStays, SameGc
<1>5. PICK g : g = flash /\ g = flash'
  OBVIOUS
<1>6. QueueKept(g)
  BY <1>5 DEF KeptIn
<1>7. \A p \in Page, s \in 1..Slots : Own(p, s) => Own(p, s)'
  BY <1>4, OwnStays
<1>8. QueueKept(flash)'
  BY <1>5, <1>6, <1>7, SameQueue
<1>9. QED BY <1>4, <1>8, CallKeeps

LEMMA CallersKeep ==
  ASSUME ShapeInv, FsInv, ResumeInv, SwapInv, AgreeInv, FitInv, Kept, KeptIn(flash, fs),
         ShapeInv', Callers
  PROVE  KeptIn(flash, fs)'
<1>1. ASSUME NEW key \in Key, write_enqueue(key) PROVE KeptIn(flash, fs)'
  BY <1>1, WriteEnqueueKeeps
<1>2. ASSUME NEW key \in Key, fds_record_open(key) PROVE KeptIn(flash, fs)'
  <2>1. /\ UNCHANGED <<flash, mode, m_swap_page, m_gc, m_op_queue, m_latest_rec_id, fs, acked>>
        /\ hit \subseteq hit'
    <3>1. UNCHANGED <<flash, mode, m_swap_page, m_gc, m_op_queue, m_latest_rec_id, fs, acked>>
      BY <1>2 DEF fds_record_open
    <3>2. hit \subseteq hit'
      BY <1>2, OpenFacts
    <3>3. QED BY <3>1, <3>2
  <2>2. mode = "ready" /\ PagesStay
    BY <1>2, OpenFacts
  <2>3. QED BY <2>1, <2>2, OpenKeeps
<1>3. CASE fds_record_close
  <2>1. /\ UNCHANGED <<flash, mode, m_swap_page, m_gc, m_op_queue, m_latest_rec_id, fs, acked>>
        /\ hit \subseteq hit'
    BY <1>3, Zenon DEF fds_record_close
  <2>2. mode = "ready" /\ PagesStay
    BY <1>3, CloseFacts
  <2>3. QED BY <2>1, <2>2, OpenKeeps
<1>4. QED BY <1>1, <1>2, <1>3, FdsGcKeeps DEF Callers

(***************************************************************************)
(* What was acknowledged is found.                                         *)
(***************************************************************************)

LEMMA InitKept ==
  ASSUME Init
  PROVE  KeptInv
<1>1. ShapeInv
  BY InitShape
<1>2. mode = "off" /\ flash = [p \in Page |-> ErasedPage] /\ \A key \in Key : acked[key] = 0
  BY DEF Init
<1>3. \A p \in Page, s \in 1..Slots : ~Valid(flash[p].slots[s])
  BY <1>2, BlankPages, NoRecord
<1>4. \A p \in Page, s \in 1..Slots : ~Held(flash, p, s)
  BY <1>3 DEF Held
<1>5. FlashKept(flash) /\ IdsKept(flash) /\ EraseKept(flash, fs)
  BY <1>2, <1>3, <1>4
     DEF FlashKept, AckedKept, Whole, OneKey, Single, IdsKept, EraseKept
<1>6. KeptIn(flash, fs)
  BY <1>1, <1>2, <1>5, IdleKept
<1>7. QED BY <1>6 DEF KeptInv

LEMMA NextKept ==
  ASSUME PagesInv, AgreeInv, FitInv, KeptInv, [Next]_vars
  PROVE  KeptInv'
<1>1. ShapeInv /\ FsInv /\ ResumeInv /\ SwapInv /\ ShapeInv'
  BY NextShape DEF PagesInv
<1>2. CASE Reset
  BY <1>1, <1>2, ResetKeeps
<1>3. CASE FlashEnds \/ FlashFails
  BY <1>1, <1>3, FlashKeeps
<1>4. ASSUME ~Reset, ~(FlashEnds \/ FlashFails), Kept'
      PROVE  KeptIn(flash, fs)'
  <2>1. Kept
    BY <1>4, HitGrows, StillUnhurt DEF Kept
  <2>2. KeptIn(flash, fs)
    BY <2>1 DEF KeptInv
  <2>3. CASE fds_init
    BY <1>1, <1>4, <2>1, <2>2, <2>3, FdsInitKeeps
  <2>4. CASE \/ InitTagSwap \/ InitTagData \/ InitEraseSwap \/ InitPromote
             \/ InitDone \/ InitFails
    BY <1>1, <2>2, <2>4, InitStepsKeep
  <2>5. CASE WriteBegin
    BY <1>1, <1>4, <2>1, <2>2, <2>5, WriteBeginKeeps
  <2>6. CASE WriteFinalize
    BY <1>1, <2>1, <2>2, <2>6, WriteFinalizeKeeps
  <2>7. CASE WriteDirty
    BY <1>1, <2>1, <2>2, <2>7, WriteDirtyKeeps
  <2>8. CASE WriteEnds
    BY <1>1, <2>1, <2>2, <2>8, WriteEndsKeeps
  <2>9. CASE WriteFails
    BY <1>1, <1>4, <2>1, <2>2, <2>9, WriteFailsKeeps
  <2>10. CASE \/ GcBegin \/ GcCopied \/ GcErased \/ GcPromoted \/ GcTagged
              \/ GcResume \/ GcFails
    BY <1>1, <1>4, <2>1, <2>2, <2>10, GcKeeps
  <2>11. CASE Callers
    BY <1>1, <2>1, <2>2, <2>11, CallersKeep
  <2>12. CASE UNCHANGED vars
    <3>1. UNCHANGED <<mode, ramVars, acked, hit>> /\ flash' = flash /\ fs' = fs
      BY <2>12 DEF vars
    <3>2. PICK g : g = flash /\ g = flash'
      BY <3>1
    <3>3. PICK f : f = fs /\ f = fs'
      BY <3>1
    <3>4. KeptIn(g, f)
      BY <2>2, <3>2, <3>3
    <3>5. QED BY <3>1, <3>2, <3>3, <3>4, SameRamKept
  <2>13. QED BY <1>4, <2>3, <2>4, <2>5, <2>6, <2>7, <2>8, <2>9, <2>10, <2>11, <2>12
             DEF Next, queue_process
<1>5. QED BY <1>2, <1>3, <1>4 DEF KeptInv

\* The records at every step: those of a page that is collected are on it or on the
\* swap page, a new record is there before the old one of its key goes, and no two
\* of a key stay, in any sequence of writes, collections, failures and resets
\* without one of the named mishaps.
THEOREM RecordsAlwaysKept == Spec => [](PagesInv /\ AgreeInv /\ FitInv /\ KeptInv)
<1>1. Init => KeptInv
  BY InitKept
<1>2. PagesInv /\ AgreeInv /\ FitInv /\ KeptInv /\ [Next]_vars => KeptInv'
  BY NextKept
<1>3. QED BY <1>1, <1>2, PagesAlwaysAgree, RoomIsKept, PTL DEF Spec

\* What was acknowledged is found, whole, and nothing older of its key, after any
\* collection, failure or reset.
THEOREM RecordsAreKept == Spec => []RecordsKept
<1>1. PagesInv /\ AgreeInv /\ FitInv /\ KeptInv => RecordsKept
  BY KeptRecords
<1>2. QED BY <1>1, RecordsAlwaysKept, PTL

==============================================================================
