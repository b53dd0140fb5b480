--------------------------- MODULE FdsPages_proofs ---------------------------
(***************************************************************************)
(* Proofs about FdsPages, for any number of pages, slots, keys, operations *)
(* in the queue and bounds: the pages and their tags.  What is in them is  *)
(* the subject of FdsRecords_proofs.                                       *)
(***************************************************************************)
EXTENDS FdsPages, FiniteSetTheorems, SequenceTheorems, WellFoundedInduction,
        TLAPS

(***************************************************************************)
(* Constants, and least and greatest elements.                             *)
(***************************************************************************)

LEMMA LeastNat ==
  ASSUME NEW T \in SUBSET Nat, T # {}
  PROVE  \E i \in T : \A j \in T : i <= j
<1>1. PICK i \in T : \A j \in T : <<j, i>> \notin OpToRel(<, Nat)
  BY NatLessThanWellFounded, WFMin
<1>2. \A j \in T : ~ (j < i)
  BY <1>1 DEF OpToRel
<1>3. QED BY <1>2

LEMMA Constants ==
  /\ NumPages \in Nat /\ NumPages > 1 /\ Slots \in Nat /\ Slots > 0
  /\ QueueSize \in Nat /\ QueueSize > 0
  /\ MaxWrites \in Nat /\ MaxGcs \in Nat /\ MaxFaults \in Nat /\ MaxOpens \in Nat
  /\ Page \subseteq Nat /\ Index \subseteq Nat /\ 0 \in Index /\ 0 \in Page
  /\ NoPage \notin Page
BY FdsPagesAssumption DEF Page, Index, NoPage

LEMMA MinFacts ==
  ASSUME NEW T \in SUBSET Nat, T # {}
  PROVE  Min(T) \in T /\ \A j \in T : Min(T) <= j
<1>1. \E i \in T : \A j \in T : i =< j
  BY LeastNat
<1>2. QED BY <1>1, Zenon DEF Min

LEMMA MaxFacts ==
  ASSUME NEW T \in SUBSET Nat, T # {}, NEW n \in Nat, \A i \in T : i <= n
  PROVE  Max(T) \in T /\ \A j \in T : Max(T) >= j
<1>0. \A i \in T : n - i \in Nat
  OBVIOUS
<1> DEFINE U == {k \in Nat : \E i \in T : k = n - i}
<1>1. U \subseteq Nat /\ U # {}
  BY <1>0
<1>2. PICK u \in U : \A j \in U : u <= j
  BY <1>1, LeastNat
<1>3. PICK m \in T : u = n - m
  BY <1>2
<1>4. \A j \in T : m >= j
  <2>1. TAKE j \in T
  <2>2. n - j \in U /\ n - m <= n - j
    BY <1>0, <1>2, <1>3
  <2>3. QED BY <2>2
<1>5. \E x \in T : \A y \in T : x >= y
  BY <1>4
<1>6. QED BY <1>5, Zenon DEF Max

LEMMA LowestFacts ==
  ASSUME NEW places \in SUBSET (Index \X (1..Slots)), places # {}
  PROVE  Lowest(places) \in places
<1> DEFINE I == {p[1] : p \in places}
<1>1. I \in SUBSET Nat /\ I # {}
  BY Constants
<1>2. PICK i \in I : \A j \in I : i <= j
  BY <1>1, LeastNat
<1> DEFINE T == {s \in 1..Slots : <<i, s>> \in places}
<1>3. T \in SUBSET Nat /\ T # {}
  BY <1>2, Constants
<1>4. PICK s \in T : \A j \in T : s <= j
  BY <1>3, LeastNat
<1>5. \A q \in places : i < q[1] \/ (i = q[1] /\ s <= q[2])
  <2>1. TAKE q \in places
  <2>2. q[1] \in I /\ i <= q[1] /\ q = <<q[1], q[2]>> /\ q[2] \in 1..Slots
    BY <1>2
  <2>3. CASE i = q[1]
    BY <2>2, <2>3, <1>4
  <2>4. QED BY <2>2, <2>3, <1>1, <1>2
<1>6. <<i, s>> \in places
  BY <1>4
<1>7. \E p \in places : \A q \in places :
        p[1] < q[1] \/ (p[1] = q[1] /\ p[2] <= q[2])
  BY <1>5, <1>6
<1>8. QED BY <1>7, Zenon DEF Lowest

LEMMA PlacesFacts ==
  ASSUME NEW id
  PROVE  /\ Places(id) \subseteq Index \X (1..Slots)
         /\ \A p \in Places(id) : p[1] \in DataPages /\ p[2] \in 1..Slots
BY DEF Places, InPages, DataPages

LEMMA OfKeyFacts ==
  ASSUME NEW key
  PROVE  /\ OfKey(key) \subseteq Index \X (1..Slots)
         /\ \A p \in OfKey(key) : p[1] \in DataPages /\ p[2] \in 1..Slots
BY DEF OfKey, InPages, DataPages

(***************************************************************************)
(* The flash: the values of a page, and what an operation leaves of it.    *)
(***************************************************************************)

SlotType == [key : Key \union {"none"}, id : Nat,
             state : {"erased", "begun", "valid", "torn", "dirty"}]
PageType == [tag : {"none", "half", "swap", "data"}, slots : [1..Slots -> SlotType]]
FlashOpType ==
  {Tag(p, tag) : p \in Page, tag \in {"swap", "data"}}
  \union {Erase(p) : p \in Page}
  \union {Store(do, p, slot, new) :
            do \in {"begin", "finalize", "dirty", "copy"}, p \in Page,
            slot \in Nat, new \in SlotType}

\* A flash operation is a tag, an erasure or the writing of a slot.
LEMMA FlashOpCases ==
  ASSUME NEW f \in FlashOpType
  PROVE  /\ f.do \in FlashOp
         /\ f.page \in Page
         /\ f.do = "tag" => f.tag \in {"swap", "data"} /\ f = Tag(f.page, f.tag)
         /\ f.do = "erase" => f = Erase(f.page)
         /\ f.do \notin {"tag", "erase"} =>
              /\ f.do \in {"begin", "finalize", "dirty", "copy"}
              /\ f.slot \in Nat /\ f.new \in SlotType
              /\ f = Store(f.do, f.page, f.slot, f.new)
BY DEF FlashOpType, Tag, Erase, Store, FlashOp

LEMMA ErasedType == Empty \in SlotType /\ ErasedPage \in PageType
BY DEF Empty, ErasedPage, SlotType, PageType

LEMMA OverFacts ==
  ASSUME NEW old \in SlotType, NEW new \in SlotType
  PROVE  /\ Over(old, new) \in SlotType
         /\ new.state # "erased" => Over(old, new).state # "erased"
         /\ Over(old, new).id \in {old.id, new.id}
         /\ old.id = new.id => Over(old, new).id = new.id
         /\ old = Empty => Over(old, new) = new
BY DEF Over, SlotType, Empty

LEMMA DoneToFacts ==
  ASSUME NEW page \in PageType, NEW f \in FlashOpType
  PROVE  /\ DoneTo(page, f) \in PageType
         /\ f.do = "erase" => DoneTo(page, f) = ErasedPage
         /\ f.do = "tag" =>
              /\ DoneTo(page, f).tag = Tagged(page.tag, f.tag)
              /\ DoneTo(page, f).slots = page.slots
         /\ f.do \notin {"erase", "tag"} =>
              /\ DoneTo(page, f).tag = page.tag
              /\ \A s \in 1..Slots :
                   DoneTo(page, f).slots[s] =
                     IF s = f.slot THEN Over(page.slots[s], f.new)
                     ELSE page.slots[s]
<1>1. CASE f.do = "erase"
  BY <1>1, ErasedType DEF DoneTo
<1>2. CASE f.do = "tag"
  <2>1. Tagged(page.tag, f.tag) \in {"swap", "data"}
    BY <1>2, FlashOpCases DEF Tagged
  <2>2. DoneTo(page, f) = [page EXCEPT !.tag = Tagged(page.tag, f.tag)]
    BY <1>2 DEF DoneTo
  <2>3. QED BY <2>1, <2>2, <1>2 DEF PageType
<1>3. CASE f.do \notin {"erase", "tag"}
  <2> DEFINE new == Over(page.slots[f.slot], f.new)
             slots == [page.slots EXCEPT ![f.slot] = new]
  <2>1. DoneTo(page, f) = [page EXCEPT !.slots = slots]
    BY <1>3 DEF DoneTo
  <2>2. f.slot \in 1..Slots => new \in SlotType
    BY <1>3, FlashOpCases, OverFacts DEF PageType
  <2>3. /\ slots \in [1..Slots -> SlotType]
        /\ \A s \in 1..Slots : slots[s] = IF s = f.slot THEN new ELSE page.slots[s]
    BY <2>2 DEF PageType
  <2> HIDE DEF slots
  <2>4. DoneTo(page, f).tag = page.tag /\ DoneTo(page, f).slots = slots /\ DoneTo(page, f) \in PageType
    BY <2>1, <2>3 DEF PageType
  <2>5. QED BY <2>3, <2>4, <1>3
<1>4. QED BY <1>1, <1>2, <1>3

LEMMA DoneFacts ==
  ASSUME flash \in [Page -> PageType], NEW f \in FlashOpType
  PROVE  /\ Done(f) \in [Page -> PageType]
         /\ \A p \in Page : p # f.page => Done(f)[p] = flash[p]
         /\ Done(f)[f.page] = DoneTo(flash[f.page], f)
BY FlashOpCases, DoneToFacts DEF Done

LEMMA FiniteMax ==
  ASSUME NEW T \in SUBSET Nat, T # {}, IsFiniteSet(T)
  PROVE  Max(T) \in T /\ \A j \in T : Max(T) >= j
<1> DEFINE Bounded(A) == \E b \in Nat : \A i \in A : i <= b
           C == {n \in Nat : \E A \in SUBSET T :
                   IsFiniteSet(A) /\ Cardinality(A) = n /\ ~Bounded(A)}
<1>1. SUFFICES Bounded(T)
  BY MaxFacts
<1>2. SUFFICES ASSUME ~Bounded(T) PROVE FALSE
  OBVIOUS
<1>3. C # {} /\ C \subseteq Nat
  BY <1>2, FS_CardinalityType
<1>4. PICK n \in C : \A j \in C : n <= j
  BY <1>3, LeastNat
<1>5. PICK A \in SUBSET T : IsFiniteSet(A) /\ Cardinality(A) = n /\ ~Bounded(A)
  BY <1>4
<1>6. PICK x \in A : TRUE
  BY <1>5
<1> DEFINE B == A \ {x}
<1>7. IsFiniteSet(B) /\ Cardinality(B) = n - 1 /\ Cardinality(B) \in Nat
  BY <1>5, <1>6, FS_RemoveElement, FS_CardinalityType
<1>8. Bounded(B)
  <2>1. n - 1 \notin C
    BY <1>3, <1>4
  <2>2. n - 1 \in Nat
    BY <1>7
  <2>3. QED BY <2>1, <2>2, <1>7
<1>9. PICK b \in Nat : \A i \in B : i <= b
  BY <1>8
<1>10. x \in Nat
  BY <1>6
<1>11. CASE x <= b
  BY <1>5, <1>9, <1>10, <1>11
<1>12. CASE b < x
  <2>1. \A i \in A : i <= x
    BY <1>9, <1>10, <1>12
  <2>2. QED BY <2>1, <1>5, <1>10
<1>13. QED BY <1>9, <1>10, <1>11, <1>12

\* The recursion of Scanned: there is such a function.
Scans(g, n) ==
  g = [k \in 0..n |->
         IF k = 0
         THEN NothingSeen
         ELSE Scan(g[k - 1], k - 1)]

LEMMA ScansExist ==
  ASSUME NEW n \in Nat
  PROVE  \E g : Scans(g, n)
<1> DEFINE T == {k \in Nat : ~ \E g : Scans(g, k)}
<1>1. SUFFICES ASSUME T # {} PROVE FALSE
  OBVIOUS
<1>2. PICK m \in T : \A j \in T : m <= j
  BY <1>1, LeastNat
<1>3. CASE m = 0
  <2> DEFINE g == [k \in 0..0 |->
                     NothingSeen]
  <2>1. Scans(g, 0)
    BY DEF Scans
  <2>2. QED BY <2>1, <1>2, <1>3
<1>4. CASE m > 0
  <2>1. m - 1 \in Nat /\ m - 1 \notin T
    BY <1>2, <1>4
  <2>2. PICK h : Scans(h, m - 1)
    BY <2>1
  <2> DEFINE g == [k \in 0..m |-> IF k = m THEN Scan(h[m - 1], m - 1) ELSE h[k]]
  <2>3. \A k \in 0..m - 1 : /\ h[k] = IF k = 0 THEN NothingSeen
                                      ELSE Scan(h[k - 1], k - 1)
                            /\ g[k] = h[k]
    BY <2>2, <1>2 DEF Scans
  <2>4. g[m] = Scan(g[m - 1], m - 1)
    BY <2>3, <1>4, <1>2
  <2>5. ASSUME NEW k \in 0..m
        PROVE  g[k] = IF k = 0 THEN NothingSeen ELSE Scan(g[k - 1], k - 1)
    <3>1. CASE k = m BY <3>1, <2>4, <1>4
    <3>2. CASE k = 0
      <4>1. m \in Nat /\ 0 \in 0..m - 1
        BY <1>2, <1>4
      <4>2. g[0] = h[0] /\ h[0] = NothingSeen
        BY <4>1, <2>3
      <4>3. QED BY <4>2, <3>2
    <3>3. CASE k # 0 /\ k # m
      <4>1. k \in 0..m - 1 /\ k - 1 \in 0..m - 1
        BY <3>3, <1>2
      <4>2. QED BY <4>1, <3>3, <2>3
    <3>4. QED BY <3>1, <3>2, <3>3
  <2>6. Scans(g, m)
    <3> HIDE DEF g
    <3>1. g = [k \in 0..m |-> g[k]]
      BY DEF g
    <3>2. QED BY <3>1, <2>5 DEF Scans
  <2>7. QED BY <2>6, <1>2
<1>5. QED BY <1>2, <1>3, <1>4

LEMMA ScannedFacts ==
  /\ Scanned[0] = NothingSeen
  /\ \A n \in 1..NumPages : Scanned[n] = Scan(Scanned[n - 1], n - 1)
<1>1. Scans(Scanned, NumPages)
  <2>1. \E g : Scans(g, NumPages)
    BY ScansExist, Constants
  <2>2. QED BY <2>1, Zenon DEF Scanned, Scans
<1>2. \A k \in 0..NumPages :
        Scanned[k] = IF k = 0
          THEN NothingSeen
          ELSE Scan(Scanned[k - 1], k - 1)
  BY <1>1, Zenon DEF Scans
<1>3. QED BY <1>2, Constants

(***************************************************************************)
(* pages_init: an invariant of the scan.  ScanInv(n, acc) says what acc,   *)
(* the result for the first n pages, has to do with them; every case of    *)
(* Scan keeps it.                                                          *)
(***************************************************************************)

FlashType == [Page -> PageType]

LEMMA UsedFacts ==
  ASSUME NEW p \in Page
  PROVE  /\ Used(p) \in 0..Slots
         /\ \A s \in 1..Slots : s <= Used(p) => flash[p].slots[s].state # "erased"
         /\ Used(p) < Slots => flash[p].slots[Used(p) + 1].state = "erased"
         /\ Records(p) \subseteq 1..Slots
<1> DEFINE T == {n \in 0..Slots : \A s \in 1..n : flash[p].slots[s].state # "erased"}
<1>1. T \in SUBSET Nat /\ 0 \in T /\ \A i \in T : i <= Slots
  BY Constants
<1>2. Max(T) \in T /\ \A j \in T : Max(T) >= j
  BY <1>1, MaxFacts, Constants
<1>3. Used(p) = Max(T)
  BY DEF Used
<1> HIDE DEF T
<1>4. PICK u : u = Used(p)
  OBVIOUS
<1>5. u \in T /\ \A j \in T : u >= j
  BY <1>2, <1>3, <1>4
<1>6. u \in 0..Slots /\ \A s \in 1..u : flash[p].slots[s].state # "erased"
  BY <1>5 DEF T
<1>7. ASSUME u < Slots PROVE flash[p].slots[u + 1].state = "erased"
  <2>1. u + 1 \notin T
    BY <1>5, <1>6, Constants
  <2>2. QED BY <2>1, <1>6, <1>7, Constants DEF T
<1>8. \A s \in 1..Slots : s <= u => flash[p].slots[s].state # "erased"
  BY <1>6, Constants
<1>9. Records(p) \subseteq 1..Slots
  BY <1>4, <1>6, Constants DEF Records
<1>10. QED BY <1>4, <1>6, <1>7, <1>8, <1>9

EntryType ==
  [type : {"data", "erased", "undefined"}, addr : Page \union {NoPage},
   offset : 0..Slots, reserved : {0}, open : {0}, can_gc : BOOLEAN]

\* The flags of page_type_t that have been seen.
Kinds == {"data", "erased", "swap clean", "swap dirty"}
KindSets == SUBSET Kinds

AccType ==
  [pages : Seq(EntryType), swap : [addr : Page \union {NoPage}, offset : 0..Slots],
   held : BOOLEAN, cur : Nat,
   opts : KindSets]

SwapTag(p) == flash[p].tag = "swap"
OneSwapTag == \A p, q \in Page : SwapTag(p) /\ SwapTag(q) => p = q
Clean(p) == flash[p].tag \in {"data", "swap"} \/ IsErased(p)

SwapSeen(acc) == "swap clean" \in acc.opts \/ "swap dirty" \in acc.opts

\* After n pages: the swap page ...
ScanSwap(n, acc) ==
  /\ acc.swap.addr = NoPage => ~acc.held /\ acc.swap.offset = 0 /\ ~SwapSeen(acc)
  /\ acc.swap.addr # NoPage =>
       /\ acc.swap.addr < n
       /\ ~SwapSeen(acc) =>
            acc.held /\ IsErased(acc.swap.addr) /\ acc.swap.offset = 0
       /\ SwapSeen(acc) => /\ SwapTag(acc.swap.addr)
                          /\ acc.swap.offset = Used(acc.swap.addr)
  /\ \A p \in Page : p < n /\ SwapTag(p) => SwapSeen(acc)

\* ... the entries, each of another page ...
Entries(n, pages) ==
  /\ \A i \in 1..Len(pages) :
       LET e == pages[i] IN
       /\ e.type = "data" =>
            /\ e.addr \in Page /\ flash[e.addr].tag = "data"
            /\ e.offset = Used(e.addr)
       /\ e.type = "erased" =>
            /\ e.addr \in Page /\ e.offset = 0
            /\ OneSwapTag => IsErased(e.addr)
       /\ e.type = "undefined" =>
            /\ e.addr = NoPage /\ e.offset = 0
            /\ \E p \in Page : p < n /\ ~Clean(p)
       /\ e.addr \in Page => e.addr < n
  /\ \A i, j \in 1..Len(pages) :
       pages[i].addr = pages[j].addr /\ pages[i].addr # NoPage => i = j

ScanEntries(n, acc) ==
  /\ Entries(n, acc.pages)
  /\ \A i \in 1..Len(acc.pages) :
       acc.pages[i].addr \in Page => acc.pages[i].addr # acc.swap.addr

\* ... of every page that can be used ...
ScanCover(n, acc) ==
  /\ \A p \in Page : p < n /\ (flash[p].tag = "data" \/ IsErased(p)) =>
       \/ p = acc.swap.addr
       \/ \E i \in 1..Len(acc.pages) : acc.pages[i].addr = p
  /\ Len(acc.pages) + (IF acc.swap.addr = NoPage THEN 0 ELSE 1) <= n
  /\ OneSwapTag =>
       Len(acc.pages) + (IF acc.swap.addr = NoPage THEN 0 ELSE 1) = n
  /\ acc.cur = 0 \/ acc.cur + 2 <= n

\* ... and what kinds of pages there are.
ScanOpts(n, acc) ==
  /\ "erased" \in acc.opts <=> \E p \in Page : p < n /\ IsErased(p)
  /\ "swap dirty" \notin acc.opts => acc.swap.offset = 0
  /\ "erased" \in acc.opts => acc.swap.addr # NoPage

ScanKinds(n, acc) ==
  /\ \A p \in Page : p < n /\ flash[p].tag = "data" => "data" \in acc.opts
  /\ OneSwapTag => "swap clean" \notin acc.opts \/ "swap dirty" \notin acc.opts

ScanInv(n, acc) ==
  /\ acc \in AccType
  /\ ScanSwap(n, acc) /\ ScanEntries(n, acc) /\ ScanCover(n, acc)
  /\ ScanOpts(n, acc) /\ ScanKinds(n, acc)

LEMMA EntryFacts ==
  ASSUME flash \in FlashType, NEW type \in {"data", "erased", "undefined"},
         NEW p \in Page \union {NoPage}, type = "data" => p \in Page
  PROVE  /\ Entry(type, p) \in EntryType
         /\ Entry(type, p).type = type /\ Entry(type, p).addr = p
         /\ Entry(type, p).offset = IF type = "data" THEN Used(p) ELSE 0
BY UsedFacts, Constants DEF Entry, EntryType

LEMMA AppendFacts ==
  ASSUME NEW T, NEW q \in Seq(T), NEW e \in T
  PROVE  /\ Append(q, e) \in Seq(T)
         /\ Len(Append(q, e)) = Len(q) + 1 /\ Len(q) \in Nat
         /\ \A i \in 1..Len(q) : Append(q, e)[i] = q[i]
         /\ Append(q, e)[Len(q) + 1] = e
OBVIOUS

EntryAdded(acc, r, e, o) ==
  r = [acc EXCEPT !.pages = Append(@, e), !.opts = o]

\* A turn that adds an entry.
LEMMA FoundFacts ==
  ASSUME NEW acc \in AccType, NEW e \in EntryType, NEW r, NEW o \in KindSets,
         EntryAdded(acc, r, e, o)
  PROVE  /\ r \in AccType
         /\ Len(r.pages) = Len(acc.pages) + 1 /\ Len(acc.pages) \in Nat
         /\ \A i \in 1..Len(acc.pages) : r.pages[i] = acc.pages[i]
         /\ r.pages[Len(acc.pages) + 1] = e
         /\ r.swap = acc.swap /\ r.held = acc.held /\ r.cur = acc.cur
         /\ r.opts = o
<1> DEFINE pages == Append(acc.pages, e)
<1>2. acc.pages \in Seq(EntryType)
  BY DEF AccType
<1>3. /\ pages \in Seq(EntryType)
      /\ Len(pages) = Len(acc.pages) + 1 /\ Len(acc.pages) \in Nat
      /\ \A i \in 1..Len(acc.pages) : pages[i] = acc.pages[i]
      /\ pages[Len(acc.pages) + 1] = e
  BY <1>2, AppendFacts
<1> HIDE DEF pages
<1>4. r = [acc EXCEPT !.pages = pages, !.opts = o]
  BY DEF pages, EntryAdded
<1>5. QED BY <1>3, <1>4 DEF AccType

Opts(acc, r, opt) == r.opts = acc.opts \union opt

\* What Found does, with an entry e.
Adds(acc, r, e, opt) ==
  /\ r.pages = Append(acc.pages, e) /\ e \in EntryType
  /\ r \in AccType
  /\ Len(r.pages) = Len(acc.pages) + 1 /\ Len(acc.pages) \in Nat
  /\ \A i \in 1..Len(acc.pages) : r.pages[i] = acc.pages[i]
  /\ r.pages[Len(acc.pages) + 1] = e
  /\ Opts(acc, r, opt)

LEMMA FoundAdds ==
  ASSUME flash \in FlashType, NEW acc \in AccType,
         NEW t \in {"data", "erased", "undefined"},
         NEW p \in Page \union {NoPage}, t = "data" => p \in Page,
         NEW opt, acc.opts \union opt \in KindSets
  PROVE  /\ Adds(acc, Found(acc, t, p, opt), Entry(t, p), opt)
         /\ Found(acc, t, p, opt).swap = acc.swap
         /\ Found(acc, t, p, opt).held = acc.held
         /\ Found(acc, t, p, opt).cur = acc.cur
<1>1. Entry(t, p) \in EntryType
  BY EntryFacts
<1>2. PICK e \in EntryType : e = Entry(t, p)
  BY <1>1
<1>2a. PICK o \in KindSets : Opts(acc, [opts |-> o], opt)
  BY DEF Opts
<1>3. PICK r : EntryAdded(acc, r, e, o)
  BY DEF EntryAdded
<1>4. r = Found(acc, t, p, opt)
  BY <1>2, <1>2a, <1>3 DEF Found, Opts, EntryAdded
<1>5. /\ r \in AccType
      /\ Len(r.pages) = Len(acc.pages) + 1 /\ Len(acc.pages) \in Nat
      /\ \A i \in 1..Len(acc.pages) : r.pages[i] = acc.pages[i]
      /\ r.pages[Len(acc.pages) + 1] = e
      /\ r.swap = acc.swap /\ r.held = acc.held /\ r.cur = acc.cur
      /\ r.opts = o
  BY <1>3, FoundFacts
<1>6. r.pages = Append(acc.pages, e)
  BY <1>3 DEF AccType, EntryAdded
<1>6a. Opts(acc, r, opt)
  BY <1>2a, <1>5 DEF Opts
<1>7. Adds(acc, r, e, opt)
  BY <1>2, <1>5, <1>6, <1>6a, Zenon DEF Adds
<1>8. QED BY <1>2, <1>4, <1>5, <1>7

\* An entry for the page p or for none keeps the entries apart.
LEMMA EntriesGrow ==
  ASSUME NEW n \in Nat, NEW acc \in AccType, NEW r, NEW e, NEW opt,
         Adds(acc, r, e, opt), ScanEntries(n, acc), r.swap.addr = acc.swap.addr,
         \/ /\ e.type = "data" /\ e.addr = n /\ n \in Page
            /\ flash[n].tag = "data" /\ e.offset = Used(n)
         \/ /\ e.type = "erased" /\ e.addr = n /\ n \in Page
            /\ IsErased(n) /\ e.offset = 0
         \/ e.type = "undefined" /\ e.addr = NoPage /\ e.offset = 0 /\ n \in Page /\ ~Clean(n),
         acc.swap.addr # NoPage => acc.swap.addr < n
  PROVE  ScanEntries(n + 1, r)
<1>1. acc.swap.addr \in Page \union {NoPage} /\ Page \subseteq Nat /\ NoPage \notin Page
  BY Constants DEF AccType
<1> DEFINE l == Len(acc.pages)
<1>2. l \in Nat /\ Len(r.pages) = l + 1 /\ r.pages[l + 1] = e
      /\ \A i \in 1..l : r.pages[i] = acc.pages[i]
  BY Zenon DEF Adds
<1>2a. \A i \in 1..l : acc.pages[i].addr \in Page \union {NoPage}
  <2>1. acc.pages \in Seq(EntryType)
    BY DEF AccType
  <2>2. \A i \in 1..l : acc.pages[i] \in EntryType
    BY <2>1
  <2>3. QED BY <2>2 DEF EntryType
<1> HIDE DEF l
<1>3. ASSUME NEW i \in 1..Len(r.pages)
      PROVE  LET f == r.pages[i] IN
       /\ f.type = "data" =>
            /\ f.addr \in Page /\ flash[f.addr].tag = "data"
            /\ f.offset = Used(f.addr)
       /\ f.type = "erased" =>
            /\ f.addr \in Page /\ f.offset = 0
            /\ OneSwapTag => IsErased(f.addr)
       /\ f.type = "undefined" =>
            /\ f.addr = NoPage /\ f.offset = 0
            /\ \E p \in Page : p < n + 1 /\ ~Clean(p)
       /\ f.addr \in Page => f.addr < n + 1 /\ f.addr # r.swap.addr
  <2>1. CASE i = l + 1
    BY <2>1, <1>1, <1>2, <1>2a
  <2>2. CASE i # l + 1
    <3>1. i \in 1..l /\ r.pages[i] = acc.pages[i]
      BY <2>2, <1>2
    <3>2. i \in 1..Len(acc.pages)
      BY <3>1 DEF l
    <3>3. \A p \in Page : p < n => p < n + 1
      BY <1>1
    <3>4. acc.pages[i].addr \in Page => acc.pages[i].addr < n /\ acc.pages[i].addr # acc.swap.addr
      BY <3>2 DEF ScanEntries, Entries
    <3>5. QED BY <3>1, <3>2, <3>3, <3>4 DEF ScanEntries, Entries
  <2>3. QED BY <2>1, <2>2
<1>4. ASSUME NEW i \in 1..Len(r.pages), NEW j \in 1..Len(r.pages),
             r.pages[i].addr = r.pages[j].addr, r.pages[i].addr # NoPage
      PROVE  i = j
  <2>1. \A k \in 1..l : acc.pages[k].addr \in Page => acc.pages[k].addr < n
    BY DEF ScanEntries, Entries, l
  <2>2. \A k \in 1..l : acc.pages[k].addr # n
    BY <2>1, <1>1, <1>2, <1>2a
  <2>3. CASE i \in 1..l /\ j \in 1..l
    BY <2>3, <1>2, <1>4 DEF ScanEntries, Entries, l
  <2>4. CASE i = l + 1 /\ j \in 1..l
    BY <2>4, <2>2, <1>2, <1>2a, <1>4
  <2>5. CASE j = l + 1 /\ i \in 1..l
    BY <2>5, <2>2, <1>2, <1>2a, <1>4
  <2>6. QED BY <2>3, <2>4, <2>5, <1>2
<1>5. QED BY <1>3, <1>4 DEF ScanEntries, Entries

LEMMA CoverGrow ==
  ASSUME NEW n \in Page, NEW acc \in AccType, NEW r, NEW e, NEW opt,
         Adds(acc, r, e, opt), ScanCover(n, acc), r.swap.addr = acc.swap.addr,
         flash[n].tag = "data" \/ IsErased(n) => e.addr = n,
         r.cur = acc.cur \/ (r.cur = Len(acc.pages) /\ acc.swap.addr # NoPage)
  PROVE  ScanCover(n + 1, r)
<1> DEFINE l == Len(acc.pages)
<1>1. n \in Nat /\ Page \subseteq Nat
  BY Constants
<1>2. l \in Nat /\ Len(r.pages) = l + 1 /\ r.pages[l + 1] = e
      /\ \A i \in 1..l : r.pages[i] = acc.pages[i]
  BY Zenon DEF Adds
<1>3. acc.cur \in Nat
  BY DEF AccType
<1>4. ASSUME NEW p \in Page, p < n + 1, flash[p].tag = "data" \/ IsErased(p)
      PROVE  p = r.swap.addr \/ \E i \in 1..Len(r.pages) : r.pages[i].addr = p
  <2>1. CASE p = n
    BY <2>1, <1>2, <1>4
  <2>2. CASE p < n
    <3>1. p = acc.swap.addr \/ \E i \in 1..l : acc.pages[i].addr = p
      BY <2>2, <1>4 DEF ScanCover
    <3>2. QED BY <3>1, <1>2
  <2>3. QED BY <2>1, <2>2, <1>1, <1>4
<1>5. /\ l + (IF acc.swap.addr = NoPage THEN 0 ELSE 1) <= n
      /\ OneSwapTag => l + (IF acc.swap.addr = NoPage THEN 0 ELSE 1) = n
      /\ acc.cur = 0 \/ acc.cur + 2 <= n
  BY DEF ScanCover
<1> HIDE DEF l
<1>6. /\ l + 1 + (IF r.swap.addr = NoPage THEN 0 ELSE 1) <= n + 1
      /\ OneSwapTag => l + 1 + (IF r.swap.addr = NoPage THEN 0 ELSE 1) = n + 1
  BY <1>1, <1>2, <1>5
<1>7. r.cur = 0 \/ r.cur + 2 <= n + 1
  <2>1. CASE r.cur = acc.cur
    BY <2>1, <1>1, <1>3, <1>5
  <2>2. CASE r.cur = l /\ acc.swap.addr # NoPage
    BY <2>2, <1>1, <1>2, <1>5
  <2>3. QED BY <2>1, <2>2 DEF l
<1>8. QED BY <1>2, <1>4, <1>6, <1>7 DEF ScanCover

\* No other swap page, no page erased.
LEMMA SwapStays ==
  ASSUME NEW n \in Page, NEW acc \in AccType, NEW r,
         ScanSwap(n, acc), r.swap = acc.swap, r.held = acc.held,
         SwapSeen(r) <=> SwapSeen(acc), ~SwapTag(n)
  PROVE  ScanSwap(n + 1, r)
<1>1. n \in Nat /\ Page \subseteq Nat
  BY Constants
<1>2. \A p \in Page : p < n + 1 /\ SwapTag(p) => p < n
  BY <1>1
<1>3. acc.swap.addr \in Page \union {NoPage}
  BY DEF AccType
<1>4. acc.swap.addr # NoPage => acc.swap.addr < n + 1
  <2>1. acc.swap.addr # NoPage => acc.swap.addr < n
    BY DEF ScanSwap
  <2>2. acc.swap.addr # NoPage => acc.swap.addr \in Nat
    BY <1>1, <1>3
  <2>3. QED BY <2>1, <2>2, <1>1
<1>5. QED BY <1>2, <1>4 DEF ScanSwap

LEMMA Below ==
  ASSUME NEW n \in Page
  PROVE  \A p \in Page : p < n + 1 <=> p < n \/ p = n
<1>1. n \in Nat /\ \A p \in Page : p \in Nat
  BY Constants
<1>2. QED BY <1>1

LEMMA OptsGrow ==
  ASSUME NEW n \in Page, NEW acc, NEW r, NEW opt,
         ScanOpts(n, acc), r.swap = acc.swap, r.held = acc.held,
         Opts(acc, r, opt),
         "swap clean" \notin opt, "swap dirty" \notin opt,
         "erased" \in opt <=> IsErased(n), IsErased(n) => acc.swap.addr # NoPage
  PROVE  ScanOpts(n + 1, r)
<1>1. \A k \in Kinds : k \in r.opts <=> k \in acc.opts \/ k \in opt
  BY DEF Opts
<1>2. \A p \in Page : p < n + 1 <=> p < n \/ p = n
  BY Below
<1>3. "erased" \in r.opts <=> \E p \in Page : p < n + 1 /\ IsErased(p)
  BY <1>1, <1>2 DEF ScanOpts, Kinds
<1>4. QED BY <1>1, <1>3 DEF ScanOpts, Kinds

LEMMA KindsGrow ==
  ASSUME NEW n \in Page, NEW acc, NEW r, NEW opt,
         ScanKinds(n, acc), Opts(acc, r, opt),
         "swap clean" \notin opt, "swap dirty" \notin opt,
         flash[n].tag = "data" => "data" \in opt
  PROVE  ScanKinds(n + 1, r)
<1>1. \A k \in Kinds : k \in r.opts <=> k \in acc.opts \/ k \in opt
  BY DEF Opts
<1>2. \A p \in Page : p < n + 1 <=> p < n \/ p = n
  BY Below
<1>3. QED BY <1>1, <1>2 DEF ScanKinds, Kinds

LEMMA ScanFound ==
  ASSUME flash \in FlashType, NEW n \in Page, NEW acc, ScanInv(n, acc),
         flash[n].tag = "data"
  PROVE  ScanInv(n + 1, Scan(acc, n))
<1>1. acc \in AccType
  BY DEF ScanInv
<1>2. PICK r : r = Found(acc, "data", n, {"data"})
  OBVIOUS
<1>3. r = Scan(acc, n)
  BY <1>2 DEF Scan
<1>4. PICK e : e = Entry("data", n)
  OBVIOUS
<1>4a. acc.opts \union {"data"} \in KindSets
  BY <1>1 DEF AccType, KindSets, Kinds
<1>5. Adds(acc, r, e, {"data"}) /\ r.swap = acc.swap /\ r.held = acc.held /\ r.cur = acc.cur
  BY <1>1, <1>2, <1>4, <1>4a, FoundAdds
<1>6. e.type = "data" /\ e.addr = n /\ e.offset = Used(n)
  BY <1>4 DEF Entry
<1>7. ScanEntries(n + 1, r)
  BY <1>1, <1>5, <1>6, EntriesGrow, Constants DEF ScanInv, ScanSwap
<1>8. ScanCover(n + 1, r)
  BY <1>1, <1>5, <1>6, CoverGrow DEF ScanInv
<1>9. ScanSwap(n + 1, r)
  <2>1. SwapSeen(r) <=> SwapSeen(acc)
    BY <1>5 DEF Adds, Opts, SwapSeen
  <2>2. QED BY <1>1, <1>5, <2>1, SwapStays DEF ScanInv, SwapTag
<1>10. ScanOpts(n + 1, r)
  <2>1. ~IsErased(n)
    BY DEF IsErased, ErasedPage
  <2>2. Opts(acc, r, {"data"})
    BY <1>5 DEF Adds
  <2>3. QED BY <1>5, <2>1, <2>2, OptsGrow DEF ScanInv
<1>10a. ScanKinds(n + 1, r)
  <2>1. Opts(acc, r, {"data"})
    BY <1>5 DEF Adds
  <2>2. QED BY <2>1, KindsGrow DEF ScanInv
<1>11. QED BY <1>3, <1>5, <1>7, <1>8, <1>9, <1>10, <1>10a DEF ScanInv, Adds

LEMMA ScanUndefined ==
  ASSUME flash \in FlashType, NEW n \in Page, NEW acc, ScanInv(n, acc),
         ~Clean(n)
  PROVE  ScanInv(n + 1, Scan(acc, n))
<1>1. acc \in AccType
  BY DEF ScanInv
<1>2. PICK r : r = Found(acc, "undefined", NoPage, {})
  OBVIOUS
<1>3. r = Scan(acc, n) /\ ~SwapTag(n) /\ ~IsErased(n) /\ flash[n].tag # "data"
  BY <1>2 DEF Scan, Clean, SwapTag
<1>4. PICK e : e = Entry("undefined", NoPage)
  OBVIOUS
<1>4a. acc.opts \union {} \in KindSets
  BY <1>1 DEF AccType
<1>5. Adds(acc, r, e, {}) /\ r.swap = acc.swap /\ r.held = acc.held /\ r.cur = acc.cur
  BY <1>1, <1>2, <1>4, <1>4a, FoundAdds
<1>6. e.type = "undefined" /\ e.addr = NoPage /\ e.offset = 0
  BY <1>4 DEF Entry
<1>7. ScanEntries(n + 1, r)
  BY <1>1, <1>5, <1>6, EntriesGrow, Constants DEF ScanInv, ScanSwap
<1>8. ScanCover(n + 1, r)
  BY <1>1, <1>3, <1>5, <1>6, CoverGrow DEF ScanInv
<1>9. ScanSwap(n + 1, r)
  <2>1. SwapSeen(r) <=> SwapSeen(acc)
    BY <1>5 DEF Adds, Opts, SwapSeen
  <2>2. QED BY <1>1, <1>3, <1>5, <2>1, SwapStays DEF ScanInv
<1>10. ScanOpts(n + 1, r) /\ ScanKinds(n + 1, r)
  BY <1>3, <1>5, OptsGrow, KindsGrow DEF ScanInv, Adds
<1>11. QED BY <1>3, <1>5, <1>7, <1>8, <1>9, <1>10 DEF ScanInv, Adds

LEMMA ScanErased ==
  ASSUME flash \in FlashType, NEW n \in Page, NEW acc, ScanInv(n, acc),
         IsErased(n), acc.swap.addr # NoPage
  PROVE  ScanInv(n + 1, Scan(acc, n))
<1>1. acc \in AccType
  BY DEF ScanInv
<1>2. PICK b : b = Found(acc, "erased", n, {"erased"})
  OBVIOUS
<1>2a. PICK r : r = [b EXCEPT !.cur = Len(acc.pages)]
  OBVIOUS
<1>3. r = Scan(acc, n) /\ ~SwapTag(n) /\ flash[n].tag # "data"
  BY <1>2, <1>2a DEF Scan, IsErased, ErasedPage, SwapTag
<1>4. PICK e : e = Entry("erased", n)
  OBVIOUS
<1>4a. acc.opts \union {"erased"} \in KindSets
  BY <1>1 DEF AccType, KindSets, Kinds
<1>5. Adds(acc, b, e, {"erased"}) /\ b.swap = acc.swap /\ b.held = acc.held /\ b.cur = acc.cur
  BY <1>1, <1>2, <1>4, <1>4a, FoundAdds
<1>5a. /\ r.pages = b.pages /\ r.swap = b.swap /\ r.held = b.held
       /\ r.opts = b.opts /\ r.cur = Len(acc.pages) /\ r \in AccType
  BY <1>5, <1>2a DEF Adds, AccType
<1>5b. Adds(acc, r, e, {"erased"})
  BY <1>5, <1>5a, Zenon DEF Adds, Opts
<1>6. e.type = "erased" /\ e.addr = n /\ e.offset = 0
  BY <1>4 DEF Entry
<1>6a. r.swap = acc.swap /\ r.held = acc.held
  BY <1>5, <1>5a
<1>7. ScanEntries(n + 1, r)
  BY <1>1, <1>5b, <1>6, <1>6a, EntriesGrow, Constants DEF ScanInv, ScanSwap
<1>8. ScanCover(n + 1, r)
  BY <1>1, <1>3, <1>5a, <1>5b, <1>6, <1>6a, CoverGrow DEF ScanInv
<1>9. ScanSwap(n + 1, r)
  <2>1. SwapSeen(r) <=> SwapSeen(acc)
    BY <1>5b DEF Adds, Opts, SwapSeen
  <2>2. QED BY <1>1, <1>3, <1>6a, <2>1, SwapStays DEF ScanInv
<1>10. ScanOpts(n + 1, r) /\ ScanKinds(n + 1, r)
  BY <1>3, <1>5b, <1>6a, OptsGrow, KindsGrow DEF ScanInv, Adds
<1>11. QED BY <1>3, <1>5a, <1>7, <1>8, <1>9, <1>10 DEF ScanInv

\* An erased page when there is no swap page yet.
LEMMA ScanHeld ==
  ASSUME flash \in FlashType, NEW n \in Page, NEW acc, ScanInv(n, acc),
         IsErased(n), acc.swap.addr = NoPage
  PROVE  ScanInv(n + 1, Scan(acc, n))
<1>1. acc \in AccType
  BY DEF ScanInv
<1>2. PICK o \in KindSets : Opts(acc, [opts |-> o], {"erased"})
  BY <1>1 DEF Opts, AccType, KindSets, Kinds
<1>3. PICK r : r = [acc EXCEPT !.swap.addr = n, !.held = TRUE, !.opts = o]
  OBVIOUS
<1>4. r = Scan(acc, n)
  <2>1. flash[n].tag = "none"
    BY DEF IsErased, ErasedPage
  <2>2. Scan(acc, n) = [acc EXCEPT !.swap.addr = n, !.held = TRUE,
                                   !.opts = @ \union {"erased"}]
    BY <2>1 DEF Scan
  <2>3. o = acc.opts \union {"erased"}
    BY <1>2 DEF Opts
  <2>4. QED BY <1>3, <2>2, <2>3
<1>5. /\ r \in AccType /\ r.pages = acc.pages /\ r.held /\ r.cur = acc.cur
      /\ r.opts = o /\ r.swap.addr = n /\ r.swap.offset = acc.swap.offset
  BY <1>1, <1>3 DEF AccType
<1>6. Opts(acc, r, {"erased"})
  BY <1>2, <1>5 DEF Opts
<1>7. ~SwapSeen(acc) /\ ~SwapSeen(r) /\ acc.swap.offset = 0
  BY <1>6 DEF ScanInv, ScanSwap, SwapSeen, Opts
<1>8. \A p \in Page : p < n + 1 <=> p < n \/ p = n
  BY Below
<1>8a. n \in Nat /\ n # NoPage /\ ~SwapTag(n) /\ acc.pages \in Seq(EntryType) /\ n < n + 1
  BY <1>1, Constants DEF AccType, IsErased, ErasedPage, SwapTag
<1>9. ScanSwap(n + 1, r)
  BY <1>5, <1>7, <1>8, <1>8a DEF ScanInv, ScanSwap
<1>10. ScanEntries(n + 1, r)
  <2>1. \A i \in 1..Len(acc.pages) : acc.pages[i].addr \in Page => acc.pages[i].addr < n
    BY DEF ScanInv, ScanEntries, Entries
  <2>2. \A i \in 1..Len(acc.pages) : acc.pages[i].addr \in Page =>
          acc.pages[i].addr < n + 1 /\ acc.pages[i].addr # n
    <3>1. TAKE i \in 1..Len(acc.pages)
    <3>2. \A p \in Page : p < n => p < n + 1 /\ p # n
      <4>1. TAKE p \in Page
      <4>2. p \in Nat
        BY Constants
      <4>3. QED BY <4>2, <1>8a
    <3>3. QED BY <3>2, <2>1
  <2>3. QED BY <2>2, <1>5, <1>8 DEF ScanInv, ScanEntries, Entries
<1>11. ScanCover(n + 1, r)
  <2>1. Len(acc.pages) \in Nat /\ acc.cur \in Nat
    BY <1>1, <1>8a DEF AccType
  <2>2. \A p \in Page : p < n + 1 /\ (flash[p].tag = "data" \/ IsErased(p)) =>
           p = n \/ \E i \in 1..Len(acc.pages) : acc.pages[i].addr = p
    <3>1. TAKE p \in Page
    <3>2. p # acc.swap.addr
      BY Constants
    <3>3. QED BY <3>2, <1>8 DEF ScanInv, ScanCover
  <2>3. Len(acc.pages) <= n /\ (OneSwapTag => Len(acc.pages) = n)
        /\ (acc.cur = 0 \/ acc.cur + 2 <= n)
    BY <2>1 DEF ScanInv, ScanCover
  <2>4. Len(acc.pages) + 1 <= n + 1 /\ (OneSwapTag => Len(acc.pages) + 1 = n + 1)
        /\ (acc.cur = 0 \/ acc.cur + 2 <= n + 1)
    BY <2>1, <2>3, <1>8a
  <2>5. QED BY <2>2, <2>4, <1>5, <1>8a DEF ScanCover
<1>12. ScanOpts(n + 1, r)
  BY <1>5, <1>6, <1>7, <1>8, <1>8a DEF ScanOpts, Opts
<1>12a. ScanKinds(n + 1, r)
  <2>1. flash[n].tag # "data"
    BY DEF IsErased, ErasedPage
  <2>2. QED BY <1>6, <2>1, KindsGrow DEF ScanInv
<1>13. QED BY <1>4, <1>5, <1>9, <1>10, <1>11, <1>12, <1>12a DEF ScanInv

LEMMA SwapFoundFacts ==
  ASSUME flash \in FlashType, NEW n \in Page, NEW b \in AccType
  PROVE  LET r == SwapFound(b, n) IN
         /\ r \in AccType /\ r.pages = b.pages /\ r.held = b.held
         /\ r.cur = b.cur /\ r.swap.addr = n /\ r.swap.offset = Used(n)
         /\ SwapSeen(r)
         /\ "erased" \in r.opts <=> "erased" \in b.opts
         /\ "data" \in r.opts <=> "data" \in b.opts
         /\ "swap dirty" \notin r.opts => Used(n) = 0
         /\ ~SwapSeen(b) => "swap clean" \notin r.opts \/ "swap dirty" \notin r.opts
<1> DEFINE kind == IF Used(n) = 0 THEN "swap clean" ELSE "swap dirty"
<1>1. kind \in {"swap clean", "swap dirty"} /\ (kind # "swap dirty" => Used(n) = 0)
  OBVIOUS
<1>2. PICK k \in {"swap clean", "swap dirty"} : k = kind
  BY <1>1
<1>3. PICK o \in KindSets : Opts(b, [opts |-> o], {k})
  BY DEF Opts, AccType, KindSets, Kinds
<1>4. PICK s : s = [addr |-> n, offset |-> Used(n)]
  OBVIOUS
<1>5. s \in [addr : Page \union {NoPage}, offset : 0..Slots]
      /\ s.addr = n /\ s.offset = Used(n)
  BY <1>4, UsedFacts
<1>6. PICK r : r = [b EXCEPT !.swap = s, !.opts = o]
  OBVIOUS
<1>7. /\ r \in AccType /\ r.pages = b.pages /\ r.held = b.held
      /\ r.cur = b.cur /\ r.swap = s /\ r.opts = o
  BY <1>5, <1>6 DEF AccType
<1>8. r = SwapFound(b, n)
  BY <1>2, <1>3, <1>4, <1>6 DEF SwapFound, Opts
<1>9. /\ SwapSeen(r)
      /\ "erased" \in r.opts <=> "erased" \in b.opts
      /\ "data" \in r.opts <=> "data" \in b.opts
      /\ "swap dirty" \notin r.opts => k # "swap dirty"
      /\ ~SwapSeen(b) => "swap clean" \notin r.opts \/ "swap dirty" \notin r.opts
  <2>1. r.opts = b.opts \union {k}
    BY <1>3, <1>7 DEF Opts
  <2>2. \A x \in Kinds : x \in r.opts <=> x \in b.opts \/ x = k
    BY <2>1
  <2>3. k \in r.opts
    BY <2>1
  <2>4. QED BY <1>2, <2>2, <2>3 DEF SwapSeen, Kinds
<1>10. QED BY <1>1, <1>2, <1>5, <1>7, <1>8, <1>9

\* The swap page is found; the entries are e's in b, or those in acc.
LEMMA SwapFoundStep ==
  ASSUME flash \in FlashType, NEW n \in Page, NEW acc, ScanInv(n, acc),
         SwapTag(n), NEW b \in AccType,
         b.cur = acc.cur, \A k \in Kinds : k \in b.opts <=> k \in acc.opts,
         Entries(n, b.pages),
         \A p \in Page : p < n /\ (flash[p].tag = "data" \/ IsErased(p)) =>
           \E i \in 1..Len(b.pages) : b.pages[i].addr = p,
         Len(b.pages) <= n, OneSwapTag => Len(b.pages) = n
  PROVE  ScanInv(n + 1, SwapFound(b, n))
<1>1. PICK r : r = SwapFound(b, n)
  OBVIOUS
<1>2. /\ r \in AccType /\ r.pages = b.pages /\ r.held = b.held
      /\ r.cur = b.cur /\ r.swap.addr = n /\ r.swap.offset = Used(n)
      /\ SwapSeen(r)
      /\ "erased" \in r.opts <=> "erased" \in b.opts
      /\ "data" \in r.opts <=> "data" \in b.opts
      /\ "swap dirty" \notin r.opts => Used(n) = 0
      /\ ~SwapSeen(b) => "swap clean" \notin r.opts \/ "swap dirty" \notin r.opts
  BY <1>1, SwapFoundFacts
<1>3. \A p \in Page : p < n + 1 <=> p < n \/ p = n
  BY Below
<1>3a. \A p \in Page : p < n => p # n
  <2>1. TAKE p \in Page
  <2>2. p \in Nat /\ n \in Nat
    BY Constants
  <2>3. QED BY <2>2
<1>4. n \in Nat /\ n # NoPage /\ flash[n].tag # "data" /\ ~IsErased(n)
  BY Constants DEF SwapTag, IsErased, ErasedPage
<1>5. ScanSwap(n + 1, r)
  BY <1>2, <1>3, <1>4 DEF ScanSwap
<1>6. ScanEntries(n + 1, r)
  <2>1. PICK pages : pages = b.pages /\ pages = r.pages
    BY <1>2
  <2>2. Entries(n, pages)
    BY <2>1
  <2>3. Entries(n + 1, pages)
    BY <1>3, <2>2 DEF Entries
  <2>4. \A i \in 1..Len(pages) : pages[i].addr \in Page => pages[i].addr # n
    BY <1>3a, <2>2 DEF Entries
  <2>5. QED BY <1>2, <2>1, <2>3, <2>4 DEF ScanEntries
<1>7. ScanCover(n + 1, r)
  <2>1. Len(b.pages) \in Nat /\ acc.cur \in Nat
    <3>1. b.pages \in Seq(EntryType) /\ acc \in AccType
      BY DEF AccType, ScanInv
    <3>2. QED BY <3>1 DEF AccType
  <2>2. \A p \in Page : p < n + 1 /\ (flash[p].tag = "data" \/ IsErased(p)) =>
           \E i \in 1..Len(b.pages) : b.pages[i].addr = p
    BY <1>3, <1>4
  <2>3. acc.cur = 0 \/ acc.cur + 2 <= n
    BY DEF ScanInv, ScanCover
  <2>4. Len(b.pages) + 1 <= n + 1 /\ (OneSwapTag => Len(b.pages) + 1 = n + 1)
        /\ (acc.cur = 0 \/ acc.cur + 2 <= n + 1)
    BY <2>1, <2>3, <1>4
  <2>5. QED BY <2>2, <2>4, <1>2, <1>4 DEF ScanCover
<1>8. ScanOpts(n + 1, r)
  BY <1>2, <1>3, <1>4 DEF ScanOpts, ScanInv, Kinds
<1>8a. ScanKinds(n + 1, r)
  <2>1. ASSUME OneSwapTag PROVE ~SwapSeen(b)
    <3>1. SUFFICES ASSUME SwapSeen(acc) PROVE FALSE
      BY DEF SwapSeen, Kinds
    <3>2. acc.swap.addr # NoPage /\ acc.swap.addr < n /\ SwapTag(acc.swap.addr)
      BY <3>1 DEF ScanInv, ScanSwap
    <3>3. acc.swap.addr \in Page
      BY <3>2 DEF ScanInv, AccType
    <3>4. QED BY <1>3a, <2>1, <3>2, <3>3 DEF OneSwapTag
  <2>2. QED BY <1>2, <1>3, <1>4, <2>1 DEF ScanKinds, ScanInv, Kinds
<1>9. QED BY <1>1, <1>2, <1>5, <1>6, <1>7, <1>8, <1>8a DEF ScanInv

LEMMA ScanSwapFound ==
  ASSUME flash \in FlashType, NEW n \in Page, NEW acc, ScanInv(n, acc),
         SwapTag(n)
  PROVE  ScanInv(n + 1, Scan(acc, n))
<1>1. acc \in AccType
  BY DEF ScanInv
<1>2. Scan(acc, n) = SwapFound(PageOfSwap(acc), n)
  BY DEF Scan, SwapTag
<1>3. \A i \in 1..Len(acc.pages) : acc.pages[i].addr \in Page => acc.pages[i].addr < n
  BY DEF ScanInv, ScanEntries, Entries
<1>4. Len(acc.pages) \in Nat /\ n \in Nat
  BY <1>1, Constants DEF AccType
<1>5. CASE ~acc.held
  <2>1. PageOfSwap(acc) = acc
    BY <1>5 DEF PageOfSwap
  <2>2. acc.swap.addr # NoPage => acc.swap.addr \in Page /\ SwapTag(acc.swap.addr) /\ acc.swap.addr < n
    BY <1>1, <1>5 DEF ScanInv, ScanSwap, AccType
  <2>3. \A p \in Page : p < n /\ (flash[p].tag = "data" \/ IsErased(p)) =>
           \E i \in 1..Len(acc.pages) : acc.pages[i].addr = p
    <3>1. TAKE p \in Page
    <3>2. SwapTag(p) => ~(flash[p].tag = "data" \/ IsErased(p))
      BY DEF SwapTag, IsErased, ErasedPage
    <3>3. p # NoPage
      BY Constants
    <3>4. QED BY <2>2, <3>2, <3>3 DEF ScanInv, ScanCover
  <2>4. OneSwapTag => acc.swap.addr = NoPage
    <3>1. acc.swap.addr # NoPage => acc.swap.addr # n
      BY <2>2, <1>4, Constants
    <3>2. QED BY <2>2, <3>1 DEF OneSwapTag
  <2>5. Len(acc.pages) <= n /\ (OneSwapTag => Len(acc.pages) = n)
    <3>1. /\ Len(acc.pages) + (IF acc.swap.addr = NoPage THEN 0 ELSE 1) <= n
          /\ OneSwapTag =>
               Len(acc.pages) + (IF acc.swap.addr = NoPage THEN 0 ELSE 1) = n
      BY DEF ScanInv, ScanCover
    <3>2. CASE acc.swap.addr = NoPage
      BY <1>4, <3>1, <3>2
    <3>3. CASE acc.swap.addr # NoPage
      BY <1>4, <2>4, <3>1, <3>3
    <3>4. QED BY <3>2, <3>3
  <2>6. Entries(n, acc.pages)
    BY DEF ScanInv, ScanEntries
  <2>7. QED BY <1>1, <1>2, <1>3, <2>1, <2>3, <2>5, <2>6, SwapFoundStep
<1>6. CASE acc.held
  <2> PICK a : a = acc.swap.addr
    OBVIOUS
  <2>1. a # NoPage /\ a \in Page /\ a < n
    BY <1>1, <1>6 DEF ScanInv, ScanSwap, AccType
  <2>2. OneSwapTag => IsErased(a)
    <3>1. SwapSeen(acc) => SwapTag(a)
      BY <2>1 DEF ScanInv, ScanSwap
    <3>2. a # n
      BY <2>1, <1>4, Constants
    <3>3. ~SwapSeen(acc) => IsErased(a)
      BY <2>1 DEF ScanInv, ScanSwap
    <3>4. QED BY <2>1, <3>1, <3>2, <3>3 DEF OneSwapTag
  <2>3. PICK b : b = Found(acc, "erased", a, {})
    OBVIOUS
  <2>4. PageOfSwap(acc) = b
    BY <1>6, <2>3 DEF PageOfSwap
  <2>5. PICK e : e = Entry("erased", a)
    OBVIOUS
  <2>6. acc.opts \union {} \in KindSets
    BY <1>1 DEF AccType
  <2>7. Adds(acc, b, e, {}) /\ b.cur = acc.cur
    BY <1>1, <2>1, <2>3, <2>5, <2>6, FoundAdds
  <2>8. e.type = "erased" /\ e.addr = a /\ e.offset = 0
    BY <2>5 DEF Entry
  <2> DEFINE l == Len(acc.pages)
  <2>9. /\ b \in AccType /\ Len(b.pages) = l + 1 /\ b.pages[l + 1] = e
        /\ \A i \in 1..l : b.pages[i] = acc.pages[i]
    BY <2>7, Zenon DEF Adds
  <2>10. \A k \in Kinds : k \in b.opts <=> k \in acc.opts
    BY <2>7 DEF Adds, Opts
  <2>11. l + 1 <= n /\ (OneSwapTag => l + 1 = n)
    BY <1>4, <2>1 DEF ScanInv, ScanCover
  <2>12. \A i \in 1..l : acc.pages[i].addr # a
    BY <2>1 DEF ScanInv, ScanEntries, Entries
  <2>13. \A p \in Page : p < n /\ (flash[p].tag = "data" \/ IsErased(p)) =>
           p = a \/ \E i \in 1..l : acc.pages[i].addr = p
    BY DEF ScanInv, ScanCover
  <2>14. ScanEntries(n, acc) /\ l \in Nat
    BY <1>4 DEF ScanInv
  <2> HIDE DEF l
  <2>15. \A i \in 1..Len(b.pages) : i = l + 1 \/ i \in 1..l
    BY <2>9, <2>14
  <2>16. \A i \in 1..Len(b.pages) : b.pages[i].addr \in Page => b.pages[i].addr < n
    BY <2>1, <2>8, <2>9, <2>15, <1>3 DEF l
  <2>17. \A p \in Page : p < n /\ (flash[p].tag = "data" \/ IsErased(p)) =>
           \E i \in 1..Len(b.pages) : b.pages[i].addr = p
    BY <2>8, <2>9, <2>13, <2>14
  <2>18. Entries(n, b.pages)
    <3>1. ASSUME NEW i \in 1..Len(b.pages)
          PROVE  LET f == b.pages[i] IN
           /\ f.type = "data" =>
                /\ f.addr \in Page /\ flash[f.addr].tag = "data"
                /\ f.offset = Used(f.addr)
           /\ f.type = "erased" =>
                /\ f.addr \in Page /\ f.offset = 0
                /\ OneSwapTag => IsErased(f.addr)
           /\ f.type = "undefined" =>
                /\ f.addr = NoPage /\ f.offset = 0
                /\ \E p \in Page : p < n /\ ~Clean(p)
           /\ f.addr \in Page => f.addr < n
      <4>1. CASE i = l + 1
        BY <4>1, <2>1, <2>2, <2>8, <2>9
      <4>2. CASE i \in 1..l
        BY <4>2, <2>9, <2>14 DEF ScanEntries, Entries, l
      <4>3. QED BY <4>1, <4>2, <2>15
    <3>2. ASSUME NEW i \in 1..Len(b.pages), NEW j \in 1..Len(b.pages),
                 b.pages[i].addr = b.pages[j].addr, b.pages[i].addr # NoPage
          PROVE  i = j
      <4>1. CASE i \in 1..l /\ j \in 1..l
        BY <4>1, <3>2, <2>9, <2>14 DEF ScanEntries, Entries, l
      <4>2. CASE i = l + 1 /\ j \in 1..l
        BY <4>2, <3>2, <2>8, <2>9, <2>12
      <4>3. CASE j = l + 1 /\ i \in 1..l
        BY <4>3, <3>2, <2>8, <2>9, <2>12
      <4>4. QED BY <4>1, <4>2, <4>3, <2>15
    <3>3. QED BY <3>1, <3>2 DEF Entries
  <2>19. QED BY <1>2, <2>4, <2>7, <2>9, <2>10, <2>11, <2>17, <2>18, SwapFoundStep
<1>7. QED BY <1>5, <1>6

LEMMA ScanStep ==
  ASSUME flash \in FlashType, NEW n \in Page, NEW acc, ScanInv(n, acc)
  PROVE  ScanInv(n + 1, Scan(acc, n))
<1>1. flash[n].tag = "data" \/ SwapTag(n) \/ ~Clean(n) \/ IsErased(n)
  BY DEF SwapTag, Clean
<1>2. QED BY <1>1, ScanFound, ScanSwapFound, ScanUndefined, ScanErased, ScanHeld

\* What fds_init finds.
LEMMA PagesFound ==
  ASSUME flash \in FlashType
  PROVE  ScanInv(NumPages, pages_init)
<1> DEFINE T == {n \in 0..NumPages : ~ScanInv(n, Scanned[n])}
<1>1. SUFFICES ASSUME T # {} PROVE FALSE
  BY Constants DEF pages_init
<1>2. T \in SUBSET Nat
  OBVIOUS
<1>3. PICK n \in T : \A j \in T : n <= j
  BY <1>1, <1>2, LeastNat
<1>4. CASE n = 0
  <2>1. PICK acc : acc = NothingSeen
    OBVIOUS
  <2>2. /\ acc.pages = <<>> /\ acc.swap.addr = NoPage /\ acc.swap.offset = 0
        /\ acc.held = FALSE /\ acc.cur = 0 /\ acc.opts = {}
        /\ acc \in AccType
    <3>1. {} \in KindSets
      BY DEF KindSets
    <3>2. QED BY <2>1, <3>1, Constants DEF NothingSeen, AccType
  <2>3. \A p \in Page : ~(p < 0)
    BY DEF Page
  <2>4. Len(acc.pages) = 0 /\ 1..0 = {}
    BY <2>2
  <2>5. ScanSwap(0, acc) /\ ScanEntries(0, acc) /\ ScanCover(0, acc) /\ ScanOpts(0, acc)
        /\ ScanKinds(0, acc)
    BY <2>2, <2>3, <2>4 DEF ScanSwap, ScanEntries, Entries, ScanCover, ScanOpts, ScanKinds,
       SwapSeen
  <2>6. QED BY <1>4, <2>1, <2>2, <2>5, ScannedFacts DEF ScanInv
<1>5. CASE n # 0
  <2>1. n \in 1..NumPages /\ n - 1 \in Page /\ n - 1 \in 0..NumPages /\ n - 1 + 1 = n
    BY <1>5, Constants DEF Page
  <2>2. n - 1 \notin T
    BY <1>3, <2>1
  <2>3. ScanInv(n - 1, Scanned[n - 1])
    BY <2>1, <2>2
  <2>4. ScanInv(n, Scan(Scanned[n - 1], n - 1))
    BY <2>1, <2>3, ScanStep
  <2>5. QED BY <2>1, <2>4, ScannedFacts
<1>6. QED BY <1>4, <1>5

(***************************************************************************)
(* The inductive invariant.                                                *)
(***************************************************************************)
Steps == {"none", "tag swap", "tag data", "erase swap", "promote", "unset", "begin",
          "finalize", "dirty", "done"}
OpType == [op : {"init", "write", "update", "gc"}, step : Steps,
           key : Key \union {"none"}, id : Nat, old : Nat, page : Index,
           target : Nat \X Nat]
PageRecord ==
  [type : {"data", "erased", "undefined"}, addr : Page \union {NoPage},
   offset : Nat, reserved : Nat, open : Nat, can_gc : BOOLEAN]
SwapType == [addr : Page \union {NoPage}, offset : Nat]
Todos == SUBSET Index
GcType ==
  [state : {"begin", "copy", "erase", "discard", "promote", "tag"},
   cur : Index, src : Nat, todo : Todos, resume : BOOLEAN, run : Nat]
BoundsType == [writes : Nat, gcs : Nat, faults : Nat, opens : Nat]
OpenType == [id : Nat, page : Page, slot : 1..Slots, run : Nat]
FsType == {NoFs, Call(TRUE), Call(FALSE)} \union FlashOpType
Hits == SUBSET Mishap

Swap == m_swap_page.addr
Adr(i) == m_pages[i].addr
Cur == m_gc.cur
Mounted == mode \in {"init", "ready", "failed"}

TypeInv ==
  /\ flash \in FlashType
  /\ mode \in {"off", "init", "ready", "failed", "dead"}
  /\ m_pages \in [Index -> PageRecord]
  /\ m_swap_page \in SwapType
  /\ m_gc \in GcType
  /\ m_op_queue \in Seq(OpType) /\ Len(m_op_queue) <= QueueSize
  /\ m_latest_rec_id \in Nat
  /\ fs \in FsType
  /\ opened = NotOpen \/ opened \in OpenType
  /\ bounds \in BoundsType
  /\ acked \in [Key -> Nat]
  /\ hit \in Hits

\* A page is open for the records that were opened, at most.
OpenInv ==
  /\ bounds.opens <= MaxOpens
  /\ \A i \in Index : m_pages[i].open <= bounds.opens

\* An operation in the queue, the first or not.
OpFits(op, first) ==
  /\ op.op # "init"
  /\ op.op \in Writes =>
       /\ op.page \in DataPages
       /\ op.step \in {"begin", "finalize", "dirty", "done"}
       /\ first \/ op.step = "begin"
       /\ op.step = "dirty" => op.op = "update"
       /\ op.op = "update" /\ op.step # "begin" =>
            op.target[1] \in DataPages /\ op.target[2] \in 1..Slots

\* The queue is empty when nothing runs.
QueueInv ==
  /\ mode \in {"off", "dead", "failed"} => m_op_queue = <<>> /\ fs = NoFs
  /\ mode = "init" => Len(m_op_queue) = 1 /\ Operation1.op = "init" /\ fs # NoFs
  /\ mode = "ready" =>
       /\ m_op_queue = <<>> <=> fs = NoFs
       /\ \A j \in 1..Len(m_op_queue) : OpFits(m_op_queue[j], j = 1)

\* What is mounted has an address, each another one.
AddrInv ==
  /\ Mounted =>
       /\ \A i \in Index :
            /\ m_pages[i].type # "undefined" => Adr(i) \in Page
            /\ m_pages[i].type = "undefined" => Adr(i) = NoPage
            /\ Adr(i) \in Page => Adr(i) # Swap
       /\ \A i, j \in Index : Adr(i) = Adr(j) /\ Adr(i) # NoPage => i = j
  /\ mode = "ready" => Swap \in Page
  /\ mode = "init" /\ Operation1.step # "tag swap" => Swap \in Page

\* A collection, under way or suspended, is that of a data page.
GcInv ==
  /\ m_gc.state = "begin" => ~m_gc.resume
  /\ m_gc.state # "begin" => mode = "ready" /\ Cur \in DataPages
  /\ \A i \in m_gc.todo : mode = "ready" /\ i \in DataPages
  /\ m_gc.state = "copy" => m_gc.src \in 1..Slots
  /\ m_gc.state \in {"begin", "tag"} => m_gc.src = 0

\* The writes in a queue that have room on a page.
Reserving(q, i) == {j \in 1..Len(q) : q[j].op \in Writes /\ q[j].page = i}

ReservedInv ==
  \A i \in Index : m_pages[i].reserved = Cardinality(Reserving(m_op_queue, i))

ShapeInv == TypeInv /\ OpenInv /\ QueueInv /\ AddrInv /\ GcInv /\ ReservedInv

-----------------------------------------------------------------------------
Collecting == m_op_queue # <<>> /\ Operation1.op = "gc"
Writing == m_op_queue # <<>> /\ Operation1.op \in Writes

\* The flash operation under way is that of the step before.
InitFs ==
  mode = "init" =>
    \/ fs = Call(TRUE)
    \/ Operation1.step \in {"tag swap", "tag data"} /\ fs = Call(FALSE)
    \/ Operation1.step = "tag swap" /\ Swap \in Page /\ fs = Erase(Swap)
    \/ Operation1.step = "tag data" /\ Swap \in Page /\ fs = Tag(Swap, "swap")
    \/ Operation1.step \in {"tag swap", "tag data"} /\
         \E i \in DataPages : fs = Tag(Adr(i), "data")

\* What WriteFinalize and the next step write.
WriteStore(do) ==
  fs = Store(do, Adr(Operation1.page), m_pages[Operation1.page].offset + 1,
             [key |-> Operation1.key, id |-> Operation1.id,
              state |-> IF do = "begin" THEN "begun" ELSE "valid"])

WriteFs ==
  Writing =>
    \/ fs = Call(TRUE)
    \/ fs = Call(FALSE) /\ Operation1.step # "begin"
    \/ Operation1.step = "finalize" /\ WriteStore("begin")
    \/ /\ Operation1.step = IF Operation1.op = "write" THEN "done" ELSE "dirty"
       /\ WriteStore("finalize")
    \/ /\ Operation1.op = "update" /\ Operation1.step = "done"
       /\ fs = Store("dirty", Adr(Operation1.target[1]), Operation1.target[2],
                     [SlotAt(Operation1.target) EXCEPT !.state = "dirty"])

\* The flash operation of a step of a collection.
GcOp ==
  CASE m_gc.state = "copy" ->
         Store("copy", Swap, m_swap_page.offset + 1,
               flash[Adr(Cur)].slots[m_gc.src])
    [] m_gc.state = "erase" -> Erase(Adr(Cur))
    [] m_gc.state = "discard" -> Erase(Swap)
    [] m_gc.state = "promote" -> Tag(Adr(Cur), "data")
    [] OTHER -> Tag(Swap, "swap")

GcFs ==
  Collecting =>
     \/ fs = Call(TRUE)
     \/ m_gc.state # "begin" /\ (fs = Call(FALSE) \/ fs = GcOp)

\* What a step leaves in the flash.
StepDone ==
  /\ m_gc.state = "erase" => IsErased(Adr(Cur))
  /\ m_gc.state = "discard" => IsErased(Swap)
  /\ m_gc.state = "promote" => flash[Adr(Cur)].tag = "data"
  /\ m_gc.state = "tag" => SwapTag(Swap)

RightSwap == Unhurt({"advance", "candidate", "unset"})

\* No step is passed over.
ResumeInv ==
  /\ RightSwap /\ m_gc.state # "begin" /\ ~m_gc.resume
  /\ \E j \in 1..Len(m_op_queue) : m_op_queue[j].op = "gc"
  => Collecting /\ (fs = Call(TRUE) => StepDone)

NoSwapTag == \A p \in Page : ~SwapTag(p)

\* At every moment there is a page with the tag of the swap page, and no other,
\* or an erased one to become the swap page.
SwapInv ==
  RightSwap =>
    /\ OneSwapTag
    /\ mode = "off" /\ "tag" \notin hit => \E p \in Page : SwapTag(p) \/ IsErased(p)
    /\ mode = "dead" => "tag" \in hit
    /\ Mounted => Swap \in Page /\ (SwapTag(Swap) \/ IsErased(Swap))
    /\ mode = "init" => \A i \in ErasedPages : IsErased(Adr(i))
    /\ mode = "init" /\ Operation1.step \in {"erase swap", "promote"} =>
         SwapTag(Swap)
    /\ mode = "init" /\ Operation1.step = "tag swap" =>
         /\ fs = Erase(Swap) => SwapTag(Swap)
         /\ fs.do = "tag" =>
              IsErased(Swap) /\ \A p \in Page : SwapTag(p) => p = fs.page
         /\ fs = Call(TRUE) => IsErased(Swap) /\ NoSwapTag
    /\ mode = "init" /\ Operation1.step = "tag data" =>
         /\ fs = Tag(Swap, "swap") => NoSwapTag
         /\ fs # Tag(Swap, "swap") /\ fs # Call(FALSE) => SwapTag(Swap)
    /\ m_gc.state = "promote" =>
         IsErased(Swap) /\ \A p \in Page : SwapTag(p) => p = Adr(Cur)
    /\ mode = "ready" /\ m_gc.state # "promote" =>
         \A p \in Page : SwapTag(p) => p = Swap
    /\ mode = "ready" /\ m_gc.state \in {"begin", "copy", "erase"} =>
         SwapTag(Swap)

(***************************************************************************)
(* Facts about the queue and the room that is reserved in it.              *)
(***************************************************************************)

LEMMA TypesAreRight ==
  ASSUME TypeInv, OpenInv
  PROVE  TypeOK
<1>1. \A i \in Index : m_pages[i].open \in 0..MaxOpens
  BY Constants DEF TypeInv, OpenInv, PageRecord, BoundsType
<1>2. m_pages \in [Index -> [type : {"data", "erased", "undefined"},
       addr : Page \union {NoPage}, offset : Nat, reserved : Nat,
       open : 0..MaxOpens, can_gc : BOOLEAN]]
  BY <1>1 DEF TypeInv, PageRecord
<1>3. flash \in [Page -> [tag : {"none", "half", "swap", "data"},
        slots : [1..Slots -> [key : Key \union {"none"}, id : Nat,
                  state : {"erased", "begun", "valid", "torn", "dirty"}]]]]
  BY Zenon DEF TypeInv, FlashType, PageType, SlotType
<1>4. m_gc.state \in {"begin", "copy", "erase", "discard", "promote", "tag"}
      /\ m_gc.todo \subseteq Index /\ m_gc.cur \in Index
  BY DEF TypeInv, GcType, Todos
<1>5. m_swap_page \in [addr : Page \union {NoPage}, offset : Nat]
  BY DEF TypeInv, SwapType
<1>6. QED BY <1>2, <1>3, <1>4, <1>5 DEF TypeInv, TypeOK, Hits

(***************************************************************************)
(* The queue, and the room of its writes.                                  *)
(***************************************************************************)
LEMMA QueueFacts ==
  ASSUME NEW q \in Seq(OpType), q # <<>>
  PROVE  /\ Len(q) \in Nat /\ Len(q) >= 1 /\ Head(q) = q[1] /\ q[1] \in OpType
         /\ \A j \in 1..Len(q) : q[j] \in OpType
         /\ Tail(q) \in Seq(OpType) /\ Len(Tail(q)) = Len(q) - 1
         /\ \A j \in 1..Len(q) - 1 : Tail(q)[j] = q[j + 1]
         /\ Tail(q) = <<>> <=> Len(q) = 1
<1>1. /\ Len(q) \in Nat /\ Len(q) >= 1 /\ Head(q) = q[1] /\ q[1] \in OpType
      /\ \A j \in 1..Len(q) : q[j] \in OpType
      /\ Tail(q) \in Seq(OpType) /\ Len(Tail(q)) = Len(q) - 1
      /\ \A j \in 1..Len(q) - 1 : Tail(q)[j] = q[j + 1]
  OBVIOUS
<1>2. PICK t \in Seq(OpType) : t = Tail(q)
  BY <1>1
<1>3. t = <<>> <=> Len(t) = 0
  OBVIOUS
<1>4. Len(t) = 0 <=> Len(q) = 1
  BY <1>1, <1>2
<1>5. QED BY <1>1, <1>2, <1>3, <1>4

LEMMA NextFacts ==
  ASSUME NEW q \in Seq(OpType), q # <<>>, NEW op \in OpType, NEW r,
         r = <<op>> \o Tail(q)
  PROVE  /\ r \in Seq(OpType) /\ Len(r) = Len(q) /\ r # <<>> /\ r[1] = op
         /\ Head(r) = op
         /\ \A j \in 2..Len(q) : r[j] = q[j]
<1>1. /\ Tail(q) \in Seq(OpType) /\ Len(Tail(q)) = Len(q) - 1
      /\ \A j \in 1..Len(q) - 1 : Tail(q)[j] = q[j + 1]
      /\ Len(q) \in Nat /\ Len(q) >= 1
  OBVIOUS
<1> PICK t \in Seq(OpType) : t = Tail(q)
  BY <1>1
<1>2. r = <<op>> \o t
  OBVIOUS
<1>3. r \in Seq(OpType) /\ Len(r) = 1 + Len(t) /\ r[1] = op /\ r # <<>>
  BY <1>2
<1>4. \A j \in 2..1 + Len(t) : r[j] = t[j - 1]
  BY <1>2
<1>5. Head(r) = op
  BY <1>3
<1>6. \A j \in 2..Len(q) : r[j] = q[j]
  BY <1>1, <1>4
<1>7. QED BY <1>1, <1>3, <1>5, <1>6

LEMMA OperationType ==
  ASSUME NEW op \in {"init", "write", "update", "gc"}, NEW step \in Steps
  PROVE  /\ Operation(op, step) \in OpType
         /\ Operation(op, step).op = op /\ Operation(op, step).step = step
BY Constants DEF Operation, OpType

LEMMA NoneReserving ==
  ASSUME NEW q, Len(q) = 0, NEW i
  PROVE  Cardinality(Reserving(q, i)) = 0
<1>1. Reserving(q, i) = {}
  BY DEF Reserving
<1>2. QED BY <1>1, FS_EmptySet

LEMMA ReservingFinite ==
  ASSUME NEW q \in Seq(OpType), NEW i
  PROVE  /\ IsFiniteSet(Reserving(q, i))
         /\ Cardinality(Reserving(q, i)) \in Nat
<1>1. Reserving(q, i) \subseteq 1..Len(q) /\ Len(q) \in Nat
  BY DEF Reserving
<1>2. IsFiniteSet(1..Len(q))
  BY <1>1, FS_Interval
<1>3. QED BY <1>1, <1>2, FS_Subset, FS_CardinalityType

\* One operation more.
LEMMA ReservingGrows ==
  ASSUME NEW q \in Seq(OpType), NEW op \in OpType, NEW i
  PROVE  Cardinality(Reserving(Append(q, op), i)) =
           IF op.op \in Writes /\ op.page = i
           THEN Cardinality(Reserving(q, i)) + 1
           ELSE Cardinality(Reserving(q, i))
<1>1. PICK r : r = Append(q, op)
  OBVIOUS
<1>2. /\ Len(r) = Len(q) + 1 /\ Len(q) \in Nat
      /\ \A j \in 1..Len(q) : r[j] = q[j]
      /\ r[Len(q) + 1] = op
  BY <1>1
<1>3. Len(q) + 1 \notin Reserving(q, i)
  BY <1>2 DEF Reserving
<1>4. Reserving(r, i) = IF op.op \in Writes /\ op.page = i
                        THEN Reserving(q, i) \union {Len(q) + 1}
                        ELSE Reserving(q, i)
  BY <1>2 DEF Reserving
<1>5. Cardinality(Reserving(q, i) \union {Len(q) + 1})
        = Cardinality(Reserving(q, i)) + 1
  BY <1>3, ReservingFinite, FS_AddElement
<1>6. QED BY <1>1, <1>4, <1>5

\* The first operation replaced by one for the same page.
LEMMA ReservingStays ==
  ASSUME NEW q, NEW r, Len(r) = Len(q), Len(q) \in Nat,
         \A j \in 1..Len(q) : r[j].op = q[j].op /\ r[j].page = q[j].page,
         NEW i
  PROVE  Reserving(r, i) = Reserving(q, i)
BY DEF Reserving

\* The first operation leaves.
LEMMA ReservingLeaves ==
  ASSUME NEW q \in Seq(OpType), q # <<>>, NEW i
  PROVE  Cardinality(Reserving(q, i)) =
           IF q[1].op \in Writes /\ q[1].page = i
           THEN Cardinality(Reserving(Tail(q), i)) + 1
           ELSE Cardinality(Reserving(Tail(q), i))
<1>1. PICK r \in Seq(OpType) : r = Tail(q)
  BY QueueFacts
<1>2. Len(r) = Len(q) - 1 /\ Len(q) \in Nat /\ Len(q) >= 1
      /\ \A j \in 1..Len(q) - 1 : r[j] = q[j + 1]
  BY <1>1, QueueFacts
<1> DEFINE later == {j \in Reserving(q, i) : j > 1}
           F == [j \in Reserving(r, i) |-> j + 1]
<1>3. \A j \in Reserving(r, i) : j + 1 \in later
  BY <1>2 DEF Reserving
<1>4. \A k \in later : k - 1 \in Reserving(r, i) /\ k = k - 1 + 1
  BY <1>2 DEF Reserving
<1>5. \A j \in Reserving(r, i) : j \in Nat
  BY DEF Reserving
<1>6. F \in Bijection(Reserving(r, i), later)
  <2>1. F \in [Reserving(r, i) -> later]
    BY <1>3
  <2>2. \A j, k \in Reserving(r, i) : F[j] = F[k] => j = k
    BY <1>5
  <2>3. \A k \in later : \E j \in Reserving(r, i) : F[j] = k
    BY <1>4
  <2>4. QED BY <2>1, <2>2, <2>3, Zenon DEF Bijection, Injection, Surjection, IsInjective
<1>7. IsFiniteSet(later) /\ Cardinality(later) = Cardinality(Reserving(r, i))
  <2>1. IsFiniteSet(later)
    BY ReservingFinite, FS_Subset
  <2>2. ExistsBijection(Reserving(r, i), later)
    BY <1>6, Zenon DEF ExistsBijection
  <2>3. QED BY <2>1, <2>2, <1>1, ReservingFinite, FS_Bijection
<1>8. Reserving(q, i) = IF q[1].op \in Writes /\ q[1].page = i
                        THEN later \union {1} ELSE later
  <2>1. \A j \in Reserving(q, i) : j = 1 \/ j > 1
    BY <1>2 DEF Reserving
  <2>2. 1 \in Reserving(q, i) <=> q[1].op \in Writes /\ q[1].page = i
    BY <1>2 DEF Reserving
  <2>3. QED BY <2>1, <2>2
<1>9. Cardinality(later \union {1}) = Cardinality(later) + 1
  <2>1. 1 \notin later
    OBVIOUS
  <2>2. QED BY <2>1, <1>7, FS_AddElement
<1>10. QED BY <1>1, <1>7, <1>8, <1>9

LEMMA FsFacts ==
  /\ \A f \in FlashOpType : f \in FsType /\ f # NoFs /\ f # Call(TRUE) /\ f # Call(FALSE)
  /\ Call(TRUE) \in FsType /\ Call(FALSE) \in FsType /\ NoFs \in FsType
  /\ Call(TRUE) # NoFs /\ Call(FALSE) # NoFs /\ Call(TRUE) # Call(FALSE)
  /\ Call(TRUE).do = "call" /\ Call(FALSE).do = "call" /\ NoFs.do = "none"
  /\ \A f \in FsType : f.do \in FlashOp => f \in FlashOpType
  /\ \A f \in FsType : f.do # "call" /\ f # NoFs => f \in FlashOpType
<1>1. \A f \in FlashOpType : f \in FsType
  BY DEF FsType
<1>2. \A f \in FlashOpType : f.do \in FlashOp
  BY FlashOpCases
<1>3. /\ Call(TRUE).do = "call" /\ Call(FALSE).do = "call" /\ NoFs.do = "none"
      /\ "call" \notin FlashOp /\ "none" \notin FlashOp
      /\ Call(TRUE).ok = TRUE /\ Call(FALSE).ok = FALSE
  BY DEF Call, NoFs, FlashOp
<1>4. \A f \in FlashOpType : f # NoFs /\ f # Call(TRUE) /\ f # Call(FALSE)
  BY <1>2, <1>3
<1>5. Call(TRUE) \in FsType /\ Call(FALSE) \in FsType /\ NoFs \in FsType
  BY DEF FsType
<1>6. \A f \in FsType : f = NoFs \/ f = Call(TRUE) \/ f = Call(FALSE) \/ f \in FlashOpType
  BY DEF FsType
<1>7. Call(TRUE) # NoFs /\ Call(FALSE) # NoFs /\ Call(TRUE) # Call(FALSE)
  BY <1>3
<1>8. QED BY <1>1, <1>3, <1>4, <1>5, <1>6, <1>7

\* What every step in the mode "ready" but the exchange of the pages leaves.
SamePages ==
  /\ m_pages' \in [Index -> PageRecord]
  /\ \A i \in Index : /\ m_pages'[i].type = m_pages[i].type
                      /\ m_pages'[i].addr = m_pages[i].addr

LEMMA SamePagesFacts ==
  ASSUME SamePages
  PROVE  DataPages' = DataPages /\ ErasedPages' = ErasedPages
BY DEF SamePages, DataPages, ErasedPages

LEMMA ReadyPages ==
  ASSUME ShapeInv, mode = "ready", mode' = mode, SamePages,
         m_swap_page'.addr = m_swap_page.addr
  PROVE  AddrInv'
BY DEF ShapeInv, AddrInv, SamePages, Adr, Swap, Mounted

LEMMA ReadyPop ==
  ASSUME ShapeInv, mode = "ready", mode' = mode, m_op_queue # <<>>, Pop,
         DataPages' = DataPages
  PROVE  /\ QueueInv'
         /\ m_op_queue' \in Seq(OpType) /\ Len(m_op_queue') <= QueueSize
         /\ fs' \in FsType
<1>1. /\ m_op_queue \in Seq(OpType) /\ Len(m_op_queue) <= QueueSize
      /\ QueueSize \in Nat
      /\ \A j \in 1..Len(m_op_queue) : OpFits(m_op_queue[j], j = 1)
  BY Constants DEF ShapeInv, TypeInv, QueueInv
<1>2. PICK q : q = Tail(m_op_queue)
  OBVIOUS
<1>3. /\ q \in Seq(OpType) /\ Len(q) = Len(m_op_queue) - 1
      /\ Len(m_op_queue) \in Nat
      /\ \A j \in 1..Len(q) : q[j] = m_op_queue[j + 1]
      /\ q = <<>> <=> Len(m_op_queue) = 1
      /\ Len(m_op_queue) >= 1
  BY <1>1, <1>2, QueueFacts
<1>4. m_op_queue' = q
  BY <1>2 DEF Pop
<1>5. fs' \in FsType /\ (q = <<>> <=> fs' = NoFs)
  <2>1. CASE Len(m_op_queue) > 1
    <3>1. fs' = Call(TRUE) /\ q # <<>>
      BY <1>3, <2>1 DEF Pop
    <3>2. QED BY <3>1, FsFacts
  <2>2. CASE ~(Len(m_op_queue) > 1)
    <3>1. fs' = NoFs /\ q = <<>>
      BY <1>3, <2>2 DEF Pop
    <3>2. QED BY <3>1, FsFacts
  <2>3. QED BY <2>1, <2>2
<1>6. ASSUME NEW j \in 1..Len(q) PROVE OpFits(q[j], j = 1)'
  <2>1. j + 1 \in 1..Len(m_op_queue) /\ j + 1 # 1
    BY <1>3
  <2>2. OpFits(m_op_queue[j + 1], FALSE)
    BY <2>1, <1>1
  <2>3. q[j] = m_op_queue[j + 1]
    BY <1>3
  <2>4. q' = q
    BY <1>2 DEF Pop
  <2>5. QED BY <2>2, <2>3, <2>4 DEF OpFits
<1>7. QED BY <1>1, <1>3, <1>4, <1>5, <1>6 DEF QueueInv

LEMMA ReadyNext ==
  ASSUME ShapeInv, mode = "ready", mode' = mode, m_op_queue # <<>>,
         NEW op \in OpType, Next1(op), OpFits(op, TRUE)',
         op.op = Operation1.op, op.page = Operation1.page,
         DataPages' = DataPages, fs' # NoFs
  PROVE  /\ QueueInv'
         /\ m_op_queue' \in Seq(OpType) /\ Len(m_op_queue') <= QueueSize
         /\ \A i : Reserving(m_op_queue', i) = Reserving(m_op_queue, i)
         /\ Operation1' = op /\ m_op_queue' # <<>>
<1>1. /\ m_op_queue \in Seq(OpType) /\ Len(m_op_queue) <= QueueSize
      /\ \A j \in 1..Len(m_op_queue) : OpFits(m_op_queue[j], j = 1)
  BY DEF ShapeInv, TypeInv, QueueInv
<1>2. PICK r : r = <<op>> \o Tail(m_op_queue)
  OBVIOUS
<1>3. /\ r \in Seq(OpType) /\ Len(r) = Len(m_op_queue) /\ r # <<>> /\ r[1] = op
      /\ Head(r) = op
      /\ \A j \in 2..Len(m_op_queue) : r[j] = m_op_queue[j]
  BY <1>1, <1>2, NextFacts
<1>4. m_op_queue' = r
  BY <1>2 DEF Next1
<1>5. /\ Len(m_op_queue) \in Nat /\ Len(m_op_queue) >= 1
      /\ Operation1 = m_op_queue[1]
  BY <1>1, QueueFacts DEF Operation1
<1>6. ASSUME NEW j \in 1..Len(r) PROVE OpFits(r[j], j = 1)'
  <2>1. CASE j = 1
    BY <2>1, <1>3
  <2>2. CASE j # 1
    <3>1. j \in 2..Len(m_op_queue) /\ j \in 1..Len(m_op_queue)
      BY <1>3, <1>5, <2>2
    <3>2. r[j] = m_op_queue[j] /\ OpFits(m_op_queue[j], FALSE)
      BY <3>1, <2>2, <1>1, <1>3
    <3>3. QED BY <3>2, <2>2 DEF OpFits
  <2>3. QED BY <2>1, <2>2
<1>7. QueueInv'
  BY <1>3, <1>4, <1>6 DEF QueueInv
<1>8. \A j \in 1..Len(m_op_queue) : r[j].op = m_op_queue[j].op /\ r[j].page = m_op_queue[j].page
  <2>1. TAKE j \in 1..Len(m_op_queue)
  <2>2. j = 1 \/ j \in 2..Len(m_op_queue)
    BY <1>5
  <2>3. QED BY <2>2, <1>3, <1>5
<1>9. \A i : Reserving(r, i) = Reserving(m_op_queue, i)
  BY <1>3, <1>5, <1>8, ReservingStays
<1>10. QED BY <1>1, <1>3, <1>4, <1>7, <1>9 DEF Operation1

LEMMA ReadyEnqueue ==
  ASSUME ShapeInv, Calm, mode' = mode,
         NEW op \in OpType, Enqueue(op), OpFits(op, FALSE)',
         DataPages' = DataPages
  PROVE  /\ QueueInv'
         /\ m_op_queue' \in Seq(OpType) /\ Len(m_op_queue') <= QueueSize
         /\ fs' \in FsType /\ m_op_queue' # <<>>
         /\ m_op_queue # <<>> => Operation1' = Operation1 /\ fs' = fs
         /\ m_op_queue = <<>> => Operation1' = op /\ fs' = Call(TRUE)
<1>1. /\ m_op_queue \in Seq(OpType) /\ Len(m_op_queue) < QueueSize
      /\ QueueSize \in Nat
      /\ \A j \in 1..Len(m_op_queue) : OpFits(m_op_queue[j], j = 1)
      /\ m_op_queue = <<>> <=> fs = NoFs
      /\ fs \in FsType /\ mode = "ready"
  BY Constants DEF ShapeInv, TypeInv, QueueInv, Enqueue, Calm
<1>2. PICK r : r = Append(m_op_queue, op)
  OBVIOUS
<1>3. /\ r \in Seq(OpType) /\ Len(r) = Len(m_op_queue) + 1 /\ r # <<>>
      /\ Len(m_op_queue) \in Nat /\ r[Len(m_op_queue) + 1] = op
      /\ \A j \in 1..Len(m_op_queue) : r[j] = m_op_queue[j]
      /\ m_op_queue # <<>> => Head(r) = Head(m_op_queue)
      /\ m_op_queue = <<>> => Head(r) = op
  BY <1>1, <1>2
<1>4. m_op_queue' = r
  BY <1>2 DEF Enqueue
<1>5. /\ fs' \in FsType /\ fs' # NoFs
      /\ m_op_queue # <<>> => fs' = fs
      /\ m_op_queue = <<>> => fs' = Call(TRUE)
  BY <1>1, FsFacts DEF Enqueue
<1>6. ASSUME NEW j \in 1..Len(r) PROVE OpFits(r[j], j = 1)'
  <2>1. CASE j = Len(m_op_queue) + 1
    BY <2>1, <1>3 DEF OpFits
  <2>2. CASE j # Len(m_op_queue) + 1
    <3>1. j \in 1..Len(m_op_queue)
      BY <1>3, <2>2
    <3>2. r[j] = m_op_queue[j] /\ OpFits(m_op_queue[j], j = 1)
      BY <3>1, <1>1, <1>3
    <3>3. QED BY <3>2 DEF OpFits
  <2>3. QED BY <2>1, <2>2
<1>7. QueueInv'
  BY <1>1, <1>3, <1>4, <1>5, <1>6 DEF QueueInv
<1>8. Len(r) <= QueueSize
  BY <1>1, <1>3
<1>9. QED BY <1>3, <1>4, <1>5, <1>7, <1>8 DEF Operation1

(***************************************************************************)
(* Every action keeps ShapeInv: the writes.                                *)
(***************************************************************************)

LEMMA FirstFits ==
  ASSUME ShapeInv, mode = "ready", m_op_queue # <<>>
  PROVE  /\ Operation1 \in OpType /\ OpFits(Operation1, TRUE)
         /\ Operation1 = m_op_queue[1] /\ Len(m_op_queue) >= 1
         /\ Operation1.op # "init"
<1>1. /\ m_op_queue \in Seq(OpType)
      /\ \A j \in 1..Len(m_op_queue) : OpFits(m_op_queue[j], j = 1)
  BY DEF ShapeInv, TypeInv, QueueInv
<1>2. /\ Len(m_op_queue) \in Nat /\ Len(m_op_queue) >= 1
      /\ Operation1 = m_op_queue[1] /\ Operation1 \in OpType
  BY <1>1, QueueFacts DEF Operation1
<1>2a. OpFits(m_op_queue[1], 1 = 1)
  BY <1>1, <1>2
<1>3. OpFits(m_op_queue[1], TRUE)
  BY <1>2a DEF OpFits
<1>4. QED BY <1>2, <1>3 DEF OpFits

\* Where operations run: a queue that is not empty is that of "init" or "ready".
LEMMA RunningMode ==
  ASSUME ShapeInv, m_op_queue # <<>>
  PROVE  /\ mode \in {"init", "ready"}
         /\ Operation1.op = "init" => mode = "init"
         /\ Operation1.op # "init" => mode = "ready"
         /\ mode = "ready" => Operation1.op # "init"
         /\ mode = "init" => Operation1.op = "init"
<1>1. mode \in {"init", "ready"}
  BY DEF ShapeInv, TypeInv, QueueInv
<1>2. mode = "ready" => Operation1.op # "init"
  BY FirstFits
<1>3. mode = "init" => Operation1.op = "init"
  BY DEF ShapeInv, QueueInv
<1>4. QED BY <1>1, <1>2, <1>3

LEMMA StoreType ==
  ASSUME ShapeInv, NEW do \in {"begin", "finalize", "dirty", "copy"},
         NEW p \in Page, NEW n \in Nat, NEW new \in SlotType
  PROVE  Store(do, p, n, new) \in FlashOpType
BY DEF FlashOpType

LEMMA DataPageFacts ==
  ASSUME ShapeInv, mode = "ready", NEW i \in DataPages
  PROVE  /\ i \in Index /\ Adr(i) \in Page /\ Adr(i) # Swap
         /\ m_pages[i] \in PageRecord /\ m_pages[i].addr = Adr(i)
         /\ m_pages[i].offset \in Nat /\ m_pages[i].reserved \in Nat
         /\ m_pages[i].open \in Nat
         /\ \A s \in 1..Slots : flash[Adr(i)].slots[s] \in SlotType
<1>1. i \in Index /\ Adr(i) \in Page /\ Adr(i) # Swap
  BY DEF ShapeInv, AddrInv, DataPages, Mounted
<1>2. m_pages[i] \in PageRecord /\ flash \in FlashType
  BY <1>1 DEF ShapeInv, TypeInv
<1>3. flash[Adr(i)] \in PageType
  BY <1>1, <1>2 DEF FlashType
<1>4. QED BY <1>1, <1>2, <1>3 DEF Adr, PageRecord, PageType

\* A step that leaves the room, the open records and the collection alone.
PagesKept ==
  /\ SamePages
  /\ \A i \in Index : /\ m_pages'[i].open = m_pages[i].open
                      /\ m_pages'[i].reserved = m_pages[i].reserved

LEMMA KeptPages ==
  ASSUME ShapeInv, UNCHANGED m_pages
  PROVE  PagesKept
BY DEF ShapeInv, TypeInv, PagesKept, SamePages

LEMMA GcStays ==
  ASSUME ShapeInv, UNCHANGED m_gc, mode' = mode, DataPages' = DataPages
  PROVE  GcInv'
BY DEF ShapeInv, GcInv, Cur

\* What a write writes.
LEMMA StoreRecordType ==
  ASSUME ShapeInv, Runs(Writes), NEW do \in {"begin", "finalize"},
         NEW state \in {"begun", "valid"}, StoreRecord(do, state)
  PROVE  /\ fs' \in FlashOpType /\ fs' \in FsType /\ fs' # NoFs
         /\ fs' = Store(do, Adr(Operation1.page),
                        m_pages[Operation1.page].offset + 1,
                        [key |-> Operation1.key, id |-> Operation1.id,
                         state |-> state])
<1>1. m_op_queue # <<>> /\ Operation1.op \in Writes /\ mode = "ready"
  BY RunningMode DEF Runs, Operation1, Writes
<1>2. Operation1 \in OpType /\ Operation1.page \in DataPages
  BY <1>1, FirstFits DEF OpFits
<1>3. PICK new : new = [key |-> Operation1.key, id |-> Operation1.id, state |-> state]
  OBVIOUS
<1>4. new \in SlotType
  BY <1>2, <1>3 DEF OpType, SlotType
<1>5. /\ m_pages[Operation1.page].offset + 1 \in Nat
      /\ m_pages[Operation1.page].addr = Adr(Operation1.page)
      /\ Adr(Operation1.page) \in Page
  BY <1>1, <1>2, DataPageFacts
<1>6. fs' = Store(do, Adr(Operation1.page), m_pages[Operation1.page].offset + 1, new)
  BY <1>3, <1>5 DEF StoreRecord
<1>7. QED BY <1>3, <1>4, <1>5, <1>6, StoreType, FsFacts

\* The next step of a write.
LEMMA WriteStepShape ==
  ASSUME ShapeInv, Runs(Writes), mode' = mode,
         NEW op \in OpType, Next1(op),
         op.op = Operation1.op, op.page = Operation1.page,
         op.step \in {"finalize", "dirty", "done"},
         op.step = "dirty" => op.op = "update",
         op.op = "update" => op.target[1] \in DataPages /\ op.target[2] \in 1..Slots,
         PagesKept, fs' \in FsType, fs' # NoFs, hit' \in Hits,
         UNCHANGED <<flash, m_swap_page, m_gc, m_latest_rec_id, opened, bounds,
                     acked>>
  PROVE  ShapeInv'
<1>1. m_op_queue # <<>> /\ Operation1.op \in Writes /\ mode = "ready"
  BY RunningMode DEF Runs, Operation1, Writes
<1>2. OpFits(Operation1, TRUE)
  BY <1>1, FirstFits
<1>3. DataPages' = DataPages
  BY SamePagesFacts DEF PagesKept
<1>4. OpFits(op, TRUE)'
  BY <1>1, <1>2, <1>3 DEF OpFits, Writes
<1>5. /\ QueueInv'
      /\ m_op_queue' \in Seq(OpType) /\ Len(m_op_queue') <= QueueSize
      /\ \A i : Reserving(m_op_queue', i) = Reserving(m_op_queue, i)
  BY <1>1, <1>3, <1>4, ReadyNext
<1>6. TypeInv'
  BY <1>5 DEF ShapeInv, TypeInv, PagesKept, SamePages
<1>7. AddrInv'
  BY <1>1, ReadyPages DEF PagesKept
<1>8. GcInv'
  BY <1>3, GcStays
<1>9. OpenInv' /\ ReservedInv'
  BY <1>5 DEF ShapeInv, OpenInv, ReservedInv, PagesKept
<1>10. QED BY <1>5, <1>6, <1>7, <1>8, <1>9 DEF ShapeInv

LEMMA WriteBeginShape ==
  ASSUME ShapeInv, WriteBegin
  PROVE  ShapeInv'
<1>1. m_op_queue # <<>> /\ Operation1.op \in Writes /\ mode = "ready"
  BY RunningMode DEF WriteBegin, Runs, Operation1, Writes
<1>2. Operation1 \in OpType
  BY <1>1, FirstFits
<1>3. PICK at : at = IF Operation1.op = "write" THEN <<0, 0>>
                     ELSE Lowest(Places(Operation1.old))
  OBVIOUS
<1>4. /\ at \in Nat \X Nat
      /\ Operation1.op = "update" => at[1] \in DataPages /\ at[2] \in 1..Slots
  <2>1. CASE Operation1.op = "write"
    BY <2>1, <1>3
  <2>2. CASE Operation1.op = "update"
    <3>1. at \in Places(Operation1.old)
      BY <2>2, <1>3, PlacesFacts, LowestFacts DEF WriteBegin
    <3>2. at \in Index \X (1..Slots) /\ at[1] \in DataPages /\ at[2] \in 1..Slots
      BY <3>1, PlacesFacts
    <3>3. at = <<at[1], at[2]>> /\ at[1] \in Index /\ at[2] \in Nat
      BY <3>2
    <3>4. at[1] \in Nat
      BY <3>3, Constants
    <3>5. QED BY <3>2, <3>3, <3>4
  <2>3. QED BY <1>1, <2>1, <2>2 DEF Writes
<1>5. PICK op : op = [Operation1 EXCEPT !.step = "finalize", !.target = at]
  OBVIOUS
<1>6. /\ op \in OpType /\ op.op = Operation1.op /\ op.page = Operation1.page
      /\ op.step = "finalize" /\ op.target = at
  BY <1>2, <1>4, <1>5 DEF OpType, Steps
<1>7. Next1(op)
  BY <1>3, <1>5 DEF WriteBegin
<1>8. fs' \in FsType /\ fs' # NoFs
  BY StoreRecordType DEF WriteBegin
<1>9. hit' \in Hits
  BY DEF WriteBegin, ShapeInv, TypeInv, Hits, Mishap
<1>10. PagesKept
  BY KeptPages DEF WriteBegin
<1>11. QED BY <1>4, <1>6, <1>7, <1>8, <1>9, <1>10, WriteStepShape DEF WriteBegin

LEMMA WriteFinalizeShape ==
  ASSUME ShapeInv, WriteFinalize
  PROVE  ShapeInv'
<1>1. m_op_queue # <<>> /\ Operation1.op \in Writes /\ mode = "ready"
  BY RunningMode DEF WriteFinalize, Runs, Operation1, Writes
<1>2. Operation1 \in OpType /\ OpFits(Operation1, TRUE)
  BY <1>1, FirstFits
<1>3. PICK step : step = IF Operation1.op = "write" THEN "done" ELSE "dirty"
  OBVIOUS
<1>4. step \in {"dirty", "done"} /\ (step = "dirty" => Operation1.op = "update")
  BY <1>1, <1>3 DEF Writes
<1>5. PICK op : op = [Operation1 EXCEPT !.step = step]
  OBVIOUS
<1>6. /\ op \in OpType /\ op.op = Operation1.op /\ op.page = Operation1.page
      /\ op.step = step /\ op.target = Operation1.target
  BY <1>2, <1>4, <1>5 DEF OpType, Steps
<1>7. Next1(op)
  BY <1>3, <1>5 DEF WriteFinalize
<1>8. fs' \in FsType /\ fs' # NoFs
  BY StoreRecordType DEF WriteFinalize
<1>9. hit' \in Hits
  BY DEF WriteFinalize, ShapeInv, TypeInv
<1>10. PagesKept
  BY KeptPages DEF WriteFinalize
<1>11. op.op = "update" => op.target[1] \in DataPages /\ op.target[2] \in 1..Slots
  BY <1>2, <1>6 DEF OpFits, WriteFinalize, Writes
<1>12. QED BY <1>4, <1>6, <1>7, <1>8, <1>9, <1>10, <1>11, WriteStepShape DEF WriteFinalize

LEMMA WriteDirtyShape ==
  ASSUME ShapeInv, WriteDirty
  PROVE  ShapeInv'
<1>1. m_op_queue # <<>> /\ Operation1.op \in Writes /\ mode = "ready"
  BY RunningMode DEF WriteDirty, Runs, Operation1, Writes
<1>2. Operation1 \in OpType /\ OpFits(Operation1, TRUE)
  BY <1>1, FirstFits
<1>3. /\ Operation1.op = "update"
      /\ Operation1.target[1] \in DataPages /\ Operation1.target[2] \in 1..Slots
  BY <1>1, <1>2 DEF OpFits, WriteDirty
<1>4. PICK i \in DataPages : i = Operation1.target[1]
  BY <1>3
<1>4a. PICK s \in 1..Slots : s = Operation1.target[2]
  BY <1>3
<1>5. PICK op : op = [Operation1 EXCEPT !.step = "done"]
  OBVIOUS
<1>6. /\ op \in OpType /\ op.op = Operation1.op /\ op.page = Operation1.page
      /\ op.step = "done" /\ op.target = Operation1.target
  BY <1>2, <1>5 DEF OpType, Steps
<1>7. Next1(op)
  BY <1>5 DEF WriteDirty
<1>9. hit' \in Hits
  BY DEF WriteDirty, ShapeInv, TypeInv
<1>10. PICK new : new = [flash[Adr(i)].slots[s] EXCEPT !.state = "dirty"]
  OBVIOUS
<1>11. /\ i \in Index /\ Adr(i) \in Page /\ flash[Adr(i)].slots[s] \in SlotType
       /\ m_pages[i].addr = Adr(i)
  BY <1>1, DataPageFacts
<1>12. new \in SlotType
  BY <1>10, <1>11 DEF SlotType
<1>13. fs' = Store("dirty", Adr(i), s, new)
  BY <1>4, <1>4a, <1>10, <1>11, Zenon DEF WriteDirty, SlotAt
<1>14. fs' \in FsType /\ fs' # NoFs
  <2>1. s \in Nat
    BY Constants
  <2>2. QED BY <2>1, <1>11, <1>12, <1>13, StoreType, FsFacts
<1>15. PagesKept
  <2>1. m_pages \in [Index -> PageRecord]
    BY DEF ShapeInv, TypeInv
  <2>2. m_pages' = [m_pages EXCEPT ![i].can_gc = TRUE]
    BY <1>4 DEF WriteDirty
  <2>3. QED BY <2>1, <2>2, <1>11 DEF PagesKept, SamePages, PageRecord
<1>16. QED BY <1>3, <1>6, <1>7, <1>9, <1>14, <1>15, WriteStepShape DEF WriteDirty

LEMMA OffsetsFacts ==
  ASSUME ShapeInv, m_op_queue # <<>>, Operation1.op \in Writes, OffsetsUpdate
  PROVE  /\ SamePages
         /\ \A i \in Index : i # Operation1.page => m_pages'[i] = m_pages[i]
         /\ Operation1.page \in DataPages
         /\ m_pages'[Operation1.page].offset = m_pages[Operation1.page].offset + 1
         /\ m_pages'[Operation1.page].reserved = m_pages[Operation1.page].reserved - 1
         /\ m_pages'[Operation1.page].open = m_pages[Operation1.page].open
<1>1. mode = "ready"
  BY RunningMode DEF Writes
<1>2. PICK p \in DataPages : p = Operation1.page
  BY <1>1, FirstFits DEF OpFits
<1>3. m_pages \in [Index -> PageRecord] /\ p \in Index /\ m_pages[p] \in PageRecord
  BY <1>1, DataPageFacts DEF ShapeInv, TypeInv
<1>4. m_pages[p].reserved \in Nat /\ m_pages[p].reserved >= 1 /\ m_pages[p].offset \in Nat
  <2>1. m_op_queue \in Seq(OpType) /\ Operation1 = m_op_queue[1]
    BY <1>1, FirstFits DEF ShapeInv, TypeInv
  <2>2. m_pages[p].reserved = Cardinality(Reserving(Tail(m_op_queue), p)) + 1
    BY <2>1, <1>2, <1>3, ReservingLeaves DEF ShapeInv, ReservedInv
  <2>3. Cardinality(Reserving(Tail(m_op_queue), p)) \in Nat
    BY <2>1, QueueFacts, ReservingFinite
  <2>4. QED BY <2>2, <2>3, <1>3 DEF PageRecord
<1>4a. PICK a \in Nat : a = m_pages[p].offset + 1
  BY <1>4
<1>4b. PICK b \in Nat : b = m_pages[p].reserved - 1
  BY <1>4
<1>5. PICK r : r = [m_pages[p] EXCEPT !.offset = a, !.reserved = b]
  OBVIOUS
<1>6. /\ r \in PageRecord
      /\ r.offset = a /\ r.reserved = b
      /\ r.open = m_pages[p].open /\ r.type = m_pages[p].type
      /\ r.addr = m_pages[p].addr
  BY <1>3, <1>5 DEF PageRecord
<1>7. m_pages' = [m_pages EXCEPT ![p] = r]
  BY <1>2, <1>3, <1>4a, <1>4b, <1>5 DEF OffsetsUpdate, PageRecord
<1>8. m_pages' \in [Index -> PageRecord] /\ m_pages'[p] = r
      /\ \A i \in Index : i # p => m_pages'[i] = m_pages[i]
  BY <1>3, <1>6, <1>7
<1>9. SamePages
  BY <1>6, <1>8 DEF SamePages
<1>10. QED BY <1>2, <1>4a, <1>4b, <1>6, <1>8, <1>9

LEMMA WriteEndShape ==
  ASSUME ShapeInv, m_op_queue # <<>>, Operation1.op \in Writes,
         OffsetsUpdate, Pop, mode' = mode,
         acked' \in [Key -> Nat], hit' \in Hits,
         UNCHANGED <<flash, m_swap_page, m_gc, m_latest_rec_id, opened, bounds>>
  PROVE  ShapeInv'
<1>1. mode = "ready"
  BY RunningMode DEF Writes
<1>2. PICK p \in DataPages : p = Operation1.page
  BY OffsetsFacts
<1>3. /\ SamePages
      /\ \A i \in Index : i # p => m_pages'[i] = m_pages[i]
      /\ m_pages'[p].reserved = m_pages[p].reserved - 1
      /\ m_pages'[p].open = m_pages[p].open
  BY <1>2, OffsetsFacts
<1>4. DataPages' = DataPages
  BY <1>3, SamePagesFacts
<1>5. /\ QueueInv'
      /\ m_op_queue' \in Seq(OpType) /\ Len(m_op_queue') <= QueueSize
      /\ fs' \in FsType
  BY <1>1, <1>4, ReadyPop
<1>6. TypeInv'
  BY <1>3, <1>5 DEF ShapeInv, TypeInv, SamePages
<1>7. AddrInv' /\ GcInv'
  BY <1>1, <1>3, <1>4, ReadyPages, GcStays
<1>8. OpenInv'
  BY <1>3 DEF ShapeInv, OpenInv
<1>9. ReservedInv'
  <2>1. m_op_queue \in Seq(OpType) /\ Operation1 = m_op_queue[1]
        /\ m_op_queue' = Tail(m_op_queue)
    BY <1>1, FirstFits DEF ShapeInv, TypeInv, Pop
  <2>2. ASSUME NEW i \in Index
        PROVE  m_pages'[i].reserved = Cardinality(Reserving(m_op_queue', i))
    <3>1. m_pages[i].reserved = Cardinality(Reserving(m_op_queue, i))
      BY DEF ShapeInv, ReservedInv
    <3>2. Cardinality(Reserving(Tail(m_op_queue), i)) \in Nat
      BY <2>1, QueueFacts, ReservingFinite
    <3>3. CASE i = p
      <4>1. m_pages[i].reserved = Cardinality(Reserving(Tail(m_op_queue), i)) + 1
        BY <3>1, <3>3, <2>1, <1>2, ReservingLeaves
      <4>2. PICK n \in Nat : n = Cardinality(Reserving(Tail(m_op_queue), i))
        BY <3>2
      <4>3. m_pages[i].reserved = n + 1 /\ m_pages'[i].reserved = n + 1 - 1
        BY <4>1, <4>2, <3>3, <1>3
      <4>4. QED BY <4>2, <4>3, <2>1
    <3>4. CASE i # p
      <4>1. m_pages[i].reserved = Cardinality(Reserving(Tail(m_op_queue), i))
        BY <3>1, <3>4, <2>1, <1>2, ReservingLeaves
      <4>2. QED BY <4>1, <3>4, <2>1, <1>3
    <3>5. QED BY <3>3, <3>4
  <2>3. QED BY <2>2 DEF ReservedInv
<1>10. QED BY <1>5, <1>6, <1>7, <1>8, <1>9 DEF ShapeInv

LEMMA WriteEndsShape ==
  ASSUME ShapeInv, WriteEnds
  PROVE  ShapeInv'
<1>1. m_op_queue # <<>> /\ Operation1.op \in Writes
  BY DEF WriteEnds, Runs, Operation1
<1>2. mode = "ready"
  BY <1>1, RunningMode DEF Writes
<1>3. Operation1.id \in Nat
  BY <1>1, <1>2, FirstFits DEF OpType
<1>4. acked' \in [Key -> Nat] /\ hit' \in Hits
  BY <1>3 DEF WriteEnds, ShapeInv, TypeInv
<1>5. QED BY <1>1, <1>4, WriteEndShape DEF WriteEnds

LEMMA WriteFailsShape ==
  ASSUME ShapeInv, WriteFails
  PROVE  ShapeInv'
<1>1. m_op_queue # <<>> /\ Operation1.op \in Writes
  BY DEF WriteFails, Runs, Fails, Operation1, Writes
<1>2. hit' \in Hits
  BY DEF WriteFails, ShapeInv, TypeInv, Hits, Mishap
<1>3. acked' \in [Key -> Nat]
  BY DEF WriteFails, ShapeInv, TypeInv
<1>4. QED BY <1>1, <1>2, <1>3, WriteEndShape DEF WriteFails

LEMMA OpTypes ==
  /\ \A p \in Page : Erase(p) \in FlashOpType
  /\ \A p \in Page : Tag(p, "swap") \in FlashOpType /\ Tag(p, "data") \in FlashOpType
BY DEF FlashOpType

\* A collection goes on with a copy or an erasure.
GcGoes(gc) ==
  /\ m_op_queue' = m_op_queue
  /\ m_gc' \in GcType /\ m_gc'.cur = gc.cur /\ m_gc'.todo = gc.todo
  /\ m_gc'.resume = gc.resume /\ m_gc'.run = gc.run
  /\ m_swap_page' \in SwapType /\ m_swap_page'.addr = Swap
  /\ m_gc'.state \in {"copy", "erase", "discard"}
  /\ m_gc'.state = "copy" => m_gc'.src \in 1..Slots
  /\ fs' = GcOp' /\ fs' \in FlashOpType

GcArguments(gc, swap) ==
  /\ gc \in GcType /\ gc.cur \in DataPages
  /\ swap \in SwapType /\ swap.addr = Swap

LEMMA GcCopyFacts ==
  ASSUME ShapeInv, mode = "ready", UNCHANGED <<flash, m_pages>>,
         NEW gc, NEW swap, GcArguments(gc, swap), gc.src \in 1..Slots,
         GcCopy(gc, swap)
  PROVE  /\ GcGoes(gc)
         /\ m_gc'.state = "copy" /\ m_gc'.src = gc.src /\ m_swap_page' = swap
<1>1. gc \in GcType /\ gc.cur \in DataPages /\ swap \in SwapType /\ swap.addr = Swap
  BY DEF GcArguments
<1>2. PICK g : g = [gc EXCEPT !.state = "copy"]
  OBVIOUS
<1>3. g \in GcType /\ g.cur = gc.cur /\ g.todo = gc.todo /\ g.resume = gc.resume
      /\ g.run = gc.run /\ g.state = "copy" /\ g.src = gc.src
  BY <1>1, <1>2 DEF GcType
<1>4. m_gc' = g /\ m_swap_page' = swap /\ m_op_queue' = m_op_queue
  BY <1>2 DEF GcCopy
<1>5. Swap \in Page /\ swap.offset \in Nat /\ swap.offset + 1 \in Nat
  BY <1>1 DEF SwapType, ShapeInv, AddrInv
<1>6. PICK new : new = flash[Adr(gc.cur)].slots[gc.src]
  OBVIOUS
<1>7. new \in SlotType
  BY <1>1, <1>6, DataPageFacts
<1>8. fs' = Store("copy", Swap, swap.offset + 1, new)
  BY <1>1, <1>6 DEF GcCopy, Adr
<1>9. fs' \in FlashOpType
  BY <1>5, <1>7, <1>8, StoreType
<1>10. fs' = GcOp'
  BY <1>1, <1>3, <1>4, <1>6, <1>8 DEF GcOp, Swap, Adr, Cur
<1>11. QED BY <1>1, <1>3, <1>4, <1>9, <1>10 DEF GcGoes

LEMMA GcEraseFacts ==
  ASSUME ShapeInv, mode = "ready", UNCHANGED <<flash, m_pages>>,
         NEW gc, NEW swap, GcArguments(gc, swap), GcErase(gc, swap)
  PROVE  /\ GcGoes(gc)
         /\ \/ /\ m_gc'.state = "erase" /\ m_swap_page' = swap
               /\ m_pages[gc.cur].open = 0
            \/ m_gc'.state = "discard" /\ m_swap_page'.offset = 0
         /\ m_gc'.src = gc.src
<1>1. gc \in GcType /\ gc.cur \in DataPages /\ swap \in SwapType /\ swap.addr = Swap
  BY DEF GcArguments
<1>2. Swap \in Page /\ Adr(gc.cur) \in Page /\ m_op_queue' = m_op_queue
  BY <1>1, DataPageFacts DEF ShapeInv, AddrInv, GcErase
<1>3. CASE m_pages[gc.cur].open = 0
  <2>1. PICK g : g = [gc EXCEPT !.state = "erase"]
    OBVIOUS
  <2>2. g \in GcType /\ g.cur = gc.cur /\ g.todo = gc.todo /\ g.resume = gc.resume
        /\ g.run = gc.run /\ g.state = "erase" /\ g.src = gc.src
    BY <1>1, <2>1 DEF GcType
  <2>3. m_gc' = g /\ m_swap_page' = swap /\ fs' = Erase(Adr(gc.cur))
    BY <1>3, <2>1 DEF GcErase, Adr
  <2>4. fs' = GcOp'
    BY <2>2, <2>3 DEF GcOp, Adr, Cur
  <2>5. fs' \in FlashOpType
    BY <1>2, <2>3, OpTypes
  <2>6. QED BY <1>1, <1>2, <1>3, <2>2, <2>3, <2>4, <2>5 DEF GcGoes
<1>4. CASE m_pages[gc.cur].open # 0
  <2>1. PICK g : g = [gc EXCEPT !.state = "discard"]
    OBVIOUS
  <2>1a. PICK s : s = [swap EXCEPT !.offset = 0]
    OBVIOUS
  <2>2. g \in GcType /\ g.cur = gc.cur /\ g.todo = gc.todo /\ g.resume = gc.resume
        /\ g.run = gc.run /\ g.state = "discard" /\ g.src = gc.src
    BY <1>1, <2>1 DEF GcType
  <2>2a. s \in SwapType /\ s.addr = Swap /\ s.offset = 0
    BY <1>1, <2>1a DEF SwapType
  <2>3. m_gc' = g /\ m_swap_page' = s /\ fs' = Erase(Swap)
    BY <1>1, <1>4, <2>1, <2>1a DEF GcErase
  <2>4. fs' = GcOp'
    BY <2>2, <2>2a, <2>3 DEF GcOp, Swap
  <2>5. fs' \in FlashOpType
    BY <1>2, <2>3, OpTypes
  <2>6. QED BY <1>2, <2>2, <2>2a, <2>3, <2>4, <2>5 DEF GcGoes
<1>5. QED BY <1>3, <1>4

LEMMA GcFindNextFacts ==
  ASSUME ShapeInv, mode = "ready", UNCHANGED <<flash, m_pages>>,
         NEW gc, NEW swap, GcArguments(gc, swap), GcFindNext(gc, swap)
  PROVE  /\ GcGoes(gc)
         /\ \/ /\ m_gc'.state = "copy" /\ m_swap_page' = swap
               /\ m_gc'.src \in Records(Adr(gc.cur)) /\ m_gc'.src > gc.src
            \/ /\ m_gc'.state = "erase" /\ m_swap_page' = swap
               /\ m_pages[gc.cur].open = 0
            \/ m_gc'.state = "discard" /\ m_swap_page'.offset = 0
<1>1. gc \in GcType /\ gc.cur \in DataPages /\ swap \in SwapType /\ swap.addr = Swap
  BY DEF GcArguments
<1>2. PICK next : next = {s \in Records(Adr(gc.cur)) : s > gc.src}
  OBVIOUS
<1>3. CASE next = {}
  <2>1. GcErase(gc, swap)
    BY <1>2, <1>3 DEF GcFindNext, Adr
  <2>2. QED BY <2>1, GcEraseFacts
<1>4. CASE next # {}
  <2>1. Records(Adr(gc.cur)) \subseteq 1..Slots
    BY <1>1, DataPageFacts, UsedFacts
  <2>2. next \in SUBSET Nat /\ next \subseteq 1..Slots
    BY <1>2, <2>1, Constants
  <2>3. PICK s \in next : s = Min(next)
    BY <1>4, <2>2, MinFacts
  <2>4. s \in 1..Slots /\ s \in Records(Adr(gc.cur)) /\ s > gc.src
    BY <1>2, <2>1, <2>3
  <2>5. PICK g : g = [gc EXCEPT !.src = s]
    OBVIOUS
  <2>6. g \in GcType /\ g.cur = gc.cur /\ g.todo = gc.todo /\ g.resume = gc.resume
        /\ g.run = gc.run /\ g.src = s
    <3>1. s \in Nat
      BY <2>2
    <3>2. QED BY <3>1, <1>1, <2>5 DEF GcType
  <2>7. GcCopy(g, swap)
    BY <1>2, <1>4, <2>3, <2>5, Zenon DEF GcFindNext, Adr
  <2>8. GcArguments(g, swap)
    BY <1>1, <2>6 DEF GcArguments
  <2>9. GcGoes(g) /\ m_gc'.state = "copy" /\ m_gc'.src = g.src /\ m_swap_page' = swap
    BY <2>4, <2>6, <2>7, <2>8, GcCopyFacts
  <2>10. GcGoes(gc)
    BY <2>6, <2>9 DEF GcGoes
  <2>11. QED BY <2>4, <2>6, <2>9, <2>10
<1>5. QED BY <1>3, <1>4

(***************************************************************************)
(* The collection keeps ShapeInv.                                          *)
(***************************************************************************)

\* What gc_record_find_next does.
GcFinds(gc, swap) ==
  \/ /\ m_gc'.state = "copy" /\ m_swap_page' = swap
     /\ m_gc'.src \in Records(Adr(gc.cur)) /\ m_gc'.src > gc.src
  \/ /\ m_gc'.state = "erase" /\ m_swap_page' = swap
     /\ m_pages[gc.cur].open = 0
  \/ m_gc'.state = "discard" /\ m_swap_page'.offset = 0

\* A collection ends.
GcEnds ==
  /\ m_gc' \in GcType /\ m_gc'.state = "begin" /\ m_gc'.src = 0
  /\ m_gc'.todo = {} /\ m_gc'.resume = FALSE
  /\ m_swap_page' = m_swap_page
  /\ Pop

LEMMA GcNextPageFacts ==
  ASSUME ShapeInv, mode = "ready", UNCHANGED <<flash, m_pages>>,
         NEW gc \in GcType, \A i \in gc.todo : i \in DataPages, GcNextPage(gc)
  PROVE  \/ GcEnds
         \/ \E g : /\ GcArguments(g, m_swap_page) /\ GcGoes(g)
                   /\ g.resume = gc.resume /\ g.src = gc.src
                   /\ \A i \in g.todo : i \in DataPages
                   /\ GcFinds(g, m_swap_page)
<1>1. PICK ready : ready = {i \in gc.todo : m_pages[i].open = 0 /\ m_pages[i].can_gc}
  OBVIOUS
<1>2. CASE ready = {}
  <2>1. m_gc' = [GcIdle EXCEPT !.run = gc.run] /\ Pop /\ m_swap_page' = m_swap_page
    BY <1>1, <1>2 DEF GcNextPage
  <2>2. {} \in Todos
    BY DEF Todos
  <2>3. PICK g : g = [GcIdle EXCEPT !.run = gc.run]
    OBVIOUS
  <2>4. g \in GcType /\ g.state = "begin" /\ g.src = 0 /\ g.todo = {} /\ g.resume = FALSE
    BY <2>2, <2>3, Constants DEF GcIdle, GcType
  <2>5. QED BY <2>1, <2>3, <2>4 DEF GcEnds
<1>3. CASE ready # {}
  <2>1. gc.todo \subseteq Index /\ \A i \in ready : i \in gc.todo
    BY <1>1 DEF GcType, Todos
  <2>2. ready \in SUBSET Nat
    BY <2>1, Constants
  <2>3. PICK i \in ready : i = Min(ready)
    BY <1>3, <2>2, MinFacts
  <2>4. PICK todo \in Todos : todo = Behind(gc.todo, i)
    BY <2>1 DEF Behind, Todos
  <2>5. PICK g : g = [gc EXCEPT !.cur = i, !.todo = todo]
    OBVIOUS
  <2>6. i \in Index /\ i \in DataPages
    BY <2>1
  <2>7. g \in GcType /\ g.cur = i /\ g.todo = todo /\ g.resume = gc.resume /\ g.src = gc.src
    BY <2>5, <2>6 DEF GcType
  <2>8. GcFindNext(g, m_swap_page)
    BY <1>1, <1>3, <2>3, <2>4, <2>5 DEF GcNextPage
  <2>9. GcArguments(g, m_swap_page)
    BY <2>6, <2>7 DEF GcArguments, ShapeInv, TypeInv, Swap
  <2>10. \A j \in g.todo : j \in DataPages
    BY <2>4, <2>7 DEF Behind
  <2>11. GcGoes(g) /\ GcFinds(g, m_swap_page)
    BY <2>8, <2>9, GcFindNextFacts, Zenon DEF GcFinds
  <2>12. QED BY <2>7, <2>9, <2>10, <2>11
<1>4. QED BY <1>2, <1>3

\* Steps of a collection.
LEMMA GcStepShape ==
  ASSUME ShapeInv, mode = "ready", m_op_queue # <<>>, m_op_queue' = m_op_queue,
         mode' = mode, fs' \in FlashOpType,
         m_gc' \in GcType, m_gc'.cur \in DataPages,
         \A i \in m_gc'.todo : i \in DataPages,
         m_gc'.state # "begin",
         m_gc'.state = "copy" => m_gc'.src \in 1..Slots,
         m_gc'.state = "tag" => m_gc'.src = 0,
         m_swap_page' \in SwapType, m_pages' \in [Index -> PageRecord],
         DataPages' = DataPages, AddrInv',
         \A i \in Index : m_pages'[i].open = m_pages[i].open /\
                          m_pages'[i].reserved = m_pages[i].reserved,
         hit' \in Hits,
         UNCHANGED <<flash, m_latest_rec_id, opened, bounds, acked>>
  PROVE  ShapeInv'
<1>1. fs' \in FsType /\ fs' # NoFs
  BY FsFacts
<1>2. TypeInv'
  BY <1>1 DEF ShapeInv, TypeInv
<1>3. QueueInv'
  BY <1>1 DEF ShapeInv, QueueInv, OpFits
<1>4. GcInv'
  BY DEF GcInv, Cur
<1>5. OpenInv' /\ ReservedInv'
  BY DEF ShapeInv, OpenInv, ReservedInv
<1>6. QED BY <1>2, <1>3, <1>4, <1>5 DEF ShapeInv

LEMMA GcPopShape ==
  ASSUME ShapeInv, mode = "ready", m_op_queue # <<>>, Operation1.op = "gc", Pop,
         mode' = mode, m_gc' \in GcType, GcInv', UNCHANGED <<m_pages, m_swap_page>>,
         hit' \in Hits,
         UNCHANGED <<flash, m_latest_rec_id, opened, bounds, acked>>
  PROVE  ShapeInv'
<1>1. DataPages' = DataPages /\ PagesKept
  BY KeptPages DEF DataPages
<1>2. /\ QueueInv'
      /\ m_op_queue' \in Seq(OpType) /\ Len(m_op_queue') <= QueueSize
      /\ fs' \in FsType
  BY <1>1, ReadyPop
<1>3. TypeInv'
  BY <1>2 DEF ShapeInv, TypeInv
<1>4. AddrInv'
  BY <1>1, ReadyPages DEF PagesKept
<1>5. OpenInv'
  BY DEF ShapeInv, OpenInv
<1>6. ReservedInv'
  <2>1. m_op_queue \in Seq(OpType) /\ Operation1 = m_op_queue[1]
        /\ m_op_queue' = Tail(m_op_queue) /\ Operation1.op \notin Writes
    BY FirstFits DEF ShapeInv, TypeInv, Pop, Writes
  <2>2. \A i \in Index : Cardinality(Reserving(m_op_queue, i)) = Cardinality(Reserving(m_op_queue', i))
    BY <2>1, ReservingLeaves
  <2>3. QED BY <2>2 DEF ShapeInv, ReservedInv
<1>7. QED BY <1>2, <1>3, <1>4, <1>5, <1>6 DEF ShapeInv

LEMMA CollectingMode ==
  ASSUME ShapeInv, Runs({"gc"}) \/ Fails({"gc"})
  PROVE  mode = "ready" /\ m_op_queue # <<>> /\ Operation1.op = "gc"
BY RunningMode DEF Runs, Fails, Operation1

LEMMA GcGoesShape ==
  ASSUME ShapeInv, mode = "ready", m_op_queue # <<>>, mode' = mode,
         NEW gc, gc.cur \in DataPages,
         \A i \in gc.todo : i \in DataPages, GcGoes(gc), hit' \in Hits,
         UNCHANGED <<flash, m_pages, m_latest_rec_id, opened, bounds, acked>>
  PROVE  ShapeInv'
<1>1. DataPages' = DataPages /\ PagesKept
  BY KeptPages DEF DataPages
<1>2. AddrInv'
  BY <1>1, ReadyPages DEF PagesKept, GcGoes, Swap
<1>3. QED BY <1>1, <1>2, GcStepShape DEF GcGoes, PagesKept, SamePages

LEMMA GcNextPageShape ==
  ASSUME ShapeInv, mode = "ready", m_op_queue # <<>>, Operation1.op = "gc", mode' = mode,
         NEW gc \in GcType, \A i \in gc.todo : i \in DataPages, GcNextPage(gc), hit' \in Hits,
         UNCHANGED <<flash, m_pages, m_latest_rec_id, opened, bounds, acked>>
  PROVE  ShapeInv'
<1>1. CASE GcEnds
  <2>1. GcInv'
    BY <1>1 DEF GcEnds, GcInv
  <2>2. QED BY <1>1, <2>1, GcPopShape DEF GcEnds
<1>2. CASE \E g : /\ GcArguments(g, m_swap_page) /\ GcGoes(g)
                  /\ \A i \in g.todo : i \in DataPages
  BY <1>2, GcGoesShape DEF GcArguments
<1>3. QED BY <1>1, <1>2, GcNextPageFacts

LEMMA GcBeginShape ==
  ASSUME ShapeInv, GcBegin
  PROVE  ShapeInv'
<1>1. mode = "ready" /\ m_op_queue # <<>> /\ Operation1.op = "gc"
  BY CollectingMode DEF GcBegin, GcRuns
<1>2. PICK todo \in Todos : todo = DataPages
  BY DEF Todos, DataPages
<1>2a. PICK n \in Nat : n = m_gc.run + 1
  BY DEF ShapeInv, TypeInv, GcType
<1>3. PICK gc : gc = [GcIdle EXCEPT !.todo = todo, !.run = n]
  OBVIOUS
<1>4. gc \in GcType /\ gc.todo = todo
  BY <1>2, <1>2a, <1>3, Constants DEF GcIdle, GcType
<1>5. GcNextPage(gc)
  BY <1>2, <1>2a, <1>3 DEF GcBegin
<1>6. QED BY <1>1, <1>2, <1>4, <1>5, GcNextPageShape DEF GcBegin, ShapeInv, TypeInv

LEMMA GcCopiedShape ==
  ASSUME ShapeInv, GcCopied
  PROVE  ShapeInv'
<1>1. mode = "ready" /\ m_op_queue # <<>> /\ m_gc.state = "copy"
  BY CollectingMode DEF GcCopied, GcRuns
<1>2. PICK n \in Nat : n = m_swap_page.offset + 1
  BY DEF ShapeInv, TypeInv, SwapType
<1>3. PICK swap : swap = [m_swap_page EXCEPT !.offset = n]
  OBVIOUS
<1>4. swap \in SwapType /\ swap.addr = Swap
  BY <1>2, <1>3 DEF ShapeInv, TypeInv, SwapType, Swap
<1>5. m_gc.cur \in DataPages /\ \A i \in m_gc.todo : i \in DataPages
  BY <1>1 DEF ShapeInv, GcInv, Cur
<1>6. GcArguments(m_gc, swap)
  BY <1>4, <1>5 DEF GcArguments, ShapeInv, TypeInv
<1>7. GcFindNext(m_gc, swap)
  BY <1>2, <1>3 DEF GcCopied, ShapeInv, TypeInv, SwapType
<1>8. GcGoes(m_gc)
  BY <1>1, <1>6, <1>7, GcFindNextFacts DEF GcCopied
<1>9. QED BY <1>1, <1>5, <1>8, GcGoesShape DEF GcCopied, ShapeInv, TypeInv

LEMMA GcTaggedShape ==
  ASSUME ShapeInv, GcTagged
  PROVE  ShapeInv'
<1>1. mode = "ready" /\ m_op_queue # <<>> /\ Operation1.op = "gc" /\ m_gc \in GcType
  BY CollectingMode DEF GcTagged, GcRuns, ShapeInv, TypeInv
<1>2. \A i \in m_gc.todo : i \in DataPages
  BY DEF ShapeInv, GcInv
<1>3. QED BY <1>1, <1>2, GcNextPageShape DEF GcTagged, ShapeInv, TypeInv

LEMMA GcFailsShape ==
  ASSUME ShapeInv, GcFails
  PROVE  ShapeInv'
<1>1. mode = "ready" /\ m_op_queue # <<>> /\ Operation1.op = "gc"
  BY CollectingMode DEF GcFails
<1>2. DataPages' = DataPages
  BY DEF GcFails, DataPages
<1>3. GcInv'
  BY <1>2, GcStays DEF GcFails
<1>4. hit' \in Hits
  BY DEF GcFails, ShapeInv, TypeInv, Hits, Mishap
<1>5. QED BY <1>1, <1>3, <1>4, GcPopShape DEF GcFails, ShapeInv, TypeInv

LEMMA GcErasedPages ==
  ASSUME ShapeInv, GcErased
  PROVE  /\ mode = "ready" /\ m_op_queue # <<>> /\ m_gc.state = "erase"
         /\ Cur \in DataPages
         /\ m_pages' \in [Index -> PageRecord]
         /\ \A i \in Index : i # Cur => m_pages'[i] = m_pages[i]
         /\ m_pages'[Cur].addr = Swap
         /\ m_pages'[Cur].offset = m_swap_page.offset
         /\ m_pages'[Cur].type = m_pages[Cur].type
         /\ m_pages'[Cur].open = m_pages[Cur].open
         /\ m_pages'[Cur].reserved = m_pages[Cur].reserved
         /\ m_swap_page' \in SwapType /\ m_swap_page'.addr = Adr(Cur)
         /\ m_swap_page'.offset = 0
         /\ m_gc' \in GcType /\ m_gc'.state = "promote" /\ m_gc'.cur = m_gc.cur
         /\ m_gc'.todo = m_gc.todo /\ m_gc'.resume = m_gc.resume
         /\ m_gc'.src = m_gc.src /\ m_gc.resume = FALSE
         /\ DataPages' = DataPages
<1>1. mode = "ready" /\ m_op_queue # <<>> /\ m_gc.state = "erase" /\ m_gc.resume = FALSE
  BY CollectingMode DEF GcErased, GcRuns, ShapeInv, TypeInv, GcType
<1>2. PICK c \in DataPages : c = m_gc.cur
  BY <1>1 DEF ShapeInv, GcInv, Cur
<1>3. /\ c \in Index /\ m_pages[c] \in PageRecord /\ Adr(c) \in Page
      /\ m_pages \in [Index -> PageRecord] /\ Swap \in Page
      /\ m_swap_page \in SwapType /\ m_gc \in GcType
      /\ m_pages[c].addr = Adr(c)
  BY <1>1, DataPageFacts DEF ShapeInv, TypeInv, AddrInv
<1>4. PICK r : r = [m_pages[c] EXCEPT !.addr = Swap, !.offset = m_swap_page.offset]
  OBVIOUS
<1>5. /\ r \in PageRecord /\ r.addr = Swap /\ r.offset = m_swap_page.offset
      /\ r.type = m_pages[c].type /\ r.open = m_pages[c].open
      /\ r.reserved = m_pages[c].reserved
  BY <1>3, <1>4 DEF PageRecord, SwapType
<1>6. m_pages' = [m_pages EXCEPT ![c] = r]
  BY <1>2, <1>3, <1>4 DEF GcErased, PageRecord, Swap
<1>7. m_pages' \in [Index -> PageRecord] /\ m_pages'[c] = r
      /\ \A i \in Index : i # c => m_pages'[i] = m_pages[i]
  BY <1>3, <1>5, <1>6
<1>8. m_swap_page' \in SwapType /\ m_swap_page'.addr = Adr(c) /\ m_swap_page'.offset = 0
  BY <1>2, <1>3 DEF GcErased, SwapType
<1>9. m_gc' \in GcType /\ m_gc'.state = "promote" /\ m_gc'.cur = m_gc.cur
      /\ m_gc'.todo = m_gc.todo /\ m_gc'.resume = m_gc.resume
      /\ m_gc'.src = m_gc.src
  <2>1. PICK g : g = [m_gc EXCEPT !.state = "promote"]
    OBVIOUS
  <2>2. g \in GcType /\ g.state = "promote" /\ g.cur = m_gc.cur
        /\ g.todo = m_gc.todo /\ g.resume = m_gc.resume /\ g.src = m_gc.src
    BY <2>1, <1>3 DEF GcType
  <2>3. QED BY <2>1, <2>2 DEF GcErased
<1>10. DataPages' = DataPages
  <2>1. \A i \in Index : m_pages'[i].type = m_pages[i].type
    BY <1>5, <1>7
  <2>2. QED BY <2>1 DEF DataPages
<1>11. QED BY <1>1, <1>2, <1>5, <1>7, <1>8, <1>9, <1>10 DEF Cur

LEMMA GcErasedShape ==
  ASSUME ShapeInv, GcErased
  PROVE  ShapeInv'
<1>1. PICK c \in DataPages : c = Cur
  BY GcErasedPages
<1>2. /\ mode = "ready" /\ mode' = mode /\ m_op_queue # <<>> /\ m_op_queue' = m_op_queue
      /\ m_pages' \in [Index -> PageRecord]
      /\ \A i \in Index : i # c => m_pages'[i] = m_pages[i]
      /\ m_pages'[c].addr = Swap
      /\ m_pages'[c].type = m_pages[c].type
      /\ m_pages'[c].open = m_pages[c].open
      /\ m_pages'[c].reserved = m_pages[c].reserved
      /\ m_swap_page' \in SwapType /\ m_swap_page'.addr = Adr(c)
      /\ m_gc' \in GcType /\ m_gc'.state = "promote" /\ m_gc'.cur = c
      /\ m_gc'.todo = m_gc.todo
      /\ DataPages' = DataPages
  BY <1>1, GcErasedPages DEF GcErased, Cur
<1>3. \A i \in m_gc'.todo : i \in DataPages
  BY <1>2 DEF ShapeInv, GcInv
<1>4. Swap \in Page /\ c \in Index /\ Adr(c) \in Page /\ Adr(c) # Swap
      /\ m_pages[c].type = "data"
  BY <1>1, <1>2, DataPageFacts DEF ShapeInv, AddrInv, DataPages
<1>5. AddrInv'
  <2>1. \A i \in Index : m_pages'[i].addr = IF i = c THEN Swap ELSE Adr(i)
    BY <1>2 DEF Adr
  <2>2. \A i \in Index : Adr(i) \in Page => Adr(i) # Swap
    BY <1>2 DEF ShapeInv, AddrInv, Mounted
  <2>3. \A i, j \in Index : Adr(i) = Adr(j) /\ Adr(i) # NoPage => i = j
    BY <1>2 DEF ShapeInv, AddrInv, Mounted
  <2>4. \A i \in Index : /\ m_pages[i].type # "undefined" => Adr(i) \in Page
                         /\ m_pages[i].type = "undefined" => Adr(i) = NoPage
    BY <1>2 DEF ShapeInv, AddrInv, Mounted
  <2>5. \A i \in Index : m_pages'[i].type = m_pages[i].type
    BY <1>2
  <2>6. NoPage \notin Page
    BY Constants
  <2>7. \A i \in Index :
            /\ m_pages'[i].type # "undefined" => m_pages'[i].addr \in Page
            /\ m_pages'[i].type = "undefined" => m_pages'[i].addr = NoPage
            /\ m_pages'[i].addr \in Page => m_pages'[i].addr # Adr(c)
    BY <2>1, <2>3, <2>4, <2>5, <2>6, <1>4
  <2>8. \A i, j \in Index : m_pages'[i].addr = m_pages'[j].addr /\ m_pages'[i].addr # NoPage => i = j
    <3>1. \A i \in Index : Adr(i) # Swap
      BY <2>2, <1>4
    <3>2. QED BY <2>1, <2>3, <3>1
  <2>9. QED BY <2>7, <2>8, <1>2, <1>4 DEF AddrInv, Mounted, Adr, Swap
<1>6. fs' \in FlashOpType
  <2>1. fs' = Tag(Swap, "data")
    BY DEF GcErased, Swap
  <2>2. QED BY <2>1, <1>4, OpTypes
<1>7. hit' \in Hits
  BY DEF GcErased, ShapeInv, TypeInv
<1>8. \A i \in Index : m_pages'[i].open = m_pages[i].open /\
                       m_pages'[i].reserved = m_pages[i].reserved
  BY <1>2
<1>9. QED BY <1>1, <1>2, <1>3, <1>5, <1>6, <1>7, <1>8, GcStepShape DEF GcErased

LEMMA GcPromotedShape ==
  ASSUME ShapeInv, GcPromoted
  PROVE  ShapeInv'
<1>1. mode = "ready" /\ m_op_queue # <<>> /\ m_gc.state # "begin" /\ m_gc \in GcType
  BY CollectingMode DEF GcPromoted, GcRuns, ShapeInv, TypeInv
<1>2. PICK g : g = [m_gc EXCEPT !.state = "tag", !.src = 0]
  OBVIOUS
<1>3. g \in GcType /\ g.state = "tag" /\ g.src = 0 /\ g.cur = m_gc.cur /\ g.todo = m_gc.todo
  BY <1>1, <1>2 DEF GcType
<1>4. m_gc' = g
  BY <1>2 DEF GcPromoted
<1>5. m_gc'.cur \in DataPages /\ \A i \in m_gc'.todo : i \in DataPages
  BY <1>1, <1>3, <1>4 DEF ShapeInv, GcInv, Cur
<1>6. DataPages' = DataPages /\ PagesKept /\ m_swap_page'.addr = m_swap_page.addr
  BY KeptPages DEF GcPromoted, DataPages
<1>7. AddrInv'
  BY <1>1, <1>6, ReadyPages DEF PagesKept, GcPromoted
<1>8. fs' \in FlashOpType
  BY <1>1, OpTypes DEF GcPromoted, ShapeInv, AddrInv, Swap
<1>9. QED BY <1>1, <1>3, <1>4, <1>5, <1>6, <1>7, <1>8, GcStepShape
          DEF GcPromoted, PagesKept, SamePages, ShapeInv, TypeInv

\* The step again.
GcAgain(gc) ==
  /\ m_gc' = gc /\ m_swap_page' = m_swap_page /\ m_op_queue' = m_op_queue
  /\ gc.state \in {"promote", "tag"}
  /\ gc.state = "tag" => gc.src = 0
  /\ fs' = GcOp' /\ fs' \in FlashOpType

\* What a retry does, with the mark taken away.
LEMMA GcResumeFacts ==
  ASSUME ShapeInv, GcResume
  PROVE  \E gc \in GcType :
           /\ mode = "ready" /\ m_op_queue # <<>> /\ Operation1.op = "gc"
           /\ fs = Call(TRUE) /\ m_gc.resume
           /\ m_gc.state # "begin"
           /\ gc.state = m_gc.state /\ gc.cur = m_gc.cur /\ gc.todo = m_gc.todo
           /\ gc.resume = FALSE /\ gc.cur \in DataPages /\ gc.src = m_gc.src
           /\ \A i \in gc.todo : i \in DataPages
           /\ \/ m_gc.state = "copy" /\ GcCopy(gc, m_swap_page) /\ GcGoes(gc)
                 /\ m_gc'.state = "copy" /\ m_gc'.src = m_gc.src
                 /\ m_swap_page' = m_swap_page
              \/ m_gc.state = "erase" /\ GcErase(gc, m_swap_page) /\ GcGoes(gc)
              \/ GcAgain(gc)
              \/ /\ m_gc.state = "discard" /\ m_gc' = gc /\ Pop
                 /\ m_swap_page' = m_swap_page
<1>1. /\ mode = "ready" /\ m_op_queue # <<>> /\ Operation1.op = "gc"
      /\ fs = Call(TRUE) /\ m_gc.resume /\ m_gc \in GcType
  BY CollectingMode DEF GcResume, ShapeInv, TypeInv, Runs, Operation1
<1>2. PICK gc : gc = [m_gc EXCEPT !.resume = FALSE]
  OBVIOUS
<1>3. gc \in GcType /\ gc.state = m_gc.state /\ gc.cur = m_gc.cur /\ gc.todo = m_gc.todo
      /\ gc.resume = FALSE /\ gc.src = m_gc.src
  BY <1>1, <1>2 DEF GcType
<1>4. m_gc.state # "begin" /\ gc.cur \in DataPages /\ \A i \in gc.todo : i \in DataPages
  BY <1>1, <1>3 DEF ShapeInv, GcInv, Cur
<1>5. GcArguments(gc, m_swap_page)
  BY <1>3, <1>4 DEF GcArguments, ShapeInv, TypeInv, Swap
<1>6. \/ gc.state = "copy" /\ GcCopy(gc, m_swap_page)
      \/ gc.state = "erase" /\ GcErase(gc, m_swap_page)
      \/ /\ gc.state \in {"promote", "tag"}
         /\ m_gc' = [gc EXCEPT !.src = IF gc.state = "tag" THEN 0 ELSE @]
         /\ fs' = IF gc.state = "tag" THEN Tag(m_swap_page.addr, "swap")
                  ELSE Tag(m_pages[gc.cur].addr, "data")
         /\ UNCHANGED <<m_swap_page, m_op_queue>>
      \/ gc.state = "discard" /\ m_gc' = gc /\ Pop /\ UNCHANGED m_swap_page
  BY <1>2, Zenon DEF GcResume
<1>7. UNCHANGED <<flash, m_pages>>
  BY DEF GcResume
<1>8. CASE gc.state = "copy" /\ GcCopy(gc, m_swap_page)
  <2>1. gc.src \in 1..Slots
    BY <1>3, <1>8 DEF ShapeInv, GcInv
  <2>2. GcGoes(gc) /\ m_gc'.state = "copy" /\ m_gc'.src = gc.src /\ m_swap_page' = m_swap_page
    BY <1>1, <1>5, <1>7, <1>8, <2>1, GcCopyFacts
  <2>3. QED BY <1>1, <1>3, <1>4, <1>8, <2>2
<1>9. CASE gc.state = "erase" /\ GcErase(gc, m_swap_page)
  <2>1. GcGoes(gc)
    BY <1>1, <1>5, <1>7, <1>9, GcEraseFacts
  <2>2. QED BY <1>1, <1>3, <1>4, <1>9, <2>1
<1>10. CASE /\ gc.state \in {"promote", "tag"}
            /\ m_gc' = [gc EXCEPT !.src = IF gc.state = "tag" THEN 0 ELSE @]
            /\ fs' = IF gc.state = "tag" THEN Tag(m_swap_page.addr, "swap")
                     ELSE Tag(m_pages[gc.cur].addr, "data")
            /\ UNCHANGED <<m_swap_page, m_op_queue>>
  <2>1. gc.state = "tag" => gc.src = 0
    BY <1>3 DEF ShapeInv, GcInv
  <2>2. m_gc' = gc
    BY <2>1, <1>3, <1>10 DEF GcType
  <2>3. Swap \in Page /\ Adr(gc.cur) \in Page
    BY <1>1, <1>4, DataPageFacts DEF ShapeInv, AddrInv
  <2>4. fs' = GcOp'
    BY <2>2, <1>7, <1>10 DEF GcOp, Swap, Adr, Cur
  <2>5. fs' \in FlashOpType
    BY <2>3, <1>10, OpTypes DEF Swap, Adr
  <2>6. GcAgain(gc)
    BY <2>1, <2>2, <2>4, <2>5, <1>10 DEF GcAgain
  <2>7. QED BY <1>1, <1>3, <1>4, <2>6
<1>11. CASE gc.state = "discard" /\ m_gc' = gc /\ Pop /\ UNCHANGED m_swap_page
  BY <1>1, <1>3, <1>4, <1>11
<1>12. QED BY <1>6, <1>8, <1>9, <1>10, <1>11

LEMMA GcResumeShape ==
  ASSUME ShapeInv, GcResume
  PROVE  ShapeInv'
<1>1. PICK gc \in GcType :
           /\ mode = "ready" /\ m_op_queue # <<>> /\ Operation1.op = "gc"
           /\ gc.state = m_gc.state /\ m_gc.state # "begin"
           /\ gc.resume = FALSE /\ gc.cur \in DataPages /\ gc.src = m_gc.src
           /\ \A i \in gc.todo : i \in DataPages
           /\ \/ GcGoes(gc)
              \/ GcAgain(gc)
              \/ /\ m_gc.state = "discard" /\ m_gc' = gc /\ Pop
                 /\ m_swap_page' = m_swap_page
  BY GcResumeFacts
<1>2. hit' \in Hits
  BY DEF GcResume, ShapeInv, TypeInv, Hits, Mishap
<1>3. CASE GcGoes(gc)
  BY <1>1, <1>2, <1>3, GcGoesShape DEF GcResume
<1>4. DataPages' = DataPages /\ PagesKept
  BY KeptPages DEF GcResume, DataPages
<1>5. CASE GcAgain(gc)
  <2>1. AddrInv'
    BY <1>1, <1>4, <1>5, ReadyPages DEF PagesKept, GcResume, GcAgain
  <2>2. QED BY <1>1, <1>2, <1>4, <1>5, <2>1, GcStepShape DEF GcAgain, GcResume, PagesKept, SamePages, ShapeInv, TypeInv
<1>6. CASE /\ m_gc.state = "discard" /\ m_gc' = gc /\ Pop
           /\ m_swap_page' = m_swap_page
  <2>1. GcInv'
    BY <1>1, <1>4, <1>6 DEF GcInv, Cur, GcResume
  <2>2. QED BY <1>1, <1>2, <1>6, <2>1, GcPopShape DEF GcResume
<1>7. QED BY <1>1, <1>3, <1>5, <1>6

(***************************************************************************)
(* The callers keep ShapeInv.                                              *)
(***************************************************************************)

LEMMA CountFacts ==
  ASSUME ShapeInv, NEW what \in {"writes", "gcs", "faults", "opens"},
         NEW max \in Nat, Count(what, max)
  PROVE  /\ bounds' \in BoundsType
         /\ bounds[what] < max /\ bounds'[what] = bounds[what] + 1
         /\ bounds[what] \in Nat
         /\ bounds'.opens = IF what = "opens" THEN bounds.opens + 1 ELSE bounds.opens
<1>1. bounds \in BoundsType
  BY DEF ShapeInv, TypeInv
<1>2. PICK n \in Nat : n = bounds[what] + 1
  BY <1>1 DEF BoundsType
<1>3. bounds' = [bounds EXCEPT ![what] = n]
  BY <1>2 DEF Count
<1>4. bounds' \in BoundsType /\ bounds'[what] = n
      /\ bounds'.opens = IF what = "opens" THEN n ELSE bounds.opens
  BY <1>1, <1>3 DEF BoundsType
<1>5. QED BY <1>1, <1>2, <1>4 DEF Count, BoundsType

LEMMA SlotAtType ==
  ASSUME ShapeInv, mode = "ready", NEW at, at[1] \in DataPages, at[2] \in 1..Slots
  PROVE  SlotAt(at) \in SlotType
<1>1. PICK i \in DataPages : i = at[1]
  OBVIOUS
<1>2. PICK s \in 1..Slots : s = at[2]
  OBVIOUS
<1>3. flash[Adr(i)].slots[s] \in SlotType /\ m_pages[i].addr = Adr(i)
  BY DataPageFacts
<1>4. QED BY <1>1, <1>2, <1>3 DEF SlotAt

LEMMA WriteEnqueuedPages ==
  ASSUME ShapeInv, NEW key \in Key, write_enqueue(key)
  PROVE  \E i \in DataPages :
           /\ SamePages /\ HasRoom(i)
           /\ \A j \in Index : j # i => m_pages'[j] = m_pages[j]
           /\ m_pages'[i].reserved = m_pages[i].reserved + 1
           /\ m_pages[i].reserved \in Nat
           /\ m_pages'[i].offset = m_pages[i].offset
           /\ m_pages'[i].open = m_pages[i].open
           /\ \E op \in OpType :
                /\ Enqueue(op) /\ op.op \in Writes /\ op.step = "begin"
                /\ op.page = i
<1>1. mode = "ready"
  BY DEF write_enqueue, Calm
<1>2. PICK room : room = {i \in DataPages : HasRoom(i)}
  OBVIOUS
<1>3. room # {} /\ room \in SUBSET Nat
  BY <1>2, Constants DEF write_enqueue, DataPages
<1>4. PICK i \in room : i = Min(room)
  BY <1>3, MinFacts
<1>5. i \in DataPages /\ i \in Index /\ HasRoom(i)
  BY <1>2, <1>4 DEF DataPages
<1>6. m_pages[i] \in PageRecord /\ m_pages \in [Index -> PageRecord]
  BY <1>5 DEF ShapeInv, TypeInv
<1>7. PICK n \in Nat : n = m_pages[i].reserved + 1
  BY <1>6 DEF PageRecord
<1>8. PICK r : r = [m_pages[i] EXCEPT !.reserved = n]
  OBVIOUS
<1>9. /\ r \in PageRecord /\ r.reserved = n /\ r.offset = m_pages[i].offset
      /\ r.open = m_pages[i].open /\ r.type = m_pages[i].type /\ r.addr = m_pages[i].addr
  BY <1>6, <1>8 DEF PageRecord
<1>10. m_pages' = [m_pages EXCEPT ![i] = r]
  <2>1. m_pages' = [m_pages EXCEPT ![Min(room)].reserved = @ + 1]
    BY <1>2 DEF write_enqueue
  <2>2. QED BY <2>1, <1>4, <1>5, <1>6, <1>7, <1>8 DEF PageRecord
<1>11. m_pages' \in [Index -> PageRecord] /\ m_pages'[i] = r
       /\ \A j \in Index : j # i => m_pages'[j] = m_pages[j]
  BY <1>5, <1>6, <1>9, <1>10
<1>12. SamePages
  BY <1>9, <1>11 DEF SamePages
<1>13. PICK kind \in Writes : kind = IF OfKey(key) = {} THEN "write" ELSE "update"
  BY DEF Writes
<1>14. PICK old \in Nat : old = IF OfKey(key) = {} THEN 0 ELSE SlotAt(Lowest(OfKey(key))).id
  <2>1. CASE OfKey(key) = {}
    BY <2>1
  <2>2. CASE OfKey(key) # {}
    <3>1. Lowest(OfKey(key)) \in OfKey(key)
      BY <2>2, OfKeyFacts, LowestFacts
    <3>2. SlotAt(Lowest(OfKey(key))) \in SlotType
      BY <1>1, <3>1, OfKeyFacts, SlotAtType
    <3>3. SlotAt(Lowest(OfKey(key))).id \in Nat
      BY <3>2 DEF SlotType
    <3>4. QED BY <2>2, <3>3
  <2>3. QED BY <2>1, <2>2
<1>15. PICK id \in Nat : id = m_latest_rec_id + 1
  BY DEF ShapeInv, TypeInv
<1>16. PICK op0 \in OpType : op0 = Operation(kind, "begin") /\ op0.op = kind /\ op0.step = "begin"
  <2>1. kind \in {"init", "write", "update", "gc"} /\ "begin" \in Steps
    BY DEF Steps, Writes
  <2>2. QED BY <2>1, OperationType
<1>17. PICK op : op = [op0 EXCEPT !.key = key, !.id = id, !.page = i, !.old = old]
  OBVIOUS
<1>18. op \in OpType /\ op.op = kind /\ op.step = "begin" /\ op.page = i
  BY <1>5, <1>16, <1>17 DEF OpType
<1>19. Enqueue(op)
  <2>1. Enqueue([Operation(IF OfKey(key) = {} THEN "write" ELSE "update", "begin")
             EXCEPT !.key = key, !.id = m_latest_rec_id + 1, !.page = Min(room),
                    !.old = IF OfKey(key) = {} THEN 0 ELSE SlotAt(Lowest(OfKey(key))).id])
    BY <1>2 DEF write_enqueue
  <2>2. QED BY <2>1, <1>4, <1>13, <1>14, <1>15, <1>16, <1>17
<1>20. QED BY <1>5, <1>6, <1>7, <1>9, <1>11, <1>12, <1>18, <1>19 DEF PageRecord

LEMMA WriteEnqueueShape ==
  ASSUME ShapeInv, NEW key \in Key, write_enqueue(key)
  PROVE  ShapeInv'
<1>1. mode = "ready" /\ Calm /\ mode' = mode
  BY DEF write_enqueue, Calm
<1>2. PICK i \in DataPages :
           /\ SamePages
           /\ \A j \in Index : j # i => m_pages'[j] = m_pages[j]
           /\ m_pages'[i].reserved = m_pages[i].reserved + 1
           /\ m_pages[i].reserved \in Nat
           /\ m_pages'[i].open = m_pages[i].open
           /\ \E op \in OpType :
                /\ Enqueue(op) /\ op.op \in Writes /\ op.step = "begin"
                /\ op.page = i
  BY WriteEnqueuedPages
<1>3. PICK op \in OpType :
                /\ Enqueue(op) /\ op.op \in Writes /\ op.step = "begin"
                /\ op.page = i
  BY <1>2
<1>4. DataPages' = DataPages
  BY <1>2, SamePagesFacts
<1>5. OpFits(op, FALSE)'
  BY <1>3, <1>4 DEF OpFits, Writes
<1>6. /\ QueueInv'
      /\ m_op_queue' \in Seq(OpType) /\ Len(m_op_queue') <= QueueSize
      /\ fs' \in FsType
  BY <1>1, <1>3, <1>4, <1>5, ReadyEnqueue
<1>7. bounds' \in BoundsType /\ bounds'.opens = bounds.opens
  BY CountFacts, Constants DEF write_enqueue
<1>8. hit' \in Hits /\ m_latest_rec_id' \in Nat
  BY DEF write_enqueue, ShapeInv, TypeInv, Hits, Mishap
<1>9. TypeInv'
  BY <1>2, <1>6, <1>7, <1>8 DEF ShapeInv, TypeInv, SamePages, write_enqueue
<1>10. AddrInv' /\ GcInv'
  BY <1>1, <1>2, <1>4, ReadyPages, GcStays DEF write_enqueue
<1>11. OpenInv'
  BY <1>2, <1>7 DEF ShapeInv, OpenInv
<1>12. ReservedInv'
  <2>1. m_op_queue \in Seq(OpType) /\ m_op_queue' = Append(m_op_queue, op)
    BY <1>3 DEF Enqueue, ShapeInv, TypeInv
  <2>2. ASSUME NEW j \in Index
        PROVE  m_pages'[j].reserved = Cardinality(Reserving(m_op_queue', j))
    <3>1. m_pages[j].reserved = Cardinality(Reserving(m_op_queue, j))
      BY DEF ShapeInv, ReservedInv
    <3>2. CASE j = i
      <4>1. Cardinality(Reserving(m_op_queue', j)) = Cardinality(Reserving(m_op_queue, j)) + 1
        BY <1>3, <2>1, <3>2, ReservingGrows
      <4>2. QED BY <4>1, <3>1, <3>2, <1>2
    <3>3. CASE j # i
      <4>1. Cardinality(Reserving(m_op_queue', j)) = Cardinality(Reserving(m_op_queue, j))
        BY <1>3, <2>1, <3>3, ReservingGrows
      <4>2. QED BY <4>1, <3>1, <3>3, <1>2
    <3>4. QED BY <3>2, <3>3
  <2>3. QED BY <2>2 DEF ReservedInv
<1>13. QED BY <1>6, <1>9, <1>10, <1>11, <1>12 DEF ShapeInv

LEMMA FdsGcShape ==
  ASSUME ShapeInv, fds_gc
  PROVE  ShapeInv'
<1>1. mode = "ready" /\ Calm /\ mode' = mode
  BY DEF fds_gc, Calm
<1>2. PICK op \in OpType : op = Operation("gc", "none") /\ op.op = "gc"
  BY OperationType DEF Steps
<1>3. Enqueue(op)
  BY <1>2 DEF fds_gc
<1>4. DataPages' = DataPages /\ PagesKept
  BY KeptPages DEF fds_gc, DataPages
<1>5. OpFits(op, FALSE)'
  BY <1>2 DEF OpFits, Writes
<1>6. /\ QueueInv'
      /\ m_op_queue' \in Seq(OpType) /\ Len(m_op_queue') <= QueueSize
      /\ fs' \in FsType
  BY <1>1, <1>3, <1>4, <1>5, ReadyEnqueue
<1>7. bounds' \in BoundsType /\ bounds'.opens = bounds.opens
  BY CountFacts, Constants DEF fds_gc
<1>8. /\ m_gc' \in GcType /\ m_gc'.state = m_gc.state /\ m_gc'.cur = m_gc.cur
      /\ m_gc'.todo = m_gc.todo /\ m_gc'.src = m_gc.src
      /\ m_gc'.resume = (m_gc.resume \/ m_gc.state # "begin")
  <2>1. PICK b \in BOOLEAN : b = (m_gc.resume \/ m_gc.state # "begin")
    OBVIOUS
  <2>2. m_gc' = [m_gc EXCEPT !.resume = b] /\ m_gc \in GcType
    BY <2>1, Zenon DEF fds_gc, ShapeInv, TypeInv
  <2>3. QED BY <2>1, <2>2 DEF GcType
<1>9. TypeInv'
  BY <1>6, <1>7, <1>8 DEF ShapeInv, TypeInv, fds_gc
<1>10. AddrInv'
  BY <1>1, <1>4, ReadyPages DEF fds_gc, PagesKept
<1>10a. GcInv'
  BY <1>1, <1>4, <1>8 DEF ShapeInv, GcInv, Cur
<1>11. OpenInv'
  BY <1>7 DEF ShapeInv, OpenInv, fds_gc
<1>12. ReservedInv'
  <2>1. m_op_queue \in Seq(OpType) /\ m_op_queue' = Append(m_op_queue, op) /\ op.op \notin Writes
    BY <1>2, <1>3 DEF Enqueue, ShapeInv, TypeInv, Writes
  <2>2. \A i : Cardinality(Reserving(m_op_queue', i)) = Cardinality(Reserving(m_op_queue, i))
    BY <2>1, ReservingGrows
  <2>3. QED BY <2>2 DEF ShapeInv, ReservedInv, fds_gc
<1>13. QED BY <1>6, <1>9, <1>10, <1>10a, <1>11, <1>12 DEF ShapeInv

\* A step of a caller that leaves the queue alone.
LEMMA QuietShape ==
  ASSUME ShapeInv, mode = "ready", mode' = mode, SamePages,
         \A i \in Index : m_pages'[i].reserved = m_pages[i].reserved,
         OpenInv', opened' = NotOpen \/ opened' \in OpenType,
         bounds' \in BoundsType, hit' \in Hits,
         UNCHANGED <<flash, m_swap_page, m_gc, m_op_queue, m_latest_rec_id, fs,
                     acked>>
  PROVE  ShapeInv'
<1>1. DataPages' = DataPages
  BY SamePagesFacts
<1>2. AddrInv' /\ GcInv'
  BY <1>1, ReadyPages, GcStays
<1>3. TypeInv'
  BY DEF ShapeInv, TypeInv, SamePages
<1>4. QueueInv'
  BY <1>1 DEF ShapeInv, QueueInv, OpFits
<1>5. ReservedInv'
  BY DEF ShapeInv, ReservedInv
<1>6. QED BY <1>2, <1>3, <1>4, <1>5 DEF ShapeInv

LEMMA OpenShape ==
  ASSUME ShapeInv, NEW key \in Key, fds_record_open(key)
  PROVE  ShapeInv'
<1>1. mode = "ready" /\ mode' = mode
  BY DEF fds_record_open, Calm
<1>2. PICK at : at = Lowest(OfKey(key))
  OBVIOUS
<1>3. at[1] \in DataPages /\ at[2] \in 1..Slots
  BY <1>2, OfKeyFacts, LowestFacts DEF fds_record_open
<1>4. PICK i \in DataPages : i = at[1]
  BY <1>3
<1>5. /\ i \in Index /\ Adr(i) \in Page /\ m_pages[i] \in PageRecord
      /\ m_pages[i].addr = Adr(i) /\ m_pages[i].open \in Nat
      /\ m_pages \in [Index -> PageRecord]
  BY <1>1, DataPageFacts DEF ShapeInv, TypeInv
<1>6. PICK n \in Nat : n = m_pages[i].open + 1
  BY <1>5
<1>7. PICK r : r = [m_pages[i] EXCEPT !.open = n]
  OBVIOUS
<1>8. r \in PageRecord /\ r.open = n /\ r.type = m_pages[i].type
      /\ r.addr = m_pages[i].addr /\ r.reserved = m_pages[i].reserved
  BY <1>5, <1>7 DEF PageRecord
<1>9. m_pages' = [m_pages EXCEPT ![i] = r]
  BY <1>2, <1>4, <1>5, <1>6, <1>7 DEF fds_record_open, PageRecord
<1>10. m_pages' \in [Index -> PageRecord] /\ m_pages'[i] = r
       /\ \A j \in Index : j # i => m_pages'[j] = m_pages[j]
  BY <1>5, <1>8, <1>9
<1>11. SamePages /\ \A j \in Index : m_pages'[j].reserved = m_pages[j].reserved
  BY <1>8, <1>10 DEF SamePages
<1>12. /\ bounds' \in BoundsType /\ bounds'.opens = bounds.opens + 1
       /\ bounds.opens < MaxOpens /\ bounds.opens \in Nat /\ MaxOpens \in Nat
  BY CountFacts, Constants DEF fds_record_open
<1>13. OpenInv'
  <2>1. ASSUME NEW j \in Index PROVE m_pages'[j].open <= bounds'.opens
    <3>1. m_pages[j].open <= bounds.opens /\ m_pages[j].open \in Nat
      BY DEF ShapeInv, OpenInv, TypeInv, PageRecord
    <3>2. m_pages[i].open <= bounds.opens
      BY <1>5 DEF ShapeInv, OpenInv
    <3>3. CASE j = i
      BY <3>2, <3>3, <1>5, <1>6, <1>8, <1>10, <1>12
    <3>4. CASE j # i
      BY <3>1, <3>4, <1>10, <1>12
    <3>5. QED BY <3>3, <3>4
  <2>2. QED BY <2>1, <1>12 DEF OpenInv
<1>14. opened' \in OpenType
  <2>1. SlotAt(at).id \in Nat
    BY <1>1, <1>3, SlotAtType DEF SlotType
  <2>2. m_gc.run \in Nat
    BY DEF ShapeInv, TypeInv, GcType
  <2>3. opened' = [id |-> SlotAt(at).id, page |-> Adr(i), slot |-> at[2], run |-> m_gc.run]
    BY <1>2, <1>4, <1>5 DEF fds_record_open
  <2>4. QED BY <1>3, <1>5, <2>1, <2>2, <2>3 DEF OpenType
<1>15. hit' \in Hits
  BY DEF fds_record_open, ShapeInv, TypeInv, Hits, Mishap
<1>16. QED BY <1>1, <1>11, <1>12, <1>13, <1>14, <1>15, QuietShape DEF fds_record_open

LEMMA ClosePages ==
  ASSUME ShapeInv, fds_record_close
  PROVE  /\ SamePages
         /\ \A j \in Index : /\ m_pages'[j].reserved = m_pages[j].reserved
                             /\ m_pages'[j].offset = m_pages[j].offset
                             /\ m_pages'[j].open <= m_pages[j].open
                             /\ m_pages'[j].open \in Nat /\ m_pages[j].open \in Nat
<1>2. m_pages \in [Index -> PageRecord]
  BY DEF ShapeInv, TypeInv
<1>3. \E pages \in SUBSET Index :
        m_pages' = IF pages = {} THEN m_pages
                   ELSE [m_pages EXCEPT ![Min(pages)].open = Max({0, @ - 1})]
  <2>1. PICK there : there = ( /\ opened.run = m_gc.run
                  /\ flash[opened.page].slots[opened.slot].id = opened.id)
    OBVIOUS
  <2>2. PICK pages : pages = IF there THEN {i \in Index : m_pages[i].addr = opened.page}
                  ELSE {p[1] : p \in Places(opened.id)}
    OBVIOUS
  <2>3. pages \subseteq Index
    BY <2>2, PlacesFacts
  <2>4. m_pages' = IF pages = {} THEN m_pages
                   ELSE [m_pages EXCEPT ![Min(pages)].open = Max({0, @ - 1})]
    BY <2>1, <2>2, Zenon DEF fds_record_close
  <2>5. QED BY <2>3, <2>4
<1>4. PICK pages \in SUBSET Index :
        m_pages' = IF pages = {} THEN m_pages
                   ELSE [m_pages EXCEPT ![Min(pages)].open = Max({0, @ - 1})]
  BY <1>3
<1>5. CASE pages = {}
  BY <1>2, <1>4, <1>5 DEF SamePages, PageRecord
<1>6. CASE pages # {}
  <2>1. PICK i \in pages : i = Min(pages)
    BY <1>6, Constants, MinFacts
  <2>2. i \in Index /\ m_pages[i] \in PageRecord /\ m_pages[i].open \in Nat
    BY <1>2 DEF PageRecord
  <2>3. PICK n \in Nat : n = Max({0, m_pages[i].open - 1}) /\ n <= m_pages[i].open
    <3>1. PICK o \in Nat : o = m_pages[i].open
      BY <2>2
    <3>2. \E x \in {0, o - 1} : \A y \in {0, o - 1} : x >= y
      OBVIOUS
    <3>3. PICK x : x = Max({0, o - 1})
      OBVIOUS
    <3>4. x \in {0, o - 1} /\ \A y \in {0, o - 1} : x >= y
      BY <3>2, <3>3, Zenon DEF Max
    <3>5. x \in Nat /\ x <= o
      BY <3>4
    <3>6. QED BY <3>1, <3>3, <3>5
  <2>4. PICK r : r = [m_pages[i] EXCEPT !.open = n]
    OBVIOUS
  <2>5. r \in PageRecord /\ r.open = n /\ r.type = m_pages[i].type
        /\ r.addr = m_pages[i].addr /\ r.reserved = m_pages[i].reserved
        /\ r.offset = m_pages[i].offset
    BY <2>2, <2>4 DEF PageRecord
  <2>6. m_pages' = [m_pages EXCEPT ![i] = r]
    BY <1>2, <1>4, <1>6, <2>1, <2>2, <2>3, <2>4 DEF PageRecord
  <2>7. m_pages' \in [Index -> PageRecord] /\ m_pages'[i] = r
        /\ \A j \in Index : j # i => m_pages'[j] = m_pages[j]
    BY <1>2, <2>2, <2>5, <2>6
  <2>8. QED BY <1>2, <2>2, <2>3, <2>5, <2>7 DEF SamePages, PageRecord
<1>7. QED BY <1>5, <1>6

LEMMA CloseShape ==
  ASSUME ShapeInv, fds_record_close
  PROVE  ShapeInv'
<1>1. /\ mode = "ready" /\ mode' = mode /\ bounds' = bounds /\ bounds \in BoundsType
      /\ OpenInv /\ opened' = NotOpen
  BY Zenon DEF fds_record_close, Calm, ShapeInv, TypeInv
<1>2. OpenInv'
  <2>1. bounds.opens \in Nat /\ \A j \in Index : m_pages[j].open <= bounds.opens
    BY <1>1 DEF OpenInv, BoundsType
  <2>2. \A j \in Index : m_pages'[j].open <= bounds.opens
    BY <2>1, ClosePages
  <2>3. QED BY <1>1, <2>2 DEF OpenInv
<1>3. hit' \in Hits
  BY Zenon DEF fds_record_close, ShapeInv, TypeInv
<1>4. QED BY <1>1, <1>2, <1>3, ClosePages, QuietShape, Zenon DEF fds_record_close

(***************************************************************************)
(* The flash, a reset, and the steps of the initialisation keep ShapeInv.  *)
(***************************************************************************)

LEMMA FlashStepShape ==
  ASSUME ShapeInv, fs # NoFs, fs' \in {Call(TRUE), Call(FALSE)},
         flash' \in FlashType, bounds' \in BoundsType, bounds'.opens = bounds.opens,
         UNCHANGED <<mode, ramVars, opened, acked, hit>>
  PROVE  ShapeInv'
<1>1. fs' \in FsType /\ fs' # NoFs
  BY FsFacts
<1>2. /\ mode' = mode /\ m_pages' = m_pages /\ m_swap_page' = m_swap_page
      /\ m_gc' = m_gc /\ m_op_queue' = m_op_queue /\ m_latest_rec_id' = m_latest_rec_id
      /\ opened' = opened /\ acked' = acked /\ hit' = hit
      /\ DataPages' = DataPages /\ Operation1' = Operation1
  BY DEF ramVars, DataPages, Operation1
<1>3. TypeInv'
  BY <1>1, <1>2 DEF ShapeInv, TypeInv
<1>4. OpenInv' /\ ReservedInv' /\ GcInv'
  BY <1>2, GcStays DEF ShapeInv, OpenInv, ReservedInv
<1>5. AddrInv'
  BY <1>2 DEF ShapeInv, AddrInv, Adr, Swap, Mounted
<1>6. QueueInv'
  <2>1. \A j \in 1..Len(m_op_queue) : mode = "ready" => OpFits(m_op_queue[j], j = 1)'
    BY <1>2 DEF ShapeInv, QueueInv, OpFits
  <2>2. QED BY <1>1, <1>2, <2>1 DEF ShapeInv, QueueInv
<1>7. QED BY <1>3, <1>4, <1>5, <1>6 DEF ShapeInv

LEMMA FlashEndsShape ==
  ASSUME ShapeInv, FlashEnds
  PROVE  ShapeInv'
<1>1. fs \in FlashOpType /\ fs # NoFs
  BY FsFacts DEF ShapeInv, TypeInv, FlashEnds
<1>2. flash' \in FlashType
  BY <1>1, DoneFacts DEF FlashEnds, FlashType, ShapeInv, TypeInv
<1>3. QED BY <1>1, <1>2, FlashStepShape DEF FlashEnds, ShapeInv, TypeInv

LEMMA FlashFailsShape ==
  ASSUME ShapeInv, FlashFails
  PROVE  ShapeInv'
<1>1. fs \in FlashOpType /\ fs # NoFs
  BY FsFacts DEF ShapeInv, TypeInv, FlashFails
<1>2. bounds' \in BoundsType /\ bounds'.opens = bounds.opens
  BY CountFacts, Constants DEF FlashFails
<1>3. QED BY <1>1, <1>2, FlashStepShape DEF FlashFails, ShapeInv, TypeInv

\* What a reset leaves of the operation under way.
LEMMA PartlyDoneFacts ==
  ASSUME flash \in FlashType, NEW f \in FlashOpType, NEW g \in PartlyDone(f)
  PROVE  /\ g \in FlashType
         /\ \A p \in Page : p # f.page => g[p] = flash[p]
         /\ \/ /\ f.do = "copy" /\ g[f.page].tag = flash[f.page].tag
               /\ \A s \in 1..Slots : g[f.page].slots[s] = flash[f.page].slots[s] \/
                    \E part \in {"begun", "torn"} :
                      g[f.page].slots[s] = Over(flash[f.page].slots[s], [f.new EXCEPT !.state = part])
            \/ /\ f.do = "tag" /\ flash[f.page].tag = "none" /\ "tag" \notin hit
               /\ g[f.page].tag = "half" /\ g[f.page].slots = flash[f.page].slots
<1>1. PICK p \in Page : p = f.page
  BY FlashOpCases
<1>2. flash[p] \in PageType
  BY DEF FlashType
<1>3. CASE /\ f.do = "tag" /\ flash[p].tag = "none" /\ "tag" \notin hit
           /\ g = [flash EXCEPT ![p].tag = "half"]
  <2>1. PICK r : r = [flash[p] EXCEPT !.tag = "half"]
    OBVIOUS
  <2>2. r \in PageType /\ r.tag = "half" /\ r.slots = flash[p].slots
    BY <1>2, <2>1 DEF PageType
  <2>3. g = [flash EXCEPT ![p] = r]
    BY <1>2, <1>3, <2>1 DEF FlashType, PageType
  <2>4. QED BY <1>1, <1>3, <2>2, <2>3 DEF FlashType
<1>4. CASE /\ f.do = "copy"
           /\ \E part \in {"begun", "torn"} :
                g = [flash EXCEPT ![p].slots[f.slot] =
                       Over(@, [f.new EXCEPT !.state = part])]
  <2>1. PICK part \in {"begun", "torn"} :
           g = [flash EXCEPT ![p].slots[f.slot] =
                  Over(@, [f.new EXCEPT !.state = part])]
    BY <1>4
  <2>2. PICK new : new = [f.new EXCEPT !.state = part]
    OBVIOUS
  <2>3. new \in SlotType /\ f.slot \in Nat
    BY <1>4, <2>2, FlashOpCases DEF SlotType
  <2>4. PICK old : old = Over(flash[p].slots[f.slot], new)
    OBVIOUS
  <2>5. f.slot \in 1..Slots => old \in SlotType
    BY <1>2, <2>3, <2>4, OverFacts DEF PageType
  <2>6. PICK slots : slots = [flash[p].slots EXCEPT ![f.slot] = old]
    OBVIOUS
  <2>7. /\ slots \in [1..Slots -> SlotType]
        /\ \A s \in 1..Slots : slots[s] = IF s = f.slot THEN old ELSE flash[p].slots[s]
    BY <1>2, <2>5, <2>6 DEF PageType
  <2>8. PICK r : r = [flash[p] EXCEPT !.slots = slots]
    OBVIOUS
  <2>9. r \in PageType /\ r.tag = flash[p].tag /\ r.slots = slots
    BY <1>2, <2>7, <2>8 DEF PageType
  <2>10. g = [flash EXCEPT ![p] = r]
    BY <1>2, <2>1, <2>2, <2>4, <2>6, <2>8 DEF FlashType, PageType
  <2>11. g \in FlashType /\ g[p] = r /\ \A q \in Page : q # p => g[q] = flash[q]
    BY <2>9, <2>10 DEF FlashType
  <2>12. \A s \in 1..Slots : g[p].slots[s] = flash[p].slots[s] \/
           g[p].slots[s] = Over(flash[p].slots[s], new)
    BY <2>4, <2>7, <2>9, <2>11
  <2>13. QED BY <1>1, <1>4, <2>2, <2>9, <2>11, <2>12
<1>5. QED BY <1>1, <1>3, <1>4 DEF PartlyDone

LEMMA ResetFlash ==
  ASSUME ShapeInv, Reset
  PROVE  /\ flash' \in FlashType
         /\ \/ flash' = flash
            \/ fs \in FlashOpType /\ flash' = Done(fs)
            \/ fs \in FlashOpType /\ flash' \in PartlyDone(fs)
<1>1. fs.do \in FlashOp => fs \in FlashOpType
  BY FsFacts DEF ShapeInv, TypeInv
<1>2. \/ flash' = flash
      \/ fs \in FlashOpType /\ flash' = Done(fs)
      \/ fs \in FlashOpType /\ flash' \in PartlyDone(fs)
  BY <1>1 DEF Reset
<1>3. flash \in FlashType
  BY DEF ShapeInv, TypeInv
<1>4. QED BY <1>2, <1>3, DoneFacts, PartlyDoneFacts DEF FlashType

LEMMA ResetShape ==
  ASSUME ShapeInv, Reset
  PROVE  ShapeInv'
<1>1. NoPages \in [Index -> PageRecord] /\ \A i \in Index : NoPages[i].open = 0 /\ NoPages[i].reserved = 0
  BY DEF NoPages, PageRecord
<1>2. NoSwap \in SwapType
  BY DEF NoSwap, SwapType
<1>3. GcIdle \in GcType /\ GcIdle.state = "begin" /\ GcIdle.resume = FALSE
      /\ GcIdle.todo = {} /\ GcIdle.src = 0
  <2>1. {} \in Todos
    BY DEF Todos
  <2>2. QED BY <2>1, Constants DEF GcIdle, GcType
<1>4. bounds' \in BoundsType /\ bounds'.opens = bounds.opens
  BY CountFacts, Constants DEF Reset
<1>4a. bounds'.opens \in Nat /\ bounds'.opens <= MaxOpens
  BY <1>4 DEF ShapeInv, OpenInv, BoundsType
<1>5. <<>> \in Seq(OpType) /\ Len(<<>>) = 0 /\ Len(<<>>) <= QueueSize
  BY Constants
<1>6. hit' \in Hits
  BY DEF Reset, ShapeInv, TypeInv, Hits, Mishap
<1>7. TypeInv'
  BY <1>1, <1>2, <1>3, <1>4, <1>5, <1>6, FsFacts, ResetFlash DEF ShapeInv, TypeInv, Reset
<1>8. QueueInv' /\ AddrInv' /\ GcInv'
  BY <1>3 DEF Reset, QueueInv, AddrInv, GcInv, Mounted
<1>9. OpenInv'
  BY <1>1, <1>4a DEF OpenInv, Reset
<1>10. ReservedInv'
  BY <1>1, <1>5, NoneReserving DEF ReservedInv, Reset
<1>11. QED BY <1>7, <1>8, <1>9, <1>10 DEF ShapeInv

LEMMA InitReserving ==
  ASSUME NEW q, Len(q) = 1, q[1].op = "init", NEW i
  PROVE  Cardinality(Reserving(q, i)) = 0
<1>1. Reserving(q, i) = {}
  BY DEF Reserving, Writes
<1>2. QED BY <1>1, FS_EmptySet

LEMMA InitMode ==
  ASSUME ShapeInv, Runs({"init"}) \/ Fails({"init"})
  PROVE  /\ mode = "init" /\ m_op_queue # <<>> /\ Operation1.op = "init"
         /\ Len(m_op_queue) = 1 /\ fs # NoFs /\ Operation1 = m_op_queue[1]
         /\ m_gc.state = "begin" /\ m_gc.resume = FALSE
         /\ \A i \in m_gc.todo : FALSE
         /\ m_gc.src = 0
         /\ \A i \in Index : m_pages[i].reserved = 0
<1>1. mode = "init" /\ m_op_queue # <<>> /\ Operation1.op = "init"
  BY RunningMode DEF Runs, Fails, Operation1
<1>2. Len(m_op_queue) = 1 /\ fs # NoFs /\ Operation1 = m_op_queue[1]
  BY <1>1, QueueFacts DEF ShapeInv, TypeInv, QueueInv, Operation1
<1>3. m_gc.state = "begin" /\ m_gc.resume = FALSE
         /\ (\A i \in m_gc.todo : FALSE) /\ m_gc.src = 0
  BY <1>1 DEF ShapeInv, GcInv, TypeInv, GcType
<1>4. \A i \in Index : m_pages[i].reserved = 0
  BY <1>1, <1>2, InitReserving DEF ShapeInv, ReservedInv
<1>5. QED BY <1>1, <1>2, <1>3, <1>4

LEMMA InitNext ==
  ASSUME ShapeInv, mode = "init", m_op_queue # <<>>, Len(m_op_queue) = 1,
         mode' = "init", NEW step \in Steps,
         Next1(Operation("init", step)), fs' \in FlashOpType
  PROVE  /\ QueueInv' /\ fs' \in FsType
         /\ m_op_queue' \in Seq(OpType) /\ Len(m_op_queue') <= QueueSize
         /\ Operation1'.step = step /\ m_op_queue'[1].op = "init"
         /\ \A i : Cardinality(Reserving(m_op_queue', i)) = 0
<1>1. PICK op \in OpType : op = Operation("init", step) /\ op.op = "init" /\ op.step = step
  BY OperationType
<1>2. PICK r : r = <<op>> \o Tail(m_op_queue)
  OBVIOUS
<1>3. /\ r \in Seq(OpType) /\ Len(r) = Len(m_op_queue) /\ r # <<>> /\ r[1] = op
      /\ Head(r) = op
  BY <1>2, NextFacts DEF ShapeInv, TypeInv
<1>4. m_op_queue' = r
  BY <1>1, <1>2 DEF Next1
<1>5. fs' \in FsType /\ fs' # NoFs
  BY FsFacts
<1>6. QueueInv'
  BY <1>1, <1>3, <1>4, <1>5 DEF QueueInv, Operation1
<1>7. \A i : Cardinality(Reserving(r, i)) = 0
  BY <1>1, <1>3, InitReserving
<1>8. QED BY <1>1, <1>3, <1>4, <1>5, <1>6, <1>7 DEF Operation1, ShapeInv, TypeInv

LEMMA InitGc ==
  ASSUME ShapeInv, mode = "init", UNCHANGED m_gc
  PROVE  GcInv'
BY DEF ShapeInv, GcInv

\* What all these steps leave.
InitUnchanged ==
  UNCHANGED <<flash, m_gc, m_latest_rec_id, opened, bounds, acked>>

LEMMA InitStepShape ==
  ASSUME ShapeInv, mode = "init", mode' = "init", Len(m_op_queue) = 1, m_op_queue # <<>>,
         NEW step \in Steps, Next1(Operation("init", step)), fs' \in FlashOpType,
         m_pages' \in [Index -> PageRecord],
         \A i \in Index : m_pages'[i].open = m_pages[i].open /\
                          m_pages'[i].reserved = 0,
         m_swap_page' \in SwapType, AddrInv', hit' \in Hits,
         InitUnchanged
  PROVE  ShapeInv'
<1>1. /\ QueueInv' /\ fs' \in FsType
      /\ m_op_queue' \in Seq(OpType) /\ Len(m_op_queue') <= QueueSize
      /\ \A i : Cardinality(Reserving(m_op_queue', i)) = 0
  BY InitNext
<1>2. TypeInv'
  BY <1>1 DEF ShapeInv, TypeInv, InitUnchanged
<1>3. GcInv'
  BY InitGc DEF InitUnchanged
<1>4. OpenInv'
  BY DEF ShapeInv, OpenInv, InitUnchanged
<1>5. ReservedInv'
  BY <1>1 DEF ReservedInv
<1>6. QED BY <1>1, <1>2, <1>3, <1>4, <1>5 DEF ShapeInv

LEMMA InitTagSwapShape ==
  ASSUME ShapeInv, InitTagSwap
  PROVE  ShapeInv'
<1>1. /\ mode = "init" /\ mode' = "init" /\ m_op_queue # <<>> /\ Len(m_op_queue) = 1
      /\ \A i \in Index : m_pages[i].reserved = 0
  BY InitMode DEF InitTagSwap
<1>2. Swap \in Page /\ fs' = Tag(Swap, "swap")
  BY DEF InitTagSwap, ShapeInv, TypeInv, SwapType, Swap
<1>3. fs' \in FlashOpType
  BY <1>2, OpTypes
<1>4. Next1(Operation("init", "tag data")) /\ "tag data" \in Steps
  BY DEF InitTagSwap, Steps
<1>5. AddrInv'
  BY <1>1, <1>2 DEF InitTagSwap, ShapeInv, AddrInv, Mounted, Adr, Swap
<1>6. InitUnchanged /\ hit' \in Hits /\ m_pages' = m_pages /\ m_swap_page' = m_swap_page
  BY DEF InitTagSwap, InitUnchanged, ShapeInv, TypeInv
<1>7. QED BY <1>1, <1>3, <1>4, <1>5, <1>6, InitStepShape DEF ShapeInv, TypeInv

LEMMA InitEraseSwapShape ==
  ASSUME ShapeInv, InitEraseSwap
  PROVE  ShapeInv'
<1>1. /\ mode = "init" /\ mode' = "init" /\ m_op_queue # <<>> /\ Len(m_op_queue) = 1
      /\ \A i \in Index : m_pages[i].reserved = 0
  BY InitMode DEF InitEraseSwap
<1>2. Swap \in Page /\ fs' = Erase(Swap)
  BY <1>1 DEF InitEraseSwap, ShapeInv, AddrInv, Swap
<1>3. fs' \in FlashOpType
  BY <1>2, OpTypes
<1>4. Next1(Operation("init", "tag swap")) /\ "tag swap" \in Steps
  BY DEF InitEraseSwap, Steps
<1>5. m_swap_page' \in SwapType /\ m_swap_page'.addr = m_swap_page.addr
  BY DEF InitEraseSwap, ShapeInv, TypeInv, SwapType
<1>5a. Operation1'.step = "tag swap"
  BY <1>1, <1>3, <1>4, InitNext
<1>6. AddrInv'
  BY <1>1, <1>2, <1>5, <1>5a DEF InitEraseSwap, ShapeInv, AddrInv, Mounted, Adr, Swap
<1>7. InitUnchanged /\ hit' \in Hits /\ m_pages' = m_pages
  BY DEF InitEraseSwap, InitUnchanged, ShapeInv, TypeInv
<1>8. QED BY <1>1, <1>3, <1>4, <1>5, <1>6, <1>7, InitStepShape DEF ShapeInv, TypeInv

LEMMA InitPromotePages ==
  ASSUME ShapeInv, InitPromote
  PROVE  /\ Cur \in Index /\ Swap \in Page
         /\ m_pages' \in [Index -> PageRecord]
         /\ \A i \in Index : i # Cur => m_pages'[i] = m_pages[i]
         /\ m_pages'[Cur].addr = Swap
         /\ m_pages'[Cur].type = "data"
         /\ m_pages'[Cur].offset = m_swap_page.offset
         /\ m_pages'[Cur].open = m_pages[Cur].open
         /\ m_pages'[Cur].reserved = m_pages[Cur].reserved
         /\ m_swap_page' \in SwapType /\ m_swap_page'.addr = Adr(Cur)
         /\ m_swap_page'.offset = 0
<1>1. mode = "init" /\ Operation1.step = "promote"
  BY InitMode DEF InitPromote
<1>2. PICK c \in Index : c = m_gc.cur
  BY DEF ShapeInv, TypeInv, GcType
<1>3. /\ m_pages[c] \in PageRecord /\ m_pages[c].addr = Adr(c)
      /\ m_pages \in [Index -> PageRecord] /\ Swap \in Page
      /\ m_swap_page \in SwapType
  BY <1>1 DEF ShapeInv, TypeInv, AddrInv, Adr
<1>4. PICK r : r = [m_pages[c] EXCEPT !.addr = Swap, !.type = "data", !.offset = m_swap_page.offset]
  OBVIOUS
<1>5. /\ r \in PageRecord /\ r.addr = Swap /\ r.offset = m_swap_page.offset
      /\ r.type = "data" /\ r.open = m_pages[c].open
      /\ r.reserved = m_pages[c].reserved
  BY <1>3, <1>4 DEF PageRecord, SwapType
<1>6. m_pages' = [m_pages EXCEPT ![c] = r]
  BY <1>2, <1>3, <1>4 DEF InitPromote, Swap
<1>7. m_pages' \in [Index -> PageRecord] /\ m_pages'[c] = r
      /\ \A i \in Index : i # c => m_pages'[i] = m_pages[i]
  BY <1>3, <1>5, <1>6
<1>8. m_swap_page' \in SwapType /\ m_swap_page'.addr = Adr(c) /\ m_swap_page'.offset = 0
  BY <1>2, <1>3 DEF InitPromote, SwapType, PageRecord
<1>9. QED BY <1>2, <1>3, <1>5, <1>7, <1>8 DEF Cur

LEMMA InitPromoteShape ==
  ASSUME ShapeInv, InitPromote
  PROVE  ShapeInv'
<1>1. /\ mode = "init" /\ mode' = "init" /\ m_op_queue # <<>> /\ Len(m_op_queue) = 1
      /\ \A i \in Index : m_pages[i].reserved = 0
  BY InitMode DEF InitPromote
<1>2. PICK c \in Index : c = Cur
  BY InitPromotePages
<1>3.    /\ Swap \in Page
         /\ m_pages' \in [Index -> PageRecord]
         /\ \A i \in Index : i # c => m_pages'[i] = m_pages[i]
         /\ m_pages'[c].addr = Swap
         /\ m_pages'[c].type = "data"
         /\ m_pages'[c].open = m_pages[c].open
         /\ m_pages'[c].reserved = m_pages[c].reserved
         /\ m_swap_page' \in SwapType /\ m_swap_page'.addr = Adr(c)
  BY <1>2, InitPromotePages
<1>4. fs' = Tag(Swap, "data")
  BY DEF InitPromote, Swap
<1>5. fs' \in FlashOpType
  BY <1>3, <1>4, OpTypes
<1>6. Next1(Operation("init", "tag swap")) /\ "tag swap" \in Steps
  BY DEF InitPromote, Steps
<1>7. Operation1'.step = "tag swap"
  BY <1>1, <1>5, <1>6, InitNext
<1>8. AddrInv'
  <2>1. \A i \in Index : m_pages'[i].addr = IF i = c THEN Swap ELSE Adr(i)
    BY <1>3 DEF Adr
  <2>2. \A i \in Index : Adr(i) \in Page => Adr(i) # Swap
    BY <1>1 DEF ShapeInv, AddrInv, Mounted
  <2>3. \A i, j \in Index : Adr(i) = Adr(j) /\ Adr(i) # NoPage => i = j
    BY <1>1 DEF ShapeInv, AddrInv, Mounted
  <2>4. \A i \in Index : /\ m_pages[i].type # "undefined" => Adr(i) \in Page
                         /\ m_pages[i].type = "undefined" => Adr(i) = NoPage
    BY <1>1 DEF ShapeInv, AddrInv, Mounted
  <2>5. \A i \in Index : i # c => m_pages'[i].type = m_pages[i].type
    BY <1>3
  <2>6. NoPage \notin Page
    BY Constants
  <2>7. \A i \in Index :
            /\ m_pages'[i].type # "undefined" => m_pages'[i].addr \in Page
            /\ m_pages'[i].type = "undefined" => m_pages'[i].addr = NoPage
            /\ m_pages'[i].addr \in Page => m_pages'[i].addr # Adr(c)
    <3>1. TAKE i \in Index
    <3>2. CASE i = c
      <4>1. Adr(c) # Swap
        BY <2>2, <1>3
      <4>2. QED BY <3>2, <4>1, <2>1, <1>3
    <3>3. CASE i # c
      BY <3>3, <2>1, <2>3, <2>4, <2>5, <2>6
    <3>4. QED BY <3>2, <3>3
  <2>8. \A i, j \in Index : m_pages'[i].addr = m_pages'[j].addr /\ m_pages'[i].addr # NoPage => i = j
    <3>1. \A i \in Index : Adr(i) # Swap
      BY <2>2, <1>3
    <3>2. QED BY <2>1, <2>3, <3>1
  <2>9. QED BY <2>7, <2>8, <1>1, <1>3, <1>7 DEF AddrInv, Mounted, Adr, Swap
<1>9. hit' \in Hits
  BY DEF InitPromote, ShapeInv, TypeInv, Hits, Mishap
<1>10. \A i \in Index : m_pages'[i].open = m_pages[i].open /\ m_pages'[i].reserved = 0
  BY <1>1, <1>3
<1>11. InitUnchanged
  BY DEF InitPromote, InitUnchanged
<1>12. QED BY <1>1, <1>3, <1>5, <1>6, <1>8, <1>9, <1>10, <1>11, InitStepShape

LEMMA InitTagDataPages ==
  ASSUME ShapeInv, InitTagData
  PROVE  \E i \in ErasedPages :
           /\ i \in Index /\ m_pages[i].type = "erased"
           /\ Adr(i) \in Page /\ Adr(i) # Swap /\ Swap \in Page
           /\ fs' = Tag(Adr(i), "data")
           /\ m_pages' \in [Index -> PageRecord]
           /\ \A j \in Index : j # i => m_pages'[j] = m_pages[j]
           /\ m_pages'[i].type = "data"
           /\ m_pages'[i].addr = m_pages[i].addr
           /\ m_pages'[i].offset = m_pages[i].offset
           /\ m_pages'[i].open = m_pages[i].open
           /\ m_pages'[i].reserved = m_pages[i].reserved
<1>1. mode = "init" /\ Operation1.step = "tag data"
  BY InitMode DEF InitTagData
<1>2. ErasedPages \in SUBSET Nat /\ ErasedPages # {}
  BY Constants DEF InitTagData, ErasedPages
<1>3. PICK i \in ErasedPages : i = Min(ErasedPages)
  BY <1>2, MinFacts
<1>4. i \in Index /\ m_pages[i].type = "erased"
  BY DEF ErasedPages
<1>5. Adr(i) \in Page /\ Adr(i) # Swap /\ Swap \in Page
  BY <1>1, <1>4 DEF ShapeInv, AddrInv, Mounted
<1>6. m_pages \in [Index -> PageRecord]
  BY DEF ShapeInv, TypeInv
<1>7. PICK r : r = [m_pages[i] EXCEPT !.type = "data"]
  OBVIOUS
<1>8. m_pages[i] \in PageRecord
  BY <1>4, <1>6
<1>9. /\ r \in PageRecord /\ r.type = "data" /\ r.addr = m_pages[i].addr
      /\ r.offset = m_pages[i].offset /\ r.open = m_pages[i].open
      /\ r.reserved = m_pages[i].reserved
  BY <1>7, <1>8 DEF PageRecord
<1>10. m_pages' = [m_pages EXCEPT ![i] = r] /\ fs' = Tag(Adr(i), "data")
  BY <1>3, <1>4, <1>6, <1>7 DEF InitTagData, Adr
<1>11. /\ m_pages' \in [Index -> PageRecord] /\ m_pages'[i] = r
       /\ \A j \in Index : j # i => m_pages'[j] = m_pages[j]
  BY <1>4, <1>6, <1>9, <1>10
<1>12. QED BY <1>4, <1>5, <1>9, <1>10, <1>11

LEMMA InitTagDataShape ==
  ASSUME ShapeInv, InitTagData
  PROVE  ShapeInv'
<1>1. /\ mode = "init" /\ m_op_queue # <<>> /\ Operation1.op = "init"
      /\ Len(m_op_queue) = 1 /\ Operation1 = m_op_queue[1]
      /\ Operation1.step = "tag data"
      /\ mode' = mode /\ m_op_queue' = m_op_queue
  BY InitMode DEF InitTagData
<1>2. PICK i \in Index :
           /\ m_pages[i].type = "erased"
           /\ Adr(i) \in Page /\ Adr(i) # Swap /\ Swap \in Page
           /\ fs' = Tag(Adr(i), "data")
           /\ m_pages' \in [Index -> PageRecord]
           /\ \A j \in Index : j # i => m_pages'[j] = m_pages[j]
           /\ m_pages'[i].type = "data"
           /\ m_pages'[i].addr = m_pages[i].addr
           /\ m_pages'[i].open = m_pages[i].open
           /\ m_pages'[i].reserved = m_pages[i].reserved
  BY InitTagDataPages
<1>3. fs' \in FlashOpType
  BY <1>2, OpTypes
<1>4. fs' \in FsType /\ fs' # NoFs
  BY <1>3, FsFacts
<1>5. TypeInv'
  BY <1>2, <1>4 DEF InitTagData, ShapeInv, TypeInv
<1>6. OpenInv'
  <2>1. \A j \in Index : m_pages'[j].open = m_pages[j].open
    BY <1>2
  <2>2. QED BY <2>1 DEF ShapeInv, OpenInv, InitTagData
<1>7. QueueInv'
  BY <1>1, <1>4 DEF QueueInv, Operation1
<1>8. AddrInv'
  <2>1. \A j \in Index : m_pages'[j].addr = m_pages[j].addr
    BY <1>2
  <2>2. \A j \in Index : (m_pages'[j].type = "undefined") <=> (m_pages[j].type = "undefined")
    BY <1>2
  <2>3. m_swap_page' = m_swap_page
    BY DEF InitTagData
  <2>4. Mounted /\ AddrInv
    BY <1>1 DEF ShapeInv, Mounted
  <2>5. Swap' = Swap /\ Swap \in Page /\ \A j \in Index : Adr(j)' = Adr(j)
    BY <1>2, <2>1, <2>3 DEF Adr, Swap
  <2>6. QED BY <2>2, <2>4, <2>5 DEF AddrInv, Adr
<1>9. GcInv'
  BY <1>1, InitGc DEF InitTagData
<1>10. ReservedInv'
  <2>1. \A j \in Index : m_pages'[j].reserved = m_pages[j].reserved
    BY <1>2
  <2>2. QED BY <1>1, <2>1 DEF ShapeInv, ReservedInv
<1>11. QED BY <1>5, <1>6, <1>7, <1>8, <1>9, <1>10 DEF ShapeInv

LEMMA InitPop ==
  ASSUME ShapeInv, mode = "init", m_op_queue # <<>>, Len(m_op_queue) = 1, Pop,
         mode' \in {"ready", "failed"}, mode' = "ready" => Swap \in Page,
         UNCHANGED <<flash, m_pages, m_swap_page, m_gc, m_latest_rec_id, opened,
                     bounds, acked, hit>>
  PROVE  ShapeInv'
<1>1. m_op_queue' = <<>> /\ fs' = NoFs /\ Len(m_op_queue') = 0
  BY QueueFacts DEF Pop, ShapeInv, TypeInv
<1>2. m_op_queue' \in Seq(OpType) /\ Len(m_op_queue') <= QueueSize
  BY <1>1, Constants
<1>3. TypeInv'
  BY <1>1, <1>2, FsFacts DEF ShapeInv, TypeInv
<1>4. OpenInv'
  BY DEF ShapeInv, OpenInv
<1>5. QueueInv'
  BY <1>1 DEF QueueInv
<1>6. AddrInv'
  BY DEF ShapeInv, AddrInv, Mounted, Adr, Swap
<1>7. GcInv'
  BY DEF ShapeInv, GcInv, DataPages
<1>8. ReservedInv'
  <2>1. \A i : Cardinality(Reserving(m_op_queue', i)) = 0
    BY <1>1, NoneReserving
  <2>2. Operation1.op = "init" /\ Operation1 = m_op_queue[1]
    BY QueueFacts DEF ShapeInv, TypeInv, QueueInv, Operation1
  <2>3. \A i \in Index : m_pages[i].reserved = 0
    BY <2>2, InitReserving DEF ShapeInv, ReservedInv
  <2>4. QED BY <2>1, <2>3 DEF ReservedInv
<1>9. QED BY <1>3, <1>4, <1>5, <1>6, <1>7, <1>8 DEF ShapeInv

LEMMA InitDoneShape ==
  ASSUME ShapeInv, InitDone
  PROVE  ShapeInv'
<1>1. /\ mode = "init" /\ m_op_queue # <<>> /\ Len(m_op_queue) = 1
  BY InitMode DEF InitDone
<1>2. Swap \in Page
  BY <1>1 DEF InitDone, ShapeInv, AddrInv
<1>3. QED BY <1>1, <1>2, InitPop DEF InitDone

LEMMA InitFailsShape ==
  ASSUME ShapeInv, InitFails
  PROVE  ShapeInv'
<1>1. /\ mode = "init" /\ m_op_queue # <<>> /\ Len(m_op_queue) = 1
  BY InitMode DEF InitFails
<1>2. QED BY <1>1, InitPop DEF InitFails

(***************************************************************************)
(* fds_init establishes ShapeInv from what the scan finds.                 *)
(***************************************************************************)

\* What fds_init knows of the pages where its switch has a case.
FirstStepFacts(opts, step) ==
  /\ step \in {"none", "dead", "promote", "erase swap", "tag data", "tag swap"}
  /\ step = "promote" <=> "swap dirty" \in opts /\ "erased" \in opts
  /\ step = "erase swap" <=> "swap dirty" \in opts /\ "erased" \notin opts
  /\ step = "tag data" <=> /\ "swap dirty" \notin opts /\ "swap clean" \in opts
                           /\ "erased" \in opts
  /\ step = "none" <=> /\ "swap dirty" \notin opts /\ "swap clean" \in opts
                       /\ "erased" \notin opts
  /\ step = "tag swap" <=> /\ "swap dirty" \notin opts /\ "swap clean" \notin opts
                           /\ "erased" \in opts
  /\ step = "dead" <=> /\ "swap dirty" \notin opts /\ "swap clean" \notin opts
                       /\ "erased" \notin opts

\* In the default case it has seen a swap page, and any step may follow.
StepFacts(opts, step) ==
  IF Unnamed(opts)
  THEN /\ step \in {"promote", "erase swap", "tag data", "tag swap", "unset"}
       /\ "swap clean" \in opts \/ "swap dirty" \in opts
  ELSE FirstStepFacts(opts, step)

LEMMA StepsFound ==
  ASSUME NEW opts, NEW step \in FirstSteps(opts)
  PROVE  StepFacts(opts, step)
<1>1. CASE Unnamed(opts)
  BY <1>1 DEF FirstSteps, StepFacts, Unnamed
<1>2. CASE ~Unnamed(opts)
  <2>1. step = FirstStep(opts)
    BY <1>2 DEF FirstSteps
  <2>2. FirstStepFacts(opts, step)
    BY <2>1 DEF FirstStep, FirstStepFacts
  <2>3. QED BY <1>2, <2>2 DEF StepFacts
<1>3. QED BY <1>1, <1>2

Identities ==
  {0} \union UNION {{flash[p].slots[s].id : s \in Records(p)} : p \in Page}

LEMMA LatestFacts ==
  ASSUME flash \in FlashType
  PROVE  /\ Max(Identities) \in Nat
         /\ \A p \in Page : \A s \in Records(p) :
              flash[p].slots[s].id <= Max(Identities)
<1>1. Identities \in SUBSET Nat
  <2>1. \A p \in Page : \A s \in Records(p) : flash[p].slots[s].id \in Nat
    BY UsedFacts DEF FlashType, PageType, SlotType
  <2>2. QED BY <2>1 DEF Identities
<1> DEFINE D == {at \in Page \X (1..Slots) : at[2] \in Records(at[1])}
           T == UNION {{flash[p].slots[s].id : s \in Records(p)} : p \in Page}
           f == [at \in D |-> flash[at[1]].slots[at[2]].id]
<1>2. IsFiniteSet(D)
  <2>1. IsFiniteSet(Page) /\ IsFiniteSet(1..Slots)
    BY FS_Interval, Constants DEF Page
  <2>2. IsFiniteSet(Page \X (1..Slots))
    BY <2>1, FS_Product
  <2>3. D \in SUBSET (Page \X (1..Slots))
    OBVIOUS
  <2>4. QED BY <2>2, <2>3, FS_Subset
<1>3. f \in Surjection(D, T)
  <2>1. \A at \in D : f[at] \in T
    <3>1. TAKE at \in D
    <3>2. at[1] \in Page /\ at[2] \in Records(at[1])
      OBVIOUS
    <3>3. QED BY <3>2
  <2>2. f \in [D -> T]
    BY <2>1
  <2>3. \A t \in T : \E at \in D : f[at] = t
    <3>1. TAKE t \in T
    <3>2. PICK p \in Page : \E s \in Records(p) : t = flash[p].slots[s].id
      OBVIOUS
    <3>2a. PICK s \in Records(p) : t = flash[p].slots[s].id
      BY <3>2
    <3>3. s \in 1..Slots
      BY <3>2a, UsedFacts
    <3>4. <<p, s>> \in D
      BY <3>2a, <3>3
    <3>5. QED BY <3>2a, <3>4
  <2>4. QED BY <2>2, <2>3 DEF Surjection
<1>4. IsFiniteSet(T)
  BY <1>2, <1>3, FS_Surjection
<1>5. IsFiniteSet(Identities)
  BY <1>4, FS_Singleton, FS_Union DEF Identities
<1>6. 0 \in Identities
  BY DEF Identities
<1>7. Max(Identities) \in Identities /\ \A j \in Identities : Max(Identities) >= j
  BY <1>1, <1>5, <1>6, FiniteMax
<1>8. \A p \in Page : \A s \in Records(p) : flash[p].slots[s].id \in Identities
  BY DEF Identities
<1>9. QED BY <1>1, <1>7, <1>8

\* What fds_init makes of what it found.
InitFinds(acc, step) ==
  /\ ScanInv(NumPages, acc) /\ StepFacts(acc.opts, step)
  /\ Unnamed(acc.opts) => hit' = hit \union {"unset"}
  /\ ~Unnamed(acc.opts) => hit' = hit
  /\ m_pages' \in [Index -> PageRecord]
  /\ \A i \in Index :
       /\ i < Len(acc.pages) =>
            /\ i + 1 \in 1..Len(acc.pages)
            /\ m_pages'[i] = acc.pages[i + 1]
       /\ ~(i < Len(acc.pages)) =>
            /\ m_pages'[i].type = "undefined" /\ m_pages'[i].addr = NoPage
            /\ m_pages'[i].offset = 0
       /\ m_pages'[i].reserved = 0 /\ m_pages'[i].open = 0
  /\ m_swap_page' = acc.swap
  /\ m_gc' \in GcType /\ m_gc'.cur = acc.cur /\ m_gc'.state = "begin"
  /\ m_gc'.resume = FALSE /\ m_gc'.src = 0 /\ \A i \in m_gc'.todo : FALSE
  /\ m_latest_rec_id' = Max(Identities)
  /\ step = "none" => mode' = "ready"
  /\ step = "dead" => mode' = "dead"
  /\ step \notin {"none", "dead"} => mode' = "init"
  /\ IF step \in {"none", "dead"} THEN m_op_queue' = <<>> /\ fs' = NoFs
     ELSE m_op_queue' = <<Operation("init", step)>> /\ fs' = Call(TRUE)

LEMMA FdsInitFacts ==
  ASSUME ShapeInv, fds_init
  PROVE  \E acc, step : InitFinds(acc, step)
<1>1. PICK acc : acc = pages_init
  OBVIOUS
<1>2. PICK step \in FirstSteps(acc.opts) :
        /\ mode' = CASE step = "none" -> "ready" [] step = "dead" -> "dead"
                     [] OTHER -> "init"
        /\ IF step \in {"none", "dead"} THEN UNCHANGED <<m_op_queue, fs>>
           ELSE m_op_queue' = <<Operation("init", step)>> /\ fs' = Call(TRUE)
  BY <1>1, Zenon DEF fds_init
<1>3. ScanInv(NumPages, acc) /\ StepFacts(acc.opts, step)
  BY <1>1, <1>2, PagesFound, StepsFound DEF ShapeInv, TypeInv
<1>3a. hit' = IF Unnamed(acc.opts) THEN hit \union {"unset"} ELSE hit
  BY <1>1 DEF fds_init
<1>4. acc \in AccType /\ acc.pages \in Seq(EntryType) /\ Len(acc.pages) \in Nat
  BY <1>3 DEF ScanInv, AccType
<1>5. m_pages' = [i \in Index |-> IF i < Len(acc.pages) THEN acc.pages[i + 1]
                                  ELSE NoPages[i]]
  BY <1>1 DEF fds_init
<1>6. \A i \in Index : m_pages'[i] = IF i < Len(acc.pages) THEN acc.pages[i + 1]
                                     ELSE NoPages[i]
  BY <1>5
<1>7. \A i \in Index : i < Len(acc.pages) => i + 1 \in 1..Len(acc.pages)
  BY <1>4, Constants
<1>8. EntryType \subseteq PageRecord /\ \A e \in EntryType : e.reserved = 0 /\ e.open = 0
  <2>1. Slots \in Nat
    BY Constants
  <2>2. QED BY <2>1 DEF EntryType, PageRecord
<1>9. \A i \in Index : /\ NoPages[i] \in PageRecord
                       /\ NoPages[i].type = "undefined" /\ NoPages[i].addr = NoPage
                       /\ NoPages[i].offset = 0
                       /\ NoPages[i].reserved = 0 /\ NoPages[i].open = 0
  BY DEF NoPages, PageRecord
<1>10. \A i \in Index : /\ m_pages'[i] \in PageRecord
                        /\ m_pages'[i].reserved = 0 /\ m_pages'[i].open = 0
  <2>1. TAKE i \in Index
  <2>2. CASE i < Len(acc.pages)
    <3>1. acc.pages[i + 1] \in EntryType
      BY <2>2, <1>4, <1>7
    <3>2. QED BY <2>2, <3>1, <1>6, <1>8
  <2>3. CASE ~(i < Len(acc.pages))
    BY <2>3, <1>6, <1>9
  <2>4. QED BY <2>2, <2>3
<1>11. m_pages' \in [Index -> PageRecord]
  BY <1>5, <1>10
<1>12. \A i \in Index :
       /\ i < Len(acc.pages) => m_pages'[i] = acc.pages[i + 1]
       /\ ~(i < Len(acc.pages)) =>
            /\ m_pages'[i].type = "undefined" /\ m_pages'[i].addr = NoPage
            /\ m_pages'[i].offset = 0
  BY <1>6, <1>9
<1>13. acc.cur \in Index
  BY <1>3, <1>4, Constants DEF ScanInv, ScanCover, AccType, Index
<1>14. m_gc' = [m_gc EXCEPT !.cur = acc.cur] /\ m_swap_page' = acc.swap
  BY <1>1 DEF fds_init
<1>15. /\ m_gc \in GcType /\ m_gc.state = "begin" /\ m_gc.resume = FALSE
       /\ m_gc.src = 0 /\ \A i \in m_gc.todo : FALSE
  BY DEF ShapeInv, TypeInv, GcInv, GcType, fds_init
<1>16. /\ m_gc' \in GcType /\ m_gc'.cur = acc.cur /\ m_gc'.state = "begin"
       /\ m_gc'.resume = FALSE /\ m_gc'.src = 0 /\ \A i \in m_gc'.todo : FALSE
  BY <1>13, <1>14, <1>15 DEF GcType
<1>17. m_latest_rec_id' = Max(Identities)
  BY DEF fds_init, Identities
<1>18. /\ step = "none" => mode' = "ready"
       /\ step = "dead" => mode' = "dead"
       /\ step \notin {"none", "dead"} => mode' = "init"
  <2>1. mode' = CASE step = "none" -> "ready" [] step = "dead" -> "dead"
                  [] OTHER -> "init"
    BY <1>2, Zenon
  <2>2. step = "none" => mode' = "ready"
    BY <2>1, Zenon
  <2>3. step = "dead" => mode' = "dead"
    BY <2>1, Zenon
  <2>4. step \notin {"none", "dead"} => mode' = "init"
    <3>1. SUFFICES ASSUME ~(step = "none"), ~(step = "dead") PROVE mode' = "init"
      BY Zenon
    <3>2. QED BY <2>1, <3>1, Zenon
  <2>5. QED BY <2>2, <2>3, <2>4
<1>19. m_op_queue = <<>> /\ fs = NoFs
  BY DEF ShapeInv, QueueInv, fds_init
<1>20. IF step \in {"none", "dead"} THEN m_op_queue' = <<>> /\ fs' = NoFs
       ELSE m_op_queue' = <<Operation("init", step)>> /\ fs' = Call(TRUE)
  BY <1>2, <1>19
<1>21. QED BY <1>3, <1>3a, <1>7, <1>10, <1>11, <1>12, <1>14, <1>16, <1>17, <1>18, <1>20 DEF InitFinds

\* The queue that fds_init leaves.
InitQueues(step) ==
  /\ QueueInv'
  /\ m_op_queue' \in Seq(OpType) /\ Len(m_op_queue') <= QueueSize
  /\ fs' \in FsType
  /\ mode' \in {"init", "ready", "dead"}
  /\ mode' = "init" =>
       /\ Operation1'.step = step /\ fs' = Call(TRUE)
       /\ m_op_queue' # <<>> /\ Operation1'.op = "init"
       /\ step \in {"promote", "erase swap", "tag data", "tag swap", "unset"}
  /\ mode' # "init" => m_op_queue' = <<>>
  /\ mode' = "ready" => step = "none"
  /\ mode' = "dead" => step = "dead"
  /\ \A i : Cardinality(Reserving(m_op_queue', i)) = 0

LEMMA FdsInitQueue ==
  ASSUME ShapeInv, NEW acc, NEW step, InitFinds(acc, step)
  PROVE  InitQueues(step)
<1>0. /\ step \in {"none", "dead"} => m_op_queue' = <<>> /\ fs' = NoFs
      /\ step \notin {"none", "dead"} =>
           m_op_queue' = <<Operation("init", step)>> /\ fs' = Call(TRUE)
      /\ step = "none" => mode' = "ready"
      /\ step = "dead" => mode' = "dead"
      /\ step \notin {"none", "dead"} => mode' = "init"
  BY Zenon DEF InitFinds
<1>0a. step \in {"none", "dead", "promote", "erase swap", "tag data", "tag swap", "unset"}
  BY DEF InitFinds, StepFacts, FirstStepFacts
<1>1. /\ step \in {"none", "dead", "promote", "erase swap", "tag data", "tag swap", "unset"}
      /\ mode' \in {"init", "ready", "dead"}
      /\ step = "none" <=> mode' = "ready"
      /\ step = "dead" <=> mode' = "dead"
  BY <1>0, <1>0a
<1>2. CASE step \in {"none", "dead"}
  <2>0. m_op_queue' = <<>> /\ fs' = NoFs
    BY <1>0, <1>2, Zenon
  <2>1. m_op_queue' = <<>> /\ fs' = NoFs /\ Len(m_op_queue') = 0 /\ mode' # "init"
    BY <2>0, <1>1, <1>2
  <2>2. m_op_queue' \in Seq(OpType) /\ Len(m_op_queue') <= QueueSize
    BY <2>1, Constants
  <2>3. QueueInv'
    <3>1. \A j \in 1..Len(m_op_queue') : FALSE
      BY <2>1
    <3>2. QED BY <2>1, <3>1 DEF QueueInv
  <2>4. fs' \in FsType /\ \A i : Cardinality(Reserving(m_op_queue', i)) = 0
    BY <2>1, FsFacts, NoneReserving
  <2>5. QED BY <1>1, <2>1, <2>2, <2>3, <2>4 DEF InitQueues
<1>3. CASE step \notin {"none", "dead"}
  <2>1. PICK op : op = Operation("init", step)
    OBVIOUS
  <2>1a. PICK s \in Steps : s = step
    BY <1>1, <1>3 DEF Steps
  <2>2. op \in OpType /\ op.op = "init" /\ op.step = step
    BY <2>1, <2>1a, OperationType
  <2>3. m_op_queue' = <<op>> /\ fs' = Call(TRUE) /\ mode' = "init"
    BY <1>0, <1>1, <1>3, <2>1
  <2>4. /\ <<op>> \in Seq(OpType) /\ Len(<<op>>) = 1 /\ <<op>>[1] = op
        /\ Head(<<op>>) = op /\ <<op>> # <<>>
    BY <2>2
  <2>5. QueueInv'
    BY <2>2, <2>3, <2>4, FsFacts DEF QueueInv, Operation1
  <2>6. \A i : Cardinality(Reserving(<<op>>, i)) = 0
    BY <2>2, <2>4, InitReserving
  <2>7. m_op_queue' \in Seq(OpType) /\ Len(m_op_queue') <= QueueSize
    BY <2>3, <2>4, Constants
  <2>8. Operation1'.step = step /\ Operation1'.op = "init" /\ m_op_queue' # <<>>
    BY <2>2, <2>3, <2>4 DEF Operation1
  <2>9. \A i : Cardinality(Reserving(m_op_queue', i)) = 0
    BY <2>3, <2>6
  <2>10. step \in {"promote", "erase swap", "tag data", "tag swap", "unset"}
    BY <1>1, <1>3
  <2>11. fs' \in FsType
    BY <2>3, FsFacts
  <2>12. QED BY <2>3, <2>5, <2>7, <2>8, <2>9, <2>10, <2>11 DEF InitQueues
<1>4. QED BY <1>2, <1>3

LEMMA FdsInitAddr ==
  ASSUME ShapeInv, NEW acc, NEW step, InitFinds(acc, step)
  PROVE  /\ \A i \in Index :
              /\ m_pages'[i].type # "undefined" => m_pages'[i].addr \in Page
              /\ m_pages'[i].type = "undefined" => m_pages'[i].addr = NoPage
              /\ m_pages'[i].addr \in Page => m_pages'[i].addr # m_swap_page'.addr
         /\ \A i, j \in Index :
              m_pages'[i].addr = m_pages'[j].addr /\ m_pages'[i].addr # NoPage => i = j
         /\ m_swap_page' \in SwapType
         /\ step \notin {"dead", "tag swap"} => m_swap_page'.addr \in Page
<1>1. /\ acc \in AccType /\ acc.pages \in Seq(EntryType) /\ Len(acc.pages) \in Nat
      /\ \A i \in 1..Len(acc.pages) : acc.pages[i] \in EntryType
  BY DEF InitFinds, ScanInv, AccType
<1>2. m_swap_page' \in SwapType
  <2>1. Slots \in Nat /\ acc.swap \in [addr : Page \union {NoPage}, offset : 0..Slots]
    BY <1>1, Constants DEF AccType
  <2>2. QED BY <2>1 DEF SwapType, InitFinds
<1>3. NoPage \notin Page
  BY Constants
<1>4. /\ \A i \in 1..Len(acc.pages) :
           /\ acc.pages[i].type # "undefined" => acc.pages[i].addr \in Page
           /\ acc.pages[i].type = "undefined" => acc.pages[i].addr = NoPage
           /\ acc.pages[i].addr \in Page => acc.pages[i].addr # acc.swap.addr
  BY <1>1 DEF InitFinds, ScanInv, ScanEntries, Entries, EntryType
<1>5. \A i, j \in 1..Len(acc.pages) :
         acc.pages[i].addr = acc.pages[j].addr /\ acc.pages[i].addr # NoPage => i = j
  BY DEF InitFinds, ScanInv, ScanEntries, Entries
<1>6. \A i \in Index :
              /\ m_pages'[i].type # "undefined" => m_pages'[i].addr \in Page
              /\ m_pages'[i].type = "undefined" => m_pages'[i].addr = NoPage
              /\ m_pages'[i].addr \in Page => m_pages'[i].addr # m_swap_page'.addr
  BY <1>3, <1>4 DEF InitFinds
<1>7. \A i, j \in Index :
              m_pages'[i].addr = m_pages'[j].addr /\ m_pages'[i].addr # NoPage => i = j
  <2>1. SUFFICES ASSUME NEW i \in Index, NEW j \in Index,
                        m_pages'[i].addr = m_pages'[j].addr, m_pages'[i].addr # NoPage
                 PROVE  i = j
    OBVIOUS
  <2>2. i < Len(acc.pages) /\ j < Len(acc.pages)
    BY <2>1 DEF InitFinds
  <2>3. PICK i1 \in 1..Len(acc.pages) : i1 = i + 1 /\ m_pages'[i] = acc.pages[i1]
    BY <2>2 DEF InitFinds
  <2>4. PICK j1 \in 1..Len(acc.pages) : j1 = j + 1 /\ m_pages'[j] = acc.pages[j1]
    BY <2>2 DEF InitFinds
  <2>5. i1 = j1
    BY <2>1, <2>3, <2>4, <1>5
  <2>6. QED BY <2>3, <2>4, <2>5, Constants
<1>8. step \notin {"dead", "tag swap"} => m_swap_page'.addr \in Page
  <2>1. SUFFICES ASSUME step \notin {"dead", "tag swap"} PROVE acc.swap.addr \in Page
    BY DEF InitFinds
  <2>2. SwapSeen(acc)
    BY <2>1 DEF InitFinds, StepFacts, FirstStepFacts, SwapSeen
  <2>3. acc.swap.addr # NoPage
    BY <2>2 DEF InitFinds, ScanInv, ScanSwap
  <2>4. QED BY <2>3, <1>1 DEF AccType
<1>9. QED BY <1>2, <1>6, <1>7, <1>8

LEMMA FdsInitShape ==
  ASSUME ShapeInv, fds_init
  PROVE  ShapeInv'
<1>1. PICK acc, step : InitFinds(acc, step)
  BY FdsInitFacts
<1>2. /\ QueueInv'
      /\ m_op_queue' \in Seq(OpType) /\ Len(m_op_queue') <= QueueSize
      /\ fs' \in FsType
      /\ mode' \in {"init", "ready", "dead"}
      /\ mode' = "init" => Operation1'.step = step /\ step # "dead"
      /\ mode' = "ready" => step = "none"
      /\ \A i : Cardinality(Reserving(m_op_queue', i)) = 0
  <2>1. InitQueues(step)
    BY <1>1, FdsInitQueue
  <2>2. QED BY <2>1 DEF InitQueues
<1>3.    /\ \A i \in Index :
              /\ m_pages'[i].type # "undefined" => m_pages'[i].addr \in Page
              /\ m_pages'[i].type = "undefined" => m_pages'[i].addr = NoPage
              /\ m_pages'[i].addr \in Page => m_pages'[i].addr # m_swap_page'.addr
         /\ \A i, j \in Index :
              m_pages'[i].addr = m_pages'[j].addr /\ m_pages'[i].addr # NoPage => i = j
         /\ m_swap_page' \in SwapType
         /\ step \notin {"dead", "tag swap"} => m_swap_page'.addr \in Page
  BY <1>1, FdsInitAddr
<1>4. /\ m_pages' \in [Index -> PageRecord]
      /\ \A i \in Index : m_pages'[i].reserved = 0 /\ m_pages'[i].open = 0
      /\ m_gc' \in GcType /\ m_gc'.state = "begin"
      /\ m_gc'.resume = FALSE /\ m_gc'.src = 0 /\ \A i \in m_gc'.todo : FALSE
      /\ m_latest_rec_id' = Max(Identities)
  BY <1>1 DEF InitFinds
<1>5. m_latest_rec_id' \in Nat
  BY <1>4, LatestFacts DEF ShapeInv, TypeInv
<1>5a. hit' \in Hits
  BY <1>1 DEF InitFinds, ShapeInv, TypeInv, Hits, Mishap
<1>6. TypeInv'
  BY <1>2, <1>3, <1>4, <1>5, <1>5a, Zenon DEF TypeInv, ShapeInv, fds_init
<1>7. OpenInv'
  BY <1>4 DEF OpenInv, ShapeInv, TypeInv, BoundsType, fds_init
<1>8. AddrInv'
  BY <1>2, <1>3 DEF AddrInv, Mounted, Adr, Swap
<1>9. GcInv'
  BY <1>4 DEF GcInv
<1>10. ReservedInv'
  BY <1>2, <1>4 DEF ReservedInv
<1>11. QED BY <1>2, <1>6, <1>7, <1>8, <1>9, <1>10 DEF ShapeInv

LEMMA InitShape ==
  ASSUME Init
  PROVE  ShapeInv
<1>1. flash \in FlashType
  BY ErasedType DEF Init, FlashType
<1>2. m_pages \in [Index -> PageRecord]
      /\ \A i \in Index : m_pages[i].open = 0 /\ m_pages[i].reserved = 0
  BY DEF Init, NoPages, PageRecord
<1>3. m_swap_page \in SwapType
  BY DEF Init, NoSwap, SwapType
<1>4. /\ m_gc \in GcType /\ m_gc.state = "begin" /\ m_gc.resume = FALSE
      /\ m_gc.todo = {} /\ m_gc.src = 0
  BY Constants DEF Init, GcIdle, GcType, Todos
<1>5. m_op_queue = <<>> /\ m_op_queue \in Seq(OpType) /\ Len(m_op_queue) = 0
  BY DEF Init
<1>6. bounds \in BoundsType /\ bounds.opens = 0
  BY DEF Init, BoundsType
<1>7. acked \in [Key -> Nat] /\ hit \in Hits
  BY DEF Init, Hits
<1>8. TypeInv
  BY <1>1, <1>2, <1>3, <1>4, <1>5, <1>6, <1>7, FsFacts, Constants DEF Init, TypeInv
<1>9. OpenInv
  BY <1>2, <1>6, Constants DEF OpenInv
<1>10. QueueInv
  BY <1>5 DEF Init, QueueInv
<1>11. AddrInv
  BY DEF Init, AddrInv, Mounted
<1>12. GcInv
  BY <1>4 DEF GcInv
<1>13. ReservedInv
  BY <1>2, <1>5, NoneReserving DEF ReservedInv
<1>14. QED BY <1>8, <1>9, <1>10, <1>11, <1>12, <1>13 DEF ShapeInv

LEMMA StutterShape ==
  ASSUME ShapeInv, UNCHANGED vars
  PROVE  ShapeInv'
<1>1. TypeInv'
  BY DEF ShapeInv, TypeInv, vars, ramVars
<1>2. OpenInv'
  BY DEF ShapeInv, OpenInv, vars, ramVars
<1>3. QueueInv'
  BY DEF ShapeInv, QueueInv, OpFits, Operation1, DataPages, vars, ramVars
<1>4. AddrInv'
  BY DEF ShapeInv, AddrInv, Mounted, Adr, Swap, Operation1, vars, ramVars
<1>5. GcInv'
  BY DEF ShapeInv, GcInv, Adr, Swap, Cur, Operation1, DataPages, vars, ramVars
<1>6. ReservedInv'
  BY DEF ShapeInv, ReservedInv, vars, ramVars
<1>7. QED BY <1>1, <1>2, <1>3, <1>4, <1>5, <1>6 DEF ShapeInv

LEMMA NextShape ==
  ASSUME ShapeInv, [Next]_vars
  PROVE  ShapeInv'
<1>1. CASE fds_init BY <1>1, FdsInitShape
<1>2. CASE queue_process
  BY <1>2, InitTagSwapShape, InitTagDataShape, InitDoneShape, InitEraseSwapShape,
     InitPromoteShape, InitFailsShape, WriteBeginShape, WriteFinalizeShape,
     WriteDirtyShape, WriteEndsShape, WriteFailsShape, GcBeginShape, GcCopiedShape,
     GcErasedShape, GcPromotedShape, GcTaggedShape, GcResumeShape, GcFailsShape
     DEF queue_process
<1>3. CASE Callers
  BY <1>3, WriteEnqueueShape, FdsGcShape, OpenShape, CloseShape DEF Callers
<1>4. CASE FlashEnds \/ FlashFails \/ Reset
  BY <1>4, FlashEndsShape, FlashFailsShape, ResetShape
<1>5. CASE UNCHANGED vars BY <1>5, StutterShape
<1>6. QED BY <1>1, <1>2, <1>3, <1>4, <1>5 DEF Next

\* What is mounted has the shape that the steps of an initialisation, a write and
\* a collection rely on: different addresses, a page for every operation in the
\* queue, and exactly the room reserved that the queue asks for.
THEOREM PagesKeepTheirShape == Spec => []ShapeInv
<1>1. Init => ShapeInv BY InitShape
<1>2. ShapeInv /\ [Next]_vars => ShapeInv' BY NextShape
<1>3. QED BY <1>1, <1>2, PTL DEF Spec

(***************************************************************************)
(* Effects of the actions that several invariants need.                    *)
(***************************************************************************)
\* The pages are in their places, and their offsets are the same.
PagesStay ==
  /\ SamePages
  /\ \A i \in Index : m_pages'[i].offset = m_pages[i].offset

\* The operations in the queue are the same, but for the step of the first.
SameOps ==
  /\ Len(m_op_queue') = Len(m_op_queue) /\ m_op_queue' # <<>>
  /\ \A j \in 1..Len(m_op_queue) : m_op_queue'[j].op = m_op_queue[j].op

LEMMA NextOperation ==
  ASSUME ShapeInv, m_op_queue # <<>>, NEW op \in OpType, Next1(op),
         op.op = Operation1.op
  PROVE  SameOps /\ Operation1' = op
<1>1. m_op_queue \in Seq(OpType)
  BY DEF ShapeInv, TypeInv
<1>2. PICK r : r = <<op>> \o Tail(m_op_queue)
  OBVIOUS
<1>3. /\ r \in Seq(OpType) /\ Len(r) = Len(m_op_queue) /\ r # <<>> /\ r[1] = op
      /\ Head(r) = op
      /\ \A j \in 2..Len(m_op_queue) : r[j] = m_op_queue[j]
  BY <1>1, <1>2, NextFacts
<1>4. m_op_queue' = r
  BY <1>2 DEF Next1
<1>5. Operation1 = m_op_queue[1] /\ Len(m_op_queue) \in Nat
  BY <1>1, QueueFacts DEF Operation1
<1>6. \A j \in 1..Len(m_op_queue) : r[j].op = m_op_queue[j].op
  <2>1. TAKE j \in 1..Len(m_op_queue)
  <2>2. j = 1 \/ j \in 2..Len(m_op_queue)
    BY <1>5
  <2>3. QED BY <2>2, <1>3, <1>5
<1>7. QED BY <1>3, <1>4, <1>6 DEF SameOps, Operation1

LEMMA StayPages ==
  ASSUME ShapeInv, UNCHANGED m_pages
  PROVE  PagesStay
BY DEF ShapeInv, TypeInv, PagesStay, SamePages

LEMMA WritingMode ==
  ASSUME ShapeInv, Writing
  PROVE  /\ mode = "ready" /\ m_op_queue # <<>> /\ Operation1.op \in Writes
         /\ Operation1 \in OpType
         /\ Operation1.page \in DataPages
         /\ Operation1.step \in {"begin", "finalize", "dirty", "done"}
         /\ Operation1.step = "dirty" => Operation1.op = "update"
         /\ Operation1.op = "update" /\ Operation1.step # "begin" =>
              Operation1.target[1] \in DataPages /\ Operation1.target[2] \in 1..Slots
<1>1. mode = "ready" /\ m_op_queue # <<>> /\ Operation1.op \in Writes
  BY RunningMode DEF Writing, Writes
<1>2. Operation1 \in OpType /\ OpFits(Operation1, TRUE)
  BY <1>1, FirstFits
<1>3. QED BY <1>1, <1>2 DEF OpFits

LEMMA WriteBeginFacts ==
  ASSUME ShapeInv, WriteBegin
  PROVE  /\ mode = "ready" /\ Writing /\ Writing' /\ SameOps
         /\ Operation1'.op = Operation1.op /\ Operation1'.page = Operation1.page
         /\ Operation1'.key = Operation1.key /\ Operation1'.id = Operation1.id
         /\ Operation1'.old = Operation1.old
         /\ Operation1.step = "begin" /\ Operation1'.step = "finalize"
         /\ Operation1'.target = IF Operation1.op = "write" THEN <<0, 0>>
                                 ELSE Lowest(Places(Operation1.old))
         /\ WriteStore("begin")' /\ fs' \in FlashOpType
<1>1. m_op_queue # <<>> /\ Operation1.op \in Writes /\ Writing
  BY DEF WriteBegin, Runs, Operation1, Writing
<1>2. Operation1 \in OpType /\ mode = "ready" /\ Operation1.page \in DataPages
  BY <1>1, WritingMode
<1>3. PICK at : at = IF Operation1.op = "write" THEN <<0, 0>>
                     ELSE Lowest(Places(Operation1.old))
  OBVIOUS
<1>4. at \in Nat \X Nat
  <2>1. CASE Operation1.op = "write"
    BY <2>1, <1>3
  <2>2. CASE Operation1.op = "update"
    <3>1. at \in Places(Operation1.old)
      BY <2>2, <1>3, PlacesFacts, LowestFacts DEF WriteBegin
    <3>2. at \in Index \X (1..Slots)
      BY <3>1, PlacesFacts
    <3>3. at = <<at[1], at[2]>> /\ at[1] \in Index /\ at[2] \in Nat
      BY <3>2
    <3>4. at[1] \in Nat
      BY <3>3, Constants
    <3>5. QED BY <3>3, <3>4
  <2>3. QED BY <1>1, <2>1, <2>2 DEF Writes
<1>5. PICK op : op = [Operation1 EXCEPT !.step = "finalize", !.target = at]
  OBVIOUS
<1>6. /\ op \in OpType /\ op.op = Operation1.op /\ op.page = Operation1.page
      /\ op.key = Operation1.key /\ op.id = Operation1.id
      /\ op.old = Operation1.old
      /\ op.step = "finalize" /\ op.target = at
  BY <1>2, <1>4, <1>5 DEF OpType, Steps
<1>7. Next1(op)
  BY <1>3, <1>5 DEF WriteBegin
<1>8. SameOps /\ Operation1' = op
  BY <1>1, <1>6, <1>7, NextOperation
<1>9. /\ fs' \in FlashOpType
      /\ fs' = Store("begin", Adr(Operation1.page), m_pages[Operation1.page].offset + 1,
                     [key |-> Operation1.key, id |-> Operation1.id, state |-> "begun"])
  BY StoreRecordType DEF WriteBegin
<1>10. WriteStore("begin")'
  BY <1>6, <1>8, <1>9 DEF WriteStore, WriteBegin, Adr
<1>11. QED BY <1>1, <1>2, <1>3, <1>6, <1>8, <1>9, <1>10 DEF WriteBegin, Writing, SameOps

LEMMA WriteFinalizeFacts ==
  ASSUME ShapeInv, WriteFinalize
  PROVE  /\ mode = "ready" /\ Writing /\ Writing' /\ SameOps
         /\ Operation1'.op = Operation1.op /\ Operation1'.page = Operation1.page
         /\ Operation1'.key = Operation1.key /\ Operation1'.id = Operation1.id
         /\ Operation1'.old = Operation1.old
         /\ Operation1'.target = Operation1.target
         /\ Operation1.step = "finalize"
         /\ Operation1'.step = IF Operation1.op = "write" THEN "done" ELSE "dirty"
         /\ WriteStore("finalize")' /\ fs' \in FlashOpType
<1>1. m_op_queue # <<>> /\ Operation1.op \in Writes /\ Writing
  BY DEF WriteFinalize, Runs, Operation1, Writing
<1>2. Operation1 \in OpType /\ mode = "ready" /\ Operation1.page \in DataPages
  BY <1>1, WritingMode
<1>3. PICK step : step = IF Operation1.op = "write" THEN "done" ELSE "dirty"
  OBVIOUS
<1>4. PICK op : op = [Operation1 EXCEPT !.step = step]
  OBVIOUS
<1>5. step \in {"done", "dirty"}
  BY <1>3
<1>6. /\ op \in OpType /\ op.op = Operation1.op /\ op.page = Operation1.page
      /\ op.key = Operation1.key /\ op.id = Operation1.id
      /\ op.old = Operation1.old
      /\ op.step = step /\ op.target = Operation1.target
  BY <1>2, <1>4, <1>5 DEF OpType, Steps
<1>7. Next1(op)
  BY <1>3, <1>4 DEF WriteFinalize
<1>8. SameOps /\ Operation1' = op
  BY <1>1, <1>6, <1>7, NextOperation
<1>9. /\ fs' \in FlashOpType
      /\ fs' = Store("finalize", Adr(Operation1.page), m_pages[Operation1.page].offset + 1,
                     [key |-> Operation1.key, id |-> Operation1.id, state |-> "valid"])
  BY StoreRecordType DEF WriteFinalize
<1>10. WriteStore("finalize")'
  BY <1>6, <1>8, <1>9 DEF WriteStore, WriteFinalize, Adr
<1>11. QED BY <1>1, <1>2, <1>3, <1>6, <1>8, <1>9, <1>10 DEF WriteFinalize, Writing, SameOps

LEMMA WriteDirtyFacts ==
  ASSUME ShapeInv, WriteDirty
  PROVE  /\ mode = "ready" /\ Writing /\ Writing' /\ SameOps /\ PagesStay
         /\ Operation1.op = "update"
         /\ Operation1'.op = Operation1.op /\ Operation1'.page = Operation1.page
         /\ Operation1'.key = Operation1.key /\ Operation1'.id = Operation1.id
         /\ Operation1'.old = Operation1.old
         /\ Operation1'.target = Operation1.target
         /\ Operation1.step = "dirty" /\ Operation1'.step = "done"
         /\ Operation1.target[1] \in DataPages /\ Operation1.target[2] \in 1..Slots
         /\ SlotAt(Operation1.target) \in SlotType
         /\ fs' = Store("dirty", Adr(Operation1.target[1]), Operation1.target[2],
                        [SlotAt(Operation1.target) EXCEPT !.state = "dirty"])
         /\ fs' \in FlashOpType
<1>1. m_op_queue # <<>> /\ Operation1.op \in Writes /\ Writing
  BY DEF WriteDirty, Runs, Operation1, Writing
<1>2. /\ Operation1 \in OpType /\ mode = "ready" /\ Operation1.page \in DataPages
      /\ Operation1.op = "update"
      /\ Operation1.target[1] \in DataPages /\ Operation1.target[2] \in 1..Slots
  BY <1>1, WritingMode DEF WriteDirty
<1>3. PICK i \in DataPages : i = Operation1.target[1]
  BY <1>2
<1>4. PICK s \in 1..Slots : s = Operation1.target[2]
  BY <1>2
<1>5. PICK op : op = [Operation1 EXCEPT !.step = "done"]
  OBVIOUS
<1>6. /\ op \in OpType /\ op.op = Operation1.op /\ op.page = Operation1.page
      /\ op.key = Operation1.key /\ op.id = Operation1.id
      /\ op.old = Operation1.old
      /\ op.step = "done" /\ op.target = Operation1.target
  BY <1>2, <1>5 DEF OpType, Steps
<1>7. Next1(op)
  BY <1>5 DEF WriteDirty
<1>8. SameOps /\ Operation1' = op
  BY <1>1, <1>6, <1>7, NextOperation
<1>9. /\ i \in Index /\ Adr(i) \in Page /\ flash[Adr(i)].slots[s] \in SlotType
      /\ m_pages[i].addr = Adr(i)
  BY <1>2, DataPageFacts
<1>10. PICK slot \in SlotType : slot = SlotAt(Operation1.target)
  BY <1>3, <1>4, <1>9 DEF SlotAt
<1>11. fs' = Store("dirty", Adr(i), s, [slot EXCEPT !.state = "dirty"])
  BY <1>3, <1>4, <1>9, <1>10 DEF WriteDirty
<1>12. [slot EXCEPT !.state = "dirty"] \in SlotType
  BY DEF SlotType
<1>13. fs' \in FlashOpType
  <2>1. s \in Nat
    BY Constants
  <2>2. QED BY <2>1, <1>9, <1>11, <1>12, StoreType
<1>14. PagesStay
  <2>1. m_pages \in [Index -> PageRecord]
    BY DEF ShapeInv, TypeInv
  <2>2. m_pages' = [m_pages EXCEPT ![i].can_gc = TRUE]
    BY <1>3 DEF WriteDirty
  <2>3. QED BY <2>1, <2>2, <1>9 DEF PagesStay, SamePages, PageRecord
<1>15. QED BY <1>1, <1>2, <1>3, <1>4, <1>6, <1>8, <1>10, <1>11, <1>13, <1>14
           DEF WriteDirty, Writing, SameOps

LEMMA PopFacts ==
  ASSUME ShapeInv, m_op_queue # <<>>, Pop
  PROVE  /\ Len(m_op_queue') = Len(m_op_queue) - 1 /\ Len(m_op_queue) \in Nat
         /\ Operation1 = m_op_queue[1] /\ Len(m_op_queue) >= 1
         /\ \A j \in 1..Len(m_op_queue') :
              /\ j + 1 \in 2..Len(m_op_queue) /\ j + 1 \in 1..Len(m_op_queue)
              /\ m_op_queue'[j] = m_op_queue[j + 1]
         /\ \/ m_op_queue' = <<>> /\ fs' = NoFs
            \/ m_op_queue' # <<>> /\ fs' = Call(TRUE)
<1>1. m_op_queue \in Seq(OpType) /\ m_op_queue' = Tail(m_op_queue)
  BY DEF ShapeInv, TypeInv, Pop
<1>2. PICK n \in Nat : n = Len(m_op_queue) /\ n >= 1
  BY <1>1, QueueFacts
<1>3. /\ Len(m_op_queue') = n - 1 /\ Operation1 = m_op_queue[1]
      /\ \A j \in 1..n - 1 : m_op_queue'[j] = m_op_queue[j + 1]
      /\ m_op_queue' = <<>> <=> n = 1
  BY <1>1, <1>2, QueueFacts DEF Operation1
<1>4. \A j \in 1..n - 1 : j + 1 \in 2..n /\ j + 1 \in 1..n
  BY <1>2
<1>5. IF n > 1 THEN fs' = Call(TRUE) ELSE fs' = NoFs
  BY <1>2 DEF Pop
<1>6. \/ m_op_queue' = <<>> /\ fs' = NoFs
      \/ m_op_queue' # <<>> /\ fs' = Call(TRUE)
  <2>1. CASE n > 1
    <3>1. n # 1
      BY <2>1
    <3>2. m_op_queue' # <<>>
      BY <3>1, <1>3, Zenon
    <3>3. fs' = Call(TRUE)
      BY <2>1, <1>5, Zenon
    <3>4. QED BY <3>2, <3>3, Zenon
  <2>2. CASE n = 1
    <3>1. ~(n > 1)
      BY <2>2
    <3>2. m_op_queue' = <<>>
      BY <2>2, <1>3, Zenon
    <3>3. fs' = NoFs
      BY <3>1, <1>5, Zenon
    <3>4. QED BY <3>2, <3>3, Zenon
  <2>3. n > 1 \/ n = 1
    BY <1>2
  <2>4. QED BY <2>1, <2>2, <2>3, Zenon
<1>7. \A j \in 1..Len(m_op_queue') :
        /\ j + 1 \in 2..Len(m_op_queue) /\ j + 1 \in 1..Len(m_op_queue)
        /\ m_op_queue'[j] = m_op_queue[j + 1]
  BY <1>2, <1>3, <1>4
<1>8. QED BY <1>2, <1>3, <1>6, <1>7

\* A caller puts an operation into the queue.
Enqueued(op) ==
  /\ m_op_queue' = Append(m_op_queue, op) /\ m_op_queue \in Seq(OpType)
  /\ Len(m_op_queue) \in Nat /\ Len(m_op_queue') = Len(m_op_queue) + 1
  /\ m_op_queue' # <<>>
  /\ m_op_queue'[Len(m_op_queue) + 1] = op
  /\ \A j \in 1..Len(m_op_queue) : m_op_queue'[j] = m_op_queue[j]
  /\ m_op_queue # <<>> => Operation1' = Operation1 /\ fs' = fs
  /\ m_op_queue = <<>> => Operation1' = op /\ fs' = Call(TRUE)

LEMMA EnqueueFacts ==
  ASSUME ShapeInv, Calm, NEW op \in OpType, Enqueue(op)
  PROVE  Enqueued(op)
<1>1. m_op_queue \in Seq(OpType) /\ (m_op_queue = <<>> <=> fs = NoFs)
  BY DEF ShapeInv, TypeInv, QueueInv, Calm
<1>2. PICK r : r = Append(m_op_queue, op)
  OBVIOUS
<1>3. /\ r # <<>> /\ Len(r) = Len(m_op_queue) + 1
      /\ Len(m_op_queue) \in Nat /\ r[Len(m_op_queue) + 1] = op
      /\ \A j \in 1..Len(m_op_queue) : r[j] = m_op_queue[j]
      /\ m_op_queue # <<>> => Head(r) = Head(m_op_queue)
      /\ m_op_queue = <<>> => Head(r) = op
  BY <1>1, <1>2
<1>4. m_op_queue' = r
  BY <1>2 DEF Enqueue
<1>5. /\ m_op_queue # <<>> => fs' = fs
      /\ m_op_queue = <<>> => fs' = Call(TRUE)
  BY <1>1 DEF Enqueue
<1>6. QED BY <1>1, <1>2, <1>3, <1>4, <1>5 DEF Enqueued, Operation1

LEMMA WriteEnqueueFacts ==
  ASSUME ShapeInv, NEW key \in Key, write_enqueue(key)
  PROVE  /\ mode = "ready" /\ Calm /\ PagesStay
         /\ \E i \in DataPages, op \in OpType :
              /\ Enqueued(op) /\ op.op \in Writes /\ op.step = "begin"
              /\ op.page = i /\ HasRoom(i)
              /\ m_pages'[i].reserved = m_pages[i].reserved + 1
              /\ \A j \in Index : j # i => m_pages'[j] = m_pages[j]
<1>1. mode = "ready" /\ Calm
  BY DEF write_enqueue, Calm
<1>2. PICK i \in DataPages :
           /\ SamePages /\ HasRoom(i)
           /\ \A j \in Index : j # i => m_pages'[j] = m_pages[j]
           /\ m_pages'[i].reserved = m_pages[i].reserved + 1
           /\ m_pages'[i].offset = m_pages[i].offset
           /\ \E op \in OpType :
                /\ Enqueue(op) /\ op.op \in Writes /\ op.step = "begin"
                /\ op.page = i
  BY WriteEnqueuedPages
<1>3. PICK op \in OpType :
                /\ Enqueue(op) /\ op.op \in Writes /\ op.step = "begin"
                /\ op.page = i
  BY <1>2
<1>4. Enqueued(op)
  BY <1>1, <1>3, EnqueueFacts
<1>5. PagesStay
  BY <1>2 DEF PagesStay
<1>6. QED BY <1>1, <1>2, <1>3, <1>4, <1>5

LEMMA FdsGcFacts ==
  ASSUME ShapeInv, fds_gc
  PROVE  /\ mode = "ready" /\ Calm
         /\ \E op \in OpType : Enqueued(op) /\ op.op = "gc"
         /\ m_gc'.state = m_gc.state /\ m_gc'.cur = m_gc.cur
         /\ m_gc'.src = m_gc.src /\ m_gc'.todo = m_gc.todo
         /\ m_gc'.resume = (m_gc.resume \/ m_gc.state # "begin")
<1>1. mode = "ready" /\ Calm
  BY DEF fds_gc, Calm
<1>2. PICK op \in OpType : op = Operation("gc", "none") /\ op.op = "gc"
  BY OperationType DEF Steps
<1>3. Enqueued(op)
  BY <1>1, <1>2, EnqueueFacts DEF fds_gc
<1>4. PICK b \in BOOLEAN : b = (m_gc.resume \/ m_gc.state # "begin")
  OBVIOUS
<1>5. m_gc' = [m_gc EXCEPT !.resume = b] /\ m_gc \in GcType
  BY <1>4, Zenon DEF fds_gc, ShapeInv, TypeInv
<1>6. QED BY <1>1, <1>2, <1>3, <1>4, <1>5 DEF GcType

LEMMA OpenFacts ==
  ASSUME ShapeInv, NEW key \in Key, fds_record_open(key)
  PROVE  /\ mode = "ready" /\ Calm /\ PagesStay
         /\ \E i \in DataPages, s \in 1..Slots :
              /\ s \in Records(Adr(i)) /\ flash[Adr(i)].slots[s].key = key
              /\ opened' = [id |-> flash[Adr(i)].slots[s].id, page |-> Adr(i),
                            slot |-> s, run |-> m_gc.run]
              /\ m_pages'[i].open = m_pages[i].open + 1
              /\ \A j \in Index : j # i => m_pages'[j] = m_pages[j]
              /\ hit' = IF fs = Erase(Adr(i)) THEN hit \union {"open"} ELSE hit
<1>1. mode = "ready" /\ Calm
  BY DEF fds_record_open, Calm
<1>2. PICK at : at = Lowest(OfKey(key))
  OBVIOUS
<1>3. at[1] \in DataPages /\ at[2] \in 1..Slots /\ at \in OfKey(key)
  BY <1>2, OfKeyFacts, LowestFacts DEF fds_record_open
<1>4. PICK i \in DataPages : i = at[1]
  BY <1>3
<1>5. PICK s \in 1..Slots : s = at[2]
  BY <1>3
<1>6. s \in Records(m_pages[i].addr) /\ flash[m_pages[i].addr].slots[s].key = key
  BY <1>3, <1>4, <1>5 DEF OfKey, InPages, SlotAt
<1>7. /\ i \in Index /\ m_pages[i] \in PageRecord
      /\ m_pages[i].addr = Adr(i) /\ m_pages[i].open \in Nat
      /\ m_pages \in [Index -> PageRecord]
  BY <1>1, DataPageFacts DEF ShapeInv, TypeInv
<1>8. PICK n \in Nat : n = m_pages[i].open + 1
  BY <1>7
<1>9. PICK r : r = [m_pages[i] EXCEPT !.open = n]
  OBVIOUS
<1>10. r.open = n /\ r.type = m_pages[i].type /\ r \in PageRecord
       /\ r.addr = m_pages[i].addr /\ r.offset = m_pages[i].offset
  BY <1>7, <1>9 DEF PageRecord
<1>11. m_pages' = [m_pages EXCEPT ![i] = r]
  BY <1>2, <1>4, <1>7, <1>8, <1>9 DEF fds_record_open, PageRecord
<1>12. m_pages' \in [Index -> PageRecord] /\ m_pages'[i] = r
       /\ \A j \in Index : j # i => m_pages'[j] = m_pages[j]
  BY <1>7, <1>10, <1>11
<1>13. PagesStay
  BY <1>10, <1>12 DEF PagesStay, SamePages
<1>14. opened' = [id |-> flash[Adr(i)].slots[s].id, page |-> Adr(i),
                  slot |-> s, run |-> m_gc.run]
  BY <1>2, <1>4, <1>5 DEF fds_record_open, SlotAt, Adr
<1>15. hit' = IF fs = Erase(Adr(i)) THEN hit \union {"open"} ELSE hit
  BY <1>2, <1>4 DEF fds_record_open, Adr
<1>16. QED BY <1>1, <1>6, <1>7, <1>8, <1>10, <1>12, <1>13, <1>14, <1>15

LEMMA CloseFacts ==
  ASSUME ShapeInv, fds_record_close
  PROVE  /\ mode = "ready" /\ Calm /\ PagesStay /\ opened' = NotOpen /\ opened # NotOpen
         /\ \A i \in Index : /\ m_pages'[i].open <= m_pages[i].open
                             /\ m_pages'[i].open \in Nat /\ m_pages[i].open \in Nat
<1>1. mode = "ready" /\ Calm /\ opened' = NotOpen /\ opened # NotOpen
  BY Zenon DEF fds_record_close, Calm
<1>2. QED BY <1>1, ClosePages DEF PagesStay

\* A step of a collection starts the next flash operation.
GcMoves ==
  /\ mode = "ready" /\ mode' = mode /\ m_op_queue # <<>> /\ Operation1.op = "gc"
  /\ fs = Call(TRUE) /\ flash' = flash
  /\ m_op_queue' = m_op_queue
  /\ fs' \in FlashOpType /\ fs' = GcOp'
  /\ m_gc'.state # "begin" /\ m_gc'.resume = FALSE

\* A step on the page that is collected, or on the next one.
GcGoesOn(from) ==
  /\ m_pages' = m_pages /\ m_swap_page'.addr = Swap
  /\ m_gc.state \in from /\ m_gc'.state \in {"copy", "erase", "discard"}
  /\ ~m_gc.resume
  /\ m_gc'.state = "erase" => m_pages[m_gc'.cur].open = 0

\* A collection ends.
GcStops ==
  /\ mode = "ready" /\ mode' = mode /\ m_op_queue # <<>> /\ Operation1.op = "gc"
  /\ fs = Call(TRUE) /\ flash' = flash /\ m_pages' = m_pages
  /\ m_swap_page' = m_swap_page /\ m_gc'.state = "begin" /\ Pop
  /\ ~m_gc.resume

LEMMA GcNextPageGoes ==
  ASSUME ShapeInv, NEW gc \in GcType, \A i \in gc.todo : i \in DataPages,
         GcNextPage(gc), gc.resume = FALSE, NEW from, GcRuns(from),
         UNCHANGED <<flash, m_pages, mode>>
  PROVE  GcStops \/ (GcMoves /\ GcGoesOn(from))
<1>1. mode = "ready" /\ m_op_queue # <<>> /\ Operation1.op = "gc" /\ fs = Call(TRUE)
      /\ ~m_gc.resume /\ m_gc.state \in from
  BY CollectingMode DEF GcRuns, Runs
<1>2. CASE GcEnds
  BY <1>1, <1>2 DEF GcEnds, GcStops
<1>3. CASE \E g : /\ GcArguments(g, m_swap_page) /\ GcGoes(g)
                  /\ g.resume = gc.resume /\ GcFinds(g, m_swap_page)
  <2>1. PICK g : GcGoes(g) /\ g.resume = FALSE /\ GcFinds(g, m_swap_page)
    BY <1>3
  <2>2. GcMoves
    BY <1>1, <2>1 DEF GcGoes, GcMoves
  <2>3. GcGoesOn(from)
    <3>1. m_gc'.state = "erase" => m_pages[m_gc'.cur].open = 0
      BY <2>1 DEF GcGoes, GcFinds
    <3>2. QED BY <1>1, <2>1, <3>1 DEF GcGoes, GcGoesOn
  <2>4. QED BY <2>2, <2>3
<1>4. QED BY <1>1, <1>2, <1>3, GcNextPageFacts

LEMMA GcBeginFacts ==
  ASSUME ShapeInv, GcBegin
  PROVE  GcStops \/ (GcMoves /\ GcGoesOn({"begin"}))
<1>1. mode = "ready" /\ m_op_queue # <<>> /\ Operation1.op = "gc" /\ GcRuns({"begin"})
  BY CollectingMode DEF GcBegin, GcRuns
<1>2. PICK todo \in Todos : todo = DataPages
  BY DEF Todos, DataPages
<1>2a. PICK n \in Nat : n = m_gc.run + 1
  BY DEF ShapeInv, TypeInv, GcType
<1>3. PICK gc : gc = [GcIdle EXCEPT !.todo = todo, !.run = n]
  OBVIOUS
<1>4. gc \in GcType /\ gc.todo = todo /\ gc.resume = FALSE
  BY <1>2, <1>2a, <1>3, Constants DEF GcIdle, GcType
<1>5. GcNextPage(gc)
  BY <1>2, <1>2a, <1>3 DEF GcBegin
<1>6. QED BY <1>1, <1>2, <1>4, <1>5, GcNextPageGoes DEF GcBegin

LEMMA GcTaggedFacts ==
  ASSUME ShapeInv, GcTagged
  PROVE  GcStops \/ (GcMoves /\ GcGoesOn({"tag"}))
<1>1. mode = "ready" /\ m_op_queue # <<>> /\ Operation1.op = "gc" /\ m_gc \in GcType
      /\ GcRuns({"tag"}) /\ m_gc.resume = FALSE
  BY CollectingMode DEF GcTagged, GcRuns, ShapeInv, TypeInv, GcType
<1>2. \A i \in m_gc.todo : i \in DataPages
  BY DEF ShapeInv, GcInv
<1>3. QED BY <1>1, <1>2, GcNextPageGoes DEF GcTagged

LEMMA GcCopiedFacts ==
  ASSUME ShapeInv, GcCopied
  PROVE  /\ GcMoves /\ GcGoesOn({"copy"})
         /\ \E swap \in SwapType :
              /\ swap.addr = Swap /\ swap.offset = m_swap_page.offset + 1
              /\ GcArguments(m_gc, swap) /\ GcFinds(m_gc, swap) /\ GcGoes(m_gc)
<1>1. mode = "ready" /\ m_op_queue # <<>> /\ m_gc.state = "copy" /\ Operation1.op = "gc"
      /\ fs = Call(TRUE) /\ ~m_gc.resume /\ m_gc.resume = FALSE
  BY CollectingMode DEF GcCopied, GcRuns, Runs, ShapeInv, TypeInv, GcType
<1>2. PICK n \in Nat : n = m_swap_page.offset + 1
  BY DEF ShapeInv, TypeInv, SwapType
<1>3. PICK swap : swap = [m_swap_page EXCEPT !.offset = n]
  OBVIOUS
<1>4. swap \in SwapType /\ swap.addr = Swap /\ swap.offset = n
  BY <1>2, <1>3 DEF ShapeInv, TypeInv, SwapType, Swap
<1>5. m_gc.cur \in DataPages
  BY <1>1 DEF ShapeInv, GcInv, Cur
<1>6. GcArguments(m_gc, swap)
  BY <1>4, <1>5 DEF GcArguments, ShapeInv, TypeInv
<1>7. GcFindNext(m_gc, swap)
  BY <1>2, <1>3 DEF GcCopied, ShapeInv, TypeInv, SwapType
<1>8. GcGoes(m_gc) /\ GcFinds(m_gc, swap)
  BY <1>1, <1>6, <1>7, GcFindNextFacts DEF GcCopied, GcFinds
<1>9. GcMoves
  BY <1>1, <1>8 DEF GcMoves, GcGoes, GcCopied
<1>10. GcGoesOn({"copy"})
  <2>1. m_gc'.state = "erase" => m_pages[m_gc'.cur].open = 0
    BY <1>8 DEF GcGoes, GcFinds
  <2>2. QED BY <1>1, <1>8, <2>1 DEF GcGoesOn, GcGoes, GcCopied
<1>11. QED BY <1>2, <1>4, <1>6, <1>8, <1>9, <1>10

LEMMA GcErasedFacts ==
  ASSUME ShapeInv, GcErased
  PROVE  /\ GcMoves /\ m_gc'.state = "promote" /\ m_gc.state = "erase" /\ ~m_gc.resume
         /\ m_swap_page'.addr = Adr(Cur) /\ Cur' = Cur /\ Cur \in DataPages
         /\ m_pages'[Cur].addr = Swap
         /\ \A i \in Index : i # Cur => m_pages'[i] = m_pages[i]
<1>1. mode = "ready" /\ m_op_queue # <<>> /\ Operation1.op = "gc"
      /\ fs = Call(TRUE) /\ ~m_gc.resume
  BY CollectingMode DEF GcErased, GcRuns, Runs
<1>2.    /\ mode = "ready" /\ m_op_queue # <<>> /\ m_gc.state = "erase"
         /\ Cur \in DataPages
         /\ \A i \in Index : i # Cur => m_pages'[i] = m_pages[i]
         /\ m_pages'[Cur].addr = Swap
         /\ m_swap_page'.addr = Adr(Cur)
         /\ m_gc'.state = "promote" /\ m_gc'.cur = m_gc.cur
         /\ m_gc'.resume = m_gc.resume
         /\ m_gc.resume = FALSE
  BY GcErasedPages
<1>3. fs' = Tag(Swap, "data") /\ Swap \in Page
  BY <1>1 DEF GcErased, Swap, ShapeInv, AddrInv
<1>4. fs' \in FlashOpType
  BY <1>3, OpTypes
<1>5. fs' = GcOp'
  BY <1>2, <1>3 DEF GcOp, Adr, Cur
<1>6. QED BY <1>1, <1>2, <1>4, <1>5 DEF GcMoves, GcErased, Cur

LEMMA GcPromotedFacts ==
  ASSUME ShapeInv, GcPromoted
  PROVE  /\ GcMoves /\ m_gc'.state = "tag" /\ m_gc.state \in {"promote", "discard"}
         /\ ~m_gc.resume /\ m_pages' = m_pages /\ m_swap_page' = m_swap_page
         /\ m_gc'.cur = m_gc.cur
<1>1. mode = "ready" /\ m_op_queue # <<>> /\ Operation1.op = "gc"
      /\ fs = Call(TRUE) /\ ~m_gc.resume /\ m_gc.state \in {"promote", "discard"}
  BY CollectingMode DEF GcPromoted, GcRuns, Runs
<1>2. m_gc'.state = "tag" /\ m_gc'.resume = FALSE /\ m_gc'.cur = m_gc.cur
  BY <1>1 DEF GcPromoted, ShapeInv, TypeInv, GcType
<1>3. fs' = Tag(Swap, "swap") /\ Swap \in Page
  BY <1>1 DEF GcPromoted, Swap, ShapeInv, AddrInv
<1>4. fs' \in FlashOpType
  BY <1>3, OpTypes
<1>5. fs' = GcOp'
  BY <1>2, <1>3 DEF GcOp, GcPromoted, Swap
<1>6. QED BY <1>1, <1>2, <1>4, <1>5 DEF GcMoves, GcPromoted

LEMMA GcResumeMoves ==
  ASSUME ShapeInv, GcResume
  PROVE  \/ /\ GcMoves /\ m_gc.resume /\ m_pages' = m_pages
            /\ m_swap_page'.addr = Swap /\ m_gc'.cur = m_gc.cur
            /\ \/ m_gc'.state = m_gc.state
               \/ m_gc.state = "erase" /\ m_gc'.state = "discard"
            /\ m_gc'.state = "erase" => m_pages[Cur].open = 0
            /\ m_gc.state = "erase" /\ m_gc'.state = "discard" => m_pages[Cur].open # 0
            /\ hit' = hit \/ hit' = hit \union {"advance"}
         \/ /\ mode = "ready" /\ m_op_queue # <<>> /\ Operation1.op = "gc"
            /\ fs = Call(TRUE) /\ m_pages' = m_pages
            /\ m_swap_page' = m_swap_page /\ m_gc.state = "discard"
            /\ m_gc'.state = "discard" /\ Pop
            /\ hit' = IF AnotherGc THEN hit \union {"advance"} ELSE hit
<1>1. PICK gc \in GcType :
           /\ mode = "ready" /\ m_op_queue # <<>> /\ Operation1.op = "gc"
           /\ fs = Call(TRUE) /\ m_gc.resume
           /\ m_gc.state # "begin"
           /\ gc.state = m_gc.state /\ gc.cur = m_gc.cur
           /\ gc.resume = FALSE /\ gc.cur \in DataPages
           /\ \/ m_gc.state = "copy" /\ GcCopy(gc, m_swap_page) /\ GcGoes(gc)
                 /\ m_gc'.state = "copy"
              \/ m_gc.state = "erase" /\ GcErase(gc, m_swap_page) /\ GcGoes(gc)
              \/ GcAgain(gc)
              \/ /\ m_gc.state = "discard" /\ m_gc' = gc /\ Pop
                 /\ m_swap_page' = m_swap_page
  BY GcResumeFacts
<1>2. /\ mode' = mode /\ flash' = flash /\ m_pages' = m_pages
      /\ hit' = hit \/ hit' = hit \union {"advance"}
      /\ m_gc.state = "discard" => hit' = IF AnotherGc THEN hit \union {"advance"} ELSE hit
  BY DEF GcResume
<1>3. CASE m_gc.state = "copy" /\ GcGoes(gc) /\ m_gc'.state = "copy"
  <2>1. GcMoves
    BY <1>1, <1>2, <1>3 DEF GcMoves, GcGoes
  <2>2. QED BY <2>1, <1>1, <1>2, <1>3 DEF GcGoes
<1>4. CASE m_gc.state = "erase" /\ GcErase(gc, m_swap_page) /\ GcGoes(gc)
  <2>1. GcMoves
    BY <1>1, <1>2, <1>4 DEF GcMoves, GcGoes
  <2>2. m_gc'.state \in {"erase", "discard"}
    BY <1>4, <1>1 DEF GcErase, GcType
  <2>3. m_gc'.state = "erase" <=> m_pages[Cur].open = 0
    <3>1. gc.cur = Cur /\ gc \in GcType
      BY <1>1 DEF Cur
    <3>2. QED BY <1>4, <3>1 DEF GcErase, GcType
  <2>4. QED BY <2>1, <2>2, <2>3, <1>1, <1>2, <1>4 DEF GcGoes
<1>5. CASE GcAgain(gc)
  <2>1. GcMoves
    BY <1>1, <1>2, <1>5 DEF GcMoves, GcAgain
  <2>2. QED BY <2>1, <1>1, <1>2, <1>5 DEF GcAgain, Swap
<1>6. CASE /\ m_gc.state = "discard" /\ m_gc' = gc /\ Pop
           /\ m_swap_page' = m_swap_page
  BY <1>1, <1>2, <1>6
<1>7. QED BY <1>1, <1>3, <1>4, <1>5, <1>6

(***************************************************************************)
(* FsInv: the flash operation under way is that of the step before.        *)
(***************************************************************************)

FsInv == InitFs /\ WriteFs /\ GcFs

\* At the begin of a step, or with nothing to do.
LEMMA CallFs ==
  ASSUME fs' = Call(TRUE) \/ m_op_queue' = <<>>, mode' = "init" => fs' = Call(TRUE)
  PROVE  FsInv'
BY DEF FsInv, InitFs, WriteFs, GcFs, Writing, Collecting

LEMMA PopFs ==
  ASSUME ShapeInv, m_op_queue # <<>>, Pop, mode' # "init"
  PROVE  FsInv'
BY PopFacts, CallFs

LEMMA MovesFs ==
  ASSUME GcMoves
  PROVE  FsInv'
<1>1. Operation1' = Operation1 /\ m_op_queue' # <<>>
  BY DEF GcMoves, Operation1
<1>2. QED BY <1>1 DEF FsInv, InitFs, WriteFs, GcFs, GcMoves, Writing, Collecting, Writes

LEMMA WriteStepFs ==
  ASSUME ShapeInv, WriteBegin \/ WriteFinalize \/ WriteDirty
  PROVE  FsInv'
<1>1. CASE WriteBegin
  <2>1. mode' = "ready"
    BY <1>1, WriteBeginFacts DEF WriteBegin
  <2>2. Operation1'.op \in Writes
    BY <1>1, WriteBeginFacts DEF Writing
  <2>3. QED BY <2>1, <2>2, <1>1, WriteBeginFacts
            DEF FsInv, InitFs, WriteFs, GcFs, Collecting, Writes
<1>2. CASE WriteFinalize
  <2>1. mode' = "ready"
    BY <1>2, WriteFinalizeFacts DEF WriteFinalize
  <2>2. Operation1'.op \in Writes
    BY <1>2, WriteFinalizeFacts DEF Writing
  <2>3. QED BY <2>1, <2>2, <1>2, WriteFinalizeFacts
            DEF FsInv, InitFs, WriteFs, GcFs, Collecting, Writes
<1>3. CASE WriteDirty
  <2>1. /\ mode' = "ready" /\ Operation1'.op = "update" /\ Operation1'.step = "done"
        /\ Operation1'.target = Operation1.target /\ PagesStay
        /\ Operation1.target[1] \in DataPages
        /\ fs' = Store("dirty", Adr(Operation1.target[1]), Operation1.target[2],
                       [SlotAt(Operation1.target) EXCEPT !.state = "dirty"])
    BY <1>3, WriteDirtyFacts DEF WriteDirty
  <2>2. PICK i \in Index : i = Operation1.target[1]
    BY <2>1 DEF DataPages
  <2>3. m_pages'[i].addr = m_pages[i].addr
    BY <2>1 DEF PagesStay, SamePages
  <2>4. flash' = flash
    BY <1>3 DEF WriteDirty
  <2>5. PICK at : at = Operation1.target
    OBVIOUS
  <2>6. Adr(at[1])' = Adr(at[1]) /\ SlotAt(at)' = SlotAt(at)
    BY <2>2, <2>3, <2>4, <2>5 DEF Adr, SlotAt
  <2>7. fs' = Store("dirty", Adr(at[1])', at[2], [SlotAt(at)' EXCEPT !.state = "dirty"])
    BY <2>1, <2>5, <2>6
  <2>8. (fs = Store("dirty", Adr(Operation1.target[1]), Operation1.target[2],
                     [SlotAt(Operation1.target) EXCEPT !.state = "dirty"]))'
    BY <2>1, <2>5, <2>7
  <2>9. QED BY <2>1, <2>8 DEF FsInv, InitFs, WriteFs, GcFs, Collecting
<1>4. QED BY <1>1, <1>2, <1>3

\* The callers leave the step of the first operation alone.
LEMMA SameFs ==
  ASSUME ShapeInv, FsInv, mode = "ready", mode' = mode, m_op_queue # <<>>,
         m_op_queue' # <<>>, Operation1' = Operation1, fs' = fs, PagesStay,
         m_gc'.state = m_gc.state, m_gc'.cur = m_gc.cur, m_gc'.src = m_gc.src,
         UNCHANGED <<flash, m_swap_page>>
  PROVE  FsInv'
<1>1. \A i \in Index : Adr(i)' = Adr(i) /\ m_pages'[i].offset = m_pages[i].offset
  BY DEF PagesStay, SamePages, Adr
<1>2. WriteFs'
  <2>1. SUFFICES ASSUME Writing' PROVE WriteFs'
    BY DEF WriteFs
  <2>2. Writing
    BY <2>1 DEF Writing
  <2>3. PICK i \in Index : i = Operation1.page
    BY <2>2, WritingMode DEF DataPages
  <2>4. /\ Adr(Operation1.page)' = Adr(Operation1.page)
        /\ m_pages'[Operation1.page].offset = m_pages[Operation1.page].offset
    BY <2>3, <1>1
  <2>5. /\ WriteStore("begin") => WriteStore("begin")'
        /\ WriteStore("finalize") => WriteStore("finalize")'
    BY <2>4 DEF WriteStore
  <2>6. ASSUME Operation1.op = "update", Operation1.step = "done"
        PROVE  /\ Adr(Operation1.target[1])' = Adr(Operation1.target[1])
               /\ SlotAt(Operation1.target)' = SlotAt(Operation1.target)
    <3>1. Operation1.target[1] \in Index
      BY <2>2, <2>6, WritingMode DEF DataPages
    <3>2. PICK at : at = Operation1.target
      OBVIOUS
    <3>3. at[1] \in Index /\ Operation1'.target = at
      BY <3>1, <3>2
    <3>4. Adr(at[1])' = Adr(at[1]) /\ SlotAt(at)' = SlotAt(at)
      BY <3>3, <1>1 DEF Adr, SlotAt
    <3>5. QED BY <3>2, <3>3, <3>4
  <2>7. QED BY <2>2, <2>5, <2>6 DEF WriteFs, FsInv
<1>3. GcFs'
  <2>1. SUFFICES ASSUME Collecting' PROVE GcFs'
    BY DEF GcFs
  <2>2. Collecting
    BY <2>1 DEF Collecting
  <2>3. m_gc.state # "begin" => Adr(Cur)' = Adr(Cur)
    <3>1. SUFFICES ASSUME m_gc.state # "begin" PROVE Adr(Cur)' = Adr(Cur)
      OBVIOUS
    <3>2. PICK i \in Index : i = Cur
      BY <3>1 DEF ShapeInv, GcInv, DataPages
    <3>3. QED BY <3>2, <1>1 DEF Cur
  <2>4. m_gc.state # "begin" => GcOp' = GcOp
    BY <2>3 DEF GcOp, Swap, Adr, Cur
  <2>5. QED BY <2>2, <2>4 DEF GcFs, FsInv
<1>4. QED BY <1>2, <1>3 DEF FsInv, InitFs

LEMMA EnqueuedFs ==
  ASSUME ShapeInv, FsInv, mode = "ready", mode' = mode, NEW op, Enqueued(op), PagesStay,
         m_gc'.state = m_gc.state, m_gc'.cur = m_gc.cur, m_gc'.src = m_gc.src,
         UNCHANGED <<flash, m_swap_page>>
  PROVE  FsInv'
<1>1. CASE m_op_queue = <<>>
  BY <1>1, CallFs DEF Enqueued
<1>2. CASE m_op_queue # <<>>
  BY <1>2, SameFs DEF Enqueued
<1>3. QED BY <1>1, <1>2

LEMMA CallersFs ==
  ASSUME ShapeInv, FsInv, Callers
  PROVE  FsInv'
<1>1. ASSUME NEW key \in Key, write_enqueue(key) PROVE FsInv'
  <2>1. mode = "ready" /\ PagesStay /\ \E op : Enqueued(op)
    BY <1>1, WriteEnqueueFacts
  <2>2. mode' = mode /\ m_gc' = m_gc /\ UNCHANGED <<flash, m_swap_page>>
    BY <1>1 DEF write_enqueue
  <2>3. QED BY <2>1, <2>2, EnqueuedFs
<1>2. ASSUME fds_gc PROVE FsInv'
  <2>1. mode = "ready" /\ PagesStay /\ \E op : Enqueued(op)
    BY <1>2, FdsGcFacts, StayPages DEF fds_gc
  <2>2. mode' = mode /\ UNCHANGED <<flash, m_swap_page>>
    BY <1>2 DEF fds_gc
  <2>3. QED BY <2>1, <2>2, <1>2, FdsGcFacts, EnqueuedFs
<1>3. ASSUME mode = "ready", PagesStay,
             UNCHANGED <<flash, mode, m_swap_page, m_gc, m_op_queue, fs>>
      PROVE  FsInv'
  <2>1. CASE m_op_queue = <<>>
    BY <2>1, <1>3, CallFs
  <2>2. CASE m_op_queue # <<>>
    BY <2>2, <1>3, SameFs DEF Operation1
  <2>3. QED BY <2>1, <2>2
<1>4. ASSUME NEW key \in Key, fds_record_open(key) PROVE FsInv'
  <2>1. mode = "ready" /\ PagesStay
    BY <1>4, OpenFacts
  <2>2. QED BY <2>1, <1>3, <1>4 DEF fds_record_open
<1>5. ASSUME fds_record_close PROVE FsInv'
  BY <1>3, <1>5, CloseFacts, Zenon DEF fds_record_close
<1>6. QED BY <1>1, <1>2, <1>4, <1>5 DEF Callers

LEMMA InitStepsFs ==
  ASSUME ShapeInv, InitTagSwap \/ InitTagData \/ InitEraseSwap \/ InitPromote
  PROVE  FsInv'
<1>1. /\ mode = "init" /\ mode' = "init" /\ m_op_queue # <<>> /\ Len(m_op_queue) = 1
      /\ Operation1.op = "init"
  BY InitMode DEF InitTagSwap, InitTagData, InitEraseSwap, InitPromote
<1>2. m_op_queue' # <<>> /\ Operation1'.op = "init"
  BY <1>1, InitTagSwapShape, InitTagDataShape, InitEraseSwapShape, InitPromoteShape
     DEF ShapeInv, QueueInv, TypeInv
<1>3. WriteFs' /\ GcFs'
  BY <1>2 DEF WriteFs, GcFs, Writing, Collecting, Writes
<1>4. CASE InitTagSwap
  <2>1. Swap' = Swap /\ Swap \in Page /\ fs' = Tag(Swap, "swap") /\ fs' \in FlashOpType
    BY <1>4, OpTypes DEF InitTagSwap, ShapeInv, TypeInv, SwapType, Swap
  <2>2. Operation1'.step = "tag data"
    BY <1>1, <1>4, <2>1, InitNext DEF InitTagSwap, Steps
  <2>3. QED BY <1>3, <2>1, <2>2 DEF FsInv, InitFs
<1>5. CASE InitTagData
  <2>1. PICK i \in Index : fs' = Tag(Adr(i), "data") /\ m_pages'[i].type = "data"
                           /\ m_pages'[i].addr = m_pages[i].addr
    BY <1>5, InitTagDataPages
  <2>2. Operation1'.step = "tag data"
    BY <1>5 DEF InitTagData, Operation1
  <2>3. QED BY <1>3, <2>1, <2>2 DEF FsInv, InitFs, DataPages, Adr
<1>6. CASE InitEraseSwap
  <2>1. m_swap_page \in SwapType /\ m_swap_page' = [m_swap_page EXCEPT !.offset = 0]
    BY <1>6 DEF InitEraseSwap, ShapeInv, TypeInv
  <2>2. Swap' = Swap /\ Swap \in Page /\ fs' = Erase(Swap)
    BY <1>1, <1>6, <2>1 DEF InitEraseSwap, ShapeInv, AddrInv, SwapType, Swap
  <2>3. fs' \in FlashOpType
    BY <2>2, OpTypes
  <2>4. Operation1'.step = "tag swap"
    BY <1>1, <1>6, <2>3, InitNext DEF InitEraseSwap, Steps
  <2>5. QED BY <1>3, <2>2, <2>4 DEF FsInv, InitFs
<1>7. CASE InitPromote
  <2>1. PICK c \in Index : c = Cur
    BY <1>7, InitPromotePages
  <2>2. m_pages'[c].addr = Swap /\ m_pages'[c].type = "data" /\ Swap \in Page
    BY <1>7, <2>1, InitPromotePages
  <2>3. fs' = Tag(Swap, "data")
    BY <1>7 DEF InitPromote, Swap
  <2>4. fs' \in FlashOpType
    BY <2>2, <2>3, OpTypes
  <2>5. Operation1'.step = "tag swap"
    BY <1>1, <1>7, <2>4, InitNext DEF InitPromote, Steps
  <2>6. QED BY <1>3, <2>2, <2>3, <2>5 DEF FsInv, InitFs, DataPages, Adr
<1>8. QED BY <1>4, <1>5, <1>6, <1>7

\* What the flash operation that is under way can be.
LEMMA FsUnderWay ==
  ASSUME ShapeInv, FsInv, fs.do \in FlashOp
  PROVE  /\ fs \in FlashOpType /\ m_op_queue # <<>>
         /\ \/ /\ mode = "init"
               /\ \/ /\ Operation1.step = "tag swap" /\ Swap \in Page
                     /\ fs = Erase(Swap)
                  \/ /\ Operation1.step = "tag data" /\ Swap \in Page
                     /\ fs = Tag(Swap, "swap")
                  \/ /\ Operation1.step \in {"tag swap", "tag data"}
                     /\ \E i \in DataPages : Adr(i) \in Page /\ Adr(i) # Swap
                                             /\ fs = Tag(Adr(i), "data")
            \/ /\ mode = "ready" /\ Writing /\ fs.do \in {"begin", "finalize", "dirty"}
               /\ Operation1.step # "begin"
               /\ \E i \in DataPages : fs.page = Adr(i)
            \/ mode = "ready" /\ Collecting /\ m_gc.state # "begin" /\ fs = GcOp
<1>1. fs \in FlashOpType /\ fs # Call(TRUE) /\ fs # Call(FALSE) /\ fs # NoFs
  BY FsFacts DEF ShapeInv, TypeInv
<1>2. mode \in {"init", "ready"} /\ m_op_queue # <<>>
  <2>1. mode \in {"off", "init", "ready", "failed", "dead"} /\ m_op_queue \in Seq(OpType)
    BY DEF ShapeInv, TypeInv
  <2>2. mode \in {"init", "ready"}
    BY <1>1, <2>1 DEF ShapeInv, QueueInv
  <2>3. CASE mode = "init"
    <3>1. Len(m_op_queue) = 1
      BY <2>3 DEF ShapeInv, QueueInv
    <3>2. QED BY <2>2, <3>1
  <2>4. CASE mode = "ready"
    BY <1>1, <2>1, <2>4 DEF ShapeInv, QueueInv
  <2>5. QED BY <2>2, <2>3, <2>4
<1>3. CASE mode = "init"
  <2>1. \A i \in DataPages : i \in Index /\ Adr(i) \in Page
    BY <1>3 DEF ShapeInv, AddrInv, Mounted, DataPages
  <2>2. \A i \in DataPages : Adr(i) # Swap
    BY <1>3, <2>1 DEF ShapeInv, AddrInv, Mounted, DataPages
  <2>3. CASE Operation1.step = "tag swap" /\ Swap \in Page /\ fs = Erase(Swap)
    BY <1>1, <1>2, <1>3, <2>3
  <2>4. CASE Operation1.step = "tag data" /\ Swap \in Page /\ fs = Tag(Swap, "swap")
    BY <1>1, <1>2, <1>3, <2>4
  <2>5. CASE /\ Operation1.step \in {"tag swap", "tag data"}
             /\ \E i \in DataPages : fs = Tag(Adr(i), "data")
    BY <1>1, <1>2, <1>3, <2>1, <2>2, <2>5
  <2>6. QED BY <1>1, <1>3, <2>3, <2>4, <2>5 DEF FsInv, InitFs
<1>4. CASE mode = "ready"
  <2>1. Writing \/ Collecting
    <3>1. Operation1 \in OpType /\ Operation1.op # "init"
      BY <1>2, <1>4, FirstFits
    <3>2. QED BY <3>1, <1>2 DEF Writing, Collecting, OpType, Writes
  <2>2. CASE Collecting
    BY <1>1, <1>2, <1>4, <2>2 DEF FsInv, GcFs
  <2>3. CASE Writing
    <3>1. Operation1.page \in DataPages /\ (Operation1.op = "write" \/ Operation1.op = "update")
      BY <2>3, WritingMode DEF Writes
    <3>2. CASE Operation1.step = "finalize" /\ WriteStore("begin")
      <4>1. fs.do = "begin" /\ fs.page = Adr(Operation1.page)
        BY <3>2 DEF WriteStore, Store
      <4>2. QED BY <1>1, <1>2, <1>4, <2>3, <3>1, <3>2, <4>1
    <3>3. CASE /\ Operation1.step = IF Operation1.op = "write" THEN "done" ELSE "dirty"
               /\ WriteStore("finalize")
      <4>1. fs.do = "finalize" /\ fs.page = Adr(Operation1.page)
        BY <3>3 DEF WriteStore, Store
      <4>2. QED BY <1>1, <1>2, <1>4, <2>3, <3>1, <3>3, <4>1
    <3>4. CASE /\ Operation1.op = "update" /\ Operation1.step = "done"
               /\ fs = Store("dirty", Adr(Operation1.target[1]), Operation1.target[2],
                     [SlotAt(Operation1.target) EXCEPT !.state = "dirty"])
      <4>1. fs.do = "dirty" /\ fs.page = Adr(Operation1.target[1])
        BY <3>4 DEF Store
      <4>2. Operation1.target[1] \in DataPages
        BY <2>3, <3>4, WritingMode
      <4>3. QED BY <1>1, <1>2, <1>4, <2>3, <3>4, <4>1, <4>2
    <3>5. QED BY <1>1, <2>3, <3>2, <3>3, <3>4 DEF FsInv, WriteFs
  <2>4. QED BY <2>1, <2>2, <2>3
<1>5. QED BY <1>2, <1>3, <1>4

LEMMA FlashFs ==
  ASSUME ShapeInv, FsInv, FlashEnds \/ FlashFails
  PROVE  FsInv'
<1>1. fs.do \in FlashOp
  BY DEF FlashEnds, FlashFails
<1>2. CASE FlashEnds
  BY <1>2, CallFs DEF FlashEnds
<1>3. CASE FlashFails
  <2>1. /\ mode' = mode /\ m_op_queue' = m_op_queue /\ fs' = Call(FALSE) /\ m_gc' = m_gc
    BY <1>3 DEF FlashFails, ramVars
  <2>2. Operation1' = Operation1
    BY <2>1 DEF Operation1
  <2>3. mode = "init" => Operation1.step \in {"tag swap", "tag data"}
    BY <1>1, FsUnderWay
  <2>4. Writing => Operation1.step # "begin"
    BY <1>1, FsUnderWay, WritingMode DEF Collecting, Writing, Writes
  <2>5. Collecting => m_gc.state # "begin"
    BY <1>1, FsUnderWay, RunningMode DEF Collecting, Writing, Writes
  <2>6. QED BY <2>1, <2>2, <2>3, <2>4, <2>5
            DEF FsInv, InitFs, WriteFs, GcFs, Writing, Collecting
<1>4. QED BY <1>2, <1>3

LEMMA NextFs ==
  ASSUME ShapeInv, FsInv, [Next]_vars
  PROVE  FsInv'
<1>1. CASE fds_init
  <2>1. PICK acc, step : InitFinds(acc, step)
    BY <1>1, FdsInitFacts
  <2>2. (mode' = "init" => fs' = Call(TRUE)) /\ (mode' # "init" => m_op_queue' = <<>>)
    BY <2>1, FdsInitQueue DEF InitQueues
  <2>3. QED BY <2>2, CallFs
<1>2. CASE queue_process
  <2>1. CASE InitTagSwap \/ InitTagData \/ InitEraseSwap \/ InitPromote
    BY <2>1, InitStepsFs
  <2>2. CASE InitDone \/ InitFails
    <3>1. m_op_queue # <<>> /\ Pop /\ mode' # "init"
      BY <2>2, InitMode DEF InitDone, InitFails
    <3>2. QED BY <3>1, PopFs
  <2>3. CASE WriteBegin \/ WriteFinalize \/ WriteDirty
    BY <2>3, WriteStepFs
  <2>4. CASE WriteEnds \/ WriteFails
    <3>1. m_op_queue # <<>> /\ Operation1.op \in Writes /\ Pop /\ mode' = mode
      BY <2>4 DEF WriteEnds, WriteFails, Runs, Fails, Operation1, Writes
    <3>2. mode = "ready"
      BY <3>1, RunningMode DEF Writes
    <3>3. QED BY <3>1, <3>2, PopFs
  <2>5. CASE GcStops
    BY <2>5, PopFs DEF GcStops
  <2>6. CASE GcMoves
    BY <2>6, MovesFs
  <2>7. CASE GcBegin \/ GcTagged \/ GcCopied \/ GcErased \/ GcPromoted
    BY <2>5, <2>6, <2>7, GcBeginFacts, GcTaggedFacts, GcCopiedFacts, GcErasedFacts,
       GcPromotedFacts
  <2>8. CASE GcResume
    <3>1. CASE GcMoves
      BY <3>1, <2>6
    <3>2. CASE mode = "ready" /\ m_op_queue # <<>> /\ Pop
      <4>1. mode' = mode
        BY <2>8 DEF GcResume
      <4>2. QED BY <3>2, <4>1, PopFs
    <3>3. QED BY <3>1, <3>2, <2>8, GcResumeMoves
  <2>9. CASE GcFails
    BY <2>9, CollectingMode, PopFs DEF GcFails
  <2>10. QED BY <1>2, <2>1, <2>2, <2>3, <2>4, <2>7, <2>8, <2>9 DEF queue_process
<1>3. CASE Callers BY <1>3, CallersFs
<1>4. CASE FlashEnds \/ FlashFails BY <1>4, FlashFs
<1>5. CASE Reset
  BY <1>5, CallFs DEF Reset
<1>6. CASE UNCHANGED vars
  BY <1>6, Zenon DEF vars, ramVars, FsInv, InitFs, WriteFs, GcFs, Writing, Collecting, Operation1,
     WriteStore, SlotAt, Adr, Swap, Cur, GcOp, DataPages
<1>7. QED BY <1>1, <1>2, <1>3, <1>4, <1>5, <1>6 DEF Next

(***************************************************************************)
(* ResumeInv: a step of a collection is done before the next one begins.   *)
(***************************************************************************)

\* A mishap is not forgotten, and "unset" is one of fds_init.
Hit(mishaps) == hit' = hit \union mishaps /\ "unset" \notin mishaps

LEMMA HitMore ==
  ASSUME [Next]_vars, ~fds_init
  PROVE  \E mishaps : Hit(mishaps)
<1>1. ASSUME hit' = hit PROVE \E mishaps : Hit(mishaps)
  <2>1. Hit({})
    BY <1>1 DEF Hit
  <2>2. QED BY <2>1
<1>2. ASSUME NEW a, NEW m, m # "unset", hit' = IF a THEN hit \union {m} ELSE hit
      PROVE  \E mishaps : Hit(mishaps)
  <2>1. CASE hit' = hit \union {m}
    <3>1. Hit({m})
      BY <1>2, <2>1 DEF Hit
    <3>2. QED BY <3>1
  <2>2. QED BY <1>1, <1>2, <2>1
<1>3. ASSUME queue_process PROVE \E mishaps : Hit(mishaps)
  <2>1. CASE InitTagSwap \/ InitTagData \/ InitDone \/ InitEraseSwap \/ InitFails
    BY <1>1, <2>1, Zenon DEF InitTagSwap, InitTagData, InitDone, InitEraseSwap, InitFails
  <2>2. CASE InitPromote
    <3>1. \E a : hit' = IF a THEN hit ELSE hit \union {"candidate"}
      BY <2>2, Zenon DEF InitPromote
    <3>2. \E a : hit' = IF a THEN hit \union {"candidate"} ELSE hit
      <4>1. PICK a : hit' = IF a THEN hit ELSE hit \union {"candidate"}
        BY <3>1
      <4>2. hit' = IF ~a THEN hit \union {"candidate"} ELSE hit
        BY <4>1
      <4>3. QED BY <4>2
    <3>3. QED BY <1>2, <3>2
  <2>3. CASE WriteBegin
    <3>1. hit' = hit \/ hit' = hit \union {"resume"}
      BY <2>3, Zenon DEF WriteBegin
    <3>2. QED BY <1>1, <1>2, <3>1
  <2>4. CASE WriteFinalize \/ WriteDirty \/ WriteEnds
    BY <1>1, <2>4, Zenon DEF WriteFinalize, WriteDirty, WriteEnds
  <2>5. CASE WriteFails
    <3>1. \/ hit' = hit \union {"gap"}
          \/ hit' = hit \union {"twins"}
          \/ hit' = hit \union {}
      BY <2>5, Zenon DEF WriteFails
    <3>2. \A m : "unset" \notin m /\ hit' = hit \union m => Hit(m)
      BY DEF Hit
    <3>3. Hit({"gap"}) \/ Hit({"twins"}) \/ Hit({})
      BY <3>1, <3>2
    <3>4. QED BY <3>3
  <2>6. CASE GcBegin \/ GcCopied \/ GcErased \/ GcPromoted \/ GcTagged
    BY <1>1, <2>6, Zenon DEF GcBegin, GcCopied, GcErased, GcPromoted, GcTagged
  <2>7. CASE GcResume \/ GcFails
    <3>1. \E a : hit' = IF a THEN hit \union {"advance"} ELSE hit
      BY <2>7, Zenon DEF GcResume, GcFails
    <3>2. QED BY <1>2, <3>1
  <2>8. QED BY <1>3, <2>1, <2>2, <2>3, <2>4, <2>5, <2>6, <2>7 DEF queue_process
<1>4. ASSUME Callers PROVE \E mishaps : Hit(mishaps)
  <2>1. CASE \E key \in Key : write_enqueue(key)
    <3>1. \E a : hit' = IF a THEN hit \union {"twins"} ELSE hit
      BY <2>1, Zenon DEF write_enqueue
    <3>2. QED BY <1>2, <3>1
  <2>2. CASE \E key \in Key : fds_record_open(key)
    <3>1. \E a : hit' = IF a THEN hit \union {"open"} ELSE hit
      BY <2>2, Zenon DEF fds_record_open
    <3>2. QED BY <1>2, <3>1
  <2>3. CASE fds_gc \/ fds_record_close
    BY <1>1, <2>3, Zenon DEF fds_gc, fds_record_close
  <2>4. QED BY <1>4, <2>1, <2>2, <2>3 DEF Callers
<1>5. CASE FlashEnds \/ FlashFails
  BY <1>1, <1>5, Zenon DEF FlashEnds, FlashFails
<1>6. CASE Reset
  <2>1. \E a, b : hit' = hit \union (IF a THEN {"tag"} ELSE {}) \union
                                (IF b THEN {"twins"} ELSE {})
    BY <1>6, Zenon DEF Reset
  <2>2. PICK mishaps : Hit(mishaps)
    <3>1. PICK a, b : hit' = hit \union (IF a THEN {"tag"} ELSE {}) \union
                                  (IF b THEN {"twins"} ELSE {})
      BY <2>1
    <3>2. Hit((IF a THEN {"tag"} ELSE {}) \union (IF b THEN {"twins"} ELSE {}))
      BY <3>1 DEF Hit
    <3>3. QED BY <3>2
  <2>3. QED BY <2>2
<1>7. CASE UNCHANGED vars
  BY <1>1, <1>7, Zenon DEF vars
<1>8. QED BY <1>3, <1>4, <1>5, <1>6, <1>7 DEF Next

LEMMA HitGrows ==
  ASSUME [Next]_vars
  PROVE  hit \subseteq hit'
<1>1. CASE fds_init
  <2>1. \E a : hit' = IF a THEN hit \union {"unset"} ELSE hit
    BY <1>1, Zenon DEF fds_init
  <2>2. QED BY <2>1
<1>2. CASE ~fds_init
  BY <1>2, HitMore DEF Hit
<1>3. QED BY <1>1, <1>2

LEMMA StillUnhurt ==
  ASSUME hit \subseteq hit', NEW mishaps, Unhurt(mishaps)'
  PROVE  Unhurt(mishaps)
BY DEF Unhurt

\* A collection is in the queue.
GcQueued == \E j \in 1..Len(m_op_queue) : m_op_queue[j].op = "gc"

LEMMA ResumeMeans ==
  ResumeInv <=> ( /\ RightSwap /\ m_gc.state # "begin" /\ ~m_gc.resume /\ GcQueued
                  => Collecting /\ (fs = Call(TRUE) => StepDone))
BY DEF ResumeInv, GcQueued

\* The step of a write, or its end, starts no collection.
LEMMA ResumeWrites ==
  ASSUME ShapeInv, ResumeInv, Writing, UNCHANGED m_gc, RightSwap' => RightSwap,
         SameOps \/ Pop
  PROVE  ResumeInv'
<1>1. SUFFICES ASSUME GcQueued', RightSwap', m_gc.state # "begin", ~m_gc.resume
               PROVE  FALSE
  BY DEF ResumeInv, GcQueued
<1>2. m_op_queue # <<>> /\ ~Collecting
  BY DEF Writing, Collecting, Writes
<1>3. GcQueued
  <2>1. CASE SameOps
    BY <1>1, <2>1 DEF SameOps, GcQueued
  <2>2. CASE Pop
    BY <1>1, <1>2, <2>2, PopFacts DEF GcQueued
  <2>3. QED BY <2>1, <2>2
<1>4. QED BY <1>1, <1>2, <1>3 DEF ResumeInv, GcQueued

\* The end of a failed step of a collection.
LEMMA ResumePops ==
  ASSUME ShapeInv, m_op_queue # <<>>, Pop, ~AnotherGc
  PROVE  ResumeInv'
<1>1. ~GcQueued'
  BY PopFacts DEF GcQueued, AnotherGc
<1>2. QED BY <1>1 DEF ResumeInv, GcQueued

LEMMA ResumeMoves ==
  ASSUME GcMoves
  PROVE  ResumeInv'
<1>1. Collecting' /\ fs' # Call(TRUE)
  BY FsFacts DEF GcMoves, Collecting, Operation1
<1>2. QED BY <1>1 DEF ResumeInv

LEMMA ResumeBegins ==
  ASSUME m_gc'.state = "begin"
  PROVE  ResumeInv'
BY DEF ResumeInv

\* What a step has done is still done.
LEMMA SameDone ==
  ASSUME ShapeInv, m_gc.state # "begin", StepDone, PagesStay,
         m_gc'.state = m_gc.state, m_gc'.cur = m_gc.cur,
         UNCHANGED <<flash, m_swap_page>>
  PROVE  StepDone'
<1>1. PICK i \in Index : i = Cur
  BY DEF ShapeInv, GcInv, DataPages
<1>2. m_pages'[i].addr = m_pages[i].addr
  BY DEF PagesStay, SamePages
<1>3. Adr(Cur)' = Adr(Cur) /\ Swap' = Swap
  BY <1>1, <1>2 DEF Adr, Cur, Swap
<1>4. QED BY <1>3 DEF StepDone, IsErased, SwapTag

LEMMA ResumeSame ==
  ASSUME ShapeInv, ResumeInv, PagesStay, GcQueued' => GcQueued,
         m_op_queue # <<>> => Operation1' = Operation1 /\ fs' = fs /\ m_op_queue' # <<>>,
         UNCHANGED <<flash, m_swap_page, m_gc>>, RightSwap' => RightSwap
  PROVE  ResumeInv'
<1>1. SUFFICES ASSUME GcQueued', RightSwap', m_gc.state # "begin", ~m_gc.resume
               PROVE  Collecting' /\ (fs' = Call(TRUE) => StepDone')
  BY DEF ResumeInv, GcQueued
<1>2. Collecting /\ (fs = Call(TRUE) => StepDone)
  BY <1>1 DEF ResumeInv, GcQueued
<1>3. Collecting' /\ fs' = fs
  BY <1>2 DEF Collecting
<1>4. QED BY <1>1, <1>2, <1>3, SameDone

LEMMA ResumeCallers ==
  ASSUME ShapeInv, ResumeInv, Callers, RightSwap' => RightSwap
  PROVE  ResumeInv'
<1>1. ASSUME NEW key \in Key, write_enqueue(key) PROVE ResumeInv'
  <2>1. PagesStay /\ \E op : Enqueued(op) /\ op.op \in Writes
    BY <1>1, WriteEnqueueFacts
  <2>2. PICK op : Enqueued(op) /\ op.op \in Writes
    BY <2>1
  <2>3. GcQueued' => GcQueued
    <3>1. SUFFICES ASSUME NEW j \in 1..Len(m_op_queue'), m_op_queue'[j].op = "gc"
                   PROVE  GcQueued
      BY DEF GcQueued
    <3>2. j # Len(m_op_queue) + 1
      BY <2>2, <3>1 DEF Enqueued, Writes
    <3>3. j \in 1..Len(m_op_queue)
      BY <2>2, <3>2 DEF Enqueued
    <3>4. QED BY <2>2, <3>1, <3>3 DEF Enqueued, GcQueued
  <2>4. QED BY <2>1, <2>2, <2>3, <1>1, ResumeSame DEF Enqueued, write_enqueue
<1>2. ASSUME fds_gc PROVE ResumeInv'
  BY <1>2, FdsGcFacts DEF ResumeInv
<1>3. ASSUME NEW key \in Key, fds_record_open(key) PROVE ResumeInv'
  BY <1>3, OpenFacts, ResumeSame DEF fds_record_open, GcQueued, Operation1
<1>4. ASSUME fds_record_close PROVE ResumeInv'
  BY <1>4, CloseFacts, ResumeSame, Zenon DEF fds_record_close, GcQueued, Operation1
<1>5. QED BY <1>1, <1>2, <1>3, <1>4 DEF Callers

(***************************************************************************)
(* SwapInv: what an operation on the flash leaves of the swap page.        *)
(***************************************************************************)

LEMMA DoneTags ==
  ASSUME flash \in FlashType, NEW f \in FlashOpType, NEW g, g = Done(f)
  PROVE  /\ f.page \in Page /\ g \in FlashType
         /\ \A p \in Page : p # f.page => g[p] = flash[p]
         /\ f.do = "erase" => g[f.page] = ErasedPage
         /\ f.do = "tag" =>
              g[f.page].tag = IF flash[f.page].tag = "data" THEN "data" ELSE f.tag
         /\ f.do \notin {"erase", "tag"} => g[f.page].tag = flash[f.page].tag
<1>1. flash[f.page] \in PageType /\ f.page \in Page
  BY FlashOpCases DEF FlashType
<1>2. PICK new : new = DoneTo(flash[f.page], f)
  OBVIOUS
<1>3. /\ g \in FlashType
      /\ \A p \in Page : p # f.page => g[p] = flash[p]
      /\ g[f.page] = new
  BY <1>2, DoneFacts DEF FlashType
<1>4. /\ f.do = "erase" => new = ErasedPage
      /\ f.do = "tag" => new.tag = Tagged(flash[f.page].tag, f.tag)
      /\ f.do \notin {"erase", "tag"} => new.tag = flash[f.page].tag
  BY <1>1, <1>2, DoneToFacts
<1>5. QED BY <1>1, <1>3, <1>4 DEF Tagged

LEMMA OpFacts ==
  /\ \A p : Erase(p).do = "erase" /\ Erase(p).page = p
  /\ \A p, tag : /\ Tag(p, tag).do = "tag" /\ Tag(p, tag).page = p
                 /\ Tag(p, tag).tag = tag
  /\ \A do, p, slot, new :
       /\ Store(do, p, slot, new).do = do /\ Store(do, p, slot, new).page = p
       /\ Store(do, p, slot, new).slot = slot /\ Store(do, p, slot, new).new = new
  /\ ErasedPage.tag = "none"
BY DEF Erase, Tag, Store, ErasedPage

\* The flash operation of a collection.
LEMMA GcOpFacts ==
  ASSUME ShapeInv, m_gc.state # "begin"
  PROVE  /\ Cur \in DataPages /\ Adr(Cur) \in Page /\ Swap \in Page
         /\ Adr(Cur) # Swap /\ mode = "ready"
         /\ m_gc.state \in {"copy", "erase", "discard", "promote", "tag"}
         /\ m_gc.state = "copy" => GcOp.do = "copy" /\ GcOp.page = Swap
         /\ m_gc.state = "erase" => GcOp = Erase(Adr(Cur))
         /\ m_gc.state = "discard" => GcOp = Erase(Swap)
         /\ m_gc.state = "promote" => GcOp = Tag(Adr(Cur), "data")
         /\ m_gc.state = "tag" => GcOp = Tag(Swap, "swap")
<1>1. mode = "ready" /\ Cur \in DataPages
  BY DEF ShapeInv, GcInv
<1>2. Adr(Cur) \in Page /\ Adr(Cur) # Swap /\ Swap \in Page
  BY <1>1, DataPageFacts DEF ShapeInv, AddrInv
<1>3. m_gc.state \in {"copy", "erase", "discard", "promote", "tag"}
  BY DEF ShapeInv, TypeInv, GcType
<1>4. CASE m_gc.state = "copy"
  <2>1. PICK n, new : GcOp = Store("copy", Swap, n, new)
    BY <1>4, Zenon DEF GcOp
  <2>2. QED BY <2>1, <1>1, <1>2, <1>4, OpFacts
<1>5. CASE m_gc.state = "erase"
  BY <1>1, <1>2, <1>5 DEF GcOp
<1>6. CASE m_gc.state = "discard"
  BY <1>1, <1>2, <1>6 DEF GcOp
<1>7. CASE m_gc.state = "promote"
  BY <1>1, <1>2, <1>7 DEF GcOp
<1>8. CASE m_gc.state = "tag"
  <2>1. GcOp = Tag(Swap, "swap")
    BY <1>8 DEF GcOp
  <2>2. QED BY <2>1, <1>1, <1>2, <1>8
<1>9. QED BY <1>3, <1>4, <1>5, <1>6, <1>7, <1>8

LEMMA ResumeFlashEnds ==
  ASSUME ShapeInv, FsInv, ResumeInv, SwapInv, FlashEnds
  PROVE  ResumeInv'
<1>1. /\ fs.do \in FlashOp /\ flash' = Done(fs) /\ m_gc' = m_gc /\ hit' = hit
      /\ m_op_queue' = m_op_queue /\ m_pages' = m_pages /\ m_swap_page' = m_swap_page
  BY DEF FlashEnds, ramVars
<1>2. SUFFICES ASSUME GcQueued, RightSwap, m_gc.state # "begin", ~m_gc.resume
               PROVE  Collecting' /\ StepDone'
  BY <1>1 DEF ResumeInv, GcQueued, RightSwap, Unhurt
<1>3. Collecting
  BY <1>2 DEF ResumeInv, GcQueued
<1>4. Collecting'
  BY <1>1, <1>3 DEF Collecting, Operation1
<1>5. fs \in FlashOpType /\ fs = GcOp
  BY <1>1, <1>3, FsUnderWay, RunningMode DEF Writing, Collecting, Writes
<1>6. PICK g : g = flash'
  OBVIOUS
<1>7.    /\ \A p \in Page : p # fs.page => g[p] = flash[p]
         /\ fs.do = "erase" => g[fs.page] = ErasedPage
         /\ fs.do = "tag" =>
              g[fs.page].tag = IF flash[fs.page].tag = "data" THEN "data" ELSE fs.tag
  BY <1>1, <1>5, <1>6, DoneTags DEF ShapeInv, TypeInv
<1>8. Mounted /\ (SwapTag(Swap) \/ IsErased(Swap))
  BY <1>2, GcOpFacts DEF SwapInv, Mounted
<1>9. flash[Swap].tag # "data"
  BY <1>8, OpFacts DEF SwapTag, IsErased
<1>10. /\ m_gc.state = "erase" => g[Adr(Cur)] = ErasedPage
       /\ m_gc.state = "discard" => g[Swap] = ErasedPage
       /\ m_gc.state = "promote" => g[Adr(Cur)].tag = "data"
       /\ m_gc.state = "tag" => g[Swap].tag = "swap"
  BY <1>2, <1>5, <1>7, <1>9, GcOpFacts, OpFacts
<1>11. Adr(Cur)' = Adr(Cur) /\ Swap' = Swap
  BY <1>1 DEF Adr, Cur, Swap
<1>12. StepDone'
  BY <1>1, <1>6, <1>10, <1>11 DEF StepDone, IsErased, SwapTag
<1>13. QED BY <1>4, <1>12

LEMMA NextResume ==
  ASSUME ShapeInv, FsInv, ResumeInv, SwapInv, [Next]_vars
  PROVE  ResumeInv'
<1>1. RightSwap' => RightSwap
  BY HitGrows, StillUnhurt DEF RightSwap
<1>2. CASE fds_init
  <2>1. PICK acc, step : InitFinds(acc, step)
    BY <1>2, FdsInitFacts
  <2>2. QED BY <2>1, ResumeBegins DEF InitFinds
<1>3. CASE queue_process
  <2>1. CASE InitTagSwap \/ InitTagData \/ InitEraseSwap \/ InitPromote \/ InitDone
             \/ InitFails
    <3>1. m_gc.state = "begin"
      BY <2>1, InitMode DEF InitTagSwap, InitTagData, InitEraseSwap, InitPromote,
         InitDone, InitFails
    <3>2. m_gc' = m_gc
      BY <2>1 DEF InitTagSwap, InitTagData, InitEraseSwap, InitPromote,
         InitDone, InitFails
    <3>3. QED BY <3>1, <3>2, ResumeBegins
  <2>2. CASE WriteBegin \/ WriteFinalize \/ WriteDirty
    <3>1. Writing /\ SameOps
      BY <2>2, WriteBeginFacts, WriteFinalizeFacts, WriteDirtyFacts
    <3>2. m_gc' = m_gc
      BY <2>2 DEF WriteBegin, WriteFinalize, WriteDirty
    <3>3. QED BY <1>1, <3>1, <3>2, ResumeWrites
  <2>3. CASE WriteEnds \/ WriteFails
    <3>1. Writing /\ Pop /\ m_gc' = m_gc
      BY <2>3 DEF WriteEnds, WriteFails, Runs, Fails, Operation1, Writes, Writing
    <3>2. QED BY <1>1, <3>1, ResumeWrites
  <2>4. CASE GcBegin \/ GcTagged \/ GcCopied \/ GcErased \/ GcPromoted
    <3>1. GcStops \/ GcMoves
      BY <2>4, GcBeginFacts, GcTaggedFacts, GcCopiedFacts, GcErasedFacts, GcPromotedFacts
    <3>2. QED BY <3>1, ResumeMoves, ResumeBegins DEF GcStops
  <2>5. CASE GcResume
    <3>1. CASE GcMoves
      BY <3>1, ResumeMoves
    <3>2. CASE m_op_queue # <<>> /\ Pop /\ hit' = IF AnotherGc THEN hit \union {"advance"} ELSE hit
      <4>1. CASE AnotherGc
        <5>1. "advance" \in hit'
          BY <3>2, <4>1
        <5>2. QED BY <5>1 DEF ResumeInv, RightSwap, Unhurt
      <4>2. CASE ~AnotherGc
        BY <3>2, <4>2, ResumePops
      <4>3. QED BY <4>1, <4>2
    <3>3. QED BY <2>5, <3>1, <3>2, GcResumeMoves
  <2>6. CASE GcFails
    <3>1. m_op_queue # <<>> /\ Pop
      BY <2>6, CollectingMode DEF GcFails
    <3>2. CASE AnotherGc /\ ~m_gc.resume
      <4>1. "advance" \in hit'
        BY <2>6, <3>2 DEF GcFails
      <4>2. QED BY <4>1 DEF ResumeInv, RightSwap, Unhurt
    <3>3. CASE ~AnotherGc
      BY <3>1, <3>3, ResumePops
    <3>4. CASE m_gc.resume
      BY <2>6, <3>4 DEF GcFails, ResumeInv
    <3>5. QED BY <3>2, <3>3, <3>4
  <2>7. QED BY <1>3, <2>1, <2>2, <2>3, <2>4, <2>5, <2>6 DEF queue_process
<1>4. CASE Callers BY <1>1, <1>4, ResumeCallers
<1>5. CASE FlashEnds BY <1>5, ResumeFlashEnds
<1>6. CASE FlashFails
  <2>1. m_op_queue' = m_op_queue /\ m_gc' = m_gc /\ fs' = Call(FALSE) /\ hit' = hit
    BY <1>6 DEF FlashFails, ramVars
  <2>2. Collecting => Collecting'
    BY <2>1 DEF Collecting, Operation1
  <2>3. QED BY <1>1, <2>1, <2>2, FsFacts DEF ResumeInv, GcQueued
<1>7. CASE Reset
  <2>1. m_gc'.state = "begin"
    BY <1>7 DEF Reset, GcIdle
  <2>2. QED BY <2>1, ResumeBegins
<1>8. CASE UNCHANGED vars
  BY <1>8 DEF vars, ramVars, ResumeInv, RightSwap, Unhurt, Collecting, Operation1, StepDone,
     IsErased, SwapTag, Adr, Cur, Swap
<1>9. QED BY <1>2, <1>3, <1>4, <1>5, <1>6, <1>7, <1>8 DEF Next

\* The tags of the swap page in a flash g, as SwapInv has them before a step.
SwapAt(g, p) == g[p].tag = "swap"
OnlySwapAt(g, s) == \A p \in Page : SwapAt(g, p) => p = s

SwapDone(g) ==
  /\ \A p, q \in Page : SwapAt(g, p) /\ SwapAt(g, q) => p = q
  /\ Swap \in Page /\ (SwapAt(g, Swap) \/ g[Swap] = ErasedPage)
  /\ mode = "init" => \A i \in ErasedPages : g[Adr(i)] = ErasedPage
  /\ mode = "init" /\ Operation1.step = "tag swap" =>
       g[Swap] = ErasedPage /\ \A p \in Page : ~SwapAt(g, p)
  /\ mode = "init" /\ Operation1.step = "tag data" => SwapAt(g, Swap)
  /\ m_gc.state = "promote" => g[Swap] = ErasedPage /\ OnlySwapAt(g, Adr(Cur))
  /\ mode = "ready" /\ m_gc.state # "promote" => OnlySwapAt(g, Swap)
  /\ mode = "ready" /\ m_gc.state \in {"begin", "copy", "erase"} => SwapAt(g, Swap)

LEMMA InitSwapDone ==
  ASSUME ShapeInv, FsInv, SwapInv, RightSwap, fs.do \in FlashOp, mode = "init",
         NEW g, g = Done(fs)
  PROVE  SwapDone(g)
<1>1. /\ fs.page \in Page
      /\ \A p \in Page : p # fs.page => g[p] = flash[p]
      /\ fs.do = "erase" => g[fs.page] = ErasedPage
      /\ fs.do = "tag" =>
           g[fs.page].tag = IF flash[fs.page].tag = "data" THEN "data" ELSE fs.tag
  BY FsUnderWay, DoneTags DEF ShapeInv, TypeInv
<1>2. m_gc.state = "begin"
  BY DEF ShapeInv, GcInv
<1>3. /\ Swap \in Page /\ (SwapAt(flash, Swap) \/ flash[Swap] = ErasedPage)
      /\ \A p, q \in Page : SwapAt(flash, p) /\ SwapAt(flash, q) => p = q
      /\ \A i \in ErasedPages : flash[Adr(i)] = ErasedPage
  BY DEF SwapInv, Mounted, IsErased, SwapTag, OneSwapTag, SwapAt
<1>4. \A i \in ErasedPages :
        /\ i \in Index /\ Adr(i) \in Page /\ Adr(i) # Swap
        /\ \A j \in DataPages : j \in Index /\ Adr(j) \in Page /\ Adr(j) # Adr(i)
  <2>1. TAKE i \in ErasedPages
  <2>2. i \in Index /\ m_pages[i].type = "erased"
    BY DEF ErasedPages
  <2>3. Adr(i) \in Page /\ Adr(i) # Swap /\ Adr(i) # NoPage
    BY <2>2, Constants DEF ShapeInv, AddrInv, Mounted
  <2>4. ASSUME NEW j \in DataPages
        PROVE  j \in Index /\ Adr(j) \in Page /\ Adr(j) # Adr(i)
    <3>1. j \in Index /\ m_pages[j].type = "data"
      BY DEF DataPages
    <3>2. j # i
      BY <2>2, <3>1
    <3>3. QED BY <2>2, <2>3, <3>1, <3>2 DEF ShapeInv, AddrInv, Mounted
  <2>5. QED BY <2>2, <2>3, <2>4
<1>5. ErasedPage.tag = "none"
  BY OpFacts
<1>6. CASE Operation1.step = "tag swap" /\ fs = Erase(Swap)
  <2>1. fs.do = "erase" /\ fs.page = Swap
    BY <1>6, OpFacts
  <2>2. SwapAt(flash, Swap)
    BY <1>6 DEF SwapInv, SwapTag, SwapAt
  <2>3. g[Swap] = ErasedPage /\ \A p \in Page : p # Swap => g[p] = flash[p]
    BY <1>1, <2>1
  <2>4. \A p \in Page : ~SwapAt(g, p)
    BY <1>3, <1>5, <2>2, <2>3 DEF SwapAt
  <2>5. \A i \in ErasedPages : g[Adr(i)] = ErasedPage
    BY <1>3, <1>4, <2>3
  <2>6. QED BY <1>2, <1>3, <1>6, <2>3, <2>4, <2>5 DEF SwapDone
<1>7. CASE Operation1.step = "tag data" /\ fs = Tag(Swap, "swap")
  <2>1. fs.do = "tag" /\ fs.page = Swap /\ fs.tag = "swap"
    <3>1. fs = Tag(Swap, "swap")
      BY <1>7
    <3>2. /\ Tag(Swap, "swap").do = "tag" /\ Tag(Swap, "swap").page = Swap
          /\ Tag(Swap, "swap").tag = "swap"
      BY OpFacts
    <3>3. QED BY <3>1, <3>2, Zenon
  <2>2. \A p \in Page : ~SwapAt(flash, p)
    BY <1>7 DEF SwapInv, NoSwapTag, SwapTag, SwapAt
  <2>3. flash[Swap].tag # "data"
    BY <1>3, <1>5, <2>2
  <2>4. SwapAt(g, Swap) /\ \A p \in Page : p # Swap => g[p] = flash[p]
    BY <1>1, <2>1, <2>3 DEF SwapAt
  <2>5. \A p, q \in Page : SwapAt(g, p) /\ SwapAt(g, q) => p = q
    BY <2>2, <2>4 DEF SwapAt
  <2>6. \A i \in ErasedPages : g[Adr(i)] = ErasedPage
    BY <1>3, <1>4, <2>4
  <2>7. QED BY <1>2, <1>3, <1>7, <2>4, <2>5, <2>6 DEF SwapDone
<1>8. CASE /\ Operation1.step \in {"tag swap", "tag data"}
           /\ \E i \in DataPages : Adr(i) \in Page /\ Adr(i) # Swap
                                   /\ fs = Tag(Adr(i), "data")
  <2>1. PICK i \in DataPages : Adr(i) \in Page /\ Adr(i) # Swap
                               /\ fs = Tag(Adr(i), "data")
    BY <1>8
  <2>2. fs.do = "tag" /\ fs.page = Adr(i) /\ fs.tag = "data"
    BY <2>1, OpFacts
  <2>3. g[Adr(i)].tag = "data" /\ \A p \in Page : p # Adr(i) => g[p] = flash[p]
    BY <1>1, <2>2
  <2>4. \A p, q \in Page : SwapAt(g, p) /\ SwapAt(g, q) => p = q
    BY <1>3, <2>3 DEF SwapAt
  <2>5. \A j \in ErasedPages : g[Adr(j)] = ErasedPage
    BY <1>3, <1>4, <2>3
  <2>6. g[Swap] = flash[Swap]
    BY <1>3, <2>1, <2>3
  <2>7. CASE Operation1.step = "tag swap"
    <3>1. flash[Swap] = ErasedPage /\ \A p \in Page : SwapAt(flash, p) => p = Adr(i)
      BY <2>2, <2>7 DEF SwapInv, IsErased, SwapTag, SwapAt
    <3>2. \A p \in Page : ~SwapAt(g, p)
      BY <2>3, <3>1 DEF SwapAt
    <3>3. QED BY <1>2, <1>3, <2>4, <2>5, <2>6, <2>7, <3>1, <3>2 DEF SwapDone
  <2>8. CASE Operation1.step = "tag data"
    <3>1. fs # Tag(Swap, "swap") /\ fs # Call(FALSE)
      <4>1. fs.tag # Tag(Swap, "swap").tag
        BY <2>2, OpFacts
      <4>2. fs.do # Call(FALSE).do
        BY <2>2 DEF Call
      <4>3. QED BY <4>1, <4>2, Zenon
    <3>2. SwapAt(flash, Swap)
      BY <2>8, <3>1 DEF SwapInv, SwapTag, SwapAt
    <3>3. SwapAt(g, Swap)
      BY <2>6, <3>2 DEF SwapAt
    <3>4. QED BY <1>2, <1>3, <2>4, <2>5, <2>8, <3>3 DEF SwapDone
  <2>9. QED BY <1>8, <2>7, <2>8
<1>9. QED BY <1>6, <1>7, <1>8, FsUnderWay

LEMMA WriteSwapDone ==
  ASSUME ShapeInv, FsInv, SwapInv, RightSwap, fs \in FlashOpType, mode = "ready",
         fs.do \in {"begin", "finalize", "dirty"},
         NEW i \in DataPages, fs.page = Adr(i), NEW g, g = Done(fs)
  PROVE  SwapDone(g)
<1>1. /\ fs.page \in Page
      /\ \A p \in Page : p # fs.page => g[p] = flash[p]
      /\ g[fs.page].tag = flash[fs.page].tag
  BY DoneTags DEF ShapeInv, TypeInv
<1>2. Adr(i) \in Page /\ Adr(i) # Swap
  BY DataPageFacts
<1>3. \A p \in Page : SwapAt(g, p) <=> SwapAt(flash, p)
  BY <1>1 DEF SwapAt
<1>4. Swap \in Page /\ g[Swap] = flash[Swap]
  BY <1>1, <1>2 DEF ShapeInv, AddrInv
<1>5. /\ SwapAt(flash, Swap) \/ flash[Swap] = ErasedPage
      /\ \A p, q \in Page : SwapAt(flash, p) /\ SwapAt(flash, q) => p = q
      /\ m_gc.state = "promote" => flash[Swap] = ErasedPage /\ OnlySwapAt(flash, Adr(Cur))
      /\ m_gc.state # "promote" => OnlySwapAt(flash, Swap)
      /\ m_gc.state \in {"begin", "copy", "erase"} => SwapAt(flash, Swap)
  BY DEF SwapInv, Mounted, IsErased, SwapTag, OneSwapTag, SwapAt, OnlySwapAt
<1>6. QED BY <1>3, <1>4, <1>5 DEF SwapDone, OnlySwapAt

LEMMA GcSwapDone ==
  ASSUME ShapeInv, FsInv, SwapInv, RightSwap, fs \in FlashOpType,
         m_gc.state # "begin", fs = GcOp, NEW g, g = Done(fs)
  PROVE  SwapDone(g)
<1>1. /\ fs.page \in Page
      /\ \A p \in Page : p # fs.page => g[p] = flash[p]
      /\ fs.do = "erase" => g[fs.page] = ErasedPage
      /\ fs.do = "tag" =>
           g[fs.page].tag = IF flash[fs.page].tag = "data" THEN "data" ELSE fs.tag
      /\ fs.do \notin {"erase", "tag"} => g[fs.page].tag = flash[fs.page].tag
  BY DoneTags DEF ShapeInv, TypeInv
<1>2. /\ Cur \in DataPages /\ Adr(Cur) \in Page /\ Swap \in Page
      /\ Adr(Cur) # Swap /\ mode = "ready"
      /\ m_gc.state \in {"copy", "erase", "discard", "promote", "tag"}
  BY GcOpFacts
<1>3. /\ SwapAt(flash, Swap) \/ flash[Swap] = ErasedPage
      /\ \A p, q \in Page : SwapAt(flash, p) /\ SwapAt(flash, q) => p = q
      /\ m_gc.state = "promote" => flash[Swap] = ErasedPage /\ OnlySwapAt(flash, Adr(Cur))
      /\ m_gc.state # "promote" => OnlySwapAt(flash, Swap)
      /\ m_gc.state \in {"begin", "copy", "erase"} => SwapAt(flash, Swap)
  BY <1>2 DEF SwapInv, Mounted, IsErased, SwapTag, OneSwapTag, SwapAt, OnlySwapAt
<1>4. ErasedPage.tag = "none"
  BY OpFacts
<1>5. CASE m_gc.state = "copy"
  <2>1. fs.do = "copy" /\ fs.page = Swap
    BY <1>5, GcOpFacts
  <2>2. \A p \in Page : SwapAt(g, p) <=> SwapAt(flash, p)
    BY <1>1, <2>1 DEF SwapAt
  <2>3. QED BY <1>2, <1>3, <1>5, <2>2 DEF SwapDone, OnlySwapAt
<1>6. CASE m_gc.state = "erase"
  <2>1. fs.do = "erase" /\ fs.page = Adr(Cur)
    BY <1>6, GcOpFacts, OpFacts
  <2>2. g[Adr(Cur)] = ErasedPage /\ \A p \in Page : p # Adr(Cur) => g[p] = flash[p]
    BY <1>1, <2>1
  <2>3. OnlySwapAt(g, Swap) /\ SwapAt(g, Swap)
    BY <1>2, <1>3, <1>4, <1>6, <2>2 DEF OnlySwapAt, SwapAt
  <2>4. QED BY <1>2, <1>6, <2>3 DEF SwapDone, OnlySwapAt
<1>7. CASE m_gc.state = "discard"
  <2>1. fs.do = "erase" /\ fs.page = Swap
    BY <1>7, GcOpFacts, OpFacts
  <2>2. g[Swap] = ErasedPage /\ \A p \in Page : p # Swap => g[p] = flash[p]
    BY <1>1, <2>1
  <2>3. OnlySwapAt(g, Swap)
    BY <1>2, <1>3, <1>4, <1>7, <2>2 DEF OnlySwapAt, SwapAt
  <2>4. QED BY <1>2, <1>7, <2>2, <2>3 DEF SwapDone, OnlySwapAt
<1>8. CASE m_gc.state = "promote"
  <2>1. fs.do = "tag" /\ fs.page = Adr(Cur) /\ fs.tag = "data"
    BY <1>8, GcOpFacts, OpFacts
  <2>2. g[Adr(Cur)].tag = "data" /\ \A p \in Page : p # Adr(Cur) => g[p] = flash[p]
    BY <1>1, <2>1
  <2>3. g[Swap] = ErasedPage /\ \A p \in Page : ~SwapAt(g, p)
    BY <1>2, <1>3, <1>8, <2>2 DEF OnlySwapAt, SwapAt
  <2>4. QED BY <1>2, <1>8, <2>3 DEF SwapDone, OnlySwapAt
<1>9. CASE m_gc.state = "tag"
  <2>1. fs.do = "tag" /\ fs.page = Swap /\ fs.tag = "swap"
    BY <1>9, GcOpFacts, OpFacts
  <2>2. flash[Swap].tag # "data"
    BY <1>3, <1>4 DEF SwapAt
  <2>3. SwapAt(g, Swap) /\ \A p \in Page : p # Swap => g[p] = flash[p]
    BY <1>1, <2>1, <2>2 DEF SwapAt
  <2>4. OnlySwapAt(g, Swap)
    BY <1>3, <1>9, <2>3 DEF OnlySwapAt, SwapAt
  <2>5. QED BY <1>2, <1>9, <2>3, <2>4 DEF SwapDone, OnlySwapAt
<1>10. QED BY <1>2, <1>5, <1>6, <1>7, <1>8, <1>9

LEMMA FlashSwapDone ==
  ASSUME ShapeInv, FsInv, SwapInv, RightSwap, fs.do \in FlashOp
  PROVE  SwapDone(Done(fs))
BY FsUnderWay, InitSwapDone, WriteSwapDone, GcSwapDone

(***************************************************************************)
(* SwapInv: the actions.                                                   *)
(***************************************************************************)

\* What SwapInv says in mode "ready".
SwapReady ==
  /\ OneSwapTag
  /\ Swap \in Page /\ (SwapTag(Swap) \/ IsErased(Swap))
  /\ m_gc.state = "promote" =>
       IsErased(Swap) /\ \A p \in Page : SwapTag(p) => p = Adr(Cur)
  /\ m_gc.state # "promote" => \A p \in Page : SwapTag(p) => p = Swap
  /\ m_gc.state \in {"begin", "copy", "erase"} => SwapTag(Swap)

LEMMA SwapIsReady ==
  ASSUME SwapInv, RightSwap, mode = "ready"
  PROVE  SwapReady
BY DEF SwapInv, SwapReady, Mounted

LEMMA ReadySwap ==
  ASSUME mode' = "ready", RightSwap' => SwapReady'
  PROVE  SwapInv'
BY DEF SwapInv, SwapReady, Mounted

LEMMA SameFlash ==
  ASSUME flash' = flash
  PROVE  /\ OneSwapTag' <=> OneSwapTag
         /\ \A p : (SwapTag(p)' <=> SwapTag(p)) /\ (IsErased(p)' <=> IsErased(p))
BY DEF SwapTag, IsErased, OneSwapTag

LEMMA ReadyStays ==
  ASSUME SwapInv, RightSwap' => RightSwap, mode = "ready", mode' = mode,
         flash' = flash, Swap' = Swap, m_gc'.state = m_gc.state,
         m_gc.state = "promote" => Adr(Cur)' = Adr(Cur)
  PROVE  SwapInv'
<1>1. SUFFICES ASSUME RightSwap' PROVE SwapReady'
  BY ReadySwap
<1>2. SwapReady
  BY <1>1, SwapIsReady
<1>3. /\ OneSwapTag'
      /\ \A p : (flash'[p].tag = "swap" <=> SwapTag(p))
      /\ \A p : (flash'[p] = ErasedPage <=> IsErased(p))
  BY <1>2, SameFlash DEF SwapReady, SwapTag, IsErased
<1>4. QED BY <1>2, <1>3 DEF SwapReady, SwapTag, IsErased

LEMMA ReadyMoves ==
  ASSUME SwapInv, RightSwap' => RightSwap, mode = "ready", mode' = mode,
         flash' = flash, Swap' = Swap, m_gc.state # "promote",
         m_gc'.state \in {"begin", "copy", "erase", "discard"},
         RightSwap => SwapTag(Swap) \/ m_gc'.state = "discard"
  PROVE  SwapInv'
<1>1. SUFFICES ASSUME RightSwap' PROVE SwapReady'
  BY ReadySwap
<1>2. SwapReady
  BY <1>1, SwapIsReady
<1>3. /\ OneSwapTag'
      /\ \A p : (flash'[p].tag = "swap" <=> SwapTag(p))
      /\ \A p : (flash'[p] = ErasedPage <=> IsErased(p))
  BY <1>2, SameFlash DEF SwapReady, SwapTag, IsErased
<1>4. QED BY <1>1, <1>2, <1>3 DEF SwapReady, SwapTag, IsErased

\* A step of a collection begins where the step before it is done.
LEMMA BeforeGcStep ==
  ASSUME ShapeInv, ResumeInv, RightSwap, NEW states, GcRuns(states),
         m_gc.state # "begin"
  PROVE  StepDone
<1>1. /\ fs = Call(TRUE) /\ m_op_queue # <<>> /\ m_op_queue[1].op = "gc"
      /\ ~m_gc.resume
  BY DEF GcRuns, Runs
<1>2. Len(m_op_queue) >= 1 /\ Len(m_op_queue) \in Nat
  BY <1>1 DEF ShapeInv, TypeInv
<1>3. \E j \in 1..Len(m_op_queue) : m_op_queue[j].op = "gc"
  BY <1>1, <1>2
<1>4. QED BY <1>1, <1>3 DEF ResumeInv

LEMMA SwapGc ==
  ASSUME ShapeInv, FsInv, ResumeInv, SwapInv, RightSwap' => RightSwap,
         GcBegin \/ GcCopied \/ GcErased \/ GcPromoted \/ GcTagged
  PROVE  SwapInv'
<1>1. CASE GcBegin
  <2>1. m_gc.state = "begin"
    BY <1>1 DEF GcBegin, GcRuns
  <2>2. /\ mode = "ready" /\ mode' = mode /\ flash' = flash /\ Swap' = Swap
        /\ m_gc'.state \in {"begin", "copy", "erase", "discard"}
    BY <1>1, GcBeginFacts DEF GcStops, GcMoves, GcGoesOn, Swap
  <2>3. RightSwap => SwapTag(Swap)
    BY <2>1, <2>2 DEF SwapInv
  <2>4. QED BY <2>1, <2>2, <2>3, ReadyMoves
<1>2. CASE GcTagged
  <2>1. m_gc.state = "tag" /\ GcRuns({"tag"})
    BY <1>2 DEF GcTagged, GcRuns
  <2>2. /\ mode = "ready" /\ mode' = mode /\ flash' = flash /\ Swap' = Swap
        /\ m_gc'.state \in {"begin", "copy", "erase", "discard"}
    BY <1>2, GcTaggedFacts DEF GcStops, GcMoves, GcGoesOn, Swap
  <2>3. RightSwap => SwapTag(Swap)
    BY <2>1, BeforeGcStep DEF StepDone
  <2>4. QED BY <2>1, <2>2, <2>3, ReadyMoves
<1>3. CASE GcCopied
  <2>1. m_gc.state = "copy"
    BY <1>3 DEF GcCopied, GcRuns
  <2>2. /\ mode = "ready" /\ mode' = mode /\ flash' = flash /\ Swap' = Swap
        /\ m_gc'.state \in {"begin", "copy", "erase", "discard"}
    BY <1>3, GcCopiedFacts DEF GcMoves, GcGoesOn, Swap
  <2>3. RightSwap => SwapTag(Swap)
    BY <2>1, <2>2 DEF SwapInv
  <2>4. QED BY <2>1, <2>2, <2>3, ReadyMoves
<1>4. CASE GcErased
  <2>1. m_gc.state = "erase" /\ GcRuns({"erase"})
    BY <1>4 DEF GcErased, GcRuns
  <2>2. /\ mode = "ready" /\ mode' = mode /\ flash' = flash
        /\ m_gc'.state = "promote" /\ Swap' = Adr(Cur) /\ Adr(Cur)' = Swap
        /\ Adr(Cur) \in Page
    BY <1>4, <2>1, GcErasedFacts, GcOpFacts DEF GcMoves, Swap, Adr, Cur
  <2>3. SUFFICES ASSUME RightSwap' PROVE SwapReady'
    BY <2>2, ReadySwap
  <2>4. SwapReady /\ IsErased(Adr(Cur))
    BY <2>1, <2>2, <2>3, BeforeGcStep, SwapIsReady DEF StepDone
  <2>5. /\ OneSwapTag'
        /\ \A p : (flash'[p].tag = "swap" <=> SwapTag(p))
        /\ \A p : (flash'[p] = ErasedPage <=> IsErased(p))
    BY <2>2, <2>4, SameFlash DEF SwapReady, SwapTag, IsErased
  <2>6. QED BY <2>1, <2>2, <2>4, <2>5 DEF SwapReady, SwapTag, IsErased
<1>5. CASE GcPromoted
  <2>1. m_gc.state \in {"promote", "discard"} /\ GcRuns({"promote", "discard"})
    BY <1>5 DEF GcPromoted, GcRuns
  <2>2. /\ mode = "ready" /\ mode' = mode /\ flash' = flash
        /\ m_gc'.state = "tag" /\ Swap' = Swap
    BY <1>5, GcPromotedFacts DEF GcMoves, Swap
  <2>3. SUFFICES ASSUME RightSwap' PROVE SwapReady'
    BY <2>2, ReadySwap
  <2>4. SwapReady /\ (m_gc.state = "promote" => flash[Adr(Cur)].tag = "data")
    BY <2>1, <2>2, <2>3, BeforeGcStep, SwapIsReady DEF StepDone
  <2>5. /\ OneSwapTag'
        /\ \A p : (flash'[p].tag = "swap" <=> SwapTag(p))
        /\ \A p : (flash'[p] = ErasedPage <=> IsErased(p))
    BY <2>2, <2>4, SameFlash DEF SwapReady, SwapTag, IsErased
  <2>6. \A p \in Page : SwapTag(p) => p = Swap
    BY <2>1, <2>4 DEF SwapReady, SwapTag
  <2>7. QED BY <2>2, <2>4, <2>5, <2>6 DEF SwapReady, SwapTag, IsErased
<1>6. QED BY <1>1, <1>2, <1>3, <1>4, <1>5

LEMMA SwapGcResume ==
  ASSUME ShapeInv, SwapInv, RightSwap' => RightSwap, GcResume
  PROVE  SwapInv'
<1>1. mode' = mode /\ flash' = flash
  BY DEF GcResume
<1>2. CASE /\ mode = "ready" /\ m_pages' = m_pages /\ m_swap_page'.addr = Swap
           /\ m_gc'.cur = m_gc.cur /\ m_gc'.state = m_gc.state
  BY <1>1, <1>2, ReadyStays DEF Swap, Adr, Cur
<1>3. CASE /\ mode = "ready" /\ m_pages' = m_pages /\ m_swap_page'.addr = Swap
           /\ m_gc.state = "erase" /\ m_gc'.state = "discard"
  BY <1>1, <1>3, ReadyMoves DEF Swap
<1>4. CASE /\ mode = "ready" /\ m_swap_page' = m_swap_page
           /\ m_gc.state = "discard" /\ m_gc'.state = "discard"
  BY <1>1, <1>4, ReadyStays DEF Swap
<1>5. QED BY <1>2, <1>3, <1>4, GcResumeMoves DEF GcMoves

\* What SwapInv says of a step of fds_init.
SwapStep(step, f) ==
  /\ step \in {"erase swap", "promote"} => SwapTag(Swap)
  /\ step = "tag swap" =>
       /\ f = Erase(Swap) => SwapTag(Swap)
       /\ f.do = "tag" => IsErased(Swap) /\ \A p \in Page : SwapTag(p) => p = f.page
       /\ f = Call(TRUE) => IsErased(Swap) /\ NoSwapTag
  /\ step = "tag data" =>
       /\ f = Tag(Swap, "swap") => NoSwapTag
       /\ f # Tag(Swap, "swap") /\ f # Call(FALSE) => SwapTag(Swap)

SwapMounting ==
  /\ OneSwapTag
  /\ Swap \in Page /\ (SwapTag(Swap) \/ IsErased(Swap))
  /\ \A i \in ErasedPages : IsErased(Adr(i))
  /\ SwapStep(Operation1.step, fs)

LEMMA SwapIsMounting ==
  ASSUME SwapInv, RightSwap, mode = "init"
  PROVE  SwapMounting
BY DEF SwapInv, SwapMounting, SwapStep, Mounted

LEMMA MountingSwap ==
  ASSUME mode' = "init", m_gc'.state = "begin", RightSwap' => SwapMounting'
  PROVE  SwapInv'
BY DEF SwapInv, SwapMounting, SwapStep, Mounted

LEMMA SameTags ==
  ASSUME flash' = flash
  PROVE  /\ OneSwapTag' <=> OneSwapTag
         /\ \A p : (flash'[p].tag = "swap" <=> SwapTag(p))
         /\ \A p : (flash'[p] = ErasedPage <=> IsErased(p))
BY DEF SwapTag, IsErased, OneSwapTag

LEMMA InitStepSwap ==
  ASSUME ShapeInv, RightSwap' => RightSwap, SwapInv,
         InitTagSwap \/ InitTagData \/ InitEraseSwap
  PROVE  SwapInv'
<1>1. /\ mode = "init" /\ mode' = "init" /\ m_gc.state = "begin" /\ m_gc' = m_gc
      /\ flash' = flash /\ fs = Call(TRUE) /\ m_op_queue # <<>>
      /\ Len(m_op_queue) = 1 /\ Swap' = Swap
  <2>1. Runs({"init"}) /\ mode' = mode /\ m_gc' = m_gc /\ flash' = flash
    BY DEF InitTagSwap, InitTagData, InitEraseSwap
  <2>2. Swap' = Swap
    BY DEF InitTagSwap, InitTagData, InitEraseSwap, Swap, ShapeInv, TypeInv, SwapType
  <2>3. QED BY <2>1, <2>2, InitMode DEF Runs
<1>2. SUFFICES ASSUME RightSwap' PROVE SwapMounting'
  BY <1>1, MountingSwap
<1>3. SwapMounting
  BY <1>1, <1>2, SwapIsMounting
<1>4. /\ OneSwapTag'
      /\ \A p : (flash'[p].tag = "swap" <=> SwapTag(p))
      /\ \A p : (flash'[p] = ErasedPage <=> IsErased(p))
      /\ OneSwapTag /\ Swap \in Page /\ (SwapTag(Swap) \/ IsErased(Swap))
      /\ \A i \in ErasedPages : IsErased(Adr(i))
  BY <1>1, <1>3, SameTags DEF SwapMounting
<1>5. CASE InitTagSwap
  <2>1. /\ Operation1.step = "tag swap" /\ fs' = Tag(Swap, "swap")
        /\ Next1(Operation("init", "tag data")) /\ m_pages' = m_pages
    BY <1>5 DEF InitTagSwap, Swap
  <2>2. Operation1'.step = "tag data"
    <3>1. fs' \in FlashOpType
      BY <1>4, <2>1, OpTypes
    <3>2. QED BY <1>1, <2>1, <3>1, InitNext DEF Steps
  <2>3. NoSwapTag
    BY <1>1, <1>3, <2>1 DEF SwapMounting, SwapStep
  <2>4. NoSwapTag'
    BY <1>4, <2>3 DEF NoSwapTag, SwapTag
  <2>5. SwapStep("tag data", fs)'
    <3>1. fs' = Tag(Swap, "swap")' /\ NoSwapTag'
      BY <1>1, <2>1, <2>4 DEF Tag
    <3>2. QED BY <3>1, Zenon DEF SwapStep
  <2>6. \A i \in ErasedPages' : IsErased(Adr(i))'
    BY <1>4, <2>1 DEF ErasedPages, Adr, IsErased
  <2>7. (SwapTag(Swap) \/ IsErased(Swap))' /\ Swap' \in Page
    BY <1>1, <1>4 DEF SwapTag, IsErased
  <2>8. QED BY <1>4, <2>2, <2>5, <2>6, <2>7 DEF SwapMounting
<1>6. CASE InitTagData
  <2>1. /\ Operation1.step = "tag data" /\ Operation1' = Operation1
    BY <1>6 DEF InitTagData, Operation1
  <2>2. PICK i \in ErasedPages :
           /\ fs' = Tag(Adr(i), "data")
           /\ \A j \in Index : j # i => m_pages'[j] = m_pages[j]
           /\ m_pages'[i].type = "data"
    BY <1>6, InitTagDataPages
  <2>3. SwapTag(Swap)
    <3>1. fs # Call(FALSE) /\ fs # Tag(Swap, "swap")
      <4>1. Call(TRUE).do # Tag(Swap, "swap").do
        <5>1. Call(TRUE).do = "call" BY FsFacts
        <5>2. Tag(Swap, "swap").do = "tag" BY OpFacts
        <5>3. QED BY <5>1, <5>2
      <4>2. fs # Tag(Swap, "swap")
        BY <1>1, <4>1, Zenon
      <4>3. QED BY <1>1, <4>2, FsFacts
    <3>2. QED BY <1>3, <2>1, <3>1 DEF SwapMounting, SwapStep
  <2>4. SwapTag(Swap)'
    BY <1>1, <1>4, <2>3 DEF SwapTag
  <2>5. SwapStep("tag data", fs)'
    <3>1. fs'.tag # Tag(Swap, "swap")'.tag
      BY <2>2, OpFacts
    <3>2. fs' # Tag(Swap, "swap")'
      BY <3>1, Zenon
    <3>3. QED BY <2>4, <3>2, Zenon DEF SwapStep
  <2>6. \A j \in ErasedPages' : j \in ErasedPages /\ m_pages'[j] = m_pages[j]
    BY <2>2 DEF ErasedPages
  <2>7. \A j \in ErasedPages' : IsErased(Adr(j))'
    BY <1>4, <2>6 DEF Adr, IsErased
  <2>8. (SwapTag(Swap) \/ IsErased(Swap))' /\ Swap' \in Page
    BY <1>1, <1>4, <2>4
  <2>9. Operation1'.step = "tag data"
    BY <2>1
  <2>10. QED BY <1>4, <2>5, <2>7, <2>8, <2>9 DEF SwapMounting
<1>7. CASE InitEraseSwap
  <2>1. /\ Operation1.step = "erase swap" /\ fs' = Erase(Swap)
        /\ Next1(Operation("init", "tag swap")) /\ m_pages' = m_pages
    BY <1>7 DEF InitEraseSwap, Swap
  <2>2. Operation1'.step = "tag swap"
    <3>1. fs' \in FlashOpType
      BY <1>4, <2>1, OpTypes
    <3>2. QED BY <1>1, <2>1, <3>1, InitNext DEF Steps
  <2>3. SwapTag(Swap)
    BY <1>3, <2>1 DEF SwapMounting, SwapStep
  <2>4. SwapTag(Swap)'
    BY <1>1, <1>4, <2>3 DEF SwapTag
  <2>5. SwapStep("tag swap", fs)'
    <3>1. Erase(Swap).do = "erase" /\ Call(TRUE).do = "call"
      BY OpFacts, FsFacts
    <3>2. fs'.do = "erase"
      BY <2>1, <3>1, Zenon
    <3>3. fs'.do # "tag" /\ fs'.do # Call(TRUE).do
      BY <3>1, <3>2
    <3>4. fs' # Call(TRUE)'
      BY <3>3, Zenon DEF Call
    <3>5. QED BY <2>4, <3>3, <3>4, Zenon DEF SwapStep
  <2>6. \A i \in ErasedPages' : IsErased(Adr(i))'
    BY <1>4, <2>1 DEF ErasedPages, Adr, IsErased
  <2>7. (SwapTag(Swap) \/ IsErased(Swap))' /\ Swap' \in Page
    BY <1>1, <1>4, <2>4
  <2>8. QED BY <1>4, <2>2, <2>5, <2>6, <2>7 DEF SwapMounting
<1>8. QED BY <1>5, <1>6, <1>7

LEMMA InitPromoteSwap ==
  ASSUME ShapeInv, RightSwap' => RightSwap, SwapInv, InitPromote
  PROVE  SwapInv'
<1>1. /\ mode = "init" /\ mode' = "init" /\ m_gc.state = "begin" /\ m_gc' = m_gc
      /\ flash' = flash /\ fs = Call(TRUE) /\ m_op_queue # <<>>
      /\ Len(m_op_queue) = 1 /\ Operation1.step = "promote"
      /\ fs' = Tag(Swap, "data") /\ Next1(Operation("init", "tag swap"))
  BY InitMode DEF InitPromote, Runs, Swap
<1>2. SUFFICES ASSUME RightSwap' PROVE SwapMounting'
  BY <1>1, MountingSwap
<1>3. SwapMounting
  BY <1>1, <1>2, SwapIsMounting
<1>4. /\ OneSwapTag'
      /\ \A p : (flash'[p].tag = "swap" <=> SwapTag(p))
      /\ \A p : (flash'[p] = ErasedPage <=> IsErased(p))
      /\ OneSwapTag /\ Swap \in Page
      /\ \A i \in ErasedPages : IsErased(Adr(i))
      /\ SwapTag(Swap)
  BY <1>1, <1>3, SameTags DEF SwapMounting, SwapStep
<1>5. /\ Cur \in Index
      /\ \A i \in Index : i # Cur => m_pages'[i] = m_pages[i]
      /\ m_pages'[Cur].type = "data"
      /\ m_swap_page'.addr = Adr(Cur)
  BY InitPromotePages
<1>6. m_pages[Cur].type = "erased"
  <2>1. CASE m_pages[Cur].type # "erased"
    <3>1. "candidate" \in hit'
      BY <2>1 DEF InitPromote, Cur
    <3>2. QED BY <1>2, <3>1 DEF RightSwap, Unhurt
  <2>2. QED BY <2>1
<1>7. Cur \in ErasedPages
  BY <1>5, <1>6 DEF ErasedPages
<1>8. IsErased(Adr(Cur)) /\ Adr(Cur) \in Page
  BY <1>1, <1>4, <1>5, <1>6, <1>7 DEF ShapeInv, AddrInv, Mounted
<1>9. Swap' = Adr(Cur)
  BY <1>5 DEF Swap
<1>10. IsErased(Swap)'
  BY <1>4, <1>8, <1>9 DEF IsErased
<1>11. Operation1'.step = "tag swap"
  <2>1. fs' \in FlashOpType
    BY <1>1, <1>4, OpTypes
  <2>2. QED BY <1>1, <2>1, InitNext DEF Steps
<1>12. \A j \in ErasedPages' : j \in ErasedPages /\ m_pages'[j] = m_pages[j]
  BY <1>5 DEF ErasedPages
<1>13. \A j \in ErasedPages' : IsErased(Adr(j))'
  BY <1>4, <1>12 DEF Adr, IsErased
<1>14. SwapStep("tag swap", fs)'
  <2>1. Tag(Swap, "data").do = "tag" /\ Tag(Swap, "data").page = Swap
    BY OpFacts
  <2>2. fs'.do = "tag" /\ fs'.page = Swap
    BY <1>1, <2>1, Zenon
  <2>3. \A p : Erase(p).do = "erase"
    BY OpFacts
  <2>4. fs'.do # Erase(Swap').do /\ fs'.do # Call(TRUE).do
    BY <2>2, <2>3, FsFacts
  <2>5. fs' # Erase(Swap)' /\ fs' # Call(TRUE)'
    BY <2>4, Zenon DEF Call, Erase
  <2>6. \A p \in Page : SwapTag(p)' => p = fs'.page
    BY <1>4, <2>2 DEF OneSwapTag, SwapTag
  <2>7. QED BY <1>10, <2>2, <2>5, <2>6, Zenon DEF SwapStep
<1>15. QED BY <1>4, <1>8, <1>9, <1>10, <1>11, <1>13, <1>14 DEF SwapMounting

LEMMA InitDoneSwap ==
  ASSUME ShapeInv, RightSwap' => RightSwap, SwapInv, InitDone
  PROVE  SwapInv'
<1>1. /\ mode = "init" /\ mode' = "ready" /\ m_gc.state = "begin" /\ m_gc' = m_gc
      /\ flash' = flash /\ fs = Call(TRUE) /\ Operation1.step = "tag data"
      /\ Swap' = Swap
  BY InitMode DEF InitDone, Runs, Swap
<1>2. SUFFICES ASSUME RightSwap' PROVE SwapReady'
  BY <1>1, ReadySwap
<1>3. SwapMounting
  BY <1>1, <1>2, SwapIsMounting
<1>4. /\ OneSwapTag'
      /\ \A p : (flash'[p].tag = "swap" <=> SwapTag(p))
      /\ OneSwapTag /\ Swap \in Page
  BY <1>1, <1>3, SameTags DEF SwapMounting
<1>5. SwapTag(Swap)
  <2>1. Call(TRUE).do # Tag(Swap, "swap").do
    <3>1. Call(TRUE).do = "call" BY FsFacts
    <3>2. Tag(Swap, "swap").do = "tag" BY OpFacts
    <3>3. QED BY <3>1, <3>2
  <2>2. fs # Tag(Swap, "swap")
    BY <1>1, <2>1, Zenon
  <2>3. fs # Call(FALSE)
    BY <1>1, FsFacts
  <2>4. QED BY <1>1, <1>3, <2>2, <2>3 DEF SwapMounting, SwapStep
<1>6. QED BY <1>1, <1>4, <1>5 DEF SwapReady, SwapTag, OneSwapTag

LEMMA InitFailsSwap ==
  ASSUME ShapeInv, RightSwap' => RightSwap, SwapInv, InitFails
  PROVE  SwapInv'
<1>1. /\ mode = "init" /\ mode' = "failed" /\ m_gc.state = "begin" /\ m_gc' = m_gc
      /\ flash' = flash /\ Swap' = Swap
  BY InitMode DEF InitFails, Swap
<1>2. SUFFICES ASSUME RightSwap'
               PROVE  OneSwapTag' /\ Swap' \in Page /\ (SwapTag(Swap) \/ IsErased(Swap))'
  BY <1>1 DEF SwapInv, Mounted
<1>3. SwapMounting
  BY <1>1, <1>2, SwapIsMounting
<1>4. QED BY <1>1, <1>3, SameTags DEF SwapMounting, SwapTag, IsErased

LEMMA FdsInitSwap ==
  ASSUME ShapeInv, SwapInv, fds_init
  PROVE  SwapInv'
<1>1. PICK acc, step : InitFinds(acc, step)
  BY FdsInitFacts
<1>3. SUFFICES ASSUME RightSwap' PROVE SwapInv'
  BY DEF SwapInv
<1>3a. ~Unnamed(acc.opts) /\ hit' = hit
  BY <1>1, <1>3 DEF InitFinds, RightSwap, Unhurt
<1>2. flash' = flash /\ hit' = hit /\ mode = "off"
  BY <1>3a DEF fds_init
<1>4. RightSwap
  BY <1>2, <1>3 DEF RightSwap, Unhurt
<1>5. /\ OneSwapTag
      /\ "tag" \notin hit => \E p \in Page : SwapTag(p) \/ IsErased(p)
  BY <1>2, <1>4 DEF SwapInv
<1>6. /\ OneSwapTag'
      /\ \A p : (flash'[p].tag = "swap" <=> SwapTag(p))
      /\ \A p : (flash'[p] = ErasedPage <=> IsErased(p))
  BY <1>2, <1>5, SameTags
<1>7. /\ ScanSwap(NumPages, acc) /\ ScanOpts(NumPages, acc)
      /\ Entries(NumPages, acc.pages) /\ acc \in AccType
      /\ \A p \in Page : p < NumPages
      /\ FirstStepFacts(acc.opts, step)
      /\ Swap' = acc.swap.addr
      /\ m_gc'.state = "begin"
  BY <1>1, <1>3a, Constants DEF InitFinds, StepFacts, ScanInv, ScanEntries, Page, Swap
<1>8. /\ mode' \in {"init", "ready", "dead"}
      /\ mode' = "init" =>
           /\ Operation1'.step = step /\ fs' = Call(TRUE)
           /\ step \in {"promote", "erase swap", "tag data", "tag swap"}
      /\ mode' = "ready" => step = "none"
      /\ mode' = "dead" => step = "dead"
  BY <1>1, <1>7, FdsInitQueue DEF InitQueues, FirstStepFacts
<1>9. CASE mode' = "dead"
  <2>1. \A p \in Page : ~SwapTag(p) /\ ~IsErased(p)
    BY <1>7, <1>8, <1>9 DEF FirstStepFacts, ScanSwap, ScanOpts, SwapSeen
  <2>2. "tag" \in hit'
    BY <1>2, <1>5, <2>1
  <2>3. m_gc'.state = "begin"
    BY <1>7
  <2>4. QED BY <1>6, <1>9, <2>2, <2>3 DEF SwapInv, Mounted
<1>10. ASSUME mode' # "dead" PROVE Swap' \in Page /\ (SwapTag(Swap) \/ IsErased(Swap))'
  <2>1. step # "dead"
    BY <1>1, <1>8, <1>10 DEF InitFinds
  <2>2. acc.swap.addr # NoPage
    BY <1>7, <2>1 DEF FirstStepFacts, ScanOpts, ScanSwap, SwapSeen
  <2>3. Swap' \in Page
    BY <1>7, <2>2 DEF AccType
  <2>4. SwapTag(acc.swap.addr) \/ IsErased(acc.swap.addr)
    BY <1>7, <2>2 DEF ScanSwap
  <2>5. QED BY <1>6, <1>7, <2>3, <2>4 DEF SwapTag, IsErased
<1>11. CASE mode' = "ready"
  <2>1. SwapSeen(acc)
    BY <1>7, <1>8, <1>11 DEF FirstStepFacts, SwapSeen
  <2>2. SwapTag(acc.swap.addr)
    BY <1>7, <2>1 DEF ScanSwap
  <2>3. SwapTag(Swap)'
    BY <1>6, <1>7, <2>2 DEF SwapTag
  <2>4. SwapReady'
    BY <1>6, <1>7, <1>10, <1>11, <2>3 DEF SwapReady, SwapTag, OneSwapTag
  <2>5. QED BY <1>11, <2>4, ReadySwap
<1>12. CASE mode' = "init"
  <2>1. \A i \in ErasedPages' : IsErased(Adr(i))'
    <3>1. TAKE i \in ErasedPages'
    <3>2. i \in Index /\ m_pages'[i].type = "erased"
      BY DEF ErasedPages
    <3>3. i + 1 \in 1..Len(acc.pages) /\ m_pages'[i] = acc.pages[i + 1]
      BY <1>1, <3>2 DEF InitFinds
    <3>4. IsErased(acc.pages[i + 1].addr)
      BY <1>5, <1>7, <3>2, <3>3 DEF Entries
    <3>5. QED BY <1>6, <3>3, <3>4 DEF Adr, IsErased
  <2>2. ASSUME step # "tag swap" PROVE SwapTag(Swap)'
    <3>1. SwapSeen(acc)
      BY <1>7, <1>8, <1>12, <2>2 DEF FirstStepFacts, SwapSeen
    <3>2. SwapTag(acc.swap.addr)
      BY <1>7, <3>1 DEF ScanSwap
    <3>3. QED BY <1>6, <1>7, <3>2 DEF SwapTag
  <2>3. ASSUME step = "tag swap" PROVE IsErased(Swap)' /\ NoSwapTag'
    <3>1. ~SwapSeen(acc) /\ "erased" \in acc.opts
      BY <1>7, <1>8, <2>3 DEF FirstStepFacts, SwapSeen
    <3>2. NoSwapTag'
      BY <1>6, <1>7, <3>1 DEF ScanSwap, NoSwapTag, SwapTag
    <3>3. IsErased(acc.swap.addr)
      BY <1>7, <3>1 DEF ScanSwap, ScanOpts
    <3>4. QED BY <1>6, <1>7, <3>2, <3>3 DEF IsErased
  <2>4. SwapStep(step, fs)'
    <3>1. fs' = Call(TRUE)' /\ Call(TRUE).do = "call"
      BY <1>8, <1>12, FsFacts DEF Call
    <3>2. /\ Erase(Swap').do = "erase" /\ Tag(Swap', "swap").do = "tag"
      BY OpFacts
    <3>3. fs'.do = "call"
      BY <1>8, <1>12, FsFacts
    <3>4. fs' # Erase(Swap)' /\ fs' # Tag(Swap, "swap")' /\ fs'.do # "tag"
      <4>1. fs'.do # Erase(Swap').do /\ fs'.do # Tag(Swap', "swap").do
        BY <3>2, <3>3
      <4>2. QED BY <3>3, <4>1, Zenon DEF Erase, Tag
    <3>5. CASE step = "tag swap"
      BY <2>3, <3>1, <3>4, <3>5, Zenon DEF SwapStep
    <3>6. CASE step # "tag swap"
      BY <2>2, <3>1, <3>4, <3>6, Zenon DEF SwapStep
    <3>7. QED BY <3>5, <3>6
  <2>5. Operation1'.step = step
    BY <1>8, <1>12
  <2>6. SwapMounting'
    BY <1>6, <1>10, <1>12, <2>1, <2>4, <2>5 DEF SwapMounting
  <2>7. QED BY <1>7, <1>12, <2>6, MountingSwap
<1>13. QED BY <1>8, <1>9, <1>11, <1>12

LEMMA FlashSwap ==
  ASSUME ShapeInv, FsInv, SwapInv, FlashEnds \/ FlashFails
  PROVE  SwapInv'
<1>1. /\ mode' = mode /\ m_pages' = m_pages /\ m_swap_page' = m_swap_page
      /\ m_gc' = m_gc /\ m_op_queue' = m_op_queue /\ hit' = hit
      /\ fs.do \in FlashOp
  BY DEF FlashEnds, FlashFails, ramVars
<1>2. /\ Operation1' = Operation1 /\ Swap' = Swap /\ Cur' = Cur
      /\ ErasedPages' = ErasedPages /\ \A i : Adr(i)' = m_pages[i].addr
      /\ \A i : Adr(i) = m_pages[i].addr
  BY <1>1 DEF Operation1, Swap, Cur, ErasedPages, Adr
<1>3. fs # NoFs /\ mode \notin {"off", "dead", "failed"}
  <2>1. fs # NoFs
    BY <1>1, FsFacts DEF FlashOp
  <2>2. QED BY <2>1 DEF ShapeInv, QueueInv
<1>4. /\ mode \in {"init", "ready"}
      /\ mode = "init" => Operation1.step \in {"tag swap", "tag data"}
  BY <1>1, <1>3, FsUnderWay DEF ShapeInv, TypeInv
<1>5. SUFFICES ASSUME RightSwap' PROVE SwapInv'
  BY DEF SwapInv
<1>6. RightSwap
  BY <1>1, <1>5 DEF RightSwap, Unhurt
<1>7. mode = "init" => m_gc.state = "begin"
  BY DEF ShapeInv, GcInv
<1>8. CASE FlashEnds
  <2>1. PICK g : g = flash'
    OBVIOUS
  <2>2. g = Done(fs) /\ fs' = Call(TRUE)
    BY <1>8, <2>1 DEF FlashEnds
  <2>3. SwapDone(g)
    BY <1>1, <1>6, <2>2, FlashSwapDone
  <2>4. /\ \A p : SwapTag(p)' <=> SwapAt(g, p)
        /\ \A p : IsErased(p)' <=> g[p] = ErasedPage
    BY <2>1 DEF SwapTag, IsErased, SwapAt
  <2>5. CASE mode = "init"
    <3>1. SwapStep(Operation1.step, fs)'
      <4>1. fs' = Call(TRUE)' /\ Call(TRUE).do = "call"
        BY <2>2, FsFacts DEF Call
      <4>2. Erase(Swap').do = "erase" /\ Tag(Swap', "swap").do = "tag"
        BY OpFacts
      <4>3. fs'.do = "call"
        BY <2>2, FsFacts
      <4>4. fs' # Erase(Swap)' /\ fs' # Tag(Swap, "swap")' /\ fs'.do # "tag"
        <5>1. fs'.do # Erase(Swap').do /\ fs'.do # Tag(Swap', "swap").do
          BY <4>2, <4>3
        <5>2. QED BY <4>3, <5>1, Zenon DEF Erase, Tag
      <4>5. CASE Operation1.step = "tag swap"
        <5>1. IsErased(Swap)' /\ NoSwapTag'
          BY <1>2, <2>3, <2>4, <2>5, <4>5 DEF SwapDone, NoSwapTag
        <5>2. Operation1'.step = "tag swap"
          BY <1>2, <4>5
        <5>3. QED BY <4>1, <4>4, <5>1, <5>2, Zenon DEF SwapStep
      <4>6. CASE Operation1.step = "tag data"
        <5>1. SwapTag(Swap)'
          BY <1>2, <2>3, <2>4, <2>5, <4>6 DEF SwapDone
        <5>2. Operation1'.step = "tag data"
          BY <1>2, <4>6
        <5>3. QED BY <4>1, <4>4, <5>1, <5>2, Zenon DEF SwapStep
      <4>7. QED BY <1>4, <2>5, <4>5, <4>6
    <3>2. OneSwapTag' /\ Swap' \in Page /\ (SwapTag(Swap) \/ IsErased(Swap))'
      BY <1>2, <2>3, <2>4 DEF SwapDone, OneSwapTag
    <3>3. \A i \in ErasedPages' : IsErased(Adr(i))'
      BY <1>2, <2>3, <2>4, <2>5 DEF SwapDone
    <3>4. SwapMounting'
      BY <3>1, <3>2, <3>3 DEF SwapMounting
    <3>5. QED BY <1>1, <1>7, <2>5, <3>4, MountingSwap
  <2>6. CASE mode = "ready"
    <3>1. OneSwapTag' /\ Swap' \in Page /\ (SwapTag(Swap) \/ IsErased(Swap))'
      BY <1>2, <2>3, <2>4 DEF SwapDone, OneSwapTag
    <3>2. Adr(Cur)' = Adr(Cur)
      BY <1>2
    <3>3. SwapReady'
      BY <1>1, <1>2, <2>3, <2>4, <2>6, <3>1, <3>2 DEF SwapDone, OnlySwapAt, SwapReady
    <3>4. QED BY <1>1, <2>6, <3>3, ReadySwap
  <2>7. QED BY <1>4, <2>5, <2>6
<1>9. CASE FlashFails
  <2>1. flash' = flash /\ fs' = Call(FALSE)
    BY <1>9 DEF FlashFails
  <2>2. CASE mode = "init"
    <3>1. SwapMounting
      BY <1>6, <2>2, SwapIsMounting
    <3>2. SwapStep(Operation1.step, fs)'
      <4>1. fs' = Call(FALSE)' /\ Call(FALSE).do = "call" /\ fs' # Call(TRUE)'
        BY <2>1, FsFacts DEF Call
      <4>2. Erase(Swap').do = "erase" /\ Tag(Swap', "swap").do = "tag"
        BY OpFacts
      <4>3. fs'.do = "call"
        BY <2>1, FsFacts
      <4>4. fs' # Erase(Swap)' /\ fs' # Tag(Swap, "swap")' /\ fs'.do # "tag"
        <5>1. fs'.do # Erase(Swap').do /\ fs'.do # Tag(Swap', "swap").do
          BY <4>2, <4>3
        <5>2. QED BY <4>3, <5>1, Zenon DEF Erase, Tag
      <4>5. Operation1'.step \in {"tag swap", "tag data"}
        BY <1>2, <1>4, <2>2
      <4>6. QED BY <4>1, <4>4, <4>5 DEF SwapStep
    <3>3. SwapMounting'
      BY <1>2, <2>1, <3>1, <3>2, SameTags DEF SwapMounting, SwapTag, IsErased
    <3>4. QED BY <1>1, <1>7, <2>2, <3>3, MountingSwap
  <2>3. CASE mode = "ready"
    BY <1>1, <1>2, <1>6, <2>1, <2>3, ReadyStays
  <2>4. QED BY <1>4, <2>2, <2>3
<1>10. QED BY <1>8, <1>9

LEMMA ResetSwap ==
  ASSUME ShapeInv, FsInv, SwapInv, RightSwap' => RightSwap, Reset
  PROVE  SwapInv'
<1>1. mode' = "off" /\ m_gc'.state = "begin" /\ hit \subseteq hit'
  BY DEF Reset, GcIdle
<1>2. SUFFICES ASSUME RightSwap'
               PROVE  OneSwapTag' /\ ("tag" \notin hit' =>
                        \E p \in Page : SwapTag(p)' \/ IsErased(p)')
  BY <1>1 DEF SwapInv, Mounted
<1>3. RightSwap
  BY <1>2
<1>4. /\ OneSwapTag
      /\ "tag" \notin hit => \E p \in Page : SwapTag(p) \/ IsErased(p)
  BY <1>3 DEF SwapInv, Mounted, ShapeInv, TypeInv
<1>5. CASE flash' = flash
  BY <1>1, <1>4, <1>5, SameFlash
<1>6. CASE fs \in FlashOpType /\ flash' = Done(fs)
  <2>1. PICK g : g = flash'
    OBVIOUS
  <2>2. fs.do \in FlashOp
    BY <1>6, FlashOpCases
  <2>3. SwapDone(g)
    BY <1>3, <1>6, <2>1, <2>2, FlashSwapDone
  <2>4. /\ \A p : SwapTag(p)' <=> SwapAt(g, p)
        /\ \A p : IsErased(p)' <=> g[p] = ErasedPage
    BY <2>1 DEF SwapTag, IsErased, SwapAt
  <2>5. QED BY <2>3, <2>4 DEF SwapDone, OneSwapTag
<1>7. CASE fs \in FlashOpType /\ flash' \in PartlyDone(fs)
  <2>1. PICK g : g = flash'
    OBVIOUS
  <2>2. /\ fs.page \in Page /\ fs.do \in FlashOp
        /\ \A p \in Page : p # fs.page => g[p] = flash[p]
        /\ \/ fs.do = "copy" /\ g[fs.page].tag = flash[fs.page].tag
           \/ fs.do = "tag" /\ g[fs.page].tag = "half"
    <3>1. flash \in FlashType /\ g \in PartlyDone(fs)
      BY <1>7, <2>1 DEF ShapeInv, TypeInv
    <3>2. fs.page \in Page /\ fs.do \in FlashOp
      BY <1>7, FlashOpCases
    <3>3. \A p \in Page : p # fs.page => g[p] = flash[p]
      BY <1>7, <3>1, PartlyDoneFacts, Zenon
    <3>4. \/ fs.do = "copy" /\ g[fs.page].tag = flash[fs.page].tag
          \/ fs.do = "tag" /\ g[fs.page].tag = "half"
      BY <1>7, <3>1, PartlyDoneFacts, Zenon
    <3>5. QED BY <3>2, <3>3, <3>4
  <2>3. \A p : SwapTag(p)' <=> g[p].tag = "swap"
    BY <2>1 DEF SwapTag
  <2>4. CASE fs.do = "tag" /\ g[fs.page].tag = "half"
    <3>1. "tag" \in hit'
      BY <2>1, <2>2, <2>4 DEF Reset
    <3>2. \A p \in Page : SwapTag(p)' => SwapTag(p)
      BY <2>2, <2>3, <2>4 DEF SwapTag
    <3>3. OneSwapTag'
      BY <1>4, <3>2 DEF OneSwapTag
    <3>4. QED BY <3>1, <3>3
  <2>5. CASE fs.do = "copy" /\ g[fs.page].tag = flash[fs.page].tag
    <3>1. \A p \in Page : SwapTag(p)' <=> SwapTag(p)
      BY <2>2, <2>3, <2>5 DEF SwapTag
    <3>2. mode = "ready" /\ m_gc.state = "copy" /\ Swap \in Page
      <4>1. mode = "ready" /\ Collecting /\ m_gc.state # "begin" /\ fs = GcOp
        <5>1. \A f : f.do = "copy" => /\ \A p : f # Erase(p)
                                      /\ \A p, tag : f # Tag(p, tag)
          <6>1. SUFFICES ASSUME NEW f, f.do = "copy"
                PROVE  (\A p : f # Erase(p)) /\ \A p, tag : f # Tag(p, tag)
            OBVIOUS
          <6>2. \A p : Erase(p).do # f.do
            BY <6>1, OpFacts
          <6>3. \A p, tag : Tag(p, tag).do # f.do
            BY <6>1, OpFacts
          <6>4. QED BY <6>2, <6>3, Zenon
        <5>2. QED BY <2>2, <2>5, <5>1, FsUnderWay
      <4>2. GcOp.do = "copy"
        BY <2>5, <4>1
      <4>3. QED BY <4>1, <4>2, GcOpFacts, OpFacts
    <3>3. SwapTag(Swap)
      BY <1>3, <3>2 DEF SwapInv
    <3>4. OneSwapTag' /\ SwapTag(Swap)
      BY <1>4, <3>1, <3>3 DEF OneSwapTag
    <3>5. QED BY <3>1, <3>2, <3>4
  <2>6. QED BY <2>2, <2>4, <2>5
<1>8. QED BY <1>5, <1>6, <1>7, ResetFlash

LEMMA ReadyWritesSwap ==
  ASSUME ShapeInv, SwapInv, RightSwap' => RightSwap, mode = "ready", mode' = mode,
         flash' = flash, m_swap_page' = m_swap_page, m_gc'.state = m_gc.state,
         m_gc'.cur = m_gc.cur,
         \A i \in Index : m_pages'[i].addr = m_pages[i].addr
  PROVE  SwapInv'
<1>1. Swap' = Swap
  BY DEF Swap
<1>2. m_gc.state = "promote" => Adr(Cur)' = Adr(Cur)
  BY GcOpFacts DEF Adr, Cur, DataPages
<1>3. QED BY <1>1, <1>2, ReadyStays

LEMMA CallersSwap ==
  ASSUME ShapeInv, SwapInv, RightSwap' => RightSwap, Callers
  PROVE  SwapInv'
<1>1. CASE \E key \in Key : write_enqueue(key)
  <2>1. PICK key \in Key : write_enqueue(key) BY <1>1
  <2>2. mode = "ready" /\ PagesStay
    BY <2>1, WriteEnqueueFacts
  <2>3. QED BY <2>1, <2>2, ReadyWritesSwap DEF write_enqueue, PagesStay, SamePages
<1>2. CASE \E key \in Key : fds_record_open(key)
  <2>1. PICK key \in Key : fds_record_open(key) BY <1>2
  <2>2. mode = "ready" /\ PagesStay
    BY <2>1, OpenFacts
  <2>3. QED BY <2>1, <2>2, ReadyWritesSwap DEF fds_record_open, PagesStay, SamePages
<1>3. CASE fds_gc
  BY <1>3, FdsGcFacts, ReadyWritesSwap DEF fds_gc
<1>4. CASE fds_record_close
  BY <1>4, CloseFacts, ReadyWritesSwap, Zenon DEF fds_record_close, PagesStay, SamePages
<1>5. QED BY <1>1, <1>2, <1>3, <1>4 DEF Callers

LEMMA NextSwap ==
  ASSUME ShapeInv, FsInv, ResumeInv, SwapInv, [Next]_vars
  PROVE  SwapInv'
<1>1. RightSwap' => RightSwap
  BY HitGrows, StillUnhurt DEF RightSwap
<1>2. CASE fds_init
  BY <1>2, FdsInitSwap
<1>3. CASE queue_process
  <2>1. CASE InitTagSwap \/ InitTagData \/ InitEraseSwap
    BY <1>1, <2>1, InitStepSwap
  <2>2. CASE InitPromote
    BY <1>1, <2>2, InitPromoteSwap
  <2>3. CASE InitDone
    BY <1>1, <2>3, InitDoneSwap
  <2>4. CASE InitFails
    BY <1>1, <2>4, InitFailsSwap
  <2>5. CASE WriteBegin \/ WriteFinalize \/ WriteDirty
    <3>1. mode = "ready" /\ \A i \in Index : m_pages'[i].addr = m_pages[i].addr
      BY <2>5, WriteBeginFacts, WriteFinalizeFacts, WriteDirtyFacts
         DEF WriteBegin, WriteFinalize, PagesStay, SamePages
    <3>2. QED BY <1>1, <2>5, <3>1, ReadyWritesSwap DEF WriteBegin, WriteFinalize, WriteDirty
  <2>6. CASE WriteEnds \/ WriteFails
    <3>1. m_op_queue # <<>> /\ Operation1.op \in Writes /\ OffsetsUpdate
      BY <2>6 DEF WriteEnds, WriteFails, Runs, Fails, Operation1, Writes
    <3>2. Writing
      BY <3>1 DEF Writing
    <3>3. mode = "ready" /\ \A i \in Index : m_pages'[i].addr = m_pages[i].addr
      <4>1. m_pages \in [Index -> PageRecord]
        BY DEF ShapeInv, TypeInv
      <4>2. QED BY <3>1, <3>2, <4>1, WritingMode DEF OffsetsUpdate, PageRecord
    <3>4. QED BY <1>1, <2>6, <3>3, ReadyWritesSwap DEF WriteEnds, WriteFails
  <2>7. CASE GcBegin \/ GcCopied \/ GcErased \/ GcPromoted \/ GcTagged
    BY <1>1, <2>7, SwapGc
  <2>8. CASE GcResume
    BY <1>1, <2>8, SwapGcResume
  <2>9. CASE GcFails
    BY <1>1, <2>9, CollectingMode, ReadyWritesSwap DEF GcFails
  <2>10. QED BY <1>3, <2>1, <2>2, <2>3, <2>4, <2>5, <2>6, <2>7, <2>8, <2>9 DEF queue_process
<1>4. CASE Callers
  BY <1>1, <1>4, CallersSwap
<1>5. CASE FlashEnds \/ FlashFails
  BY <1>5, FlashSwap
<1>6. CASE Reset
  BY <1>1, <1>6, ResetSwap
<1>7. CASE UNCHANGED vars
  BY <1>7 DEF vars, ramVars, SwapInv, RightSwap, Unhurt, OneSwapTag, SwapTag, IsErased,
     NoSwapTag, Mounted, Operation1, ErasedPages, Adr, Cur, Swap
<1>8. QED BY <1>2, <1>3, <1>4, <1>5, <1>6, <1>7 DEF Next

LEMMA InitMount ==
  ASSUME Init
  PROVE  FsInv /\ ResumeInv /\ SwapInv
<1>1. /\ mode = "off" /\ m_op_queue = <<>> /\ m_gc.state = "begin"
      /\ flash = [p \in Page |-> ErasedPage]
  BY DEF Init, GcIdle
<1>2. FsInv
  BY <1>1 DEF FsInv, InitFs, WriteFs, GcFs, Writing, Collecting
<1>3. ResumeInv
  BY <1>1 DEF ResumeInv
<1>4. \A p \in Page : IsErased(p) /\ ~SwapTag(p)
  BY <1>1, OpFacts DEF IsErased, SwapTag
<1>5. \E p \in Page : IsErased(p)
  <2>1. 0 \in Page
    BY Constants DEF Page
  <2>2. QED BY <1>4, <2>1
<1>6. SwapInv
  BY <1>1, <1>4, <1>5 DEF SwapInv, OneSwapTag, Mounted
<1>7. QED BY <1>2, <1>3, <1>6

PagesInv == ShapeInv /\ FsInv /\ ResumeInv /\ SwapInv

\* The pages in RAM, the operation under way, the state of a collection, and the
\* tags in the flash go together at every moment.
THEOREM PagesAlwaysHold == Spec => []PagesInv
<1>1. Init => PagesInv
  BY InitShape, InitMount DEF PagesInv
<1>2. PagesInv /\ [Next]_vars => PagesInv'
  BY NextShape, NextFs, NextResume, NextSwap DEF PagesInv
<1>3. QED BY <1>1, <1>2, PTL DEF Spec

(***************************************************************************)
(* AgreeInv: no record is written in a collection, and the tags say what   *)
(* the pages in RAM say.                                                   *)
(***************************************************************************)

\* A record is written in no collection.
WriteCalm ==
  Unhurt({"resume"}) /\ Writing /\ Operation1.step # "begin" => m_gc.state = "begin"

Unmixed == Unhurt({"advance", "candidate", "resume", "open", "unset"})

\* A page that has half a tag is mounted no more.
HalfPage == [ErasedPage EXCEPT !.tag = "half"]
Spoilt(p) == flash[p] = HalfPage

Covers ==
  \A p \in Page : Spoilt(p) \/ p = Swap \/ \E i \in Index : Adr(i) = p

\* A page of m_pages in a flash g: it has the tag, or is the one that is
\* exchanged for the swap page.
DataTags(g) ==
  \A i \in DataPages :
    \/ g[Adr(i)].tag = "data"
    \/ m_gc.state = "erase" /\ i = Cur /\ g[Adr(i)] = ErasedPage /\ m_pages[i].open = 0
    \/ m_gc.state = "promote" /\ i = Cur

\* Every page is clean or has half a tag; what is mounted is clean.
PagesClean == \A p \in Page : Clean(p) \/ (Spoilt(p) /\ "tag" \in hit)
EntriesClean ==
  \A i \in Index : IF m_pages[i].type = "undefined" THEN "tag" \in hit
                 ELSE Clean(Adr(i))

\* Every page is clean but for those with half a tag, and what is mounted are all
\* of them: data pages, the swap page, and until they get the tag, erased pages.
TagInv ==
  Unmixed =>
    /\ PagesClean
    /\ Mounted => Covers /\ EntriesClean
    /\ mode = "init" /\ fs # Call(FALSE) =>
         \A i \in DataPages : flash[Adr(i)].tag = "data" \/ fs = Tag(Adr(i), "data")
    /\ mode = "ready" =>
         /\ \A i \in Index : m_pages[i].type # "erased"
         /\ DataTags(flash)
         /\ m_gc.state = "erase" /\ fs = Erase(Adr(Cur)) => m_pages[Cur].open = 0

AgreeInv == WriteCalm /\ TagInv

CleanIn(g, p) == g[p].tag \in {"data", "swap"} \/ g[p] = ErasedPage

LEMMA UnmixedFacts ==
  Unmixed => RightSwap /\ Unhurt({"resume"}) /\ "open" \notin hit
BY DEF Unmixed, RightSwap, Unhurt

\* A page that an operation on the flash can be for.
Target(p) == p = Swap \/ \E i \in Index : Adr(i) = p

\* What the flash operation under way leaves.
AgreeDone(g) ==
  /\ \A p \in Page : CleanIn(g, p) \/ (g[p] = flash[p] /\ Spoilt(p) /\ "tag" \in hit)
  /\ \A p \in Page : Clean(p) => CleanIn(g, p)
  /\ \A p \in Page : Spoilt(p) => g[p] = flash[p] \/ Target(p)
  /\ mode = "init" => \A i \in DataPages : g[Adr(i)].tag = "data"
  /\ mode = "ready" => DataTags(g)

LEMMA WrittenPage ==
  ASSUME ShapeInv, FsInv, SwapInv, AgreeInv, Unmixed, fs.do \in FlashOp,
         fs.do \notin {"erase", "tag"}
  PROVE  flash[fs.page].tag \in {"data", "swap"} /\ mode = "ready"
<1>1. /\ \A p : fs # Erase(p)
      /\ \A p, tag : fs # Tag(p, tag)
  <2>1. \A p : Erase(p).do # fs.do
    BY OpFacts
  <2>2. \A p, tag : Tag(p, tag).do # fs.do
    BY OpFacts
  <2>3. QED BY <2>1, <2>2, Zenon
<1>2. CASE /\ mode = "ready" /\ Writing /\ Operation1.step # "begin"
           /\ \E i \in DataPages : fs.page = Adr(i)
  <2>1. m_gc.state = "begin"
    BY <1>2, UnmixedFacts DEF AgreeInv, WriteCalm
  <2>2. DataTags(flash)
    BY <1>2 DEF AgreeInv, TagInv
  <2>3. \A i \in DataPages : flash[Adr(i)].tag = "data"
    BY <2>1, <2>2 DEF DataTags, DataPages
  <2>4. QED BY <1>2, <2>3
<1>3. CASE mode = "ready" /\ Collecting /\ m_gc.state # "begin" /\ fs = GcOp
  <2>1. m_gc.state = "copy" /\ fs.page = Swap
    BY <1>1, <1>3, GcOpFacts
  <2>2. SwapTag(Swap)
    BY <1>3, <2>1, UnmixedFacts DEF SwapInv
  <2>3. QED BY <1>3, <2>1, <2>2 DEF SwapTag
<1>4. QED BY <1>1, <1>2, <1>3, FsUnderWay

LEMMA TargetMounted ==
  ASSUME ShapeInv, FsInv, fs.do \in FlashOp
  PROVE  Target(fs.page)
<1>1. \A i \in DataPages : i \in Index
  BY DEF DataPages
<1>2. CASE fs = Erase(Swap) \/ fs = Tag(Swap, "swap")
  <2>1. Erase(Swap).page = Swap /\ Tag(Swap, "swap").page = Swap
    BY OpFacts
  <2>2. fs.page = Swap
    BY <1>2, <2>1, Zenon
  <2>3. QED BY <2>2 DEF Target
<1>3. CASE \E i \in DataPages : fs = Tag(Adr(i), "data") \/ fs = Erase(Adr(i))
  <2>1. PICK i \in DataPages : fs = Tag(Adr(i), "data") \/ fs = Erase(Adr(i))
    BY <1>3
  <2>2. Tag(Adr(i), "data").page = Adr(i) /\ Erase(Adr(i)).page = Adr(i)
    BY OpFacts
  <2>3. fs.page = Adr(i)
    BY <2>1, <2>2, Zenon
  <2>4. QED BY <1>1, <2>3 DEF Target
<1>4. CASE \E i \in DataPages : fs.page = Adr(i)
  BY <1>1, <1>4 DEF Target
<1>5. CASE mode = "ready" /\ Collecting /\ m_gc.state # "begin" /\ fs = GcOp
  <2>1. m_gc.state = "copy" => fs.page = Swap
    BY <1>5, GcOpFacts
  <2>2. QED BY <1>2, <1>3, <1>5, <2>1, GcOpFacts DEF Target
<1>6. QED BY <1>2, <1>3, <1>4, <1>5, FsUnderWay

LEMMA FlashAgreeDone ==
  ASSUME ShapeInv, FsInv, SwapInv, AgreeInv, Unmixed, fs.do \in FlashOp,
         NEW g, g = Done(fs)
  PROVE  AgreeDone(g)
<1>1. /\ fs.page \in Page
      /\ \A p \in Page : p # fs.page => g[p] = flash[p]
      /\ fs.do = "erase" => g[fs.page] = ErasedPage
      /\ fs.do = "tag" =>
           g[fs.page].tag = IF flash[fs.page].tag = "data" THEN "data" ELSE fs.tag
      /\ fs.do \notin {"erase", "tag"} => g[fs.page].tag = flash[fs.page].tag
  BY FsUnderWay, DoneTags DEF ShapeInv, TypeInv
<1>2. fs \in FlashOpType /\ (fs.do = "tag" => fs.tag \in {"swap", "data"})
  BY FsUnderWay, FlashOpCases
<1>3. \A p \in Page : CleanIn(flash, p) \/ (Spoilt(p) /\ "tag" \in hit)
  BY DEF AgreeInv, TagInv, PagesClean, Clean, CleanIn, IsErased
<1>4. CleanIn(g, fs.page)
  BY <1>1, <1>2, WrittenPage DEF CleanIn
<1>5. /\ \A p \in Page : CleanIn(g, p) \/ (g[p] = flash[p] /\ Spoilt(p) /\ "tag" \in hit)
      /\ \A p \in Page : Clean(p) => CleanIn(g, p)
      /\ \A p \in Page : Spoilt(p) => g[p] = flash[p] \/ Target(p)
  <2>1. \A p \in Page : CleanIn(flash, p) => CleanIn(g, p)
    BY <1>1, <1>4 DEF CleanIn
  <2>2. \A p \in Page : Clean(p) => CleanIn(flash, p)
    BY DEF Clean, CleanIn, IsErased
  <2>3. QED BY <1>1, <1>3, <1>4, <2>1, <2>2, TargetMounted
<1>6. ASSUME mode = "init", NEW i \in DataPages PROVE g[Adr(i)].tag = "data"
  <2>1. Adr(i) \in Page /\ Adr(i) # Swap
    <3>1. i \in Index /\ m_pages[i].type = "data"
      BY DEF DataPages
    <3>2. QED BY <1>6, <3>1, Constants DEF ShapeInv, AddrInv, Mounted
  <2>2. fs # Call(FALSE)
    BY <1>2, FsFacts
  <2>3. flash[Adr(i)].tag = "data" \/ fs = Tag(Adr(i), "data")
    BY <1>6, <2>2 DEF AgreeInv, TagInv
  <2>4. CASE Adr(i) # fs.page
    <3>1. fs # Tag(Adr(i), "data")
      <4>1. fs.page # Tag(Adr(i), "data").page
        BY <2>4, OpFacts
      <4>2. QED BY <4>1, Zenon
    <3>2. QED BY <1>1, <2>1, <2>3, <2>4, <3>1
  <2>5. CASE Adr(i) = fs.page
    <3>1. fs.do # "erase"
      <4>1. ASSUME fs.do = "erase" PROVE fs.page = Swap
        <5>1. \A p, tag : fs # Tag(p, tag)
          <6>1. \A p, tag : fs.do # Tag(p, tag).do
            BY <4>1, OpFacts
          <6>2. QED BY <6>1, Zenon
        <5>2. fs = Erase(Swap)
          BY <1>6, <5>1, FsUnderWay
        <5>3. Erase(Swap).page = Swap
          BY OpFacts
        <5>4. QED BY <5>2, <5>3, Zenon
      <4>2. QED BY <2>1, <2>5, <4>1
    <3>2. fs.do = "tag"
      BY <1>2, <1>6, <3>1, WrittenPage
    <3>3. fs = Tag(Adr(i), "data") => fs.tag = "data"
      <4>1. Tag(Adr(i), "data").tag = "data"
        BY OpFacts
      <4>2. QED BY <4>1, Zenon
    <3>4. QED BY <1>1, <2>3, <2>5, <3>2, <3>3
  <2>6. QED BY <2>4, <2>5
<1>7. ASSUME mode = "ready" PROVE DataTags(g)
  <2>1. DataTags(flash)
    BY <1>7 DEF AgreeInv, TagInv
  <2>2. \A i \in DataPages : i \in Index /\ Adr(i) \in Page /\ Adr(i) # Swap
    <3>1. \A i \in DataPages : i \in Index /\ m_pages[i].type = "data"
      BY DEF DataPages
    <3>2. QED BY <1>7, <3>1, Constants DEF ShapeInv, AddrInv, Mounted
  <2>3. \A i, j \in DataPages : Adr(i) = Adr(j) => i = j
    BY <1>7, <2>2, Constants DEF ShapeInv, AddrInv, Mounted, Page, NoPage
  <2>4. CASE fs.page = Swap
    <3>1. \A i \in DataPages : g[Adr(i)] = flash[Adr(i)]
      BY <1>1, <2>2, <2>4
    <3>2. QED BY <2>1, <3>1 DEF DataTags
  <2>5. CASE fs.do \notin {"erase", "tag"} /\ fs.page # Swap
    <3>1. m_gc.state = "begin"
      <4>1. CASE Collecting /\ m_gc.state # "begin" /\ fs = GcOp
        <5>1. m_gc.state # "copy"
          BY <2>5, <4>1, GcOpFacts
        <5>2. \/ fs = Erase(Adr(Cur)) \/ fs = Erase(Swap)
              \/ fs = Tag(Adr(Cur), "data") \/ fs = Tag(Swap, "swap")
          BY <4>1, <5>1, GcOpFacts
        <5>3. /\ \A p : Erase(p).do # fs.do
              /\ \A p, tag : Tag(p, tag).do # fs.do
          BY <2>5, OpFacts
        <5>4. QED BY <5>2, <5>3, Zenon
      <4>2. CASE Writing /\ Operation1.step # "begin"
        BY <4>2, UnmixedFacts DEF AgreeInv, WriteCalm
      <4>3. QED BY <1>7, <4>1, <4>2, FsUnderWay
    <3>2. \A i \in DataPages : g[Adr(i)].tag = flash[Adr(i)].tag
      BY <1>1, <2>2, <2>5
    <3>3. QED BY <2>1, <3>1, <3>2 DEF DataTags
  <2>6. CASE fs.do \in {"erase", "tag"} /\ fs.page # Swap
    <3>1. m_gc.state # "begin" /\ fs = GcOp
      BY <1>7, <2>6, FsUnderWay
    <3>2. m_gc.state \notin {"copy", "discard", "tag"}
      <4>1. m_gc.state # "copy"
        BY <2>6, <3>1, GcOpFacts
      <4>2. Erase(Swap).page = Swap /\ Tag(Swap, "swap").page = Swap
        BY OpFacts
      <4>3. fs # Erase(Swap) /\ fs # Tag(Swap, "swap")
        BY <2>6, <4>2, Zenon
      <4>4. QED BY <3>1, <4>1, <4>3, GcOpFacts
    <3>3. Cur \in DataPages
      BY <3>1, GcOpFacts
    <3>4. CASE m_gc.state = "erase"
      <4>1. fs = Erase(Adr(Cur))
        BY <3>1, <3>4, GcOpFacts
      <4>2. fs.do = "erase" /\ fs.page = Adr(Cur)
        <5>1. Erase(Adr(Cur)).do = "erase" /\ Erase(Adr(Cur)).page = Adr(Cur)
          BY OpFacts
        <5>2. QED BY <4>1, <5>1, Zenon
      <4>3. m_pages[Cur].open = 0
        BY <1>7, <3>4, <4>1 DEF AgreeInv, TagInv
      <4>4. \A i \in DataPages : i # Cur => g[Adr(i)] = flash[Adr(i)]
        BY <1>1, <2>2, <2>3, <3>3, <4>2
      <4>5. g[Adr(Cur)] = ErasedPage
        BY <1>1, <4>2
      <4>6. QED BY <2>1, <3>4, <4>3, <4>4, <4>5 DEF DataTags
    <3>5. CASE m_gc.state = "promote"
      <4>1. fs = Tag(Adr(Cur), "data")
        BY <3>1, <3>5, GcOpFacts
      <4>2. fs.page = Adr(Cur)
        <5>1. Tag(Adr(Cur), "data").page = Adr(Cur)
          BY OpFacts
        <5>2. QED BY <4>1, <5>1, Zenon
      <4>3. \A i \in DataPages : i # Cur => g[Adr(i)] = flash[Adr(i)]
        BY <1>1, <2>2, <2>3, <3>3, <4>2
      <4>4. QED BY <2>1, <3>5, <4>3 DEF DataTags
    <3>6. QED BY <3>1, <3>2, <3>4, <3>5, GcOpFacts
  <2>7. QED BY <2>4, <2>5, <2>6
<1>8. QED BY <1>5, <1>6, <1>7 DEF AgreeDone

LEMMA PopCalm ==
  ASSUME ShapeInv, mode = "ready", m_op_queue # <<>>, Pop
  PROVE  Writing' => Operation1'.step = "begin"
<1>1. SUFFICES ASSUME Writing' PROVE Operation1'.step = "begin"
  OBVIOUS
<1>2. m_op_queue' # <<>> /\ Operation1'.op \in Writes
  BY <1>1 DEF Writing
<1>3. m_op_queue' \in Seq(OpType) /\ Len(m_op_queue') = Len(m_op_queue) - 1
      /\ Len(m_op_queue) \in Nat
  BY PopFacts DEF Pop, ShapeInv, TypeInv
<1>4. Len(m_op_queue') >= 1 /\ Operation1' = m_op_queue'[1]
  BY <1>2, <1>3 DEF Operation1
<1>5. Operation1' = m_op_queue[2] /\ 2 \in 1..Len(m_op_queue)
  BY <1>3, <1>4, PopFacts
<1>6. OpFits(m_op_queue[2], 2 = 1)
  BY <1>5 DEF ShapeInv, QueueInv
<1>7. QED BY <1>2, <1>5, <1>6 DEF OpFits

LEMMA NextCalm ==
  ASSUME ShapeInv, ShapeInv', WriteCalm, [Next]_vars
  PROVE  WriteCalm'
<1>1. SUFFICES ASSUME Unhurt({"resume"})', Writing', Operation1'.step # "begin"
               PROVE  m_gc'.state = "begin"
  BY DEF WriteCalm
<1>2. Unhurt({"resume"})
  BY <1>1, HitGrows, StillUnhurt
<1>3. mode' = "ready"
  BY <1>1 DEF ShapeInv, TypeInv, QueueInv, Writing, Writes
<1>4. ASSUME Writing, Operation1.step # "begin", m_gc' = m_gc
      PROVE  m_gc'.state = "begin"
  BY <1>2, <1>4 DEF WriteCalm
<1>5. ASSUME mode = "ready", m_op_queue # <<>>, Pop PROVE FALSE
  BY <1>1, <1>5, PopCalm
<1>6. CASE fds_init
  <2>1. PICK acc, step : InitFinds(acc, step)
    BY <1>6, FdsInitFacts
  <2>2. m_op_queue' = <<>>
    BY <1>3, <2>1, FdsInitQueue DEF InitQueues
  <2>3. QED BY <1>1, <2>2 DEF Writing
<1>7. CASE queue_process
  <2>1. CASE InitTagSwap \/ InitTagData \/ InitEraseSwap \/ InitPromote \/ InitFails
    <3>1. mode' # "ready"
      BY <2>1, InitMode DEF InitTagSwap, InitTagData, InitEraseSwap, InitPromote, InitFails
    <3>2. QED BY <1>3, <3>1
  <2>2. CASE InitDone
    <3>1. m_op_queue # <<>> /\ Len(m_op_queue) = 1 /\ Pop
      BY <2>2, InitMode DEF InitDone
    <3>2. m_op_queue' = <<>>
      BY <3>1 DEF Pop, ShapeInv, TypeInv
    <3>3. QED BY <1>1, <3>2 DEF Writing
  <2>3. CASE WriteBegin
    <3>1. m_gc' = m_gc /\ hit' = IF m_gc.state = "begin" THEN hit ELSE hit \union {"resume"}
      BY <2>3 DEF WriteBegin
    <3>2. QED BY <1>1, <3>1 DEF Unhurt
  <2>4. CASE WriteFinalize \/ WriteDirty
    <3>1. Writing /\ Operation1.step # "begin" /\ m_gc' = m_gc
      BY <2>4, WriteFinalizeFacts, WriteDirtyFacts DEF WriteFinalize, WriteDirty
    <3>2. QED BY <1>4, <3>1
  <2>5. CASE WriteEnds \/ WriteFails
    <3>1. Writing /\ Pop
      BY <2>5 DEF WriteEnds, WriteFails, Runs, Fails, Operation1, Writes, Writing
    <3>2. QED BY <1>5, <3>1, WritingMode
  <2>6. CASE GcStops
    BY <1>5, <2>6 DEF GcStops
  <2>7. CASE GcMoves
    <3>1. Operation1'.op = "gc"
      BY <2>7 DEF GcMoves, Operation1
    <3>2. QED BY <1>1, <3>1 DEF Writing, Writes
  <2>8. CASE GcBegin \/ GcCopied \/ GcErased \/ GcPromoted \/ GcTagged
    BY <2>6, <2>7, <2>8, GcBeginFacts, GcTaggedFacts, GcCopiedFacts, GcErasedFacts,
       GcPromotedFacts
  <2>9. CASE GcResume
    <3>1. CASE mode = "ready" /\ m_op_queue # <<>> /\ Pop
      BY <1>5, <3>1
    <3>2. QED BY <2>7, <2>9, <3>1, GcResumeMoves
  <2>10. CASE GcFails
    BY <1>5, <2>10, CollectingMode DEF GcFails
  <2>11. QED BY <1>7, <2>1, <2>2, <2>3, <2>4, <2>5, <2>8, <2>9, <2>10 DEF queue_process
<1>8. ASSUME NEW op, Enqueued(op), op.op = "gc" \/ op.step = "begin",
             m_gc'.state = m_gc.state
      PROVE  m_gc'.state = "begin"
  <2>1. CASE m_op_queue = <<>>
    BY <1>1, <1>8, <2>1 DEF Enqueued, Writing, Writes
  <2>2. CASE m_op_queue # <<>>
    BY <1>1, <1>2, <1>8, <2>2 DEF Enqueued, Writing, WriteCalm
  <2>3. QED BY <2>1, <2>2
<1>9. CASE Callers
  <2>1. CASE \E key \in Key : write_enqueue(key)
    <3>1. PICK key \in Key : write_enqueue(key) BY <2>1
    <3>2. \E op \in OpType : Enqueued(op) /\ op.step = "begin"
      BY <3>1, WriteEnqueueFacts
    <3>3. m_gc' = m_gc
      BY <3>1 DEF write_enqueue
    <3>4. QED BY <1>8, <3>2, <3>3
  <2>2. CASE (\E key \in Key : fds_record_open(key)) \/ fds_record_close
    <3>1. m_gc' = m_gc /\ m_op_queue' = m_op_queue
      BY <2>2, Zenon DEF fds_record_open, fds_record_close
    <3>2. QED BY <1>1, <1>4, <3>1 DEF Writing, Operation1
  <2>3. CASE fds_gc
    BY <1>8, <2>3, FdsGcFacts
  <2>4. QED BY <1>9, <2>1, <2>2, <2>3 DEF Callers
<1>10. CASE FlashEnds \/ FlashFails \/ UNCHANGED vars
  <2>1. m_gc' = m_gc /\ m_op_queue' = m_op_queue
    BY <1>10 DEF FlashEnds, FlashFails, vars, ramVars
  <2>2. QED BY <1>1, <1>4, <2>1 DEF Writing, Operation1
<1>11. CASE Reset
  BY <1>3, <1>11 DEF Reset
<1>12. QED BY <1>6, <1>7, <1>9, <1>10, <1>11 DEF Next

\* What TagInv says in mode "ready".
TagReady ==
  /\ PagesClean /\ Covers /\ EntriesClean
  /\ \A i \in Index : m_pages[i].type # "erased"
  /\ DataTags(flash)
  /\ m_gc.state = "erase" /\ fs = Erase(Adr(Cur)) => m_pages[Cur].open = 0

LEMMA TagIsReady ==
  ASSUME TagInv, Unmixed, mode = "ready"
  PROVE  TagReady
BY DEF TagInv, TagReady, Mounted

LEMMA ReadyTag ==
  ASSUME mode' = "ready", Unmixed' => TagReady'
  PROVE  TagInv'
BY DEF TagInv, TagReady, Mounted

LEMMA CleanStays ==
  ASSUME flash' = flash, hit \subseteq hit'
  PROVE  /\ PagesClean => PagesClean'
         /\ \A p : Clean(p)' <=> Clean(p)
BY DEF PagesClean, Clean, Spoilt, IsErased

\* m_pages with the same addresses and types.
LEMMA EntriesStay ==
  ASSUME flash' = flash, hit \subseteq hit', SamePages, EntriesClean
  PROVE  EntriesClean'
<1>1. \A i \in Index : Adr(i)' = Adr(i) /\ m_pages'[i].type = m_pages[i].type
  BY DEF SamePages, Adr
<1>2. QED BY <1>1 DEF EntriesClean, Clean, IsErased

LEMMA CoversStay ==
  ASSUME flash' = flash, SamePages, m_swap_page'.addr = Swap, Covers
  PROVE  Covers'
BY DEF Covers, Spoilt, SamePages, Adr, Swap

\* A step that goes on with the same page, or with none.
LEMMA TagStays ==
  ASSUME ShapeInv, TagInv, Unmixed' => Unmixed, hit \subseteq hit', mode = "ready", mode' = mode,
         flash' = flash, SamePages, m_swap_page'.addr = Swap,
         m_gc'.state = m_gc.state, m_gc'.cur = m_gc.cur,
         fs' = fs \/ fs'.do # "erase",
         Unmixed' /\ m_gc.state = "erase" /\ m_pages[Cur].open = 0
           /\ (flash[Adr(Cur)] = ErasedPage \/ fs = Erase(Adr(Cur)))
           => m_pages'[Cur].open = 0
  PROVE  TagInv'
<1>1. SUFFICES ASSUME Unmixed' PROVE TagReady'
  BY ReadyTag
<1>2. TagReady
  BY <1>1, TagIsReady
<1>3. Cur' = Cur /\ DataPages' = DataPages
      /\ \A i \in Index : Adr(i)' = Adr(i) /\ m_pages'[i].type = m_pages[i].type
  BY SamePagesFacts DEF SamePages, Cur, Adr
<1>4. DataTags(flash)'
  <2>1. \A i \in DataPages : i \in Index /\ Adr(i)' = Adr(i)
    BY <1>3 DEF DataPages
  <2>2. DataTags(flash)
    BY <1>2 DEF TagReady
  <2>3. SUFFICES ASSUME NEW i \in DataPages
        PROVE  \/ flash[Adr(i)].tag = "data"
               \/ /\ m_gc'.state = "erase" /\ i = Cur' /\ flash[Adr(i)] = ErasedPage
                  /\ m_pages'[i].open = 0
               \/ m_gc'.state = "promote" /\ i = Cur'
    BY <1>3, <2>1 DEF DataTags
  <2>4. \/ flash[Adr(i)].tag = "data"
        \/ /\ m_gc.state = "erase" /\ i = Cur /\ flash[Adr(i)] = ErasedPage
           /\ m_pages[i].open = 0
        \/ m_gc.state = "promote" /\ i = Cur
    BY <2>2 DEF DataTags
  <2>5. QED BY <1>1, <1>3, <2>4
<1>5. ASSUME m_gc'.state = "erase", fs' = Erase(Adr(Cur))' PROVE m_pages'[Cur'].open = 0
  <2>1. Cur \in Index
    BY <1>5 DEF ShapeInv, GcInv, DataPages
  <2>2. Adr(Cur)' = Adr(Cur)
    BY <1>3, <2>1 DEF Adr
  <2>3. Erase(Adr(Cur))' = Erase(Adr(Cur))
    BY <2>2 DEF Erase
  <2>4. fs'.do = "erase"
    BY <1>5, <2>3, OpFacts
  <2>5. fs = Erase(Adr(Cur))
    BY <1>5, <2>3, <2>4
  <2>6. QED BY <1>1, <1>2, <1>3, <1>5, <2>5 DEF TagReady
<1>6. PagesClean' /\ EntriesClean' /\ Covers'
  BY <1>2, CleanStays, EntriesStay, CoversStay DEF TagReady
<1>7. QED BY <1>2, <1>3, <1>4, <1>5, <1>6 DEF TagReady

\* A step of a collection that leaves m_pages as they are.
LEMMA TagGcMoves ==
  ASSUME ShapeInv, TagInv, Unmixed' => Unmixed, hit \subseteq hit', mode = "ready", mode' = mode,
         flash' = flash, m_pages' = m_pages, m_swap_page'.addr = Swap,
         Unmixed => \A i \in DataPages : flash[Adr(i)].tag = "data",
         m_gc'.state = "erase" => m_pages[m_gc'.cur].open = 0
  PROVE  TagInv'
<1>1. SUFFICES ASSUME Unmixed' PROVE TagReady'
  BY ReadyTag
<1>2. TagReady
  BY <1>1, TagIsReady
<1>3. \A i : Adr(i)' = m_pages[i].addr /\ Adr(i) = m_pages[i].addr
  BY DEF Adr
<1>4. DataTags(flash)'
  <2>1. DataPages' = DataPages
    BY DEF DataPages
  <2>2. QED BY <1>1, <1>3, <2>1 DEF DataTags
<1>5. SamePages
  BY DEF SamePages, ShapeInv, TypeInv
<1>6. PagesClean' /\ EntriesClean' /\ Covers'
  BY <1>2, <1>5, CleanStays, EntriesStay, CoversStay DEF TagReady
<1>7. m_gc'.state = "erase" => m_pages'[Cur'].open = 0
  BY DEF Cur
<1>8. QED BY <1>2, <1>4, <1>6, <1>7 DEF TagReady

LEMMA TagGc ==
  ASSUME ShapeInv, ResumeInv, SwapInv, TagInv, Unmixed' => Unmixed, hit \subseteq hit',
         GcBegin \/ GcCopied \/ GcErased \/ GcPromoted \/ GcTagged
  PROVE  TagInv'
<1>1. ASSUME m_gc.state \notin {"erase", "promote"}, mode = "ready", Unmixed
      PROVE  \A i \in DataPages : flash[Adr(i)].tag = "data"
  BY <1>1, TagIsReady DEF TagReady, DataTags
<1>2. CASE GcBegin \/ GcCopied \/ GcTagged
  <2>1. m_gc.state \notin {"erase", "promote"}
    BY <1>2 DEF GcBegin, GcCopied, GcTagged, GcRuns
  <2>2. CASE GcStops
    <3>1. m_swap_page'.addr = Swap /\ m_gc'.state # "erase"
      BY <2>2 DEF GcStops, Swap
    <3>2. QED BY <1>1, <2>1, <2>2, <3>1, TagGcMoves DEF GcStops
  <2>3. CASE GcMoves /\ \E from : GcGoesOn(from)
    BY <1>1, <2>1, <2>3, TagGcMoves DEF GcMoves, GcGoesOn
  <2>4. QED BY <1>2, <2>2, <2>3, GcBeginFacts, GcCopiedFacts, GcTaggedFacts
<1>3. CASE GcPromoted
  <2>1. m_gc.state \in {"promote", "discard"} /\ GcRuns({"promote", "discard"})
    BY <1>3 DEF GcPromoted, GcRuns
  <2>2. /\ mode = "ready" /\ mode' = mode /\ flash' = flash /\ m_pages' = m_pages
        /\ m_gc'.state = "tag" /\ m_swap_page'.addr = Swap
    BY <1>3, GcPromotedFacts DEF GcMoves, Swap
  <2>3. ASSUME Unmixed PROVE \A i \in DataPages : flash[Adr(i)].tag = "data"
    <3>1. DataTags(flash)
      BY <2>2, <2>3, TagIsReady DEF TagReady
    <3>2. m_gc.state = "promote" => flash[Adr(Cur)].tag = "data"
      BY <2>1, <2>3, BeforeGcStep, UnmixedFacts DEF StepDone
    <3>3. QED BY <2>1, <3>1, <3>2 DEF DataTags
  <2>4. QED BY <2>2, <2>3, TagGcMoves
<1>4. CASE GcErased
  <2>1. /\ mode = "ready" /\ mode' = mode /\ flash' = flash
        /\ m_gc'.state = "promote" /\ m_gc.state = "erase"
        /\ m_swap_page'.addr = Adr(Cur) /\ Cur' = Cur /\ Cur \in DataPages
        /\ m_pages'[Cur].addr = Swap
        /\ \A i \in Index : i # Cur => m_pages'[i] = m_pages[i]
    BY <1>4, GcErasedFacts DEF GcMoves
  <2>2. SUFFICES ASSUME Unmixed' PROVE TagReady'
    BY <2>1, ReadyTag
  <2>3. TagReady
    BY <2>1, <2>2, TagIsReady
  <2>4. m_pages'[Cur].type = m_pages[Cur].type /\ Cur \in Index
    BY <1>4, <2>1, GcErasedPages DEF DataPages
  <2>5. \A i \in Index : m_pages'[i].type = m_pages[i].type
    BY <2>1, <2>4
  <2>6. Covers'
    BY <2>1, <2>3, <2>4 DEF TagReady, Covers, Spoilt, Swap, Adr
  <2>7. DataTags(flash)'
    <3>1. \A i \in DataPages' : i \in Index /\ i \in DataPages
      BY <2>5 DEF DataPages
    <3>2. \A i \in Index : i # Cur => Adr(i)' = Adr(i)
      BY <2>1 DEF Adr
    <3>3. \A i \in DataPages' : flash[Adr(i)'].tag = "data" \/ i = Cur
      BY <2>1, <2>3, <3>1, <3>2 DEF TagReady, DataTags
    <3>4. QED BY <2>1, <3>3 DEF DataTags
  <2>8. PagesClean'
    BY <2>1, <2>3, CleanStays DEF TagReady
  <2>9. EntriesClean'
    <3>1. Clean(Swap)
      BY <2>1, <2>2, UnmixedFacts DEF SwapInv, SwapTag, Clean
    <3>2. \A i \in Index : Adr(i)' = IF i = Cur THEN Swap ELSE Adr(i)
      BY <2>1 DEF Adr
    <3>3. \A p : Clean(p)' <=> Clean(p)
      BY <2>1, CleanStays
    <3>4. m_pages[Cur].type # "undefined"
      BY <2>1 DEF DataPages
    <3>5. SUFFICES ASSUME NEW i \in Index
          PROVE  IF m_pages'[i].type = "undefined" THEN "tag" \in hit'
                 ELSE CleanIn(flash, m_pages'[i].addr)
      BY <2>1 DEF EntriesClean, Clean, CleanIn, IsErased, Adr
    <3>6. CASE i = Cur
      BY <2>1, <2>4, <3>1, <3>4, <3>6 DEF Clean, CleanIn, IsErased
    <3>7. CASE i # Cur
      <4>1. m_pages'[i] = m_pages[i]
        BY <2>1, <3>7
      <4>2. hit \subseteq hit'
        OBVIOUS
      <4>3. QED BY <2>3, <4>1, <4>2 DEF TagReady, EntriesClean, Clean, CleanIn, IsErased, Adr
    <3>8. QED BY <3>6, <3>7
  <2>10. QED BY <2>1, <2>3, <2>5, <2>6, <2>7, <2>8, <2>9 DEF TagReady
<1>5. QED BY <1>2, <1>3, <1>4

LEMMA TagGcResume ==
  ASSUME ShapeInv, TagInv, Unmixed' => Unmixed, hit \subseteq hit', GcResume
  PROVE  TagInv'
<1>1. mode' = mode /\ flash' = flash /\ m_pages' = m_pages /\ SamePages
  BY DEF GcResume, SamePages, ShapeInv, TypeInv
<1>2. CASE /\ mode = "ready" /\ m_swap_page'.addr = Swap /\ m_gc'.cur = m_gc.cur
           /\ m_gc'.state = m_gc.state
           /\ m_gc'.state = "erase" => m_pages[Cur].open = 0
  <2>1. SUFFICES ASSUME Unmixed' PROVE TagReady'
    BY <1>1, <1>2, ReadyTag
  <2>2. TagReady
    BY <1>2, <2>1, TagIsReady
  <2>3. Cur' = Cur /\ \A i : Adr(i)' = m_pages[i].addr /\ Adr(i) = m_pages[i].addr
    BY <1>1, <1>2 DEF Cur, Adr
  <2>4. DataTags(flash)'
    <3>1. DataPages' = DataPages
      BY <1>1 DEF DataPages
    <3>2. QED BY <1>1, <1>2, <2>2, <2>3, <3>1 DEF TagReady, DataTags
  <2>5. PagesClean' /\ EntriesClean' /\ Covers'
    BY <1>1, <1>2, <2>2, CleanStays, EntriesStay, CoversStay DEF TagReady
  <2>6. QED BY <1>1, <1>2, <2>2, <2>3, <2>4, <2>5 DEF TagReady
<1>3. CASE /\ mode = "ready" /\ m_swap_page'.addr = Swap
           /\ m_gc.state = "erase" /\ m_gc'.state = "discard"
           /\ m_pages[Cur].open # 0
  <2>1. Unmixed => \A i \in DataPages : flash[Adr(i)].tag = "data"
    BY <1>3, TagIsReady DEF TagReady, DataTags
  <2>2. QED BY <1>1, <1>3, <2>1, TagGcMoves
<1>4. CASE /\ mode = "ready" /\ m_swap_page' = m_swap_page
           /\ m_gc.state = "discard" /\ m_gc'.state = "discard"
  <2>1. Unmixed => \A i \in DataPages : flash[Adr(i)].tag = "data"
    BY <1>4, TagIsReady DEF TagReady, DataTags
  <2>2. QED BY <1>1, <1>4, <2>1, TagGcMoves DEF Swap
<1>5. QED BY <1>2, <1>3, <1>4, GcResumeMoves DEF GcMoves

LEMMA ErasedRecords ==
  ASSUME NEW p \in Page, flash[p] = ErasedPage
  PROVE  Records(p) = {}
<1>1. \A s \in 1..Slots : flash[p].slots[s] = Empty
  BY DEF ErasedPage
<1>2. \A s \in Records(p) : s \in 1..Slots /\ Valid(flash[p].slots[s])
  BY UsedFacts DEF Records
<1>3. ~Valid(Empty)
  BY DEF Valid, Empty
<1>4. QED BY <1>1, <1>2, <1>3

LEMMA TagCallers ==
  ASSUME ShapeInv, TagInv, Unmixed' => Unmixed, hit \subseteq hit', Callers
  PROVE  TagInv'
<1>1. m_swap_page' = m_swap_page /\ flash' = flash /\ mode' = mode /\ mode = "ready"
  BY Zenon DEF Callers, write_enqueue, fds_record_open, fds_gc, fds_record_close, Calm
<1>2. Call(TRUE).do # "erase"
  BY FsFacts
<1>3. ASSUME NEW op, Enqueued(op) PROVE fs' = fs \/ fs'.do # "erase"
  BY <1>2, <1>3 DEF Enqueued
<1>4. ASSUME m_gc.state = "erase" PROVE Cur \in Index
  BY <1>4 DEF ShapeInv, GcInv, DataPages
<1>5. CASE \E key \in Key : write_enqueue(key)
  <2>1. PICK key \in Key : write_enqueue(key) BY <1>5
  <2>2. PICK i \in DataPages :
           /\ SamePages
           /\ \A j \in Index : j # i => m_pages'[j] = m_pages[j]
           /\ m_pages'[i].open = m_pages[i].open
    BY <2>1, WriteEnqueuedPages
  <2>3. fs' = fs \/ fs'.do # "erase"
    BY <1>3, <2>1, WriteEnqueueFacts
  <2>4. m_gc.state = "erase" => m_pages'[Cur].open = m_pages[Cur].open
    BY <1>4, <2>2
  <2>5. m_gc' = m_gc
    BY <2>1 DEF write_enqueue
  <2>6. QED BY <1>1, <2>2, <2>3, <2>4, <2>5, TagStays DEF Swap
<1>6. CASE \E key \in Key : fds_record_open(key)
  <2>1. PICK key \in Key : fds_record_open(key) BY <1>6
  <2>2. PagesStay /\ fs' = fs /\ m_gc' = m_gc
    BY <2>1, OpenFacts DEF fds_record_open
  <2>3. ASSUME Unmixed', m_gc.state = "erase", m_pages[Cur].open = 0,
               flash[Adr(Cur)] = ErasedPage \/ fs = Erase(Adr(Cur))
        PROVE  m_pages'[Cur].open = 0
    <3>1. PICK i \in DataPages :
             /\ Records(Adr(i)) # {}
             /\ \A j \in Index : j # i => m_pages'[j] = m_pages[j]
             /\ hit' = IF fs = Erase(Adr(i)) THEN hit \union {"open"} ELSE hit
      BY <2>1, OpenFacts
    <3>2. CASE i = Cur
      <4>1. fs # Erase(Adr(Cur))
        <5>1. "open" \notin hit'
          BY <2>3 DEF Unmixed, Unhurt
        <5>2. QED BY <3>1, <3>2, <5>1
      <4>2. flash[Adr(Cur)] = ErasedPage
        BY <2>3, <4>1
      <4>3. Adr(Cur) \in Page
        BY <2>3, GcOpFacts
      <4>4. Records(Adr(Cur)) = {}
        BY <4>2, <4>3, ErasedRecords
      <4>5. QED BY <3>1, <3>2, <4>4
    <3>3. CASE i # Cur
      BY <1>4, <2>3, <3>1, <3>3
    <3>4. QED BY <3>2, <3>3
  <2>4. QED BY <1>1, <2>2, <2>3, TagStays DEF Swap, PagesStay
<1>7. CASE fds_gc
  <2>1. m_pages' = m_pages /\ SamePages
    BY <1>7 DEF fds_gc, SamePages, ShapeInv, TypeInv
  <2>2. fs' = fs \/ fs'.do # "erase"
    BY <1>3, <1>7, FdsGcFacts
  <2>3. QED BY <1>1, <1>7, <2>1, <2>2, FdsGcFacts, TagStays DEF Swap
<1>8. CASE fds_record_close
  <2>1. PagesStay /\ \A i \in Index : /\ m_pages'[i].open <= m_pages[i].open
                                     /\ m_pages'[i].open \in Nat
                                     /\ m_pages[i].open \in Nat
    BY <1>8, CloseFacts
  <2>2. m_gc' = m_gc /\ fs' = fs
    BY <1>8, Zenon DEF fds_record_close
  <2>3. m_gc.state = "erase" /\ m_pages[Cur].open = 0 => m_pages'[Cur].open = 0
    BY <1>4, <2>1
  <2>4. QED BY <1>1, <2>1, <2>2, <2>3, TagStays DEF Swap, PagesStay
<1>9. QED BY <1>5, <1>6, <1>7, <1>8 DEF Callers

LEMMA TagWrites ==
  ASSUME ShapeInv, TagInv, Unmixed' => Unmixed, hit \subseteq hit',
         WriteBegin \/ WriteFinalize \/ WriteDirty \/ WriteEnds \/ WriteFails
  PROVE  TagInv'
<1>1. m_swap_page' = m_swap_page /\ flash' = flash /\ mode' = mode /\ m_gc' = m_gc
  BY DEF WriteBegin, WriteFinalize, WriteDirty, WriteEnds, WriteFails
<1>2. Writing /\ mode = "ready"
  <2>1. m_op_queue # <<>> /\ Operation1.op \in Writes
    BY DEF WriteBegin, WriteFinalize, WriteDirty, WriteEnds, WriteFails, Runs, Fails,
       Operation1, Writes
  <2>2. QED BY <2>1, WritingMode DEF Writing
<1>3. ASSUME m_gc.state = "erase" PROVE Cur \in Index
  BY <1>3 DEF ShapeInv, GcInv, DataPages
<1>4. SamePages /\ \A i \in Index : m_pages'[i].open = m_pages[i].open
  <2>1. CASE WriteBegin \/ WriteFinalize
    BY <2>1 DEF WriteBegin, WriteFinalize, SamePages, ShapeInv, TypeInv
  <2>2. CASE WriteDirty
    <3>1. m_pages \in [Index -> PageRecord]
      BY DEF ShapeInv, TypeInv
    <3>2. PICK i : m_pages' = [m_pages EXCEPT ![i].can_gc = TRUE]
      BY <2>2 DEF WriteDirty
    <3>3. QED BY <2>2, <3>1, <3>2, WriteDirtyFacts DEF PageRecord, PagesStay
  <2>3. CASE WriteEnds \/ WriteFails
    <3>1. OffsetsUpdate
      BY <2>3 DEF WriteEnds, WriteFails
    <3>2. QED BY <1>2, <3>1, OffsetsFacts DEF Writing
  <2>4. QED BY <2>1, <2>2, <2>3
<1>5. fs'.do # "erase"
  <2>1. CASE WriteBegin \/ WriteFinalize \/ WriteDirty
    BY <2>1, OpFacts, WriteBeginFacts, WriteFinalizeFacts, WriteDirtyFacts DEF WriteStore
  <2>2. CASE WriteEnds \/ WriteFails
    BY <1>2, <2>2, PopFacts, FsFacts DEF WriteEnds, WriteFails, Writing
  <2>3. QED BY <2>1, <2>2
<1>6. QED BY <1>1, <1>2, <1>3, <1>4, <1>5, TagStays DEF Swap

LEMMA TagGcFails ==
  ASSUME ShapeInv, TagInv, Unmixed' => Unmixed, hit \subseteq hit', GcFails
  PROVE  TagInv'
<1>1. m_swap_page' = m_swap_page /\ flash' = flash /\ mode' = mode /\ m_gc' = m_gc
      /\ m_pages' = m_pages /\ Pop
  BY DEF GcFails
<1>2. mode = "ready" /\ m_op_queue # <<>>
  BY CollectingMode DEF GcFails
<1>3. fs'.do # "erase"
  BY <1>1, <1>2, PopFacts, FsFacts
<1>4. SamePages
  BY <1>1 DEF SamePages, ShapeInv, TypeInv
<1>5. QED BY <1>1, <1>2, <1>3, <1>4, TagStays DEF Swap

\* What TagInv says in mode "init".
TagMounting ==
  /\ PagesClean /\ Covers /\ EntriesClean
  /\ fs # Call(FALSE) =>
       \A i \in DataPages : flash[Adr(i)].tag = "data" \/ fs = Tag(Adr(i), "data")

LEMMA TagIsMounting ==
  ASSUME TagInv, Unmixed, mode = "init"
  PROVE  TagMounting
BY DEF TagInv, TagMounting, Mounted

LEMMA MountingTag ==
  ASSUME mode' = "init", Unmixed' => TagMounting'
  PROVE  TagInv'
BY DEF TagInv, TagMounting, Mounted

LEMMA CallIsNoTag ==
  ASSUME fs = Call(TRUE) \/ fs = Call(FALSE)
  PROVE  \A p, tag : fs # Tag(p, tag)
<1>1. fs.do = "call"
  BY FsFacts
<1>2. \A p, tag : Tag(p, tag).do # fs.do
  BY <1>1, OpFacts
<1>3. QED BY <1>2, Zenon

LEMMA TagInit ==
  ASSUME ShapeInv, SwapInv, TagInv, Unmixed' => Unmixed, hit \subseteq hit',
         InitTagSwap \/ InitTagData \/ InitEraseSwap \/ InitPromote
  PROVE  TagInv'
<1>1. /\ mode = "init" /\ mode' = "init" /\ flash' = flash /\ fs = Call(TRUE)
  BY InitMode DEF InitTagSwap, InitTagData, InitEraseSwap, InitPromote, Runs
<1>2. SUFFICES ASSUME Unmixed' PROVE TagMounting'
  BY <1>1, MountingTag
<1>3. TagMounting
  BY <1>1, <1>2, TagIsMounting
<1>4. \A i \in DataPages : flash[Adr(i)].tag = "data"
  BY <1>1, <1>3, CallIsNoTag, FsFacts DEF TagMounting
<1>5. PagesClean' /\ \A p : Clean(p)' <=> Clean(p)
  BY <1>1, <1>3, CleanStays DEF TagMounting
<1>6. CASE InitTagSwap \/ InitEraseSwap
  <2>1. m_pages' = m_pages /\ m_swap_page'.addr = Swap
    BY <1>6 DEF InitTagSwap, InitEraseSwap, Swap, ShapeInv, TypeInv, SwapType
  <2>2. SamePages
    BY <2>1 DEF SamePages, ShapeInv, TypeInv
  <2>3. \A i \in DataPages' : i \in DataPages /\ Adr(i)' = Adr(i)
    BY <2>1 DEF DataPages, Adr
  <2>4. \A i \in DataPages' : flash'[Adr(i)'].tag = "data"
    BY <1>1, <1>4, <2>3
  <2>5. EntriesClean'
    BY <1>1, <1>3, <2>2, EntriesStay DEF TagMounting
  <2>6. Covers'
    BY <1>1, <1>3, <2>1, <2>2, CoversStay DEF TagMounting
  <2>7. QED BY <1>5, <2>4, <2>5, <2>6 DEF TagMounting
<1>7. CASE InitTagData
  <2>1. PICK i \in ErasedPages :
           /\ i \in Index
           /\ fs' = Tag(Adr(i), "data")
           /\ m_pages' \in [Index -> PageRecord]
           /\ \A j \in Index : j # i => m_pages'[j] = m_pages[j]
           /\ m_pages'[i].type = "data"
           /\ m_pages'[i].addr = m_pages[i].addr
    BY <1>7, InitTagDataPages
  <2>2. m_swap_page' = m_swap_page
    BY <1>7 DEF InitTagData
  <2>3. \A j \in Index : Adr(j)' = Adr(j)
    BY <2>1 DEF Adr
  <2>4. EntriesClean'
    <3>1. m_pages[i].type # "undefined"
      BY <2>1 DEF ErasedPages
    <3>2. \A j \in Index : m_pages'[j].type = "undefined" => m_pages[j].type = "undefined"
      BY <2>1
    <3>3. \A j \in Index : m_pages[j].type = "undefined" => m_pages'[j].type = "undefined"
      BY <2>1, <3>1
    <3>4. QED BY <1>1, <1>3, <2>3, <3>2, <3>3 DEF TagMounting, EntriesClean, Clean, IsErased
  <2>5. Covers'
    BY <1>1, <1>3, <2>2, <2>3 DEF TagMounting, Covers, Swap, Spoilt
  <2>6. \A j \in DataPages' : j = i \/ j \in DataPages
    BY <2>1 DEF DataPages
  <2>7. \A j \in DataPages' : j \in Index
    BY DEF DataPages
  <2>8. \A j \in DataPages' : flash'[Adr(j)'].tag = "data" \/ fs' = Tag(Adr(j), "data")'
    <3>1. TAKE j \in DataPages'
    <3>2. Adr(j)' = Adr(j)
      BY <2>3, <2>7
    <3>3. CASE j = i
      BY <2>1, <3>2, <3>3 DEF Tag
    <3>4. CASE j \in DataPages
      BY <1>1, <1>4, <3>2, <3>4
    <3>5. QED BY <2>6, <3>3, <3>4
  <2>9. QED BY <1>5, <2>4, <2>5, <2>8 DEF TagMounting
<1>8. CASE InitPromote
  <2>1. /\ Cur \in Index /\ Swap \in Page
        /\ \A i \in Index : i # Cur => m_pages'[i] = m_pages[i]
        /\ m_pages'[Cur].addr = Swap
        /\ m_pages'[Cur].type = "data"
        /\ m_swap_page'.addr = Adr(Cur)
    BY <1>8, InitPromotePages
  <2>2. fs' = Tag(Swap, "data")
    BY <1>8 DEF InitPromote, Swap
  <2>3. EntriesClean'
    <3>1. Clean(Swap)
      <4>1. Operation1.step = "promote"
        BY <1>8 DEF InitPromote
      <4>2. QED BY <1>1, <1>2, <2>1, <4>1, UnmixedFacts DEF SwapInv, SwapTag, Clean, Mounted
    <3>2. \A i \in Index : m_pages'[i].type = "undefined" => "tag" \in hit'
      BY <1>3, <2>1 DEF TagMounting, EntriesClean
    <3>3. \A i \in Index : m_pages'[i].type # "undefined" => CleanIn(flash, m_pages'[i].addr)
      BY <1>3, <2>1, <3>1 DEF TagMounting, EntriesClean, Clean, CleanIn, IsErased, Adr
    <3>4. QED BY <1>1, <3>2, <3>3 DEF EntriesClean, Clean, CleanIn, IsErased, Adr
  <2>4. Covers'
    BY <1>1, <1>3, <2>1 DEF TagMounting, Covers, Swap, Adr, Spoilt
  <2>5. \A j \in DataPages' : j \in Index /\ (j = Cur \/ j \in DataPages)
    BY <2>1 DEF DataPages
  <2>6. \A j \in DataPages' : flash'[Adr(j)'].tag = "data" \/ fs' = Tag(Adr(j), "data")'
    <3>1. TAKE j \in DataPages'
    <3>2. CASE j = Cur
      <4>1. Adr(j)' = Swap
        BY <2>1, <3>2 DEF Adr
      <4>2. QED BY <2>2, <4>1 DEF Tag
    <3>3. CASE j # Cur
      <4>1. Adr(j)' = Adr(j) /\ j \in DataPages
        BY <2>1, <2>5, <3>3 DEF Adr
      <4>2. QED BY <1>1, <1>4, <4>1
    <3>4. QED BY <3>2, <3>3
  <2>7. QED BY <1>5, <2>3, <2>4, <2>6 DEF TagMounting
<1>9. QED BY <1>6, <1>7, <1>8

LEMMA TagInitEnds ==
  ASSUME ShapeInv, TagInv, Unmixed' => Unmixed, hit \subseteq hit',
         InitDone \/ InitFails
  PROVE  TagInv'
<1>1. /\ mode = "init" /\ flash' = flash /\ m_pages' = m_pages
      /\ m_swap_page' = m_swap_page /\ m_gc' = m_gc /\ m_gc.state = "begin"
  BY InitMode DEF InitDone, InitFails
<1>2. SUFFICES ASSUME Unmixed' PROVE TagInv'
  BY DEF TagInv
<1>3. TagMounting
  BY <1>1, <1>2, TagIsMounting
<1>4. PagesClean'
  BY <1>1, <1>3, CleanStays DEF TagMounting
<1>5. SamePages
  BY <1>1 DEF SamePages, ShapeInv, TypeInv
<1>6. Covers' /\ EntriesClean'
  BY <1>1, <1>3, <1>5, CoversStay, EntriesStay DEF TagMounting, Swap
<1>7. CASE InitFails
  <2>1. mode' = "failed"
    BY <1>7 DEF InitFails
  <2>2. QED BY <1>1, <1>3, <1>4, <1>6, <2>1 DEF TagMounting, TagInv
<1>8. CASE InitDone
  <2>1. mode' = "ready" /\ fs = Call(TRUE) /\ ErasedPages = {}
    BY <1>8 DEF InitDone, Runs
  <2>2. \A i \in Index : m_pages'[i].type # "erased"
    BY <1>1, <2>1 DEF ErasedPages
  <2>3. \A i \in DataPages : flash[Adr(i)].tag = "data"
    BY <1>3, <2>1, CallIsNoTag, FsFacts DEF TagMounting
  <2>4. DataPages' = DataPages /\ \A i : Adr(i)' = m_pages[i].addr /\ Adr(i) = m_pages[i].addr
    BY <1>1 DEF DataPages, Adr
  <2>5. DataTags(flash)'
    BY <1>1, <2>3, <2>4 DEF DataTags
  <2>6. TagReady'
    BY <1>1, <1>4, <1>6, <2>2, <2>5 DEF TagReady
  <2>7. QED BY <2>1, <2>6, ReadyTag
<1>9. QED BY <1>7, <1>8

LEMMA FdsInitTag ==
  ASSUME ShapeInv, SwapInv, SwapInv', TagInv, fds_init
  PROVE  TagInv'
<1>1. PICK acc, step : InitFinds(acc, step)
  BY FdsInitFacts
<1>3. SUFFICES ASSUME Unmixed' PROVE TagInv'
  BY DEF TagInv
<1>3a. ~Unnamed(acc.opts) /\ hit' = hit
  BY <1>1, <1>3 DEF InitFinds, Unmixed, Unhurt
<1>2. flash' = flash /\ hit' = hit
  BY <1>3a DEF fds_init
<1>4. Unmixed /\ RightSwap /\ RightSwap'
  BY <1>2, <1>3, UnmixedFacts DEF Unmixed, RightSwap, Unhurt
<1>5. OneSwapTag /\ PagesClean
  BY <1>4 DEF SwapInv, TagInv
<1>6. PagesClean'
  BY <1>2, <1>5, CleanStays
<1>7. /\ mode' \in {"init", "ready", "dead"}
      /\ mode' = "init" => fs' = Call(TRUE)
      /\ mode' = "ready" => step = "none"
  BY <1>1, FdsInitQueue DEF InitQueues
<1>8. CASE mode' = "dead"
  BY <1>6, <1>8 DEF TagInv, Mounted
<1>9. CASE mode' \in {"init", "ready"}
  <2>1. Swap' = acc.swap.addr /\ acc.swap.addr \in Page
    <3>1. Swap' \in Page
      BY <1>4, <1>9 DEF SwapInv, Mounted
    <3>2. QED BY <1>1, <3>1 DEF InitFinds, Swap
  <2>2. acc.swap.addr # NoPage
    BY <2>1, Constants DEF Page, NoPage
  <2>3. /\ ScanSwap(NumPages, acc) /\ ScanOpts(NumPages, acc)
        /\ Entries(NumPages, acc.pages) /\ acc \in AccType
        /\ ScanCover(NumPages, acc) /\ \A p \in Page : p < NumPages
        /\ FirstStepFacts(acc.opts, step)
        /\ m_gc'.state = "begin"
    BY <1>1, <1>3a, Constants DEF InitFinds, StepFacts, ScanInv, ScanEntries, Page
  <2>4. PICK n \in Nat : n = Len(acc.pages)
    BY <2>3 DEF AccType
  <2>5. n + 1 = NumPages
    BY <1>5, <2>2, <2>3, <2>4 DEF ScanCover
  <2>6. \A i \in Index : i + 1 \in 1..n /\ i \in Nat /\ m_pages'[i] = acc.pages[i + 1]
    <3>1. \A i \in Index : i + 1 \in 1..n /\ i \in Nat /\ i < n
      BY <2>5 DEF Index
    <3>2. QED BY <1>1, <2>4, <3>1 DEF InitFinds
  <2>7. EntriesClean'
    <3>1. SUFFICES ASSUME NEW i \in Index
          PROVE  IF m_pages'[i].type = "undefined" THEN "tag" \in hit
                 ELSE CleanIn(flash, m_pages'[i].addr)
      BY <1>2 DEF EntriesClean, Clean, CleanIn, IsErased, Adr
    <3>2. m_pages'[i].type \in {"data", "erased", "undefined"}
      BY <1>1 DEF InitFinds, PageRecord
    <3>3. CASE m_pages'[i].type = "data"
      BY <2>3, <2>4, <2>6, <3>3 DEF Entries, CleanIn
    <3>4. CASE m_pages'[i].type = "erased"
      BY <1>5, <2>3, <2>4, <2>6, <3>4 DEF Entries, CleanIn, IsErased
    <3>5. CASE m_pages'[i].type = "undefined"
      BY <1>5, <2>3, <2>4, <2>6, <3>5 DEF Entries, PagesClean
    <3>6. QED BY <3>2, <3>3, <3>4, <3>5
  <2>8. Covers'
    <3>1. SUFFICES ASSUME NEW p \in Page, p # Swap', ~Spoilt(p)
                   PROVE  \E i \in Index : m_pages'[i].addr = p
      BY <1>2 DEF Covers, Adr, Spoilt
    <3>2. flash[p].tag = "data" \/ IsErased(p)
      <4>1. ASSUME SwapTag(p) PROVE FALSE
        <5>1. SwapTag(acc.swap.addr)
          BY <2>2, <2>3, <4>1 DEF ScanSwap
        <5>2. p = acc.swap.addr
          BY <1>5, <2>1, <4>1, <5>1 DEF OneSwapTag
        <5>3. QED BY <2>1, <3>1, <5>2
      <4>2. QED BY <1>5, <3>1, <4>1 DEF Clean, SwapTag, PagesClean
    <3>3. PICK k \in 1..n : acc.pages[k].addr = p
      BY <2>1, <2>3, <2>4, <3>1, <3>2 DEF ScanCover
    <3>4. k - 1 \in Index /\ (k - 1) + 1 = k
      BY <2>5 DEF Index
    <3>5. m_pages'[k - 1].addr = p
      BY <2>6, <3>3, <3>4
    <3>6. QED BY <3>4, <3>5
  <2>9. \A i \in DataPages' : flash'[Adr(i)'].tag = "data"
    <3>1. TAKE i \in DataPages'
    <3>2. i \in Index /\ m_pages'[i].type = "data"
      BY DEF DataPages
    <3>3. flash[acc.pages[i + 1].addr].tag = "data"
      BY <2>3, <2>4, <2>6, <3>2 DEF Entries
    <3>4. QED BY <1>2, <2>6, <3>2, <3>3 DEF Adr
  <2>10. CASE mode' = "init"
    <3>1. TagMounting'
      BY <1>6, <2>7, <2>8, <2>9 DEF TagMounting
    <3>2. QED BY <2>10, <3>1, MountingTag
  <2>11. CASE mode' = "ready"
    <3>1. "erased" \notin acc.opts
      BY <1>7, <2>3, <2>11 DEF FirstStepFacts
    <3>2. \A i \in Index : m_pages'[i].type # "erased"
      <4>1. SUFFICES ASSUME NEW i \in Index, m_pages'[i].type = "erased" PROVE FALSE
        OBVIOUS
      <4>2. acc.pages[i + 1].addr \in Page /\ IsErased(acc.pages[i + 1].addr)
        BY <1>5, <2>3, <2>4, <2>6, <4>1 DEF Entries
      <4>3. QED BY <2>3, <3>1, <4>2 DEF ScanOpts
    <3>3. DataTags(flash)'
      BY <2>9 DEF DataTags
    <3>4. TagReady'
      BY <1>6, <2>3, <2>7, <2>8, <3>2, <3>3 DEF TagReady
    <3>5. QED BY <2>11, <3>4, ReadyTag
  <2>12. QED BY <1>9, <2>10, <2>11
<1>10. QED BY <1>7, <1>8, <1>9

LEMMA FlashTag ==
  ASSUME ShapeInv, FsInv, SwapInv, AgreeInv, FlashEnds \/ FlashFails
  PROVE  TagInv'
<1>1. /\ mode' = mode /\ m_pages' = m_pages /\ m_swap_page' = m_swap_page
      /\ m_gc' = m_gc /\ hit' = hit /\ fs.do \in FlashOp
      /\ fs' = Call(TRUE) \/ fs' = Call(FALSE)
  BY DEF FlashEnds, FlashFails, ramVars
<1>2. fs'.do # "erase" /\ fs'.do = "call"
  BY <1>1, FsFacts
<1>3. SUFFICES ASSUME Unmixed' PROVE TagInv'
  BY DEF TagInv
<1>4. Unmixed /\ TagInv
  BY <1>1, <1>3 DEF Unmixed, Unhurt, AgreeInv
<1>5. /\ Cur' = Cur /\ Swap' = Swap /\ DataPages' = DataPages
      /\ \A i : Adr(i)' = m_pages[i].addr
      /\ \A i : Adr(i) = m_pages[i].addr
  BY <1>1 DEF Cur, Swap, DataPages, Adr
<1>7. fs' # Erase(Adr(Cur))'
  <2>1. Erase(Adr(Cur)').do = "erase"
    BY OpFacts
  <2>2. fs' # Erase(Adr(Cur)')
    BY <1>2, <2>1, Zenon
  <2>3. QED BY <2>2 DEF Erase
<1>8. CASE FlashEnds
  <2>1. PICK g : g = flash'
    OBVIOUS
  <2>2. AgreeDone(g)
    BY <1>1, <1>4, <1>8, <2>1, FlashAgreeDone DEF FlashEnds
  <2>3. PagesClean'
    BY <1>1, <2>1, <2>2 DEF AgreeDone, CleanIn, Clean, IsErased, PagesClean, Spoilt
  <2>4. mode = "init" => \A i \in DataPages' : flash'[Adr(i)'].tag = "data"
    BY <1>5, <2>1, <2>2 DEF AgreeDone
  <2>5. mode = "ready" => DataTags(flash)'
    BY <1>1, <1>5, <2>1, <2>2 DEF AgreeDone, DataTags
  <2>6. mode = "ready" => \A i \in Index : m_pages'[i].type # "erased"
    BY <1>1, <1>4 DEF TagInv
  <2>7. Mounted' <=> Mounted
    BY <1>1 DEF Mounted
  <2>8. Mounted => Covers' /\ EntriesClean'
    <3>1. SUFFICES ASSUME Mounted PROVE Covers' /\ EntriesClean'
      OBVIOUS
    <3>2. Covers /\ EntriesClean
      BY <1>4, <3>1 DEF TagInv
    <3>3. Covers'
      <4>1. SUFFICES ASSUME NEW p \in Page, g[p] # HalfPage PROVE Target(p)
        BY <1>5, <2>1 DEF Covers, Target, Spoilt
      <4>2. Spoilt(p) => Target(p)
        BY <2>2, <4>1 DEF AgreeDone, Spoilt
      <4>3. QED BY <3>2, <4>2 DEF Covers, Target
    <3>4. EntriesClean'
      <4>1. SUFFICES ASSUME NEW i \in Index
            PROVE  IF m_pages[i].type = "undefined" THEN "tag" \in hit
                   ELSE CleanIn(g, m_pages[i].addr)
        BY <1>1, <2>1 DEF EntriesClean, Clean, CleanIn, IsErased, Adr
      <4>2. m_pages[i].type # "undefined" => Adr(i) \in Page /\ Clean(Adr(i))
        BY <3>1, <3>2 DEF EntriesClean, ShapeInv, AddrInv
      <4>3. QED BY <1>5, <2>2, <3>2, <4>2 DEF AgreeDone, EntriesClean
    <3>5. QED BY <3>3, <3>4
  <2>9. QED BY <1>1, <1>7, <2>3, <2>4, <2>5, <2>6, <2>7, <2>8 DEF TagInv
<1>9. CASE FlashFails
  <2>1. flash' = flash /\ fs' = Call(FALSE)'
    BY <1>9 DEF FlashFails, Call
  <2>2. PagesClean'
    BY <1>1, <1>4, <2>1, CleanStays DEF TagInv
  <2>3. mode = "ready" => DataTags(flash)'
    BY <1>1, <1>4, <1>5, <2>1 DEF TagInv, DataTags
  <2>4. mode = "ready" => \A i \in Index : m_pages'[i].type # "erased"
    BY <1>1, <1>4 DEF TagInv
  <2>5. Mounted' <=> Mounted
    BY <1>1 DEF Mounted
  <2>6. Mounted => Covers' /\ EntriesClean'
    <3>1. SamePages
      BY <1>1 DEF SamePages, ShapeInv, TypeInv
    <3>2. QED BY <1>1, <1>4, <1>5, <2>1, <3>1, CoversStay, EntriesStay DEF TagInv, Swap
  <2>7. QED BY <1>1, <1>7, <2>1, <2>2, <2>3, <2>4, <2>5, <2>6 DEF TagInv
<1>10. QED BY <1>8, <1>9

LEMMA ResetTag ==
  ASSUME ShapeInv, FsInv, SwapInv, AgreeInv, Unmixed' => Unmixed, hit \subseteq hit',
         Reset
  PROVE  TagInv'
<1>1. SUFFICES ASSUME Unmixed' PROVE PagesClean'
  BY DEF TagInv, Reset, Mounted
<1>2. Unmixed /\ PagesClean
  BY <1>1 DEF AgreeInv, TagInv
<1>3. \A p \in Page : CleanIn(flash, p) \/ (Spoilt(p) /\ "tag" \in hit)
  BY <1>2 DEF PagesClean, Clean, CleanIn, IsErased
<1>4. PICK g : g = flash'
  OBVIOUS
<1>5. SUFFICES \A p \in Page : CleanIn(g, p) \/ (g[p] = HalfPage /\ "tag" \in hit')
  BY <1>4 DEF PagesClean, Clean, CleanIn, IsErased, Spoilt
<1>6. CASE flash' = flash
  BY <1>3, <1>4, <1>6 DEF Spoilt
<1>7. CASE fs \in FlashOpType /\ flash' = Done(fs)
  <2>1. fs.do \in FlashOp
    BY <1>7, FlashOpCases
  <2>2. AgreeDone(g)
    BY <1>2, <1>4, <1>7, <2>1, FlashAgreeDone
  <2>3. QED BY <2>2 DEF AgreeDone, Spoilt
<1>8. CASE fs \in FlashOpType /\ flash' \in PartlyDone(fs)
  <2>1. flash \in FlashType /\ g \in PartlyDone(fs)
    BY <1>4, <1>8 DEF ShapeInv, TypeInv
  <2>2. fs.page \in Page /\ fs.do \in FlashOp
    BY <1>8, FlashOpCases
  <2>3. \A p \in Page : p # fs.page => g[p] = flash[p]
    BY <1>8, <2>1, PartlyDoneFacts, Zenon
  <2>4. \/ fs.do = "copy" /\ g[fs.page].tag = flash[fs.page].tag
        \/ /\ flash[fs.page].tag = "none"
           /\ g[fs.page].tag = "half" /\ g[fs.page].slots = flash[fs.page].slots
    BY <1>8, <2>1, PartlyDoneFacts, Zenon
  <2>5. CASE fs.do = "copy" /\ g[fs.page].tag = flash[fs.page].tag
    <3>1. g[fs.page].tag \in {"data", "swap"}
      BY <1>2, <2>2, <2>5, WrittenPage
    <3>2. QED BY <1>3, <2>2, <2>3, <3>1 DEF CleanIn, Spoilt
  <2>6. CASE /\ flash[fs.page].tag = "none" /\ g[fs.page].tag = "half"
             /\ g[fs.page].slots = flash[fs.page].slots
    <3>1. flash[fs.page] # HalfPage
      <4>1. HalfPage.tag = "half"
        BY DEF HalfPage, ErasedPage
      <4>2. QED BY <2>6, <4>1
    <3>2. flash[fs.page] = ErasedPage
      BY <1>3, <2>2, <2>6, <3>1 DEF CleanIn, Spoilt
    <3>3. g[fs.page] = HalfPage
      <4>1. g \in FlashType
        BY <1>8, <2>1, PartlyDoneFacts, Zenon
      <4>2. PICK r \in PageType : r = g[fs.page]
        BY <2>2, <4>1 DEF FlashType
      <4>3. PICK h : h = [ErasedPage EXCEPT !.tag = "half"]
        OBVIOUS
      <4>4. h \in PageType /\ h.tag = "half" /\ h.slots = ErasedPage.slots
        <5>1. PICK e \in PageType : e = ErasedPage
          BY ErasedType
        <5>2. h = [e EXCEPT !.tag = "half"]
          BY <4>3, <5>1
        <5>3. QED BY <5>1, <5>2 DEF PageType
      <4>5. r.tag = h.tag /\ r.slots = h.slots
        BY <2>6, <3>2, <4>2, <4>4
      <4>6. r = h
        BY <4>4, <4>5 DEF PageType
      <4>7. QED BY <4>2, <4>3, <4>6 DEF HalfPage
    <3>4. "tag" \in hit'
      <4>1. flash'[fs.page].tag = "half"
        BY <1>4, <2>6
      <4>2. QED BY <2>2, <4>1 DEF Reset
    <3>5. QED BY <1>3, <2>3, <3>3, <3>4 DEF CleanIn, Spoilt
  <2>7. QED BY <2>4, <2>5, <2>6
<1>9. QED BY <1>6, <1>7, <1>8, ResetFlash

LEMMA NextAgree ==
  ASSUME ShapeInv, FsInv, ResumeInv, SwapInv, AgreeInv, ShapeInv', SwapInv', [Next]_vars
  PROVE  AgreeInv'
<1>1. WriteCalm'
  BY NextCalm DEF AgreeInv
<1>2. (Unmixed' => Unmixed) /\ TagInv /\ hit \subseteq hit'
  BY HitGrows, StillUnhurt DEF Unmixed, AgreeInv
<1>. SUFFICES TagInv'
  BY <1>1 DEF AgreeInv
<1>3. CASE fds_init
  BY <1>2, <1>3, FdsInitTag
<1>4. CASE queue_process
  BY <1>2, <1>4, TagInit, TagInitEnds, TagWrites, TagGc, TagGcResume, TagGcFails
     DEF queue_process
<1>5. CASE Callers
  BY <1>2, <1>5, TagCallers
<1>6. CASE FlashEnds \/ FlashFails
  BY <1>6, FlashTag
<1>7. CASE Reset
  BY <1>2, <1>7, ResetTag
<1>8. CASE UNCHANGED vars
  BY <1>2, <1>8 DEF vars, ramVars, TagInv, Unmixed, Unhurt, Clean, IsErased, Mounted, Covers,
     DataTags, DataPages, Adr, Cur, Swap, PagesClean, EntriesClean, Spoilt
<1>9. QED BY <1>3, <1>4, <1>5, <1>6, <1>7, <1>8 DEF Next

LEMMA InitAgree ==
  ASSUME Init
  PROVE  AgreeInv
<1>1. /\ mode = "off" /\ m_op_queue = <<>>
      /\ flash = [p \in Page |-> ErasedPage]
  BY DEF Init
<1>2. WriteCalm
  BY <1>1 DEF WriteCalm, Writing
<1>3. \A p \in Page : Clean(p)
  BY <1>1 DEF Clean, IsErased
<1>4. TagInv
  BY <1>1, <1>3 DEF TagInv, Mounted, PagesClean
<1>5. QED BY <1>2, <1>4 DEF AgreeInv

\* Every page keeps its tag, and every page is mounted, in any sequence of writes,
\* collections, failures and resets without one of the named mishaps.
THEOREM PagesAlwaysAgree == Spec => [](PagesInv /\ AgreeInv)
<1>1. Init => AgreeInv
  BY InitAgree
<1>2. PagesInv /\ PagesInv' /\ AgreeInv /\ [Next]_vars => AgreeInv'
  BY NextAgree DEF PagesInv
<1>3. QED BY <1>1, <1>2, PagesAlwaysHold, PTL DEF Spec

(***************************************************************************)
(* What fds_init can do with the pages that a reset leaves.                *)
(***************************************************************************)

\* The mishaps without which no pages are found that the switch has no case for.
Caused == ~Unhurt({"tag", "advance", "candidate", "resume", "open"})
UnsetInv == "unset" \in hit => Caused

\* One page is the swap page, and another one is erased or has data.
LEMMA PagesNamed ==
  ASSUME OneSwapTag, \A p \in Page : Clean(p), NEW acc, ScanInv(NumPages, acc)
  PROVE  ~Unnamed(acc.opts)
<1>1. \A p \in Page : p < NumPages
  BY Constants DEF Page
<1>2. "data" \notin acc.opts /\ "erased" \notin acc.opts => \A p \in Page : SwapTag(p)
  BY <1>1 DEF ScanInv, ScanKinds, ScanOpts, Clean, SwapTag
<1>3. 0 \in Page /\ 1 \in Page
  BY Constants DEF Page
<1>4. "data" \in acc.opts \/ "erased" \in acc.opts
  BY <1>2, <1>3 DEF OneSwapTag
<1>5. "swap clean" \notin acc.opts \/ "swap dirty" \notin acc.opts
  BY DEF ScanInv, ScanKinds
<1>6. QED BY <1>4, <1>5 DEF Unnamed

LEMMA FdsInitNames ==
  ASSUME PagesInv, AgreeInv, fds_init, "unset" \notin hit, ~Caused
  PROVE  "unset" \notin hit'
<1>1. PICK acc, step : InitFinds(acc, step)
  BY FdsInitFacts DEF PagesInv
<1>2. Unmixed /\ RightSwap /\ "tag" \notin hit
  BY DEF Caused, Unmixed, RightSwap, Unhurt
<1>3. OneSwapTag /\ \A p \in Page : Clean(p)
  BY <1>2 DEF PagesInv, SwapInv, AgreeInv, TagInv, PagesClean
<1>4. ~Unnamed(acc.opts)
  BY <1>1, <1>3, PagesNamed DEF InitFinds
<1>5. QED BY <1>1, <1>4 DEF InitFinds

LEMMA NextNames ==
  ASSUME PagesInv, AgreeInv, UnsetInv, [Next]_vars
  PROVE  UnsetInv'
<1>1. SUFFICES ASSUME "unset" \in hit', ~Caused' PROVE FALSE
  BY DEF UnsetInv
<1>2. ~Caused
  BY <1>1, HitGrows, StillUnhurt DEF Caused
<1>3. "unset" \notin hit
  BY <1>2 DEF UnsetInv
<1>4. ~fds_init
  BY <1>1, <1>2, <1>3, FdsInitNames
<1>5. QED BY <1>1, <1>3, <1>4, HitMore DEF Hit

\* The switch of fds_init has a case for the pages of every reset, but for those
\* mishaps.
THEOREM AlwaysNamed == Spec => []UnsetInv
<1>1. Init => UnsetInv
  BY DEF Init, UnsetInv
<1>2. PagesInv /\ AgreeInv /\ UnsetInv /\ [Next]_vars => UnsetInv'
  BY NextNames
<1>3. QED BY <1>1, <1>2, PagesAlwaysAgree, PTL DEF Spec

\* A reset at any moment leaves pages that fds_init can use: there is always a
\* page with the tag of the swap page, or an erased one to become it; and where
\* none has half a tag, another page, so that its switch has a case for them.
THEOREM PagesAlwaysMount == Spec => []AlwaysMounts
<1>1. PagesInv /\ UnsetInv => AlwaysMounts
  <2>1. ASSUME SwapInv, mode = "dead", Unhurt({"tag", "advance", "candidate", "unset"})
        PROVE  FALSE
    <3>1. RightSwap /\ "tag" \notin hit
      BY <2>1 DEF RightSwap, Unhurt
    <3>2. QED BY <2>1, <3>1 DEF SwapInv
  <2>2. QED BY <2>1 DEF PagesInv, UnsetInv, Caused, AlwaysMounts
<1>2. QED BY <1>1, PagesAlwaysHold, AlwaysNamed, PTL

LEMMA AgreementMeans ==
  ASSUME PagesInv, AgreeInv, UnsetInv
  PROVE  PagesAgree
<1>1. SUFFICES ASSUME Calm, Unmixed, "tag" \notin hit
               PROVE  /\ {m_pages[i].addr : i \in DataPages} \union {Swap} = Page
                      /\ m_gc.state \notin {"erase", "discard", "promote", "tag"} =>
                           /\ flash[Swap].tag = "swap"
                           /\ \A i \in Index : flash[Adr(i)].tag = "data"
  <2>1. Unhurt({"tag", "advance", "candidate", "resume", "open"}) =>
          Unmixed /\ "tag" \notin hit
    BY DEF UnsetInv, Caused, Unmixed, Unhurt
  <2>2. QED BY <2>1 DEF PagesAgree, Swap, Adr
<1>2. /\ ShapeInv /\ mode = "ready" /\ RightSwap
      /\ Covers /\ EntriesClean /\ PagesClean /\ DataTags(flash)
      /\ \A i \in Index : m_pages[i].type \notin {"erased", "undefined"}
  BY <1>1, UnmixedFacts DEF PagesInv, AgreeInv, TagInv, Calm, Mounted, EntriesClean
<1>3. Swap \in Page /\ \A i \in Index : Adr(i) \in Page /\ m_pages[i].type = "data"
  BY <1>2 DEF ShapeInv, AddrInv, Mounted, TypeInv, PageRecord
<1>4. DataPages = Index
  BY <1>3 DEF DataPages
<1>5. \A p \in Page : p = Swap \/ \E i \in DataPages : m_pages[i].addr = p
  <2>1. \A p \in Page : ~Spoilt(p)
    <3>1. \A p \in Page : Clean(p)
      BY <1>1, <1>2 DEF PagesClean
    <3>2. HalfPage.tag = "half" /\ ErasedPage.tag = "none"
      BY DEF HalfPage, ErasedPage
    <3>3. QED BY <3>1, <3>2 DEF Clean, IsErased, Spoilt
  <2>2. QED BY <1>2, <1>4, <2>1 DEF Covers, Adr
<1>6. \A i \in DataPages : m_pages[i].addr \in Page
  BY <1>3, <1>4 DEF Adr
<1>7. {m_pages[i].addr : i \in DataPages} \union {Swap} = Page
  BY <1>3, <1>5, <1>6
<1>8. ASSUME m_gc.state \notin {"erase", "discard", "promote", "tag"}
      PROVE  flash[Swap].tag = "swap" /\ \A i \in Index : flash[Adr(i)].tag = "data"
  <2>1. m_gc.state \in {"begin", "copy"}
    BY <1>2, <1>8 DEF ShapeInv, TypeInv, GcType
  <2>2. SwapTag(Swap)
    BY <1>2, <2>1 DEF PagesInv, SwapInv
  <2>3. \A i \in Index : flash[Adr(i)].tag = "data"
    BY <1>2, <1>4, <1>8 DEF DataTags
  <2>4. QED BY <2>2, <2>3 DEF SwapTag
<1>9. QED BY <1>7, <1>8

\* Between the steps, every page is a data page or the swap page, not two of them,
\* and their tags in the flash say the same.
THEOREM PagesAgreeWithFlash == Spec => []PagesAgree
<1>1. PagesInv /\ AgreeInv /\ UnsetInv => PagesAgree
  BY AgreementMeans
<1>2. QED BY <1>1, PagesAlwaysAgree, AlwaysNamed, PTL

\* Every variable keeps its type, through the offsets and reservations that are
\* counted up and down and the records that a part of an operation leaves.
THEOREM TypesAreKept == Spec => []TypeOK
<1>1. PagesInv => TypeOK
  BY TypesAreRight DEF PagesInv, ShapeInv
<1>2. QED BY <1>1, PagesAlwaysHold, PTL
=============================================================================
