------------------------------ MODULE VmProofs ------------------------------
(***************************************************************************)
(* Theorems about the virtual memory simulator of Vm, for any number of    *)
(* processes, pages, frames and TLB entries and any size of a page.        *)
(***************************************************************************)
EXTENDS VmProperties, VmStats, WellFoundedInduction, SequenceTheorems,
        FiniteSetTheorems, TLAPS

-----------------------------------------------------------------------------
(* Numbers.                                                                *)

\* A set of naturals that is not empty has a smallest element.
LEMMA NatMin ==
  ASSUME NEW S \in SUBSET Nat, S # {}
  PROVE  Min(S) \in S /\ \A x \in S : Min(S) <= x
<1>1. \E x \in S : \A y \in S : ~ (<<y, x>> \in OpToRel(<, Nat))
  BY NatLessThanWellFounded, WFMin, Zenon
<1>2. \A x, y \in Nat : y < x => <<y, x>> \in OpToRel(<, Nat)
  <2> TAKE x, y \in Nat
  <2> HAVE y < x
  <2>1. <<y, x>> \in Nat \X Nat /\ <<y, x>>[1] < <<y, x>>[2]
    OBVIOUS
  <2>2. OpToRel(<, Nat) = {ss \in Nat \X Nat : ss[1] < ss[2]}
    BY Zenon DEF OpToRel
  <2> QED BY <2>1, <2>2
<1>3. \E x \in S : \A y \in S : x <= y
  <2>1. \A x \in S : x \in Nat
    OBVIOUS
  <2>2. \E x \in S : \A y \in S : ~ (y < x)
    BY <1>1, <1>2, <2>1, Zenon
  <2> QED BY <2>1, <2>2
<1> QED BY <1>3 DEF Min

\* A set of naturals that is bounded and not empty has a greatest element.
LEMMA NatMax ==
  ASSUME NEW n \in Nat, NEW S \in SUBSET (1 .. n), S # {}
  PROVE  Max(S) \in S
<1> DEFINE T == {n - x : x \in S}
<1>0. \A x \in S : x \in 1 .. n
  OBVIOUS
<1>1. T \in SUBSET Nat /\ T # {}
  <2>1. \A x \in S : n - x \in Nat
    BY <1>0
  <2> QED BY <2>1
<1>2. Min(T) \in T /\ \A t \in T : Min(T) <= t
  BY <1>1, NatMin
<1>3. PICK x \in S : Min(T) = n - x
  BY <1>2
<1>4. \A y \in S : x >= y
  <2> TAKE y \in S
  <2>1. n - y \in T
    OBVIOUS
  <2>2. n - x <= n - y
    BY <1>2, <1>3, <2>1
  <2> QED BY <1>0, <2>2
<1> QED BY <1>0, <1>4 DEF Max

\* The frame that comes NumFrames frames later is the same one.
LEMMA ModWraps ==
  ASSUME NEW n \in Nat \ {0}
  PROVE  (n + 1) % n = 1 % n
<1>1. CASE n = 1
  BY <1>1
<1>2. CASE n > 1
  BY <1>2
<1> QED BY <1>1, <1>2

-----------------------------------------------------------------------------
(* The swap file.                                                          *)

Disks == Seq([page : Pages, data : Bytes])

\* A frame is a page of bytes, and so is a blank one.
LEMMA BlankBytes == Blank \in Bytes
BY ValuesAssumption DEF Blank, Bytes

\* What page_from_disk() copies into a frame.
LEMMA PageFromDiskType ==
  ASSUME NEW disk \in Disks, NEW page \in Pages
  PROVE  PageFromDisk(disk, page) \in Bytes
<1>1. CASE OnDisk(disk, page) = {}
  BY <1>1, BlankBytes DEF PageFromDisk
<1>2. CASE OnDisk(disk, page) # {}
  <2> DEFINE Copies == [page : Pages, data : Bytes]
  <2> HIDE DEF Copies
  <2>0. disk \in Seq(Copies) /\ DOMAIN disk = 1 .. Len(disk) /\ Len(disk) \in Nat
    BY LenProperties DEF Disks, Copies
  <2>1. OnDisk(disk, page) \in SUBSET Nat
    BY <2>0 DEF OnDisk
  <2>2. Min(OnDisk(disk, page)) \in OnDisk(disk, page)
    BY <1>2, <2>1, NatMin
  <2>3. disk[Min(OnDisk(disk, page))] \in Copies
    BY <2>0, <2>2, ElementOfSeq DEF OnDisk
  <2> QED BY <1>2, <2>3 DEF PageFromDisk, Copies
<1> QED BY <1>1, <1>2

\* Every page but the one at i is still there, and in the same order.
LEMMA RemoveAtFacts ==
  ASSUME NEW S, NEW s \in Seq(S), NEW i \in 1 .. Len(s)
  PROVE  /\ RemoveAt(s, i) \in Seq(S)
         /\ Len(RemoveAt(s, i)) = Len(s) - 1
         /\ \A j \in 1 .. Len(s) - 1 :
              RemoveAt(s, i)[j] = IF j < i THEN s[j] ELSE s[j+1]
<1>1. /\ SubSeq(s, 1, i-1) \in Seq(S) /\ Len(SubSeq(s, 1, i-1)) = i - 1
      /\ \A j \in 1 .. i-1 : SubSeq(s, 1, i-1)[j] = s[j]
  <2>1. \A j \in 1 .. i-1 : s[j] \in S
    OBVIOUS
  <2>2. i - 1 \in Int /\ 1 \in Int
    OBVIOUS
  <2>3. /\ SubSeq(s, 1, i-1) \in Seq(S)
        /\ Len(SubSeq(s, 1, i-1)) = IF 1 <= i-1 THEN i-1 - 1 + 1 ELSE 0
        /\ \A j \in 1 .. i-1 - 1 + 1 : SubSeq(s, 1, i-1)[j] = s[1 + j - 1]
    BY <2>1, <2>2, SubSeqProperties
  <2> QED BY <2>3
<1>2. /\ SubSeq(s, i+1, Len(s)) \in Seq(S)
      /\ Len(SubSeq(s, i+1, Len(s))) = Len(s) - i
      /\ \A j \in 1 .. Len(s) - i : SubSeq(s, i+1, Len(s))[j] = s[i+j]
  <2>1. \A j \in i+1 .. Len(s) : s[j] \in S
    OBVIOUS
  <2>2. i + 1 \in Int /\ Len(s) \in Int
    OBVIOUS
  <2>3. /\ SubSeq(s, i+1, Len(s)) \in Seq(S)
        /\ Len(SubSeq(s, i+1, Len(s))) =
             IF i+1 <= Len(s) THEN Len(s) - (i+1) + 1 ELSE 0
        /\ \A j \in 1 .. Len(s) - (i+1) + 1 :
             SubSeq(s, i+1, Len(s))[j] = s[i+1 + j - 1]
    BY <2>1, <2>2, SubSeqProperties
  <2> QED BY <2>3
<1> DEFINE a == SubSeq(s, 1, i-1)
           b == SubSeq(s, i+1, Len(s))
<1>3. /\ a \o b \in Seq(S) /\ Len(a \o b) = Len(a) + Len(b)
      /\ \A j \in 1 .. Len(a) + Len(b) :
           (a \o b)[j] = IF j <= Len(a) THEN a[j] ELSE b[j - Len(a)]
  BY <1>1, <1>2, ConcatProperties
<1>4. RemoveAt(s, i) = a \o b
  BY DEF RemoveAt
<1>5. /\ Len(a) = i - 1 /\ \A j \in 1 .. i-1 : a[j] = s[j]
      /\ Len(b) = Len(s) - i /\ \A j \in 1 .. Len(s) - i : b[j] = s[i+j]
  BY <1>1, <1>2
<1> HIDE DEF a, b
<1>6. Len(a \o b) = Len(s) - 1
  BY <1>3, <1>5
<1>7. ASSUME NEW j \in 1 .. Len(s) - 1
      PROVE  (a \o b)[j] = IF j < i THEN s[j] ELSE s[j+1]
  <2>1. CASE j < i
    BY <1>3, <1>5, <2>1
  <2>2. CASE ~(j < i)
    <3>1. (a \o b)[j] = b[j - (i-1)]
      <4>1. j \in 1 .. Len(a) + Len(b) /\ ~(j <= Len(a)) /\ j - Len(a) = j - (i-1)
        BY <1>5, <2>2
      <4>2. (a \o b)[j] = b[j - Len(a)]
        BY <1>3, <4>1, Zenon
      <4> QED BY <4>1, <4>2
    <3>2. j - (i-1) \in 1 .. Len(s) - i /\ i + (j - (i-1)) = j + 1
      BY <2>2
    <3> QED BY <1>5, <2>2, <3>1, <3>2
  <2> QED BY <2>1, <2>2
<1> QED BY <1>3, <1>4, <1>6, <1>7

\* No page is twice in the swap file.
Once(disk) ==
  \A i, j \in DOMAIN disk : disk[i].page = disk[j].page => i = j

\* What page_from_disk() unlinks is the page it read, and nothing else.
LEMMA UnlinkedFacts ==
  ASSUME NEW disk \in Disks, NEW page \in Pages
  PROVE  /\ Unlinked(disk, page) \in Disks
         /\ \A i \in DOMAIN Unlinked(disk, page) :
              \E j \in DOMAIN disk : Unlinked(disk, page)[i] = disk[j]
         /\ Once(disk) =>
              /\ Once(Unlinked(disk, page))
              /\ \A i \in DOMAIN Unlinked(disk, page) :
                   Unlinked(disk, page)[i].page # page
<1> DEFINE Copies == [page : Pages, data : Bytes]
<1> HIDE DEF Copies
<1>1. disk \in Seq(Copies) /\ DOMAIN disk = 1 .. Len(disk) /\ Len(disk) \in Nat
  BY LenProperties DEF Disks, Copies
<1>2. CASE OnDisk(disk, page) = {}
  BY <1>2 DEF Unlinked, OnDisk
<1>3. CASE OnDisk(disk, page) # {}
  <2> DEFINE k == Min(OnDisk(disk, page))
             left == Unlinked(disk, page)
  <2>1. OnDisk(disk, page) \in SUBSET Nat
    BY <1>1 DEF OnDisk
  <2>2. k \in 1 .. Len(disk)
    BY <1>1, <1>3, <2>1, NatMin DEF OnDisk
  <2>9. disk[k].page = page
    BY <1>3, <2>1, NatMin DEF OnDisk
  <2>3. left = RemoveAt(disk, k)
    BY <1>3 DEF Unlinked
  <2> HIDE DEF k, left
  <2>4. /\ left \in Seq(Copies) /\ Len(left) = Len(disk) - 1
        /\ \A j \in 1 .. Len(disk) - 1 :
             left[j] = IF j < k THEN disk[j] ELSE disk[j+1]
    BY <1>1, <2>2, <2>3, RemoveAtFacts
  <2>5. DOMAIN left = 1 .. Len(disk) - 1
    BY <2>4, LenProperties
  <2>6. \A i \in 1 .. Len(disk) - 1 : i \in DOMAIN disk /\ i + 1 \in DOMAIN disk
    BY <1>1
  <2>7. ASSUME Once(disk)
        PROVE  Once(left) /\ \A i \in DOMAIN left : left[i].page # page
    <3>1. \A i \in DOMAIN left :
            \E a \in DOMAIN disk : left[i] = disk[a] /\ a # k
                                  /\ a = IF i < k THEN i ELSE i + 1
      BY <2>2, <2>4, <2>5, <2>6
    <3>2. \A i \in DOMAIN left : left[i].page # page
      BY <1>1, <2>2, <2>9, <2>7, <3>1 DEF Once
    <3>3. ASSUME NEW i \in DOMAIN left, NEW j \in DOMAIN left,
                 left[i].page = left[j].page
          PROVE  i = j
      <4>1. PICK a \in DOMAIN disk : left[i] = disk[a] /\ a = IF i < k THEN i ELSE i + 1
        BY <3>1
      <4>2. PICK b \in DOMAIN disk : left[j] = disk[b] /\ b = IF j < k THEN j ELSE j + 1
        BY <3>1
      <4>3. a = b
        BY <2>7, <3>3, <4>1, <4>2 DEF Once
      <4> QED BY <2>2, <2>5, <4>1, <4>2, <4>3
    <3> QED BY <3>2, <3>3 DEF Once
  <2>8. \A i \in DOMAIN left : \E j \in DOMAIN disk : left[i] = disk[j]
    BY <2>4, <2>5, <2>6
  <2> QED BY <2>4, <2>7, <2>8 DEF left, Disks, Copies
<1> QED BY <1>2, <1>3

-----------------------------------------------------------------------------
(* The TLB.                                                                *)

\* An entry that is cleared is not valid.
LEMMA ClearedFacts ==
  ASSUME NEW entry \in Entry
  PROVE  Cleared(entry) \in Entry /\ ~Cleared(entry).valid
<1>1. 0 \in 0 .. UsedLimit - 1
  BY SizesAssumption
<1> QED BY <1>1 DEF Cleared, Entry

\* The TLB of a process that is switched to has entries of the right type,
\* and valid ones only if it runs already.
LEMMA TlbForType ==
  ASSUME TypeOK, NEW pid \in Pids
  PROVE  /\ TlbFor(pid) \in [Slots -> Entry]
         /\ \A slot \in Slots : TlbFor(pid)[slot].valid =>
              current = pid /\ TlbFor(pid)[slot] = tlb[slot]
<1>1. tlb \in [Slots -> Entry]
  BY DEF TypeOK
<1>2. \A slot \in Slots : Cleared(tlb[slot]) \in Entry /\ ~Cleared(tlb[slot]).valid
  BY <1>1, ClearedFacts
<1> QED BY <1>1, <1>2 DEF TlbFor

\* tlb_clearone() invalidates entries and changes nothing else about them.
LEMMA ClearOneFacts ==
  ASSUME NEW entries \in [Slots -> Entry], NEW vpn \in Vpns
  PROVE  /\ ClearOne(entries, vpn) \in [Slots -> Entry]
         /\ \A slot \in Slots : ClearOne(entries, vpn)[slot].valid =>
              /\ ClearOne(entries, vpn)[slot] = entries[slot]
              /\ entries[slot].vpn # vpn
<1>1. \A slot \in Slots :
        Cleared(entries[slot]) \in Entry /\ ~Cleared(entries[slot]).valid
  BY ClearedFacts
<1> QED BY <1>1 DEF ClearOne

\* tlb_lookup() fills one entry and leaves the others alone.
LEMMA InsertedFacts ==
  ASSUME NEW entries \in [Slots -> Entry], NEW vpn \in Vpns,
         NEW pfn \in Frames, NEW write \in BOOLEAN
  PROVE  /\ Inserted(entries, vpn, pfn, write) \in [Slots -> Entry]
         /\ \A slot \in Slots :
              \/ Inserted(entries, vpn, pfn, write)[slot] = entries[slot]
              \/ /\ IsSlot(entries, slot)
                 /\ Inserted(entries, vpn, pfn, write)[slot].vpn = vpn
                 /\ Inserted(entries, vpn, pfn, write)[slot].pfn = pfn
                 /\ Inserted(entries, vpn, pfn, write)[slot].dirty = write
         /\ \A slot, other \in Slots :
              IsSlot(entries, slot) /\ IsSlot(entries, other) => slot = other
<1>1. ASSUME NEW slot \in Slots
      PROVE  [vpn |-> vpn, pfn |-> pfn, valid |-> TRUE, dirty |-> write,
              used |-> IF entries[slot].valid THEN entries[slot].used ELSE 0]
               \in Entry
  BY SizesAssumption DEF Entry
<1>2. ASSUME NEW slot \in Slots, NEW other \in Slots,
             IsSlot(entries, slot), IsSlot(entries, other)
      PROVE  slot = other
  <2>1. slot \in Nat /\ other \in Nat /\ 1 <= slot /\ 1 <= other
    BY SizesAssumption DEF Slots
  <2>2. \A s \in Slots : entries[s].used \in Nat
    BY SizesAssumption DEF Entry
  <2>3. ~(slot < other)
    BY <1>2, <2>1, <2>2 DEF IsSlot
  <2>4. ~(other < slot)
    BY <1>2, <2>1, <2>2 DEF IsSlot
  <2> QED BY <2>1, <2>3, <2>4
<1>3. Inserted(entries, vpn, pfn, write) \in [Slots -> Entry]
  BY <1>1 DEF Inserted
<1>4. ASSUME NEW slot \in Slots
      PROVE  \/ Inserted(entries, vpn, pfn, write)[slot] = entries[slot]
             \/ /\ IsSlot(entries, slot)
                /\ Inserted(entries, vpn, pfn, write)[slot].vpn = vpn
                /\ Inserted(entries, vpn, pfn, write)[slot].pfn = pfn
                /\ Inserted(entries, vpn, pfn, write)[slot].dirty = write
  BY DEF Inserted
<1> QED BY <1>2, <1>3, <1>4

\* A hit counts a use and a write, and keeps the rest of the entry.
LEMMA TouchedFacts ==
  ASSUME NEW entry \in Entry, NEW write \in BOOLEAN
  PROVE  /\ Touched(entry, write) \in Entry
         /\ Touched(entry, write).vpn = entry.vpn
         /\ Touched(entry, write).pfn = entry.pfn
         /\ Touched(entry, write).valid = entry.valid
         /\ Touched(entry, write).dirty = (entry.dirty \/ write)
<1>1. (entry.used + 1) % UsedLimit \in 0 .. UsedLimit - 1
  <2>1. entry.used \in Nat /\ UsedLimit \in Nat \ {0}
    BY SizesAssumption DEF Entry
  <2> QED BY <2>1
<1> QED BY <1>1 DEF Touched, Entry

-----------------------------------------------------------------------------
(* The frame for a page.                                                   *)

\* The sweep stops: it comes back to a page whose valid bit it has cleared.
LEMMA StopType ==
  ASSUME NEW t
  PROVE  Stop(t) \in 1 .. NumFrames + 1
<1> DEFINE Stops == {k \in 1 .. NumFrames + 1 :
                       \/ ~t[SweptPage(k)].valid
                       \/ \E j \in 1 .. k - 1 : SweptPage(j) = SweptPage(k)}
<1>1. Stops \in SUBSET Nat
  BY SizesAssumption
<1>2. NumFrames + 1 \in Stops
  <2>1. SweptPage(NumFrames + 1) = SweptPage(1)
    BY SizesAssumption, ModWraps DEF SweptPage
  <2>2. 1 \in 1 .. NumFrames + 1 - 1 /\ NumFrames + 1 \in 1 .. NumFrames + 1
    BY SizesAssumption
  <2> DEFINE Again(k) == \E j \in 1 .. k - 1 : SweptPage(j) = SweptPage(k)
  <2>3. Again(NumFrames + 1)
    BY <2>1, <2>2, SizesAssumption
  <2>4. Stops = {k \in 1 .. NumFrames + 1 : ~t[SweptPage(k)].valid \/ Again(k)}
    OBVIOUS
  <2> HIDE DEF Again, Stops
  <2> QED BY <2>2, <2>3, <2>4
<1>3. Min(Stops) \in Stops
  <2> HIDE DEF Stops
  <2> QED BY <1>1, <1>2, NatMin
<1> QED BY <1>3 DEF Stop

\* get_free_frame() gives a frame, a free one if there is any, and takes the
\* valid bit from pages only if there is none.
LEMMA GetFreeFrameFacts ==
  ASSUME TypeOK, NEW t \in [Pages -> Pte]
  PROVE  /\ GetFreeFrame(t).frame \in Frames
         /\ GetFreeFrame(t).tables \in [Pages -> Pte]
         /\ \A page \in Pages :
              /\ GetFreeFrame(t).tables[page].valid => t[page].valid
              /\ GetFreeFrame(t).tables[page].pfn = t[page].pfn
              /\ GetFreeFrame(t).tables[page].dirty = t[page].dirty
         /\ FreeFrames # {} => /\ GetFreeFrame(t).frame \in FreeFrames
                               /\ GetFreeFrame(t).tables = t
<1>1. CASE FreeFrames # {}
  <2>1. FreeFrames \in SUBSET Nat
    BY SizesAssumption DEF FreeFrames, Frames
  <2>2. Min(FreeFrames) \in FreeFrames
    BY <1>1, <2>1, NatMin
  <2>3. GetFreeFrame(t) = [frame |-> Min(FreeFrames), tables |-> t]
    BY <1>1 DEF GetFreeFrame
  <2> QED BY <2>2, <2>3 DEF FreeFrames
<1>2. CASE FreeFrames = {} /\ ~t[rlt[0]].used
  <2>1. GetFreeFrame(t) = [frame |-> 0, tables |-> t]
    BY <1>2 DEF GetFreeFrame
  <2>2. 0 \in Frames
    BY SizesAssumption DEF Frames
  <2> QED BY <1>2, <2>1, <2>2
<1>3. CASE FreeFrames = {} /\ t[rlt[0]].used
  <2>1. GetFreeFrame(t) = [frame |-> Stop(t) % NumFrames, tables |-> Swept(t)]
    BY <1>3 DEF GetFreeFrame
  <2>2. Stop(t) % NumFrames \in Frames
    <3>1. Stop(t) \in Nat
      BY StopType, SizesAssumption
    <3> QED BY <3>1, SizesAssumption DEF Frames
  <2> DEFINE passed == {SweptPage(k) : k \in 1 .. Stop(t) - 1}
  <2>3. Swept(t) = [page \in Pages |->
                     [t[page] EXCEPT !.used  = @ /\ page # rlt[0],
                                     !.valid = @ /\ page \notin passed]]
    BY DEF Swept
  <2> HIDE DEF passed
  <2>4. ASSUME NEW page \in Pages
        PROVE  /\ Swept(t)[page] \in Pte
               /\ Swept(t)[page].valid => t[page].valid
               /\ Swept(t)[page].pfn = t[page].pfn
               /\ Swept(t)[page].dirty = t[page].dirty
    <3> DEFINE used  == t[page].used /\ page # rlt[0]
               valid == t[page].valid /\ page \notin passed
    <3>1. Swept(t)[page] = [t[page] EXCEPT !.used = used, !.valid = valid]
      BY <2>3
    <3>2. used \in BOOLEAN /\ valid \in BOOLEAN /\ (valid => t[page].valid)
      OBVIOUS
    <3>3. t[page] \in Pte
      OBVIOUS
    <3> HIDE DEF used, valid
    <3> QED BY <3>1, <3>2, <3>3 DEF Pte
  <2>5. Swept(t) \in [Pages -> Pte]
    BY <2>3, <2>4
  <2> QED BY <1>3, <2>1, <2>2, <2>4, <2>5
<1> QED BY <1>1, <1>2, <1>3

-----------------------------------------------------------------------------
(* A page fault.                                                           *)

\* The page that a fault evicts, none, and the swap file with it.
Evicts(page) ==
  LET free == GetFreeFrame(Marked(page))
  IN  rlt[free.frame] # NoPage /\ free.tables[rlt[free.frame]].valid

EvictedDisk(page) ==
  LET free == GetFreeFrame(Marked(page))
  IN  IF Evicts(page) /\ free.tables[rlt[free.frame]].dirty
      THEN PageToDisk(swap, free.frame, rlt[free.frame]) ELSE swap

\* pagetable_lookup() changes used bits only.
LEMMA MarkedFacts ==
  ASSUME TypeOK, NEW page \in Pages
  PROVE  /\ Marked(page) \in [Pages -> Pte]
         /\ \A p \in Pages : /\ Marked(page)[p].valid = tables[p].valid
                             /\ Marked(page)[p].pfn = tables[p].pfn
                             /\ Marked(page)[p].dirty = tables[p].dirty
<1>1. tables \in [Pages -> Pte]
  BY DEF TypeOK
<1>2. ASSUME NEW pte \in Pte
      PROVE  /\ [pte EXCEPT !.used = TRUE] \in Pte
             /\ [pte EXCEPT !.used = TRUE].valid = pte.valid
             /\ [pte EXCEPT !.used = TRUE].pfn = pte.pfn
             /\ [pte EXCEPT !.used = TRUE].dirty = pte.dirty
  BY DEF Pte
<1>3. Marked(page) = [tables EXCEPT ![page] = [tables[page] EXCEPT !.used = TRUE]]
  BY DEF Marked
<1> QED BY <1>1, <1>2, <1>3

\* What the machine m after a fault says of frames: the frame is the page's
\* from then on, its former page is not valid any more and every other valid
\* page keeps its own.
NewFrame(m, page) ==
  /\ m.pfn \in Frames
  /\ m.tables \in [Pages -> Pte]
  /\ m.rlt = [rlt EXCEPT ![m.pfn] = page]
  /\ m.tables[page].valid /\ m.tables[page].pfn = m.pfn /\ ~m.tables[page].dirty
  /\ \A other \in Pages \ {page} :
       /\ m.tables[other].pfn = tables[other].pfn
       /\ m.tables[other].dirty = tables[other].dirty
       /\ m.tables[other].valid => tables[other].valid /\ rlt[m.pfn] # other
       /\ FreeFrames # {} => m.tables[other].valid = tables[other].valid
  /\ FreeFrames # {} => m.pfn \in FreeFrames

\* A fault finds a new frame.
LEMMA FaultTables ==
  ASSUME TypeOK, NEW page \in Pages, NEW entries, NEW write \in BOOLEAN,
         NEW m, m = ByPageFault(entries, page, write)
  PROVE  NewFrame(m, page)
<1> DEFINE free   == GetFreeFrame(Marked(page))
           victim == rlt[free.frame]
           t      == IF Evicts(page) THEN Invalidated(free.tables, victim)
                     ELSE free.tables
<1>1. /\ free.frame \in Frames /\ free.tables \in [Pages -> Pte]
      /\ \A p \in Pages : /\ free.tables[p].valid => tables[p].valid
                          /\ free.tables[p].pfn = tables[p].pfn
                          /\ free.tables[p].dirty = tables[p].dirty
      /\ FreeFrames # {} =>
           /\ free.frame \in FreeFrames
           /\ \A p \in Pages : free.tables[p].valid = tables[p].valid
  BY MarkedFacts, GetFreeFrameFacts, SMTT(30)
<1>2. /\ m.pfn = free.frame /\ m.rlt = [rlt EXCEPT ![free.frame] = page]
      /\ m.tables = [t EXCEPT ![page] = [t[page] EXCEPT !.pfn = free.frame,
                                          !.valid = TRUE, !.dirty = FALSE]]
  BY DEF ByPageFault, Evicts, Owned
<1>3. victim \in Pages \cup {NoPage}
  BY <1>1 DEF TypeOK
<1>4. Evicts(page) <=> victim # NoPage /\ free.tables[victim].valid
  BY DEF Evicts
<1>5. FreeFrames # {} => victim = NoPage
  BY <1>1 DEF FreeFrames
<1> HIDE DEF free, victim
<1>6. ASSUME NEW pte \in Pte
      PROVE  /\ [pte EXCEPT !.valid = FALSE] \in Pte
             /\ ~[pte EXCEPT !.valid = FALSE].valid
             /\ [pte EXCEPT !.valid = FALSE].pfn = pte.pfn
             /\ [pte EXCEPT !.valid = FALSE].dirty = pte.dirty
  BY DEF Pte
<1>7. /\ t \in [Pages -> Pte]
      /\ \A p \in Pages : /\ t[p].valid => free.tables[p].valid /\ p # victim
                          /\ t[p].pfn = free.tables[p].pfn
                          /\ t[p].dirty = free.tables[p].dirty
                          /\ p # victim => t[p] = free.tables[p]
  <2>1. CASE Evicts(page)
    <3>1. t = [free.tables EXCEPT ![victim] = [free.tables[victim] EXCEPT
                                                 !.valid = FALSE]]
      BY <2>1 DEF Invalidated
    <3>2. victim \in Pages
      BY <1>3, <1>4, <2>1
    <3> HIDE DEF t
    <3> QED BY <1>1, <1>6, <3>1, <3>2
  <2>2. CASE ~Evicts(page)
    <3>1. t = free.tables
      BY <2>2
    <3>2. \A p \in Pages : free.tables[p].valid => p # victim
      BY <1>4, <2>2, NullAssumption
    <3> HIDE DEF t
    <3> QED BY <1>1, <3>1, <3>2
  <2> QED BY <2>1, <2>2
<1> HIDE DEF t
<1>8. ASSUME NEW pte \in Pte, NEW pfn \in Frames
      PROVE  /\ [pte EXCEPT !.pfn = pfn, !.valid = TRUE, !.dirty = FALSE] \in Pte
             /\ [pte EXCEPT !.pfn = pfn, !.valid = TRUE, !.dirty = FALSE].valid
             /\ [pte EXCEPT !.pfn = pfn, !.valid = TRUE, !.dirty = FALSE].pfn = pfn
             /\ ~[pte EXCEPT !.pfn = pfn, !.valid = TRUE, !.dirty = FALSE].dirty
  BY DEF Pte
<1>9. /\ m.tables \in [Pages -> Pte]
      /\ m.tables[page].valid /\ m.tables[page].pfn = m.pfn /\ ~m.tables[page].dirty
      /\ \A other \in Pages \ {page} : m.tables[other] = t[other]
  <2> DEFINE pte == [t[page] EXCEPT !.pfn = free.frame, !.valid = TRUE,
                                    !.dirty = FALSE]
  <2>1. pte \in Pte /\ pte.valid /\ pte.pfn = free.frame /\ ~pte.dirty
    <3>1. t[page] \in Pte /\ free.frame \in Frames
      BY <1>1, <1>7
    <3> QED BY <1>8, <3>1
  <2>2. m.tables = [t EXCEPT ![page] = pte]
    BY <1>2
  <2> HIDE DEF pte
  <2> QED BY <1>2, <1>7, <2>1, <2>2
<1>10. ASSUME NEW other \in Pages \ {page}
       PROVE  /\ m.tables[other].pfn = tables[other].pfn
              /\ m.tables[other].dirty = tables[other].dirty
              /\ m.tables[other].valid =>
                   tables[other].valid /\ rlt[m.pfn] # other
  BY <1>1, <1>2, <1>7, <1>9 DEF victim
<1>11. ASSUME NEW other \in Pages \ {page}, FreeFrames # {}
       PROVE  m.tables[other].valid = tables[other].valid
  BY <1>1, <1>5, <1>7, <1>9, <1>11, NullAssumption
<1> QED BY <1>1, <1>2, <1>9, <1>10, <1>11 DEF NewFrame

\* swap_page_to_disk() puts the page before the others.
LEMMA PageToDiskFacts ==
  ASSUME TypeOK, NEW disk \in Disks, NEW page \in Pages, NEW frame \in Frames
  PROVE  LET more == PageToDisk(disk, frame, page) IN
         /\ more \in Disks /\ Len(more) = Len(disk) + 1
         /\ DOMAIN more = 1 .. Len(disk) + 1 /\ DOMAIN disk = 1 .. Len(disk)
         /\ more[1].page = page
         /\ \A i \in 1 .. Len(disk) : more[i+1] = disk[i]
<1> DEFINE Copies == [page : Pages, data : Bytes]
           copy   == [page |-> page, data |-> memory[frame]]
           more   == PageToDisk(disk, frame, page)
<1>1. copy \in Copies /\ copy.page = page
  BY DEF TypeOK
<1> HIDE DEF Copies, copy
<1>2. disk \in Seq(Copies) /\ DOMAIN disk = 1 .. Len(disk) /\ Len(disk) \in Nat
  BY LenProperties DEF Disks, Copies
<1>3. <<copy>> \in Seq(Copies) /\ Len(<<copy>>) = 1 /\ <<copy>>[1] = copy
  BY <1>1
<1>4. more = <<copy>> \o disk
  BY DEF PageToDisk, copy
<1> HIDE DEF more
<1>5. /\ more \in Seq(Copies) /\ Len(more) = 1 + Len(disk)
      /\ \A i \in 1 .. 1 + Len(disk) :
           more[i] = IF i <= 1 THEN <<copy>>[i] ELSE disk[i - 1]
  BY <1>2, <1>3, <1>4, ConcatProperties
<1>6. DOMAIN more = 1 .. Len(disk) + 1
  BY <1>2, <1>5, LenProperties
<1>7. more[1] = copy
  BY <1>2, <1>3, <1>5
<1>8. \A i \in 1 .. Len(disk) : more[i+1] = disk[i]
  BY <1>2, <1>5
<1> QED BY <1>1, <1>2, <1>5, <1>6, <1>7, <1>8 DEF more, Copies, Disks

\* The swap file after a fault: what was in it but for the page, and the
\* victim, if that was valid.
LEMMA FaultSwap ==
  ASSUME TypeOK, NEW page \in Pages, ~tables[page].valid, NEW entries,
         NEW write \in BOOLEAN, NEW m, m = ByPageFault(entries, page, write)
  PROVE  /\ m.swap \in Disks
         /\ m.memory \in [Frames -> Bytes]
         /\ FreeFrames # {} /\ swap = << >> =>
              /\ m.swap = << >>
              /\ m.memory = [memory EXCEPT ![m.pfn] = Blank]
         /\ SwappedOnce =>
              /\ Once(m.swap)
              /\ \A i \in DOMAIN m.swap : ~m.tables[m.swap[i].page].valid
<1> DEFINE disk   == EvictedDisk(page)
           victim == rlt[m.pfn]
<1>0. /\ m.pfn \in Frames
      /\ \A p \in Pages \ {page} :
           m.tables[p].valid => tables[p].valid /\ rlt[m.pfn] # p
      /\ FreeFrames # {} => m.pfn \in FreeFrames
  <2>1. NewFrame(m, page)
    BY FaultTables
  <2> QED BY <2>1 DEF NewFrame
<1>1. /\ m.swap = Unlinked(disk, page)
      /\ m.memory = [memory EXCEPT ![m.pfn] = PageFromDisk(disk, page)]
      /\ \/ disk = swap
         \/ Evicts(page) /\ disk = PageToDisk(swap, m.pfn, victim)
  BY DEF ByPageFault, EvictedDisk, Evicts
<1>2. Evicts(page) => victim # NoPage /\ tables[victim].valid
  <2>1. m.pfn = GetFreeFrame(Marked(page)).frame
    BY DEF ByPageFault
  <2>2. rlt[m.pfn] \in Pages \cup {NoPage}
    BY <1>0 DEF TypeOK
  <2>3. ASSUME NEW p \in Pages, GetFreeFrame(Marked(page)).tables[p].valid
        PROVE  tables[p].valid
    BY <2>3, MarkedFacts, GetFreeFrameFacts
  <2> QED BY <2>1, <2>2, <2>3 DEF Evicts
<1>3. /\ m.pfn \in Frames /\ victim \in Pages \cup {NoPage}
      /\ FreeFrames # {} => victim = NoPage
      /\ \A p \in Pages \ {page} : m.tables[p].valid => tables[p].valid /\ victim # p
  BY <1>0 DEF TypeOK, FreeFrames
<1>4. swap \in Disks /\ memory \in [Frames -> Bytes]
  BY DEF TypeOK, Disks
<1> HIDE DEF disk, victim
<1>5. disk \in Disks
  BY <1>1, <1>2, <1>3, <1>4, PageToDiskFacts
<1>6. /\ Unlinked(disk, page) \in Disks
      /\ \A i \in DOMAIN Unlinked(disk, page) :
           \E j \in DOMAIN disk : Unlinked(disk, page)[i] = disk[j]
      /\ Once(disk) =>
           /\ Once(Unlinked(disk, page))
           /\ \A i \in DOMAIN Unlinked(disk, page) :
                Unlinked(disk, page)[i].page # page
  BY <1>5, UnlinkedFacts
<1>7. m.memory \in [Frames -> Bytes]
  BY <1>1, <1>3, <1>4, <1>5, PageFromDiskType
<1>8. ASSUME FreeFrames # {}, swap = << >>
      PROVE  m.swap = << >> /\ m.memory = [memory EXCEPT ![m.pfn] = Blank]
  <2>1. disk = << >>
    BY <1>1, <1>2, <1>3, <1>8
  <2>2. OnDisk(disk, page) = {}
    BY <2>1 DEF OnDisk
  <2> QED BY <1>1, <2>1, <2>2 DEF Unlinked, PageFromDisk
<1>9. ASSUME SwappedOnce
      PROVE  Once(m.swap) /\ \A i \in DOMAIN m.swap : ~m.tables[m.swap[i].page].valid
  <2>1. /\ Once(disk)
        /\ \A j \in DOMAIN disk :
             \/ ~tables[disk[j].page].valid
             \/ disk[j].page = victim /\ victim \in Pages
    <3>1. CASE disk = swap
      BY <1>9, <3>1 DEF SwappedOnce, Once
    <3>2. CASE Evicts(page) /\ disk = PageToDisk(swap, m.pfn, victim)
      <4>1. victim \in Pages /\ tables[victim].valid
        BY <1>2, <1>3, <3>2
      <4>2. /\ DOMAIN disk = 1 .. Len(swap) + 1 /\ DOMAIN swap = 1 .. Len(swap)
            /\ disk[1].page = victim
            /\ \A i \in 1 .. Len(swap) : disk[i+1] = swap[i]
        BY <1>3, <1>4, <3>2, <4>1, PageToDiskFacts
      <4>3. Len(swap) \in Nat
        BY <1>4 DEF Disks
      <4>4. \A i \in 1 .. Len(swap) + 1 :
              \/ i = 1
              \/ i - 1 \in 1 .. Len(swap) /\ disk[i] = swap[i-1]
        <5> TAKE i \in 1 .. Len(swap) + 1
        <5>1. CASE i # 1
          <6>1. i - 1 \in 1 .. Len(swap) /\ (i - 1) + 1 = i
            BY <4>3, <5>1
          <6> QED BY <4>2, <6>1
        <5> QED BY <5>1
      <4>5. \A i \in 1 .. Len(swap) : swap[i].page # victim /\ ~tables[swap[i].page].valid
        BY <1>9, <4>1, <4>2 DEF SwappedOnce
      <4>6. \A i, j \in 1 .. Len(swap) : swap[i].page = swap[j].page => i = j
        BY <1>9, <4>2 DEF SwappedOnce
      <4>7. Once(disk)
        <5> SUFFICES ASSUME NEW i \in 1 .. Len(swap) + 1, NEW j \in 1 .. Len(swap) + 1,
                            disk[i].page = disk[j].page
                     PROVE  i = j
          BY <4>2 DEF Once
        <5>1. CASE i = 1
          BY <4>2, <4>4, <4>5, <5>1
        <5>2. CASE j = 1
          BY <4>2, <4>4, <4>5, <5>2
        <5>3. CASE i # 1 /\ j # 1
          <6>1. i - 1 = j - 1
            BY <4>4, <4>6, <5>3
          <6> QED BY <4>3, <6>1
        <5> QED BY <5>1, <5>2, <5>3
      <4>8. \A j \in DOMAIN disk :
              \/ ~tables[disk[j].page].valid
              \/ disk[j].page = victim /\ victim \in Pages
        BY <4>1, <4>2, <4>4, <4>5
      <4> QED BY <4>7, <4>8
    <3> QED BY <1>1, <3>1, <3>2
  <2>2. ASSUME NEW i \in DOMAIN m.swap
        PROVE  ~m.tables[m.swap[i].page].valid
    <3>1. PICK j \in DOMAIN disk : m.swap[i] = disk[j]
      BY <1>1, <1>6, <2>2
    <3>2. m.swap[i].page # page /\ m.swap[i].page \in Pages
      <4>1. disk[j] \in [page : Pages, data : Bytes]
        BY <1>5, <3>1, LenProperties, ElementOfSeq DEF Disks
      <4>2. disk[j].page \in Pages
        BY <4>1
      <4> QED BY <1>1, <1>6, <2>1, <2>2, <3>1, <4>2
    <3> QED BY <1>3, <2>1, <3>1, <3>2
  <2> QED BY <1>1, <1>6, <2>1, <2>2
<1> QED BY <1>1, <1>6, <1>7, <1>8, <1>9

-----------------------------------------------------------------------------
(* A translation.                                                          *)

MachineType(m) ==
  /\ m.pfn \in Frames
  /\ m.tlb \in [Slots -> Entry]
  /\ m.tables \in [Pages -> Pte]
  /\ m.rlt \in [Frames -> Pages \cup {NoPage}]
  /\ m.memory \in [Frames -> Bytes]
  /\ m.swap \in Disks

\* No page moves.
SameFrames(m) ==
  /\ m.rlt = rlt /\ m.memory = memory /\ m.swap = swap
  /\ \A page \in Pages : /\ m.tables[page].valid = tables[page].valid
                         /\ m.tables[page].pfn = tables[page].pfn
                         /\ m.tables[page].dirty = tables[page].dirty

\* The TLB e after a translation: what was there of other pages, and entries
\* of the page that lead to its frame.
TlbAfter(m, e, page, write) ==
  \A slot \in Slots : m.tlb[slot].valid =>
    \/ m.tlb[slot].vpn # page[2] /\ m.tlb[slot] = e[slot]
    \/ /\ m.tlb[slot].vpn = page[2]
       /\ m.tlb[slot].pfn = m.pfn
       /\ m.tlb[slot].dirty =>
            write \/ (slot \in Hits(e, page[2]) /\ e[slot].dirty)

\* No two valid entries are of one page.
NoTwins(entries) ==
  \A slot, other \in Slots :
    /\ entries[slot].valid /\ entries[other].valid
    /\ entries[slot].vpn = entries[other].vpn
    => slot = other

\* An entry is a hit or not, and the last hit is one.
LEMMA HitsFacts ==
  ASSUME NEW e \in [Slots -> Entry], NEW vpn \in Vpns
  PROVE  /\ \A slot \in Slots :
              slot \in Hits(e, vpn) <=> e[slot].valid /\ e[slot].vpn = vpn
         /\ Hits(e, vpn) # {} => Max(Hits(e, vpn)) \in Hits(e, vpn)
<1>1. Hits(e, vpn) \in SUBSET (1 .. TlbSize)
  BY DEF Hits, Slots
<1>2. Hits(e, vpn) # {} => Max(Hits(e, vpn)) \in Hits(e, vpn)
  BY <1>1, NatMax, SizesAssumption
<1> QED BY <1>2 DEF Hits

\* A hit in the TLB moves no page and touches the entries of the page.
LEMMA HitStep ==
  ASSUME TypeOK, NEW page \in Pages, NEW e \in [Slots -> Entry],
         NEW write \in BOOLEAN, Hits(e, page[2]) # {},
         NEW m, m = ByTlb(e, page, write)
  PROVE  /\ MachineType(m) /\ SameFrames(m)
         /\ m.pfn = e[Max(Hits(e, page[2]))].pfn
         /\ NoTwins(e) => TlbAfter(m, e, page, write) /\ NoTwins(m.tlb)
<1>0. page[2] \in Vpns
  BY DEF Pages
<1>1. /\ m.tables = tables /\ m.rlt = rlt /\ m.memory = memory /\ m.swap = swap
      /\ m.pfn = e[Max(Hits(e, page[2]))].pfn
      /\ m.tlb = [slot \in Slots |-> IF slot \in Hits(e, page[2])
                                     THEN Touched(e[slot], write) ELSE e[slot]]
  BY DEF ByTlb
<1>2. /\ \A slot \in Slots :
           slot \in Hits(e, page[2]) <=> e[slot].valid /\ e[slot].vpn = page[2]
      /\ Max(Hits(e, page[2])) \in Hits(e, page[2])
  BY <1>0, HitsFacts
<1>3. Max(Hits(e, page[2])) \in Slots
  BY <1>2 DEF Hits
<1>4. m.pfn \in Frames
  BY <1>1, <1>3 DEF Entry
<1>5. \A slot \in Slots : Touched(e[slot], write) \in Entry
  BY TouchedFacts
<1>6. MachineType(m)
  BY <1>1, <1>4, <1>5 DEF MachineType, TypeOK, Disks
<1>7. SameFrames(m)
  BY <1>1 DEF SameFrames
<1>8. ASSUME NEW slot \in Slots
      PROVE  /\ m.tlb[slot].valid = e[slot].valid /\ m.tlb[slot].vpn = e[slot].vpn
             /\ m.tlb[slot].pfn = e[slot].pfn
             /\ slot \notin Hits(e, page[2]) => m.tlb[slot] = e[slot]
             /\ slot \in Hits(e, page[2]) =>
                  m.tlb[slot].dirty = (e[slot].dirty \/ write)
  BY <1>1, TouchedFacts
<1>9. ASSUME NoTwins(e)
      PROVE  TlbAfter(m, e, page, write) /\ NoTwins(m.tlb)
  <2>1. NoTwins(m.tlb)
    BY <1>8, <1>9 DEF NoTwins
  <2>2. ASSUME NEW slot \in Slots, m.tlb[slot].valid
        PROVE  \/ m.tlb[slot].vpn # page[2] /\ m.tlb[slot] = e[slot]
               \/ /\ m.tlb[slot].vpn = page[2]
                  /\ m.tlb[slot].pfn = m.pfn
                  /\ m.tlb[slot].dirty =>
                       write \/ (slot \in Hits(e, page[2]) /\ e[slot].dirty)
    <3>1. CASE slot \in Hits(e, page[2])
      <4>1. slot = Max(Hits(e, page[2]))
        BY <1>2, <1>3, <1>9, <3>1 DEF NoTwins
      <4> QED BY <1>1, <1>2, <1>8, <3>1, <4>1
    <3>2. CASE slot \notin Hits(e, page[2])
      BY <1>2, <1>8, <2>2, <3>2
    <3> QED BY <3>1, <3>2
  <2> QED BY <2>1, <2>2 DEF TlbAfter
<1> QED BY <1>1, <1>6, <1>7, <1>9

\* A page that misses the TLB gets one entry of it.
LEMMA InsertStep ==
  ASSUME NEW page \in Pages, NEW e \in [Slots -> Entry], Hits(e, page[2]) = {},
         NEW write \in BOOLEAN, NEW d \in [Slots -> Entry],
         \A slot \in Slots : d[slot].valid => d[slot] = e[slot],
         NEW m, m.pfn \in Frames, m.tlb = Inserted(d, page[2], m.pfn, write)
  PROVE  /\ m.tlb \in [Slots -> Entry]
         /\ TlbAfter(m, e, page, write)
         /\ NoTwins(e) => NoTwins(m.tlb)
<1>0. page[2] \in Vpns
  BY DEF Pages
<1>1. /\ m.tlb \in [Slots -> Entry]
      /\ \A slot \in Slots :
           \/ m.tlb[slot] = d[slot]
           \/ /\ IsSlot(d, slot)
              /\ m.tlb[slot].vpn = page[2]
              /\ m.tlb[slot].pfn = m.pfn
              /\ m.tlb[slot].dirty = write
      /\ \A slot, other \in Slots : IsSlot(d, slot) /\ IsSlot(d, other) => slot = other
  BY <1>0, InsertedFacts
<1>2. \A slot \in Slots : e[slot].valid => e[slot].vpn # page[2]
  BY <1>0, HitsFacts
<1>3. ASSUME NEW slot \in Slots, m.tlb[slot].valid
      PROVE  \/ /\ m.tlb[slot].vpn # page[2] /\ m.tlb[slot] = e[slot]
             \/ /\ m.tlb[slot].vpn = page[2] /\ m.tlb[slot].pfn = m.pfn
                /\ m.tlb[slot].dirty = write /\ IsSlot(d, slot)
  BY <1>1, <1>2, <1>3
<1>4. TlbAfter(m, e, page, write)
  BY <1>3 DEF TlbAfter
<1>5. ASSUME NoTwins(e)
      PROVE  NoTwins(m.tlb)
  <2> SUFFICES ASSUME NEW slot \in Slots, NEW other \in Slots,
                      m.tlb[slot].valid, m.tlb[other].valid,
                      m.tlb[slot].vpn = m.tlb[other].vpn
               PROVE  slot = other
    BY DEF NoTwins
  <2>1. CASE m.tlb[slot].vpn = page[2]
    BY <1>1, <1>3, <2>1
  <2>2. CASE m.tlb[slot].vpn # page[2]
    BY <1>3, <1>5, <2>2 DEF NoTwins
  <2> QED BY <2>1, <2>2
<1> QED BY <1>1, <1>4, <1>5

\* A page that is valid stays where it is.
LEMMA PageTableStep ==
  ASSUME TypeOK, NEW page \in Pages, NEW e \in [Slots -> Entry],
         NEW write \in BOOLEAN, Hits(e, page[2]) = {},
         NEW m, m = ByPageTable(e, page, write)
  PROVE  /\ MachineType(m) /\ SameFrames(m) /\ m.pfn = tables[page].pfn
         /\ TlbAfter(m, e, page, write) /\ (NoTwins(e) => NoTwins(m.tlb))
<1>1. /\ m.tables = Marked(page) /\ m.rlt = rlt /\ m.memory = memory
      /\ m.swap = swap /\ m.pfn = tables[page].pfn
      /\ m.tlb = Inserted(e, page[2], m.pfn, write)
  BY DEF ByPageTable
<1>2. m.pfn \in Frames
  BY <1>1 DEF TypeOK, Pte
<1>3. /\ m.tlb \in [Slots -> Entry]
      /\ TlbAfter(m, e, page, write) /\ (NoTwins(e) => NoTwins(m.tlb))
  BY <1>1, <1>2, InsertStep
<1>4. SameFrames(m)
  BY <1>1, MarkedFacts DEF SameFrames
<1>5. MachineType(m)
  BY <1>1, <1>2, <1>3, MarkedFacts DEF MachineType, TypeOK, Disks
<1> QED BY <1>1, <1>3, <1>4, <1>5

\* A page that is not valid gets a frame.
LEMMA PageFaultStep ==
  ASSUME TypeOK, NEW page \in Pages, NEW e \in [Slots -> Entry],
         NEW write \in BOOLEAN, Hits(e, page[2]) = {}, ~tables[page].valid,
         NEW m, m = ByPageFault(e, page, write)
  PROVE  /\ MachineType(m) /\ NewFrame(m, page)
         /\ TlbAfter(m, e, page, write) /\ (NoTwins(e) => NoTwins(m.tlb))
<1>1. NewFrame(m, page)
  BY FaultTables
<1>2. m.swap \in Disks /\ m.memory \in [Frames -> Bytes]
  BY FaultSwap
<1> DEFINE victim == rlt[m.pfn]
           d      == IF Evicts(page) THEN ClearOne(e, victim[2]) ELSE e
<1>3. m.tlb = Inserted(d, page[2], m.pfn, write)
  BY DEF ByPageFault, Evicts
<1>4. Evicts(page) => victim # NoPage
  BY DEF Evicts, ByPageFault
<1>5. Evicts(page) => victim[2] \in Vpns
  <2>1. victim \in Pages \cup {NoPage}
    BY <1>1 DEF NewFrame, TypeOK
  <2> HIDE DEF victim
  <2> QED BY <1>4, <2>1 DEF Pages
<1> HIDE DEF victim
<1>6. /\ d \in [Slots -> Entry]
      /\ \A slot \in Slots : d[slot].valid => d[slot] = e[slot]
  <2>1. CASE Evicts(page)
    BY <1>5, <2>1, ClearOneFacts
  <2>2. CASE ~Evicts(page)
    BY <2>2
  <2> QED BY <2>1, <2>2
<1> HIDE DEF d
<1>7. /\ m.tlb \in [Slots -> Entry]
      /\ TlbAfter(m, e, page, write) /\ (NoTwins(e) => NoTwins(m.tlb))
  BY <1>1, <1>3, <1>6, InsertStep DEF NewFrame
<1>8. m.rlt \in [Frames -> Pages \cup {NoPage}]
  BY <1>1 DEF NewFrame, TypeOK
<1>9. MachineType(m)
  BY <1>1, <1>2, <1>7, <1>8 DEF MachineType, NewFrame
<1> QED BY <1>1, <1>7, <1>9

\* The three ways to find a page.
LEMMA LookupStep ==
  ASSUME TypeOK, NEW page \in Pages, NEW e \in [Slots -> Entry],
         NEW write \in BOOLEAN, NEW m, m = TlbLookup(e, page, write)
  PROVE  /\ MachineType(m)
         /\ NoTwins(e) => TlbAfter(m, e, page, write) /\ NoTwins(m.tlb)
         /\ \/ /\ Hits(e, page[2]) # {} /\ SameFrames(m)
               /\ m.pfn = e[Max(Hits(e, page[2]))].pfn
            \/ /\ Hits(e, page[2]) = {} /\ tables[page].valid /\ SameFrames(m)
               /\ m.pfn = tables[page].pfn
            \/ /\ Hits(e, page[2]) = {} /\ ~tables[page].valid /\ NewFrame(m, page)
               /\ m = ByPageFault(e, page, write)
<1>1. CASE Hits(e, page[2]) # {}
  <2>1. m = ByTlb(e, page, write)
    BY <1>1 DEF TlbLookup
  <2> QED BY <1>1, <2>1, HitStep
<1>2. CASE Hits(e, page[2]) = {} /\ tables[page].valid
  <2>1. m = ByPageTable(e, page, write)
    BY <1>2 DEF TlbLookup
  <2> QED BY <1>2, <2>1, PageTableStep
<1>3. CASE Hits(e, page[2]) = {} /\ ~tables[page].valid
  <2>1. m = ByPageFault(e, page, write)
    BY <1>3 DEF TlbLookup
  <2> QED BY <1>3, <2>1, PageFaultStep
<1> QED BY <1>1, <1>2, <1>3

-----------------------------------------------------------------------------
(* A command.                                                              *)

\* What a load and a store of a page have in common.
Accesses(pid, page, write, m) ==
  /\ pid \in forked /\ current' = pid /\ UNCHANGED forked
  /\ m = TlbLookup(TlbFor(pid), page, write)
  /\ Machine(m, page, write)

\* Every command but a fork translates an address.
LEMMA StepCases ==
  ASSUME Next
  PROVE  \/ \E pid \in Pids : Fork(pid)
         \/ \E pid \in Pids, vpn \in Vpns, offset \in Offsets :
              \E m : /\ Accesses(pid, <<pid, vpn>>, FALSE, m)
                     /\ Load(pid, vpn, offset)
                     /\ memory' = m.memory /\ UNCHANGED stored
                     /\ mismatch' = (m.memory[m.pfn][offset]
                                       # stored[<<pid, vpn>>][offset])
         \/ \E pid \in Pids, vpn \in Vpns, offset \in Offsets, value \in Values :
              \E m : /\ Accesses(pid, <<pid, vpn>>, TRUE, m)
                     /\ Store(pid, vpn, offset, value)
                     /\ memory' = [m.memory EXCEPT ![m.pfn][offset] = value]
                     /\ stored' = [stored EXCEPT ![<<pid, vpn>>][offset] = value]
                     /\ mismatch' = FALSE
<1>1. CASE \E pid \in Pids : Fork(pid)
  BY <1>1
<1>2. ASSUME NEW pid \in Pids, NEW vpn \in Vpns, NEW offset \in Offsets,
             Load(pid, vpn, offset)
      PROVE  \E m : /\ Accesses(pid, <<pid, vpn>>, FALSE, m)
                    /\ Load(pid, vpn, offset)
                    /\ memory' = m.memory /\ UNCHANGED stored
                    /\ mismatch' = (m.memory[m.pfn][offset]
                                      # stored[<<pid, vpn>>][offset])
  <2>1. PICK m \in {TlbLookup(TlbFor(pid), <<pid, vpn>>, FALSE)} :
          /\ Machine(m, <<pid, vpn>>, FALSE) /\ memory' = m.memory
          /\ mismatch' = (m.memory[m.pfn][offset] # stored[<<pid, vpn>>][offset])
    BY <1>2, Zenon DEF Load
  <2>2. Accesses(pid, <<pid, vpn>>, FALSE, m)
    BY <1>2, <2>1, Zenon DEF Load, Accesses
  <2> QED BY <1>2, <2>1, <2>2, Zenon DEF Load
<1>3. ASSUME NEW pid \in Pids, NEW vpn \in Vpns, NEW offset \in Offsets,
             NEW value \in Values, Store(pid, vpn, offset, value)
      PROVE  \E m : /\ Accesses(pid, <<pid, vpn>>, TRUE, m)
                    /\ Store(pid, vpn, offset, value)
                    /\ memory' = [m.memory EXCEPT ![m.pfn][offset] = value]
                    /\ stored' = [stored EXCEPT ![<<pid, vpn>>][offset] = value]
                    /\ mismatch' = FALSE
  <2>1. PICK m \in {TlbLookup(TlbFor(pid), <<pid, vpn>>, TRUE)} :
          /\ Machine(m, <<pid, vpn>>, TRUE)
          /\ memory' = [m.memory EXCEPT ![m.pfn][offset] = value]
    BY <1>3, Zenon DEF Store
  <2>2. Accesses(pid, <<pid, vpn>>, TRUE, m)
    BY <1>3, <2>1, Zenon DEF Store, Accesses
  <2> QED BY <1>3, <2>1, <2>2, Zenon DEF Store
<1> QED BY <1>1, <1>2, <1>3, Zenon DEF Next

\* The page tables after an access: a write makes the page dirty.
LEMMA DirtyFacts ==
  ASSUME NEW m, MachineType(m), NEW page \in Pages, NEW write \in BOOLEAN,
         Machine(m, page, write)
  PROVE  /\ tables' \in [Pages -> Pte]
         /\ \A p \in Pages :
              /\ tables'[p].valid = m.tables[p].valid
              /\ tables'[p].pfn = m.tables[p].pfn
              /\ tables'[p].dirty <=> m.tables[p].dirty \/ (write /\ p = page)
<1>1. m.tables \in [Pages -> Pte]
  BY DEF MachineType
<1>2. ASSUME NEW pte \in Pte
      PROVE  /\ [pte EXCEPT !.dirty = TRUE] \in Pte
             /\ [pte EXCEPT !.dirty = TRUE].valid = pte.valid
             /\ [pte EXCEPT !.dirty = TRUE].pfn = pte.pfn
             /\ [pte EXCEPT !.dirty = TRUE].dirty
  BY DEF Pte
<1>3. tables' = IF write
                THEN [m.tables EXCEPT ![page] = [m.tables[page] EXCEPT !.dirty = TRUE]]
                ELSE m.tables
  BY DEF Machine
<1>4. \A p \in Pages : m.tables[p].dirty \in BOOLEAN
  BY <1>1 DEF Pte
<1>5. CASE write
  <2> DEFINE pte == [m.tables[page] EXCEPT !.dirty = TRUE]
  <2>1. /\ pte \in Pte /\ pte.valid = m.tables[page].valid
        /\ pte.pfn = m.tables[page].pfn /\ pte.dirty
    BY <1>1, <1>2
  <2>2. tables' = [m.tables EXCEPT ![page] = pte]
    BY <1>3, <1>5
  <2> HIDE DEF pte
  <2>3. tables' \in [Pages -> Pte]
    BY <1>1, <2>1, <2>2
  <2>4. ASSUME NEW p \in Pages
        PROVE  /\ tables'[p].valid = m.tables[p].valid
               /\ tables'[p].pfn = m.tables[p].pfn
               /\ tables'[p].dirty <=> m.tables[p].dirty \/ (write /\ p = page)
    <3>1. CASE p = page
      BY <1>1, <1>5, <2>1, <2>2, <3>1
    <3>2. CASE p # page
      BY <1>1, <2>2, <3>2
    <3> QED BY <3>1, <3>2
  <2> QED BY <2>3, <2>4
<1>6. CASE ~write
  BY <1>1, <1>3, <1>4, <1>6
<1> QED BY <1>5, <1>6

-----------------------------------------------------------------------------
(* Type correctness.                                                       *)

\* The TLB of the process that a command is about.
LEMMA AccessLookup ==
  ASSUME TypeOK, NEW pid \in Pids, NEW page \in Pages, NEW write \in BOOLEAN,
         NEW m, Accesses(pid, page, write, m)
  PROVE  /\ TlbFor(pid) \in [Slots -> Entry]
         /\ MachineType(m)
         /\ NoTwins(TlbFor(pid)) =>
              TlbAfter(m, TlbFor(pid), page, write) /\ NoTwins(m.tlb)
         /\ \/ /\ Hits(TlbFor(pid), page[2]) # {} /\ SameFrames(m)
               /\ m.pfn = TlbFor(pid)[Max(Hits(TlbFor(pid), page[2]))].pfn
            \/ /\ Hits(TlbFor(pid), page[2]) = {} /\ tables[page].valid
               /\ SameFrames(m) /\ m.pfn = tables[page].pfn
            \/ /\ Hits(TlbFor(pid), page[2]) = {} /\ ~tables[page].valid
               /\ NewFrame(m, page) /\ m = ByPageFault(TlbFor(pid), page, write)
<1>1. TlbFor(pid) \in [Slots -> Entry]
  BY TlbForType
<1>2. m = TlbLookup(TlbFor(pid), page, write)
  BY DEF Accesses
<1> QED BY <1>1, <1>2, LookupStep

\* The types of all but memory and what the commands expect.
MachineTypeOK ==
  /\ forked \in SUBSET Pids /\ current \in forked \cup {NoPid}
  /\ tables \in [Pages -> Pte] /\ tlb \in [Slots -> Entry]
  /\ rlt \in [Frames -> Pages \cup {NoPage}]
  /\ swap \in Seq([page : Pages, data : Bytes])

\* An access keeps them.
LEMMA AccessType ==
  ASSUME TypeOK, NEW pid \in Pids, NEW page \in Pages, NEW write \in BOOLEAN,
         NEW m, Accesses(pid, page, write, m)
  PROVE  MachineTypeOK'
<1>1. MachineType(m)
  BY AccessLookup
<1>2. tables' \in [Pages -> Pte]
  BY <1>1, DirtyFacts DEF Accesses
<1> QED BY <1>1, <1>2 DEF Accesses, Machine, MachineType, MachineTypeOK, TypeOK, Disks

\* The variables have their types at first,
LEMMA InitType == Init => TypeOK
<1> SUFFICES ASSUME Init PROVE TypeOK
  OBVIOUS
<1>1. forked \in SUBSET Pids /\ current \in forked \cup {NoPid}
  BY DEF Init
<1>2. 0 \in Frames /\ 0 \in Vpns /\ 0 \in 0 .. UsedLimit - 1
  BY SizesAssumption DEF Frames, Vpns
<1>3. tables \in [Pages -> Pte] /\ tlb \in [Slots -> Entry]
  BY <1>2 DEF Init, Pte, Entry
<1>4. rlt \in [Frames -> Pages \cup {NoPage}]
  BY DEF Init
<1>5. memory \in [Frames -> Bytes] /\ stored \in [Pages -> Bytes]
  BY BlankBytes DEF Init
<1>6. swap \in Seq([page : Pages, data : Bytes])
  BY EmptySeq DEF Init
<1>7. mismatch \in BOOLEAN
  BY DEF Init
<1> QED BY <1>1, <1>3, <1>4, <1>5, <1>6, <1>7 DEF TypeOK

\* A byte of a page or a frame is replaced by a value.
LEMMA ByteStored ==
  ASSUME NEW S, NEW f \in [S -> Bytes], NEW x \in S, NEW offset \in Offsets,
         NEW value \in Values
  PROVE  [f EXCEPT ![x][offset] = value] \in [S -> Bytes]
<1>1. [f[x] EXCEPT ![offset] = value] \in Bytes
  BY DEF Bytes
<1>2. [f EXCEPT ![x][offset] = value] =
        [f EXCEPT ![x] = [f[x] EXCEPT ![offset] = value]]
  OBVIOUS
<1> HIDE DEF Bytes
<1> QED BY <1>1, <1>2

\* and after every command.
LEMMA NextType ==
  ASSUME TypeOK, Next
  PROVE  TypeOK'
<1>1. ASSUME NEW pid \in Pids, Fork(pid)
      PROVE  TypeOK'
  BY <1>1 DEF Fork, TypeOK
<1>2. ASSUME NEW pid \in Pids, NEW vpn \in Vpns, NEW offset \in Offsets, NEW m,
             Accesses(pid, <<pid, vpn>>, FALSE, m),
             memory' = m.memory, UNCHANGED stored,
             mismatch' = (m.memory[m.pfn][offset] # stored[<<pid, vpn>>][offset])
      PROVE  TypeOK'
  <2>1. <<pid, vpn>> \in Pages
    BY DEF Pages
  <2>2. MachineType(m)
    BY <1>2, <2>1, AccessLookup
  <2>3. memory' \in [Frames -> Bytes] /\ stored' \in [Pages -> Bytes]
    BY <1>2, <2>2 DEF MachineType, TypeOK
  <2>4. mismatch' \in BOOLEAN
    BY <1>2
  <2>5. MachineTypeOK'
    BY <1>2, <2>1, AccessType
  <2> QED BY <2>3, <2>4, <2>5, ZenonT(60) DEF MachineTypeOK, TypeOK
<1>3. ASSUME NEW pid \in Pids, NEW vpn \in Vpns, NEW offset \in Offsets,
             NEW value \in Values, NEW m,
             Accesses(pid, <<pid, vpn>>, TRUE, m),
             memory' = [m.memory EXCEPT ![m.pfn][offset] = value],
             stored' = [stored EXCEPT ![<<pid, vpn>>][offset] = value],
             mismatch' = FALSE
      PROVE  TypeOK'
  <2>1. <<pid, vpn>> \in Pages
    BY DEF Pages
  <2>2. MachineType(m)
    BY <1>3, <2>1, AccessLookup
  <2>3. memory' \in [Frames -> Bytes]
    BY <1>3, <2>2, ByteStored DEF MachineType
  <2>4. stored' \in [Pages -> Bytes]
    BY <1>3, <2>1, ByteStored DEF TypeOK
  <2>5. MachineTypeOK'
    BY <1>3, <2>1, AccessType
  <2>6. mismatch' \in BOOLEAN
    BY <1>3
  <2> QED BY <2>3, <2>4, <2>5, <2>6, ZenonT(60) DEF MachineTypeOK, TypeOK
<1> QED BY <1>1, <1>2, <1>3, StepCases, ZenonT(60)

\* Every variable keeps its type, for any sizes: no frame number, page number
\* or use counter leaves its range, whichever way a page is found.
THEOREM TypeCorrect == Spec => []TypeOK
<1>1. Init => TypeOK
  BY InitType
<1>2. TypeOK /\ [Next]_vars => TypeOK'
  <2> SUFFICES ASSUME TypeOK, [Next]_vars PROVE TypeOK'
    OBVIOUS
  <2>1. CASE Next
    BY <2>1, NextType
  <2>2. CASE UNCHANGED vars
    BY <2>2 DEF vars, TypeOK
  <2> QED BY <2>1, <2>2
<1> QED BY <1>1, <1>2, PTL DEF Spec

-----------------------------------------------------------------------------
(* Frames and the swap file.                                               *)

\* A page that moves takes its frame from the page that had it.
LEMMA AccessFrames ==
  ASSUME TypeOK, FramesOwned, NEW pid \in Pids, NEW page \in Pages,
         NEW write \in BOOLEAN, NEW m, Accesses(pid, page, write, m)
  PROVE  FramesOwned'
<1>1. MachineType(m) /\ (SameFrames(m) \/ NewFrame(m, page))
  BY AccessLookup
<1>2. /\ rlt' = m.rlt
      /\ \A p \in Pages : /\ tables'[p].valid = m.tables[p].valid
                          /\ tables'[p].pfn = m.tables[p].pfn
  BY <1>1, DirtyFacts DEF Accesses, Machine
<1>3. CASE SameFrames(m)
  BY <1>2, <1>3 DEF FramesOwned, SameFrames
<1>4. CASE NewFrame(m, page)
  <2>1. rlt' = [rlt EXCEPT ![m.pfn] = page] /\ m.pfn \in Frames
    BY <1>2, <1>4 DEF NewFrame
  <2>2. ASSUME NEW p \in Pages, tables'[p].valid
        PROVE  rlt'[tables'[p].pfn] = p
    <3>1. CASE p = page
      BY <1>2, <1>4, <2>1, <3>1 DEF NewFrame, TypeOK
    <3>2. CASE p # page
      <4>1. /\ tables[p].valid /\ tables'[p].pfn = tables[p].pfn
            /\ rlt[m.pfn] # p
        BY <1>2, <1>4, <2>2, <3>2 DEF NewFrame
      <4>2. rlt[tables[p].pfn] = p /\ tables[p].pfn \in Frames
        BY <4>1 DEF FramesOwned, TypeOK, Pte
      <4> QED BY <2>1, <4>1, <4>2 DEF TypeOK
    <3> QED BY <3>1, <3>2
  <2> QED BY <2>2 DEF FramesOwned
<1> QED BY <1>1, <1>3, <1>4

\* A page enters the swap file when it stops being valid, and leaves it when
\* it becomes valid again.
LEMMA AccessSwap ==
  ASSUME TypeOK, SwappedOnce, NEW pid \in Pids, NEW page \in Pages,
         NEW write \in BOOLEAN, NEW m, Accesses(pid, page, write, m)
  PROVE  SwappedOnce'
<1>1. /\ MachineType(m)
      /\ \/ SameFrames(m)
         \/ ~tables[page].valid /\ m = ByPageFault(TlbFor(pid), page, write)
  BY AccessLookup
<1>2. /\ swap' = m.swap
      /\ \A p \in Pages : tables'[p].valid = m.tables[p].valid
  BY <1>1, DirtyFacts DEF Accesses, Machine
<1>3. \A i \in DOMAIN m.swap : m.swap[i].page \in Pages
  <2> DEFINE Copies == [page : Pages, data : Bytes]
  <2>1. \A copy \in Copies : copy.page \in Pages
    OBVIOUS
  <2> HIDE DEF Copies
  <2>2. m.swap \in Seq(Copies)
    BY <1>1 DEF MachineType, Disks, Copies
  <2>3. \A i \in DOMAIN m.swap : m.swap[i] \in Copies
    BY <2>2, LenProperties, ElementOfSeq
  <2> QED BY <2>1, <2>3
<1>4. Once(m.swap) /\ \A i \in DOMAIN m.swap : ~m.tables[m.swap[i].page].valid
  <2>1. CASE SameFrames(m)
    <3>1. m.swap = swap
      BY <2>1 DEF SameFrames
    <3>2. \A p \in Pages : m.tables[p].valid = tables[p].valid
      BY <2>1 DEF SameFrames
    <3> QED BY <1>3, <3>1, <3>2 DEF SwappedOnce, Once
  <2>2. CASE ~tables[page].valid /\ m = ByPageFault(TlbFor(pid), page, write)
    BY <2>2, FaultSwap
  <2> QED BY <1>1, <2>1, <2>2
<1> QED BY <1>2, <1>3, <1>4 DEF SwappedOnce, Once

\* What the swap file and the frames keep does not depend on the offset of an
\* access or on its value, so that a step is a fork or an access.
LEMMA StepAccess ==
  ASSUME Next
  PROVE  \/ \E pid \in Pids : Fork(pid)
         \/ \E pid \in Pids, page \in Pages, write \in BOOLEAN :
              page[1] = pid /\ \E m : Accesses(pid, page, write, m)
<1>1. \A pid \in Pids, vpn \in Vpns : <<pid, vpn>> \in Pages /\ <<pid, vpn>>[1] = pid
  BY DEF Pages
<1>2. ASSUME NEW pid \in Pids, NEW vpn \in Vpns, NEW write \in BOOLEAN,
             NEW m, Accesses(pid, <<pid, vpn>>, write, m)
      PROVE  \E page \in Pages : page[1] = pid /\ Accesses(pid, page, write, m)
  BY <1>1, <1>2
<1>3. TRUE \in BOOLEAN /\ FALSE \in BOOLEAN
  OBVIOUS
<1> QED BY <1>2, <1>3, StepCases, Zenon

\* The reverse lookup table names the owner of every frame that a page table
\* refers to, so that no two pages share a frame.
THEOREM FramesAreOwned == Spec => []FramesOwned
<1> DEFINE Inv == TypeOK /\ FramesOwned
<1>1. Init => Inv
  BY InitType DEF Init, FramesOwned
<1>2. Inv /\ [Next]_vars => Inv'
  <2> SUFFICES ASSUME Inv, [Next]_vars PROVE FramesOwned'
    BY NextType DEF vars, TypeOK
  <2>1. ASSUME NEW pid \in Pids, Fork(pid) PROVE FramesOwned'
    BY <2>1 DEF Fork, FramesOwned
  <2>2. CASE UNCHANGED vars
    BY <2>2 DEF vars, FramesOwned
  <2> QED BY <2>1, <2>2, StepAccess, AccessFrames
<1> QED BY <1>1, <1>2, PTL DEF Spec

\* A page is in the swap file at most once, and not while it is valid, so that
\* page_from_disk() finds the one copy there is.
THEOREM PagesAreSwappedOnce == Spec => []SwappedOnce
<1> DEFINE Inv == TypeOK /\ SwappedOnce
<1>1. Init => Inv
  BY InitType DEF Init, SwappedOnce
<1>2. Inv /\ [Next]_vars => Inv'
  <2> SUFFICES ASSUME Inv, [Next]_vars PROVE SwappedOnce'
    BY NextType DEF vars, TypeOK
  <2>1. ASSUME NEW pid \in Pids, Fork(pid) PROVE SwappedOnce'
    BY <2>1 DEF Fork, SwappedOnce
  <2>2. CASE UNCHANGED vars
    BY <2>2 DEF vars, SwappedOnce
  <2> QED BY <2>1, <2>2, StepAccess, AccessSwap
<1> QED BY <1>1, <1>2, PTL DEF Spec

-----------------------------------------------------------------------------
(* The TLB and the page tables.                                            *)

\* The entries of a TLB that process pid may use.
EntriesAgree(entries, pid) ==
  \A slot \in Slots : entries[slot].valid =>
    LET pte == tables[<<pid, entries[slot].vpn>>] IN
    pte.valid => pte.pfn = entries[slot].pfn /\ (entries[slot].dirty => pte.dirty)

\* Clearing the TLB at a switch is what makes its entries the process's own.
LEMMA TlbForAgrees ==
  ASSUME TypeOK, TlbAgrees, NEW pid \in Pids
  PROVE  NoTwins(TlbFor(pid)) /\ EntriesAgree(TlbFor(pid), pid)
<1>1. \A slot \in Slots : TlbFor(pid)[slot].valid =>
        current = pid /\ TlbFor(pid)[slot] = tlb[slot]
  BY TlbForType
<1>2. NoTwins(TlbFor(pid))
  BY <1>1 DEF TlbAgrees, NoTwins
<1>3. EntriesAgree(TlbFor(pid), pid)
  BY <1>1 DEF TlbAgrees, EntriesAgree
<1> QED BY <1>2, <1>3

\* A translation leads to the frame of the page table.
LEMMA RightFrame ==
  ASSUME TypeOK, TlbAgrees, NEW pid \in Pids, NEW page \in Pages, page[1] = pid,
         NEW write \in BOOLEAN, NEW m, Accesses(pid, page, write, m)
  PROVE  m.tables[page].valid => m.tables[page].pfn = m.pfn
<1> DEFINE e == TlbFor(pid)
           k == Max(Hits(e, page[2]))
<1>1. NoTwins(e) /\ EntriesAgree(e, pid) /\ e \in [Slots -> Entry]
  BY TlbForAgrees, TlbForType
<1>2. \/ /\ Hits(e, page[2]) # {} /\ SameFrames(m) /\ m.pfn = e[k].pfn
      \/ SameFrames(m) /\ m.pfn = tables[page].pfn
      \/ NewFrame(m, page)
  BY AccessLookup
<1>3. page[2] \in Vpns /\ page = <<pid, page[2]>>
  BY DEF Pages
<1> HIDE DEF e
<1>4. CASE Hits(e, page[2]) # {} /\ SameFrames(m) /\ m.pfn = e[k].pfn
  <2>1. k \in Hits(e, page[2])
    BY <1>1, <1>3, <1>4, HitsFacts
  <2> HIDE DEF k
  <2>2. k \in Slots /\ e[k].valid /\ e[k].vpn = page[2]
    BY <2>1 DEF Hits
  <2>3. tables[page].valid => tables[page].pfn = e[k].pfn
    BY <1>1, <1>3, <2>2 DEF EntriesAgree
  <2> QED BY <1>4, <2>3 DEF SameFrames
<1>5. CASE SameFrames(m) /\ m.pfn = tables[page].pfn
  BY <1>5 DEF SameFrames
<1>6. CASE NewFrame(m, page)
  BY <1>6 DEF NewFrame
<1> QED BY <1>2, <1>4, <1>5, <1>6

\* What an access does to other pages of the process and to its own page.
LEMMA AccessTlb ==
  ASSUME TypeOK, TlbAgrees, NEW pid \in Pids, NEW page \in Pages, page[1] = pid,
         NEW write \in BOOLEAN, NEW m, Accesses(pid, page, write, m)
  PROVE  TlbAgrees'
<1> DEFINE e == TlbFor(pid)
<1>1. NoTwins(e) /\ EntriesAgree(e, pid) /\ e \in [Slots -> Entry]
  BY TlbForAgrees, TlbForType
<1>2. /\ MachineType(m)
      /\ TlbAfter(m, e, page, write) /\ NoTwins(m.tlb)
      /\ \/ SameFrames(m)
         \/ Hits(e, page[2]) = {} /\ NewFrame(m, page)
  BY <1>1, AccessLookup
<1>3. m.tables[page].valid => m.tables[page].pfn = m.pfn
  BY RightFrame
<1> HIDE DEF e
<1>4. page[2] \in Vpns /\ page = <<pid, page[2]>>
  BY DEF Pages
<1>5. /\ tlb' = m.tlb /\ current' = pid /\ pid # NoPid
      /\ \A p \in Pages :
           /\ tables'[p].valid = m.tables[p].valid
           /\ tables'[p].pfn = m.tables[p].pfn
           /\ tables'[p].dirty <=> m.tables[p].dirty \/ (write /\ p = page)
  BY <1>2, DirtyFacts, NullAssumption DEF Accesses, Machine
<1>6. \A p \in Pages : p # page =>
        /\ m.tables[p].valid => tables[p].valid
        /\ m.tables[p].pfn = tables[p].pfn /\ m.tables[p].dirty = tables[p].dirty
  BY <1>2 DEF SameFrames, NewFrame
<1>7. ASSUME NEW slot \in Slots, tlb'[slot].valid
      PROVE  LET pte == tables'[<<pid, tlb'[slot].vpn>>] IN
             pte.valid => /\ pte.pfn = tlb'[slot].pfn
                          /\ tlb'[slot].dirty => pte.dirty
  <2>1. m.tlb[slot] \in Entry /\ m.tlb[slot].vpn \in Vpns
    BY <1>2 DEF MachineType, Entry
  <2>2. <<pid, m.tlb[slot].vpn>> \in Pages
    BY <2>1 DEF Pages
  <2>3. CASE m.tlb[slot].vpn # page[2] /\ m.tlb[slot] = e[slot]
    <3> DEFINE p == <<pid, m.tlb[slot].vpn>>
    <3>1. p # page
      BY <1>4, <2>3
    <3>2. tables[p].valid => /\ tables[p].pfn = e[slot].pfn
                             /\ e[slot].dirty => tables[p].dirty
      BY <1>1, <1>5, <1>7, <2>3 DEF EntriesAgree
    <3> HIDE DEF p
    <3>3. tables'[p].valid => /\ tables'[p].pfn = m.tlb[slot].pfn
                              /\ m.tlb[slot].dirty => tables'[p].dirty
      BY <1>5, <1>6, <2>2, <2>3, <3>1, <3>2 DEF p
    <3> QED BY <1>5, <3>3 DEF p
  <2>4. CASE /\ m.tlb[slot].vpn = page[2] /\ m.tlb[slot].pfn = m.pfn
             /\ m.tlb[slot].dirty =>
                  write \/ (slot \in Hits(e, page[2]) /\ e[slot].dirty)
    <3>1. tables'[page].valid => tables'[page].pfn = m.tlb[slot].pfn
      BY <1>3, <1>5, <2>4
    <3>2. tables'[page].valid /\ m.tlb[slot].dirty => tables'[page].dirty
      <4>1. CASE write
        BY <1>5, <4>1
      <4>2. CASE slot \in Hits(e, page[2]) /\ e[slot].dirty
        <5>1. SameFrames(m)
          BY <1>2, <4>2
        <5>2. e[slot].valid /\ e[slot].vpn = page[2]
          BY <4>2 DEF Hits
        <5>3. tables[page].valid => tables[page].dirty
          BY <1>1, <1>4, <4>2, <5>2 DEF EntriesAgree
        <5> QED BY <1>5, <5>1, <5>3 DEF SameFrames
      <4> QED BY <2>4, <4>1, <4>2
    <3>3. <<pid, tlb'[slot].vpn>> = page
      BY <1>4, <1>5, <2>4
    <3> QED BY <1>5, <3>1, <3>2, <3>3
  <2> QED BY <1>2, <1>5, <1>7, <2>3, <2>4 DEF TlbAfter
<1>8. \A slot, other \in Slots :
        /\ tlb'[slot].valid /\ tlb'[other].valid
        /\ tlb'[other].vpn = tlb'[slot].vpn
        => other = slot
  BY <1>2, <1>5 DEF NoTwins
<1> QED BY <1>5, <1>7, <1>8 DEF TlbAgrees

\* The valid entries of the TLB are about different pages of the process that
\* runs, and agree with its page table wherever that is valid.
THEOREM TlbAgreesWithTables == Spec => []TlbAgrees
<1> DEFINE Inv == TypeOK /\ TlbAgrees
<1>1. Init => Inv
  BY InitType DEF Init, TlbAgrees
<1>2. Inv /\ [Next]_vars => Inv'
  <2> SUFFICES ASSUME Inv, [Next]_vars PROVE TlbAgrees'
    BY NextType DEF vars, TypeOK
  <2>1. ASSUME NEW pid \in Pids, Fork(pid) PROVE TlbAgrees'
    BY <2>1 DEF Fork, TlbAgrees
  <2>2. CASE UNCHANGED vars
    BY <2>2 DEF vars, TlbAgrees
  <2> QED BY <2>1, <2>2, StepAccess, AccessTlb
<1> QED BY <1>1, <1>2, PTL DEF Spec

-----------------------------------------------------------------------------
(* What a page holds as long as a frame is free.                           *)

\* The swap file is empty until then too.
NoSwapUntilFull == FreeFrames # {} => swap = << >>

\* An access of a page leads to what was stored in it, and the other pages keep
\* their frames.
LeadsTo(m, page) ==
  /\ FreeFrames # {} /\ swap' = << >>
  /\ m.pfn \in Frames /\ m.memory \in [Frames -> Bytes]
  /\ m.memory[m.pfn] = stored[page]
  /\ tables'[page].valid /\ tables'[page].pfn = m.pfn
  /\ \A p \in Pages \ {page} :
       /\ tables'[p].valid = tables[p].valid
       /\ tables[p].valid =>
            /\ tables'[p].pfn \in Frames \ {m.pfn}
            /\ m.memory[tables'[p].pfn] = memory[tables[p].pfn]
  /\ \A slot \in Slots :
       tlb'[slot].valid => tables'[<<current', tlb'[slot].vpn>>].valid

\* It does as long as a frame is free.
LEMMA AccessCoherent ==
  ASSUME TypeOK, FramesOwned, TlbAgrees, CoherentUntilFull, NoSwapUntilFull,
         NEW pid \in Pids, NEW page \in Pages, page[1] = pid,
         NEW write \in BOOLEAN, NEW m, Accesses(pid, page, write, m),
         FreeFrames' # {}
  PROVE  LeadsTo(m, page)
<1> DEFINE e == TlbFor(pid)
<1>1. /\ NoTwins(e) /\ e \in [Slots -> Entry]
      /\ \A slot \in Slots : e[slot].valid => current = pid /\ e[slot] = tlb[slot]
  BY TlbForAgrees, TlbForType
<1>2. /\ MachineType(m) /\ TlbAfter(m, e, page, write)
      /\ \/ /\ Hits(e, page[2]) # {} /\ SameFrames(m)
         \/ tables[page].valid /\ SameFrames(m)
         \/ /\ ~tables[page].valid /\ NewFrame(m, page)
            /\ m = ByPageFault(e, page, write)
  BY <1>1, AccessLookup
<1>3. m.tables[page].valid => m.tables[page].pfn = m.pfn
  BY RightFrame
<1> HIDE DEF e
<1>4. page[2] \in Vpns /\ page = <<pid, page[2]>>
  BY DEF Pages
<1>5. /\ tlb' = m.tlb /\ current' = pid /\ rlt' = m.rlt /\ swap' = m.swap
      /\ \A p \in Pages : /\ tables'[p].valid = m.tables[p].valid
                          /\ tables'[p].pfn = m.tables[p].pfn
  BY <1>2, DirtyFacts DEF Accesses, Machine
<1>6. FreeFrames # {}
  <2>1. PICK frame \in Frames : m.rlt[frame] = NoPage
    BY <1>5 DEF FreeFrames
  <2>2. rlt[frame] = NoPage
    <3>1. page # NoPage /\ rlt \in [Frames -> Pages \cup {NoPage}]
      BY NullAssumption DEF TypeOK
    <3>2. CASE m.rlt = rlt
      BY <2>1, <3>2
    <3>3. CASE m.rlt = [rlt EXCEPT ![m.pfn] = page]
      BY <2>1, <3>1, <3>3
    <3> QED BY <1>2, <3>2, <3>3 DEF SameFrames, NewFrame
  <2> QED BY <2>2 DEF FreeFrames
<1>7. /\ swap = << >>
      /\ \A p \in Pages :
           stored[p] = IF tables[p].valid THEN memory[tables[p].pfn] ELSE Blank
      /\ \A slot \in Slots :
           tlb[slot].valid => tables[<<current, tlb[slot].vpn>>].valid
  BY <1>6 DEF CoherentUntilFull, NoSwapUntilFull
<1>8. \A p \in Pages : tables[p].valid =>
        tables[p].pfn \in Frames /\ rlt[tables[p].pfn] = p
  BY DEF FramesOwned, TypeOK, Pte
<1>9. /\ m.swap = << >> /\ m.tables[page].valid
      /\ m.memory[m.pfn] = stored[page]
      /\ \A p \in Pages \ {page} :
           /\ m.tables[p].valid = tables[p].valid
           /\ tables[p].valid =>
                /\ m.tables[p].pfn \in Frames \ {m.pfn}
                /\ m.memory[m.tables[p].pfn] = memory[tables[p].pfn]
  <2>1. CASE SameFrames(m) /\ tables[page].valid
    BY <1>3, <1>7, <1>8, <2>1 DEF SameFrames
  <2>2. CASE Hits(e, page[2]) # {} /\ SameFrames(m)
    <3>1. PICK slot \in Slots : e[slot].valid /\ e[slot].vpn = page[2]
      BY <2>2 DEF Hits
    <3>2. tables[page].valid
      BY <1>1, <1>4, <1>7, <3>1
    <3> QED BY <2>1, <2>2, <3>2
  <2>3. CASE /\ ~tables[page].valid /\ NewFrame(m, page)
             /\ m = ByPageFault(e, page, write)
    <3>1. m.swap = << >> /\ m.memory = [memory EXCEPT ![m.pfn] = Blank]
      BY <1>6, <1>7, <2>3, FaultSwap
    <3>2. m.memory[m.pfn] = stored[page]
      BY <1>2, <1>7, <2>3, <3>1 DEF MachineType, TypeOK
    <3>3. ASSUME NEW p \in Pages \ {page}
          PROVE  /\ m.tables[p].valid = tables[p].valid
                 /\ tables[p].valid =>
                      /\ m.tables[p].pfn \in Frames \ {m.pfn}
                      /\ m.memory[m.tables[p].pfn] = memory[tables[p].pfn]
      <4>1. /\ m.tables[p].valid = tables[p].valid
            /\ m.tables[p].pfn = tables[p].pfn
            /\ tables[p].valid => rlt[m.pfn] # p
        BY <1>6, <2>3 DEF NewFrame
      <4> QED BY <1>8, <3>1, <4>1 DEF TypeOK
    <3> QED BY <2>3, <3>1, <3>2, <3>3 DEF NewFrame
  <2> QED BY <1>2, <2>1, <2>2, <2>3
<1>10. ASSUME NEW slot \in Slots, m.tlb[slot].valid
       PROVE  tables'[<<pid, m.tlb[slot].vpn>>].valid
  <2>1. CASE m.tlb[slot].vpn = page[2]
    BY <1>4, <1>5, <1>9, <2>1
  <2>2. CASE m.tlb[slot].vpn # page[2]
    <3> DEFINE p == <<pid, m.tlb[slot].vpn>>
    <3>1. m.tlb[slot] = e[slot]
      BY <1>2, <1>10, <2>2 DEF TlbAfter
    <3>2. tables[p].valid
      BY <1>1, <1>7, <1>10, <3>1
    <3>3. p \in Pages \ {page}
      <4>1. m.tlb[slot].vpn \in Vpns
        BY <1>2 DEF MachineType, Entry
      <4> QED BY <1>4, <2>2, <4>1 DEF Pages
    <3> HIDE DEF p
    <3>4. tables'[p].valid
      BY <1>5, <1>9, <3>2, <3>3
    <3> QED BY <3>4 DEF p
  <2> QED BY <2>1, <2>2
<1> QED BY <1>2, <1>3, <1>5, <1>6, <1>9, <1>10 DEF MachineType, LeadsTo

\* A load gives what was stored.
LEMMA LoadCoherent ==
  ASSUME TypeOK, FramesOwned, TlbAgrees, CoherentUntilFull, NoSwapUntilFull,
         NEW pid \in Pids, NEW page \in Pages, page[1] = pid,
         NEW offset \in Offsets, NEW m, Accesses(pid, page, FALSE, m),
         memory' = m.memory, UNCHANGED stored,
         mismatch' = (m.memory[m.pfn][offset] # stored[page][offset])
  PROVE  CoherentUntilFull' /\ NoSwapUntilFull'
<1> SUFFICES ASSUME FreeFrames' # {}
             PROVE  CoherentUntilFull' /\ NoSwapUntilFull'
  BY DEF CoherentUntilFull, NoSwapUntilFull
<1>1. /\ FreeFrames # {} /\ swap' = << >>
      /\ m.memory[m.pfn] = stored[page]
      /\ tables'[page].valid /\ tables'[page].pfn = m.pfn
      /\ \A p \in Pages \ {page} :
           /\ tables'[p].valid = tables[p].valid
           /\ tables[p].valid => m.memory[tables'[p].pfn] = memory[tables[p].pfn]
      /\ \A slot \in Slots :
           tlb'[slot].valid => tables'[<<current', tlb'[slot].vpn>>].valid
  <2>1. FALSE \in BOOLEAN
    OBVIOUS
  <2>2. LeadsTo(m, page)
    BY <2>1, AccessCoherent
  <2> QED BY <2>2 DEF LeadsTo
<1>2. \A p \in Pages :
        stored[p] = IF tables[p].valid THEN memory[tables[p].pfn] ELSE Blank
  BY <1>1 DEF CoherentUntilFull
<1>3. \A p \in Pages :
        stored'[p] = IF tables'[p].valid THEN memory'[tables'[p].pfn] ELSE Blank
  BY <1>1, <1>2
<1>4. Blank' = Blank /\ ~mismatch'
  BY <1>1 DEF Blank
<1> QED BY <1>1, <1>3, <1>4 DEF CoherentUntilFull, NoSwapUntilFull

\* A store changes a byte of the page and of its frame.
LEMMA StoreCoherent ==
  ASSUME TypeOK, FramesOwned, TlbAgrees, CoherentUntilFull, NoSwapUntilFull,
         NEW pid \in Pids, NEW page \in Pages, page[1] = pid,
         NEW offset \in Offsets, NEW value \in Values,
         NEW m, Accesses(pid, page, TRUE, m),
         memory' = [m.memory EXCEPT ![m.pfn][offset] = value],
         stored' = [stored EXCEPT ![page][offset] = value], mismatch' = FALSE
  PROVE  CoherentUntilFull' /\ NoSwapUntilFull'
<1> SUFFICES ASSUME FreeFrames' # {}
             PROVE  CoherentUntilFull' /\ NoSwapUntilFull'
  BY DEF CoherentUntilFull, NoSwapUntilFull
<1>1. /\ FreeFrames # {} /\ swap' = << >>
      /\ m.pfn \in Frames /\ m.memory \in [Frames -> Bytes]
      /\ m.memory[m.pfn] = stored[page]
      /\ tables'[page].valid /\ tables'[page].pfn = m.pfn
      /\ \A p \in Pages \ {page} :
           /\ tables'[p].valid = tables[p].valid
           /\ tables[p].valid =>
                /\ tables'[p].pfn \in Frames \ {m.pfn}
                /\ m.memory[tables'[p].pfn] = memory[tables[p].pfn]
      /\ \A slot \in Slots :
           tlb'[slot].valid => tables'[<<current', tlb'[slot].vpn>>].valid
  <2>1. TRUE \in BOOLEAN
    OBVIOUS
  <2>2. LeadsTo(m, page)
    BY <2>1, AccessCoherent
  <2> QED BY <2>2 DEF LeadsTo
<1>2. \A p \in Pages :
        stored[p] = IF tables[p].valid THEN memory[tables[p].pfn] ELSE Blank
  BY <1>1 DEF CoherentUntilFull
<1> DEFINE bytes == [stored[page] EXCEPT ![offset] = value]
<1>3. memory' = [m.memory EXCEPT ![m.pfn] = bytes]
  BY <1>1
<1>4. stored' = [stored EXCEPT ![page] = bytes] /\ stored \in [Pages -> Bytes]
  BY DEF TypeOK
<1> HIDE DEF bytes
<1>5. ASSUME NEW p \in Pages
      PROVE  stored'[p] = IF tables'[p].valid THEN memory'[tables'[p].pfn] ELSE Blank
  <2>1. CASE p = page
    BY <1>1, <1>3, <1>4, <2>1
  <2>2. CASE p # page
    BY <1>1, <1>2, <1>3, <1>4, <2>2
  <2> QED BY <2>1, <2>2
<1>6. Blank' = Blank /\ ~mismatch'
  BY DEF Blank
<1> QED BY <1>1, <1>5, <1>6 DEF CoherentUntilFull, NoSwapUntilFull

\* As long as a frame is free, a page holds what has been stored in it and every
\* load gives that: what goes wrong in the simulator starts with the first
\* eviction.
THEOREM CoherentBeforeEviction == Spec => []CoherentUntilFull
<1> DEFINE Inv == /\ TypeOK /\ FramesOwned /\ TlbAgrees
                  /\ CoherentUntilFull /\ NoSwapUntilFull
<1>1. Init => CoherentUntilFull /\ NoSwapUntilFull
  BY DEF Init, CoherentUntilFull, NoSwapUntilFull
<1>2. Inv /\ [Next]_vars => (CoherentUntilFull /\ NoSwapUntilFull)'
  <2> SUFFICES ASSUME Inv, [Next]_vars
               PROVE  CoherentUntilFull' /\ NoSwapUntilFull'
    OBVIOUS
  <2>0. \A pid \in Pids, vpn \in Vpns : <<pid, vpn>> \in Pages /\ <<pid, vpn>>[1] = pid
    BY DEF Pages
  <2>1. ASSUME NEW pid \in Pids, Fork(pid)
        PROVE  CoherentUntilFull' /\ NoSwapUntilFull'
    BY <2>1 DEF Fork, CoherentUntilFull, NoSwapUntilFull, FreeFrames, Blank
  <2>2. ASSUME NEW pid \in Pids, NEW vpn \in Vpns, NEW offset \in Offsets, NEW m,
               Accesses(pid, <<pid, vpn>>, FALSE, m),
               memory' = m.memory, UNCHANGED stored,
               mismatch' = (m.memory[m.pfn][offset] # stored[<<pid, vpn>>][offset])
        PROVE  CoherentUntilFull' /\ NoSwapUntilFull'
    BY <2>0, <2>2, LoadCoherent
  <2>3. ASSUME NEW pid \in Pids, NEW vpn \in Vpns, NEW offset \in Offsets,
               NEW value \in Values, NEW m,
               Accesses(pid, <<pid, vpn>>, TRUE, m),
               memory' = [m.memory EXCEPT ![m.pfn][offset] = value],
               stored' = [stored EXCEPT ![<<pid, vpn>>][offset] = value],
               mismatch' = FALSE
        PROVE  CoherentUntilFull' /\ NoSwapUntilFull'
    BY <2>0, <2>3, StoreCoherent
  <2>4. CASE UNCHANGED vars
    BY <2>4 DEF vars, CoherentUntilFull, NoSwapUntilFull, FreeFrames, Blank
  <2> QED BY <2>1, <2>2, <2>3, <2>4, StepCases, ZenonT(30)
<1>3. Spec => [](TypeOK /\ FramesOwned /\ TlbAgrees)
  BY TypeCorrect, FramesAreOwned, TlbAgreesWithTables, PTL
<1> QED BY <1>1, <1>2, <1>3, PTL DEF Spec

-----------------------------------------------------------------------------
(* The counters of statistics.c.                                           *)

ValidPages == {page \in Pages : tables[page].valid}

\* CountersAgree, and the types it rests on.
StatsInv ==
  /\ reads \in Nat /\ writes \in Nat /\ tlbhits \in Nat
  /\ diskaccesses \in Nat /\ pagefaults \in Nat
  /\ IsFiniteSet(ValidPages)
  /\ CountersAgree

\* A dirty page is valid.
LEMMA DirtyAreValid ==
  ASSUME IsFiniteSet(ValidPages)
  PROVE  IsFiniteSet(DirtyPages) /\ Cardinality(DirtyPages) \in Nat
<1>1. DirtyPages \in SUBSET ValidPages
  BY DEF DirtyPages, ValidPages
<1> QED BY <1>1, FS_Subset, FS_CardinalityType

\* A page is found in the TLB once, or not at all.
LEMMA HitOnce ==
  ASSUME TypeOK, TlbAgrees, NEW pid \in Pids, NEW vpn \in Vpns
  PROVE  Cardinality(Hits(TlbFor(pid), vpn)) = One(Hits(TlbFor(pid), vpn) # {})
<1> DEFINE e == TlbFor(pid)
           k == Max(Hits(e, vpn))
<1>1. NoTwins(e) /\ e \in [Slots -> Entry]
  BY TlbForAgrees, TlbForType
<1> HIDE DEF e
<1>2. CASE Hits(e, vpn) = {}
  BY <1>2, FS_EmptySet DEF One, e
<1>3. CASE Hits(e, vpn) # {}
  <2>1. k \in Hits(e, vpn)
    BY <1>1, <1>3, HitsFacts
  <2> HIDE DEF k
  <2>2. Hits(e, vpn) = {k}
    BY <1>1, <2>1 DEF Hits, NoTwins
  <2> QED BY <1>3, <2>2, FS_Singleton DEF One, e
<1> QED BY <1>2, <1>3

\* page_from_disk() takes one page out of the file, if it is there.
LEMMA UnlinkedLength ==
  ASSUME NEW disk \in Disks, NEW page \in Pages
  PROVE  Len(Unlinked(disk, page)) = Len(disk) - One(OnDisk(disk, page) # {})
<1> DEFINE Copies == [page : Pages, data : Bytes]
<1> HIDE DEF Copies
<1>1. disk \in Seq(Copies) /\ DOMAIN disk = 1 .. Len(disk) /\ Len(disk) \in Nat
  BY LenProperties DEF Disks, Copies
<1>2. CASE OnDisk(disk, page) = {}
  BY <1>1, <1>2 DEF Unlinked, One
<1>3. CASE OnDisk(disk, page) # {}
  <2> DEFINE k == Min(OnDisk(disk, page))
  <2>1. OnDisk(disk, page) \in SUBSET Nat
    BY <1>1 DEF OnDisk
  <2>2. k \in 1 .. Len(disk)
    BY <1>1, <1>3, <2>1, NatMin DEF OnDisk
  <2>3. Unlinked(disk, page) = RemoveAt(disk, k)
    BY <1>3 DEF Unlinked
  <2> HIDE DEF k
  <2>4. Len(RemoveAt(disk, k)) = Len(disk) - 1
    BY <1>1, <2>2, RemoveAtFacts
  <2> QED BY <1>3, <2>3, <2>4 DEF One
<1> QED BY <1>2, <1>3

\* A fault writes the victim to the file, if that is dirty, and reads the page
\* back from it, if it is there; the victim is not the page.
LEMMA FaultDisk ==
  ASSUME TypeOK, NEW page \in Pages, ~ tables[page].valid, NEW entries,
         NEW write \in BOOLEAN, NEW m, m = ByPageFault(entries, page, write)
  PROVE  Len(m.swap) = Len(swap) + One(Saves(page)) - One(OnDisk(swap, page) # {})
<1> DEFINE free   == GetFreeFrame(Marked(page))
           victim == rlt[free.frame]
           disk   == EvictedDisk(page)
<1>1. Marked(page) \in [Pages -> Pte] /\ \A p \in Pages : Marked(page)[p].valid = tables[p].valid
  BY MarkedFacts
<1>2. free.frame \in Frames /\ \A p \in Pages : free.tables[p].valid => tables[p].valid
  BY <1>1, GetFreeFrameFacts
<1>3. victim \in Pages \cup {NoPage}
  BY <1>2 DEF TypeOK
<1>4. /\ Saves(page) <=> Evicts(page) /\ free.tables[victim].dirty
      /\ Evicts(page) <=> victim # NoPage /\ free.tables[victim].valid
      /\ disk = IF Evicts(page) /\ free.tables[victim].dirty
                THEN PageToDisk(swap, free.frame, victim) ELSE swap
  BY DEF Saves, Evicts, EvictedDisk
<1>5. m.swap = Unlinked(disk, page)
  BY DEF ByPageFault, EvictedDisk, Evicts
<1>6. swap \in Disks /\ Len(swap) \in Nat /\ DOMAIN swap = 1 .. Len(swap)
  BY LenProperties DEF TypeOK, Disks
<1> HIDE DEF free, victim, disk
<1>7. CASE Saves(page)
  <2>1. victim \in Pages /\ victim # page /\ disk = PageToDisk(swap, free.frame, victim)
    BY <1>2, <1>3, <1>4, <1>7
  <2>2. /\ disk \in Disks /\ Len(disk) = Len(swap) + 1
        /\ DOMAIN disk = 1 .. Len(swap) + 1 /\ disk[1].page = victim
        /\ \A i \in 1 .. Len(swap) : disk[i+1] = swap[i]
    BY <1>2, <1>6, <2>1, PageToDiskFacts
  <2>3. OnDisk(disk, page) # {} <=> OnDisk(swap, page) # {}
    <3>1. ASSUME NEW i \in OnDisk(swap, page)
          PROVE  i + 1 \in OnDisk(disk, page)
      BY <1>6, <2>2 DEF OnDisk
    <3>2. ASSUME NEW i \in OnDisk(disk, page)
          PROVE  i - 1 \in OnDisk(swap, page)
      <4>1. i \in 1 .. Len(swap) + 1 /\ i # 1
        BY <2>1, <2>2 DEF OnDisk
      <4>2. i - 1 \in 1 .. Len(swap) /\ (i - 1) + 1 = i
        BY <1>6, <4>1
      <4>3. disk[i] = swap[i - 1]
        BY <2>2, <4>2
      <4> QED BY <1>6, <4>2, <4>3 DEF OnDisk
    <3> QED BY <3>1, <3>2
  <2>4. Len(Unlinked(disk, page)) = Len(disk) - One(OnDisk(disk, page) # {})
    BY <2>2, UnlinkedLength
  <2> QED BY <1>5, <1>6, <1>7, <2>2, <2>3, <2>4 DEF One
<1>8. CASE ~ Saves(page)
  <2>1. disk = swap
    BY <1>4, <1>8
  <2>2. Len(Unlinked(swap, page)) = Len(swap) - One(OnDisk(swap, page) # {})
    BY <1>6, UnlinkedLength
  <2>3. One(Saves(page)) = 0
    BY <1>8 DEF One
  <2>4. Len(m.swap) = Len(swap) - One(OnDisk(swap, page) # {})
    BY <1>5, <2>1, <2>2
  <2>5. One(OnDisk(swap, page) # {}) \in Int
    BY DEF One
  <2> QED BY <1>6, <2>3, <2>4, <2>5
<1> QED BY <1>7, <1>8

\* What an access that is counted does to what the counters count.
LEMMA CountedAccess ==
  ASSUME TypeOK, NEW pid \in Pids, NEW vpn \in Vpns, NEW write \in BOOLEAN,
         NEW m, Accesses(pid, <<pid, vpn>>, write, m)
  PROVE  LET page  == <<pid, vpn>>
             fault == Faults(Hits(TlbFor(pid), vpn), page)
         IN  /\ ~ fault => Len(swap') = Len(swap) /\ ValidPages' = ValidPages
                           /\ FreeFrames' = FreeFrames
             /\ fault => /\ Len(swap') = Len(swap) + One(Saves(page))
                                           - One(OnDisk(swap, page) # {})
                         /\ ValidPages' \subseteq ValidPages \cup {page}
                         /\ page \notin ValidPages
                         /\ FreeFrames' # {} => /\ FreeFrames # {}
                                                /\ ValidPages' = ValidPages \cup {page}
<1> DEFINE page  == <<pid, vpn>>
           fault == Faults(Hits(TlbFor(pid), vpn), page)
<1>1. page \in Pages /\ page[2] = vpn
  BY DEF Pages
<1>2. /\ MachineType(m)
      /\ \/ Hits(TlbFor(pid), vpn) # {} /\ SameFrames(m)
         \/ tables[page].valid /\ SameFrames(m)
         \/ /\ Hits(TlbFor(pid), vpn) = {} /\ ~ tables[page].valid
            /\ NewFrame(m, page) /\ m = ByPageFault(TlbFor(pid), page, write)
  <2> HIDE DEF page
  <2> QED BY <1>1, AccessLookup DEF page
<1>3. fault <=> Hits(TlbFor(pid), vpn) = {} /\ ~ tables[page].valid
  BY DEF Faults
<1>4. /\ rlt' = m.rlt /\ swap' = m.swap
      /\ \A p \in Pages : tables'[p].valid = m.tables[p].valid
  BY <1>1, <1>2, DirtyFacts DEF Accesses, Machine
<1> HIDE DEF page, fault
<1>5. CASE ~ fault
  <2>1. SameFrames(m)
    BY <1>2, <1>3, <1>5
  <2>2. \A p \in Pages : tables'[p].valid = tables[p].valid
    BY <1>4, <2>1 DEF SameFrames
  <2>3. ValidPages' = ValidPages /\ rlt' = rlt /\ swap' = swap
    BY <1>4, <2>1, <2>2 DEF ValidPages, SameFrames
  <2> QED BY <1>5, <2>3 DEF FreeFrames, page, fault
<1>6. CASE fault
  <2>1. ~ tables[page].valid /\ NewFrame(m, page) /\ m = ByPageFault(TlbFor(pid), page, write)
    BY <1>2, <1>3, <1>6
  <2>2. Len(swap') = Len(swap) + One(Saves(page)) - One(OnDisk(swap, page) # {})
    BY <1>1, <1>4, <2>1, FaultDisk
  <2>3. /\ \A p \in Pages \ {page} : tables'[p].valid => tables[p].valid
        /\ FreeFrames # {} => \A p \in Pages \ {page} : tables'[p].valid = tables[p].valid
        /\ tables'[page].valid
    BY <1>1, <1>4, <2>1 DEF NewFrame
  <2>4. ValidPages' \subseteq ValidPages \cup {page} /\ page \notin ValidPages
    BY <2>1, <2>3 DEF ValidPages
  <2>5. FreeFrames # {} => ValidPages' = ValidPages \cup {page}
    BY <1>1, <2>3 DEF ValidPages
  <2>6. FreeFrames' # {} => FreeFrames # {}
    <3>1. rlt' = [rlt EXCEPT ![m.pfn] = page] /\ m.pfn \in Frames
      BY <1>4, <2>1 DEF NewFrame
    <3>2. page # NoPage /\ rlt \in [Frames -> Pages \cup {NoPage}]
      BY <1>1, NullAssumption DEF TypeOK
    <3> QED BY <3>1, <3>2 DEF FreeFrames
  <2> QED BY <1>6, <2>2, <2>4, <2>5, <2>6 DEF page, fault
<1> QED BY <1>5, <1>6

\* An access makes at most its own page dirty, if it is a write, and one whose
\* fault saves a page leaves that one neither valid nor dirty in memory.
LEMMA DirtyCount ==
  ASSUME TypeOK, IsFiniteSet(ValidPages),
         NEW pid \in Pids, NEW vpn \in Vpns, NEW write \in BOOLEAN,
         NEW m, Accesses(pid, <<pid, vpn>>, write, m)
  PROVE  LET page  == <<pid, vpn>>
             fault == Faults(Hits(TlbFor(pid), vpn), page)
         IN  Cardinality(DirtyPages') + One(fault /\ Saves(page))
               <= Cardinality(DirtyPages) + One(write)
<1> DEFINE page  == <<pid, vpn>>
           fault == Faults(Hits(TlbFor(pid), vpn), page)
           saves == Saves(page)
           free  == GetFreeFrame(Marked(page))
           victim == rlt[free.frame]
           rest  == IF fault /\ saves THEN DirtyPages \ {victim} ELSE DirtyPages
           most  == IF write THEN rest \cup {page} ELSE rest
<1>1. page \in Pages /\ page[2] = vpn
  BY DEF Pages
<1>2. /\ MachineType(m)
      /\ \/ SameFrames(m) /\ ~fault
         \/ /\ fault /\ ~tables[page].valid
            /\ NewFrame(m, page) /\ m = ByPageFault(TlbFor(pid), page, write)
  <2> HIDE DEF page
  <2> QED BY <1>1, AccessLookup DEF page, Faults
<1>3. \A p \in Pages : /\ tables'[p].valid = m.tables[p].valid
                       /\ tables'[p].dirty <=> m.tables[p].dirty \/ (write /\ p = page)
  <2> HIDE DEF page
  <2> QED BY <1>1, <1>2, DirtyFacts DEF Accesses, page
<1>4. fault /\ saves => victim \in DirtyPages /\ m.pfn = free.frame
  <2> SUFFICES ASSUME fault, saves PROVE victim \in DirtyPages /\ m.pfn = free.frame
    OBVIOUS
  <2>1. /\ Marked(page) \in [Pages -> Pte]
        /\ \A p \in Pages : /\ Marked(page)[p].valid = tables[p].valid
                             /\ Marked(page)[p].dirty = tables[p].dirty
    <3> HIDE DEF page
    <3> QED BY <1>1, MarkedFacts DEF page
  <2>2. /\ free.frame \in Frames
        /\ \A p \in Pages : /\ free.tables[p].valid => tables[p].valid
                             /\ free.tables[p].dirty = tables[p].dirty
    <3> HIDE DEF page
    <3> QED BY <2>1, GetFreeFrameFacts
  <2>3. victim \in Pages \cup {NoPage}
    BY <2>2 DEF TypeOK
  <2>4. victim # NoPage /\ free.tables[victim].valid /\ free.tables[victim].dirty
    BY DEF Saves
  <2>5. m.pfn = free.frame
    <3>1. m = ByPageFault(TlbFor(pid), page, write)
      BY <1>2
    <3> HIDE DEF page
    <3> QED BY <3>1 DEF ByPageFault, free
  <2> HIDE DEF victim, free
  <2> QED BY <2>2, <2>3, <2>4, <2>5 DEF DirtyPages
<1> HIDE DEF page, fault, saves, free
<1>5. IsFiniteSet(DirtyPages) /\ Cardinality(DirtyPages) \in Nat
  BY DirtyAreValid
<1>6. DirtyPages' \subseteq most
  <2> SUFFICES ASSUME NEW p \in Pages, tables'[p].valid, tables'[p].dirty
               PROVE  p \in most
    BY DEF DirtyPages
  <2>1. CASE SameFrames(m) /\ ~fault
    BY <1>3, <2>1 DEF SameFrames, DirtyPages
  <2>2. CASE fault /\ NewFrame(m, page)
    <3>1. CASE p = page
      BY <1>3, <2>2, <3>1 DEF NewFrame
    <3>2. CASE p # page
      <4>1. p \in DirtyPages /\ rlt[m.pfn] # p
        BY <1>3, <2>2, <3>2 DEF NewFrame, DirtyPages
      <4> QED BY <1>4, <4>1
    <3> QED BY <3>1, <3>2
  <2> QED BY <1>2, <2>1, <2>2
<1>7. /\ IsFiniteSet(rest) /\ Cardinality(rest) \in Nat
      /\ Cardinality(rest) = Cardinality(DirtyPages) - One(fault /\ saves)
  <2>1. CASE fault /\ saves
    <3>1. /\ IsFiniteSet(DirtyPages \ {victim})
          /\ Cardinality(DirtyPages \ {victim}) = Cardinality(DirtyPages) - 1
      BY <1>4, <1>5, <2>1, FS_RemoveElement
    <3> QED BY <2>1, <3>1, FS_CardinalityType DEF One
  <2>2. CASE ~(fault /\ saves)
    BY <1>5, <2>2 DEF One
  <2> QED BY <2>1, <2>2
<1> HIDE DEF rest
<1>8. /\ IsFiniteSet(most) /\ Cardinality(most) \in Nat
      /\ Cardinality(most) <= Cardinality(rest) + One(write)
  <2>1. CASE write
    <3>1. /\ IsFiniteSet(rest \cup {page})
          /\ Cardinality(rest \cup {page}) =
               IF page \in rest THEN Cardinality(rest) ELSE Cardinality(rest) + 1
      BY <1>7, FS_AddElement
    <3> QED BY <1>7, <2>1, <3>1 DEF One
  <2>2. CASE ~write
    BY <1>7, <2>2 DEF One
  <2> QED BY <2>1, <2>2
<1> HIDE DEF most
<1>9. Cardinality(DirtyPages') \in Nat /\ Cardinality(DirtyPages') <= Cardinality(most)
  BY <1>6, <1>8, FS_Subset, FS_CardinalityType
<1>10. One(fault /\ saves) \in Nat /\ One(write) \in Nat
  BY DEF One
<1> QED BY <1>5, <1>7, <1>8, <1>9, <1>10 DEF page, fault, saves

\* An access that is counted keeps the counters in agreement.
LEMMA CountedStep ==
  ASSUME TypeOK, TlbAgrees, StatsInv, NEW pid \in Pids, NEW vpn \in Vpns, NEW write \in BOOLEAN,
         NEW m, Accesses(pid, <<pid, vpn>>, write, m), Count(pid, vpn, write)
  PROVE  StatsInv'
<1> DEFINE page  == <<pid, vpn>>
           fault == Faults(Hits(TlbFor(pid), vpn), page)
           saves == Saves(page)
           backs == OnDisk(swap, page) # {}
<1>1. /\ reads' = reads + One(~ write) /\ writes' = writes + One(write)
      /\ tlbhits' = tlbhits + One(Hits(TlbFor(pid), vpn) # {})
      /\ pagefaults' = pagefaults + One(fault)
      /\ diskaccesses' = diskaccesses + One(fault /\ saves) + One(fault /\ backs)
  BY HitOnce DEF Count
<1>2. /\ ~ fault => Len(swap') = Len(swap) /\ ValidPages' = ValidPages /\ FreeFrames' = FreeFrames
      /\ fault => /\ Len(swap') = Len(swap) + One(saves) - One(backs)
                  /\ ValidPages' \subseteq ValidPages \cup {page}
                  /\ page \notin ValidPages
                  /\ FreeFrames' # {} => FreeFrames # {} /\ ValidPages' = ValidPages \cup {page}
  BY CountedAccess
<1>3. Cardinality(DirtyPages') + One(fault /\ saves) <= Cardinality(DirtyPages) + One(write)
  BY DirtyCount DEF StatsInv
<1>4. Hits(TlbFor(pid), vpn) # {} => ~ fault
  BY DEF Faults
<1> HIDE DEF page, fault, saves, backs
<1>5. /\ reads \in Nat /\ writes \in Nat /\ tlbhits \in Nat
      /\ diskaccesses \in Nat /\ pagefaults \in Nat /\ Len(swap) \in Nat
  BY LenProperties DEF StatsInv, TypeOK
<1>6. /\ reads' \in Nat /\ writes' \in Nat /\ tlbhits' \in Nat
      /\ diskaccesses' \in Nat /\ pagefaults' \in Nat
  BY <1>1, <1>5 DEF One
<1>7. HitOrFault'
  BY <1>1, <1>4, <1>5 DEF HitOrFault, StatsInv, CountersAgree, One
<1>8. IsFiniteSet(ValidPages') /\ ColdFaultsOnly'
  <2>1. /\ IsFiniteSet(ValidPages)
        /\ FreeFrames # {} => pagefaults = Cardinality(ValidPages)
    BY DEF StatsInv, CountersAgree, ColdFaultsOnly, ValidPages
  <2>2. CASE fault
    <3>1. /\ IsFiniteSet(ValidPages \cup {page})
          /\ Cardinality(ValidPages \cup {page}) = Cardinality(ValidPages) + 1
      BY <1>2, <2>1, <2>2, FS_AddElement
    <3>2. IsFiniteSet(ValidPages')
      BY <1>2, <2>2, <3>1, FS_Subset
    <3>3. pagefaults' = pagefaults + 1
      BY <1>1, <2>2 DEF One
    <3>4. FreeFrames' # {} => pagefaults' = Cardinality(ValidPages')
      BY <1>2, <2>1, <2>2, <3>1, <3>3
    <3> QED BY <3>2, <3>4 DEF ColdFaultsOnly, ValidPages
  <2>3. CASE ~ fault
    <3>1. pagefaults' = pagefaults
      BY <1>1, <1>5, <2>3 DEF One
    <3>2. FreeFrames' # {} => pagefaults' = Cardinality(ValidPages')
      BY <1>2, <2>1, <2>3, <3>1
    <3>3. IsFiniteSet(ValidPages')
      BY <1>2, <2>1, <2>3
    <3> QED BY <3>2, <3>3 DEF ColdFaultsOnly, ValidPages
  <2> QED BY <2>2, <2>3
<1>9. DiskAccessesPaid'
  <2> DEFINE dirty == Cardinality(DirtyPages)
             files == Len(swap)
             dirtyThen == Cardinality(DirtyPages')
             filesThen == Len(swap')
  <2>1. dirty \in Nat /\ dirtyThen \in Nat /\ files \in Nat
    <3>1. IsFiniteSet(ValidPages)
      BY DEF StatsInv
    <3>2. (IsFiniteSet(ValidPages) => Cardinality(DirtyPages) \in Nat)'
      BY DirtyAreValid, PTL
    <3> QED BY <1>5, <1>8, <3>1, <3>2, DirtyAreValid
  <2>2. PICK n \in 0 .. pagefaults : /\ diskaccesses = files + n + n
                                     /\ files + n <= pagefaults
                                     /\ files + n + dirty <= writes
    BY <1>5, <2>1 DEF StatsInv, CountersAgree, DiskAccessesPaid
  <2>3. /\ dirtyThen + One(fault /\ saves) <= dirty + One(write)
        /\ filesThen = files + One(fault /\ saves) - One(fault /\ backs)
    BY <1>2, <1>3, <1>5 DEF One
  <2> HIDE DEF dirty, files, dirtyThen, filesThen
  <2> DEFINE a == One(fault /\ saves)
             b == One(fault /\ backs)
             f == One(fault)
             w == One(write)
             back == n + b
  <2>4. a \in Nat /\ b \in Nat /\ f \in Nat /\ w \in Nat /\ a <= f /\ b <= f
    BY DEF One
  <2>5. /\ writes' = writes + w /\ pagefaults' = pagefaults + f
        /\ diskaccesses' = diskaccesses + a + b
        /\ dirtyThen + a <= dirty + w /\ filesThen = files + a - b
    BY <1>1, <2>3
  <2> HIDE DEF a, b, f, w
  <2>6. /\ back \in 0 .. pagefaults'
        /\ diskaccesses' = filesThen + back + back
        /\ filesThen + back <= pagefaults'
        /\ filesThen + back + dirtyThen <= writes'
    <3>1. n \in Nat /\ n <= pagefaults /\ back \in Nat /\ back <= pagefaults'
      BY <1>5, <2>2, <2>4, <2>5
    <3>2. filesThen \in Int /\ filesThen + back = files + n + a
      BY <2>1, <2>4, <2>5, <3>1
    <3>3. diskaccesses' = filesThen + back + back
      BY <1>5, <2>1, <2>2, <2>4, <2>5, <3>1
    <3>4. filesThen + back <= pagefaults'
      BY <1>5, <2>1, <2>2, <2>4, <2>5, <3>1, <3>2
    <3>5. filesThen + back + dirtyThen <= writes'
      <4>1. /\ filesThen + back \in Int /\ dirtyThen \in Int /\ dirtyThen + a <= dirty + w
            /\ writes' = writes + w /\ files + n + dirty <= writes
            /\ files \in Nat /\ n \in Nat /\ a \in Nat /\ w \in Nat /\ dirty \in Nat
        BY <2>1, <2>2, <2>4, <2>5, <3>1, <3>2
      <4> HIDE DEF back
      <4>2. (files + n + a) + dirtyThen <= writes'
        BY <1>5, <4>1
      <4> QED BY <3>2, <4>2
    <3> QED BY <1>6, <3>1, <3>3, <3>4, <3>5
  <2> QED BY <2>6 DEF DiskAccessesPaid, dirtyThen, filesThen
<1> QED BY <1>6, <1>7, <1>8, <1>9 DEF StatsInv, CountersAgree

\* CountersAgree: every access counts one hit of the TLB or one page fault at
\* most, every disk access is paid for by a fault, and by a write if it saves a
\* page, and as long as a frame is free the faults are the first uses of pages,
\* for any machine and however many accesses are made (tlb-lookup.c:33-42,
\* page-lookup.c:21-26, swapfile.c:35 and 80).
THEOREM CountersAgreeWithTables == StatsSpec => []CountersAgree
<1>1. StatsSpec => Spec
  <2>1. StatsInit => Init
    BY DEF StatsInit
  <2>2. [StatsNext]_statsVars => [Next]_vars
    BY DEF StatsNext, statsVars, Next, vars
  <2> QED BY <2>1, <2>2, PTL DEF StatsSpec, Spec
<1>2. StatsInit => StatsInv
  <2> SUFFICES ASSUME StatsInit PROVE StatsInv
    OBVIOUS
  <2>1. ValidPages = {}
    BY DEF StatsInit, Init, ValidPages
  <2>2. swap = <<>> /\ Len(swap) = 0
    BY EmptySeq DEF StatsInit, Init
  <2>3. DirtyPages = {}
    BY DEF StatsInit, Init, DirtyPages
  <2>4. reads = 0 /\ writes = 0 /\ tlbhits = 0 /\ diskaccesses = 0 /\ pagefaults = 0
    BY DEF StatsInit
  <2>5. /\ IsFiniteSet(ValidPages) /\ Cardinality(ValidPages) = 0
        /\ Cardinality(DirtyPages) = 0
    BY <2>1, <2>3, FS_EmptySet
  <2>6. DiskAccessesPaid
    <3>1. 0 \in 0 .. pagefaults
      BY <2>4
    <3> QED BY <2>2, <2>4, <2>5, <3>1 DEF DiskAccessesPaid
  <2>7. HitOrFault /\ ColdFaultsOnly
    BY <2>4, <2>5 DEF HitOrFault, ColdFaultsOnly, ValidPages
  <2> QED BY <2>4, <2>5, <2>6, <2>7 DEF StatsInv, CountersAgree
<1>3. TypeOK /\ TlbAgrees /\ StatsInv /\ [StatsNext]_statsVars => StatsInv'
  <2> SUFFICES ASSUME TypeOK, TlbAgrees, StatsInv, [StatsNext]_statsVars PROVE StatsInv'
    OBVIOUS
  <2>1. ASSUME NEW pid \in Pids, Fork(pid), UNCHANGED counts
        PROVE  StatsInv'
    BY <2>1 DEF Fork, counts, StatsInv, CountersAgree, HitOrFault, DiskAccessesPaid,
       ColdFaultsOnly, DirtyPages, ValidPages, FreeFrames
  <2>2. ASSUME NEW pid \in Pids, NEW vpn \in Vpns, NEW offset \in Offsets,
               Load(pid, vpn, offset), Count(pid, vpn, FALSE)
        PROVE  StatsInv'
    <3>1. PICK m \in {TlbLookup(TlbFor(pid), <<pid, vpn>>, FALSE)} :
            Machine(m, <<pid, vpn>>, FALSE)
      BY <2>2, Zenon DEF Load
    <3>2. Accesses(pid, <<pid, vpn>>, FALSE, m)
      BY <2>2, <3>1, Zenon DEF Load, Accesses
    <3> QED BY <2>2, <3>2, CountedStep
  <2>3. ASSUME NEW pid \in Pids, NEW vpn \in Vpns, NEW offset \in Offsets,
               NEW value \in Values, Store(pid, vpn, offset, value), Count(pid, vpn, TRUE)
        PROVE  StatsInv'
    <3>1. PICK m \in {TlbLookup(TlbFor(pid), <<pid, vpn>>, TRUE)} :
            Machine(m, <<pid, vpn>>, TRUE)
      BY <2>3, Zenon DEF Store
    <3>2. Accesses(pid, <<pid, vpn>>, TRUE, m)
      BY <2>3, <3>1, Zenon DEF Store, Accesses
    <3> QED BY <2>3, <3>2, CountedStep
  <2>4. CASE UNCHANGED statsVars
    BY <2>4 DEF statsVars, vars, counts, StatsInv, CountersAgree, HitOrFault,
       DiskAccessesPaid, ColdFaultsOnly, DirtyPages, ValidPages, FreeFrames
  <2> QED BY <2>1, <2>2, <2>3, <2>4 DEF StatsNext
<1>4. StatsInv => CountersAgree
  BY DEF StatsInv
<1> QED BY <1>1, <1>2, <1>3, <1>4, TypeCorrect, TlbAgreesWithTables, PTL DEF StatsSpec
=============================================================================
