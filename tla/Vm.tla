--------------------------------- MODULE Vm ---------------------------------
(***************************************************************************)
(* The virtual memory simulator of project 4.  It reads commands from a    *)
(* references file: fork a process, store a value at a virtual address, or *)
(* load one and compare it with the value the file expects.  An address is *)
(* translated by the TLB, then by the page table, then by the page fault   *)
(* handler, which takes a free frame or evicts a page to the swap file.    *)
(*                                                                         *)
(* The process table is indexed by page, that is by process and page       *)
(* number; an entry of the reverse lookup table is the page the frame      *)
(* holds.  The counters of statistics.c are left out.                      *)
(***************************************************************************)
EXTENDS Integers, SequencesExt

CONSTANTS
  Pids,           \* the processes, all below max_jobs
  NumPte,         \* CPU_NUM_PTE
  NumFrames,      \* CPU_NUM_FRAMES
  PageSize,       \* page_size
  TlbSize,        \* tlb_size
  Values,         \* what a byte holds
  UsedLimit,      \* 256: the used field of a TLB entry is a uint8_t
  NoPid, NoPage   \* the NULL of current and of a pcb of the reverse table

Vpns    == 0 .. NumPte - 1
Frames  == 0 .. NumFrames - 1
Offsets == 0 .. PageSize - 1
Pages   == Pids \X Vpns
Slots   == 1 .. TlbSize

ASSUME SizesAssumption ==
  /\ NumPte \in Nat \ {0} /\ NumFrames \in Nat \ {0}
  /\ PageSize \in Nat \ {0} /\ TlbSize \in Nat /\ UsedLimit \in Nat \ {0}
ASSUME NullAssumption == NoPid \notin Pids /\ NoPage \notin Pages
ASSUME ValuesAssumption == 0 \in Values

VARIABLES
  forked,         \* the processes with a page table
  current,        \* the process that runs, whose table is current_pagetable
  tables,         \* the page tables
  rlt,            \* the reverse lookup table
  tlb,
  memory, swap,   \* the frames, and the swap file, from its head
  stored,         \* what the commands have stored: what a load has to give
  mismatch        \* the last load printed "did not equal expected!"

vars == <<forked, current, tables, rlt, tlb, memory, swap, stored, mismatch>>

Blank == [offset \in Offsets |-> 0]

Init ==
  /\ forked = {} /\ current = NoPid
  /\ tables = [page \in Pages |-> [pfn |-> 0, valid |-> FALSE,
                                   dirty |-> FALSE, used |-> FALSE]]
  /\ rlt = [frame \in Frames |-> NoPage]
  /\ tlb = [slot \in Slots |-> [vpn |-> 0, pfn |-> 0, valid |-> FALSE,
                                dirty |-> FALSE, used |-> 0]]
  /\ memory = [frame \in Frames |-> Blank]
  /\ swap = << >>
  /\ stored = [page \in Pages |-> Blank]
  /\ mismatch = FALSE

\* proc_fork(), once for each process.
Fork(pid) ==
  /\ pid \notin forked
  /\ forked' = forked \cup {pid}
  /\ UNCHANGED <<current, tables, rlt, tlb, memory, swap, stored, mismatch>>

-----------------------------------------------------------------------------
(* The TLB.                                                                *)

Cleared(entry) == [entry EXCEPT !.valid = FALSE, !.dirty = FALSE, !.used = 0]

\* Mistake: the TLB is not cleared when another process runs.
TlbForAlways(pid) == tlb

\* The TLB when pid runs: proc_switch() clears it.
TlbFor(pid) ==
  IF current = pid THEN tlb ELSE [slot \in Slots |-> Cleared(tlb[slot])]

\* tlb_clearone(), whoever's page vpn is.
ClearOne(entries, vpn) ==
  [slot \in Slots |-> IF entries[slot].vpn = vpn THEN Cleared(entries[slot])
                      ELSE entries[slot]]

Hits(entries, vpn) ==
  {slot \in Slots : entries[slot].valid /\ entries[slot].vpn = vpn}

\* Mistake: the counter of a byte does not wrap.
TouchedUnbounded(entry, write) ==
  [entry EXCEPT !.used = @ + 1, !.dirty = @ \/ write]

Touched(entry, write) ==
  [entry EXCEPT !.used = (@ + 1) % UsedLimit, !.dirty = @ \/ write]

\* The entry to replace: the first invalid one, or the first of those with the
\* smallest counter.  That one keeps its counter: the code resets the field of
\* the entry behind the last one instead.
IsSlot(entries, slot) ==
  IF \E s \in Slots : ~entries[s].valid
  THEN ~entries[slot].valid /\ \A s \in 1 .. slot - 1 : entries[s].valid
  ELSE /\ \A s \in Slots : entries[slot].used <= entries[s].used
       /\ \A s \in 1 .. slot - 1 : entries[slot].used < entries[s].used

Inserted(entries, vpn, pfn, write) ==
  [slot \in Slots |->
    IF ~IsSlot(entries, slot) THEN entries[slot]
    ELSE [vpn |-> vpn, pfn |-> pfn, valid |-> TRUE, dirty |-> write,
          used |-> IF entries[slot].valid THEN entries[slot].used ELSE 0]]

-----------------------------------------------------------------------------
(* The clock sweep of get_free_frame(), over page tables t.                *)

\* The k-th frame the sweep comes to after frame 0.
SweptPage(k) == rlt[k % NumFrames]

\* It looks at the used bit of frame 0 only; from then on it stops at the
\* first frame whose page is not valid, or no longer, and the pages of the
\* frames before it lose their valid bit.
Stop(t) ==
  Min({k \in 1 .. NumFrames + 1 :
         ~t[SweptPage(k)].valid \/ \E j \in 1 .. k - 1 : SweptPage(j) = SweptPage(k)})

Swept(t) ==
  LET passed == {SweptPage(k) : k \in 1 .. Stop(t) - 1} IN
  [page \in Pages |->
    [t[page] EXCEPT !.used  = @ /\ page # rlt[0],
                    !.valid = @ /\ page \notin passed]]

FreeFrames == {frame \in Frames : rlt[frame] = NoPage}

\* The frame that get_free_frame() finds, and the page tables after it.
GetFreeFrame(t) ==
  IF FreeFrames # {}   THEN [frame |-> Min(FreeFrames), tables |-> t]
  ELSE IF ~t[rlt[0]].used THEN [frame |-> 0, tables |-> t]
  ELSE [frame |-> Stop(t) % NumFrames, tables |-> Swept(t)]

-----------------------------------------------------------------------------
(* The swap file.                                                          *)

OnDisk(disk, page) == {i \in DOMAIN disk : disk[i].page = page}

PageToDisk(disk, frame, page) == <<[page |-> page, data |-> memory[frame]]>> \o disk

PageFromDisk(disk, page) ==
  IF OnDisk(disk, page) = {} THEN Blank
  ELSE disk[Min(OnDisk(disk, page))].data

\* Mistake: the page that is read stays in the swap file.
UnlinkedNever(disk, page) == disk

Unlinked(disk, page) ==
  IF OnDisk(disk, page) = {} THEN disk
  ELSE RemoveAt(disk, Min(OnDisk(disk, page)))

-----------------------------------------------------------------------------
(* A translation: the frame of a page, and the machine after tlb_lookup(). *)

ByTlb(entries, page, write) ==
  [pfn    |-> entries[Max(Hits(entries, page[2]))].pfn,
   tlb    |-> [slot \in Slots |-> IF slot \in Hits(entries, page[2])
                                  THEN Touched(entries[slot], write)
                                  ELSE entries[slot]],
   tables |-> tables, rlt |-> rlt, memory |-> memory, swap |-> swap]

\* pagetable_lookup() sets the used bit of the page, valid or not.
Marked(page) == [tables EXCEPT ![page].used = TRUE]

ByPageTable(entries, page, write) ==
  [pfn    |-> tables[page].pfn,
   tlb    |-> Inserted(entries, page[2], tables[page].pfn, write),
   tables |-> Marked(page), rlt |-> rlt, memory |-> memory, swap |-> swap]

\* Mistake: the page of the frame stays valid.
InvalidatedNever(t, page) == t

Invalidated(t, page) == [t EXCEPT ![page].valid = FALSE]

\* Mistake: the reverse lookup table does not learn of the new page.
OwnedNever(frame, page) == rlt

Owned(frame, page) == [rlt EXCEPT ![frame] = page]

\* pagefault_handler(): the page of the frame is evicted if it is valid, and
\* written to the swap file if it is dirty too.
ByPageFault(entries, page, write) ==
  LET free   == GetFreeFrame(Marked(page))
      frame  == free.frame
      victim == rlt[frame]
      evicts == victim # NoPage /\ free.tables[victim].valid
      disk   == IF evicts /\ free.tables[victim].dirty
                THEN PageToDisk(swap, frame, victim) ELSE swap
      t      == IF evicts THEN Invalidated(free.tables, victim) ELSE free.tables
  IN [pfn    |-> frame,
      tlb    |-> Inserted(IF evicts THEN ClearOne(entries, victim[2]) ELSE entries,
                          page[2], frame, write),
      tables |-> [t EXCEPT ![page] = [@ EXCEPT !.pfn = frame, !.valid = TRUE,
                                               !.dirty = FALSE]],
      rlt    |-> Owned(frame, page),
      memory |-> [memory EXCEPT ![frame] = PageFromDisk(disk, page)],
      swap   |-> Unlinked(disk, page)]

TlbLookup(entries, page, write) ==
  IF Hits(entries, page[2]) # {} THEN ByTlb(entries, page, write)
  ELSE IF tables[page].valid THEN ByPageTable(entries, page, write)
  ELSE ByPageFault(entries, page, write)

\* The page table learns of a write, however the page was found.
Machine(m, page, write) ==
  /\ tlb' = m.tlb /\ rlt' = m.rlt /\ swap' = m.swap
  /\ tables' = IF write THEN [m.tables EXCEPT ![page].dirty = TRUE] ELSE m.tables

-----------------------------------------------------------------------------
(* The commands.                                                           *)

Load(pid, vpn, offset) ==
  /\ pid \in forked
  /\ current' = pid
  /\ \E m \in {TlbLookup(TlbFor(pid), <<pid, vpn>>, FALSE)} :
       /\ Machine(m, <<pid, vpn>>, FALSE)
       /\ memory' = m.memory
       /\ mismatch' = (m.memory[m.pfn][offset] # stored[<<pid, vpn>>][offset])
  /\ UNCHANGED <<forked, stored>>

Store(pid, vpn, offset, value) ==
  /\ pid \in forked
  /\ current' = pid
  /\ \E m \in {TlbLookup(TlbFor(pid), <<pid, vpn>>, TRUE)} :
       /\ Machine(m, <<pid, vpn>>, TRUE)
       /\ memory' = [m.memory EXCEPT ![m.pfn][offset] = value]
  /\ stored' = [stored EXCEPT ![<<pid, vpn>>][offset] = value]
  /\ mismatch' = FALSE
  /\ UNCHANGED forked

Next ==
  \E pid \in Pids :
    \/ Fork(pid)
    \/ \E vpn \in Vpns, offset \in Offsets :
         \/ Load(pid, vpn, offset)
         \/ \E value \in Values : Store(pid, vpn, offset, value)

Spec == Init /\ [][Next]_vars
=============================================================================
