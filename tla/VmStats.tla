------------------------------- MODULE VmStats ------------------------------
(***************************************************************************)
(* The counters of statistics.c, beside the machine of Vm.                 *)
(***************************************************************************)
EXTENDS Vm, FiniteSets

CONSTANT MaxAccesses \* bound: the loads and stores

ASSUME AccessesAssumption == MaxAccesses \in Nat

VARIABLES
  reads, writes, tlbhits, pagefaults, diskaccesses

counts == <<reads, writes, tlbhits, pagefaults, diskaccesses>>
statsVars == <<vars, counts>>

StatsInit ==
  /\ Init
  /\ reads = 0 /\ writes = 0 /\ tlbhits = 0 /\ pagefaults = 0 /\ diskaccesses = 0

\* Mistake: every miss of the TLB counts as a page fault.
FaultsByTlb(hits, page) == hits = {}
Faults(hits, page) == hits = {} /\ ~tables[page].valid

\* Whether the fault of a page writes another one to the swap file.
Saves(page) ==
  LET free   == GetFreeFrame(Marked(page))
      victim == rlt[free.frame]
  IN victim # NoPage /\ free.tables[victim].valid /\ free.tables[victim].dirty

One(b) == IF b THEN 1 ELSE 0

\* What an access adds to the counters, from the state before it.
Count(pid, vpn, write) ==
  LET page == <<pid, vpn>>
      hits == Hits(TlbFor(pid), vpn)
      fault == Faults(hits, page)
  IN /\ reads + writes < MaxAccesses
     /\ reads' = reads + One(~write) /\ writes' = writes + One(write)
     /\ tlbhits' = tlbhits + Cardinality(hits)
     /\ pagefaults' = pagefaults + One(fault)
     /\ diskaccesses' = diskaccesses + One(fault /\ Saves(page))
                                     + One(fault /\ OnDisk(swap, page) # {})

StatsNext ==
  \E pid \in Pids :
    \/ Fork(pid) /\ UNCHANGED counts
    \/ \E vpn \in Vpns, offset \in Offsets :
         \/ Load(pid, vpn, offset) /\ Count(pid, vpn, FALSE)
         \/ \E value \in Values :
              Store(pid, vpn, offset, value) /\ Count(pid, vpn, TRUE)

StatsSpec == StatsInit /\ [][StatsNext]_statsVars

-----------------------------------------------------------------------------
\* Every access is a read or a write, and counts one hit of the TLB or one
\* page fault at most, although the loop over the TLB goes on behind a hit:
\* what emat.c:23 takes for the misses covers the page faults
\* (tlb-lookup.c:33-42, page-lookup.c:21-26, memory.c:37 and 60).
HitOrFault == tlbhits + pagefaults <= reads + writes

DirtyPages == {page \in Pages : tables[page].valid /\ tables[page].dirty}

\* Every disk access is a page saved in the swap file or one read back from
\* it.  What was saved is in the file or was read back, once; a page fault
\* saves one page at most and reads back one; and a page is only saved for a
\* write, of which the dirty pages in memory have another one each
\* (swapfile.c:35 and 80, page-fault.c:49-55 and 75-77).
DiskAccessesPaid ==
  \E readBack \in 0 .. pagefaults :
    LET saved == Len(swap) + readBack IN
    /\ diskaccesses = saved + readBack
    /\ saved <= pagefaults
    /\ saved + Cardinality(DirtyPages) <= writes

\* As long as a frame is free, the page faults are the unavoidable ones: the
\* first use of every page that is in memory, and no other access
\* (emat.c:10-13, page-lookup.c:21-26).
ColdFaultsOnly ==
  FreeFrames # {} =>
    pagefaults = Cardinality({page \in Pages : tables[page].valid})

\* The counters, which are moved in three files, agree with the tables of the
\* machine whose events they count.
CountersAgree == HitOrFault /\ DiskAccessesPaid /\ ColdFaultsOnly
=============================================================================
