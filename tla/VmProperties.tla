---------------------------- MODULE VmProperties ----------------------------
(***************************************************************************)
(* What the tables of the virtual memory simulator have to say about each  *)
(* other, and what a load has to give.                                     *)
(***************************************************************************)
EXTENDS Vm

Pte   == [pfn : Frames, valid : BOOLEAN, dirty : BOOLEAN, used : BOOLEAN]
Entry == [vpn : Vpns, pfn : Frames, valid : BOOLEAN, dirty : BOOLEAN,
          used : 0 .. UsedLimit - 1]
Bytes == [Offsets -> Values]

\* The type invariant.
TypeOK ==
  /\ forked \in SUBSET Pids
  /\ current \in forked \cup {NoPid}
  /\ tables \in [Pages -> Pte]
  /\ rlt \in [Frames -> Pages \cup {NoPage}]
  /\ tlb \in [Slots -> Entry]
  /\ memory \in [Frames -> Bytes]
  /\ swap \in Seq([page : Pages, data : Bytes])
  /\ stored \in [Pages -> Bytes]
  /\ mismatch \in BOOLEAN

\* The reverse lookup table names the page of every frame that a page table
\* refers to, so that two pages never share a frame.
FramesOwned == \A page \in Pages : tables[page].valid => rlt[tables[page].pfn] = page

\* The valid entries of the TLB are about different pages of the process that
\* runs; one whose page is valid has the frame of the page table, and is not
\* dirty unless the page is.
TlbAgrees ==
  \A slot \in Slots : tlb[slot].valid =>
    /\ current # NoPid
    /\ \A other \in Slots : tlb[other].valid /\ tlb[other].vpn = tlb[slot].vpn
                              => other = slot
    /\ LET pte == tables[<<current, tlb[slot].vpn>>] IN
       pte.valid => pte.pfn = tlb[slot].pfn /\ (tlb[slot].dirty => pte.dirty)

\* A page is in the swap file at most once, and never while it is valid: the
\* first copy that page_from_disk() finds is the only one.
SwappedOnce ==
  \A i \in DOMAIN swap :
    /\ ~tables[swap[i].page].valid
    /\ \A j \in DOMAIN swap : swap[j].page = swap[i].page => j = i

\* As long as a frame is free, a page is valid once it has been used, its frame
\* and its entry in the TLB lead to what has been stored in it, and no load
\* fails.
CoherentUntilFull ==
  FreeFrames # {} =>
    /\ ~mismatch
    /\ \A page \in Pages :
         stored[page] = IF tables[page].valid THEN memory[tables[page].pfn]
                        ELSE Blank
    /\ \A slot \in Slots :
         tlb[slot].valid => tables[<<current, tlb[slot].vpn>>].valid

\* A load gives what was stored last, which sim.c:194 checks with the message
\* "ERROR! loaded value did not equal expected!".
LoadsLastStore == ~mismatch
=============================================================================
