-------------------------------- MODULE Cache -------------------------------
(***************************************************************************)
(* The cache simulator of project 5.  It has 2^S ways, which the code      *)
(* calls sets, of 2^(C-B-S) lines each; an address belongs to one line and *)
(* its block may be in any way of it.  The ways of a line are listed from  *)
(* the least to the most recently used one.                                *)
(***************************************************************************)
EXTENDS Integers, Sequences, FiniteSetsExt

CONSTANTS
  NumWays,        \* associativity: 2^S
  NumLines,       \* lines: 2^(C-B-S)
  BlockSize,      \* 2^B
  MaskLimit,      \* 2^32: an int has room for masks below it
  Addresses,      \* the addresses of the trace
  MaxAccesses     \* its length

Ways  == 0 .. NumWays - 1
Lines == 0 .. NumLines - 1

ASSUME SizesAssumption ==
  /\ NumWays \in Nat \ {0} /\ NumLines \in Nat \ {0} /\ BlockSize \in Nat \ {0}
  /\ MaskLimit \in Nat /\ BlockSize * NumLines < MaskLimit
  /\ MaxAccesses \in Nat
ASSUME AddressesAssumption == Addresses \subseteq Nat

VARIABLES
  blocks,         \* the blocks of each way, by line
  lru,            \* the ways of each line, the least recently used first
  stats           \* what cache_stats_t counts

vars == <<blocks, lru, stats>>

\* index_decode().
IndexOf(address) == (address \div BlockSize) % NumLines

\* tag_decode() makes its mask of an int shifted by 64 bits less those of the
\* index and the offset.  The machine shifts by the remainder modulo 32, and the
\* mask, negative as an int, is extended to the whole address.  Of no bits of
\* index and offset the remainder is 0 and nothing is left of the mask.
TagOf(address) ==
  IF BlockSize * NumLines = 1 THEN 0 ELSE address \div (BlockSize * NumLines)

\* cache_init(), and the memset() of the driver.
Init ==
  /\ blocks = [way \in Ways |-> [line \in Lines |->
                [valid |-> FALSE, dirty |-> FALSE, tag |-> 0]]]
  /\ lru = [line \in Lines |-> [i \in 1 .. NumWays |-> i - 1]]
  /\ stats = [accesses |-> 0, reads |-> 0, writes |-> 0, misses |-> 0,
              readMisses |-> 0, writeMisses |-> 0, writeBacks |-> 0]

\* Mistake: the ways between the one used and the tail do not move up.
MovedToTailOnly(list, way) == [list EXCEPT ![Len(list)] = way]

\* update_LRU(): from the node of the way on, each takes the way of the next
\* one, and the last takes the way itself.
MovedToTail(list, way) ==
  [i \in DOMAIN list |->
    IF i = Len(list) THEN way
    ELSE IF \E j \in 1 .. i : list[j] = way THEN list[i + 1]
    ELSE list[i]]

\* Mistake: the last way is not searched.
HoldersButLast(line, tag) ==
  {way \in 0 .. NumWays - 2 :
     blocks[way][line].valid /\ blocks[way][line].tag = tag}

\* The ways that block_search() would stop at.
Holders(line, tag) ==
  {way \in Ways : blocks[way][line].valid /\ blocks[way][line].tag = tag}

Invalid(line) == {way \in Ways : ~blocks[way][line].valid}

\* Mistake: the most recently used block is replaced.
VictimMostRecent(line) ==
  IF Invalid(line) # {} THEN Min(Invalid(line)) ELSE lru[line][NumWays]

\* find_invalid_block(), then find_LRU_block().
Victim(line) == IF Invalid(line) # {} THEN Min(Invalid(line)) ELSE lru[line][1]

Counted(rw) ==
  [stats EXCEPT !.accesses = @ + 1, !.reads = @ + (IF rw = "w" THEN 0 ELSE 1),
                !.writes = @ + (IF rw = "w" THEN 1 ELSE 0)]

Hit(rw, line, tag) ==
  LET way == Min(Holders(line, tag)) IN
  /\ Holders(line, tag) # {}
  /\ blocks' = [blocks EXCEPT ![way][line].dirty = @ \/ rw = "w"]
  /\ lru' = [lru EXCEPT ![line] = MovedToTail(@, way)]
  /\ stats' = Counted(rw)

\* Mistake: the new block is as dirty as the old one.
FilledAsDirty(block, tag) == [block EXCEPT !.valid = TRUE, !.tag = tag]

\* A block that is written on a miss is not dirty.
Filled(block, tag) == [valid |-> TRUE, dirty |-> FALSE, tag |-> tag]

Miss(rw, line, tag) ==
  LET way == Victim(line) IN
  /\ Holders(line, tag) = {}
  /\ blocks' = [blocks EXCEPT ![way][line] = Filled(@, tag)]
  /\ lru' = [lru EXCEPT ![line] = MovedToTail(@, way)]
  /\ stats' = [Counted(rw) EXCEPT
                 !.misses      = @ + 1,
                 !.readMisses  = @ + (IF rw = "w" THEN 0 ELSE 1),
                 !.writeMisses = @ + (IF rw = "w" THEN 1 ELSE 0),
                 !.writeBacks  = @ + (IF blocks[way][line].dirty THEN 1 ELSE 0)]

\* cache_access()
Access(rw, address) ==
  /\ stats.accesses < MaxAccesses
  /\ \/ Hit(rw, IndexOf(address), TagOf(address))
     \/ Miss(rw, IndexOf(address), TagOf(address))

Next == \E rw \in {"r", "w"}, address \in Addresses : Access(rw, address)

Spec == Init /\ [][Next]_vars
=============================================================================
