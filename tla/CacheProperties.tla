--------------------------- MODULE CacheProperties --------------------------
(***************************************************************************)
(* What the cache of Cache must hold, and what it must have counted.       *)
(***************************************************************************)
EXTENDS Cache, FiniteSets

Block == [valid : BOOLEAN, dirty : BOOLEAN, tag : Nat]

Counters == {"accesses", "reads", "writes", "misses", "readMisses",
             "writeMisses", "writeBacks"}

\* The type invariant; the list of a line holds each of its ways once, however
\* update_LRU() has moved them.
TypeOK ==
  /\ blocks \in [Ways -> [Lines -> Block]]
  /\ lru \in [Lines -> [1 .. NumWays -> Ways]]
  /\ \A line \in Lines, i, j \in 1 .. NumWays : lru[line][i] = lru[line][j] => i = j
  /\ stats \in [Counters -> Nat]

\* No block is in two ways of its line, so that block_search() may stop at the
\* first one it finds.
UniqueTags ==
  \A line \in Lines, way, other \in Ways :
    blocks[way][line].valid /\ blocks[other][line].valid
      /\ blocks[way][line].tag = blocks[other][line].tag => way = other

\* What the cache holds of a line, from the block used longest ago: a way
\* that holds nothing yet has never been used, and is listed before all others.
Recent(line) ==
  LET empty == Cardinality(Invalid(line))
  IN  [i \in 1 .. NumWays - empty |-> blocks[lru[line][empty + i]][line].tag]

Tags == {TagOf(address) : address \in Addresses}

Promise == INSTANCE LruCache WITH
  Lines <- Lines, Tags <- Tags, Ways <- NumWays, recent <- [line \in Lines |-> Recent(line)],
  misses <- stats.misses

\* The cache holds, line by line, the blocks used last, and counts a miss for
\* every access to another one.
ImplementsLru == Promise!Spec

Dirty == {b \in Ways \X Lines : blocks[b[1]][b[2]].dirty}

\* A write pays for at most one write-back, made or still to be made, and only
\* one that hits does: a block is written back only if it was written after it
\* was filled, and once.
WriteBacksBounded ==
  stats.writeBacks + Cardinality(Dirty) <= stats.writes - stats.writeMisses
=============================================================================
