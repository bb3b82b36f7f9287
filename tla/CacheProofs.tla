----------------------------- MODULE CacheProofs ----------------------------
(***************************************************************************)
(* Theorems about the cache of Cache, for any number of ways and lines,    *)
(* any size of a block and any trace.                                      *)
(***************************************************************************)
EXTENDS CacheProperties, FiniteSetTheorems, SequenceTheorems,
        WellFoundedInduction, TLAPS

\* A list of the ways of a line has each of them at one place.
IsOrder(list) ==
  /\ list \in [1 .. NumWays -> Ways]
  /\ \A i, j \in 1 .. NumWays : list[i] = list[j] => i = j
  /\ \A way \in Ways : \E i \in 1 .. NumWays : list[i] = way

\* TypeOK says that no way is twice in a list; the moves keep it so only
\* because none is missing.
TypeInv ==
  /\ blocks \in [Ways -> [Lines -> Block]]
  /\ lru \in [Lines -> [1 .. NumWays -> Ways]]
  /\ \A line \in Lines : IsOrder(lru[line])
  /\ stats \in [Counters -> Nat]

-----------------------------------------------------------------------------
(* Addresses, ways and lists of ways.                                      *)

LEMMA AddressFacts ==
  ASSUME NEW address \in Addresses
  PROVE  IndexOf(address) \in Lines /\ TagOf(address) \in Nat
<1>1. /\ address \in Nat /\ BlockSize \in Nat \ {0} /\ NumLines \in Nat \ {0}
  BY SizesAssumption, AddressesAssumption
<1>2. \A a \in Nat, b \in Nat \ {0} : a \div b \in Nat
  OBVIOUS
<1>3. \A a \in Nat, b \in Nat \ {0} : a % b \in 0 .. b - 1
  OBVIOUS
<1>4. \A a, b \in Nat \ {0} : a * b \in Nat \ {0}
  OBVIOUS
<1>5. address \div BlockSize \in Nat
  BY <1>1, <1>2
<1>6. BlockSize * NumLines \in Nat \ {0}
  BY <1>1, <1>4
<1>7. TagOf(address) \in Nat
  <2>1. address \div (BlockSize * NumLines) \in Nat
    BY <1>1, <1>2, <1>6
  <2> QED BY <2>1 DEF TagOf
<1>8. IndexOf(address) \in Lines
  BY <1>1, <1>3, <1>5 DEF IndexOf, Lines
<1> QED BY <1>7, <1>8

\* The first way of a set of ways is one of them, and no other is smaller.
LEMMA FirstWay ==
  ASSUME NEW S \in SUBSET Ways, S # {}
  PROVE  Min(S) \in Ways /\ Min(S) \in S /\ \A way \in S : Min(S) <= way
<1>0. S \in SUBSET Nat
  BY SizesAssumption DEF Ways
<1>1. \E x \in S : \A y \in S : ~ (<<y, x>> \in OpToRel(<, Nat))
  BY <1>0, NatLessThanWellFounded, WFMin, Zenon
<1>2. \A x, y \in Nat : y < x => <<y, x>> \in OpToRel(<, Nat)
  <2> TAKE x, y \in Nat
  <2> HAVE y < x
  <2>1. <<y, x>> \in Nat \X Nat /\ <<y, x>>[1] < <<y, x>>[2]
    OBVIOUS
  <2>2. OpToRel(<, Nat) = {ss \in Nat \X Nat : ss[1] < ss[2]}
    BY Zenon DEF OpToRel
  <2> QED BY <2>1, <2>2
<1>3. \E x \in S : \A y \in S : x <= y
  <2>1. \A x \in S : x \in Nat
    BY <1>0
  <2>2. \E x \in S : \A y \in S : ~ (y < x)
    BY <1>1, <1>2, <2>1, Zenon
  <2> QED BY <2>1, <2>2
<1> QED BY <1>3 DEF Min

\* update_LRU() on the way in the p-th place of a list: those after it move up.
Shifted(list, p) ==
  [i \in 1 .. NumWays |->
     IF i = NumWays THEN list[p] ELSE IF p <= i THEN list[i + 1] ELSE list[i]]

LEMMA MovedAt ==
  ASSUME NEW list, IsOrder(list), NEW p \in 1 .. NumWays
  PROVE  MovedToTail(list, list[p]) = Shifted(list, p)
<1>1. NumWays \in Nat \ {0} /\ list \in [1 .. NumWays -> Ways]
  BY SizesAssumption DEF IsOrder
<1>2. Len(list) = NumWays /\ DOMAIN list = 1 .. NumWays
  <2>1. list \in Seq(Ways)
    BY <1>1
  <2> QED BY <1>1, <2>1, LenProperties
<1>3. \A i \in 1 .. NumWays : (\E j \in 1 .. i : list[j] = list[p]) <=> p <= i
  BY <1>1 DEF IsOrder
<1> QED BY <1>2, <1>3 DEF MovedToTail, Shifted

\* update_LRU() moves the ways of a line, and loses none.
LEMMA MovedIsOrder ==
  ASSUME NEW list, IsOrder(list), NEW way \in Ways
  PROVE  IsOrder(MovedToTail(list, way))
<1> DEFINE moved == MovedToTail(list, way)
<1>1. NumWays \in Nat \ {0} /\ list \in [1 .. NumWays -> Ways]
  BY SizesAssumption DEF IsOrder
<1>2. PICK p \in 1 .. NumWays : list[p] = way
  BY DEF IsOrder
<1>3. moved = Shifted(list, p)
  BY <1>2, MovedAt
<1> HIDE DEF moved
<1>4. moved \in [1 .. NumWays -> Ways]
  BY <1>1, <1>3 DEF Shifted
<1>5. \A i, j \in 1 .. NumWays : moved[i] = moved[j] => i = j
  BY <1>1, <1>2, <1>3 DEF IsOrder, Shifted
<1>6. ASSUME NEW w \in Ways
      PROVE  \E i \in 1 .. NumWays : moved[i] = w
  <2>1. PICK q \in 1 .. NumWays : list[q] = w
    BY DEF IsOrder
  <2>2. CASE q = p
    BY <1>1, <1>2, <1>3, <2>1, <2>2 DEF Shifted
  <2>3. CASE q < p
    BY <1>1, <1>2, <1>3, <2>1, <2>3 DEF Shifted
  <2>4. CASE p < q
    <3>1. q - 1 \in 1 .. NumWays /\ moved[q - 1] = w
      BY <1>1, <1>2, <1>3, <2>1, <2>4 DEF Shifted
    <3> QED BY <3>1
  <2> QED BY <2>2, <2>3, <2>4
<1> QED BY <1>4, <1>5, <1>6 DEF IsOrder, moved

-----------------------------------------------------------------------------
(* Steps.                                                                  *)

\* What a hit and a miss change, in any way and line.
LEMMA StepCases ==
  ASSUME TypeInv, Next
  PROVE  \E rw \in {"r", "w"}, line \in Lines, tag \in Nat :
           tag \in Tags /\ (Hit(rw, line, tag) \/ Miss(rw, line, tag))
<1>1. PICK rw \in {"r", "w"}, address \in Addresses : Access(rw, address)
  BY DEF Next
<1>2. IndexOf(address) \in Lines /\ TagOf(address) \in Nat
  BY AddressFacts
<1> QED BY <1>1, <1>2 DEF Access, Tags

LEMMA HitWay ==
  ASSUME NEW line, NEW tag, Holders(line, tag) # {}
  PROVE  Min(Holders(line, tag)) \in Ways
  BY FirstWay DEF Holders

LEMMA VictimWay ==
  ASSUME TypeInv, NEW line \in Lines
  PROVE  Victim(line) \in Ways
<1>1. Invalid(line) # {} => Min(Invalid(line)) \in Ways
  BY FirstWay DEF Invalid
<1>2. lru[line][1] \in Ways
  BY SizesAssumption DEF TypeInv
<1> QED BY <1>1, <1>2 DEF Victim

LEMMA CountedType ==
  ASSUME TypeInv, NEW rw \in {"r", "w"}
  PROVE  /\ Counted(rw) \in [Counters -> Nat]
         /\ Counted(rw).writes = stats.writes + (IF rw = "w" THEN 1 ELSE 0)
         /\ Counted(rw).writeMisses = stats.writeMisses
         /\ Counted(rw).writeBacks = stats.writeBacks
<1>1. \A s \in [Counters -> Nat], f \in Counters, v \in Nat :
        [s EXCEPT ![f] = v] \in [Counters -> Nat]
  OBVIOUS
<1>2. {"accesses", "reads", "writes", "writeMisses", "writeBacks"} \subseteq Counters
  BY DEF Counters
<1>3. stats \in [Counters -> Nat]
  BY DEF TypeInv
<1> DEFINE a == [stats EXCEPT !["accesses"] = @ + 1]
           b == [a EXCEPT !["reads"] = @ + (IF rw = "w" THEN 0 ELSE 1)]
           c == [b EXCEPT !["writes"] = @ + (IF rw = "w" THEN 1 ELSE 0)]
<1>4. a \in [Counters -> Nat]
  BY <1>2, <1>3
<1>5. b \in [Counters -> Nat]
  BY <1>2, <1>4
<1>6. c \in [Counters -> Nat]
  BY <1>2, <1>5
<1>7. Counted(rw) = c
  BY DEF Counted
<1>8. /\ c["writes"] = stats["writes"] + (IF rw = "w" THEN 1 ELSE 0)
      /\ c["writeMisses"] = stats["writeMisses"]
      /\ c["writeBacks"] = stats["writeBacks"]
  BY <1>2, <1>3
<1> QED BY <1>6, <1>7, <1>8

\* The counters of a miss.
LEMMA MissCounts ==
  ASSUME TypeInv, NEW rw \in {"r", "w"}, NEW dirty,
         stats' = [Counted(rw) EXCEPT
                     !.misses      = @ + 1,
                     !.readMisses  = @ + (IF rw = "w" THEN 0 ELSE 1),
                     !.writeMisses = @ + (IF rw = "w" THEN 1 ELSE 0),
                     !.writeBacks  = @ + (IF dirty THEN 1 ELSE 0)]
  PROVE  /\ stats' \in [Counters -> Nat]
         /\ stats'.writes = stats.writes + (IF rw = "w" THEN 1 ELSE 0)
         /\ stats'.writeMisses = stats.writeMisses + (IF rw = "w" THEN 1 ELSE 0)
         /\ stats'.writeBacks = stats.writeBacks + (IF dirty THEN 1 ELSE 0)
<1> DEFINE s == Counted(rw)
           a == [s EXCEPT !["misses"] = @ + 1]
           b == [a EXCEPT !["readMisses"] = @ + (IF rw = "w" THEN 0 ELSE 1)]
           c == [b EXCEPT !["writeMisses"] = @ + (IF rw = "w" THEN 1 ELSE 0)]
           d == [c EXCEPT !["writeBacks"] = @ + (IF dirty THEN 1 ELSE 0)]
<1>1. stats' = d
  OBVIOUS
<1>2. {"misses", "readMisses", "writes", "writeMisses", "writeBacks"} \subseteq Counters
  BY DEF Counters
<1>3. /\ s \in [Counters -> Nat]
      /\ s["writes"] = stats["writes"] + (IF rw = "w" THEN 1 ELSE 0)
      /\ s["writeMisses"] = stats["writeMisses"]
      /\ s["writeBacks"] = stats["writeBacks"]
  BY CountedType
<1> HIDE DEF s
<1>4. a \in [Counters -> Nat]
  BY <1>2, <1>3
<1>5. b \in [Counters -> Nat]
  BY <1>2, <1>4
<1>6. c \in [Counters -> Nat]
  BY <1>2, <1>5
<1>7. d \in [Counters -> Nat]
  BY <1>2, <1>6
<1>8. /\ d["writes"] = s["writes"]
      /\ d["writeMisses"] = s["writeMisses"] + (IF rw = "w" THEN 1 ELSE 0)
      /\ d["writeBacks"] = s["writeBacks"] + (IF dirty THEN 1 ELSE 0)
  BY <1>2, <1>3, <1>7
<1> QED BY <1>1, <1>3, <1>7, <1>8

LEMMA InitType == Init => TypeInv
<1> SUFFICES ASSUME Init PROVE TypeInv
  OBVIOUS
<1>1. blocks \in [Ways -> [Lines -> Block]]
  BY DEF Init, Block
<1>2. \A line \in Lines : lru[line] = [i \in 1 .. NumWays |-> i - 1]
  BY DEF Init
<1>3. IsOrder([i \in 1 .. NumWays |-> i - 1])
  <2>1. \A way \in Ways : way + 1 \in 1 .. NumWays /\ (way + 1) - 1 = way
    BY SizesAssumption DEF Ways
  <2> QED BY <2>1, SizesAssumption DEF IsOrder, Ways
<1>4. lru \in [Lines -> [1 .. NumWays -> Ways]]
  BY <1>3 DEF Init, IsOrder
<1>5. stats \in [Counters -> Nat]
  BY DEF Init, Counters
<1> QED BY <1>1, <1>2, <1>3, <1>4, <1>5 DEF TypeInv

\* Another block in one way of one line.
LEMMA BlockSet ==
  ASSUME TypeInv, NEW way \in Ways, NEW line \in Lines, NEW b \in Block,
         blocks' = [blocks EXCEPT ![way] = [blocks[way] EXCEPT ![line] = b]]
  PROVE  /\ blocks' \in [Ways -> [Lines -> Block]]
         /\ blocks'[way][line] = b
         /\ \A w \in Ways, l \in Lines :
              w # way \/ l # line => blocks'[w][l] = blocks[w][l]
  BY DEF TypeInv

\* What a hit does to the blocks.
Dirties(rw, way, line) ==
  blocks' = [blocks EXCEPT ![way][line].dirty = @ \/ rw = "w"]

\* A hit makes a block dirty that is written; the rest of it stays.
LEMMA HitBlock ==
  ASSUME TypeInv, NEW rw \in {"r", "w"}, NEW way \in Ways, NEW line \in Lines,
         Dirties(rw, way, line)
  PROVE  /\ blocks' \in [Ways -> [Lines -> Block]]
         /\ blocks'[way][line].dirty <=> blocks[way][line].dirty \/ rw = "w"
         /\ blocks'[way][line].valid = blocks[way][line].valid
         /\ blocks'[way][line].tag = blocks[way][line].tag
         /\ \A w \in Ways, l \in Lines :
              w # way \/ l # line => blocks'[w][l] = blocks[w][l]
<1> DEFINE old == blocks[way][line]
           new == [old EXCEPT !.dirty = old.dirty \/ rw = "w"]
<1>1. old \in Block
  BY DEF TypeInv
<1>2. (old.dirty \/ rw = "w") \in BOOLEAN
  OBVIOUS
<1>3. new \in Block /\ new.valid = old.valid /\ new.tag = old.tag
  BY <1>1, <1>2 DEF Block
<1>4. new.dirty <=> old.dirty \/ rw = "w"
  BY <1>1, <1>2 DEF Block
<1>5. blocks' = [blocks EXCEPT ![way] = [blocks[way] EXCEPT ![line] = new]]
  BY DEF TypeInv, Dirties
<1> HIDE DEF new, old
<1>6. /\ blocks' \in [Ways -> [Lines -> Block]]
      /\ blocks'[way][line] = new
      /\ \A w \in Ways, l \in Lines :
           w # way \/ l # line => blocks'[w][l] = blocks[w][l]
  <2>1. new \in Block
    BY <1>3, Zenon
  <2> QED BY <1>5, <2>1, BlockSet, ZenonT(60)
<1> QED BY <1>3, <1>4, <1>6 DEF old

LEMMA HitType ==
  ASSUME TypeInv, NEW rw \in {"r", "w"}, NEW line \in Lines, NEW tag \in Nat,
         Hit(rw, line, tag)
  PROVE  TypeInv'
<1> DEFINE way == Min(Holders(line, tag))
<1>1. way \in Ways
  BY HitWay DEF Hit
<1>2. /\ Dirties(rw, way, line)
      /\ lru' = [lru EXCEPT ![line] = MovedToTail(@, way)]
      /\ stats' = Counted(rw)
  BY DEF Hit, Dirties
<1> HIDE DEF way
<1>3. blocks' \in [Ways -> [Lines -> Block]]
  BY <1>1, <1>2, HitBlock
<1>4. IsOrder(MovedToTail(lru[line], way))
  BY <1>1, MovedIsOrder DEF TypeInv
<1>5. lru' \in [Lines -> [1 .. NumWays -> Ways]]
  BY <1>2, <1>4 DEF TypeInv, IsOrder
<1>6. \A l \in Lines : IsOrder(lru'[l])
  BY <1>2, <1>4 DEF TypeInv
<1>7. stats' \in [Counters -> Nat]
  BY <1>2, CountedType
<1> QED BY <1>3, <1>5, <1>6, <1>7 DEF TypeInv, IsOrder

LEMMA MissType ==
  ASSUME TypeInv, NEW rw \in {"r", "w"}, NEW line \in Lines, NEW tag \in Nat,
         Miss(rw, line, tag)
  PROVE  TypeInv'
<1> DEFINE way == Victim(line)
<1>1. way \in Ways
  BY VictimWay
<1>2. /\ blocks' = [blocks EXCEPT ![way][line] = Filled(@, tag)]
      /\ lru' = [lru EXCEPT ![line] = MovedToTail(@, way)]
      /\ stats' = [Counted(rw) EXCEPT
                     !.misses      = @ + 1,
                     !.readMisses  = @ + (IF rw = "w" THEN 0 ELSE 1),
                     !.writeMisses = @ + (IF rw = "w" THEN 1 ELSE 0),
                     !.writeBacks  = @ + (IF blocks[way][line].dirty THEN 1 ELSE 0)]
  BY DEF Miss
<1> HIDE DEF way
<1>3. blocks' \in [Ways -> [Lines -> Block]]
  BY <1>1, <1>2 DEF TypeInv, Block, Filled
<1>4. IsOrder(MovedToTail(lru[line], way))
  BY <1>1, MovedIsOrder DEF TypeInv
<1>5. lru' \in [Lines -> [1 .. NumWays -> Ways]]
  BY <1>2, <1>4 DEF TypeInv, IsOrder
<1>6. \A l \in Lines : IsOrder(lru'[l])
  BY <1>2, <1>4 DEF TypeInv
<1>7. stats' \in [Counters -> Nat]
  BY <1>2, MissCounts
<1> QED BY <1>3, <1>5, <1>6, <1>7 DEF TypeInv, IsOrder

LEMMA TypeHolds == Spec => []TypeInv
<1>1. TypeInv /\ [Next]_vars => TypeInv'
  <2> SUFFICES ASSUME TypeInv, [Next]_vars PROVE TypeInv'
    OBVIOUS
  <2>1. CASE Next
    BY <2>1, StepCases, HitType, MissType
  <2>2. CASE UNCHANGED vars
    BY <2>2 DEF vars, TypeInv, IsOrder
  <2> QED BY <2>1, <2>2
<1> QED BY InitType, <1>1, PTL DEF Spec

\* update_LRU() keeps each way once in the list of a line, and everything
\* else has its type (cachesim.c:265-286).
THEOREM TypeCorrect == Spec => []TypeOK
<1>1. TypeInv => TypeOK
  BY DEF TypeInv, TypeOK, IsOrder
<1> QED BY <1>1, TypeHolds, PTL

-----------------------------------------------------------------------------
(* The blocks of a line.                                                   *)

LEMMA InitTags == Init => UniqueTags
  BY DEF Init, UniqueTags

LEMMA HitTags ==
  ASSUME TypeInv, UniqueTags,
         NEW rw \in {"r", "w"}, NEW line \in Lines, NEW tag \in Nat,
         Hit(rw, line, tag)
  PROVE  UniqueTags'
<1> DEFINE way == Min(Holders(line, tag))
<1>1. way \in Ways
  BY HitWay DEF Hit
<1>2. Dirties(rw, way, line)
  BY DEF Hit, Dirties
<1> HIDE DEF way
<1>3. \A w \in Ways, l \in Lines : /\ blocks'[w][l].valid = blocks[w][l].valid
                                   /\ blocks'[w][l].tag = blocks[w][l].tag
  BY <1>1, <1>2, HitBlock
<1> QED BY <1>3 DEF UniqueTags

\* A miss brings in a block that no way of its line holds.
LEMMA MissTags ==
  ASSUME TypeInv, UniqueTags,
         NEW rw \in {"r", "w"}, NEW line \in Lines, NEW tag \in Nat,
         Miss(rw, line, tag)
  PROVE  UniqueTags'
<1> DEFINE way == Victim(line)
<1>1. way \in Ways
  BY VictimWay
<1>2. blocks' = [blocks EXCEPT ![way][line] = Filled(@, tag)]
  BY DEF Miss
<1>3. \A w \in Ways : ~ (blocks[w][line].valid /\ blocks[w][line].tag = tag)
  BY DEF Miss, Holders
<1> HIDE DEF way
<1>4. /\ blocks'[way][line].valid /\ blocks'[way][line].tag = tag
      /\ \A w \in Ways, l \in Lines :
           w # way \/ l # line => blocks'[w][l] = blocks[w][l]
  BY <1>1, <1>2 DEF TypeInv, Filled
<1> SUFFICES ASSUME NEW l \in Lines, NEW w \in Ways, NEW other \in Ways,
                    blocks'[w][l].valid, blocks'[other][l].valid,
                    blocks'[w][l].tag = blocks'[other][l].tag
             PROVE  w = other
  BY DEF UniqueTags
<1>5. CASE l # line
  BY <1>4, <1>5 DEF UniqueTags
<1>6. CASE l = line /\ w # way /\ other # way
  BY <1>4, <1>6 DEF UniqueTags
<1>7. CASE l = line /\ w = way /\ other # way
  BY <1>3, <1>4, <1>7
<1>8. CASE l = line /\ w # way /\ other = way
  BY <1>3, <1>4, <1>8
<1> QED BY <1>5, <1>6, <1>7, <1>8

\* block_search() may stop at the first way that holds a block, as no other
\* one does (cachesim.c:136-154).
THEOREM TagsAreUnique == Spec => []UniqueTags
<1>1. TypeInv /\ UniqueTags /\ [Next]_vars => UniqueTags'
  <2> SUFFICES ASSUME TypeInv, UniqueTags, [Next]_vars PROVE UniqueTags'
    OBVIOUS
  <2>1. CASE Next
    BY <2>1, StepCases, HitTags, MissTags
  <2>2. CASE UNCHANGED vars
    BY <2>2 DEF vars, UniqueTags
  <2> QED BY <2>1, <2>2
<1> QED BY InitTags, <1>1, TypeHolds, PTL DEF Spec
-----------------------------------------------------------------------------
(* Write-backs.                                                            *)

LEMMA DirtyFinite ==
  ASSUME TypeInv
  PROVE  IsFiniteSet(Dirty) /\ Cardinality(Dirty) \in Nat
<1>1. IsFiniteSet(Ways) /\ IsFiniteSet(Lines)
  BY SizesAssumption, FS_Interval DEF Ways, Lines
<1>2. IsFiniteSet(Ways \X Lines)
  BY <1>1, FS_Product
<1>3. Dirty \in SUBSET (Ways \X Lines)
  BY DEF Dirty
<1>4. IsFiniteSet(Dirty)
  BY <1>2, <1>3, FS_Subset
<1> QED BY <1>4, FS_CardinalityType

\* What is counted of the writes is a number.
LEMMA WriteCounters ==
  ASSUME TypeInv
  PROVE  stats.writes \in Nat /\ stats.writeMisses \in Nat /\ stats.writeBacks \in Nat
  BY DEF TypeInv, Counters

\* A hit that writes may make one more block dirty, and counts a write.
LEMMA HitBounded ==
  ASSUME TypeInv, WriteBacksBounded,
         NEW rw \in {"r", "w"}, NEW line \in Lines, NEW tag \in Nat,
         Hit(rw, line, tag)
  PROVE  WriteBacksBounded'
<1> DEFINE way == Min(Holders(line, tag))
<1>1. way \in Ways
  BY HitWay DEF Hit
<1>2. Dirties(rw, way, line) /\ stats' = Counted(rw)
  BY DEF Hit, Dirties
<1> HIDE DEF way
<1>3. /\ \A w \in Ways, l \in Lines :
           w # way \/ l # line => blocks'[w][l] = blocks[w][l]
      /\ blocks'[way][line].dirty <=> blocks[way][line].dirty \/ rw = "w"
  BY <1>1, <1>2, HitBlock
<1>4. Dirty' = IF rw = "w" THEN Dirty \cup {<<way, line>>} ELSE Dirty
  <2>1. \A b \in Ways \X Lines :
          b \in Dirty' <=> b \in Dirty \/ (rw = "w" /\ b = <<way, line>>)
    BY <1>1, <1>3 DEF Dirty
  <2>2. Dirty' \subseteq Ways \X Lines /\ Dirty \subseteq Ways \X Lines
    BY DEF Dirty
  <2> QED BY <1>1, <2>1, <2>2
<1>5. Cardinality(Dirty') <= Cardinality(Dirty) + (IF rw = "w" THEN 1 ELSE 0)
  <2>1. /\ IsFiniteSet(Dirty \cup {<<way, line>>})
        /\ Cardinality(Dirty \cup {<<way, line>>}) \in
             {Cardinality(Dirty), Cardinality(Dirty) + 1}
    BY DirtyFinite, FS_AddElement, Zenon
  <2>2. CASE rw = "w"
    BY <1>4, <2>1, <2>2, DirtyFinite
  <2>3. CASE rw # "w"
    BY <1>4, <2>3, DirtyFinite
  <2> QED BY <2>2, <2>3
<1>6. /\ stats'.writes = stats.writes + (IF rw = "w" THEN 1 ELSE 0)
      /\ stats'.writeMisses = stats.writeMisses
      /\ stats'.writeBacks = stats.writeBacks
  BY <1>2, CountedType
<1>7. Cardinality(Dirty') \in Nat
  BY <1>4, DirtyFinite, FS_AddElement, FS_CardinalityType
<1> QED BY <1>5, <1>6, <1>7, DirtyFinite, WriteCounters DEF WriteBacksBounded

\* A miss writes the block back that it replaces if it was dirty, which it is
\* no more; a write that misses is in both counters of the right-hand side.
LEMMA MissBounded ==
  ASSUME TypeInv, WriteBacksBounded,
         NEW rw \in {"r", "w"}, NEW line \in Lines, NEW tag \in Nat,
         Miss(rw, line, tag)
  PROVE  WriteBacksBounded'
<1> DEFINE way == Victim(line)
           dirty == blocks[way][line].dirty
<1>1. way \in Ways
  BY VictimWay
<1>2. /\ blocks' = [blocks EXCEPT ![way][line] = Filled(@, tag)]
      /\ stats' = [Counted(rw) EXCEPT
                     !.misses      = @ + 1,
                     !.readMisses  = @ + (IF rw = "w" THEN 0 ELSE 1),
                     !.writeMisses = @ + (IF rw = "w" THEN 1 ELSE 0),
                     !.writeBacks  = @ + (IF dirty THEN 1 ELSE 0)]
  BY DEF Miss
<1> HIDE DEF way
<1>3. /\ ~ blocks'[way][line].dirty
      /\ \A w \in Ways, l \in Lines :
           w # way \/ l # line => blocks'[w][l] = blocks[w][l]
  BY <1>1, <1>2 DEF TypeInv, Filled
<1>4. Dirty' = Dirty \ {<<way, line>>}
  <2>1. \A b \in Ways \X Lines :
          b \in Dirty' <=> b \in Dirty /\ b # <<way, line>>
    BY <1>1, <1>3 DEF Dirty
  <2>2. Dirty' \subseteq Ways \X Lines /\ Dirty \subseteq Ways \X Lines
    BY DEF Dirty
  <2> QED BY <2>1, <2>2
<1>5. <<way, line>> \in Dirty <=> dirty
  BY <1>1 DEF Dirty
<1> HIDE DEF dirty
<1>6. Cardinality(Dirty') = Cardinality(Dirty) - (IF dirty THEN 1 ELSE 0)
  BY <1>4, <1>5, DirtyFinite, FS_RemoveElement
<1>7. /\ stats'.writes = stats.writes + (IF rw = "w" THEN 1 ELSE 0)
      /\ stats'.writeMisses = stats.writeMisses + (IF rw = "w" THEN 1 ELSE 0)
      /\ stats'.writeBacks = stats.writeBacks + (IF dirty THEN 1 ELSE 0)
  BY <1>2, MissCounts
<1> QED BY <1>6, <1>7, DirtyFinite, WriteCounters DEF WriteBacksBounded

\* A block is written back once for the writes it has taken since it was
\* filled (cachesim.c:78-111).
THEOREM FewWriteBacks == Spec => []WriteBacksBounded
<1>1. Init => WriteBacksBounded
  <2> SUFFICES ASSUME Init PROVE WriteBacksBounded
    OBVIOUS
  <2>1. Dirty = {}
    BY DEF Init, Dirty
  <2>2. stats.writeBacks = 0 /\ stats.writes = 0 /\ stats.writeMisses = 0
    BY DEF Init
  <2> QED BY <2>1, <2>2, FS_EmptySet DEF WriteBacksBounded
<1>2. TypeInv /\ WriteBacksBounded /\ [Next]_vars => WriteBacksBounded'
  <2> SUFFICES ASSUME TypeInv, WriteBacksBounded, [Next]_vars
               PROVE  WriteBacksBounded'
    OBVIOUS
  <2>1. CASE Next
    BY <2>1, StepCases, HitBounded, MissBounded
  <2>2. CASE UNCHANGED vars
    BY <2>2 DEF vars, WriteBacksBounded, Dirty
  <2> QED BY <2>1, <2>2
<1> QED BY <1>1, <1>2, TypeHolds, PTL DEF Spec

-----------------------------------------------------------------------------
(* The lists of the lines.                                                 *)

Empty(line) == Cardinality(Invalid(line))

\* The ways of a line that hold nothing are the first of its list, in the order
\* in which find_invalid_block() finds them.
EmptyFirst ==
  \A line \in Lines :
    /\ \A i \in 1 .. NumWays : i <= Empty(line) <=> ~ blocks[lru[line][i]][line].valid
    /\ \A i, j \in 1 .. Empty(line) : i < j => lru[line][i] < lru[line][j]

\* find_invalid_block() is never needed: what it finds is what find_LRU_block()
\* would have found.
VictimIsLeastRecent == \A line \in Lines : Victim(line) = lru[line][1]

LEMMA EmptyFacts ==
  ASSUME NEW line \in Lines
  PROVE  /\ IsFiniteSet(Invalid(line))
         /\ Empty(line) \in 0 .. NumWays
         /\ Empty(line) = 0 <=> Invalid(line) = {}
<1>1. NumWays \in Nat \ {0}
  BY SizesAssumption
<1>2. IsFiniteSet(Ways) /\ Cardinality(Ways) = NumWays
  <2>1. 0 \in Int /\ NumWays - 1 \in Int /\ ~ (0 > NumWays - 1)
        /\ (NumWays - 1) - 0 + 1 = NumWays
    BY <1>1
  <2> QED BY <2>1, FS_Interval DEF Ways
<1>3. Invalid(line) \in SUBSET Ways
  BY DEF Invalid
<1>4. IsFiniteSet(Invalid(line)) /\ Empty(line) <= NumWays
  BY <1>2, <1>3, FS_Subset DEF Empty
<1>5. Empty(line) \in Nat
  BY <1>4, FS_CardinalityType DEF Empty
<1> QED BY <1>1, <1>4, <1>5, FS_EmptySet DEF Empty

LEMMA LeastVictim ==
  ASSUME TypeInv, EmptyFirst
  PROVE  VictimIsLeastRecent
<1> SUFFICES ASSUME NEW line \in Lines
             PROVE  Victim(line) = lru[line][1]
  BY DEF VictimIsLeastRecent
<1>1. CASE Invalid(line) = {}
  BY <1>1 DEF Victim
<1>2. CASE Invalid(line) # {}
  <2> DEFINE list == lru[line]
             first == Min(Invalid(line))
  <2>1. NumWays \in Nat \ {0} /\ Empty(line) \in 1 .. NumWays
    BY <1>2, EmptyFacts, SizesAssumption
  <2>2. first \in Invalid(line) /\ \A way \in Invalid(line) : first <= way
    BY <1>2, FirstWay DEF Invalid
  <2>3. list \in [1 .. NumWays -> Ways] /\ list[1] \in Invalid(line)
    BY <2>1 DEF TypeInv, EmptyFirst, Invalid
  <2> HIDE DEF first
  <2>4. PICK i \in 1 .. NumWays : list[i] = first
    BY <2>2 DEF TypeInv, IsOrder, Invalid
  <2>5. i <= Empty(line)
    BY <2>2, <2>4 DEF EmptyFirst, Invalid
  <2>6. 1 < i => list[1] < list[i]
    BY <2>1, <2>5 DEF EmptyFirst
  <2>7. list[1] \in Nat /\ first \in Nat /\ first <= list[1]
    BY <2>2, <2>3, SizesAssumption DEF Invalid, Ways
  <2>8. list[1] = first
    BY <2>4, <2>6, <2>7
  <2> QED BY <1>2, <2>8 DEF Victim, first
<1> QED BY <1>1, <1>2

\* A hit moves one way that holds a block.
LEMMA HitList ==
  ASSUME TypeInv, EmptyFirst,
         NEW rw \in {"r", "w"}, NEW line \in Lines, NEW tag \in Nat,
         Hit(rw, line, tag)
  PROVE  /\ \E p \in 1 .. NumWays :
              /\ Empty(line) < p /\ blocks[lru[line][p]][line].tag = tag
              /\ lru' = [lru EXCEPT ![line] = Shifted(lru[line], p)]
         /\ \A w \in Ways, l \in Lines : /\ blocks'[w][l].valid = blocks[w][l].valid
                                         /\ blocks'[w][l].tag = blocks[w][l].tag
<1> DEFINE way == Min(Holders(line, tag))
<1>1. way \in Ways /\ blocks[way][line].valid /\ blocks[way][line].tag = tag
  <2>1. Holders(line, tag) \in SUBSET Ways /\ Holders(line, tag) # {}
    BY DEF Hit, Holders
  <2> QED BY <2>1, FirstWay DEF Holders
<1>2. Dirties(rw, way, line) /\ lru' = [lru EXCEPT ![line] = MovedToTail(@, way)]
  BY DEF Hit, Dirties
<1> HIDE DEF way
<1>3. PICK p \in 1 .. NumWays : lru[line][p] = way
  BY <1>1 DEF TypeInv, IsOrder
<1>4. Empty(line) < p
  BY <1>1, <1>3, EmptyFacts DEF EmptyFirst
<1>5. MovedToTail(lru[line], way) = Shifted(lru[line], p)
  BY <1>3, MovedAt DEF TypeInv
<1>6. lru' = [lru EXCEPT ![line] = Shifted(lru[line], p)]
  BY <1>2, <1>5
<1>7. \A w \in Ways, l \in Lines : /\ blocks'[w][l].valid = blocks[w][l].valid
                                   /\ blocks'[w][l].tag = blocks[w][l].tag
  BY <1>1, <1>2, HitBlock
<1> QED BY <1>1, <1>3, <1>4, <1>6, <1>7

\* A miss fills the first way of the list and moves it to the end.
LEMMA MissList ==
  ASSUME TypeInv, EmptyFirst,
         NEW rw \in {"r", "w"}, NEW line \in Lines, NEW tag \in Nat,
         Miss(rw, line, tag)
  PROVE  /\ lru' = [lru EXCEPT ![line] = Shifted(lru[line], 1)]
         /\ blocks'[lru[line][1]][line].valid /\ blocks'[lru[line][1]][line].tag = tag
         /\ \A w \in Ways, l \in Lines :
              w # lru[line][1] \/ l # line => blocks'[w][l] = blocks[w][l]
<1> DEFINE way == Victim(line)
<1>1. way \in Ways /\ way = lru[line][1]
  BY VictimWay, LeastVictim DEF VictimIsLeastRecent
<1>2. /\ blocks' = [blocks EXCEPT ![way][line] = Filled(@, tag)]
      /\ lru' = [lru EXCEPT ![line] = MovedToTail(@, way)]
  BY DEF Miss
<1> HIDE DEF way
<1>3. MovedToTail(lru[line], way) = Shifted(lru[line], 1)
  BY <1>1, MovedAt, SizesAssumption DEF TypeInv
<1>4. lru' = [lru EXCEPT ![line] = Shifted(lru[line], 1)]
  BY <1>2, <1>3
<1>5. /\ blocks'[way][line].valid /\ blocks'[way][line].tag = tag
      /\ \A w \in Ways, l \in Lines :
           w # way \/ l # line => blocks'[w][l] = blocks[w][l]
  BY <1>1, <1>2 DEF TypeInv, Filled
<1> QED BY <1>1, <1>4, <1>5

\* How many ways are empty after a step.
LEMMA HitEmpty ==
  ASSUME TypeInv, EmptyFirst,
         NEW rw \in {"r", "w"}, NEW line \in Lines, NEW tag \in Nat,
         Hit(rw, line, tag), NEW l \in Lines
  PROVE  Empty(l)' = Empty(l)
<1>1. Invalid(l)' = Invalid(l)
  BY HitList DEF Invalid
<1> QED BY <1>1 DEF Empty

LEMMA MissEmpty ==
  ASSUME TypeInv, EmptyFirst,
         NEW rw \in {"r", "w"}, NEW line \in Lines, NEW tag \in Nat,
         Miss(rw, line, tag), NEW l \in Lines
  PROVE  Empty(l)' = IF l = line /\ Empty(l) # 0 THEN Empty(l) - 1 ELSE Empty(l)
<1> DEFINE way == lru[line][1]
<1>1. /\ blocks'[way][line].valid
      /\ \A w \in Ways, k \in Lines :
           w # way \/ k # line => blocks'[w][k] = blocks[w][k]
  BY MissList
<1>2. CASE l # line
  BY <1>1, <1>2 DEF Empty, Invalid
<1>3. CASE l = line
  <2>1. Invalid(line)' = Invalid(line) \ {way}
    BY <1>1 DEF Invalid
  <2>2. Empty(line)' = IF way \in Invalid(line) THEN Empty(line) - 1 ELSE Empty(line)
    BY <2>1, EmptyFacts, FS_RemoveElement DEF Empty
  <2>3. way \in Invalid(line) <=> Empty(line) # 0
    <3>1. NumWays \in Nat \ {0} /\ Empty(line) \in Nat /\ 1 \in 1 .. NumWays
      BY EmptyFacts, SizesAssumption
    <3>2. way \in Ways
      BY <3>1 DEF TypeInv
    <3>3. 1 <= Empty(line) <=> ~ blocks[way][line].valid
      BY <3>1 DEF EmptyFirst
    <3> QED BY <3>1, <3>2, <3>3 DEF Invalid
  <2> QED BY <1>3, <2>2, <2>3
<1> QED BY <1>2, <1>3

LEMMA InitEmpty == Init => EmptyFirst
<1> SUFFICES ASSUME Init, NEW line \in Lines
             PROVE  /\ \A i \in 1 .. NumWays :
                         i <= Empty(line) <=> ~ blocks[lru[line][i]][line].valid
                    /\ \A i, j \in 1 .. Empty(line) : i < j => lru[line][i] < lru[line][j]
  BY DEF EmptyFirst
<1>1. Invalid(line) = Ways
  BY DEF Init, Invalid
<1>2. Cardinality(Ways) = NumWays
  <2>1. 0 \in Int /\ NumWays - 1 \in Int /\ ~ (0 > NumWays - 1)
        /\ (NumWays - 1) - 0 + 1 = NumWays
    BY SizesAssumption
  <2> QED BY <2>1, FS_Interval DEF Ways
<1>3. Empty(line) = NumWays
  BY <1>1, <1>2 DEF Empty
<1>4. \A i \in 1 .. NumWays : lru[line][i] = i - 1 /\ lru[line][i] \in Ways
  BY SizesAssumption DEF Init, Ways
<1>5. \A i \in 1 .. NumWays : ~ blocks[lru[line][i]][line].valid
  BY <1>4 DEF Init
<1> QED BY <1>3, <1>4, <1>5, SizesAssumption

LEMMA HitEmptyFirst ==
  ASSUME TypeInv, EmptyFirst,
         NEW rw \in {"r", "w"}, NEW line \in Lines, NEW tag \in Nat,
         Hit(rw, line, tag)
  PROVE  EmptyFirst'
<1>1. PICK p \in 1 .. NumWays :
        /\ Empty(line) < p
        /\ lru' = [lru EXCEPT ![line] = Shifted(lru[line], p)]
  BY HitList
<1>2. \A w \in Ways, l \in Lines : blocks'[w][l].valid = blocks[w][l].valid
  BY HitList
<1> SUFFICES ASSUME NEW l \in Lines
             PROVE  /\ \A i \in 1 .. NumWays :
                         i <= Empty(l)' <=> ~ blocks'[lru'[l][i]][l].valid
                    /\ \A i, j \in 1 .. Empty(l)' : i < j => lru'[l][i] < lru'[l][j]
  BY DEF EmptyFirst
<1>3. Empty(l)' = Empty(l) /\ Empty(l) \in 0 .. NumWays
  BY HitEmpty, EmptyFacts
<1>4. NumWays \in Nat \ {0} /\ lru[l] \in [1 .. NumWays -> Ways]
  BY SizesAssumption DEF TypeInv
<1>5. /\ \A i \in 1 .. NumWays : i <= Empty(l) <=> ~ blocks[lru[l][i]][l].valid
      /\ \A i, j \in 1 .. Empty(l) : i < j => lru[l][i] < lru[l][j]
  BY DEF EmptyFirst
<1>6. CASE l # line
  <2>1. lru'[l] = lru[l]
    BY <1>1, <1>6 DEF TypeInv
  <2> QED BY <1>2, <1>3, <1>4, <1>5, <2>1
<1>7. CASE l = line
  <2>1. lru'[l] = Shifted(lru[l], p)
    BY <1>1, <1>7 DEF TypeInv
  <2>2. \A i \in 1 .. Empty(l) : lru'[l][i] = lru[l][i]
    BY <1>1, <1>3, <1>4, <1>7, <2>1 DEF Shifted
  <2>3. \A i \in 1 .. NumWays : Empty(l) < i =>
          \E j \in 1 .. NumWays : Empty(l) < j /\ lru'[l][i] = lru[l][j]
    <3> TAKE i \in 1 .. NumWays
    <3> HAVE Empty(l) < i
    <3>1. CASE i = NumWays
      BY <1>1, <1>4, <1>7, <2>1, <3>1 DEF Shifted
    <3>2. CASE i # NumWays /\ p <= i
      BY <1>1, <1>3, <1>4, <1>7, <2>1, <3>2 DEF Shifted
    <3>3. CASE i # NumWays /\ ~ (p <= i)
      BY <1>1, <1>4, <1>7, <2>1, <3>3 DEF Shifted
    <3> QED BY <3>1, <3>2, <3>3
  <2>4. \A i \in 1 .. NumWays : i <= Empty(l) <=> ~ blocks[lru'[l][i]][l].valid
    <3> TAKE i \in 1 .. NumWays
    <3>1. CASE i <= Empty(l)
      <4>1. i \in 1 .. Empty(l)
        BY <1>3, <3>1
      <4> QED BY <1>5, <2>2, <3>1, <4>1
    <3>2. CASE ~ (i <= Empty(l))
      <4>1. PICK j \in 1 .. NumWays : Empty(l) < j /\ lru'[l][i] = lru[l][j]
        BY <1>3, <2>3, <3>2
      <4>2. ~ (j <= Empty(l))
        BY <1>3, <4>1
      <4> QED BY <1>5, <3>2, <4>1, <4>2
    <3> QED BY <3>1, <3>2
  <2>5. ASSUME NEW i \in 1 .. NumWays
        PROVE  lru'[l][i] \in Ways
    <3>1. PICK j \in 1 .. NumWays : lru'[l][i] = lru[l][j]
      <4>1. CASE i <= Empty(l)
        <5>1. i \in 1 .. Empty(l)
          BY <1>3, <4>1
        <5> QED BY <2>2, <5>1
      <4>2. CASE ~ (i <= Empty(l))
        <5>1. Empty(l) < i
          BY <1>3, <4>2
        <5> QED BY <2>3, <5>1
      <4> QED BY <4>1, <4>2
    <3> QED BY <1>4, <3>1
  <2>6. \A i \in 1 .. NumWays : i <= Empty(l) <=> ~ blocks'[lru'[l][i]][l].valid
    BY <1>2, <2>4, <2>5
  <2> QED BY <1>3, <1>5, <2>2, <2>6
<1> QED BY <1>6, <1>7

LEMMA MissEmptyFirst ==
  ASSUME TypeInv, EmptyFirst,
         NEW rw \in {"r", "w"}, NEW line \in Lines, NEW tag \in Nat,
         Miss(rw, line, tag)
  PROVE  EmptyFirst'
<1> DEFINE way == lru[line][1]
<1>1. /\ lru' = [lru EXCEPT ![line] = Shifted(lru[line], 1)]
      /\ blocks'[way][line].valid
      /\ \A w \in Ways, l \in Lines :
           w # way \/ l # line => blocks'[w][l] = blocks[w][l]
  BY MissList
<1> SUFFICES ASSUME NEW l \in Lines
             PROVE  /\ \A i \in 1 .. NumWays :
                         i <= Empty(l)' <=> ~ blocks'[lru'[l][i]][l].valid
                    /\ \A i, j \in 1 .. Empty(l)' : i < j => lru'[l][i] < lru'[l][j]
  BY DEF EmptyFirst
<1>3. /\ Empty(l)' = IF l = line /\ Empty(l) # 0 THEN Empty(l) - 1 ELSE Empty(l)
      /\ Empty(l) \in 0 .. NumWays
  BY MissEmpty, EmptyFacts
<1>4. NumWays \in Nat \ {0} /\ lru[l] \in [1 .. NumWays -> Ways]
  BY SizesAssumption DEF TypeInv
<1>5. /\ \A i \in 1 .. NumWays : i <= Empty(l) <=> ~ blocks[lru[l][i]][l].valid
      /\ \A i, j \in 1 .. Empty(l) : i < j => lru[l][i] < lru[l][j]
  BY DEF EmptyFirst
<1>6. CASE l # line
  <2>1. lru'[l] = lru[l]
    BY <1>1, <1>6 DEF TypeInv
  <2>2. \A w \in Ways : blocks'[w][l] = blocks[w][l]
    BY <1>1, <1>6
  <2> QED BY <1>3, <1>4, <1>5, <1>6, <2>1, <2>2
<1>7. CASE l = line
  <2>1. lru'[l] = Shifted(lru[l], 1)
    BY <1>1, <1>7 DEF TypeInv
  <2>2. \A i \in 1 .. NumWays :
          lru'[l][i] = IF i = NumWays THEN way ELSE lru[l][i + 1]
    BY <1>4, <1>7, <2>1 DEF Shifted
  <2>3. \A i \in 1 .. NumWays : i # NumWays => lru[l][i + 1] # way /\ i + 1 \in 1 .. NumWays
    BY <1>4, <1>7 DEF TypeInv, IsOrder
  <2>4. \A i \in 1 .. NumWays : i # NumWays =>
          (blocks'[lru'[l][i]][l].valid <=> blocks[lru[l][i + 1]][l].valid)
    BY <1>1, <1>4, <1>7, <2>2, <2>3
  <2>5. \A i \in 1 .. NumWays : i <= Empty(l)' <=> ~ blocks'[lru'[l][i]][l].valid
    <3> TAKE i \in 1 .. NumWays
    <3>1. CASE i = NumWays
      BY <1>1, <1>3, <1>4, <1>7, <2>2, <3>1
    <3>2. CASE i # NumWays
      <4>1. i <= Empty(l)' <=> i + 1 <= Empty(l)
        BY <1>3, <1>7
      <4>2. i + 1 <= Empty(l) <=> ~ blocks[lru[l][i + 1]][l].valid
        BY <1>5, <2>3, <3>2
      <4> QED BY <2>4, <3>2, <4>1, <4>2
    <3> QED BY <3>1, <3>2
  <2>6. \A i \in 1 .. Empty(l)' : i \in 1 .. NumWays /\ i # NumWays
                                  /\ i + 1 \in 1 .. Empty(l)
    BY <1>3, <1>4, <1>7
  <2>7. \A i, j \in 1 .. Empty(l)' : i < j => lru'[l][i] < lru'[l][j]
    BY <1>5, <2>2, <2>6
  <2> QED BY <2>5, <2>7
<1> QED BY <1>6, <1>7

LEMMA EmptyHolds == Spec => []EmptyFirst
<1>1. TypeInv /\ EmptyFirst /\ [Next]_vars => EmptyFirst'
  <2> SUFFICES ASSUME TypeInv, EmptyFirst, [Next]_vars PROVE EmptyFirst'
    OBVIOUS
  <2>1. CASE Next
    BY <2>1, StepCases, HitEmptyFirst, MissEmptyFirst
  <2>2. CASE UNCHANGED vars
    BY <2>2 DEF vars, EmptyFirst, Empty, Invalid
  <2> QED BY <2>1, <2>2
<1> QED BY InitEmpty, <1>1, TypeHolds, PTL DEF Spec

\* A line is filled from its first way on, so the first way of its list is the
\* one to fill whether or not the line is full (cachesim.c:156-184).
THEOREM VictimsAreLeastRecent == Spec => []VictimIsLeastRecent
<1>1. TypeInv /\ EmptyFirst => VictimIsLeastRecent
  BY LeastVictim
<1> QED BY <1>1, TypeHolds, EmptyHolds, PTL

-----------------------------------------------------------------------------
(* What the cache promises.                                                *)

\* An element of a sequence taken out and another one put at its end.
LEMMA Reappended ==
  ASSUME NEW s \in Seq(Nat), NEW q \in 1 .. Len(s), NEW x \in Nat,
         NEW t \in Seq(Nat), Len(t) = Len(s),
         \A j \in 1 .. Len(s) :
           t[j] = IF j = Len(s) THEN x ELSE IF q <= j THEN s[j + 1] ELSE s[j]
  PROVE  t = Append(SubSeq(s, 1, q - 1) \o SubSeq(s, q + 1, Len(s)), x)
<1> DEFINE n == Len(s)
           a == SubSeq(s, 1, q - 1)
           b == SubSeq(s, q + 1, n)
           c == a \o b
<1>1. n \in Nat /\ q \in 1 .. n /\ \A i \in 1 .. n : s[i] \in Nat
  BY LenProperties, ElementOfSeq
<1>2. /\ a \in Seq(Nat) /\ Len(a) = q - 1
      /\ \A i \in 1 .. q - 1 : a[i] = s[i]
  <2>1. 1 \in Int /\ q - 1 \in Int /\ \A i \in 1 .. q - 1 : s[i] \in Nat
    BY <1>1
  <2>2. /\ a \in Seq(Nat) /\ Len(a) = IF 1 <= q - 1 THEN (q - 1) - 1 + 1 ELSE 0
        /\ \A i \in 1 .. (q - 1) - 1 + 1 : a[i] = s[1 + i - 1]
    BY <2>1, SubSeqProperties, SMTT(30)
  <2> HIDE DEF a, n
  <2>3. Len(a) = q - 1
    BY <1>1, <2>2
  <2>4. ASSUME NEW i \in 1 .. q - 1
        PROVE  a[i] = s[i]
    <3>1. i \in 1 .. (q - 1) - 1 + 1 /\ 1 + i - 1 = i
      BY <1>1
    <3> QED BY <2>2, <3>1
  <2> QED BY <2>2, <2>3, <2>4
<1>3. /\ b \in Seq(Nat) /\ Len(b) = n - q
      /\ \A i \in 1 .. n - q : b[i] = s[q + i]
  <2>1. q + 1 \in Int /\ n \in Int /\ \A i \in q + 1 .. n : s[i] \in Nat
    BY <1>1
  <2>2. /\ b \in Seq(Nat) /\ Len(b) = IF q + 1 <= n THEN n - (q + 1) + 1 ELSE 0
        /\ \A i \in 1 .. n - (q + 1) + 1 : b[i] = s[(q + 1) + i - 1]
    BY <2>1, SubSeqProperties, SMTT(30)
  <2> HIDE DEF b, n
  <2>3. Len(b) = n - q
    BY <1>1, <2>2
  <2>4. ASSUME NEW i \in 1 .. n - q
        PROVE  b[i] = s[q + i]
    <3>1. i \in 1 .. n - (q + 1) + 1 /\ (q + 1) + i - 1 = q + i
      BY <1>1
    <3> QED BY <2>2, <3>1
  <2> QED BY <2>2, <2>3, <2>4
<1> HIDE DEF a, b
<1>4. /\ c \in Seq(Nat) /\ Len(c) = n - 1
      /\ \A i \in 1 .. n - 1 : c[i] = IF i <= q - 1 THEN s[i] ELSE s[i + 1]
  <2>1. /\ c \in Seq(Nat) /\ Len(c) = Len(a) + Len(b)
        /\ \A i \in 1 .. Len(a) + Len(b) :
             c[i] = IF i <= Len(a) THEN a[i] ELSE b[i - Len(a)]
    <3>1. a \in Seq(Nat) /\ b \in Seq(Nat)
      BY <1>2, <1>3
    <3> QED BY <3>1, ConcatProperties
  <2>2. Len(a) + Len(b) = n - 1
    BY <1>1, <1>2, <1>3
  <2>3. ASSUME NEW i \in 1 .. n - 1
        PROVE  c[i] = IF i <= q - 1 THEN s[i] ELSE s[i + 1]
    <3>1. c[i] = IF i <= q - 1 THEN a[i] ELSE b[i - (q - 1)]
      BY <1>2, <2>1, <2>2
    <3>2. i <= q - 1 => a[i] = s[i]
      BY <1>1, <1>2
    <3>3. ~ (i <= q - 1) => b[i - (q - 1)] = s[q + (i - (q - 1))]
      <4>1. ~ (i <= q - 1) => i - (q - 1) \in 1 .. n - q
        BY <1>1
      <4> QED BY <1>3, <4>1
    <3>4. q + (i - (q - 1)) = i + 1
      BY <1>1
    <3> QED BY <3>1, <3>2, <3>3, <3>4
  <2> HIDE DEF c
  <2> QED BY <2>1, <2>2, <2>3
<1> HIDE DEF c
<1> DEFINE u == Append(c, x)
<1>5. /\ u \in Seq(Nat) /\ Len(u) = n
      /\ \A i \in 1 .. n - 1 : u[i] = c[i]
      /\ u[n] = x
  BY <1>1, <1>4, AppendProperties
<1> HIDE DEF u
<1>6. ASSUME NEW i \in 1 .. Len(t)
      PROVE  t[i] = u[i]
  <2>1. CASE i = n
    BY <1>5, <2>1
  <2>2. CASE i # n
    <3>1. i \in 1 .. n - 1
      <4>1. i \in 1 .. n
        OBVIOUS
      <4> HIDE DEF n
      <4> QED BY <1>1, <2>2, <4>1
    <3>2. u[i] = c[i]
      BY <1>5, <3>1
    <3>3. c[i] = IF i <= q - 1 THEN s[i] ELSE s[i + 1]
      BY <1>4, <3>1
    <3>4. i <= q - 1 <=> ~ (q <= i)
      BY <1>1
    <3> QED BY <2>2, <3>1, <3>2, <3>3, <3>4
  <2> QED BY <2>1, <2>2
<1>7. t = u
  BY <1>5, <1>6, SeqEqual
<1> QED BY <1>7 DEF a, b, c, u

\* The first element of a sequence dropped, and another one put at its end.
LEMMA TailAppended ==
  ASSUME NEW s \in Seq(Nat), Len(s) # 0, NEW x \in Nat,
         NEW t \in Seq(Nat), Len(t) = Len(s),
         \A j \in 1 .. Len(s) : t[j] = IF j = Len(s) THEN x ELSE s[j + 1]
  PROVE  t = Append(Tail(s), x)
<1>1. Len(s) \in Nat /\ s # <<>>
  BY LenProperties, EmptySeq
<1>2. /\ Tail(s) \in Seq(Nat) /\ Len(Tail(s)) = Len(s) - 1
      /\ \A i \in 1 .. Len(Tail(s)) : Tail(s)[i] = s[i + 1]
  BY <1>1, HeadTailProperties
<1> DEFINE u == Append(Tail(s), x)
<1>3. /\ u \in Seq(Nat) /\ Len(u) = Len(s)
      /\ \A i \in 1 .. Len(s) - 1 : u[i] = s[i + 1]
      /\ u[Len(s)] = x
  BY <1>1, <1>2, AppendProperties
<1> HIDE DEF u
<1>4. ASSUME NEW i \in 1 .. Len(t)
      PROVE  t[i] = u[i]
  <2>1. CASE i = Len(s)
    BY <1>3, <2>1
  <2>2. CASE i # Len(s)
    <3>1. i \in 1 .. Len(s) - 1
      BY <1>1, <2>2
    <3> QED BY <1>3, <2>2, <3>1
  <2> QED BY <2>1, <2>2
<1>5. t = u
  BY <1>3, <1>4, SeqEqual
<1> QED BY <1>5 DEF u

\* What the lines hold, as sequences.
RecentOK ==
  \A line \in Lines :
    /\ Recent(line) \in Seq(Nat)
    /\ Len(Recent(line)) = NumWays - Empty(line)
    /\ \A i \in 1 .. NumWays - Empty(line) :
         Recent(line)[i] = blocks[lru[line][Empty(line) + i]][line].tag

LEMMA RecentFacts == TypeInv => RecentOK
<1> SUFFICES ASSUME TypeInv, NEW line \in Lines
             PROVE  /\ Recent(line) \in Seq(Nat)
                    /\ Len(Recent(line)) = NumWays - Empty(line)
                    /\ \A i \in 1 .. NumWays - Empty(line) :
                         Recent(line)[i] = blocks[lru[line][Empty(line) + i]][line].tag
  BY DEF RecentOK
<1> DEFINE n == NumWays - Empty(line)
<1>1. n \in Nat /\ NumWays \in Nat /\ Empty(line) \in Nat
  BY EmptyFacts, SizesAssumption
<1>2. Recent(line) = [i \in 1 .. n |-> blocks[lru[line][Empty(line) + i]][line].tag]
  BY DEF Recent, Empty
<1>3. \A i \in 1 .. n : blocks[lru[line][Empty(line) + i]][line].tag \in Nat
  <2> TAKE i \in 1 .. n
  <2>1. Empty(line) + i \in 1 .. NumWays
    BY <1>1
  <2>2. lru[line][Empty(line) + i] \in Ways
    BY <2>1 DEF TypeInv
  <2> QED BY <2>2 DEF TypeInv, Block
<1> HIDE DEF n
<1>4. Recent(line) \in [1 .. n -> Nat]
  BY <1>2, <1>3
<1>5. Recent(line) \in Seq(Nat) /\ Len(Recent(line)) = n
  BY <1>1, <1>4
<1> QED BY <1>2, <1>5 DEF n

LEMMA RecentNext == TypeInv' => RecentOK'
  BY RecentFacts, PTL

\* A hit moves the block to the end of what its line holds.
LEMMA HitRecent ==
  ASSUME TypeInv, TypeInv', EmptyFirst,
         NEW rw \in {"r", "w"}, NEW line \in Lines, NEW tag \in Nat,
         Hit(rw, line, tag)
  PROVE  /\ \E q \in 1 .. Len(Recent(line)) :
              /\ Recent(line)[q] = tag
              /\ Recent(line)' = Append(SubSeq(Recent(line), 1, q - 1)
                                   \o SubSeq(Recent(line), q + 1, Len(Recent(line))), tag)
         /\ \A l \in Lines \ {line} : Recent(l)' = Recent(l)
<1>1. PICK p \in 1 .. NumWays :
        /\ Empty(line) < p /\ blocks[lru[line][p]][line].tag = tag
        /\ lru' = [lru EXCEPT ![line] = Shifted(lru[line], p)]
  BY HitList
<1>2. \A w \in Ways, l \in Lines : blocks'[w][l].tag = blocks[w][l].tag
  BY HitList
<1>3. RecentOK /\ RecentOK'
  BY RecentFacts, RecentNext
<1>4. \A l \in Lines : Empty(l)' = Empty(l)
  BY HitEmpty
<1>5. NumWays \in Nat \ {0} /\ Empty(line) \in 0 .. NumWays
  BY SizesAssumption, EmptyFacts
<1>6. lru[line] \in [1 .. NumWays -> Ways] /\ lru'[line] = Shifted(lru[line], p)
  BY <1>1 DEF TypeInv
<1> DEFINE e == Empty(line)
           s == Recent(line)
           t == Recent(line)'
           q == p - e
<1>7. /\ s \in Seq(Nat) /\ Len(s) = NumWays - e
      /\ \A i \in 1 .. NumWays - e : s[i] = blocks[lru[line][e + i]][line].tag
  BY <1>3 DEF RecentOK
<1>8. /\ t \in Seq(Nat) /\ Len(t) = NumWays - e
      /\ \A i \in 1 .. NumWays - e : t[i] = blocks'[lru'[line][e + i]][line].tag
  BY <1>3, <1>4 DEF RecentOK
<1> HIDE DEF e, s, t
<1>9. e \in 0 .. NumWays /\ e < p /\ q \in 1 .. NumWays - e /\ e + q = p
  BY <1>1, <1>5 DEF e
<1>10. ASSUME NEW j \in 1 .. NumWays - e
       PROVE  t[j] = IF j = NumWays - e THEN tag ELSE IF q <= j THEN s[j + 1] ELSE s[j]
  <2>1. e + j \in 1 .. NumWays /\ lru'[line][e + j] \in Ways
    BY <1>5, <1>9 DEF TypeInv
  <2>2. t[j] = blocks[lru'[line][e + j]][line].tag
    BY <1>2, <1>8, <2>1
  <2>3. lru'[line][e + j] =
          IF e + j = NumWays THEN lru[line][p]
          ELSE IF p <= e + j THEN lru[line][(e + j) + 1] ELSE lru[line][e + j]
    BY <1>6, <2>1 DEF Shifted
  <2>4. CASE j = NumWays - e
    BY <1>1, <1>5, <1>9, <2>2, <2>3, <2>4
  <2>5. CASE j # NumWays - e /\ q <= j
    <3>1. j + 1 \in 1 .. NumWays - e /\ (e + j) + 1 = e + (j + 1)
          /\ e + j # NumWays /\ p <= e + j
      BY <1>5, <1>9, <2>5
    <3>2. s[j + 1] = blocks[lru[line][e + (j + 1)]][line].tag
      BY <1>7, <3>1
    <3> QED BY <2>2, <2>3, <2>5, <3>1, <3>2
  <2>6. CASE j # NumWays - e /\ ~ (q <= j)
    <3>1. e + j # NumWays /\ ~ (p <= e + j)
      BY <1>5, <1>9, <2>6
    <3>2. s[j] = blocks[lru[line][e + j]][line].tag
      BY <1>7
    <3> QED BY <2>2, <2>3, <2>6, <3>1, <3>2
  <2> QED BY <2>4, <2>5, <2>6
<1>11. q \in 1 .. Len(s) /\ s[q] = tag
  BY <1>1, <1>7, <1>9
<1> HIDE DEF q
<1>12. t = Append(SubSeq(s, 1, q - 1) \o SubSeq(s, q + 1, Len(s)), tag)
  <2>1. \A j \in 1 .. Len(s) :
          t[j] = IF j = Len(s) THEN tag ELSE IF q <= j THEN s[j + 1] ELSE s[j]
    BY <1>7, <1>10
  <2>2. s \in Seq(Nat) /\ t \in Seq(Nat) /\ Len(t) = Len(s) /\ q \in 1 .. Len(s)
    BY <1>7, <1>8, <1>11
  <2> QED BY <2>1, <2>2, Reappended, ZenonT(30)
<1>13. ASSUME NEW l \in Lines \ {line}
       PROVE  Recent(l)' = Recent(l)
  <2>1. lru'[l] = lru[l] /\ \A i \in 1 .. NumWays : lru[l][i] \in Ways
    BY <1>1 DEF TypeInv
  <2>2. /\ Recent(l) \in Seq(Nat) /\ Len(Recent(l)) = NumWays - Empty(l)
        /\ \A i \in 1 .. NumWays - Empty(l) :
             Recent(l)[i] = blocks[lru[l][Empty(l) + i]][l].tag
    BY <1>3 DEF RecentOK
  <2>3. /\ Recent(l)' \in Seq(Nat) /\ Len(Recent(l)') = NumWays - Empty(l)
        /\ \A i \in 1 .. NumWays - Empty(l) :
             Recent(l)'[i] = blocks'[lru'[l][Empty(l) + i]][l].tag
    BY <1>3, <1>4 DEF RecentOK
  <2>4. \A i \in 1 .. NumWays - Empty(l) : Empty(l) + i \in 1 .. NumWays
    BY <1>5, EmptyFacts
  <2>5. \A i \in 1 .. NumWays - Empty(l) : Recent(l)'[i] = Recent(l)[i]
    <3> TAKE i \in 1 .. NumWays - Empty(l)
    <3>1. lru[l][Empty(l) + i] \in Ways
      BY <2>1, <2>4
    <3>2. blocks'[lru[l][Empty(l) + i]][l].tag = blocks[lru[l][Empty(l) + i]][l].tag
      BY <1>2, <3>1
    <3> QED BY <2>1, <2>2, <2>3, <3>2
  <2> QED BY <2>2, <2>3, <2>5, SeqEqual
<1> QED BY <1>11, <1>12, <1>13 DEF s, t

\* A miss puts the block at the end, and drops the first one if the line is full.
LEMMA MissRecent ==
  ASSUME TypeInv, TypeInv', EmptyFirst,
         NEW rw \in {"r", "w"}, NEW line \in Lines, NEW tag \in Nat,
         Miss(rw, line, tag)
  PROVE  /\ \A i \in 1 .. Len(Recent(line)) : Recent(line)[i] # tag
         /\ Recent(line)' =
              Append(IF Len(Recent(line)) = NumWays THEN Tail(Recent(line))
                     ELSE Recent(line), tag)
         /\ \A l \in Lines \ {line} : Recent(l)' = Recent(l)
<1> DEFINE way == lru[line][1]
<1>1. /\ lru' = [lru EXCEPT ![line] = Shifted(lru[line], 1)]
      /\ blocks'[way][line].tag = tag
      /\ \A w \in Ways, l \in Lines :
           w # way \/ l # line => blocks'[w][l] = blocks[w][l]
  BY MissList
<1>2. RecentOK /\ RecentOK'
  BY RecentFacts, RecentNext
<1>3. NumWays \in Nat \ {0} /\ Empty(line) \in 0 .. NumWays
  BY SizesAssumption, EmptyFacts
<1>4. lru[line] \in [1 .. NumWays -> Ways] /\ lru'[line] = Shifted(lru[line], 1)
  BY <1>1 DEF TypeInv
<1> DEFINE e == Empty(line)
           f == Empty(line)'
           s == Recent(line)
           t == Recent(line)'
<1>5. /\ s \in Seq(Nat) /\ Len(s) = NumWays - e
      /\ \A i \in 1 .. NumWays - e : s[i] = blocks[lru[line][e + i]][line].tag
  BY <1>2 DEF RecentOK
<1>6. /\ t \in Seq(Nat) /\ Len(t) = NumWays - f
      /\ \A i \in 1 .. NumWays - f : t[i] = blocks'[lru'[line][f + i]][line].tag
  BY <1>2 DEF RecentOK
<1>7. e \in 0 .. NumWays /\ f = IF e # 0 THEN e - 1 ELSE e
  BY <1>3, MissEmpty
<1>8. \A i \in 1 .. NumWays : i <= e <=> ~ blocks[lru[line][i]][line].valid
  BY DEF EmptyFirst
<1> HIDE DEF e, f, s, t
<1>9. ASSUME NEW i \in 1 .. NumWays - e
      PROVE  s[i] # tag
  <2>1. e + i \in 1 .. NumWays /\ ~ (e + i <= e)
    BY <1>3, <1>7
  <2>2. lru[line][e + i] \in Ways /\ blocks[lru[line][e + i]][line].valid
    BY <1>4, <1>8, <2>1
  <2>3. \A w \in Ways : ~ (blocks[w][line].valid /\ blocks[w][line].tag = tag)
    BY DEF Miss, Holders
  <2> QED BY <1>5, <2>2, <2>3
\* What follows the first way of the list has moved one place up.
<1>10. ASSUME NEW i \in 1 .. NumWays - f
       PROVE  t[i] = IF f + i = NumWays THEN tag
                     ELSE blocks[lru[line][(f + i) + 1]][line].tag
  <2>1. f + i \in 1 .. NumWays
    BY <1>3, <1>7
  <2>2. lru'[line][f + i] = IF f + i = NumWays THEN way ELSE lru[line][(f + i) + 1]
    BY <1>4, <2>1 DEF Shifted
  <2>3. CASE f + i = NumWays
    BY <1>1, <1>6, <2>2, <2>3
  <2>4. CASE f + i # NumWays
    <3>1. (f + i) + 1 \in 1 .. NumWays /\ (f + i) + 1 # 1 /\ 1 \in 1 .. NumWays
      BY <1>3, <2>1, <2>4
    <3>2. IsOrder(lru[line])
      BY DEF TypeInv
    <3>3. lru[line][(f + i) + 1] # way /\ lru[line][(f + i) + 1] \in Ways
      BY <1>4, <3>1, <3>2 DEF IsOrder
    <3>4. blocks'[lru[line][(f + i) + 1]][line] = blocks[lru[line][(f + i) + 1]][line]
      BY <1>1, <3>3
    <3> QED BY <1>6, <2>2, <2>4, <3>4
  <2> QED BY <2>3, <2>4
<1>11. ASSUME e = 0
       PROVE  t = Append(IF Len(s) = NumWays THEN Tail(s) ELSE s, tag)
  <2>1. /\ Len(s) = NumWays /\ Len(t) = Len(s) /\ f = 0 /\ Len(s) # 0
        /\ s \in Seq(Nat) /\ t \in Seq(Nat)
    BY <1>3, <1>5, <1>6, <1>7, <1>11
  <2>2. ASSUME NEW j \in 1 .. Len(s)
        PROVE  t[j] = IF j = Len(s) THEN tag ELSE s[j + 1]
    <3>1. j \in 1 .. NumWays - f /\ f + j = j
      BY <1>3, <2>1
    <3>2. j # Len(s) => j + 1 \in 1 .. NumWays - e /\ e + (j + 1) = j + 1
      BY <1>3, <1>11, <2>1
    <3>3. j # Len(s) => s[j + 1] = blocks[lru[line][j + 1]][line].tag
      BY <1>5, <3>2
    <3> QED BY <1>10, <2>1, <3>1, <3>3
  <2>3. t = Append(Tail(s), tag)
    BY <2>1, <2>2, TailAppended
  <2> QED BY <2>1, <2>3
<1>12. ASSUME e # 0
       PROVE  t = Append(IF Len(s) = NumWays THEN Tail(s) ELSE s, tag)
  <2>1. /\ Len(s) # NumWays /\ Len(t) = Len(s) + 1 /\ f + 1 = e
        /\ Len(s) \in Nat /\ s \in Seq(Nat) /\ t \in Seq(Nat)
    BY <1>3, <1>5, <1>6, <1>7, <1>12
  <2> DEFINE u == Append(s, tag)
  <2>2. /\ u \in Seq(Nat) /\ Len(u) = Len(s) + 1 /\ u[Len(s) + 1] = tag
        /\ \A i \in 1 .. Len(s) : u[i] = s[i]
    BY <2>1, AppendProperties
  <2> HIDE DEF u
  <2>3. ASSUME NEW j \in 1 .. Len(t)
        PROVE  t[j] = u[j]
    <3>1. j \in 1 .. NumWays - f
      BY <1>6
    <3>2. CASE f + j = NumWays
      <4>1. j = Len(s) + 1
        BY <1>3, <1>5, <1>7, <2>1, <3>2
      <4> QED BY <1>10, <2>2, <3>1, <3>2, <4>1
    <3>3. CASE f + j # NumWays
      <4>1. j \in 1 .. Len(s) /\ j \in 1 .. NumWays - e /\ (f + j) + 1 = e + j
        BY <1>3, <1>5, <1>6, <1>7, <2>1, <3>1, <3>3
      <4>2. t[j] = blocks[lru[line][e + j]][line].tag
        BY <1>10, <3>1, <3>3, <4>1
      <4> QED BY <1>5, <2>2, <4>1, <4>2
    <3> QED BY <3>2, <3>3
  <2>4. t = u
    BY <2>1, <2>2, <2>3, SeqEqual
  <2> QED BY <2>1, <2>4 DEF u
<1>13. ASSUME NEW l \in Lines \ {line}
       PROVE  Recent(l)' = Recent(l)
  <2>1. /\ lru'[l] = lru[l]
        /\ \A w \in Ways : blocks'[w][l] = blocks[w][l]
    BY <1>1 DEF TypeInv
  <2>2. Empty(l)' = Empty(l)
    BY MissEmpty
  <2>3. /\ Recent(l) \in Seq(Nat) /\ Len(Recent(l)) = NumWays - Empty(l)
        /\ \A i \in 1 .. NumWays - Empty(l) :
             Recent(l)[i] = blocks[lru[l][Empty(l) + i]][l].tag
    BY <1>2 DEF RecentOK
  <2>4. /\ Recent(l)' \in Seq(Nat) /\ Len(Recent(l)') = NumWays - Empty(l)
        /\ \A i \in 1 .. NumWays - Empty(l) :
             Recent(l)'[i] = blocks'[lru'[l][Empty(l) + i]][l].tag
    BY <1>2, <2>2 DEF RecentOK
  <2>5. \A i \in 1 .. NumWays - Empty(l) : Empty(l) + i \in 1 .. NumWays
    BY <1>3, EmptyFacts
  <2>6. \A i \in 1 .. NumWays - Empty(l) : Recent(l)'[i] = Recent(l)[i]
    <3> TAKE i \in 1 .. NumWays - Empty(l)
    <3>1. lru[l] \in [1 .. NumWays -> Ways] /\ Empty(l) + i \in 1 .. NumWays
      BY <2>5 DEF TypeInv
    <3>2. lru[l][Empty(l) + i] \in Ways
      BY <3>1
    <3> QED BY <2>1, <2>3, <2>4, <3>2
  <2> QED BY <2>3, <2>4, <2>6, SeqEqual
<1>14. \A i \in 1 .. Len(s) : s[i] # tag
  BY <1>5, <1>9
<1>15. t = Append(IF Len(s) = NumWays THEN Tail(s) ELSE s, tag)
  BY <1>11, <1>12
<1> QED BY <1>13, <1>14, <1>15 DEF s, t

\* What the two counters of misses agree on.
LEMMA MissesCounted ==
  ASSUME TypeInv, NEW rw \in {"r", "w"}, NEW line \in Lines, NEW tag \in Nat
  PROVE  /\ Hit(rw, line, tag) => stats'.misses = stats.misses
         /\ Miss(rw, line, tag) => stats'.misses = stats.misses + 1
<1>1. Counted(rw).misses = stats.misses /\ "misses" \in DOMAIN Counted(rw)
  BY DEF Counted, TypeInv, Counters
<1>2. ASSUME Hit(rw, line, tag) PROVE stats'.misses = stats.misses
  BY <1>1, <1>2 DEF Hit
<1>3. ASSUME Miss(rw, line, tag) PROVE stats'.misses = stats.misses + 1
  BY <1>1, <1>3 DEF Miss
<1> QED BY <1>2, <1>3

LEMMA InitRefines == Init => Promise!Init
<1> SUFFICES ASSUME Init PROVE Promise!Init
  OBVIOUS
<1>1. TypeInv /\ EmptyFirst
  BY InitType, InitEmpty
<1>2. ASSUME NEW line \in Lines
      PROVE  Recent(line) = << >>
  <2>1. NumWays \in Nat \ {0} /\ Empty(line) \in 0 .. NumWays /\ NumWays \in 1 .. NumWays
    BY SizesAssumption, EmptyFacts
  <2>2. ~ blocks[lru[line][NumWays]][line].valid
    BY <1>1, <2>1 DEF Init, TypeInv
  <2>3. Empty(line) = NumWays
    BY <1>1, <2>1, <2>2 DEF EmptyFirst
  <2>4. Recent(line) \in Seq(Nat) /\ Len(Recent(line)) = NumWays - Empty(line)
    BY <1>1, RecentFacts DEF RecentOK
  <2>5. Len(Recent(line)) = 0
    BY <2>1, <2>3, <2>4
  <2> QED BY <2>4, <2>5, EmptySeq
<1>3. stats.misses = 0
  BY DEF Init
<1> QED BY <1>2, <1>3 DEF Promise!Init

LEMMA StepRefines ==
  ASSUME TypeInv, TypeInv', EmptyFirst, [Next]_vars
  PROVE  [Promise!Next]_(Promise!vars)
<1>1. CASE UNCHANGED vars
  BY <1>1 DEF vars, Promise!vars, Recent, Invalid
<1>2. CASE Next
  <2>1. PICK rw \in {"r", "w"}, line \in Lines, tag \in Nat :
          tag \in Tags /\ (Hit(rw, line, tag) \/ Miss(rw, line, tag))
    BY <1>2, StepCases
  <2>2. CASE Hit(rw, line, tag)
    <3>1. PICK q \in 1 .. Len(Recent(line)) :
            /\ Recent(line)[q] = tag
            /\ Recent(line)' = Append(SubSeq(Recent(line), 1, q - 1)
                                 \o SubSeq(Recent(line), q + 1, Len(Recent(line))), tag)
      BY <2>2, HitRecent
    <3>2. \A l \in Lines \ {line} : Recent(l)' = Recent(l)
      BY <2>2, HitRecent
    <3>3. stats'.misses = stats.misses
      BY <2>2, MissesCounted
    <3>4. q \in DOMAIN Recent(line)
      BY RecentFacts DEF RecentOK
    <3>5. Promise!Hit(line, tag)
      BY <3>1, <3>2, <3>3, <3>4 DEF Promise!Hit, Promise!RemoveAt
    <3> QED BY <2>1, <3>5 DEF Promise!Next
  <2>3. CASE Miss(rw, line, tag)
    <3>1. /\ \A i \in 1 .. Len(Recent(line)) : Recent(line)[i] # tag
          /\ Recent(line)' =
               Append(IF Len(Recent(line)) = NumWays THEN Tail(Recent(line))
                      ELSE Recent(line), tag)
          /\ \A l \in Lines \ {line} : Recent(l)' = Recent(l)
      BY <2>3, MissRecent
    <3>2. stats'.misses = stats.misses + 1
      BY <2>3, MissesCounted
    <3>3. DOMAIN Recent(line) = 1 .. Len(Recent(line))
      BY RecentFacts DEF RecentOK
    <3>4. Promise!Miss(line, tag)
      BY <3>1, <3>2, <3>3 DEF Promise!Miss
    <3> QED BY <2>1, <3>4 DEF Promise!Next
  <2> QED BY <2>1, <2>2, <2>3
<1> QED BY <1>1, <1>2

\* The cache holds, line by line, the blocks used last, as many as it has ways,
\* and counts a miss for every access to another one (cachesim.c:63-124).
THEOREM CacheImplementsLru == Spec => ImplementsLru
<1>1. TypeInv /\ TypeInv' /\ EmptyFirst /\ [Next]_vars => [Promise!Next]_(Promise!vars)
  BY StepRefines
<1> QED BY InitRefines, <1>1, TypeHolds, EmptyHolds, PTL
       DEF Spec, ImplementsLru, Promise!Spec
=============================================================================
