------------------------------ MODULE LruCache ------------------------------
(***************************************************************************)
(* What a cache promises: each of its lines holds the blocks used last,    *)
(* from the one used longest ago to the one used last, and an access       *)
(* misses when its block is not among them.                                *)
(***************************************************************************)
EXTENDS Naturals, SequencesExt

CONSTANTS Lines, Tags, Ways

VARIABLES
  recent,               \* the blocks of each line
  misses                \* how many accesses have missed

vars == <<recent, misses>>

Init == recent = [line \in Lines |-> << >>] /\ misses = 0

Hit(line, tag) ==
  /\ \E i \in DOMAIN recent[line] :
       /\ recent[line][i] = tag
       /\ recent' = [recent EXCEPT ![line] = Append(RemoveAt(@, i), tag)]
  /\ UNCHANGED misses

Miss(line, tag) ==
  /\ \A i \in DOMAIN recent[line] : recent[line][i] # tag
  /\ recent' = [recent EXCEPT ![line] =
                  Append(IF Len(@) = Ways THEN Tail(@) ELSE @, tag)]
  /\ misses' = misses + 1

Next == \E line \in Lines, tag \in Tags : Hit(line, tag) \/ Miss(line, tag)

Spec == Init /\ [][Next]_vars
=============================================================================
