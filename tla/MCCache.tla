------------------------------- MODULE MCCache ------------------------------
(***************************************************************************)
(* A small cache for TLC: two bytes to a block, two lines, four ways.       *)
(***************************************************************************)
EXTENDS CacheProperties

\* 1, 4, 8, 12 and 16 are five blocks of line 0, the first one by its second
\* byte; 2 is a block of line 1.
MCAddresses == {1, 2, 4, 8, 12, 16}
=============================================================================
