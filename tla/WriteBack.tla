------------------------------ MODULE WriteBack ------------------------------
(* What the page cache of fs/page_cache.c promises, with its pages, mutexes    *)
(* and thread taken away: clients give blocks new versions, in order, and at   *)
(* moments of the cache's own choosing the device catches up with some of      *)
(* them.  A block of the device never goes back to an older version, is never  *)
(* given the data of another block, and never skips to what no client wrote.   *)
EXTENDS Naturals

CONSTANTS
  Blocks,
  MaxVersion   \* a bound, of Nat

VARIABLES
  newest,  \* per block, the last version a client has written
  stored   \* per block, the version on the device

WriteBackInit ==
  /\ newest = [b \in Blocks |-> 0]
  /\ stored = [b \in Blocks |-> 0]

\* Versions are given out in order, each to one write of some blocks.
WriteBlocks(bs) ==
  /\ \E v \in 1 .. MaxVersion :
       /\ \A b \in Blocks : newest[b] < v
       /\ newest' = [b \in Blocks |-> IF b \in bs THEN v ELSE newest[b]]
  /\ UNCHANGED stored

\* The device catches up with the blocks bs.
Persist(bs) ==
  /\ stored' = [b \in Blocks |-> IF b \in bs THEN newest[b] ELSE stored[b]]
  /\ UNCHANGED newest

WriteBackNext ==
  \E bs \in (SUBSET Blocks) \ {{}} : WriteBlocks(bs) \/ Persist(bs)

WriteBackSpec == WriteBackInit /\ [][WriteBackNext]_<<newest, stored>>

=============================================================================
