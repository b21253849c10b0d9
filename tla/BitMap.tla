------------------------------- MODULE BitMap -------------------------------
(* One caller that calls the functions of fs/map.c in any order on one map,   *)
(* and what map.h says they return.                                           *)
EXTENDS MapFunctions, FiniteSets

CONSTANTS
  total_bits,  \* the bits of the map
  Counts       \* bound: the ranges bm_find() is asked to search

ASSUME MapAssumption == total_bits \in Nat \ {0} /\ Counts \subseteq Nat

\* The bits there are, with the padding.
AllBits == BytesOf(total_bits) * Width

VARIABLES
  bm,     \* the bits that are 1
  last    \* the call that has just returned, or NoCall

vars == <<bm, last>>

-----------------------------------------------------------------------------
(* The caller.                                                               *)

NoCall == [op |-> "none", a |-> 0, n |-> 0, v |-> 0, old |-> {}, rc |-> 0, out |-> 0]

Init == bm = {} /\ last = NoCall

Answers(op, a, n, v, r) ==
  /\ last = NoCall
  /\ last' = [op |-> op, a |-> a, n |-> n, v |-> v, old |-> bm, rc |-> r.rc, out |-> r.out]

Changes(op, a, n, v, r) == Answers(op, a, n, v, r) /\ bm' = r.bm
Looks(op, a, n, v, r)   == Answers(op, a, n, v, r) /\ UNCHANGED bm

\* The arguments reach past the end of the map.
Args == 0 .. total_bits

Set(a, v)          == Changes("set", a, 1, v, bm_set_bit(bm, total_bits, a, v))
Get(a)             == Looks("get", a, 1, 0, bm_get_bit(bm, total_bits, a))
SetExtent(a, n, v) == /\ n > 0 \/ a < total_bits   \* bound: nothing at the very end
                      /\ Changes("set_extent", a, n, v, bm_set_extent(bm, total_bits, a, n, v))
Count(a, n, v)     == Looks("count", a, n, v, bm_count(bm, total_bits, a, n, v))
Find(a, n, size)   == Looks("find", a, n, size, bm_find(bm, total_bits, a, n, size))
CanGrow(a, n)      == Looks("can_grow", a, n, 0, bm_extent_can_grow(bm, total_bits, a, n))

\* The caller looks at the result and goes on.
Taken == last # NoCall /\ last' = NoCall /\ UNCHANGED bm

Next ==
  \/ \E a \in Args :
       \/ Get(a)
       \/ \E v \in {0, 1} : Set(a, v)
       \/ \E n \in Args : \/ CanGrow(a, n)
                          \/ \E v \in {0, 1} : SetExtent(a, n, v) \/ Count(a, n, v)
                          \/ \E count \in Counts : Find(a, count, n)
  \/ Taken

Spec == Init /\ [][Next]_vars

-----------------------------------------------------------------------------
(* Properties: what the functions return against what map.h says of them.    *)

TypeOK ==
  /\ bm \subseteq 0 .. AllBits - 1
  /\ last.old \subseteq 0 .. AllBits - 1
  /\ last.rc \in {Overrun, -5, -3, -2, -1, 0, 1} /\ last.out \in 0 .. AllBits

Extent(c) == c.a .. c.a + c.n - 1
InRange(c) == c.n > 0 /\ c.a + c.n <= total_bits
Called(op) == last.op = op
Sets(c) == c.op \in {"set", "set_extent"} /\ c.a + c.n <= total_bits

\* A call that is given a range outside the map, or one that only looks, leaves
\* every bit as it was; a set or clear changes no bit outside its extent, neither
\* its neighbours in a shared byte nor the padding.  An empty extent that starts
\* inside a byte counts for one bit: byte_set_bits() cannot set none.
OthersKept ==
  last # NoCall =>
    \A b \in (bm \ last.old) \union (last.old \ bm) :
      Sets(last) /\ b \in Extent(last) \union {last.a}

\* When a set or clear of an extent answers 0 all the extent has the value.
SuccessSets ==
  last.op \in {"set", "set_extent"} /\ InRange(last) /\ last.rc = 0
    => \A b \in Extent(last) : Is(bm, b, last.v)

\* bm_count() is the length of the run of equal bits that starts at the address,
\* across byte boundaries, cut at the number asked for (map.h:75).
CountExact ==
  Called("count") /\ InRange(last) =>
    /\ last.rc = 0 /\ last.out <= last.n
    /\ \A b \in last.a .. last.a + last.out - 1 : Is(bm, b, last.v)
    /\ last.out < last.n => ~Is(bm, last.a + last.out, last.v)

\* bm_find() answers -1 only if the range holds no gap of that size (map.h:86).
GapAt(g, size) == \A b \in g .. g + size - 1 : b \notin bm

FindComplete ==
  Called("find") /\ last.rc = -1 /\ last.v > 0 =>
    ~\E g \in last.a .. Lower(last.a + last.n, total_bits) - last.v : GapAt(g, last.v)

\* bm_extent_can_grow() answers 0 exactly when the extent is ones, perhaps none,
\* followed by at least one zero up to its end (map.h:102).
GrowExact ==
  Called("can_grow") =>
    (last.rc = 0 <=>
       InRange(last) /\ \E k \in 0 .. last.n - 1 :
         \A b \in Extent(last) : b \in bm <=> b < last.a + k)

\* "If the gap was found, return 0 and set found_adress to the bit offset in the
\* map where the gap is" (map.h:91).
FindSound ==
  Called("find") /\ last.rc = 0 => GapAt(last.out, last.v)

=============================================================================
