------------------------------ MODULE MapFunctions ------------------------------
(* The functions of fs/map.c, by which slots and extents are found and       *)
(* reserved.  A map is the set of its bits that are 1; the arithmetic on     *)
(* bytes, where the code can go wrong, is kept.  Broken... operators are     *)
(* plausible bugs, used by the mutation checks of PROJECT.json only.         *)
EXTENDS Integers

CONSTANTS
  Width        \* bits of a byte: 8 in the code

ASSUME WidthAssumption == Width \in Nat \ {0, 1}

\* The bytes of a map of total_bits bits, the rest of the last byte is padding.
BytesOf(total_bits) == (total_bits + Width - 1) \div Width

Least(S) == CHOOSE x \in S : \A y \in S : x <= y
Lower(a, b) == IF a < b THEN a ELSE b

\* Bit b of byte k; the bits that byte_set_bits() and byte_count_bits() go
\* through: their do-while looks at one bit even when numbits is 0.
Bit(k, b) == k * Width + b
BrokenLastBit(start, numbits) == Lower(start + numbits, Width)
LastBit(start, numbits) == IF numbits = 0 THEN start ELSE Lower(start + numbits, Width) - 1

-----------------------------------------------------------------------------
(* One byte.                                                                 *)

Put(m, S, v) == IF v = 1 THEN m \union S ELSE m \ S

byte_set_bits(m, k, start, numbits, v) ==
  Put(m, {Bit(k, b) : b \in start .. LastBit(start, numbits)}, v)

Is(m, bit, v) == (bit \in m) <=> v = 1

\* How many bits from start on have value v, looking at numbits of them.
byte_count_bits(m, k, start, numbits, v) ==
  Least({b \in start .. LastBit(start, numbits) : ~Is(m, Bit(k, b), v)}
        \union {LastBit(start, numbits) + 1}) - start

\* The first gap of numbits zeros from start on; or -2 and the zeros at the end
\* of the byte; or -1.
Zeros(m, k, from, to) == \A b \in from .. to : Bit(k, b) \notin m

byte_find_gap(m, k, start, numbits) ==
  LET Gaps  == {g \in start .. Width - numbits : Zeros(m, k, g, g + numbits - 1)}
      Tails == {g \in start .. Width - 1 : Zeros(m, k, g, Width - 1)}
  IN  IF Gaps # {}  THEN [rc |-> Least(Gaps), count |-> numbits] ELSE
      IF Tails # {} THEN [rc |-> -2, count |-> Width - Least(Tails)]
                    ELSE [rc |-> -1, count |-> 0]

-----------------------------------------------------------------------------
(* The map.                                                                  *)

Result(m, rc, out) == [bm |-> m, rc |-> rc, out |-> out]

bm_set_bit(m, total_bits, a, v) ==
  IF a >= total_bits THEN Result(m, -1, 0)
  ELSE Result(byte_set_bits(m, a \div Width, a % Width, 1, v), 0, 0)

bm_get_bit(m, total_bits, a) ==
  Result(m, IF a >= total_bits THEN -1 ELSE IF a \in m THEN 1 ELSE 0, 0)

\* The bits of an unaligned extent in its first byte.
FirstPart(a, n) == IF a % Width = 0 THEN 0 ELSE Lower(n, Width - (a % Width))

\* The byte that comes after the shared one, if there is a shared one.
BrokenFirstWhole(a) == a \div Width
FirstWhole(a) == a \div Width + (IF a % Width = 0 THEN 0 ELSE 1)

\* The first byte when it is shared, whole bytes, and the rest - unless the rest
\* is a single bit: the last test of the code is extra_bits_to_mark > 1.
bm_set_extent(m, total_bits, a, n, v) ==
  LET shared  == a % Width # 0
      pending == n - FirstPart(a, n)
      first   == FirstWhole(a)
      extra   == pending % Width
      next    == first + pending \div Width
      m1 == IF shared THEN byte_set_bits(m, a \div Width, a % Width, FirstPart(a, n), v)
                      ELSE m
      m2 == Put(m1, Bit(first, 0) .. Bit(next, 0) - 1, v)
  IN  CASE a + n > total_bits -> Result(m, -1, 0)
        [] a + n <= total_bits /\ n = 1 -> bm_set_bit(m, total_bits, a, v)
        [] a + n <= total_bits /\ n # 1 ->
             IF pending = 0 /\ shared THEN Result(m1, 0, 0) ELSE
             IF extra = 0 /\ next > first THEN Result(m2, 0, 0) ELSE
             IF extra > 1 THEN Result(byte_set_bits(m2, next, 0, extra, v), 0, 0)
                          ELSE Result(m2, -2, 0)

\* The bytes from k on, c bits having been counted: a byte of nothing but v is
\* counted whole, any other ends the count.
Counting(n) == [k : Nat, c : 0 .. n]

CountBytes(m, n, v) ==
  LET f[s \in Counting(n)] ==
        LET values == {x \in {0, 1} : \E b \in 0 .. Width - 1 : Is(m, Bit(s.k, b), x)}
        IN  IF s.c = n THEN Result(m, -2, 0) ELSE
            IF values = {0, 1}
              THEN Result(m, 0, s.c + byte_count_bits(m, s.k, 0, n - s.c, v)) ELSE
            IF values = {1 - v} THEN Result(m, 0, s.c) ELSE
            IF n - s.c <= Width THEN Result(m, 0, n)
              ELSE f[[k |-> s.k + 1, c |-> s.c + Width]]
  IN  f

bm_count(m, total_bits, a, n, v) ==
  LET expected == FirstPart(a, n)
      count    == byte_count_bits(m, a \div Width, a % Width, expected, v)
  IN  IF a >= total_bits \/ a + n > total_bits THEN Result(m, -1, 0) ELSE
      IF a % Width = 0 THEN CountBytes(m, n, v)[[k |-> a \div Width, c |-> 0]] ELSE
      IF n = expected \/ count < expected THEN Result(m, 0, count)
      ELSE CountBytes(m, n, v)[[k |-> FirstWhole(a), c |-> count]]

\* The search: at byte k from bit off, left bits of count to go, need bits still
\* missing of the gap that began at found in an earlier byte (NoGap: in none).
\* A byte past the map is outside the model: the search is then said to overrun.
NoGap == -1
Overrun == -99

\* Where a gap starts that begins with the last c zeros of byte k.
BrokenTailOf(k, c) == Bit(k, 0) - c
TailOf(k, c) == Bit(k + 1, 0) - c

\* The bits left to search after a byte that was searched from off on.
BrokenRest(off, left) == IF Width > left THEN 0 ELSE left - Width
Rest(off, left) == IF Width - off > left THEN 0 ELSE left - (Width - off)

Searching == [k : Nat, off : 0 .. Width - 1, left : Nat, need : Nat, found : Int]
SearchAt(k, off, left, need, found) ==
  [k |-> k, off |-> off, left |-> left, need |-> need, found |-> found]

FindFrom(m, total_bits, size) ==
  LET f[s \in Searching] ==
        LET gap   == byte_find_gap(m, s.k, s.off, s.need)
            rest  == Rest(s.off, s.left)
            begun == IF s.found = NoGap THEN TailOf(s.k, gap.count) ELSE s.found
        IN  IF s.k >= BytesOf(total_bits) THEN Result(m, Overrun, 0) ELSE
            IF gap.rc >= 0
              THEN Result(m, 0, IF s.found = NoGap THEN Bit(s.k, gap.rc) ELSE s.found) ELSE
            IF gap.rc = -2
              THEN f[SearchAt(s.k + 1, 0, rest, s.need - gap.count, begun)] ELSE
            IF size > rest THEN Result(m, -1, 0)
              ELSE f[SearchAt(s.k + 1, 0, rest, size, NoGap)]
  IN  f

bm_find(m, total_bits, a, count, size) ==
  IF a >= total_bits \/ size = 0 \/ count = 0 \/ size > count THEN Result(m, -1, 0)
  ELSE FindFrom(m, total_bits, size)
         [SearchAt(a \div Width, a % Width, Lower(count, total_bits - a), size, NoGap)]

\* Zeros only, or ones and then zeros to the end of the extent.
BrokenZerosLeft(m, total_bits, a, n) == Result(m, 0, 0)
ZerosLeft(m, total_bits, a, n) ==
  LET ones  == bm_count(m, total_bits, a, n, 1).out
      zeros == bm_count(m, total_bits, a + ones, n - ones, 0).out
  IN  Result(m, IF ones = n THEN -3 ELSE IF ones + zeros = n THEN 0 ELSE -5, 0)

bm_extent_can_grow(m, total_bits, a, n) ==
  LET zeros == bm_count(m, total_bits, a, n, 0).out
  IN  IF a >= total_bits \/ a + n > total_bits \/ n = 0 THEN Result(m, -1, 0) ELSE
      IF zeros > 0 THEN Result(m, IF zeros = n THEN 0 ELSE -2, 0)
      ELSE ZerosLeft(m, total_bits, a, n)

=============================================================================
