---------------------------- MODULE LayoutProofs ----------------------------
(* Proofs about Layout, for every size of block, entry and file system: what *)
(* compute_values() gives a plain command line is sound.                     *)
EXTENDS Layout, TLAPS

-----------------------------------------------------------------------------
(* Arithmetic.                                                               *)

\* Products keep the order of their first factor.
LEMMA Monotone ==
  ASSUME NEW a \in Nat, NEW b \in Nat, NEW c \in Nat, a <= b
  PROVE  a * c <= b * c
<1>1. PICK d \in Nat : b = a + d
  <2>1. b - a \in Nat /\ b = a + (b - a)
    OBVIOUS
  <2> QED  BY <2>1
<1>2. b * c = a * c + d * c
  BY <1>1
<1>3. d * c \in Nat /\ a * c \in Nat
  OBVIOUS
<1> QED  BY <1>2, <1>3

\* Division with a remainder.
LEMMA Quotient ==
  ASSUME NEW n \in Nat, NEW d \in Nat \ {0}
  PROVE  /\ n \div d \in Nat /\ n % d \in 0 .. d - 1
         /\ n = d * (n \div d) + (n % d)
OBVIOUS

\* What is divided is never less.
LEMMA QuotientBelow ==
  ASSUME NEW n \in Nat, NEW d \in Nat \ {0}
  PROVE  /\ d * (n \div d) \in Nat /\ d * (n \div d) <= n
         /\ n \div d \in Nat /\ n \div d <= n
<1> DEFINE q == n \div d
<1>1. q \in Nat /\ n % d \in 0 .. d - 1 /\ n = d * q + (n % d)
  BY Quotient
<1> HIDE DEF q
<1>2. d * q \in Nat /\ 1 * q = q
  BY <1>1
<1>3. 1 * q <= d * q
  BY <1>1, Monotone
<1>4. d * q <= n
  BY <1>1, <1>2
<1> QED  BY <1>1, <1>2, <1>3, <1>4 DEF q

\* \div keeps the order.
LEMMA QuotientMonotone ==
  ASSUME NEW n \in Nat, NEW m \in Nat, NEW d \in Nat \ {0}, m <= n
  PROVE  m \div d <= n \div d
<1> DEFINE p == m \div d
           q == n \div d
<1>1. p \in Nat /\ q \in Nat /\ m >= d * p /\ n <= d * q + d - 1
  BY Quotient
<1> HIDE DEF p, q
<1>2. SUFFICES ASSUME q + 1 <= p PROVE FALSE
  BY <1>1 DEF p, q
<1>3. (q + 1) * d <= p * d
  BY <1>1, <1>2, Monotone
<1>4. (q + 1) * d = d * q + d /\ p * d = d * p
  BY <1>1
<1>5. d * q \in Nat /\ d * p \in Nat
  BY <1>1
<1> QED  BY <1>1, <1>3, <1>4, <1>5

\* A quotient that is rounded up: one at least, and not more than needed.
LEMMA Rounded ==
  ASSUME NEW n \in Nat \ {0}, NEW d \in Nat, NEW e \in Nat \ {0}, e <= d
  PROVE  /\ Ceil(n, d) \in Nat /\ Ceil(n, d) >= 1
         /\ e * (Ceil(n, d) - 1) < n
<1> DEFINE q == n \div d
           r == n % d
<1>1. q \in Nat /\ r \in 0 .. d - 1 /\ n = d * q + r /\ d \in Nat \ {0}
  BY Quotient
<1>2. e * q <= d * q
  BY <1>1, Monotone
<1>3. e * q \in Nat /\ d * q \in Nat
  BY <1>1
<1>4. Ceil(n, d) = q + (IF r = 0 THEN 0 ELSE 1)
  BY DEF Ceil
<1> HIDE DEF q, r
<1>5. CASE r = 0
  <2>1. Ceil(n, d) = q /\ n = d * q
    BY <1>1, <1>3, <1>4, <1>5
  <2>2. q # 0
    <3>1. q = 0 => d * q = 0
      BY <1>1
    <3> QED  BY <1>1, <2>1, <3>1
  <2>3. e * (q - 1) = e * q - e
    BY <1>1
  <2> QED  BY <1>1, <1>2, <1>3, <2>1, <2>2, <2>3
<1>6. CASE r # 0
  <2>1. Ceil(n, d) = q + 1
    BY <1>4, <1>6
  <2>2. e * ((q + 1) - 1) = e * q
    BY <1>1
  <2> QED  BY <1>1, <1>2, <1>3, <1>6, <2>1, <2>2
<1> QED  BY <1>5, <1>6

\* Runs of blocks, one behind the other.
LEMMA Apart ==
  ASSUME NEW a \in Nat, NEW s \in Nat, NEW b \in Nat, NEW t \in Nat, a + s <= b
  PROVE  (a .. a + s - 1) \intersect (b .. b + t - 1) = {}
OBVIOUS

\* An extent behind the superblock that ends in the file system is blocks of it.
LEMMA Within ==
  ASSUME NEW a \in Nat, NEW s \in Nat, NEW n \in Nat, 1 <= a, a + s <= n
  PROVE  a .. a + s - 1 \subseteq 1 .. n - 1
OBVIOUS

-----------------------------------------------------------------------------
(* The values.                                                               *)

\* The numbers of compute_values() for a plain command line: a file system of S
\* blocks, of which each table and its map get I.
LEMMA PlainValues ==
  ASSUME NEW o, Plain(o)
  PROVE  LET S == o.size \div KFS_BLOCKSIZE
             I == (S * o.percentage) \div 200
             m == Ceil(I, bits_per_block)
         IN  compute_values(o) =
               [size |-> S, sinodes_table |-> I - m, sinodes_bitmap |-> m,
                slots_table |-> I - m, slots_bitmap |-> m,
                bitmap |-> Ceil(S, bits_per_block)]
<1>1. o.cmd = "kfs" /\ "p" \in o.flags /\ "i" \notin o.flags /\ "s" \notin o.flags
  BY DEF Plain
<1>2. in_percentage(o) = o.percentage
  BY <1>1 DEF in_percentage
<1>3. items_blocks(o) = ((o.size \div KFS_BLOCKSIZE) * o.percentage) \div 200
  BY <1>1, <1>2 DEF items_blocks
<1>4. \A n, per_block, taken :
        /\ Table(o, "i", n, per_block, taken) = ByPercentage(items_blocks(o))
        /\ Table(o, "s", n, per_block, taken) = ByPercentage(items_blocks(o))
  BY <1>1 DEF Table
<1>5. \A required : FileSize(o, required) = o.size \div KFS_BLOCKSIZE
  BY <1>1 DEF FileSize
<1>6. compute_values(o) =
        [size           |-> o.size \div KFS_BLOCKSIZE,
         sinodes_table  |-> ByPercentage(items_blocks(o)).table,
         sinodes_bitmap |-> ByPercentage(items_blocks(o)).bitmap,
         slots_table    |-> ByPercentage(items_blocks(o)).table,
         slots_bitmap   |-> ByPercentage(items_blocks(o)).bitmap,
         bitmap         |-> Ceil(o.size \div KFS_BLOCKSIZE, bits_per_block)]
  <2> DEFINE t  == ByPercentage(items_blocks(o))
             sb == IF o.cmd \in {"kfs", "meta"} THEN 1 ELSE 0
  <2>1. /\ Table(o, "i", o.sinodes_num, sinodes_per_block, FALSE) = t
        /\ Table(o, "s", o.slots_num, slots_per_block, "i" \in o.flags) = t
    BY <1>4
  <2>2. FileSize(o, sb + t.required + t.required) = o.size \div KFS_BLOCKSIZE
    BY <1>5
  <2> HIDE DEF t
  <2> QED  BY <2>1, <2>2 DEF compute_values, t
<1>7. \A items : /\ ByPercentage(items).table = items - Ceil(items, bits_per_block)
                 /\ ByPercentage(items).bitmap = Ceil(items, bits_per_block)
  BY DEF ByPercentage
<1> QED  BY <1>3, <1>6, <1>7

\* The tables have a block at least, and with the maps and the superblock they
\* leave room.
LEMMA Room ==
  ASSUME NEW S \in Nat, NEW p \in Nat, NEW M \in Nat, NEW B \in Nat,
         M <= S, 40 <= M, 40 <= B, MinPercentage <= p, p <= 90, M * MinPercentage >= 600
  PROVE  LET I == (S * p) \div 200
             m == Ceil(I, B)
             b == Ceil(S, B)
         IN  /\ I \in Nat /\ m \in Nat /\ b \in Nat
             /\ m >= 1 /\ b >= 1 /\ m < I /\ 2 * I + b < S /\ m + 2 <= I
<1> DEFINE I == (S * p) \div 200
           m == Ceil(I, B)
           b == Ceil(S, B)
<1>1. MinPercentage \in Nat
  BY LayoutAssumption
<1>2. S * p \in Nat /\ 600 <= S * p /\ S * p <= 90 * S
  <2>1. M * MinPercentage <= S * MinPercentage
    BY <1>1, Monotone
  <2>2. MinPercentage * S <= p * S /\ p * S <= 90 * S
    BY <1>1, Monotone
  <2>3. MinPercentage * S = S * MinPercentage /\ p * S = S * p
    BY <1>1
  <2>4. S * p \in Nat /\ S * MinPercentage \in Nat /\ M * MinPercentage \in Nat
    BY <1>1
  <2> QED  BY <2>1, <2>2, <2>3, <2>4
<1>3. I \in Nat /\ I >= 3 /\ 200 * I <= 90 * S
  <2> DEFINE P == S * p
  <2>1. P \in Nat /\ 600 <= P /\ P <= 90 * S
    BY <1>2
  <2> HIDE DEF P
  <2>2. P \div 200 \in Nat /\ P \div 200 >= 3 /\ 200 * (P \div 200) <= 90 * S
    BY <2>1
  <2> QED  BY <2>2 DEF P
<1> HIDE DEF I
<1>4. m \in Nat /\ m >= 1 /\ 40 * (m - 1) < I
  BY <1>3, Rounded
<1>5. b \in Nat /\ b >= 1 /\ 40 * (b - 1) < S
  <2>1. S \in Nat \ {0}
    OBVIOUS
  <2> QED  BY <2>1, Rounded
<1> HIDE DEF m, b
<1>6. m < I
  BY <1>3, <1>4
<1>7. 2 * I + b < S
  BY <1>3, <1>5
<1>8. m + 2 <= I
  BY <1>3, <1>4
<1> QED  BY <1>3, <1>4, <1>5, <1>6, <1>7, <1>8 DEF I, m, b

\* The numbers that Room is about, for a plain command line.
LEMMA PlainRoom ==
  ASSUME NEW o, Plain(o), o.size \in Nat
  PROVE  LET S == o.size \div KFS_BLOCKSIZE
             I == (S * o.percentage) \div 200
             m == Ceil(I, bits_per_block)
             b == Ceil(S, bits_per_block)
         IN  /\ I \in Nat /\ m \in Nat /\ b \in Nat /\ S \in Nat
             /\ m >= 1 /\ b >= 1 /\ m < I /\ 2 * I + b < S /\ m + 2 <= I
<1> DEFINE S == o.size \div KFS_BLOCKSIZE
           M == MIN_FS \div KFS_BLOCKSIZE
<1>1. KFS_BLOCKSIZE \in Nat \ {0} /\ MIN_FS \in Nat /\ MIN_FS <= o.size
  BY LayoutAssumption DEF Plain
<1>2. S \in Nat /\ M \in Nat /\ M <= S
  BY <1>1, Quotient, QuotientMonotone
<1>3. /\ bits_per_block \in Nat /\ 40 <= bits_per_block
      /\ 40 <= M /\ M * MinPercentage >= 600
  BY LayoutAssumption
<1>4. o.percentage \in Nat /\ MinPercentage <= o.percentage /\ o.percentage <= 90
  BY LayoutAssumption DEF Plain
<1>5. LET J == (S * o.percentage) \div 200
          n == Ceil(J, bits_per_block)
          c == Ceil(S, bits_per_block)
      IN  /\ J \in Nat /\ n \in Nat /\ c \in Nat
          /\ n >= 1 /\ c >= 1 /\ n < J /\ 2 * J + c < S /\ n + 2 <= J
  <2> HIDE DEF S, M
  <2> QED  BY <1>2, <1>3, <1>4, Room
<1> QED  BY <1>2, <1>5

\* The tables of a plain command line have two blocks at least, and the entries
\* in them are not more than the bytes of the file system.
LEMMA PlainTables ==
  ASSUME NEW o, Plain(o), o.size \in Nat
  PROVE  LET t == compute_values(o).sinodes_table
         IN  /\ t \in Nat /\ t >= 2 /\ compute_values(o).slots_table = t
             /\ t * sinodes_per_block \in Nat /\ t * sinodes_per_block <= o.size
             /\ t * slots_per_block \in Nat /\ t * slots_per_block <= o.size
<1> DEFINE S == o.size \div KFS_BLOCKSIZE
           I == (S * o.percentage) \div 200
           m == Ceil(I, bits_per_block)
           t == I - m
<1>1. I \in Nat /\ m \in Nat /\ S \in Nat /\ m + 2 <= I /\ I < S
  BY PlainRoom
<1>2. compute_values(o).sinodes_table = t /\ compute_values(o).slots_table = t
  BY PlainValues
<1>3. KFS_BLOCKSIZE \in Nat \ {0} /\ KFS_BLOCKSIZE * S <= o.size
  <2>1. KFS_BLOCKSIZE \in Nat \ {0}
    BY LayoutAssumption
  <2> QED  BY <2>1, QuotientBelow
<1> HIDE DEF S, I, m
<1>4. t \in Nat /\ t >= 2 /\ t <= S
  BY <1>1
<1> HIDE DEF t
<1>5. ASSUME NEW size \in Nat \ {0}
      PROVE  LET d == KFS_BLOCKSIZE \div size IN d \in Nat /\ t * d \in Nat /\ t * d <= o.size
  <2> DEFINE d == KFS_BLOCKSIZE \div size
  <2>1. d \in Nat /\ d <= KFS_BLOCKSIZE
    BY <1>3, QuotientBelow
  <2> HIDE DEF d
  <2>2. t * d <= S * d /\ d * S <= KFS_BLOCKSIZE * S
    BY <1>1, <1>3, <1>4, <2>1, Monotone
  <2>3. S * d = d * S /\ t * d \in Nat /\ d * S \in Nat /\ KFS_BLOCKSIZE * S \in Nat
    BY <1>1, <1>3, <1>4, <2>1
  <2> QED  BY <1>3, <2>1, <2>2, <2>3 DEF d
<1>6. /\ KFS_BLOCKSIZE \div sizeof_slot = slots_per_block /\ sizeof_slot \in Nat \ {0}
      /\ KFS_BLOCKSIZE \div sizeof_sinode = sinodes_per_block /\ sizeof_sinode \in Nat \ {0}
  BY LayoutAssumption
<1> QED  BY <1>2, <1>4, <1>5, <1>6

\* Wherever a plain command line is accepted - for any size from the smallest on
\* and any percentage that parse_opts() lets through - the five parts that
\* kfs_mkfs builds are behind the superblock, inside the file system, not empty,
\* and none over another.
THEOREM PlainIsSound ==
  ASSUME NEW o, Plain(o), o.size \in Nat
  PROVE  Sound(compute_values(o))
<1> DEFINE S  == o.size \div KFS_BLOCKSIZE
           I  == (S * o.percentage) \div 200
           m  == Ceil(I, bits_per_block)
           b  == Ceil(S, bits_per_block)
           bc == compute_values(o)
<1>1. bc = [size |-> S, sinodes_table |-> I - m, sinodes_bitmap |-> m,
            slots_table |-> I - m, slots_bitmap |-> m, bitmap |-> b]
  BY PlainValues
<1>2. /\ I \in Nat /\ m \in Nat /\ b \in Nat /\ S \in Nat
      /\ m >= 1 /\ b >= 1 /\ m < I /\ 2 * I + b < S
  BY PlainRoom
<1> HIDE DEF S, I, m, b
<1> DEFINE T == I - m
           first(i) == CASE i = 1 -> 1
                         [] i = 2 -> T + 1
                         [] i = 3 -> S - b - m - m
                         [] i = 4 -> S - b - m
                         [] i = 5 -> S - b
           size(i)  == CASE i \in {1, 2} -> T [] i \in {3, 4} -> m [] i = 5 -> b
<1>3. \A i \in 1 .. 5 : Parts(bc)[i] = [addr |-> first(i), blocks |-> size(i)]
  <2> HIDE DEF bc
  <2>1. /\ bc.size = S /\ bc.bitmap = b /\ bc.sinodes_table = T /\ bc.slots_table = T
        /\ bc.sinodes_bitmap = m /\ bc.slots_bitmap = m
    BY <1>1
  <2>2. /\ fs_map_block(bc) = S - b /\ slot_map_block(bc) = S - b - m
        /\ sinode_map_block(bc) = S - b - m - m
    BY <2>1 DEF fs_map_block, slot_map_block, sinode_map_block
  <2> QED  BY <2>1, <2>2 DEF Parts, Extent
<1>4. \A i \in 1 .. 5 : BlocksOf(Parts(bc)[i]) = first(i) .. first(i) + size(i) - 1
  BY <1>3 DEF BlocksOf
<1>5. T \in Nat /\ T >= 1 /\ 2 * T + 2 * m + b < S
  BY <1>2
<1>6. /\ first(1) = 1 /\ first(2) = T + 1 /\ first(3) = S - b - m - m
      /\ first(4) = S - b - m /\ first(5) = S - b
      /\ size(1) = T /\ size(2) = T /\ size(3) = m /\ size(4) = m /\ size(5) = b
  BY <1>2, <1>5
<1>7. \A i \in 1 .. 5 : i = 1 \/ i = 2 \/ i = 3 \/ i = 4 \/ i = 5
  OBVIOUS
<1>8. bc.size = S
  BY <1>1
<1> HIDE DEF T, first, size, bc
<1>9. ASSUME NEW i \in 1 .. 5
      PROVE  /\ first(i) \in Nat /\ size(i) \in Nat /\ size(i) > 0
             /\ 1 <= first(i) /\ first(i) + size(i) <= S
  BY <1>2, <1>5, <1>6, <1>7
<1>10. ASSUME NEW i \in 1 .. 5, NEW j \in 1 .. 5, i < j
       PROVE  first(i) + size(i) <= first(j)
  <2>1. CASE i = 1
    BY <1>2, <1>5, <1>6, <1>7, <1>10, <2>1
  <2>2. CASE i = 2
    BY <1>2, <1>5, <1>6, <1>7, <1>10, <2>2
  <2>3. CASE i = 3
    BY <1>2, <1>5, <1>6, <1>7, <1>10, <2>3
  <2>4. CASE i = 4
    BY <1>2, <1>5, <1>6, <1>7, <1>10, <2>4
  <2> QED  BY <1>7, <1>10, <2>1, <2>2, <2>3, <2>4
<1>11. ASSUME NEW i \in 1 .. 5
       PROVE  /\ Parts(bc)[i].blocks > 0
              /\ BlocksOf(Parts(bc)[i]) \subseteq 1 .. bc.size - 1
  <2>1. Parts(bc)[i].blocks = size(i)
    BY <1>3
  <2>2. first(i) .. first(i) + size(i) - 1 \subseteq 1 .. S - 1
    BY <1>2, <1>9, Within
  <2> QED  BY <1>4, <1>8, <1>9, <2>1, <2>2
<1>12. ASSUME NEW i \in 1 .. 5, NEW j \in 1 .. 5, i # j
       PROVE  BlocksOf(Parts(bc)[i]) \intersect BlocksOf(Parts(bc)[j]) = {}
  <2>1. CASE i < j
    <3>1. first(i) + size(i) <= first(j)
      BY <1>10, <2>1
    <3>2. first(i) \in Nat /\ size(i) \in Nat /\ first(j) \in Nat /\ size(j) \in Nat
      BY <1>9
    <3> QED  BY <1>4, <3>1, <3>2, Apart
  <2>2. CASE j < i
    <3>1. first(j) + size(j) <= first(i)
      BY <1>10, <2>2
    <3>2. first(i) \in Nat /\ size(i) \in Nat /\ first(j) \in Nat /\ size(j) \in Nat
      BY <1>9
    <3> QED  BY <1>4, <3>1, <3>2, Apart
  <2> QED  BY <1>12, <2>1, <2>2
<1> QED  BY <1>11, <1>12 DEF Sound, bc

-----------------------------------------------------------------------------
(* The maps of a file system are inside it.                                  *)

\* Rounded up, a number is at most about a fortieth, and at most itself.
LEMMA RoundedUp ==
  ASSUME NEW n \in Nat, NEW d \in Nat, d >= 40
  PROVE  /\ Ceil(n, d) \in Nat /\ Ceil(n, d) <= n /\ 40 * Ceil(n, d) <= n + 39
         /\ n > 0 => Ceil(n, d) >= 1
<1>1. CASE n = 0
  <2>1. 0 \div d = 0 /\ 0 % d = 0
    OBVIOUS
  <2> QED  BY <1>1, <2>1 DEF Ceil
<1>2. CASE n # 0
  <2> DEFINE c == Ceil(n, d)
  <2>1. c \in Nat /\ c >= 1 /\ 40 * (c - 1) < n
    BY <1>2, Rounded
  <2> HIDE DEF c
  <2> QED  BY <1>2, <2>1 DEF c
<1> QED  BY <1>1, <1>2

\* The blocks of a table by its percentage are not more than all blocks, and no
\* number of sinodes or slots ever comes to count.
LEMMA RunTables ==
  ASSUME NEW a, NEW file, Accepts(a, file), {a.i, a.s} \subseteq Nat
  PROVE  LET o == Options(a, file)
         IN  /\ Table(o, "i", o.sinodes_num, sinodes_per_block, FALSE) =
                  IF o.cmd \in {"kfs", "meta"} /\ "i" \notin o.flags
                  THEN ByPercentage(items_blocks(o)) ELSE NoTable
             /\ Table(o, "s", o.slots_num, slots_per_block, "i" \in o.flags) =
                  IF o.cmd \in {"kfs", "meta"} /\ "s" \notin o.flags
                  THEN ByPercentage(items_blocks(o)) ELSE NoTable
<1> DEFINE o == Options(a, file)
<1>1. o.cmd = a.cmd /\ a.cmd \in Commands /\ ~BadCombination(a)
      /\ o.flags = a.opts \union (IF file.kind = "none" THEN {} ELSE {"s"})
      /\ o.slots_num = IF "s" \in a.opts THEN a.s ELSE 0
  BY DEF Accepts, Usage, Options
<1>2. o.cmd = "graph" => "i" \notin o.flags /\ o.slots_num = 0
  BY <1>1 DEF BadCombination
<1>3. ByNumber(0, slots_per_block) = NoTable
  <2>1. \A d \in Nat \ {0} : Ceil(0, d) = 0
    BY DEF Ceil
  <2>2. slots_per_block \in Nat \ {0} /\ bits_per_block \in Nat \ {0}
    BY LayoutAssumption
  <2> QED  BY <2>1, <2>2 DEF ByNumber, NoTable
<1> HIDE DEF o
<1> QED  BY <1>1, <1>2, <1>3 DEF Table, o

\* A size is a number, and so is its remainder.
LEMMA SizeIs ==
  ASSUME NEW text, text.num \in Nat
  PROVE  validate_size(text) \in Nat
<1>1. Word \in Nat \ {0} /\ MB \in Nat /\ GB \in Nat
  BY LayoutAssumption
<1>2. \A n \in Nat : n % Word \in Nat
  BY <1>1, Quotient
<1>3. strtoul(text.num) \in Nat
  BY <1>1 DEF strtoul
<1>4. strtoul(text.num) * MB \in Nat /\ strtoul(text.num) * GB \in Nat
  BY <1>1, <1>3
<1> QED  BY <1>2, <1>3, <1>4 DEF validate_size

\* The maps of every file system that kfs_mkfs starts to build begin inside it, or
\* at its first block if it has none.
LEMMA MapsInside ==
  ASSUME NEW a, NEW file, Accepts(a, file),
         {a.d.num, a.p, a.i, a.s} \subseteq Nat, file.size \in Nat
  PROVE  LET bc == compute_values(Options(a, file))
         IN  /\ bc.size \in Nat
             /\ sinode_map_block(bc) \in Nat
             /\ slot_map_block(bc) \in Nat
             /\ slot_map_block(bc) < bc.size \/ slot_map_block(bc) = 0
             /\ fs_map_block(bc) \in Nat
<1> DEFINE o == Options(a, file)
           bc == compute_values(o)
           blocks == o.size \div KFS_BLOCKSIZE
           pct == in_percentage(o)
           items == items_blocks(o)
           two == o.cmd \in {"kfs", "meta"}
           i == two /\ "i" \notin o.flags
           s == two /\ "s" \notin o.flags
           b(n) == Ceil(n, bits_per_block)
           needed == (IF two THEN 1 ELSE 0) + (IF i THEN items ELSE 0) + (IF s THEN items ELSE 0)
           size == FileSize(o, needed)
<1>1. /\ bc.size = size /\ bc.bitmap = b(size)
      /\ bc.sinodes_bitmap = IF i THEN b(items) ELSE 0
      /\ bc.slots_bitmap = IF s THEN b(items) ELSE 0
  <2>1. /\ Table(o, "i", o.sinodes_num, sinodes_per_block, FALSE) =
             IF i THEN ByPercentage(items) ELSE NoTable
        /\ Table(o, "s", o.slots_num, slots_per_block, "i" \in o.flags) =
             IF s THEN ByPercentage(items) ELSE NoTable
    BY RunTables
  <2> HIDE DEF o, items, i, s
  <2> DEFINE t == IF i THEN ByPercentage(items) ELSE NoTable
             u == IF s THEN ByPercentage(items) ELSE NoTable
  <2>2. /\ bc.size = FileSize(o, (IF two THEN 1 ELSE 0) + t.required + u.required)
        /\ bc.bitmap = b(bc.size)
        /\ bc.sinodes_bitmap = t.bitmap /\ bc.slots_bitmap = u.bitmap
    BY <2>1 DEF compute_values
  <2>3. /\ t.required = (IF i THEN items ELSE 0) /\ t.bitmap = (IF i THEN b(items) ELSE 0)
        /\ u.required = (IF s THEN items ELSE 0) /\ u.bitmap = (IF s THEN b(items) ELSE 0)
    BY DEF ByPercentage, NoTable
  <2> HIDE DEF t, u, bc, two
  <2> QED  BY <2>2, <2>3
<1>2. /\ o.flags = a.opts \union (IF file.kind = "none" THEN {} ELSE {"s"})
      /\ o.percentage = IF "p" \in a.opts THEN a.p ELSE 10
  BY DEF Options
<1>3. pct \in Nat /\ pct <= 90
  <2>1. "p" \in a.opts => a.p \in MinPercentage .. MaxPercentage
    BY DEF Accepts, BadNumbers
  <2> QED  BY <1>2, <2>1, LayoutAssumption DEF in_percentage
<1>4. /\ o.flags \intersect {"i", "s"} = {} => o.size \in Nat /\ o.size >= MIN_FS
      /\ o.size \in Nat
  <2>1. validate_size(a.d) \in Nat
    BY SizeIs
  <2>2. o.size = IF file.kind = "device" \/ (file.kind = "regular" /\ file.size > 0)
                 THEN file.size
                 ELSE IF "d" \in a.opts THEN validate_size(a.d) ELSE 0
    BY DEF Options
  <2>3. file.kind = "none" => "d" \in a.opts /\ ~(validate_size(a.d) < MIN_FS)
    BY DEF Accepts, BadFile, BadNumbers
  <2> QED  BY <1>2, <2>1, <2>2, <2>3, LayoutAssumption
<1>5. blocks \in Nat /\ (o.flags \intersect {"i", "s"} = {} => blocks >= 40)
  <2>1. KFS_BLOCKSIZE \in Nat \ {0} /\ MIN_FS \in Nat /\ MIN_FS \div KFS_BLOCKSIZE >= 40
        /\ MIN_FS \div KFS_BLOCKSIZE \in Nat
    BY LayoutAssumption
  <2> HIDE DEF o
  <2>2. blocks \in Nat
    BY <1>4, <2>1, Quotient
  <2>3. o.flags \intersect {"i", "s"} = {} => MIN_FS \div KFS_BLOCKSIZE <= blocks
    BY <1>4, <2>1, QuotientMonotone
  <2> HIDE DEF blocks
  <2> QED  BY <2>1, <2>2, <2>3
<1>6. items \in Nat /\ items <= blocks
  <2>1. blocks * pct \in Nat /\ blocks * pct <= blocks * 90
    <3>1. pct * blocks <= 90 * blocks
      BY <1>3, <1>5, Monotone
    <3>2. pct * blocks = blocks * pct /\ 90 * blocks = blocks * 90 /\ blocks * pct \in Nat
      BY <1>3, <1>5
    <3> QED  BY <3>1, <3>2
  <2>2. items = (blocks * pct) \div (IF o.cmd = "kfs" THEN 200 ELSE 100)
    BY DEF items_blocks
  <2> HIDE DEF blocks, pct, items, o
  <2>3. \A n \in Nat : /\ n \div 200 \in Nat /\ n \div 100 \in Nat
                       /\ 200 * (n \div 200) <= n /\ 100 * (n \div 100) <= n
    OBVIOUS
  <2>4. \A n \in Nat : n <= blocks * 90 => n \div 200 <= blocks /\ n \div 100 <= blocks
    BY <1>5, <2>3
  <2> QED  BY <2>1, <2>2, <2>3, <2>4
<1>7. size = IF o.flags \intersect {"i", "s"} = {} THEN blocks ELSE
             IF pct = 0 THEN 0 ELSE (needed * 100) \div pct
  BY DEF FileSize
<1>8. pct = 0 => items = 0
  <2> HIDE DEF o
  <2>1. items = (blocks * pct) \div (IF o.cmd = "kfs" THEN 200 ELSE 100)
    BY DEF items_blocks
  <2> HIDE DEF blocks, pct, items
  <2>2. pct = 0 => blocks * pct = 0
    BY <1>5
  <2> QED  BY <2>1, <2>2
<1>9. \A n \in Nat : /\ b(n) \in Nat /\ b(n) <= n /\ 40 * b(n) <= n + 39
                     /\ n > 0 => b(n) >= 1
  BY LayoutAssumption, RoundedUp
<1>10. i => "i" \notin o.flags
  OBVIOUS
<1>11. s => "s" \notin o.flags
  OBVIOUS
<1>12. needed \in Nat
  BY <1>6
<1>13. pct > 0 => (needed * 100) \div pct \in Nat /\ (needed * 100) \div pct >= needed
  <2> HIDE DEF needed, pct
  <2> SUFFICES ASSUME pct > 0
               PROVE  (needed * 100) \div pct \in Nat /\ (needed * 100) \div pct >= needed
    OBVIOUS
  <2> DEFINE q == (needed * 100) \div pct
  <2>1. needed * 100 \in Nat /\ pct \in Nat \ {0}
    BY <1>3, <1>12
  <2>2. q \in Nat /\ needed * 100 = pct * q + ((needed * 100) % pct)
        /\ (needed * 100) % pct \in 0 .. pct - 1
    BY <2>1, Quotient
  <2> HIDE DEF q
  <2>3. ASSUME q < needed PROVE FALSE
    <3>1. q + 1 <= needed /\ q + 1 \in Nat
      BY <1>12, <2>2, <2>3
    <3>2. (q + 1) * pct <= needed * pct
      BY <1>3, <1>12, <3>1, Monotone
    <3>3. pct * needed <= 100 * needed /\ 100 * needed = needed * 100 /\ pct * needed = needed * pct
      BY <1>3, <1>12, Monotone
    <3>4. (q + 1) * pct = pct * q + pct /\ pct * q \in Nat /\ needed * pct \in Nat
      BY <1>3, <2>2, <1>12
    <3>5. pct * q + pct <= needed * 100
      BY <1>12, <2>1, <3>2, <3>3, <3>4
    <3>6. ASSUME needed * pct = needed * 100 PROVE FALSE
      <4>1. needed * 100 = needed * pct + needed * (100 - pct)
        BY <1>3, <1>12
      <4>2. 1 * (100 - pct) <= needed * (100 - pct)
        BY <1>3, <1>12, <3>1, <2>2, Monotone
      <4> QED  BY <1>3, <1>12, <3>4, <3>6, <4>1, <4>2
    <3> QED  BY <2>1, <2>2, <3>5
  <2> QED  BY <1>12, <2>2, <2>3 DEF q
<1> HIDE DEF b, items, pct, blocks
<1>14. size \in Nat
  BY <1>3, <1>5, <1>7, <1>13
<1> DEFINE m == b(size)
           mi == IF i THEN b(items) ELSE 0
           ms == IF s THEN b(items) ELSE 0
<1>15. m \in Nat /\ mi \in Nat /\ ms \in Nat /\ b(items) \in Nat /\ m <= size
  BY <1>6, <1>9, <1>14
<1>16. m + mi + ms <= size
  <2>1. CASE o.flags \intersect {"i", "s"} = {}
    <3>1. size = blocks /\ blocks >= 40
      BY <1>5, <1>7, <2>1
    <3>2. 40 * m <= size + 39 /\ 40 * b(items) <= size + 39
      BY <1>5, <1>6, <1>9, <3>1
    <3> HIDE DEF size, m, i, s
    <3> QED  BY <1>14, <1>15, <3>1, <3>2
  <2>2. CASE o.flags \intersect {"i", "s"} # {} /\ pct = 0
    <3>1. size = 0 /\ b(items) = 0
      BY <1>6, <1>7, <1>8, <1>9, <2>2
    <3> HIDE DEF size, i, s
    <3> QED  BY <1>15, <3>1
  <2>3. CASE o.flags \intersect {"i", "s"} # {} /\ pct # 0
    <3>1. ~(i /\ s)
      BY <1>10, <1>11, <2>3
    <3>2. size = (needed * 100) \div pct /\ pct > 0
      BY <1>3, <1>7, <2>3
    <3>3. size >= needed
      BY <1>13, <3>2
    <3>4. i \/ s => needed = 1 + items
      BY <1>6, <3>1
    <3>5. 40 * m <= size + 39 /\ 40 * b(items) <= items + 39 /\ b(items) <= items
      BY <1>6, <1>9, <1>14
    <3> HIDE DEF size, m, i, s, needed
    <3>6. CASE i \/ s
      <4>1. items <= size - 1
        BY <1>6, <1>14, <3>3, <3>4, <3>6
      <4>2. m + b(items) <= size
        BY <1>6, <1>14, <1>15, <3>5, <4>1
      <4> QED  BY <1>15, <3>1, <4>2
    <3>7. CASE ~i /\ ~s
      BY <1>14, <1>15, <3>7
    <3> QED  BY <3>6, <3>7
  <2> QED  BY <2>1, <2>2, <2>3
<1>17. size > 0 => m >= 1
  BY <1>9, <1>14
<1>18. /\ fs_map_block(bc) = size - m
       /\ slot_map_block(bc) = size - m - ms
       /\ sinode_map_block(bc) = size - m - ms - mi
  BY <1>1 DEF fs_map_block, slot_map_block, sinode_map_block
<1> HIDE DEF size, m, mi, ms, bc
<1>19. /\ fs_map_block(bc) \in Nat /\ slot_map_block(bc) \in Nat /\ sinode_map_block(bc) \in Nat
       /\ slot_map_block(bc) < size \/ slot_map_block(bc) = 0
  BY <1>14, <1>15, <1>16, <1>17, <1>18
<1> QED  BY <1>1, <1>14, <1>19 DEF bc

=============================================================================
