------------------------------- MODULE Layout -------------------------------
(* What fs/kfs_mkfs.c computes before it writes anything: the options that   *)
(* parse_opts() makes of a command line and a file, the numbers that         *)
(* compute_values() makes of the options, and the extents that the file      *)
(* system's parts are given.  Numbers of bytes and blocks are integers; the  *)
(* product with a percentage, a float in the code, is exact as long as a     *)
(* table has fewer blocks than an extent can say.  Broken... operators are   *)
(* plausible bugs, used by the mutation checks of PROJECT.json only.         *)
EXTENDS Integers

CONSTANTS
  KFS_BLOCKSIZE,          \* 8192
  sizeof_extent_header,   \* 32
  sizeof_slot,            \* 40
  sizeof_sinode,          \* 96
  MB, GB,                 \* _1M, _1G
  MIN_FS,                 \* 10485760
  MinPercentage,          \* 2
  MaxPercentage,          \* 90
  Short,                  \* 2^16: ee_block_size is a uint16_t
  Word                    \* 2^64

slots_per_block   == (KFS_BLOCKSIZE - sizeof_extent_header) \div sizeof_slot
sinodes_per_block == (KFS_BLOCKSIZE - sizeof_extent_header) \div sizeof_sinode
bits_per_block    == (KFS_BLOCKSIZE - sizeof_extent_header) * 8

\* The smallest file system has tables of two blocks or more, and room for its
\* tables and maps: in the code 1280 blocks, 12 of them slots, and 65280 bits.
ASSUME LayoutAssumption ==
  /\ {KFS_BLOCKSIZE, sizeof_extent_header, sizeof_slot, sizeof_sinode} \subseteq Nat \ {0}
  /\ {MB, GB, MIN_FS, Short, Word} \subseteq Nat \ {0}
  /\ slots_per_block \in Nat \ {0, 1} /\ sinodes_per_block \in Nat \ {0, 1}
  /\ bits_per_block \in Nat /\ bits_per_block >= 40
  /\ KFS_BLOCKSIZE \div sizeof_slot = slots_per_block
  /\ KFS_BLOCKSIZE \div sizeof_sinode = sinodes_per_block
  /\ MIN_FS \div KFS_BLOCKSIZE \in Nat /\ MIN_FS \div KFS_BLOCKSIZE >= 40
  /\ MinPercentage \in Nat /\ MaxPercentage \in Nat /\ MaxPercentage <= 90
  /\ (MIN_FS \div KFS_BLOCKSIZE) * MinPercentage >= 600

-----------------------------------------------------------------------------
(* parse_opts().  A command line is a command, the set of its options and    *)
(* their arguments: d a number with a unit, p, i and s numbers.  A file has  *)
(* a kind, "none" if it does not exist, and a size in bytes.                 *)

Commands == {"kfs", "meta", "sis", "graph"}

\* A number that does not fit becomes the largest that does.
strtoul(num) == IF num < Word THEN num ELSE Word - 1

validate_size(text) ==
  CASE text.unit = ""  -> strtoul(text.num)
    [] text.unit = "M" -> (strtoul(text.num) * MB) % Word
    [] text.unit = "G" -> (strtoul(text.num) * GB) % Word
    [] text.unit \notin {"", "M", "G"} -> 0

\* The option x takes no argument in the option string, so optarg is NULL when
\* its argument is compared.
Killed(a) == a.cmd \in Commands /\ "x" \in a.opts

BadCombination(a) ==
  \/ a.opts \intersect {"i", "s"} # {} /\ "p" \in a.opts
  \/ a.cmd \in {"meta", "graph"} /\ "i" \in a.opts
  \/ a.cmd \in {"sis", "graph"} /\ "s" \in a.opts
  \/ a.cmd # "kfs" /\ "k" \notin a.opts

\* An error message, the help text and EXIT_FAILURE; or the help text and 0.
Usage(a) ==
  \/ a.cmd \notin Commands
  \/ "h" \notin a.opts /\ ("f" \notin a.opts \/ BadCombination(a))

BadNumbers(a) ==
  \/ "d" \in a.opts /\ validate_size(a.d) < MIN_FS
  \/ "p" \in a.opts /\ a.p \notin MinPercentage .. MaxPercentage
  \/ "i" \in a.opts /\ a.i = 0
  \/ "s" \in a.opts /\ a.s = 0

BadFile(a, file) ==
  \/ file.kind = "other"
  \/ file.kind = "none" /\ "d" \notin a.opts

Accepts(a, file) ==
  /\ ~Killed(a) /\ "h" \notin a.opts /\ ~Usage(a)
  /\ ~BadNumbers(a) /\ ~BadFile(a, file)

\* A file that exists and is not empty has the size it has, whatever -d says,
\* and OPT_S is set for every file that exists.  The percentage is 10 without
\* -p, but then nobody looks at it.
Options(a, file) ==
  [cmd         |-> a.cmd,
   flags       |-> a.opts \union (IF file.kind = "none" THEN {} ELSE {"s"}),
   size        |-> IF file.kind = "device" \/ (file.kind = "regular" /\ file.size > 0)
                   THEN file.size
                   ELSE IF "d" \in a.opts THEN validate_size(a.d) ELSE 0,
   percentage  |-> IF "p" \in a.opts THEN a.p ELSE 10,
   sinodes_num |-> IF "i" \in a.opts THEN a.i ELSE 0,
   slots_num   |-> IF "s" \in a.opts THEN a.s ELSE 0]

-----------------------------------------------------------------------------
(* compute_values(): the blocks of each table and of each bitmap.            *)

\* The quotient, rounded up.
Ceil(n, d) == n \div d + (IF n % d = 0 THEN 0 ELSE 1)

in_percentage(o) == IF "p" \in o.flags THEN o.percentage ELSE 0

\* The blocks for a table and its bitmap: half of the percentage each when there
\* are two tables - which "meta" has too.
items_blocks(o) ==
  ((o.size \div KFS_BLOCKSIZE) * in_percentage(o)) \div
    (IF o.cmd = "kfs" THEN 200 ELSE 100)

NoTable == [table |-> 0, bitmap |-> 0, required |-> 0]

\* The bitmap is sized for a bit per block of the table, not per entry.
ByPercentage(items) ==
  [table    |-> items - Ceil(items, bits_per_block),
   bitmap   |-> Ceil(items, bits_per_block),
   required |-> items]

ByNumber(n, per_block) ==
  LET blocks == Ceil(n, per_block)
  IN  [table    |-> blocks,
       bitmap   |-> Ceil(blocks, bits_per_block),
       required |-> blocks + Ceil(blocks, bits_per_block)]

\* A number of sinodes or slots counts for "graph" only, where parse_opts() lets
\* none through but the 0 slots of a file that exists.
Table(o, letter, n, per_block, taken) ==
  IF o.cmd \in {"kfs", "meta"}
  THEN IF letter \in o.flags THEN NoTable ELSE ByPercentage(items_blocks(o))
  ELSE IF o.cmd = "graph" /\ letter \in o.flags /\ ~taken
       THEN ByNumber(n, per_block) ELSE NoTable

\* With -i or -s, or a file that exists, the size is computed from the blocks
\* required: divided by the percentage, which is 0 without -p.  What the
\* conversion of an infinite float gives is undefined; it is 0 on x86-64.  A float
\* just below a whole quotient loses a block: that is left out.
FileSize(o, required) ==
  IF o.flags \intersect {"i", "s"} = {} THEN o.size \div KFS_BLOCKSIZE ELSE
  IF in_percentage(o) = 0 THEN 0 ELSE (required * 100) \div in_percentage(o)

compute_values(o) ==
  LET sinodes  == Table(o, "i", o.sinodes_num, sinodes_per_block, FALSE)
      slots    == Table(o, "s", o.slots_num, slots_per_block, "i" \in o.flags)
      sb       == IF o.cmd \in {"kfs", "meta"} THEN 1 ELSE 0
      size     == FileSize(o, sb + sinodes.required + slots.required)
  IN  [size           |-> size,
       sinodes_table  |-> sinodes.table,
       sinodes_bitmap |-> sinodes.bitmap,
       slots_table    |-> slots.table,
       slots_bitmap   |-> slots.bitmap,
       bitmap         |-> Ceil(size, bits_per_block)]

-----------------------------------------------------------------------------
(* build_superblock() and its siblings: where the parts are, as an address   *)
(* and a number of blocks.                                                   *)

fs_map_block(bc)     == bc.size - bc.bitmap
slot_map_block(bc)   == fs_map_block(bc) - bc.slots_bitmap
BrokenSinodeMapBlock(bc) == slot_map_block(bc)
sinode_map_block(bc) == slot_map_block(bc) - bc.sinodes_bitmap

Extent(addr, blocks) == [addr |-> addr, blocks |-> blocks]

\* The parts in the order of their addresses.
Parts(bc) ==
  << Extent(1, bc.sinodes_table),
     Extent(bc.sinodes_table + 1, bc.slots_table),
     Extent(sinode_map_block(bc), bc.sinodes_bitmap),
     Extent(slot_map_block(bc), bc.slots_bitmap),
     Extent(fs_map_block(bc), bc.bitmap) >>

BlocksOf(extent) == extent.addr .. extent.addr + extent.blocks - 1

-----------------------------------------------------------------------------
(* Properties.                                                               *)

\* The parts of a file system are where they may be: behind the superblock and
\* inside the device, each with a block at least, none over another.
Sound(bc) ==
  \A i \in 1 .. 5 :
    /\ Parts(bc)[i].blocks > 0
    /\ BlocksOf(Parts(bc)[i]) \subseteq 1 .. bc.size - 1
    /\ \A j \in 1 .. 5 :
         i # j => BlocksOf(Parts(bc)[i]) \intersect BlocksOf(Parts(bc)[j]) = {}

\* A command line that makes a complete file system in a new file: what the help
\* text describes.
Plain(o) ==
  /\ o.cmd = "kfs" /\ "p" \in o.flags /\ o.flags \intersect {"i", "s"} = {}
  /\ o.size >= MIN_FS /\ o.percentage \in MinPercentage .. MaxPercentage

=============================================================================
