-------------------------------- MODULE Mkfs --------------------------------
(* fs/kfs_mkfs.c at work: the writes by which kfs_mkfs makes a file system   *)
(* in a file or on a block device, one block_write() a step, and what may be *)
(* left of it when the process is killed.  As the code stands parse_opts()   *)
(* ends in exit(0) and fills a local variable: nothing is ever built.  What  *)
(* is modelled is the program that main() is written for.                    *)
EXTENDS Layout, MapFunctions, Sequences, FiniteSets, SequencesExt

CONSTANTS
  MaxBlocks,    \* bound: blocks of the largest device or file
  Lines,        \* the command lines, see Layout
  Files,        \* the files there may be at first, see Layout
  MaxFormats    \* bound: runs of kfs_mkfs

ASSUME MkfsAssumption ==
  /\ MaxBlocks \in Nat \ {0} /\ MaxFormats \in Nat
  /\ \A f \in Files : /\ f = [kind |-> f.kind, size |-> f.size] /\ f.size \in Nat
                      /\ f.kind \in {"none", "regular", "device", "other"}
  /\ \A a \in Lines : {a.d.num, a.p, a.i, a.s} \subseteq Nat

VARIABLES
  file,     \* the target: its kind, and its size in bytes
  disk,     \* what its blocks hold
  mkfs      \* the run of kfs_mkfs: phase, blocks_calc, writes done, runs so far

mkfsVars == <<file, disk, mkfs>>

Blocks == 0 .. MaxBlocks - 1

-----------------------------------------------------------------------------
(* What a block holds.  last is the id in the place of the last entry of a   *)
(* table's block, which is what kfs_verify() looks at.  The later blocks of a *)
(* table start with an id, which is no magic number: "sinodes" and "slots"   *)
(* only say what they are.                                                   *)

Page(magic, in_use, last, bits) ==
  [magic |-> magic, in_use |-> in_use, last |-> last, bits |-> bits]

Blank   == Page("none", 0, 0, {})
Foreign == Page("foreign", 0, 0, {})

\* ee_block_size has 16 bits.
OnDisk(extent) == [extent EXCEPT !.blocks = @ % Short]

TableOf(capacity, in_use, table, bitmap) ==
  [capacity |-> capacity, in_use |-> in_use,
   table |-> OnDisk(table), bitmap |-> OnDisk(bitmap)]

build_superblock(bc) ==
  [magic   |-> "KFS", last |-> 0, mounted |-> FALSE,
   si      |-> TableOf(bc.sinodes_table * sinodes_per_block, 1, Parts(bc)[1], Parts(bc)[3]),
   slot    |-> TableOf(bc.slots_table * slots_per_block, 0, Parts(bc)[2], Parts(bc)[4]),
   map     |-> OnDisk(Parts(bc)[5])]

\* The ids of the first block start behind its header, counted in bytes for the
\* sinodes, whose last entry is left without an id, and in slots for the slots,
\* whose last ones run over the end of the page.
FirstSinodeId == 0
FirstSlotId ==
  IF slots_per_block > sizeof_extent_header
  THEN slots_per_block - 1 - sizeof_extent_header ELSE 0

-----------------------------------------------------------------------------
(* The writes, in their order.                                               *)

At(addr, page) == [addr |-> addr, page |-> page]

\* The first block of a table is written even when the table has none.
BrokenTableWrites(magic, later, extent, in_use, first_id, per_block) ==
  [k \in 1 .. (IF extent.blocks = 0 THEN 1 ELSE extent.blocks) |->
     At(extent.addr + k - 1,
        IF k = 1 THEN Page(magic, in_use, first_id, {})
                 ELSE Page(later, 0, k * per_block, {}))]
TableWrites(magic, later, extent, in_use, first_id, per_block) ==
  [k \in 1 .. (IF extent.blocks = 0 THEN 1 ELSE extent.blocks) |->
     At(extent.addr + k - 1,
        IF k = 1 THEN Page(magic, in_use, first_id, {})
                 ELSE Page(later, 0, k * per_block - 1, {}))]

\* The bits that block k of a map holds, the first one behind its header.
BitsIn(k, bits) ==
  LET before == IF k = 1 THEN 0
                ELSE bits_per_block + (k - 2) * 8 * KFS_BLOCKSIZE
      after  == bits_per_block + (k - 1) * 8 * KFS_BLOCKSIZE
  IN  {b \in bits : before <= b /\ b < after}

MapWrites(magic, extent, in_use, bits) ==
  [k \in 1 .. extent.blocks |->
     At(extent.addr + k - 1,
        Page(IF k = 1 THEN magic ELSE "none", IF k = 1 THEN in_use ELSE 0, 0,
             BitsIn(k, bits)))]

\* The block map has one bit per block.
Marked(total, marks, extent) ==
  bm_set_extent(marks, total, extent.addr, extent.blocks, 1).bm

BrokenOrder == <<1, 3, 4, 5>>
Order == <<1, 3, 2, 4, 5>>

BlockMap(bc) ==
  FoldLeft(LAMBDA marks, i : Marked(bc.size, marks, Parts(bc)[i]), {0}, Order)

BlocksInUse(bc) ==
  1 + bc.sinodes_table + bc.sinodes_bitmap + bc.slots_table + bc.slots_bitmap + bc.bitmap

build_sinodes(bc) ==
  TableWrites("sinode_table", "sinodes", Parts(bc)[1], 1, FirstSinodeId, sinodes_per_block)
    \o MapWrites("sinode_map", Parts(bc)[3], 1, {0})

build_slots(bc) ==
  TableWrites("slot_table", "slots", Parts(bc)[2], 0, FirstSlotId, slots_per_block)
    \o MapWrites("slot_map", Parts(bc)[4], 0, {})

write_map(bc) == MapWrites("block_map", Parts(bc)[5], BlocksInUse(bc), BlockMap(bc))

\* First every block is filled with zeros, then come the parts.
Build(bc) ==
  <<At(0, build_superblock(bc))>> \o build_sinodes(bc) \o build_slots(bc) \o write_map(bc)

Write(bc, n) == IF n <= bc.size THEN At(n - 1, Blank) ELSE Build(bc)[n - bc.size]
Left(bc, n)  == bc.size + Len(Build(bc)) - n

-----------------------------------------------------------------------------
(* The process.                                                              *)

NoOptions == [cmd |-> "none", flags |-> {}, size |-> 0, percentage |-> 0,
              sinodes_num |-> 0, slots_num |-> 0]
NoCalc == compute_values(NoOptions)

MkfsInit ==
  /\ file \in Files
  /\ disk = [b \in Blocks |-> IF b * KFS_BLOCKSIZE < file.size THEN Foreign ELSE Blank]
  /\ mkfs = [phase |-> "idle", opts |-> NoOptions, bc |-> NoCalc, done |-> 0, runs |-> 0]

\* A line that parse_opts() refuses changes nothing.  A file that does not exist
\* is created; -x computes and builds nothing.
MkfsStart(line) ==
  /\ mkfs.phase # "building" /\ mkfs.runs < MaxFormats
  /\ mkfs.done = 0 \/ mkfs.done > mkfs.bc.size      \* bound: none after half of the zeros
  /\ Accepts(line, file)
  /\ LET o  == Options(line, file)
         bc == compute_values(o)
     IN  /\ bc.size <= MaxBlocks          \* bound
         /\ mkfs' = [phase |-> "building", opts |-> o, bc |-> bc, done |-> 0,
                     runs |-> mkfs.runs + 1]
  /\ file' = IF file.kind = "none" THEN [kind |-> "regular", size |-> 0] ELSE file
  /\ UNCHANGED disk

\* block_write(): a regular file grows, on a device a write past the end is lost.
Fits(addr) == file.kind = "regular" \/ (addr + 1) * KFS_BLOCKSIZE <= file.size

block_write(addr, page) ==
  IF ~Fits(addr) THEN UNCHANGED <<file, disk>> ELSE
  /\ disk' = [disk EXCEPT ![addr] = page]
  /\ file' = [file EXCEPT !.size = IF @ < (addr + 1) * KFS_BLOCKSIZE
                                   THEN (addr + 1) * KFS_BLOCKSIZE ELSE @]

MkfsWrite ==
  /\ mkfs.phase = "building"
  /\ LET n == mkfs.done + 1
         w == Write(mkfs.bc, n)
     IN  /\ block_write(w.addr, w.page)
         /\ mkfs' = [mkfs EXCEPT !.done  = n,
                                 !.phase = IF n > mkfs.bc.size /\ Left(mkfs.bc, n) = 0
                                           THEN "done" ELSE @]

\* The process ends anywhere: by a signal, or by the slots written past a page.
MkfsKilled ==
  /\ mkfs.phase = "building"
  /\ mkfs' = [mkfs EXCEPT !.phase = "killed"]
  /\ UNCHANGED <<file, disk>>

MkfsNext == (\E line \in Lines : MkfsStart(line)) \/ MkfsWrite \/ MkfsKilled

=============================================================================
