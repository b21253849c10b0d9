---------------------------- MODULE VolumeProofs ----------------------------
(* Proofs about Volume, for every size of device, every command line, every  *)
(* configuration and all faults: the layout of what is built, what a mount   *)
(* answers, and that the superblock on the device keeps the places of the    *)
(* parts, wherever a slot call has the next flush written.                   *)
EXTENDS Volume, LayoutProofs, MapProofs, SequenceTheorems, FiniteSetTheorems, TLAPS

-----------------------------------------------------------------------------
(* The inductive invariant.                                                  *)

\* What the fields of a superblock, and of the tables in it, are called.
IsTable(t) ==
  t = [capacity |-> t.capacity, in_use |-> t.in_use, table |-> t.table, bitmap |-> t.bitmap]

IsSuper(s) ==
  /\ s = [magic |-> s.magic, last |-> s.last, mounted |-> s.mounted,
          si |-> s.si, slot |-> s.slot, map |-> s.map]
  /\ IsTable(s.si) /\ IsTable(s.slot)

\* Numbers of blocks are not negative.
IsCalc(bc) ==
  /\ bc = [size |-> bc.size, sinodes_table |-> bc.sinodes_table,
           sinodes_bitmap |-> bc.sinodes_bitmap, slots_table |-> bc.slots_table,
           slots_bitmap |-> bc.slots_bitmap, bitmap |-> bc.bitmap]
  /\ {bc.size, bc.sinodes_table, bc.sinodes_bitmap, bc.slots_table, bc.slots_bitmap,
      bc.bitmap} \subseteq Nat

IsOptions(o) == {o.size, o.percentage, o.sinodes_num, o.slots_num} \subseteq Nat

\* The run of kfs_mkfs: it builds what it has computed, and has something left to
\* write as long as it builds.
MkfsInv ==
  /\ file = [kind |-> file.kind, size |-> file.size] /\ file.size \in Nat
  /\ mkfs = [phase |-> mkfs.phase, opts |-> mkfs.opts, bc |-> mkfs.bc,
             done |-> mkfs.done, runs |-> mkfs.runs]
  /\ IsOptions(mkfs.opts) /\ mkfs.bc = compute_values(mkfs.opts) /\ mkfs.done \in Nat
  /\ mkfs.phase = "building" => Left(mkfs.bc, mkfs.done) > 0

\* The map of the slots has a place.
MapNumbers(s) == s.slot.bitmap.addr \in Int /\ s.slot.bitmap.blocks \in Int

\* What is on the device and is taken for a superblock is one, and has room there.
DiskInv ==
  /\ disk = [b \in Blocks |-> disk[b]]
  /\ disk[0].magic = "KFS" =>
       /\ IsSuper(disk[0]) /\ MapNumbers(disk[0])
       /\ file.kind = "regular" \/ KFS_BLOCKSIZE <= file.size

RecordInv ==
  /\ page = [held |-> page.held, dirty |-> page.dirty, super |-> page.super]
  /\ page.held \in BOOLEAN /\ page.dirty \in BOOLEAN /\ IsSuper(page.super)
  /\ IsSuper(sb)
  /\ call = [op |-> call.op, step |-> call.step, rc |-> call.rc, arg |-> call.arg]

MountSteps  == {"open", "alloc", "enable", "map", "fill", "sync", "check", "undo"}
UmountSteps == {"flags", "tables", "destroy"}
SlotSteps   == {"seek", "read"}

\* What a call has done so far.
CallInv ==
  /\ call.step \in MountSteps \union UmountSteps \union SlotSteps \union {"idle"}
  /\ call.op = "mount" => call.step \in MountSteps \union {"idle"}
  /\ call.step \in {"open", "alloc", "enable", "map", "fill", "undo"} => sb = NoSb
  /\ call.step \in {"open", "alloc"} => cache = "none"
  /\ call.step = "map" => cache = "active"
  /\ call.step \in {"open", "alloc", "enable", "map", "undo"} => ~page.held
  /\ call.step \in {"alloc", "enable", "map"} =>
       disk[0].magic = "KFS" /\ 0 < file.size
  /\ call.step = "fill" =>
       page.held /\ ~page.dirty /\ page.super = disk[0] /\ cache = "active"
  /\ call.step \in {"sync", "check"} => kfs_active
  /\ call.step \in UmountSteps \union SlotSteps => sb.magic = "KFS"

\* The superblock in memory is filled in while its page is there, and both agree
\* with the device on where the parts are.
HeldInv ==
  /\ sb = NoSb \/ sb.magic = "KFS"
  /\ sb.magic = "KFS" =>
       page.held /\ cache = "active" /\ Places(sb) = Places(page.super)
  /\ page.held =>
       /\ sb.magic = "KFS" \/ call.step = "fill"
       /\ disk[0].magic = "KFS" /\ page.super.magic = "KFS"
       /\ Places(page.super) = Places(disk[0])
  /\ Idle /\ sb = NoSb => cache = "none"

\* The descriptor stands at a block; the thread moves it to write a dirty page.
FdInv ==
  /\ fd = [offset |-> fd.offset, flushing |-> fd.flushing, diverted |-> fd.diverted]
  /\ fd.offset \in Int /\ fd.flushing \in BOOLEAN /\ fd.diverted \in Nat
  /\ fd.flushing => page.held /\ page.dirty /\ cache = "active"

CoreInv == MkfsInv /\ DiskInv /\ RecordInv /\ CallInv /\ HeldInv /\ CleanIsOnDevice
IInv    == CoreInv /\ FdInv

-----------------------------------------------------------------------------
(* The numbers kfs_mkfs computes.                                            *)

\* Rounded up, a quotient is a number and no more than what was divided.
LEMMA RoundedBelow ==
  ASSUME NEW n \in Nat, NEW d \in Nat \ {0}
  PROVE  Ceil(n, d) \in Nat /\ Ceil(n, d) <= n
<1>1. CASE n = 0
  <2>1. 0 \div d = 0 /\ 0 % d = 0
    OBVIOUS
  <2> QED  BY <1>1, <2>1 DEF Ceil
<1>2. CASE n # 0
  <2>1. Ceil(n, d) \in Nat /\ 1 * (Ceil(n, d) - 1) < n
    BY <1>2, Rounded
  <2> QED  BY <2>1
<1> QED  BY <1>1, <1>2

\* What compute_values() computes of numbers are numbers.
LEMMA ComputedNumbers ==
  ASSUME NEW o, IsOptions(o)
  PROVE  IsCalc(compute_values(o))
<1> DEFINE IsParts(t) == t.table \in Nat /\ t.bitmap \in Nat /\ t.required \in Nat
<1>1. bits_per_block \in Nat \ {0} /\ KFS_BLOCKSIZE \in Nat \ {0}
      /\ slots_per_block \in Nat \ {0} /\ sinodes_per_block \in Nat \ {0}
  BY LayoutAssumption
<1>2. in_percentage(o) \in Nat /\ o.size \div KFS_BLOCKSIZE \in Nat
  BY <1>1, Quotient DEF in_percentage, IsOptions
<1>3. items_blocks(o) \in Nat
  <2>1. (o.size \div KFS_BLOCKSIZE) * in_percentage(o) \in Nat
    BY <1>2
  <2>2. \A n \in Nat : n \div 200 \in Nat /\ n \div 100 \in Nat
    OBVIOUS
  <2> QED  BY <2>1, <2>2 DEF items_blocks
<1>4. \A items \in Nat : IsParts(ByPercentage(items))
  BY <1>1, RoundedBelow DEF ByPercentage
<1>5. \A n \in Nat, d \in Nat \ {0} : IsParts(ByNumber(n, d))
  BY <1>1, RoundedBelow DEF ByNumber
<1>6. \A letter, taken : \A n \in Nat, d \in Nat \ {0} :
        IsParts(Table(o, letter, n, d, taken))
  BY <1>3, <1>4, <1>5 DEF Table, NoTable
<1>7. \A r \in Nat : FileSize(o, r) \in Nat
  BY <1>2, Quotient DEF FileSize
<1> DEFINE sinodes == Table(o, "i", o.sinodes_num, sinodes_per_block, FALSE)
           slots   == Table(o, "s", o.slots_num, slots_per_block, "i" \in o.flags)
           super   == IF o.cmd \in {"kfs", "meta"} THEN 1 ELSE 0
           size    == FileSize(o, super + sinodes.required + slots.required)
<1>8. IsParts(sinodes) /\ IsParts(slots)
  BY <1>1, <1>6 DEF IsOptions
<1>9. compute_values(o) =
        [size           |-> size,
         sinodes_table  |-> sinodes.table,
         sinodes_bitmap |-> sinodes.bitmap,
         slots_table    |-> slots.table,
         slots_bitmap   |-> slots.bitmap,
         bitmap         |-> Ceil(size, bits_per_block)]
  BY DEF compute_values
<1> HIDE DEF sinodes, slots
<1>10. size \in Nat /\ Ceil(size, bits_per_block) \in Nat
  <2>1. super + sinodes.required + slots.required \in Nat
    BY <1>8
  <2>2. size \in Nat
    BY <1>7, <2>1
  <2> QED  BY <1>1, <2>2, RoundedBelow
<1> HIDE DEF size
<1> QED  BY <1>8, <1>9, <1>10 DEF IsCalc

\* The options that parse_opts() makes of a command line.
LEMMA OptionNumbers ==
  ASSUME NEW a \in Lines, NEW f, f.size \in Nat
  PROVE  IsOptions(Options(a, f))
<1>1. a.d.num \in Nat /\ a.p \in Nat /\ a.i \in Nat /\ a.s \in Nat
  BY MkfsAssumption
<1>2. validate_size(a.d) \in Nat
  <2>1. Word \in Nat \ {0} /\ MB \in Nat /\ GB \in Nat
    BY LayoutAssumption
  <2>2. \A n \in Nat : n % Word \in Nat
    BY <2>1, Quotient
  <2>3. strtoul(a.d.num) \in Nat
    BY <1>1, <2>1 DEF strtoul
  <2>4. strtoul(a.d.num) * MB \in Nat /\ strtoul(a.d.num) * GB \in Nat
    BY <2>1, <2>3
  <2> QED  BY <2>2, <2>3, <2>4 DEF validate_size
<1> QED  BY <1>1, <1>2 DEF Options, IsOptions

-----------------------------------------------------------------------------
(* What kfs_mkfs writes.                                                     *)

\* Writes of blocks that have no magic number of a superblock.
Plainly(t) ==
  \E n \in Nat :
    /\ DOMAIN t = 1 .. n /\ t = [j \in 1 .. n |-> t[j]]
    /\ \A j \in 1 .. n : t[j].addr \in Int /\ t[j].page.magic # "KFS"

\* The writes of a table, as they come in the list.
LEMMA TablePiece ==
  ASSUME NEW magic, NEW later, NEW extent, NEW in_use, NEW id, NEW per_block,
         extent.addr \in Int, extent.blocks \in Nat, magic # "KFS", later # "KFS"
  PROVE  Plainly(TableWrites(magic, later, extent, in_use, id, per_block))
<1> DEFINE t == TableWrites(magic, later, extent, in_use, id, per_block)
           n == IF extent.blocks = 0 THEN 1 ELSE extent.blocks
<1>1. n \in Nat
  OBVIOUS
<1>2. DOMAIN t = 1 .. n /\ t = [j \in 1 .. n |-> t[j]]
  BY DEF TableWrites
<1>3. ASSUME NEW j \in 1 .. n
      PROVE  t[j].addr \in Int /\ t[j].page.magic # "KFS"
  <2>1. t[j] = At(extent.addr + j - 1,
                  IF j = 1 THEN Page(magic, in_use, id, {})
                           ELSE Page(later, 0, j * per_block - 1, {}))
    BY DEF TableWrites
  <2> QED  BY <2>1 DEF At, Page
<1> QED  BY <1>1, <1>2, <1>3 DEF Plainly

\* The writes of a map, as they come in the list.
LEMMA MapPiece ==
  ASSUME NEW magic, NEW extent, NEW in_use, NEW bits,
         extent.addr \in Int, extent.blocks \in Nat, magic # "KFS"
  PROVE  Plainly(MapWrites(magic, extent, in_use, bits))
<1> DEFINE t == MapWrites(magic, extent, in_use, bits)
           n == extent.blocks
<1>1. DOMAIN t = 1 .. n /\ t = [j \in 1 .. n |-> t[j]]
  BY DEF MapWrites
<1>2. ASSUME NEW j \in 1 .. n
      PROVE  t[j].addr \in Int /\ t[j].page.magic # "KFS"
  <2>1. t[j] = At(extent.addr + j - 1,
                  Page(IF j = 1 THEN magic ELSE "none", IF j = 1 THEN in_use ELSE 0, 0,
                       BitsIn(j, bits)))
    BY DEF MapWrites
  <2> QED  BY <2>1 DEF At, Page
<1> QED  BY <1>1, <1>2 DEF Plainly

\* Of the blocks that are written in a run, one has the magic number of a
\* superblock: the superblock, whose map of the slots has a place.
IsSb(s) == IsSuper(s) /\ MapNumbers(s)

LEMMA Writes ==
  ASSUME NEW bc, IsCalc(bc)
  PROVE  /\ Len(Build(bc)) \in Nat \ {0}
         /\ \A n \in 1 .. bc.size + Len(Build(bc)) :
              /\ Write(bc, n).addr \in Int
              /\ Write(bc, n).page.magic = "KFS" => IsSb(Write(bc, n).page)
<1> DEFINE super == At(0, build_superblock(bc))
           p(k)  == CASE k = 1 -> TableWrites("sinode_table", "sinodes", Parts(bc)[1], 1,
                                              FirstSinodeId, sinodes_per_block)
                      [] k = 2 -> MapWrites("sinode_map", Parts(bc)[3], 1, {0})
                      [] k = 3 -> TableWrites("slot_table", "slots", Parts(bc)[2], 0,
                                              FirstSlotId, slots_per_block)
                      [] k = 4 -> MapWrites("slot_map", Parts(bc)[4], 0, {})
                      [] k = 5 -> write_map(bc)
           plain(w) == w.addr \in Int /\ w.page.magic # "KFS"
           W == {super} \union UNION {{p(k)[j] : j \in DOMAIN p(k)} : k \in 1 .. 5}
<1>1. IsSb(super.page) /\ super.addr \in Int
  <2>1. /\ build_superblock(bc).slot.bitmap.addr = slot_map_block(bc)
        /\ build_superblock(bc).slot.bitmap.blocks = bc.slots_bitmap % Short
    BY DEF build_superblock, TableOf, OnDisk, Parts, Extent
  <2>2. slot_map_block(bc) \in Int /\ bc.slots_bitmap % Short \in Int
    <3>0. Short \in Nat \ {0}
      BY LayoutAssumption
    <3>1. \A n \in Nat : n % Short \in Nat
      BY <3>0, Quotient
    <3>2. bc.slots_bitmap \in Nat
      BY DEF IsCalc
    <3>3. slot_map_block(bc) \in Int
      BY DEF slot_map_block, fs_map_block, IsCalc
    <3> QED  BY <3>1, <3>2, <3>3
  <2>3. IsSuper(build_superblock(bc))
    BY DEF build_superblock, IsSuper, IsTable, TableOf
  <2> QED  BY <2>1, <2>2, <2>3 DEF At, IsSb, MapNumbers
<1>2. \A i \in 1 .. 5 : Parts(bc)[i].blocks \in Nat /\ Parts(bc)[i].addr \in Int
  <2>1. \A i \in 1 .. 5 : i = 1 \/ i = 2 \/ i = 3 \/ i = 4 \/ i = 5
    OBVIOUS
  <2>2. /\ fs_map_block(bc) \in Int /\ slot_map_block(bc) \in Int
        /\ sinode_map_block(bc) \in Int
    BY DEF fs_map_block, slot_map_block, sinode_map_block, IsCalc
  <2> QED  BY <2>1, <2>2 DEF Parts, Extent, IsCalc
<1>3. \A k \in 1 .. 5 : \E n \in Nat :
        /\ DOMAIN p(k) = 1 .. n /\ p(k) = [j \in 1 .. n |-> p(k)[j]]
        /\ \A j \in 1 .. n : plain(p(k)[j])
  <2>1. /\ p(1) = TableWrites("sinode_table", "sinodes", Parts(bc)[1], 1,
                              FirstSinodeId, sinodes_per_block)
        /\ p(2) = MapWrites("sinode_map", Parts(bc)[3], 1, {0})
        /\ p(3) = TableWrites("slot_table", "slots", Parts(bc)[2], 0,
                              FirstSlotId, slots_per_block)
        /\ p(4) = MapWrites("slot_map", Parts(bc)[4], 0, {})
        /\ p(5) = MapWrites("block_map", Parts(bc)[5], BlocksInUse(bc), BlockMap(bc))
    BY DEF write_map
  <2> HIDE DEF p
  <2>2. Plainly(p(1)) /\ Plainly(p(3))
    BY <1>2, <2>1, TablePiece
  <2>3. Plainly(p(2)) /\ Plainly(p(4)) /\ Plainly(p(5))
    BY <1>2, <2>1, MapPiece
  <2>4. \A k \in 1 .. 5 : k = 1 \/ k = 2 \/ k = 3 \/ k = 4 \/ k = 5
    OBVIOUS
  <2>5. \A k \in 1 .. 5 : Plainly(p(k))
    BY <2>2, <2>3, <2>4
  <2> QED  BY <2>5 DEF Plainly
<1> HIDE DEF super, p
<1>4. \A k \in 1 .. 5 : p(k) \in Seq(W)
  <2> SUFFICES ASSUME NEW k \in 1 .. 5 PROVE p(k) \in Seq(W)
    OBVIOUS
  <2>1. PICK n \in Nat : DOMAIN p(k) = 1 .. n /\ p(k) = [j \in 1 .. n |-> p(k)[j]]
    BY <1>3
  <2>2. \A j \in 1 .. n : p(k)[j] \in W
    BY <2>1
  <2> HIDE DEF W
  <2>3. p(k) \in [1 .. n -> W]
    BY <2>1, <2>2
  <2> QED  BY <2>3, SeqDef
<1>5. super \in W
  OBVIOUS
<1>6. ASSUME NEW w \in W PROVE w.addr \in Int /\ (plain(w) \/ IsSb(w.page))
  <2>1. CASE w = super
    BY <1>1, <2>1
  <2>2. CASE \E k \in 1 .. 5 : \E j \in DOMAIN p(k) : w = p(k)[j]
    BY <1>3, <2>2
  <2> QED  BY <2>1, <2>2
<1> HIDE DEF W
<1>7. Build(bc) = <<super>> \o (p(1) \o p(2)) \o (p(3) \o p(4)) \o p(5)
  BY DEF Build, build_sinodes, build_slots, super, p
<1>8. Build(bc) \in Seq(W) /\ Len(Build(bc)) >= 1
  <2>1. <<super>> \in Seq(W) /\ Len(<<super>>) = 1
    BY <1>5
  <2>2. p(1) \o p(2) \in Seq(W) /\ p(3) \o p(4) \in Seq(W) /\ p(5) \in Seq(W)
    BY <1>4, ConcatProperties
  <2> DEFINE a == <<super>> \o (p(1) \o p(2))
             b == a \o (p(3) \o p(4))
  <2>3. a \in Seq(W) /\ Len(a) = 1 + Len(p(1) \o p(2)) /\ Len(p(1) \o p(2)) \in Nat
    BY <2>1, <2>2, ConcatProperties, LenProperties
  <2>4. b \in Seq(W) /\ Len(b) = Len(a) + Len(p(3) \o p(4)) /\ Len(p(3) \o p(4)) \in Nat
    BY <2>2, <2>3, ConcatProperties, LenProperties
  <2>5. b \o p(5) \in Seq(W) /\ Len(b \o p(5)) = Len(b) + Len(p(5)) /\ Len(p(5)) \in Nat
    BY <2>2, <2>4, ConcatProperties, LenProperties
  <2>6. Build(bc) = b \o p(5)
    BY <1>7
  <2> HIDE DEF a, b
  <2> QED  BY <2>3, <2>4, <2>5, <2>6
<1>9. Len(Build(bc)) \in Nat /\ \A j \in 1 .. Len(Build(bc)) : Build(bc)[j] \in W
  BY <1>8, LenProperties, ElementOfSeq
<1>10. bc.size \in Nat
  BY DEF IsCalc
<1>11. ASSUME NEW n \in 1 .. bc.size + Len(Build(bc))
       PROVE  /\ Write(bc, n).addr \in Int
              /\ Write(bc, n).page.magic = "KFS" => IsSb(Write(bc, n).page)
  <2>1. CASE n <= bc.size
    BY <2>1 DEF Write, At, Blank, Page
  <2>2. CASE ~(n <= bc.size)
    <3>1. Write(bc, n) = Build(bc)[n - bc.size]
      BY <2>2 DEF Write
    <3>2. n - bc.size \in 1 .. Len(Build(bc))
      BY <1>9, <1>10, <2>2
    <3> QED  BY <1>6, <1>9, <3>1, <3>2
  <2> QED  BY <2>1, <2>2
<1> QED  BY <1>8, <1>9, <1>11

-----------------------------------------------------------------------------
(* The steps of kfs_mkfs.                                                    *)

\* A device that no file system was made on, and no process.
LEMMA InitHolds == Init => IInv
<1> SUFFICES ASSUME Init PROVE IInv
  OBVIOUS
<1> USE DEF Init, MkfsInit, SuperInit
<1>1. IsSuper(NoSuper) /\ NoSuper.magic = "KFS"
  BY DEF NoSuper, build_superblock, IsSuper, IsTable, TableOf
<1>2. IsSuper(NoSb) /\ NoSb.magic = "none"
  BY <1>1 DEF NoSb, IsSuper
<1>3. MkfsInv
  <2>1. file = [kind |-> file.kind, size |-> file.size] /\ file.size \in Nat
    BY MkfsAssumption
  <2> QED  BY <2>1 DEF MkfsInv, IsOptions, NoOptions, NoCalc
<1>4. DiskInv
  <2>1. 0 \in Blocks
    BY MkfsAssumption DEF Blocks
  <2>2. disk[0] = Foreign \/ disk[0] = Blank
    BY <2>1
  <2> QED  BY <2>2 DEF DiskInv, Foreign, Blank, Page
<1>5. RecordInv
  BY <1>1, <1>2 DEF RecordInv, NoPage, NoCall
<1>6. CallInv /\ HeldInv /\ CleanIsOnDevice
  BY <1>2 DEF CallInv, HeldInv, CleanIsOnDevice, NoPage, NoCall, MountSteps, UmountSteps,
              SlotSteps, Idle
<1>7. FdInv
  BY DEF FdInv, NoFd
<1> QED  BY <1>3, <1>4, <1>5, <1>6, <1>7 DEF IInv, CoreInv

\* A write of a block makes a regular file no smaller, and no device larger; what
\* does not fit is lost.
LEMMA WrittenFile ==
  ASSUME MkfsInv, DiskInv, NEW a \in Int, NEW p, block_write(a, p)
  PROVE  /\ file' = [kind |-> file'.kind, size |-> file'.size] /\ file'.size \in Nat
         /\ file'.kind = file.kind /\ file.size <= file'.size
         /\ disk' = [b \in Blocks |-> disk'[b]]
         /\ \A b \in Blocks : disk'[b] = IF b = a /\ Fits(a) THEN p ELSE disk[b]
<1>1. /\ file = [kind |-> file.kind, size |-> file.size] /\ file.size \in Nat
      /\ disk = [b \in Blocks |-> disk[b]]
  BY DEF MkfsInv, DiskInv
<1>2. CASE ~Fits(a)
  BY <1>1, <1>2 DEF block_write
<1>3. CASE Fits(a)
  <2> DEFINE end == (a + 1) * KFS_BLOCKSIZE
  <2>1. /\ file' = [file EXCEPT !.size = IF @ < end THEN end ELSE @]
        /\ disk' = [disk EXCEPT ![a] = p]
    BY <1>3 DEF block_write
  <2>2. end \in Int
    BY LayoutAssumption
  <2> HIDE DEF end
  <2>3. /\ file' = [kind |-> file'.kind, size |-> file'.size] /\ file'.size \in Nat
        /\ file'.kind = file.kind /\ file.size <= file'.size
    BY <1>1, <2>1, <2>2
  <2>4. /\ disk' = [b \in Blocks |-> disk'[b]]
        /\ \A b \in Blocks : disk'[b] = IF b = a THEN p ELSE disk[b]
    BY <1>1, <2>1
  <2> QED  BY <1>3, <2>3, <2>4
<1> QED  BY <1>2, <1>3

\* What fits at the beginning goes on fitting.
LEMMA RoomStays ==
  /\ Fits(0) <=> file.kind = "regular" \/ KFS_BLOCKSIZE <= file.size
  /\ \A n, m \in Nat : n <= m /\ KFS_BLOCKSIZE <= n => KFS_BLOCKSIZE <= m
<1>1. (0 + 1) * KFS_BLOCKSIZE = KFS_BLOCKSIZE /\ KFS_BLOCKSIZE \in Nat
  BY LayoutAssumption
<1> QED  BY <1>1 DEF Fits

\* While kfs_mkfs runs there is no process: no page, no cache, no call.
LEMMA MkfsStep ==
  ASSUME IInv, Make
  PROVE  CoreInv'
<1>1. /\ ~page.held /\ sb = NoSb /\ call.step = "idle" /\ NoSb.magic # "KFS"
      /\ UNCHANGED <<sb, cache, page, call>> /\ MkfsNext
  <2>1. NoSb.magic = "none"
    BY DEF NoSb, NoSuper, build_superblock
  <2> QED  BY <2>1 DEF IInv, CoreInv, HeldInv, Free, Idle, Make
<1>2. RecordInv' /\ CallInv' /\ HeldInv' /\ CleanIsOnDevice'
  BY <1>1 DEF IInv, CoreInv, RecordInv, CallInv, HeldInv, CleanIsOnDevice, kfs_active,
              Idle, MountSteps, UmountSteps, SlotSteps
<1>3. ASSUME NEW line \in Lines, MkfsStart(line)
      PROVE  MkfsInv' /\ DiskInv'
  <2> DEFINE o  == Options(line, file)
             bc == compute_values(o)
  <2>1. IsOptions(o)
    BY OptionNumbers DEF IInv, CoreInv, MkfsInv
  <2>2. IsCalc(bc)
    BY <2>1, ComputedNumbers
  <2>3. bc.size + Len(Build(bc)) - 0 > 0
    <3>1. bc.size \in Nat
      BY <2>2 DEF IsCalc
    <3>2. Len(Build(bc)) \in Nat \ {0}
      BY <2>2, Writes
    <3> QED  BY <3>1, <3>2
  <2>4. mkfs' = [phase |-> "building", opts |-> o, bc |-> bc, done |-> 0,
                 runs |-> mkfs.runs + 1]
    BY <1>3 DEF MkfsStart
  <2> HIDE DEF o, bc
  <2>5. /\ file' = [kind |-> file'.kind, size |-> file'.size] /\ file'.size \in Nat
        /\ disk' = disk /\ (file'.kind = "regular" \/ file' = file)
    BY <1>3 DEF MkfsStart, IInv, CoreInv, MkfsInv
  <2> QED  BY <2>1, <2>3, <2>4, <2>5 DEF IInv, CoreInv, MkfsInv, DiskInv, Left, bc
<1>4. ASSUME MkfsWrite
      PROVE  MkfsInv' /\ DiskInv'
  <2> DEFINE n == mkfs.done + 1
             bc == mkfs.bc
             w == Write(bc, n)
  <2>1. /\ mkfs.phase = "building" /\ block_write(w.addr, w.page)
        /\ mkfs' = [mkfs EXCEPT !.done = n,
                                !.phase = IF n > bc.size /\ Left(bc, n) = 0
                                          THEN "done" ELSE @]
    BY <1>4 DEF MkfsWrite
  <2>2. IsCalc(bc) /\ IsOptions(mkfs.opts) /\ n \in Nat /\ n > 0
        /\ bc = compute_values(mkfs.opts) /\ Left(bc, mkfs.done) > 0
    BY <2>1, ComputedNumbers DEF IInv, CoreInv, MkfsInv
  <2>3. bc.size \in Nat /\ Len(Build(bc)) \in Nat \ {0}
    BY <2>2, Writes DEF IsCalc
  <2>4. n \in 1 .. bc.size + Len(Build(bc)) /\ Left(bc, n) >= 0
        /\ (n <= bc.size => Left(bc, n) > 0)
    BY <2>2, <2>3 DEF Left, IInv, CoreInv, MkfsInv
  <2>5. w.addr \in Int /\ (w.page.magic = "KFS" => IsSb(w.page))
    BY <2>2, <2>4, Writes
  <2> HIDE DEF n, w, bc
  <2>6. MkfsInv'
    <3>1. /\ mkfs' = [phase |-> mkfs'.phase, opts |-> mkfs'.opts, bc |-> mkfs'.bc,
                      done |-> mkfs'.done, runs |-> mkfs'.runs]
          /\ mkfs'.opts = mkfs.opts /\ mkfs'.bc = bc /\ mkfs'.done = n
          /\ mkfs'.phase = (IF n > bc.size /\ Left(bc, n) = 0 THEN "done" ELSE mkfs.phase)
      BY <2>1 DEF IInv, CoreInv, MkfsInv, bc
    <3>2. Left(bc, n) > 0 \/ (n > bc.size /\ Left(bc, n) = 0)
      BY <2>2, <2>3, <2>4 DEF Left
    <3>3. mkfs'.phase = "building" => Left(bc, n) > 0
      BY <3>1, <3>2
    <3>4. file' = [kind |-> file'.kind, size |-> file'.size] /\ file'.size \in Nat
      BY <2>1, <2>5, WrittenFile DEF IInv, CoreInv
    <3> QED  BY <2>2, <3>1, <3>3, <3>4 DEF MkfsInv
  <2>7. DiskInv'
    <3>1. 0 \in Blocks
      BY MkfsAssumption DEF Blocks
    <3>2. /\ disk' = [b \in Blocks |-> disk'[b]]
          /\ disk'[0] = IF 0 = w.addr /\ Fits(w.addr) THEN w.page ELSE disk[0]
          /\ file'.kind = file.kind /\ file.size <= file'.size
          /\ file.size \in Nat /\ file'.size \in Nat
      BY <2>1, <2>5, <3>1, WrittenFile DEF IInv, CoreInv, MkfsInv
    <3>3. CASE disk'[0] = disk[0]
      BY <3>2, <3>3, RoomStays DEF IInv, CoreInv, DiskInv
    <3>4. CASE Fits(0) /\ disk'[0] = w.page
      <4>1. file'.kind = "regular" \/ KFS_BLOCKSIZE <= file'.size
        BY <3>2, <3>4, RoomStays
      <4> QED  BY <2>5, <3>2, <3>4, <4>1 DEF DiskInv, IsSb
    <3> QED  BY <3>2, <3>3, <3>4
  <2> QED  BY <2>6, <2>7
<1>5. ASSUME MkfsKilled
      PROVE  MkfsInv' /\ DiskInv'
  BY <1>5 DEF MkfsKilled, IInv, CoreInv, MkfsInv, DiskInv
<1> QED  BY <1>1, <1>2, <1>3, <1>4, <1>5 DEF MkfsNext, IInv, CoreInv

-----------------------------------------------------------------------------
(* The steps of a process.                                                   *)

\* No page of the superblock is there.
NothingHeld(p) ==
  /\ p = [held |-> p.held, dirty |-> p.dirty, super |-> p.super]
  /\ p.held = FALSE /\ p.dirty = FALSE /\ IsSuper(p.super)

\* A superblock that is not filled in, and a page that is not there.
LEMMA NoSuperblock ==
  NoSb.magic = "none" /\ IsSuper(NoSb) /\ NothingHeld(NoPage)
<1>1. IsSuper(NoSuper)
  BY DEF NoSuper, build_superblock, IsSuper, IsTable, TableOf
<1> QED  BY <1>1 DEF NoSb, NoPage, IsSuper, NothingHeld

\* What the steps of a call do to its record.
LEMMA CallGoes ==
  ASSUME RecordInv, NEW step, Goes(step)
  PROVE  /\ call'.op = call.op /\ call'.step = step /\ call'.rc = call.rc
         /\ call'.arg = call.arg
         /\ call' = [op |-> call'.op, step |-> call'.step, rc |-> call'.rc, arg |-> call'.arg]
BY DEF RecordInv, Goes

\* What the return of a call does to its record.
LEMMA CallReturns ==
  ASSUME RecordInv, NEW rc, Returns(rc)
  PROVE  /\ call'.op = call.op /\ call'.step = "idle" /\ call'.rc = rc
         /\ call' = [op |-> call'.op, step |-> call'.step, rc |-> call'.rc, arg |-> call'.arg]
BY DEF RecordInv, Returns

\* kfs_verify() of a device that the superblock is read from.
LEMMA Verified ==
  /\ kfs_verify(FALSE) => disk[0].magic = "KFS" /\ 0 < file.size
  /\ 0 < file.size => block_read(0, Blank) = disk[0]
<1>1. 0 * KFS_BLOCKSIZE = 0
  BY LayoutAssumption
<1> QED  BY <1>1 DEF kfs_verify, block_read, Blank, Page

\* Before the superblock's page is there only the call and the cache change.
LEMMA MountBegins ==
  ASSUME IInv,
         \/ \E lines \in Configs : MountStart(lines)
         \/ MountOpen \/ MountAlloc \/ MountEnable
  PROVE  CoreInv'
<1> USE DEF IInv, CoreInv
<1>1. UNCHANGED <<targetVars, sb, page>>
  BY DEF MountStart, MountOpen, MountAlloc, MountEnable
<1>2. MkfsInv' /\ DiskInv'
  BY <1>1 DEF MkfsInv, DiskInv, targetVars
<1>3. ASSUME NEW lines \in Configs, MountStart(lines)
      PROVE  RecordInv' /\ CallInv' /\ HeldInv' /\ CleanIsOnDevice'
  <2>1. /\ call' = [op |-> "mount", step |-> "idle", rc |-> -1, arg |-> 0]
           \/ \E n : call' = [op |-> "mount", step |-> "open", rc |-> 0, arg |-> n]
        /\ cache' = cache /\ sb = NoSb /\ call.step = "idle"
    BY <1>3 DEF MountStart, Idle
  <2>2. /\ call'.op = "mount" /\ call'.step \in {"idle", "open"}
        /\ call' = [op |-> call'.op, step |-> call'.step, rc |-> call'.rc, arg |-> call'.arg]
    BY <2>1
  <2> QED  BY <1>1, <2>1, <2>2, NoSuperblock
           DEF RecordInv, CallInv, HeldInv, CleanIsOnDevice, targetVars, kfs_active, Idle,
               MountSteps, UmountSteps, SlotSteps
<1>4. ASSUME MountOpen
      PROVE  RecordInv' /\ CallInv' /\ HeldInv' /\ CleanIsOnDevice'
  <2>1. /\ cache' = cache /\ call.step = "open"
        /\ (kfs_verify(FALSE) /\ Goes("alloc")) \/ Returns(-1)
    BY <1>4 DEF MountOpen
  <2>2. /\ call'.op = call.op /\ call'.step \in {"idle", "alloc"}
        /\ call'.step = "alloc" => kfs_verify(FALSE)
        /\ call' = [op |-> call'.op, step |-> call'.step, rc |-> call'.rc, arg |-> call'.arg]
    BY <2>1, CallGoes, CallReturns
  <2> QED  BY <1>1, <2>1, <2>2, NoSuperblock, Verified
           DEF RecordInv, CallInv, HeldInv, CleanIsOnDevice, targetVars, kfs_active, Idle,
               MountSteps, UmountSteps, SlotSteps
<1>5. ASSUME MountAlloc
      PROVE  RecordInv' /\ CallInv' /\ HeldInv' /\ CleanIsOnDevice'
  <2>1. /\ call.step = "alloc"
        /\ (cache' = "alloc" /\ Goes("enable")) \/ (cache' = cache /\ Returns(-1))
    BY <1>5 DEF MountAlloc
  <2>2. /\ call'.op = call.op /\ call'.step \in {"idle", "enable"}
        /\ call'.step = "idle" => cache' = cache
        /\ call' = [op |-> call'.op, step |-> call'.step, rc |-> call'.rc, arg |-> call'.arg]
    BY <2>1, CallGoes, CallReturns
  <2> QED  BY <1>1, <2>1, <2>2, NoSuperblock
           DEF RecordInv, CallInv, HeldInv, CleanIsOnDevice, targetVars, kfs_active, Idle,
               MountSteps, UmountSteps, SlotSteps
<1>6. ASSUME MountEnable
      PROVE  RecordInv' /\ CallInv' /\ HeldInv' /\ CleanIsOnDevice'
  <2>1. /\ call.step = "enable"
        /\ (cache' = "active" /\ Goes("map")) \/ (cache' = cache /\ Goes("undo"))
    BY <1>6 DEF MountEnable
  <2>2. /\ call'.op = call.op /\ call'.step \in {"map", "undo"}
        /\ call'.step = "map" => cache' = "active"
        /\ call' = [op |-> call'.op, step |-> call'.step, rc |-> call'.rc, arg |-> call'.arg]
    BY <2>1, CallGoes
  <2> QED  BY <1>1, <2>1, <2>2, NoSuperblock
           DEF RecordInv, CallInv, HeldInv, CleanIsOnDevice, targetVars, kfs_active, Idle,
               MountSteps, UmountSteps, SlotSteps
<1> QED  BY <1>2, <1>3, <1>4, <1>5, <1>6

\* The page is read, filled in and marked; the check finds the file system active.
LEMMA MountGoesOn ==
  ASSUME IInv, MountMap \/ MountFill \/ MountSync \/ MountCheck
  PROVE  CoreInv' /\ disk' = disk
<1> USE DEF IInv, CoreInv
<1>1. ASSUME MountMap
      PROVE  CoreInv' /\ disk' = disk
  <2>1. /\ call.step = "map" /\ UNCHANGED <<targetVars, sb, cache>>
        /\ \/ /\ page' = [held |-> TRUE, dirty |-> FALSE, super |-> block_read(0, Blank)]
              /\ Goes("fill")
           \/ page' = page /\ Goes("undo")
    BY <1>1 DEF MountMap
  <2>2. block_read(0, Blank) = disk[0] /\ disk[0].magic = "KFS" /\ IsSuper(disk[0])
    BY <2>1, Verified DEF CallInv, DiskInv
  <2>3. MkfsInv' /\ DiskInv'
    BY <2>1 DEF MkfsInv, DiskInv, targetVars
  <2>4. CASE page' = page /\ Goes("undo")
    <3>1. /\ call'.op = call.op /\ call'.step = "undo"
          /\ call' = [op |-> call'.op, step |-> call'.step, rc |-> call'.rc,
                      arg |-> call'.arg]
      BY <2>4, CallGoes
    <3> QED  BY <2>1, <2>3, <2>4, <3>1, NoSuperblock
             DEF RecordInv, CallInv, HeldInv, CleanIsOnDevice, targetVars, kfs_active, Idle,
                 MountSteps, UmountSteps, SlotSteps
  <2>5. CASE /\ page' = [held |-> TRUE, dirty |-> FALSE, super |-> disk[0]]
             /\ Goes("fill")
    <3>1. /\ call'.op = call.op /\ call'.step = "fill"
          /\ call' = [op |-> call'.op, step |-> call'.step, rc |-> call'.rc,
                      arg |-> call'.arg]
      BY <2>5, CallGoes
    <3>2. /\ page'.held = TRUE /\ page'.dirty = FALSE /\ page'.super = disk[0] /\ disk' = disk
          /\ page' = [held |-> page'.held, dirty |-> page'.dirty, super |-> page'.super]
      BY <2>1, <2>5 DEF targetVars
    <3>3. RecordInv' /\ CleanIsOnDevice'
      <4>1. IsSuper(page'.super) /\ IsSuper(sb')
        BY <2>1, <2>2, <3>2 DEF RecordInv
      <4> QED  BY <3>1, <3>2, <4>1 DEF RecordInv, CleanIsOnDevice
    <3>4. CallInv'
      BY <2>1, <3>1, <3>2 DEF CallInv, kfs_active, MountSteps, UmountSteps, SlotSteps
    <3>5. HeldInv'
      BY <2>1, <2>2, <3>1, <3>2, NoSuperblock DEF HeldInv, CallInv, Idle, Places
    <3> QED  BY <2>3, <3>2, <3>3, <3>4, <3>5
  <2> QED  BY <2>1, <2>2, <2>4, <2>5 DEF targetVars
<1>2. ASSUME MountFill
      PROVE  CoreInv' /\ disk' = disk
  <2>1. /\ call.step = "fill" /\ Goes("sync") /\ UNCHANGED <<targetVars, cache>>
        /\ sb' = [page.super EXCEPT !.mounted = TRUE]
        /\ page' = [page EXCEPT !.super.mounted = TRUE]
    BY <1>2 DEF MountFill
  <2>2. /\ call'.op = call.op /\ call'.step = "sync"
        /\ call' = [op |-> call'.op, step |-> call'.step, rc |-> call'.rc, arg |-> call'.arg]
    BY <2>1, CallGoes
  <2>3. MkfsInv' /\ DiskInv'
    BY <2>1 DEF MkfsInv, DiskInv, targetVars
  <2>4. /\ IsSuper(sb') /\ sb'.magic = page.super.magic /\ sb'.mounted = TRUE
        /\ Places(sb') = Places(page.super)
    BY <2>1 DEF RecordInv, IsSuper, IsTable, Places
  <2>5. /\ page' = [held |-> page.held, dirty |-> page.dirty, super |-> page'.super]
        /\ page'.held = page.held /\ page'.dirty = page.dirty /\ page'.super = sb'
    BY <2>1 DEF RecordInv
  <2> QED  BY <2>1, <2>2, <2>3, <2>4, <2>5
           DEF RecordInv, CallInv, HeldInv, CleanIsOnDevice, targetVars, kfs_active, Idle,
               MountSteps, UmountSteps, SlotSteps
<1>3. ASSUME MountSync
      PROVE  CoreInv' /\ disk' = disk
  <2>1. /\ call.step = "sync" /\ Goes("check") /\ UNCHANGED <<targetVars, sb, cache>>
        /\ page' = [page EXCEPT !.dirty = TRUE]
    BY <1>3 DEF MountSync, MarkDirty
  <2>2. /\ call'.op = call.op /\ call'.step = "check"
        /\ call' = [op |-> call'.op, step |-> call'.step, rc |-> call'.rc, arg |-> call'.arg]
    BY <2>1, CallGoes
  <2>3. MkfsInv' /\ DiskInv'
    BY <2>1 DEF MkfsInv, DiskInv, targetVars
  <2>4. /\ page' = [held |-> page.held, dirty |-> TRUE, super |-> page.super]
        /\ page'.held = page.held /\ page'.dirty /\ page'.super = page.super
    BY <2>1 DEF RecordInv
  <2>5. RecordInv' /\ CleanIsOnDevice'
    BY <2>1, <2>2, <2>4 DEF RecordInv, CleanIsOnDevice
  <2>6. CallInv' /\ HeldInv'
    BY <2>1, <2>2, <2>4 DEF CallInv, HeldInv, targetVars, kfs_active, Idle,
                            MountSteps, UmountSteps, SlotSteps
  <2> QED  BY <2>1, <2>3, <2>5, <2>6 DEF targetVars
<1>4. ASSUME MountCheck
      PROVE  CoreInv' /\ disk' = disk
  <2>1. /\ call.step = "check" /\ kfs_active /\ Returns(0)
        /\ UNCHANGED <<targetVars, sb, cache, page>>
    BY <1>4 DEF MountCheck, CallInv, targetVars
  <2>2. /\ call'.op = call.op /\ call'.step = "idle"
        /\ call' = [op |-> call'.op, step |-> call'.step, rc |-> call'.rc, arg |-> call'.arg]
    BY <2>1, CallReturns
  <2>3. MkfsInv' /\ DiskInv'
    BY <2>1 DEF MkfsInv, DiskInv, targetVars
  <2>4. UNCHANGED fd
    BY <1>4 DEF MountCheck, CallInv
  <2>5. RecordInv' /\ CleanIsOnDevice'
    BY <2>1, <2>2, <2>4 DEF RecordInv, CleanIsOnDevice, targetVars
  <2>6. CallInv' /\ HeldInv'
    BY <2>1, <2>2, NoSuperblock DEF CallInv, HeldInv, targetVars, kfs_active, Idle,
                                    MountSteps, UmountSteps, SlotSteps
  <2> QED  BY <2>1, <2>3, <2>5, <2>6 DEF targetVars
<1> QED  BY <1>1, <1>2, <1>3, <1>4

\* A mount that fails leaves nothing.
LEMMA MountFails ==
  ASSUME IInv, MountUndo
  PROVE  CoreInv' /\ disk' = disk /\ cache' = "none" /\ ~page'.held
<1> USE DEF IInv, CoreInv
<1>1. /\ call.step = "undo" /\ Returns(-1) /\ UNCHANGED <<file, mkfs, sb>>
      /\ page' = NoPage /\ cache' = "none" /\ disk' = disk
  BY DEF MountUndo, Undo, pgcache_destroy, CallInv
<1>2. /\ call'.op = call.op /\ call'.step = "idle"
      /\ call' = [op |-> call'.op, step |-> call'.step, rc |-> call'.rc, arg |-> call'.arg]
  BY <1>1, CallReturns
<1>3. MkfsInv' /\ DiskInv'
  BY <1>1 DEF MkfsInv, DiskInv
<1>4. NothingHeld(page') /\ sb' = NoSb
  BY <1>1, NoSuperblock DEF NothingHeld, CallInv
<1>5. RecordInv' /\ CleanIsOnDevice'
  BY <1>2, <1>4, NoSuperblock DEF RecordInv, CleanIsOnDevice, NothingHeld
<1>6. CallInv' /\ HeldInv'
  BY <1>1, <1>2, <1>4, NoSuperblock
     DEF CallInv, HeldInv, kfs_active, Idle, MountSteps, UmountSteps, SlotSteps, NothingHeld
<1> QED  BY <1>1, <1>3, <1>4, <1>5, <1>6 DEF NothingHeld

\* What a write-back of the page in its place does to the device.
LEMMA FlushedDisk ==
  ASSUME IInv, page.held, block_write(0, page.super), UNCHANGED mkfs
  PROVE  /\ MkfsInv' /\ DiskInv' /\ disk'[0] = page.super /\ disk'[0].magic = "KFS"
         /\ Places(disk'[0]) = Places(disk[0])
<1>1. 0 \in Blocks
  BY MkfsAssumption DEF Blocks
<1>2. /\ page.super.magic = "KFS" /\ disk[0].magic = "KFS" /\ IsSuper(page.super)
      /\ Places(page.super) = Places(disk[0])
  BY DEF IInv, CoreInv, HeldInv, RecordInv
<1>3. MapNumbers(page.super) /\ Fits(0)
  <2>1. page.super.slot.bitmap = disk[0].slot.bitmap
    BY <1>2 DEF Places
  <2> QED  BY <1>2, <2>1, RoomStays DEF IInv, CoreInv, DiskInv, MapNumbers
<1>4. /\ file' = [kind |-> file'.kind, size |-> file'.size] /\ file'.size \in Nat
      /\ disk' = [b \in Blocks |-> disk'[b]] /\ disk'[0] = page.super
      /\ file'.kind = file.kind /\ file.size <= file'.size /\ file.size \in Nat
  BY <1>1, <1>3, WrittenFile DEF IInv, CoreInv, MkfsInv
<1>5. file'.kind = "regular" \/ KFS_BLOCKSIZE <= file'.size
  BY <1>2, <1>4, RoomStays DEF IInv, CoreInv, DiskInv
<1>6. MkfsInv'
  BY <1>4 DEF IInv, CoreInv, MkfsInv
<1> QED  BY <1>2, <1>3, <1>4, <1>5, <1>6 DEF DiskInv

\* A write of the page that a slot call has diverted leaves the superblock on the
\* device as it was.
LEMMA DivertedDisk ==
  ASSUME IInv, NEW a \in Int \ {0}, NEW p, block_write(a, p), UNCHANGED mkfs
  PROVE  MkfsInv' /\ DiskInv' /\ disk'[0] = disk[0]
<1>1. 0 \in Blocks
  BY MkfsAssumption DEF Blocks
<1>2. /\ file' = [kind |-> file'.kind, size |-> file'.size] /\ file'.size \in Nat
      /\ disk' = [b \in Blocks |-> disk'[b]] /\ disk'[0] = disk[0]
      /\ file'.kind = file.kind /\ file.size <= file'.size /\ file.size \in Nat
  BY <1>1, WrittenFile DEF IInv, CoreInv, MkfsInv
<1>3. DiskInv'
  BY <1>2, RoomStays DEF IInv, CoreInv, DiskInv
<1> QED  BY <1>2, <1>3 DEF IInv, CoreInv, MkfsInv

\* The thread moves the descriptor, and writes the page wherever it stands then;
\* the superblock's parts stay.
LEMMA ThreadStep ==
  ASSUME IInv, ThreadFlush
  PROVE  /\ CoreInv'
         /\ disk'[0] = disk[0] \/ (disk'[0].magic = "KFS" /\ Places(disk'[0]) = Places(disk[0]))
<1> USE DEF IInv, CoreInv
<1>1. ASSUME ThreadSeek
      PROVE  CoreInv' /\ disk'[0] = disk[0]
  <2>1. UNCHANGED <<targetVars, sb, cache, page, call>> /\ fd'.diverted = fd.diverted
    BY <1>1 DEF ThreadSeek, FdInv
  <2>2. MkfsInv' /\ DiskInv'
    BY <2>1 DEF MkfsInv, DiskInv, targetVars
  <2>3. RecordInv' /\ CallInv' /\ HeldInv' /\ CleanIsOnDevice'
    BY <2>1 DEF RecordInv, CallInv, HeldInv, CleanIsOnDevice, targetVars, kfs_active, Idle
  <2> QED  BY <2>1, <2>2, <2>3 DEF targetVars
<1>2. ASSUME ThreadWrite
      PROVE  /\ CoreInv'
             /\ \/ disk'[0] = disk[0]
                \/ disk'[0].magic = "KFS" /\ Places(disk'[0]) = Places(disk[0])
  <2>1. /\ page.held /\ page.dirty /\ page' = [page EXCEPT !.dirty = FALSE]
        /\ block_write(fd.offset, page.super) /\ UNCHANGED <<mkfs, sb, cache, call>>
    BY <1>2 DEF ThreadWrite, FdInv
  <2>2. /\ page' = [held |-> page.held, dirty |-> FALSE, super |-> page.super]
        /\ page'.held = page.held /\ ~page'.dirty /\ page'.super = page.super
    BY <2>1 DEF RecordInv
  <2>3. CASE fd.offset = 0
    <3>1. /\ MkfsInv' /\ DiskInv' /\ disk'[0] = page.super /\ disk'[0].magic = "KFS"
          /\ Places(disk'[0]) = Places(disk[0])
      BY <2>1, <2>3, FlushedDisk
    <3>2. RecordInv' /\ CleanIsOnDevice'
      BY <2>1, <2>2, <3>1 DEF RecordInv, CleanIsOnDevice
    <3>3. CallInv'
      BY <2>1, <2>2, <3>1 DEF CallInv, kfs_active, MountSteps, UmountSteps, SlotSteps
    <3>4. HeldInv'
      BY <2>1, <2>2, <3>1 DEF HeldInv, Idle
    <3> QED  BY <3>1, <3>2, <3>3, <3>4
  <2>4. CASE fd.offset # 0
    <3>1. MkfsInv' /\ DiskInv' /\ disk'[0] = disk[0]
      BY <2>1, <2>4, DivertedDisk DEF FdInv
    <3>2. fd'.diverted > 0
      BY <1>2, <2>4 DEF ThreadWrite, FdInv
    <3>3. RecordInv' /\ CleanIsOnDevice'
      BY <2>1, <2>2, <3>2 DEF RecordInv, CleanIsOnDevice
    <3>4. CallInv'
      BY <2>1, <2>2, <3>1 DEF CallInv, kfs_active, MountSteps, UmountSteps, SlotSteps
    <3>5. HeldInv'
      BY <2>1, <2>2, <3>1 DEF HeldInv, Idle
    <3> QED  BY <3>1, <3>3, <3>4, <3>5
  <2> QED  BY <2>3, <2>4
<1> QED  BY <1>1, <1>2 DEF ThreadFlush

\* kfs_umount() writes the superblock back in its place, if its page is dirty.
LEMMA UmountStep ==
  ASSUME IInv, Umount
  PROVE  /\ CoreInv'
         /\ disk' = disk \/ (disk'[0].magic = "KFS" /\ Places(disk'[0]) = Places(disk[0]))
<1> USE DEF IInv, CoreInv
<1>1. ASSUME UmountStart
      PROVE  CoreInv' /\ disk' = disk
  <2>1. /\ call.step = "idle" /\ UNCHANGED <<targetVars, sb, cache, page>>
        /\ call' = [op |-> "umount", step |-> IF sb.magic = "KFS" THEN "flags" ELSE "idle",
                    rc |-> IF kfs_active THEN 0 ELSE -1, arg |-> 0]
    BY <1>1 DEF UmountStart, Idle
  <2>2. /\ call'.op = "umount"
        /\ call'.step = "idle" \/ (call'.step = "flags" /\ sb.magic = "KFS")
        /\ call' = [op |-> call'.op, step |-> call'.step, rc |-> call'.rc, arg |-> call'.arg]
    BY <2>1
  <2>3. MkfsInv' /\ DiskInv'
    BY <2>1 DEF MkfsInv, DiskInv, targetVars
  <2>4. RecordInv' /\ CleanIsOnDevice'
    <3>1. UNCHANGED fd
      BY <1>1 DEF UmountStart
    <3> QED  BY <2>1, <2>2, <3>1 DEF RecordInv, CleanIsOnDevice, targetVars
  <2>5. CallInv' /\ HeldInv'
    BY <2>1, <2>2, NoSuperblock DEF CallInv, HeldInv, targetVars, kfs_active, Idle,
                                    MountSteps, UmountSteps, SlotSteps
  <2> QED  BY <2>1, <2>3, <2>4, <2>5 DEF targetVars
<1>2. ASSUME UmountFlags
      PROVE  CoreInv' /\ disk' = disk
  <2>1. /\ call.step = "flags" /\ Goes("tables") /\ UNCHANGED <<targetVars, cache>>
        /\ sb' = [sb EXCEPT !.mounted = FALSE]
        /\ page' = [page EXCEPT !.super.mounted = FALSE]
    BY <1>2 DEF UmountFlags
  <2>2. /\ call'.op = call.op /\ call'.step = "tables"
        /\ call' = [op |-> call'.op, step |-> call'.step, rc |-> call'.rc, arg |-> call'.arg]
    BY <2>1, CallGoes
  <2>3. MkfsInv' /\ DiskInv' /\ sb.magic = "KFS" /\ page.held
    BY <2>1 DEF MkfsInv, DiskInv, targetVars, CallInv, HeldInv, UmountSteps
  <2>4. IsSuper(sb') /\ sb'.magic = sb.magic /\ Places(sb') = Places(sb)
    BY <2>1 DEF RecordInv, IsSuper, IsTable, Places
  <2>5. /\ page' = [held |-> page.held, dirty |-> page.dirty, super |-> page'.super]
        /\ page'.held = page.held /\ page'.dirty = page.dirty
        /\ page'.super = [page.super EXCEPT !.mounted = FALSE]
    BY <2>1 DEF RecordInv
  <2>6. /\ IsSuper(page'.super) /\ page'.super.magic = page.super.magic
        /\ Places(page'.super) = Places(page.super)
    BY <2>5 DEF RecordInv, IsSuper, IsTable, Places
  <2>7. RecordInv' /\ CleanIsOnDevice'
    BY <2>2, <2>4, <2>5, <2>6 DEF RecordInv, CleanIsOnDevice
  <2>8. CallInv' /\ HeldInv'
    BY <2>1, <2>2, <2>3, <2>4, <2>5, <2>6
       DEF CallInv, HeldInv, targetVars, kfs_active, Idle, MountSteps, UmountSteps, SlotSteps
  <2> QED  BY <2>1, <2>3, <2>7, <2>8 DEF targetVars
<1>3. ASSUME UmountTables
      PROVE  CoreInv' /\ disk' = disk
  <2>1. /\ call.step = "tables" /\ Goes("destroy") /\ UNCHANGED <<targetVars, sb, cache>>
        /\ page' = [page EXCEPT !.super.si = sb.si, !.super.slot = sb.slot, !.super.map = sb.map]
    BY <1>3 DEF UmountTables, WithTables
  <2>2. /\ call'.op = call.op /\ call'.step = "destroy"
        /\ call' = [op |-> call'.op, step |-> call'.step, rc |-> call'.rc, arg |-> call'.arg]
    BY <2>1, CallGoes
  <2>3. MkfsInv' /\ DiskInv' /\ sb.magic = "KFS" /\ page.held
    BY <2>1 DEF MkfsInv, DiskInv, targetVars, CallInv, HeldInv, UmountSteps
  <2>4. /\ page' = [held |-> page.held, dirty |-> page.dirty, super |-> page'.super]
        /\ page'.held = page.held /\ page'.dirty = page.dirty
        /\ page'.super = [page.super EXCEPT !.si = sb.si, !.slot = sb.slot, !.map = sb.map]
    BY <2>1 DEF RecordInv
  <2>5. /\ page'.super = [magic |-> page.super.magic, last |-> page.super.last,
                          mounted |-> page.super.mounted,
                          si |-> sb.si, slot |-> sb.slot, map |-> sb.map]
    BY <2>4 DEF RecordInv, IsSuper
  <2>6. /\ IsSuper(page'.super) /\ page'.super.magic = page.super.magic
        /\ Places(page'.super) = Places(sb)
    BY <2>5 DEF RecordInv, IsSuper, Places
  <2>7. RecordInv' /\ CleanIsOnDevice'
    BY <2>1, <2>2, <2>4, <2>6 DEF RecordInv, CleanIsOnDevice
  <2>8. CallInv' /\ HeldInv'
    BY <2>1, <2>2, <2>3, <2>4, <2>6
       DEF CallInv, HeldInv, targetVars, kfs_active, Idle, MountSteps, UmountSteps, SlotSteps
  <2> QED  BY <2>1, <2>3, <2>7, <2>8 DEF targetVars
<1>4. ASSUME UmountDestroy
      PROVE  /\ CoreInv'
             /\ disk' = disk \/ (disk'[0].magic = "KFS" /\ Places(disk'[0]) = Places(disk[0]))
  <2>1. /\ call.step = "destroy" /\ Returns(call.rc) /\ UNCHANGED mkfs
        /\ IF page.held /\ page.dirty THEN block_write(0, page.super)
                                      ELSE UNCHANGED <<file, disk>>
        /\ page' = NoPage /\ cache' = "none" /\ sb' = NoSb
    BY <1>4 DEF UmountDestroy, pgcache_destroy
  <2>2. /\ call'.op = call.op /\ call'.step = "idle"
        /\ call' = [op |-> call'.op, step |-> call'.step, rc |-> call'.rc, arg |-> call'.arg]
    BY <2>1, CallReturns
  <2>3. /\ MkfsInv' /\ DiskInv'
        /\ \/ disk' = disk
           \/ disk'[0].magic = "KFS" /\ Places(disk'[0]) = Places(disk[0])
    BY <2>1, FlushedDisk DEF MkfsInv, DiskInv
  <2>4. NothingHeld(page')
    BY <2>1, NoSuperblock DEF NothingHeld
  <2>5. RecordInv' /\ CleanIsOnDevice'
    BY <2>1, <2>2, <2>4, NoSuperblock DEF RecordInv, CleanIsOnDevice, NothingHeld
  <2>6. CallInv' /\ HeldInv'
    BY <2>1, <2>2, <2>4, NoSuperblock
       DEF CallInv, HeldInv, kfs_active, Idle, MountSteps, UmountSteps, SlotSteps, NothingHeld
  <2> QED  BY <2>3, <2>5, <2>6
<1> QED  BY <1>1, <1>2, <1>3, <1>4 DEF Umount

\* The memory of the process is gone; the device is as it was.
LEMMA ProcessStep ==
  ASSUME IInv, ProcessEnds
  PROVE  CoreInv' /\ disk' = disk /\ call'.op = "none"
<1>1. /\ sb' = NoSb /\ cache' = "none" /\ page' = NoPage /\ call' = NoCall
      /\ UNCHANGED targetVars
  BY DEF ProcessEnds
<1>2. MkfsInv' /\ DiskInv'
  BY <1>1 DEF IInv, CoreInv, MkfsInv, DiskInv, targetVars
<1>3. NothingHeld(page')
  BY <1>1, NoSuperblock DEF NothingHeld
<1>4. /\ call'.op = "none" /\ call'.step = "idle"
      /\ call' = [op |-> call'.op, step |-> call'.step, rc |-> call'.rc, arg |-> call'.arg]
  BY <1>1 DEF NoCall
<1>5. RecordInv' /\ CleanIsOnDevice'
  BY <1>1, <1>3, <1>4, NoSuperblock DEF RecordInv, CleanIsOnDevice, NothingHeld
<1>6. CallInv' /\ HeldInv'
  BY <1>1, <1>3, <1>4, NoSuperblock
     DEF CallInv, HeldInv, kfs_active, Idle, MountSteps, UmountSteps, SlotSteps, NothingHeld
<1> QED  BY <1>1, <1>2, <1>4, <1>5, <1>6 DEF IInv, CoreInv, targetVars

-----------------------------------------------------------------------------
(* The slots.                                                                *)

\* A call about slots moves the descriptor, and nothing else.
LEMMA SlotStep ==
  ASSUME IInv, SlotNext
  PROVE  CoreInv' /\ UNCHANGED <<targetVars, sb, cache, page>> /\ call'.op # "mount"
<1> USE DEF IInv, CoreInv
<1>1. /\ UNCHANGED <<targetVars, sb, cache, page>> /\ fd'.diverted = fd.diverted
      /\ call.step \in {"idle", "seek", "read"}
  BY DEF SlotNext, kfs_slot_reserve, kfs_slot_remove, SlotCall, SlotSeek, SlotRead, FdInv, Idle
<1>2. MkfsInv' /\ DiskInv'
  BY <1>1 DEF MkfsInv, DiskInv, targetVars
<1>3. /\ call'.op # "mount" /\ call'.step \in {"idle", "seek", "read"}
      /\ call'.step \in {"seek", "read"} => sb.magic = "KFS"
      /\ call' = [op |-> call'.op, step |-> call'.step, rc |-> call'.rc, arg |-> call'.arg]
  <2>1. ASSUME NEW passes, SlotCall(passes)
        PROVE  /\ call'.op # "mount" /\ call'.step \in {"idle", "seek"}
               /\ call'.step = "seek" => sb.magic = "KFS"
               /\ call' = [op |-> call'.op, step |-> call'.step, rc |-> call'.rc,
                           arg |-> call'.arg]
    BY <2>1 DEF SlotCall, kfs_active
  <2>2. CASE SlotSeek \/ SlotRead
    <3>1. call.step \in SlotSteps /\ (Goes("read") \/ Returns(-1))
      BY <2>2 DEF SlotSeek, SlotRead, SlotSteps
    <3>2. call.op # "mount" /\ sb.magic = "KFS"
      BY <3>1 DEF CallInv, SlotSteps, MountSteps
    <3> QED  BY <3>1, <3>2, CallGoes, CallReturns
  <2> QED  BY <2>1, <2>2 DEF SlotNext, kfs_slot_reserve, kfs_slot_remove
<1>4. RecordInv' /\ CallInv' /\ HeldInv' /\ CleanIsOnDevice'
  BY <1>1, <1>3, NoSuperblock
     DEF RecordInv, CallInv, HeldInv, CleanIsOnDevice, targetVars, kfs_active, Idle,
         MountSteps, UmountSteps, SlotSteps
<1> QED  BY <1>1, <1>2, <1>3, <1>4

-----------------------------------------------------------------------------
(* The descriptor.                                                           *)

\* Where a read ends is a place.
LEMMA ReadsOn ==
  ASSUME MkfsInv, fd.offset \in Int, NEW blocks \in Int
  PROVE  ReadOn(blocks) \in Int
<1>1. Ceil(file.size, KFS_BLOCKSIZE) \in Int
  BY LayoutAssumption, RoundedBelow DEF MkfsInv
<1>2. Lower(fd.offset + blocks, Ceil(file.size, KFS_BLOCKSIZE)) \in Int
  BY <1>1, LowerIs
<1> QED  BY <1>2 DEF ReadOn

\* A descriptor that is moved.
LEMMA MovedIs ==
  ASSUME FdInv, NEW n
  PROVE  /\ fd' = [fd EXCEPT !.offset = n] =>
              fd' = [offset |-> n, flushing |-> fd.flushing, diverted |-> fd.diverted]
         /\ fd' = [fd EXCEPT !.offset = n, !.flushing = TRUE] =>
              fd' = [offset |-> n, flushing |-> TRUE, diverted |-> fd.diverted]
BY DEF FdInv

\* The thread is between its two calls only while there is a dirty page, and
\* nobody takes that page away.
LEMMA FdStep ==
  ASSUME IInv, [Next]_vars
  PROVE  FdInv'
<1> USE DEF IInv, CoreInv
<1>1. CASE Make
  <2>1. ~fd.flushing /\ (fd' = NoFd \/ fd' = fd)
    BY <1>1, NoSuperblock DEF Make, Free, FdInv, HeldInv, Idle
  <2>2. UNCHANGED <<page, cache>>
    BY <1>1 DEF Make
  <2>3. CASE fd' = NoFd
    BY <2>3 DEF FdInv, NoFd
  <2>4. CASE fd' = fd
    BY <2>2, <2>4 DEF FdInv
  <2> QED  BY <2>1, <2>3, <2>4
<1>2. CASE Mount
  <2>1. CASE \E lines \in Configs : MountStart(lines)
    BY <2>1 DEF MountStart, FdInv
  <2>2. CASE MountOpen \/ MountAlloc \/ MountEnable
    <3>1. ~page.held /\ UNCHANGED <<page, fd>>
      BY <2>2 DEF MountOpen, MountAlloc, MountEnable, CallInv
    <3> QED  BY <3>1 DEF FdInv
  <2>3. CASE MountMap
    <3>1. ~fd.flushing /\ (fd' = [fd EXCEPT !.offset = 1] \/ fd' = fd)
      BY <2>3 DEF MountMap, CallInv, FdInv
    <3>2. CASE fd' = fd
      BY <2>3, <3>1, <3>2 DEF FdInv
    <3>3. CASE fd' = [fd EXCEPT !.offset = 1]
      <4>1. fd' = [offset |-> 1, flushing |-> fd.flushing, diverted |-> fd.diverted]
        BY <3>3, MovedIs
      <4> QED  BY <3>1, <4>1 DEF FdInv
    <3> QED  BY <3>1, <3>2, <3>3
  <2>4. CASE MountFill \/ MountSync
    <3>1. /\ UNCHANGED <<cache, fd>> /\ page'.held = page.held
          /\ page.dirty => page'.dirty
      BY <2>4 DEF MountFill, MountSync, MarkDirty, RecordInv
    <3> QED  BY <3>1 DEF FdInv
  <2>5. CASE MountCheck
    BY <2>5 DEF MountCheck, CallInv, FdInv
  <2>6. CASE MountUndo
    <3>1. fd' = Closed(fd)
      BY <2>6 DEF MountUndo, Undo, pgcache_destroy
    <3> QED  BY <3>1 DEF FdInv, Closed
  <2> QED  BY <1>2, <2>1, <2>2, <2>3, <2>4, <2>5, <2>6 DEF Mount
<1>3. CASE Umount
  <2>1. CASE UmountStart \/ UmountFlags \/ UmountTables
    <3>1. /\ UNCHANGED <<cache, fd>> /\ page'.held = page.held
          /\ page'.dirty = page.dirty
      BY <2>1 DEF UmountStart, UmountFlags, UmountTables, WithTables, RecordInv
    <3> QED  BY <3>1 DEF FdInv
  <2>2. CASE UmountDestroy
    <3>1. fd' = Closed(fd)
      BY <2>2 DEF UmountDestroy, pgcache_destroy
    <3> QED  BY <3>1 DEF FdInv, Closed
  <2> QED  BY <1>3, <2>1, <2>2 DEF Umount
<1>4. CASE ThreadSeek
  <2>1. /\ cache = "active" /\ page.held /\ page.dirty /\ UNCHANGED <<cache, page>>
        /\ fd' = [fd EXCEPT !.offset = 0, !.flushing = TRUE]
    BY <1>4 DEF ThreadSeek
  <2>2. fd' = [offset |-> 0, flushing |-> TRUE, diverted |-> fd.diverted]
    BY <2>1, MovedIs
  <2>3. page'.held /\ page'.dirty /\ cache' = "active"
    BY <2>1
  <2> QED  BY <2>2, <2>3 DEF FdInv
<1>5. CASE ThreadWrite
  <2> DEFINE d == fd.diverted + (IF fd.offset = 0 THEN 0 ELSE 1)
  <2>1. fd' = [offset |-> fd.offset + 1, flushing |-> FALSE, diverted |-> d]
    BY <1>5 DEF ThreadWrite
  <2>2. fd.offset + 1 \in Int /\ d \in Nat
    BY DEF FdInv
  <2> HIDE DEF d
  <2> QED  BY <2>1, <2>2 DEF FdInv
<1>6. CASE ProcessEnds
  <2>1. fd' = Closed(fd)
    BY <1>6 DEF ProcessEnds
  <2> QED  BY <2>1 DEF FdInv, Closed
<1>7. CASE SlotNext
  <2>1. fd' = fd \/ \E n \in Int : fd' = [fd EXCEPT !.offset = n]
    <3>1. CASE SlotSeek \/ SlotRead
      <4>1. call.step \in SlotSteps
        BY <3>1 DEF SlotSeek, SlotRead, SlotSteps
      <4>2. /\ disk[0].magic = "KFS" /\ Places(sb) = Places(disk[0])
        BY <4>1 DEF CallInv, HeldInv
      <4>3. sb.slot.bitmap = disk[0].slot.bitmap /\ MapNumbers(disk[0])
        BY <4>2 DEF Places, DiskInv
      <4>4. sb.slot.bitmap.addr \in Int /\ ReadOn(sb.slot.bitmap.blocks) \in Int
        BY <4>3, ReadsOn DEF MapNumbers, FdInv
      <4> QED  BY <3>1, <4>4 DEF SlotSeek, SlotRead
    <3>2. CASE \E passes : SlotCall(passes)
      BY <3>2 DEF SlotCall
    <3> QED  BY <1>7, <3>1, <3>2 DEF SlotNext, kfs_slot_reserve, kfs_slot_remove
  <2>2. UNCHANGED <<cache, page>>
    BY <1>7, SlotStep
  <2>3. ASSUME NEW n \in Int, fd' = [fd EXCEPT !.offset = n]
        PROVE  FdInv'
    <3>1. fd' = [offset |-> n, flushing |-> fd.flushing, diverted |-> fd.diverted]
      BY <2>3, MovedIs
    <3> QED  BY <2>2, <3>1 DEF FdInv
  <2>4. CASE fd' = fd
    BY <2>2, <2>4 DEF FdInv
  <2> QED  BY <2>1, <2>3, <2>4
<1>8. CASE UNCHANGED vars
  BY <1>8 DEF vars, FdInv
<1> QED  BY <1>1, <1>2, <1>3, <1>4, <1>5, <1>6, <1>7, <1>8 DEF Next, SuperNext, ThreadFlush

-----------------------------------------------------------------------------
(* The theorems.                                                             *)

\* Every step keeps the invariant.
LEMMA IInvStep == IInv /\ [Next]_vars => IInv'
<1> SUFFICES ASSUME IInv, [Next]_vars PROVE CoreInv'
  BY FdStep DEF IInv, CoreInv
<1>1. CASE Make
  BY <1>1, MkfsStep
<1>2. CASE SuperNext
  <2>1. CASE Mount
    BY <2>1, MountBegins, MountGoesOn, MountFails DEF Mount
  <2>2. CASE Umount
    BY <2>2, UmountStep
  <2>3. CASE ThreadFlush
    BY <2>3, ThreadStep
  <2>4. CASE ProcessEnds
    BY <2>4, ProcessStep
  <2> QED  BY <1>2, <2>1, <2>2, <2>3, <2>4 DEF SuperNext
<1>3. CASE SlotNext
  BY <1>3, SlotStep
<1>4. CASE UNCHANGED vars
  BY <1>4 DEF vars, IInv, CoreInv, MkfsInv, DiskInv, RecordInv, CallInv, HeldInv, CleanIsOnDevice,
              kfs_active, Idle
<1> QED  BY <1>1, <1>2, <1>3, <1>4 DEF Next

\* Types and places of the superblocks, what a call has done, and what is on the
\* device, at any moment of any life of a file system.
THEOREM VolumeInvariant == Spec => []IInv
<1>1. Init => IInv
  BY InitHolds
<1> QED  BY <1>1, IInvStep, PTL DEF Spec

\* What the thread has written back in its place is what the page of the superblock
\* holds; it is clean without that only where a slot call has diverted the write.
THEOREM CleanCorrect == Spec => []CleanIsOnDevice
<1>1. IInv => CleanIsOnDevice
  BY DEF IInv, CoreInv
<1> QED  BY <1>1, VolumeInvariant, PTL

\* Whatever command line kfs_mkfs has accepted, if it is one that asks for a
\* complete file system the parts are where they may be.
THEOREM LayoutCorrect == Spec => []LayoutSound
<1>1. IInv => LayoutSound
  <2> SUFFICES ASSUME IInv, Plain(mkfs.opts) PROVE Sound(mkfs.bc)
    BY DEF LayoutSound
  <2>1. mkfs.bc = compute_values(mkfs.opts) /\ mkfs.opts.size \in Nat
    BY DEF IInv, CoreInv, MkfsInv, IsOptions
  <2> QED  BY <2>1, PlainIsSound
<1> QED  BY <1>1, VolumeInvariant, PTL

\* From one write of kfs_mkfs to the next, no step of any process moves a part of
\* the file system, nor takes the superblock out of block 0, wherever a diverted
\* flush puts another.
THEOREM LayoutStays == Spec => LayoutKept
<1> DEFINE Kept == mkfs.phase # "building" /\ disk[0].magic = "KFS" =>
                     disk'[0].magic = "KFS" /\ Places(disk'[0]) = Places(disk[0])
<1>1. IInv /\ [Next]_vars => [Kept]_vars
  <2> SUFFICES ASSUME IInv, Next, mkfs.phase # "building", disk[0].magic = "KFS"
               PROVE  disk'[0].magic = "KFS" /\ Places(disk'[0]) = Places(disk[0])
    BY DEF vars
  <2>1. CASE Make
    BY <2>1 DEF Make, MkfsNext, MkfsStart, MkfsWrite, MkfsKilled
  <2>2. CASE SuperNext
    <3>1. CASE \/ \E lines \in Configs : MountStart(lines)
               \/ MountOpen \/ MountAlloc \/ MountEnable
      BY <3>1 DEF MountStart, MountOpen, MountAlloc, MountEnable, targetVars
    <3>2. CASE MountMap \/ MountFill \/ MountSync \/ MountCheck
      BY <3>2, MountGoesOn
    <3>3. CASE MountUndo
      BY <3>3, MountFails
    <3>4. CASE Umount
      BY <3>4, UmountStep
    <3>5. CASE ThreadFlush
      BY <3>5, ThreadStep
    <3>6. CASE ProcessEnds
      BY <3>6, ProcessStep
    <3> QED  BY <2>2, <3>1, <3>2, <3>3, <3>4, <3>5, <3>6 DEF SuperNext, Mount
  <2>3. CASE SlotNext
    BY <2>3, SlotStep DEF targetVars
  <2> QED  BY <2>1, <2>2, <2>3 DEF Next
<1> QED  BY <1>1, VolumeInvariant, PTL DEF Spec, LayoutKept

\* kfs_mount() answers 0 exactly if the file system is active, and otherwise leaves
\* no cache and no trace on the device, whichever of its steps fails.
THEOREM MountCorrect == Spec => MountAnswers
<1> DEFINE Answers ==
      call.op = "mount" /\ call.step # "idle" /\ call'.step = "idle" /\ call'.op = "mount" =>
        IF call'.rc = 0 THEN kfs_active'
        ELSE cache' = "none" /\ ~page'.held /\ disk' = disk
<1>1. IInv /\ [Next]_vars => [Answers]_vars
  <2> SUFFICES ASSUME IInv, Next, call.op = "mount", call.step # "idle",
                      call'.step = "idle", call'.op = "mount"
               PROVE  IF call'.rc = 0 THEN kfs_active'
                      ELSE cache' = "none" /\ ~page'.held /\ disk' = disk
    BY DEF vars
  <2> USE DEF IInv, CoreInv
  <2>1. CASE Make
    BY <2>1 DEF Make, Free, Idle
  <2>2. CASE SuperNext
    <3>1. ASSUME NEW lines \in Configs, MountStart(lines)
          PROVE  FALSE
      BY <3>1 DEF MountStart, Idle
    <3>2. CASE MountOpen
      <4>1. call'.step = "alloc" \/ call'.rc = -1
        BY <3>2, CallGoes, CallReturns DEF MountOpen
      <4> QED  BY <3>2, <4>1 DEF MountOpen, CallInv, targetVars
    <3>3. CASE MountAlloc
      <4>1. call'.step = "enable" \/ (call'.rc = -1 /\ cache' = cache)
        BY <3>3, CallGoes, CallReturns DEF MountAlloc
      <4> QED  BY <3>3, <4>1 DEF MountAlloc, CallInv, targetVars
    <3>4. CASE MountEnable \/ MountMap \/ MountFill \/ MountSync
      <4>1. call'.step \in {"map", "undo", "fill", "sync", "check"}
        BY <3>4, CallGoes DEF MountEnable, MountMap, MountFill, MountSync
      <4> QED  BY <4>1
    <3>5. CASE MountCheck
      <4>1. call'.rc = 0 /\ kfs_active /\ UNCHANGED <<sb, cache>>
        BY <3>5, CallReturns DEF MountCheck, CallInv
      <4> QED  BY <4>1 DEF kfs_active
    <3>6. CASE MountUndo
      <4>1. call'.rc = -1
        BY <3>6, CallReturns DEF MountUndo, Undo
      <4> QED  BY <3>6, <4>1, MountFails
    <3>7. CASE Umount
      BY <3>7 DEF Umount, UmountStart, UmountFlags, UmountTables, UmountDestroy, Idle,
                  CallInv, MountSteps
    <3>8. CASE ThreadFlush
      BY <3>8 DEF ThreadFlush, ThreadSeek, ThreadWrite
    <3>9. CASE ProcessEnds
      BY <3>9, ProcessStep
    <3> QED  BY <2>2, <3>1, <3>2, <3>3, <3>4, <3>5, <3>6, <3>7, <3>8, <3>9
             DEF SuperNext, Mount
  <2>3. CASE SlotNext
    BY <2>3, SlotStep
  <2> QED  BY <2>1, <2>2, <2>3 DEF Next
<1> QED  BY <1>1, VolumeInvariant, PTL DEF Spec, MountAnswers

-----------------------------------------------------------------------------
(* The writes of a run, one by one.                                          *)

\* How many blocks of part i are written, and what the j-th of them is.
Count(bc, i) ==
  IF i \in {1, 2} /\ Parts(bc)[i].blocks = 0 THEN 1 ELSE Parts(bc)[i].blocks

TableSheet(magic, later, in_use, first_id, per_block, j) ==
  IF j = 1 THEN Page(magic, in_use, first_id, {}) ELSE Page(later, 0, j * per_block - 1, {})
MapSheet(magic, in_use, bits, j) ==
  Page(IF j = 1 THEN magic ELSE "none", IF j = 1 THEN in_use ELSE 0, 0, BitsIn(j, bits))

Sheet(bc, i, j) ==
  CASE i = 1 -> TableSheet("sinode_table", "sinodes", 1, FirstSinodeId, sinodes_per_block, j)
    [] i = 2 -> TableSheet("slot_table", "slots", 0, FirstSlotId, slots_per_block, j)
    [] i = 3 -> MapSheet("sinode_map", 1, {0}, j)
    [] i = 4 -> MapSheet("slot_map", 0, {}, j)
    [] i = 5 -> MapSheet("block_map", BlocksInUse(bc), BlockMap(bc), j)

Piece(bc, i) ==
  [j \in 1 .. Count(bc, i) |-> At(Parts(bc)[i].addr + j - 1, Sheet(bc, i, j))]

\* How many writes come before part i, the first of them the superblock's.
Before(bc, i) ==
  CASE i = 1 -> 1
    [] i = 2 -> 1 + Count(bc, 1) + Count(bc, 3)
    [] i = 3 -> 1 + Count(bc, 1)
    [] i = 4 -> 1 + Count(bc, 1) + Count(bc, 3) + Count(bc, 2)
    [] i = 5 -> 1 + Count(bc, 1) + Count(bc, 3) + Count(bc, 2) + Count(bc, 4)

\* The parts of a file system have addresses and numbers of blocks.
LEMMA PartNumbers ==
  ASSUME NEW bc, IsCalc(bc)
  PROVE  /\ \A i \in 1 .. 5 : i = 1 \/ i = 2 \/ i = 3 \/ i = 4 \/ i = 5
         /\ \A i \in 1 .. 5 : Parts(bc)[i].blocks \in Nat /\ Parts(bc)[i].addr \in Int
         /\ \A i \in 1 .. 5 : Count(bc, i) \in Nat /\ Before(bc, i) \in Nat \ {0}
         /\ Parts(bc)[5].blocks = bc.bitmap /\ Count(bc, 5) = bc.bitmap
<1>1. \A i \in 1 .. 5 : i = 1 \/ i = 2 \/ i = 3 \/ i = 4 \/ i = 5
  OBVIOUS
<1>2. /\ fs_map_block(bc) \in Int /\ slot_map_block(bc) \in Int
      /\ sinode_map_block(bc) \in Int
  BY DEF fs_map_block, slot_map_block, sinode_map_block, IsCalc
<1>3. \A i \in 1 .. 5 : Parts(bc)[i].blocks \in Nat /\ Parts(bc)[i].addr \in Int
  BY <1>1, <1>2 DEF Parts, Extent, IsCalc
<1>4. \A i \in 1 .. 5 : Count(bc, i) \in Nat
  BY <1>3 DEF Count
<1>5. \A i \in 1 .. 5 : Before(bc, i) \in Nat \ {0}
  <2> DEFINE n(i) == Count(bc, i)
  <2>1. n(1) \in Nat /\ n(2) \in Nat /\ n(3) \in Nat /\ n(4) \in Nat
    BY <1>4
  <2> HIDE DEF n
  <2>2. \A i \in 1 .. 5 :
          Before(bc, i) = CASE i = 1 -> 1 [] i = 2 -> 1 + n(1) + n(3) [] i = 3 -> 1 + n(1)
                            [] i = 4 -> 1 + n(1) + n(3) + n(2)
                            [] i = 5 -> 1 + n(1) + n(3) + n(2) + n(4)
    BY DEF Before, n
  <2> QED  BY <1>1, <2>1, <2>2
<1>6. Parts(bc)[5].blocks = bc.bitmap /\ Count(bc, 5) = bc.bitmap
  BY DEF Parts, Extent, Count
<1> QED  BY <1>1, <1>3, <1>4, <1>5, <1>6

\* The functions that write a part write its sheets.
LEMMA PiecesAre ==
  ASSUME NEW bc
  PROVE  Build(bc) = ((<<At(0, build_superblock(bc))>> \o (Piece(bc, 1) \o Piece(bc, 3)))
                      \o (Piece(bc, 2) \o Piece(bc, 4))) \o Piece(bc, 5)
<1>1. \A i \in {3, 4, 5} : Count(bc, i) = Parts(bc)[i].blocks
  BY DEF Count
<1>2. \A i \in {1, 2} : Count(bc, i) = IF Parts(bc)[i].blocks = 0 THEN 1 ELSE Parts(bc)[i].blocks
  BY DEF Count
<1>3. \A magic, later, extent, in_use, id, per_block :
        TableWrites(magic, later, extent, in_use, id, per_block) =
          [j \in 1 .. (IF extent.blocks = 0 THEN 1 ELSE extent.blocks) |->
             At(extent.addr + j - 1, TableSheet(magic, later, in_use, id, per_block, j))]
  BY DEF TableWrites, TableSheet
<1>4. \A magic, extent, in_use, bits :
        MapWrites(magic, extent, in_use, bits) =
          [j \in 1 .. extent.blocks |-> At(extent.addr + j - 1, MapSheet(magic, in_use, bits, j))]
  BY DEF MapWrites, MapSheet
<1>5. /\ Piece(bc, 1) = TableWrites("sinode_table", "sinodes", Parts(bc)[1], 1, FirstSinodeId,
                                    sinodes_per_block)
      /\ Piece(bc, 2) = TableWrites("slot_table", "slots", Parts(bc)[2], 0, FirstSlotId,
                                    slots_per_block)
  <2>1. \A j : /\ Sheet(bc, 1, j) = TableSheet("sinode_table", "sinodes", 1, FirstSinodeId,
                                              sinodes_per_block, j)
               /\ Sheet(bc, 2, j) = TableSheet("slot_table", "slots", 0, FirstSlotId,
                                              slots_per_block, j)
    BY DEF Sheet
  <2> QED  BY <1>2, <1>3, <2>1 DEF Piece
<1>6. /\ Piece(bc, 3) = MapWrites("sinode_map", Parts(bc)[3], 1, {0})
      /\ Piece(bc, 4) = MapWrites("slot_map", Parts(bc)[4], 0, {})
      /\ Piece(bc, 5) = MapWrites("block_map", Parts(bc)[5], BlocksInUse(bc), BlockMap(bc))
  <2>1. \A j : /\ Sheet(bc, 3, j) = MapSheet("sinode_map", 1, {0}, j)
               /\ Sheet(bc, 4, j) = MapSheet("slot_map", 0, {}, j)
               /\ Sheet(bc, 5, j) = MapSheet("block_map", BlocksInUse(bc), BlockMap(bc), j)
    BY DEF Sheet
  <2> QED  BY <1>1, <1>4, <2>1 DEF Piece
<1> QED  BY <1>5, <1>6 DEF Build, build_sinodes, build_slots, write_map

\* Two sequences, one behind the other.
Joins(u, s, t) ==
  /\ Len(s) \in Nat /\ Len(t) \in Nat /\ Len(u) = Len(s) + Len(t)
  /\ \A k \in 1 .. Len(s) : u[k] = s[k]
  /\ \A k \in 1 .. Len(t) : u[Len(s) + k] = t[k]

\* The sequence of two others is one behind the other.
LEMMA Joined ==
  ASSUME NEW W, NEW s \in Seq(W), NEW t \in Seq(W)
  PROVE  s \o t \in Seq(W) /\ Joins(s \o t, s, t)
<1>1. Len(s) \in Nat /\ Len(t) \in Nat
  BY LenProperties
<1>2. /\ s \o t \in Seq(W) /\ Len(s \o t) = Len(s) + Len(t)
      /\ \A i \in 1 .. Len(s) + Len(t) :
           (s \o t)[i] = IF i <= Len(s) THEN s[i] ELSE t[i - Len(s)]
  BY ConcatProperties
<1> DEFINE m == Len(s)
           n == Len(t)
           u == s \o t
<1>3. m \in Nat /\ n \in Nat /\ \A i \in 1 .. m + n : u[i] = IF i <= m THEN s[i] ELSE t[i - m]
  BY <1>1, <1>2
<1> HIDE DEF m, n, u
<1>4. \A k \in 1 .. m : u[k] = s[k]
  BY <1>3
<1>5. ASSUME NEW k \in 1 .. n PROVE u[m + k] = t[k]
  <2>1. m + k \in 1 .. m + n /\ ~(m + k <= m) /\ (m + k) - m = k
    BY <1>3
  <2> QED  BY <1>3, <2>1
<1> QED  BY <1>1, <1>2, <1>4, <1>5 DEF m, n, u, Joins

\* A sequence of one element and five pieces, joined as kfs_mkfs writes them.
JoinsPieces(b, h, p1, p3, p2, p4, p5) ==
  /\ Len(b) = 1 + Len(p1) + Len(p3) + Len(p2) + Len(p4) + Len(p5)
  /\ b[1] = h
  /\ \A j \in 1 .. Len(p1) : b[1 + j] = p1[j]
  /\ \A j \in 1 .. Len(p3) : b[1 + Len(p1) + j] = p3[j]
  /\ \A j \in 1 .. Len(p2) : b[1 + Len(p1) + Len(p3) + j] = p2[j]
  /\ \A j \in 1 .. Len(p4) : b[1 + Len(p1) + Len(p3) + Len(p2) + j] = p4[j]
  /\ \A j \in 1 .. Len(p5) : b[1 + Len(p1) + Len(p3) + Len(p2) + Len(p4) + j] = p5[j]

\* Every piece is found behind the ones before it.
LEMMA JoinedPieces ==
  ASSUME NEW W, NEW h \in W,
         NEW p1 \in Seq(W), NEW p2 \in Seq(W), NEW p3 \in Seq(W), NEW p4 \in Seq(W),
         NEW p5 \in Seq(W)
  PROVE  JoinsPieces(((<<h>> \o (p1 \o p3)) \o (p2 \o p4)) \o p5, h, p1, p3, p2, p4, p5)
<1> DEFINE s0 == <<h>>
           s1 == p1 \o p3
           s2 == s0 \o s1
           s3 == p2 \o p4
           s4 == s2 \o s3
           b  == s4 \o p5
<1>1. s0 \in Seq(W) /\ Len(s0) = 1 /\ s0[1] = h
  OBVIOUS
<1>2. s1 \in Seq(W) /\ Joins(s1, p1, p3)
  BY Joined
<1>3. s3 \in Seq(W) /\ Joins(s3, p2, p4)
  BY Joined
<1> HIDE DEF s0, s1, s3
<1>4. s2 \in Seq(W) /\ Joins(s2, s0, s1)
  BY <1>1, <1>2, Joined
<1> HIDE DEF s2
<1>5. s4 \in Seq(W) /\ Joins(s4, s2, s3)
  BY <1>3, <1>4, Joined
<1> HIDE DEF s4
<1>6. Joins(b, s4, p5)
  BY <1>5, Joined
<1> HIDE DEF b
<1> DEFINE n1 == Len(p1)
           n2 == Len(p2)
           n3 == Len(p3)
           n4 == Len(p4)
           n5 == Len(p5)
<1> HIDE DEF n1, n2, n3, n4, n5
<1>7. /\ n1 \in Nat /\ n2 \in Nat /\ n3 \in Nat /\ n4 \in Nat /\ n5 \in Nat
      /\ Len(s1) = n1 + n3 /\ Len(s3) = n2 + n4 /\ Len(s2) = 1 + Len(s1)
      /\ Len(s4) = Len(s2) + Len(s3) /\ Len(b) = Len(s4) + n5
  BY <1>1, <1>2, <1>3, <1>4, <1>5, <1>6 DEF Joins, n1, n2, n3, n4, n5
<1>8. Len(s2) = 1 + n1 + n3 /\ Len(s4) = 1 + n1 + n3 + n2 + n4
  BY <1>7
<1>20. /\ \A k \in 1 .. n1 : s1[k] = p1[k]
       /\ \A k \in 1 .. n3 : s1[n1 + k] = p3[k]
       /\ \A k \in 1 .. n2 : s3[k] = p2[k]
       /\ \A k \in 1 .. n4 : s3[n2 + k] = p4[k]
       /\ s2[1] = h /\ \A k \in 1 .. Len(s1) : s2[1 + k] = s1[k]
       /\ \A k \in 1 .. Len(s2) : s4[k] = s2[k]
       /\ \A k \in 1 .. Len(s3) : s4[Len(s2) + k] = s3[k]
       /\ \A k \in 1 .. Len(s4) : b[k] = s4[k]
       /\ \A k \in 1 .. n5 : b[Len(s4) + k] = p5[k]
  BY <1>1, <1>2, <1>3, <1>4, <1>5, <1>6 DEF Joins, n1, n2, n3, n4, n5
<1>9. b[1] = h
  BY <1>7, <1>8, <1>20
<1>10. \A j \in 1 .. n1 + n3 : b[1 + j] = s1[j]
  <2> SUFFICES ASSUME NEW j \in 1 .. n1 + n3 PROVE b[1 + j] = s1[j]
    OBVIOUS
  <2>1. j \in 1 .. Len(s1)
    BY <1>7
  <2>2. s2[1 + j] = s1[j]
    BY <1>20, <2>1
  <2>3. 1 + j \in 1 .. Len(s2)
    BY <1>7, <1>8
  <2>4. s4[1 + j] = s2[1 + j]
    BY <1>20, <2>3
  <2>5. 1 + j \in 1 .. Len(s4)
    BY <1>7, <1>8, <2>3
  <2>6. b[1 + j] = s4[1 + j]
    BY <1>20, <2>5
  <2> QED  BY <2>2, <2>4, <2>6
<1>11. \A j \in 1 .. n2 + n4 : b[1 + n1 + n3 + j] = s3[j]
  <2> SUFFICES ASSUME NEW j \in 1 .. n2 + n4 PROVE b[1 + n1 + n3 + j] = s3[j]
    OBVIOUS
  <2>1. s4[1 + n1 + n3 + j] = s3[j] /\ 1 + n1 + n3 + j \in 1 .. 1 + n1 + n3 + n2 + n4
    BY <1>7, <1>8, <1>20
  <2> QED  BY <1>7, <1>8, <1>20, <2>1
<1>12. \A j \in 1 .. n1 : b[1 + j] = p1[j]
  <2> SUFFICES ASSUME NEW j \in 1 .. n1 PROVE b[1 + j] = p1[j]
    OBVIOUS
  <2>1. j \in 1 .. n1 + n3
    BY <1>7
  <2> QED  BY <1>10, <1>20, <2>1
<1>13. \A j \in 1 .. n3 : b[1 + n1 + j] = p3[j]
  <2> SUFFICES ASSUME NEW j \in 1 .. n3 PROVE b[1 + n1 + j] = p3[j]
    OBVIOUS
  <2>1. n1 + j \in 1 .. n1 + n3 /\ 1 + (n1 + j) = 1 + n1 + j
    BY <1>7
  <2> QED  BY <1>10, <1>20, <2>1
<1>14. \A j \in 1 .. n2 : b[1 + n1 + n3 + j] = p2[j]
  <2> SUFFICES ASSUME NEW j \in 1 .. n2 PROVE b[1 + n1 + n3 + j] = p2[j]
    OBVIOUS
  <2>1. j \in 1 .. n2 + n4
    BY <1>7
  <2> QED  BY <1>11, <1>20, <2>1
<1>15. \A j \in 1 .. n4 : b[1 + n1 + n3 + n2 + j] = p4[j]
  <2> SUFFICES ASSUME NEW j \in 1 .. n4 PROVE b[1 + n1 + n3 + n2 + j] = p4[j]
    OBVIOUS
  <2>1. n2 + j \in 1 .. n2 + n4 /\ 1 + n1 + n3 + (n2 + j) = 1 + n1 + n3 + n2 + j
    BY <1>7
  <2> QED  BY <1>11, <1>20, <2>1
<1>16. Len(b) = 1 + n1 + n3 + n2 + n4 + n5
  BY <1>7
<1>17. \A j \in 1 .. n5 : b[1 + n1 + n3 + n2 + n4 + j] = p5[j]
  BY <1>8, <1>20
<1> QED  BY <1>9, <1>12, <1>13, <1>14, <1>15, <1>16, <1>17
         DEF n1, n2, n3, n4, n5, s0, s1, s2, s3, s4, b, JoinsPieces

\* The places of the parts in the run, and that there is nothing else in it.
LEMMA BuildIs ==
  ASSUME NEW bc, IsCalc(bc)
  PROVE  /\ Len(Build(bc)) = Before(bc, 5) + Count(bc, 5)
         /\ Build(bc)[1] = At(0, build_superblock(bc))
         /\ \A i \in 1 .. 5, j \in Nat \ {0} : j <= Count(bc, i) =>
              /\ Before(bc, i) + j \in 1 .. Len(Build(bc))
              /\ Build(bc)[Before(bc, i) + j] = At(Parts(bc)[i].addr + j - 1, Sheet(bc, i, j))
         /\ \A n \in 2 .. Len(Build(bc)) : \E i \in 1 .. 5, j \in Nat \ {0} :
              j <= Count(bc, i) /\ n = Before(bc, i) + j
<1> DEFINE super == At(0, build_superblock(bc))
           p(i)  == Piece(bc, i)
           c(i)  == Count(bc, i)
           w(i, j) == At(Parts(bc)[i].addr + j - 1, Sheet(bc, i, j))
           W == {super} \union {w(i, j) : i \in 1 .. 5, j \in Nat}
           b == Build(bc)
<1>1. \A i \in 1 .. 5 : c(i) \in Nat /\ (i = 1 \/ i = 2 \/ i = 3 \/ i = 4 \/ i = 5)
  BY PartNumbers
<1>2. \A i \in 1 .. 5 : p(i) = [j \in 1 .. c(i) |-> w(i, j)]
  BY DEF Piece
<1>3. b = ((<<super>> \o (p(1) \o p(3))) \o (p(2) \o p(4))) \o p(5)
  BY PiecesAre
<1>4. /\ Before(bc, 1) = 1
      /\ Before(bc, 2) = 1 + c(1) + c(3)
      /\ Before(bc, 3) = 1 + c(1)
      /\ Before(bc, 4) = 1 + c(1) + c(3) + c(2)
      /\ Before(bc, 5) = 1 + c(1) + c(3) + c(2) + c(4)
  BY DEF Before
<1>5. \A i \in 1 .. 5, j \in Nat : w(i, j) \in W
  OBVIOUS
<1>6. super \in W
  OBVIOUS
<1> HIDE DEF super, p, c, w, W, b
<1>7. ASSUME NEW i \in 1 .. 5
      PROVE  p(i) \in Seq(W) /\ Len(p(i)) = c(i) /\ \A j \in 1 .. c(i) : p(i)[j] = w(i, j)
  <2>1. p(i) = [j \in 1 .. c(i) |-> w(i, j)] /\ c(i) \in Nat
    BY <1>1, <1>2
  <2>2. p(i) \in [1 .. c(i) -> W]
    BY <1>5, <2>1
  <2>3. p(i) \in Seq(W)
    BY <2>1, <2>2, SeqDef
  <2>4. DOMAIN p(i) = 1 .. c(i) /\ DOMAIN p(i) = 1 .. Len(p(i)) /\ Len(p(i)) \in Nat
    BY <2>1, <2>3, LenProperties
  <2>5. Len(p(i)) = c(i)
    BY <2>1, <2>4
  <2> QED  BY <2>1, <2>3, <2>5
<1>8. p(1) \in Seq(W) /\ p(2) \in Seq(W) /\ p(3) \in Seq(W) /\ p(4) \in Seq(W) /\ p(5) \in Seq(W)
  BY <1>7
<1>9. /\ Len(p(1)) = c(1) /\ Len(p(2)) = c(2) /\ Len(p(3)) = c(3) /\ Len(p(4)) = c(4)
      /\ Len(p(5)) = c(5)
  BY <1>7
<1>10. c(1) \in Nat /\ c(2) \in Nat /\ c(3) \in Nat /\ c(4) \in Nat /\ c(5) \in Nat
  BY <1>1
<1>11. /\ Len(b) = 1 + c(1) + c(3) + c(2) + c(4) + c(5)
       /\ b[1] = super
       /\ \A j \in 1 .. c(1) : b[1 + j] = p(1)[j]
       /\ \A j \in 1 .. c(3) : b[1 + c(1) + j] = p(3)[j]
       /\ \A j \in 1 .. c(2) : b[1 + c(1) + c(3) + j] = p(2)[j]
       /\ \A j \in 1 .. c(4) : b[1 + c(1) + c(3) + c(2) + j] = p(4)[j]
       /\ \A j \in 1 .. c(5) : b[1 + c(1) + c(3) + c(2) + c(4) + j] = p(5)[j]
  <2> DEFINE p1 == p(1)
             p2 == p(2)
             p3 == p(3)
             p4 == p(4)
             p5 == p(5)
  <2> HIDE DEF p1, p2, p3, p4, p5
  <2>1. /\ p1 \in Seq(W) /\ p2 \in Seq(W) /\ p3 \in Seq(W) /\ p4 \in Seq(W) /\ p5 \in Seq(W)
        /\ b = ((<<super>> \o (p1 \o p3)) \o (p2 \o p4)) \o p5
    BY <1>3, <1>8 DEF p1, p2, p3, p4, p5
  <2>2. JoinsPieces(b, super, p1, p3, p2, p4, p5)
    BY <1>6, <2>1, JoinedPieces
  <2>3. /\ Len(p1) = c(1) /\ Len(p2) = c(2) /\ Len(p3) = c(3) /\ Len(p4) = c(4)
        /\ Len(p5) = c(5)
    BY <1>9 DEF p1, p2, p3, p4, p5
  <2> QED  BY <2>2, <2>3 DEF p1, p2, p3, p4, p5, JoinsPieces
<1> DEFINE c1 == c(1)
           c2 == c(2)
           c3 == c(3)
           c4 == c(4)
           c5 == c(5)
<1>12. c1 \in Nat /\ c2 \in Nat /\ c3 \in Nat /\ c4 \in Nat /\ c5 \in Nat
  BY <1>10
<1>13. Len(b) = 1 + c1 + c3 + c2 + c4 + c5
  BY <1>11
<1> HIDE DEF c1, c2, c3, c4, c5
<1>14. ASSUME NEW i \in 1 .. 5, NEW j \in Nat \ {0}, j <= c(i)
       PROVE  Before(bc, i) + j \in 1 .. Len(b) /\ b[Before(bc, i) + j] = w(i, j)
  <2>1. j \in 1 .. c(i)
    BY <1>1, <1>14
  <2>2. p(i)[j] = w(i, j)
    BY <1>7, <2>1
  <2>3. b[Before(bc, i) + j] = p(i)[j]
    <3>1. i = 1 \/ i = 2 \/ i = 3 \/ i = 4 \/ i = 5
      BY <1>1
    <3>2. CASE i = 1
      BY <1>4, <1>11, <2>1, <3>2
    <3>3. CASE i = 2
      BY <1>4, <1>11, <2>1, <3>3
    <3>4. CASE i = 3
      BY <1>4, <1>11, <2>1, <3>4
    <3>5. CASE i = 4
      BY <1>4, <1>11, <2>1, <3>5
    <3>6. CASE i = 5
      BY <1>4, <1>11, <2>1, <3>6
    <3> QED  BY <3>1, <3>2, <3>3, <3>4, <3>5, <3>6
  <2>4. \/ j <= c1 /\ Before(bc, i) = 1
        \/ j <= c3 /\ Before(bc, i) = 1 + c1
        \/ j <= c2 /\ Before(bc, i) = 1 + c1 + c3
        \/ j <= c4 /\ Before(bc, i) = 1 + c1 + c3 + c2
        \/ j <= c5 /\ Before(bc, i) = 1 + c1 + c3 + c2 + c4
    BY <1>1, <1>4, <1>14 DEF c1, c2, c3, c4, c5
  <2>5. Before(bc, i) + j \in 1 .. Len(b)
    BY <1>12, <1>13, <2>4
  <2> QED  BY <2>2, <2>3, <2>5
<1>15. ASSUME NEW n \in 2 .. Len(b)
       PROVE  \E i \in 1 .. 5, j \in Nat \ {0} : j <= c(i) /\ n = Before(bc, i) + j
  <2>1. \E k \in {1, 1 + c1, 1 + c1 + c3, 1 + c1 + c3 + c2, 1 + c1 + c3 + c2 + c4} :
          /\ n - k \in Nat \ {0} /\ n = k + (n - k)
          /\ \/ k = 1 /\ n - k <= c1
             \/ k = 1 + c1 /\ n - k <= c3
             \/ k = 1 + c1 + c3 /\ n - k <= c2
             \/ k = 1 + c1 + c3 + c2 /\ n - k <= c4
             \/ k = 1 + c1 + c3 + c2 + c4 /\ n - k <= c5
    BY <1>12, <1>13
  <2>2. PICK k : /\ n - k \in Nat \ {0} /\ n = k + (n - k)
                 /\ \/ k = Before(bc, 1) /\ n - k <= c(1)
                    \/ k = Before(bc, 3) /\ n - k <= c(3)
                    \/ k = Before(bc, 2) /\ n - k <= c(2)
                    \/ k = Before(bc, 4) /\ n - k <= c(4)
                    \/ k = Before(bc, 5) /\ n - k <= c(5)
    BY <1>4, <2>1 DEF c1, c2, c3, c4, c5
  <2>3. PICK i \in 1 .. 5 : k = Before(bc, i) /\ n - k <= c(i)
    BY <2>2
  <2> QED  BY <2>2, <2>3
<1>16. Len(b) = Before(bc, 5) + c(5)
  BY <1>4, <1>10, <1>11
<1> QED  BY <1>11, <1>14, <1>15, <1>16 DEF super, c, w, b

-----------------------------------------------------------------------------
(* What is left of a file system when kfs_mkfs is killed.                    *)

\* The sheets have magic numbers of their own; the block map's is on the first of its.
LEMMA SheetIs ==
  ASSUME NEW bc, NEW i \in 1 .. 5, NEW j
  PROVE  /\ Sheet(bc, i, j).magic # "KFS"
         /\ Sheet(bc, i, j).magic = "block_map" => i = 5
<1>1. i = 1 \/ i = 2 \/ i = 3 \/ i = 4 \/ i = 5
  OBVIOUS
<1>2. \A magic, later, in_use, id, per_block :
        TableSheet(magic, later, in_use, id, per_block, j).magic = IF j = 1 THEN magic ELSE later
  BY DEF TableSheet, Page
<1>3. \A magic, in_use, bits :
        MapSheet(magic, in_use, bits, j).magic = IF j = 1 THEN magic ELSE "none"
  BY DEF MapSheet, Page
<1> QED  BY <1>1, <1>2, <1>3 DEF Sheet

\* The write of a run, seen by its kind: a zero, the superblock or a sheet.
LEMMA WriteIs ==
  ASSUME NEW bc, IsCalc(bc), NEW n \in Nat \ {0}, Left(bc, n) >= 0
  PROVE  \/ n <= bc.size /\ Write(bc, n) = At(n - 1, Blank)
         \/ n = bc.size + 1 /\ Write(bc, n) = At(0, build_superblock(bc))
         \/ /\ n > bc.size + 1
            /\ \E i \in 1 .. 5, j \in Nat \ {0} :
                 /\ j <= Count(bc, i) /\ n = bc.size + Before(bc, i) + j
                 /\ Write(bc, n) = At(Parts(bc)[i].addr + j - 1, Sheet(bc, i, j))
<1>1. bc.size \in Nat /\ Len(Build(bc)) \in Nat
  BY Writes DEF IsCalc
<1>2. CASE n <= bc.size
  BY <1>2 DEF Write
<1>3. CASE n = bc.size + 1
  <2>1. Write(bc, n) = Build(bc)[1]
    BY <1>1, <1>3 DEF Write
  <2> QED  BY <1>3, <2>1, BuildIs
<1>4. CASE n > bc.size + 1
  <2> DEFINE m == n - bc.size
  <2>1. m \in 2 .. Len(Build(bc)) /\ n = bc.size + m /\ ~(n <= bc.size)
    BY <1>1, <1>4 DEF Left
  <2>2. Write(bc, n) = Build(bc)[m]
    BY <2>1 DEF Write
  <2> HIDE DEF m
  <2>3. PICK i \in 1 .. 5, j \in Nat \ {0} : j <= Count(bc, i) /\ m = Before(bc, i) + j
    BY <2>1, BuildIs
  <2>4. Build(bc)[m] = At(Parts(bc)[i].addr + j - 1, Sheet(bc, i, j))
    BY <2>3, BuildIs
  <2>5. n = bc.size + Before(bc, i) + j
    <3>1. Before(bc, i) \in Nat
      BY PartNumbers
    <3> QED  BY <1>1, <2>1, <2>3, <3>1
  <2> QED  BY <1>4, <2>2, <2>3, <2>4, <2>5
<1> QED  BY <1>1, <1>2, <1>3, <1>4

\* The block map ends the file system, if there is one.
LEMMA MapAtEnd ==
  ASSUME NEW o, IsOptions(o)
  PROVE  LET bc == compute_values(o)
         IN  /\ bc.bitmap = 0 => fs_map_block(bc) = 0
             /\ bc.bitmap > 0 => fs_map_block(bc) \in 0 .. bc.size - 1
<1> DEFINE bc == compute_values(o)
           n == bc.size
<1>1. IsCalc(bc) /\ bits_per_block \in Nat \ {0}
  BY ComputedNumbers, LayoutAssumption
<1>2. n \in Nat /\ bc.bitmap = Ceil(n, bits_per_block)
  BY <1>1 DEF IsCalc, compute_values
<1>3. fs_map_block(bc) = n - bc.bitmap
  BY DEF fs_map_block
<1> HIDE DEF n, bc
<1>4. Ceil(n, bits_per_block) \in Nat /\ Ceil(n, bits_per_block) <= n
  BY <1>1, <1>2, RoundedBelow
<1>5. n # 0 => Ceil(n, bits_per_block) >= 1
  <2>1. n # 0 => n \in Nat \ {0} /\ 1 <= bits_per_block /\ bits_per_block \in Nat
    BY <1>1, <1>2
  <2> QED  BY <2>1, Rounded
<1> QED  BY <1>1, <1>2, <1>3, <1>4, <1>5 DEF bc, n

\* The run has not come to the block map, its last part.
Fresh == Left(mkfs.bc, mkfs.done) >= mkfs.bc.bitmap

\* Once a run has begun nothing of an earlier one is taken for a file system: the
\* superblock is the first block to be blanked and the first to be written again,
\* the block map the last. A device too short for a block has nothing of ours there.
KillInv ==
  /\ file.kind # "none" => \A b \in Blocks : ~Fits(b) => disk[b].magic \in {"none", "foreign"}
  /\ mkfs.phase = "building" => file.kind # "none"
  /\ mkfs.phase \in {"building", "killed"} =>
       /\ mkfs.bc.size <= MaxBlocks
       /\ mkfs.done > 0 /\ disk[0].magic = "KFS" =>
            mkfs.done > mkfs.bc.size /\ disk[0].map.addr = fs_map_block(mkfs.bc)
       /\ Fresh => \A b \in Blocks :
            b < mkfs.done /\ b < mkfs.bc.size => disk[b].magic # "block_map"

\* What the steps of a process do to the device: the superblock may be written again,
\* and a flush that a slot call has diverted puts it over another block as well.
ProcessDisk ==
  /\ UNCHANGED mkfs /\ file'.kind = file.kind
  /\ file.size \in Nat /\ file'.size \in Nat /\ file.size <= file'.size
  /\ \A b \in Blocks \ {0} :
       \/ disk'[b] = disk[b]
       \/ /\ disk'[b].magic = "KFS" /\ Fits(b)
          /\ fd.flushing /\ b = fd.offset /\ fd'.diverted > 0
  /\ \/ disk'[0] = disk[0]
     \/ disk[0].magic = "KFS" /\ disk'[0].magic = "KFS" /\ Places(disk'[0]) = Places(disk[0])
  /\ fd'.diverted = 0 => fd.diverted = 0

\* A write of the page, to block 0 or to where a slot call has moved the descriptor.
LEMMA PageDisk ==
  ASSUME IInv, page.held, NEW a \in Int, block_write(a, page.super), UNCHANGED mkfs,
         a # 0 => fd.flushing /\ a = fd.offset /\ fd'.diverted > 0,
         fd'.diverted = 0 => fd.diverted = 0
  PROVE  ProcessDisk
<1>1. /\ file'.size \in Nat /\ file.size \in Nat
      /\ file'.kind = file.kind /\ file.size <= file'.size
      /\ \A b \in Blocks : disk'[b] = IF b = a /\ Fits(a) THEN page.super ELSE disk[b]
  BY WrittenFile DEF IInv, CoreInv, MkfsInv
<1>2. 0 \in Blocks /\ page.super.magic = "KFS"
  BY MkfsAssumption DEF Blocks, IInv, CoreInv, HeldInv
<1>3. \A b \in Blocks \ {0} :
        \/ disk'[b] = disk[b]
        \/ /\ disk'[b].magic = "KFS" /\ Fits(b)
           /\ fd.flushing /\ b = fd.offset /\ fd'.diverted > 0
  BY <1>1, <1>2
<1>4. CASE a = 0
  <2>1. disk[0].magic = "KFS" /\ disk'[0].magic = "KFS" /\ Places(disk'[0]) = Places(disk[0])
    BY <1>4, FlushedDisk DEF IInv, CoreInv, HeldInv
  <2> QED  BY <1>1, <1>3, <2>1 DEF ProcessDisk
<1>5. CASE a # 0
  <2>1. disk'[0] = disk[0]
    BY <1>1, <1>2, <1>5
  <2> QED  BY <1>1, <1>3, <2>1 DEF ProcessDisk
<1> QED  BY <1>4, <1>5

\* kfs_mount(), kfs_umount(), the thread, the end of the process and the slot calls.
LEMMA SuperDisk ==
  ASSUME IInv, SuperNext \/ SlotNext
  PROVE  ProcessDisk
<1> DEFINE Same == UNCHANGED <<file, disk, mkfs>> /\ fd'.diverted = fd.diverted
<1>1. ASSUME Same PROVE ProcessDisk
  BY <1>1 DEF ProcessDisk, IInv, CoreInv, MkfsInv
<1>2. ASSUME pgcache_destroy, UNCHANGED mkfs
      PROVE  ProcessDisk
  <2>1. fd'.diverted = fd.diverted
    BY <1>2 DEF pgcache_destroy, Closed
  <2>2. CASE page.held /\ page.dirty
    BY <1>2, <2>1, <2>2, PageDisk DEF pgcache_destroy
  <2>3. CASE ~(page.held /\ page.dirty)
    BY <1>1, <1>2, <2>1, <2>3 DEF pgcache_destroy
  <2> QED  BY <2>2, <2>3
<1> HIDE DEF Same
<1>3. CASE SlotNext
  BY <1>1, <1>3 DEF Same, SlotNext, kfs_slot_reserve, kfs_slot_remove, SlotCall, SlotSeek, SlotRead,
                    targetVars, IInv, CoreInv, FdInv
<1>4. CASE Mount
  <2>1. CASE MountCheck \/ MountUndo
    BY <1>1, <1>2, <2>1 DEF Same, MountCheck, MountUndo, Undo
  <2>2. CASE MountMap
    BY <1>1, <2>2 DEF Same, MountMap, targetVars, IInv, CoreInv, FdInv
  <2> QED  BY <1>1, <1>4, <2>1, <2>2
           DEF Same, Mount, MountStart, MountOpen, MountAlloc, MountEnable, MountFill, MountSync,
               targetVars
<1>5. CASE Umount
  BY <1>1, <1>2, <1>5
     DEF Same, Umount, UmountStart, UmountFlags, UmountTables, UmountDestroy, targetVars
<1>6. CASE ProcessEnds
  BY <1>1, <1>6 DEF Same, ProcessEnds, Closed, targetVars
<1>7. CASE ThreadSeek
  BY <1>1, <1>7 DEF Same, ThreadSeek, targetVars, IInv, CoreInv, FdInv
<1>8. CASE ThreadWrite
  <2>1. /\ page.held /\ fd.flushing /\ fd.offset \in Int /\ fd.diverted \in Nat
        /\ block_write(fd.offset, page.super) /\ UNCHANGED mkfs
        /\ fd'.diverted = fd.diverted + (IF fd.offset = 0 THEN 0 ELSE 1)
    BY <1>8 DEF ThreadWrite, IInv, CoreInv, FdInv
  <2>2. /\ fd.offset # 0 => fd'.diverted > 0
        /\ fd'.diverted = 0 => fd.diverted = 0
    BY <2>1
  <2> QED  BY <2>1, <2>2, PageDisk
<1> QED  BY <1>3, <1>4, <1>5, <1>6, <1>7, <1>8 DEF SuperNext, ThreadFlush

\* A file that has room for a block goes on having it.
LEMMA FitsStays ==
  ASSUME file'.kind = file.kind, file.size \in Nat, file'.size \in Nat, file.size <= file'.size,
         NEW b \in Int, Fits(b)
  PROVE  Fits(b)'
<1>1. (b + 1) * KFS_BLOCKSIZE \in Int
  BY LayoutAssumption
<1> DEFINE end == (b + 1) * KFS_BLOCKSIZE
<1>2. file.kind = "regular" \/ end <= file.size
  BY DEF Fits
<1> HIDE DEF end
<1>3. file'.kind = "regular" \/ end <= file'.size
  BY <1>1, <1>2 DEF end
<1> QED  BY <1>3 DEF Fits, end

\* A block that a device does not have holds nothing of a file system's, so a
\* superblock that is there can be written again; one that a diverted flush puts
\* elsewhere is no block map.
LEMMA KillProcess ==
  ASSUME IInv, KillInv, ProcessDisk
  PROVE  KillInv'
<1>1. mkfs' = mkfs /\ file'.kind = file.kind /\ 0 \in Blocks /\ Blocks \subseteq Int
  BY MkfsAssumption DEF ProcessDisk, Blocks
<1>2. \A b \in Blocks \ {0} :
        disk'[b].magic = disk[b].magic \/ (disk'[b].magic = "KFS" /\ Fits(b))
  BY DEF ProcessDisk
<1>3. \/ disk'[0] = disk[0]
      \/ disk[0].magic = "KFS" /\ disk'[0].magic = "KFS" /\ disk'[0].map = disk[0].map
  BY DEF ProcessDisk, Places
<1>4. \A b \in Blocks :
        disk'[b].magic = disk[b].magic \/ (disk'[b].magic = "KFS" /\ Fits(b))
  BY <1>2, <1>3
<1>5. disk'[0].magic = "KFS" => disk[0].magic = "KFS" /\ disk'[0].map = disk[0].map
  BY <1>3
<1>6. \A b \in Blocks : Fits(b) => Fits(b)'
  BY <1>1, FitsStays DEF ProcessDisk
<1>7. file'.kind # "none" => \A b \in Blocks : ~Fits(b)' => disk'[b].magic \in {"none", "foreign"}
  BY <1>1, <1>4, <1>6 DEF KillInv
<1>8. Fresh' <=> Fresh
  BY <1>1 DEF Fresh
<1> QED  BY <1>1, <1>4, <1>5, <1>7, <1>8 DEF KillInv

\* A write of the run reaches the block it is for, or nothing.
LEMMA Written ==
  ASSUME IInv, MkfsWrite
  PROVE  LET bc == mkfs.bc
             n  == mkfs.done + 1
             w  == Write(bc, n)
         IN  /\ IsCalc(bc) /\ n \in Nat \ {0} /\ Left(bc, n) >= 0
             /\ mkfs.phase = "building" /\ mkfs'.phase \in {"building", "done"}
             /\ mkfs'.phase = "done" => Left(bc, n) = 0
             /\ mkfs'.bc = bc /\ mkfs'.done = n /\ mkfs'.opts = mkfs.opts
             /\ file'.kind = file.kind
             /\ file.kind # "regular" => file' = file
             /\ ~Fits(w.addr) => disk' = disk /\ file' = file
             /\ Fits(w.addr) =>
                  /\ file'.size \in Int
                  /\ file'.size >= file.size /\ file'.size >= (w.addr + 1) * KFS_BLOCKSIZE
                  /\ \A b \in Blocks : disk'[b] = IF b = w.addr THEN w.page ELSE disk[b]
<1> DEFINE n == mkfs.done + 1
           bc == mkfs.bc
           w == Write(bc, n)
<1>1. /\ mkfs.phase = "building" /\ block_write(w.addr, w.page)
      /\ mkfs' = [mkfs EXCEPT !.done = n,
                              !.phase = IF n > bc.size /\ Left(bc, n) = 0 THEN "done" ELSE @]
  BY DEF MkfsWrite
<1>2. IsCalc(bc) /\ n \in Nat \ {0} /\ Left(bc, mkfs.done) > 0 /\ mkfs.done \in Nat
  BY <1>1, ComputedNumbers DEF IInv, CoreInv, MkfsInv
<1>3. bc.size \in Nat /\ Len(Build(bc)) \in Nat \ {0}
  BY <1>2, Writes DEF IsCalc
<1>4. Left(bc, n) >= 0 /\ n \in 1 .. bc.size + Len(Build(bc))
  BY <1>2, <1>3 DEF Left
<1>5. w.addr \in Int
  BY <1>2, <1>4, Writes
<1>6. /\ mkfs'.opts = mkfs.opts /\ mkfs'.bc = bc /\ mkfs'.done = n
      /\ mkfs'.phase = (IF n > bc.size /\ Left(bc, n) = 0 THEN "done" ELSE mkfs.phase)
  BY <1>1 DEF IInv, CoreInv, MkfsInv
<1>7. /\ file = [kind |-> file.kind, size |-> file.size] /\ file.size \in Nat
      /\ disk = [b \in Blocks |-> disk[b]]
  BY DEF IInv, CoreInv, MkfsInv, DiskInv
<1> HIDE DEF n, bc, w
<1>8. CASE ~Fits(w.addr)
  <2>1. disk' = disk /\ file' = file
    BY <1>1, <1>8 DEF block_write
  <2> QED  BY <1>1, <1>2, <1>4, <1>6, <1>8, <2>1 DEF n, bc, w
<1>9. CASE Fits(w.addr)
  <2> DEFINE end == (w.addr + 1) * KFS_BLOCKSIZE
  <2>1. /\ disk' = [disk EXCEPT ![w.addr] = w.page]
        /\ file' = [file EXCEPT !.size = IF @ < end THEN end ELSE @]
    BY <1>1, <1>9 DEF block_write
  <2>2. end \in Int /\ (file.kind = "regular" \/ end <= file.size)
    BY <1>5, <1>9, LayoutAssumption DEF Fits
  <2> HIDE DEF end
  <2>3. file'.kind = file.kind /\ (file.kind # "regular" => file' = file)
    BY <1>7, <2>1, <2>2
  <2>4. \A b \in Blocks : disk'[b] = IF b = w.addr THEN w.page ELSE disk[b]
    BY <1>7, <2>1
  <2>5. file'.size \in Int /\ file'.size >= file.size /\ file'.size >= end
    BY <1>7, <2>1, <2>2
  <2> QED  BY <1>1, <1>2, <1>4, <1>6, <1>9, <2>3, <2>4, <2>5 DEF n, bc, w, end
<1> QED  BY <1>8, <1>9

\* One more write of the run: a zero, the superblock, or a block of one of its parts.
LEMMA KillWrite ==
  ASSUME IInv, KillInv, MkfsWrite
  PROVE  KillInv'
<1> DEFINE n == mkfs.done + 1
           bc == mkfs.bc
           w == Write(bc, n)
<1>1. /\ IsCalc(bc) /\ n \in Nat \ {0} /\ Left(bc, n) >= 0
      /\ mkfs.phase = "building" /\ mkfs'.phase \in {"building", "done"}
      /\ mkfs'.bc = bc /\ mkfs'.done = n
      /\ file'.kind = file.kind
      /\ file.kind # "regular" => file' = file
  BY Written
<1>2. /\ ~Fits(w.addr) => disk' = disk
      /\ Fits(w.addr) => \A b \in Blocks : disk'[b] = IF b = w.addr THEN w.page ELSE disk[b]
  BY Written
<1>3. /\ bc.size \in Nat /\ Len(Build(bc)) \in Nat /\ mkfs.done \in Nat /\ n = mkfs.done + 1
      /\ 0 \in Blocks /\ Blocks \subseteq Nat
  BY <1>1, Writes, MkfsAssumption DEF IsCalc, Blocks, IInv, CoreInv, MkfsInv
<1>4. \/ n <= bc.size /\ w = At(n - 1, Blank)
      \/ n = bc.size + 1 /\ w = At(0, build_superblock(bc))
      \/ /\ n > bc.size + 1
         /\ \E i \in 1 .. 5, j \in Nat \ {0} :
              /\ j <= Count(bc, i) /\ n = bc.size + Before(bc, i) + j
              /\ w = At(Parts(bc)[i].addr + j - 1, Sheet(bc, i, j))
  BY <1>1, WriteIs
<1>5. /\ w.page.magic = "KFS" => n = bc.size + 1 /\ w = At(0, build_superblock(bc))
      /\ n = 1 => w.addr = 0
      /\ w.page.magic = "block_map" => Left(bc, n) < bc.bitmap
      /\ n <= bc.size => w = At(n - 1, Blank)
      /\ n = bc.size + 1 => w = At(0, build_superblock(bc))
  <2>1. CASE n <= bc.size /\ w = At(n - 1, Blank)
    BY <1>3, <2>1 DEF At, Blank, Page
  <2>2. CASE n = bc.size + 1 /\ w = At(0, build_superblock(bc))
    BY <1>3, <2>2 DEF At, build_superblock
  <2>3. ASSUME n > bc.size + 1, NEW i \in 1 .. 5, NEW j \in Nat \ {0},
               j <= Count(bc, i), n = bc.size + Before(bc, i) + j,
               w = At(Parts(bc)[i].addr + j - 1, Sheet(bc, i, j))
        PROVE  /\ w.page.magic # "KFS"
               /\ w.page.magic = "block_map" => Left(bc, n) < bc.bitmap
    <3>1. w.page = Sheet(bc, i, j)
      BY <2>3 DEF At
    <3>2. w.page.magic # "KFS" /\ (w.page.magic = "block_map" => i = 5)
      BY <3>1, SheetIs
    <3>3. /\ Len(Build(bc)) = Before(bc, 5) + Count(bc, 5) /\ Count(bc, 5) = bc.bitmap
          /\ Before(bc, 5) \in Nat /\ Count(bc, 5) \in Nat
      BY <1>1, BuildIs, PartNumbers
    <3>4. ASSUME i = 5 PROVE Left(bc, n) < bc.bitmap
      <4> DEFINE first == Before(bc, 5)
                 len == Len(Build(bc))
      <4>1. /\ first \in Nat /\ len = first + bc.bitmap /\ bc.size \in Nat /\ bc.bitmap \in Nat
            /\ n = bc.size + first + j /\ Left(bc, n) = bc.size + len - n
        BY <1>3, <2>3, <3>3, <3>4 DEF Left
      <4> HIDE DEF first, len, n, bc
      <4> QED  BY <4>1
    <3> QED  BY <3>2, <3>4
  <2> QED  BY <1>3, <1>4, <2>1, <2>2, <2>3
<1> HIDE DEF n, bc, w
<1>6. \A b \in Blocks : disk'[b] = disk[b] \/ (Fits(w.addr) /\ b = w.addr /\ disk'[b] = w.page)
  BY <1>2
<1>7. \A b : Fits(b) => Fits(b)'
  <2>1. CASE file.kind = "regular"
    BY <1>1, <2>1 DEF Fits
  <2>2. CASE file.kind # "regular"
    BY <1>1, <2>2 DEF Fits
  <2> QED  BY <2>1, <2>2
<1>8. file'.kind # "none" /\ \A b \in Blocks : ~Fits(b)' => disk'[b].magic \in {"none", "foreign"}
  BY <1>1, <1>6, <1>7 DEF KillInv
<1>9. disk'[0].magic = "KFS" => n > bc.size /\ disk'[0].map.addr = fs_map_block(bc)
  <2> SUFFICES ASSUME disk'[0].magic = "KFS"
               PROVE  n > bc.size /\ disk'[0].map.addr = fs_map_block(bc)
    OBVIOUS
  <2>1. CASE disk'[0] = w.page
    <3>1. n = bc.size + 1 /\ w = At(0, build_superblock(bc))
      BY <1>5, <2>1
    <3>2. disk'[0].map.addr = fs_map_block(bc)
      BY <2>1, <3>1 DEF At, build_superblock, OnDisk, Parts, Extent
    <3> QED  BY <1>3, <3>1, <3>2
  <2>2. CASE disk'[0] # w.page
    <3>1. disk'[0] = disk[0]
      BY <1>3, <1>6, <2>2
    <3>2. ~(w.addr = 0 /\ Fits(w.addr))
      BY <1>2, <1>3, <2>2
    <3>3. Fits(0)
      BY <1>1, <1>3, <3>1 DEF KillInv
    <3>4. w.addr # 0 /\ n # 1
      BY <1>5, <3>2, <3>3
    <3>5. mkfs.done > 0 /\ disk[0].magic = "KFS"
      BY <1>3, <3>1, <3>4
    <3>6. mkfs.done > bc.size /\ disk[0].map.addr = fs_map_block(bc)
      BY <1>1, <3>5 DEF KillInv, bc
    <3> QED  BY <1>3, <3>1, <3>6
  <2> QED  BY <2>1, <2>2
<1>10. ASSUME Left(bc, n) >= bc.bitmap, NEW b \in Blocks, b < n, b < bc.size
       PROVE  disk'[b].magic # "block_map"
  <2>1. bc.bitmap \in Nat
    BY <1>1 DEF IsCalc
  <2>2. Left(bc, mkfs.done) >= bc.bitmap /\ w.page.magic # "block_map"
    BY <1>3, <1>5, <1>10, <2>1 DEF Left
  <2>3. Fresh
    BY <2>2 DEF Fresh, bc
  <2>4. CASE disk'[b] = w.page
    BY <2>2, <2>4
  <2>5. CASE disk'[b] # w.page
    <3>1. disk'[b] = disk[b]
      BY <1>6, <2>5
    <3>2. CASE b < mkfs.done
      BY <1>1, <1>10, <2>3, <3>1, <3>2 DEF KillInv, bc
    <3>3. CASE ~(b < mkfs.done)
      <4>1. b = n - 1 /\ n <= bc.size
        BY <1>3, <1>10, <3>3
      <4>2. w.addr = b
        BY <1>5, <4>1 DEF At
      <4>3. ~Fits(b)
        BY <1>2, <2>5, <4>2
      <4>4. disk[b].magic \in {"none", "foreign"}
        BY <1>1, <4>3 DEF KillInv
      <4> QED  BY <3>1, <4>4
    <3> QED  BY <3>2, <3>3
  <2> QED  BY <2>4, <2>5
<1>11. bc.size <= MaxBlocks
  BY <1>1 DEF KillInv, bc
<1> QED  BY <1>1, <1>8, <1>9, <1>10, <1>11 DEF KillInv, Fresh

\* Every step of the volume keeps it: starting and killing kfs_mkfs, its writes, a process.
LEMMA KillStep ==
  ASSUME IInv, KillInv, [Next]_vars
  PROVE  KillInv'
<1>1. ASSUME NEW line \in Lines, MkfsStart(line)
      PROVE  KillInv'
  <2>1. /\ mkfs'.done = 0 /\ mkfs'.bc.size <= MaxBlocks /\ disk' = disk
        /\ file' = IF file.kind = "none" THEN [kind |-> "regular", size |-> 0] ELSE file
    BY <1>1 DEF MkfsStart
  <2>2. file'.kind # "none" /\ \A b : file.kind = "none" \/ (Fits(b)' <=> Fits(b))
    BY <2>1 DEF Fits
  <2>3. file.kind = "none" => \A b : Fits(b)'
    BY <2>1 DEF Fits
  <2>4. \A b \in Blocks : ~Fits(b)' => disk'[b].magic \in {"none", "foreign"}
    BY <2>1, <2>2, <2>3 DEF KillInv
  <2>5. \A b \in Blocks : ~(b < 0)
    BY DEF Blocks
  <2> QED  BY <2>1, <2>2, <2>4, <2>5 DEF KillInv
<1>2. CASE MkfsKilled
  <2>1. mkfs'.bc = mkfs.bc /\ mkfs'.done = mkfs.done /\ mkfs.phase = "building"
        /\ UNCHANGED <<file, disk>>
    BY <1>2 DEF MkfsKilled, IInv, CoreInv, MkfsInv
  <2> QED  BY <2>1 DEF KillInv, Fresh, Fits
<1>3. CASE SuperNext
  BY <1>3, SuperDisk, KillProcess
<1>4. CASE SlotNext
  BY <1>4, SuperDisk, KillProcess
<1>5. CASE UNCHANGED vars
  BY <1>5 DEF vars, KillInv, Fresh, Fits
<1> QED  BY <1>1, <1>2, <1>3, <1>4, <1>5, KillWrite DEF Next, Make, MkfsNext

\* No run has begun on the device that the volume starts with.
LEMMA KillInit == Init => KillInv
<1> SUFFICES ASSUME Init PROVE KillInv
  OBVIOUS
<1>1. \A b \in Blocks : disk[b] = Foreign \/ disk[b] = Blank
  BY DEF Init, MkfsInit
<1>2. \A b \in Blocks : disk[b].magic \in {"none", "foreign"}
  BY <1>1 DEF Foreign, Blank, Page
<1>3. mkfs.phase = "idle"
  BY DEF Init, MkfsInit
<1> QED  BY <1>2, <1>3 DEF KillInv

\* What it means for the magic numbers that the verification looks at.
LEMMA KilledNotVerified == IInv /\ KillInv => VerifiedIsBuilt
<1> SUFFICES ASSUME IInv, KillInv, kfs_verify(TRUE), mkfs.phase \in {"building", "killed"},
                    mkfs.done > 0, ~(Left(mkfs.bc, mkfs.done) < mkfs.bc.bitmap)
             PROVE  FALSE
  BY DEF VerifiedIsBuilt
<1> DEFINE bc == mkfs.bc
           a  == fs_map_block(bc)
<1>1. IsCalc(bc) /\ bc = compute_values(mkfs.opts) /\ IsOptions(mkfs.opts)
  BY ComputedNumbers DEF IInv, CoreInv, MkfsInv
<1>2. bc.size \in Nat /\ bc.bitmap \in Nat /\ Len(Build(bc)) \in Nat /\ mkfs.done \in Nat
  BY <1>1, Writes DEF IsCalc, IInv, CoreInv, MkfsInv
<1>3. Fresh
  BY <1>2 DEF Fresh, Left
<1>4. disk[0].magic = "KFS"
  BY Verified DEF kfs_verify
<1>5. bc.size <= MaxBlocks /\ mkfs.done > bc.size /\ disk[0].map.addr = a
  BY <1>4 DEF KillInv
<1>6. disk[a].magic = "block_map"
  <2>1. \E before : before.magic = "slot_map"
                    /\ block_read(disk[0].map.addr, before).magic = "block_map"
    BY DEF kfs_verify, TablesVerified
  <2> QED  BY <1>5, <2>1 DEF block_read
<1>7. bc.bitmap = 0 => a = 0
  BY <1>1, MapAtEnd
<1>8. bc.bitmap > 0 => a \in 0 .. bc.size - 1
  BY <1>1, MapAtEnd
<1>9. bc.bitmap > 0
  BY <1>2, <1>4, <1>6, <1>7
<1>10. a \in 0 .. bc.size - 1
  BY <1>8, <1>9
<1> HIDE DEF a, bc
<1>11. a \in Blocks /\ a < mkfs.done /\ a < bc.size
  BY <1>2, <1>5, <1>10, MkfsAssumption DEF Blocks
<1>12. disk[a].magic # "block_map"
  BY <1>3, <1>11 DEF KillInv, bc
<1> QED  BY <1>6, <1>12

\* A file system that kfs_mkfs was killed in the middle of is not taken for one by
\* kfs_verify(), unless the run had come to the block map, its last part: for every
\* device, every options, every earlier content and every point to be killed at.
THEOREM KilledIsNotVerified == Spec => []VerifiedIsBuilt
<1>1. Init => IInv /\ KillInv
  BY InitHolds, KillInit
<1>2. (IInv /\ KillInv) /\ [Next]_vars => (IInv /\ KillInv)'
  BY IInvStep, KillStep
<1> QED  BY <1>1, <1>2, KilledNotVerified, PTL DEF Spec

-----------------------------------------------------------------------------
(* What kfs_mkfs finishes passes the verification.                           *)

\* The sheets of a complete file system are at addresses of their own.
LEMMA SheetPlaces ==
  ASSUME NEW o, Plain(o), IsOptions(o), compute_values(o).size <= MaxBlocks,
         NEW i \in 1 .. 5, NEW j \in Nat \ {0}, j <= Count(compute_values(o), i)
  PROVE  LET bc == compute_values(o)
             a  == Parts(bc)[i].addr + j - 1
         IN  /\ Count(bc, i) = Parts(bc)[i].blocks
             /\ a \in BlocksOf(Parts(bc)[i]) /\ a \in 1 .. bc.size - 1 /\ a \in Blocks \ {0}
<1> DEFINE bc == compute_values(o)
           p  == Parts(bc)[i]
           a  == p.addr + j - 1
<1>1. IsCalc(bc) /\ Sound(bc)
  BY ComputedNumbers, PlainIsSound DEF IsOptions
<1>2. p.blocks \in Nat /\ p.addr \in Int /\ p.blocks > 0 /\ BlocksOf(p) \subseteq 1 .. bc.size - 1
  BY <1>1, PartNumbers DEF Sound
<1>3. Count(bc, i) = p.blocks
  BY <1>2 DEF Count
<1>4. bc.size \in Nat /\ bc.size <= MaxBlocks
  BY <1>1 DEF IsCalc
<1>5. a \in BlocksOf(p)
  <2>1. j <= p.blocks
    BY <1>3
  <2> HIDE DEF p
  <2> QED  BY <1>2, <2>1 DEF BlocksOf
<1> HIDE DEF bc, p, a
<1>6. a \in 1 .. bc.size - 1
  BY <1>2, <1>5
<1>7. a \in Blocks \ {0}
  BY <1>4, <1>6, MkfsAssumption DEF Blocks
<1> QED  BY <1>3, <1>5, <1>6, <1>7 DEF bc, p, a

\* No block of a complete file system is written as two of its sheets.
LEMMA SheetsApart ==
  ASSUME NEW o, Plain(o), IsOptions(o), compute_values(o).size <= MaxBlocks,
         NEW i \in 1 .. 5, NEW j \in Nat \ {0}, j <= Count(compute_values(o), i),
         NEW k \in 1 .. 5, NEW l \in Nat \ {0}, l <= Count(compute_values(o), k),
         Parts(compute_values(o))[i].addr + j - 1 = Parts(compute_values(o))[k].addr + l - 1
  PROVE  i = k /\ j = l
<1> DEFINE bc == compute_values(o)
<1>1. Sound(bc) /\ IsCalc(bc)
  BY ComputedNumbers, PlainIsSound DEF IsOptions
<1>2. /\ Parts(bc)[i].addr + j - 1 \in BlocksOf(Parts(bc)[i])
      /\ Parts(bc)[k].addr + l - 1 \in BlocksOf(Parts(bc)[k])
  BY SheetPlaces
<1>3. Parts(bc)[i].addr \in Int /\ Parts(bc)[k].addr \in Int
  BY <1>1, PartNumbers
<1>4. i = k
  BY <1>1, <1>2 DEF Sound
<1> HIDE DEF bc
<1>5. Parts(bc)[i].addr + j - 1 = Parts(bc)[i].addr + l - 1
  BY <1>4 DEF bc
<1> DEFINE x == Parts(bc)[i].addr
<1>6. x \in Int /\ x + j - 1 = x + l - 1
  BY <1>3, <1>5
<1> HIDE DEF x
<1> QED  BY <1>4, <1>6

\* What has been written of a complete file system stands, but where a flush that a
\* slot call has diverted may go.
Safe(bc, a) == fd.diverted = 0 \/ a \notin Reach(build_superblock(bc).slot.bitmap)

Stands(bc, i, j) ==
  LET a == Parts(bc)[i].addr + j - 1
  IN  Safe(bc, a) => disk[a] = Sheet(bc, i, j)

\* The run of a plain command line on a file that it created: the file is long
\* enough for the blanks written so far, the superblock says where the parts are
\* once it is written, and every sheet written since stands.
BuildInv ==
  mkfs.phase \in {"building", "done"} /\ Plain(mkfs.opts) =>
    /\ file.kind = "regular" /\ mkfs.opts.size < Word /\ mkfs.bc.size <= MaxBlocks
    /\ \A b \in Nat : b < mkfs.done /\ b < mkfs.bc.size => (b + 1) * KFS_BLOCKSIZE <= file.size
    /\ mkfs.done > mkfs.bc.size =>
         disk[0].magic = "KFS" /\ Places(disk[0]) = Places(build_superblock(mkfs.bc))
    /\ \A i \in 1 .. 5, j \in Nat \ {0} :
         j <= Count(mkfs.bc, i) /\ mkfs.bc.size + Before(mkfs.bc, i) + j <= mkfs.done =>
           Stands(mkfs.bc, i, j)
    /\ mkfs.phase = "done" => mkfs.done = mkfs.bc.size + Len(Build(mkfs.bc))

\* While a file system is built there is no process, and where its thread writes in
\* one that is finished: where the thread has moved the descriptor, or where a slot
\* call has moved it from there.
FlushInv ==
  /\ mkfs.phase = "building" => Free
  /\ fd.flushing /\ Finished =>
       LET map == build_superblock(mkfs.bc).slot.bitmap
       IN  /\ fd.offset \in {0} \union Reach(map)
           /\ call.step = "read" => fd.offset \in {0, map.addr}

\* A process may write the superblock of a finished file system, and over the rest
\* where a slot call moves the descriptor.
LEMMA BuildProcess ==
  ASSUME IInv, BuildInv, FlushInv, ProcessDisk
  PROVE  BuildInv'
<1> SUFFICES ASSUME mkfs.phase \in {"building", "done"}, Plain(mkfs.opts)
             PROVE  BuildInv'
  BY DEF BuildInv, ProcessDisk
<1> DEFINE bc == mkfs.bc
<1>1. mkfs' = mkfs /\ file'.kind = file.kind /\ file.size \in Nat /\ file'.size \in Nat
      /\ file.size <= file'.size
  BY DEF ProcessDisk
<1>2. bc = compute_values(mkfs.opts) /\ IsOptions(mkfs.opts) /\ bc.size <= MaxBlocks
  BY DEF IInv, CoreInv, MkfsInv, BuildInv
<1>3. mkfs.done > bc.size =>
        disk'[0].magic = "KFS" /\ Places(disk'[0]) = Places(build_superblock(bc))
  BY DEF ProcessDisk, BuildInv
<1>4. ASSUME NEW i \in 1 .. 5, NEW j \in Nat \ {0}, j <= Count(bc, i),
             bc.size + Before(bc, i) + j <= mkfs.done
      PROVE  Stands(bc, i, j)'
  <2> DEFINE a == Parts(bc)[i].addr + j - 1
             q == Sheet(bc, i, j)
             m == build_superblock(bc).slot.bitmap
  <2>1. (fd.diverted = 0 \/ a \notin Reach(m)) => disk[a] = q
    BY <1>4 DEF BuildInv, Stands, Safe
  <2>2. a \in Blocks \ {0}
    BY <1>2, <1>4, SheetPlaces
  <2>3. fd.flushing => fd.offset \in {0} \union Reach(m)
    <3>1. CASE mkfs.phase = "building"
      BY <3>1, NoSuperblock DEF FlushInv, Free, IInv, CoreInv, HeldInv, FdInv
    <3>2. CASE mkfs.phase = "done"
      BY <3>2 DEF FlushInv, Finished
    <3> QED  BY <3>1, <3>2
  <2> HIDE DEF a, q, m
  <2>4. (fd'.diverted = 0 \/ a \notin Reach(m)) => disk'[a] = q
    BY <2>1, <2>2, <2>3 DEF ProcessDisk
  <2> QED  BY <1>1, <2>4 DEF Stands, Safe, a, q, m
<1>5. ASSUME NEW b \in Nat, b < mkfs.done, b < bc.size
      PROVE  (b + 1) * KFS_BLOCKSIZE <= file'.size
  <2> DEFINE end == (b + 1) * KFS_BLOCKSIZE
  <2>1. end \in Nat
    BY LayoutAssumption
  <2>2. end <= file.size
    BY <1>5 DEF BuildInv
  <2> HIDE DEF end
  <2>3. end <= file'.size
    BY <1>1, <2>1, <2>2
  <2> QED  BY <2>3 DEF end
<1> QED  BY <1>1, <1>3, <1>4, <1>5 DEF BuildInv

\* A run that starts has written nothing, and what it builds fits if it was not cut.
LEMMA BuildStart ==
  ASSUME IInv, NEW line \in Lines, MkfsStart(line)
  PROVE  BuildInv'
<1> DEFINE o  == Options(line, file)
           bc == compute_values(o)
<1>1. /\ mkfs'.phase = "building" /\ mkfs'.done = 0 /\ mkfs'.opts = o /\ mkfs'.bc = bc
      /\ bc.size <= MaxBlocks
      /\ file' = IF file.kind = "none" THEN [kind |-> "regular", size |-> 0] ELSE file
  BY DEF MkfsStart
<1>2. IsOptions(o) /\ IsCalc(bc)
  BY OptionNumbers, ComputedNumbers DEF IInv, CoreInv, MkfsInv
<1>3. SUFFICES ASSUME Plain(o) PROVE BuildInv'
  BY <1>1 DEF BuildInv
<1>4. file.kind = "none"
  BY <1>3 DEF Plain, Options
<1>5. o.size < Word
  <2>1. o.size = IF "d" \in line.opts THEN validate_size(line.d) ELSE 0
    BY <1>4 DEF Options
  <2>2. o.size # 0
    BY <1>3, LayoutAssumption DEF Plain
  <2>3. o.size = validate_size(line.d)
    BY <2>1, <2>2
  <2>4. Word \in Nat \ {0} /\ line.d.num \in Nat /\ MB \in Nat /\ GB \in Nat
    BY LayoutAssumption, MkfsAssumption
  <2>5. strtoul(line.d.num) \in Nat /\ strtoul(line.d.num) < Word
    BY <2>4 DEF strtoul
  <2>6. strtoul(line.d.num) * MB \in Nat /\ strtoul(line.d.num) * GB \in Nat
    BY <2>4, <2>5
  <2>7. \A n \in Nat : n % Word < Word
    BY <2>4, Quotient
  <2> QED  BY <2>2, <2>3, <2>4, <2>5, <2>6, <2>7 DEF validate_size
<1>6. \A i \in 1 .. 5, j \in Nat \ {0} : ~(bc.size + Before(bc, i) + j <= 0)
  <2>1. bc.size \in Nat /\ \A i \in 1 .. 5 : Before(bc, i) \in Nat
    BY <1>2, PartNumbers DEF IsCalc
  <2> QED  BY <2>1
<1>7. \A b \in Nat : ~(b < 0)
  OBVIOUS
<1>8. ~(0 > bc.size)
  BY <1>2 DEF IsCalc
<1> HIDE DEF o, bc
<1> QED  BY <1>1, <1>4, <1>5, <1>6, <1>7, <1>8 DEF BuildInv

\* A write puts its page where no other write of the run puts one.
LEMMA BuildWrite ==
  ASSUME IInv, BuildInv, MkfsWrite, UNCHANGED fd
  PROVE  BuildInv'
<1> DEFINE n == mkfs.done + 1
           bc == mkfs.bc
           w == Write(bc, n)
<1>1. /\ IsCalc(bc) /\ n \in Nat \ {0} /\ Left(bc, n) >= 0
      /\ mkfs.phase = "building" /\ mkfs'.phase \in {"building", "done"}
      /\ mkfs'.phase = "done" => Left(bc, n) = 0
      /\ mkfs'.bc = bc /\ mkfs'.done = n /\ mkfs'.opts = mkfs.opts
      /\ file'.kind = file.kind
  BY Written
<1>2. Fits(w.addr) =>
        /\ file'.size \in Int
        /\ file'.size >= file.size /\ file'.size >= (w.addr + 1) * KFS_BLOCKSIZE
        /\ \A b \in Blocks : disk'[b] = IF b = w.addr THEN w.page ELSE disk[b]
  BY Written
<1>3. SUFFICES ASSUME Plain(mkfs.opts) PROVE BuildInv'
  BY <1>1 DEF BuildInv
<1>4. /\ file.kind = "regular" /\ mkfs.opts.size < Word /\ bc.size <= MaxBlocks
      /\ bc = compute_values(mkfs.opts) /\ IsOptions(mkfs.opts)
  BY <1>1, <1>3 DEF IInv, CoreInv, MkfsInv, BuildInv
<1>5. /\ bc.size \in Nat /\ Len(Build(bc)) \in Nat /\ mkfs.done \in Nat /\ n = mkfs.done + 1
      /\ 0 \in Blocks /\ file.size \in Nat
  BY <1>1, Writes, MkfsAssumption DEF IsCalc, Blocks, IInv, CoreInv, MkfsInv
<1>6. /\ file'.size \in Int
      /\ file'.size >= file.size /\ file'.size >= (w.addr + 1) * KFS_BLOCKSIZE
      /\ \A b \in Blocks : disk'[b] = IF b = w.addr THEN w.page ELSE disk[b]
  BY <1>2, <1>4 DEF Fits
<1>7. \/ n <= bc.size /\ w = At(n - 1, Blank)
      \/ n = bc.size + 1 /\ w = At(0, build_superblock(bc))
      \/ /\ n > bc.size + 1
         /\ \E i \in 1 .. 5, j \in Nat \ {0} :
              /\ j <= Count(bc, i) /\ n = bc.size + Before(bc, i) + j
              /\ w = At(Parts(bc)[i].addr + j - 1, Sheet(bc, i, j))
  BY <1>1, WriteIs
<1>8. ASSUME NEW b \in Nat, b < n, b < bc.size
      PROVE  (b + 1) * KFS_BLOCKSIZE <= file'.size
  <2> DEFINE end == (b + 1) * KFS_BLOCKSIZE
  <2>1. end \in Nat
    BY LayoutAssumption
  <2>2. CASE b < mkfs.done
    <3>1. end <= file.size
      BY <1>1, <1>3, <1>8, <2>2 DEF BuildInv
    <3> HIDE DEF end
    <3>2. end <= file'.size
      BY <1>5, <1>6, <2>1, <3>1
    <3> QED  BY <3>2 DEF end
  <2>3. CASE ~(b < mkfs.done)
    <3>1. b = n - 1 /\ n <= bc.size /\ ~(n = bc.size + 1) /\ ~(n > bc.size + 1)
      BY <1>5, <1>8, <2>3
    <3>2. w.addr = b
      BY <1>7, <3>1 DEF At
    <3> QED  BY <1>6, <3>2
  <2> QED  BY <2>2, <2>3
<1>9. ASSUME n > bc.size
      PROVE  disk'[0].magic = "KFS" /\ Places(disk'[0]) = Places(build_superblock(bc))
  <2>1. CASE n = bc.size + 1
    <3>1. w = At(0, build_superblock(bc))
      BY <1>5, <1>7, <2>1
    <3>2. disk'[0] = build_superblock(bc)
      BY <1>5, <1>6, <3>1 DEF At
    <3> QED  BY <3>2 DEF build_superblock
  <2>2. CASE n # bc.size + 1
    <3>1. PICK i \in 1 .. 5, j \in Nat \ {0} :
            j <= Count(bc, i) /\ w = At(Parts(bc)[i].addr + j - 1, Sheet(bc, i, j))
      BY <1>5, <1>7, <1>9, <2>2
    <3>2. Parts(bc)[i].addr + j - 1 \in Blocks \ {0}
      BY <1>3, <1>4, <3>1, SheetPlaces
    <3>3. disk'[0] = disk[0]
      BY <1>5, <1>6, <3>1, <3>2 DEF At
    <3>4. mkfs.done > bc.size
      BY <1>5, <1>9, <2>2
    <3> QED  BY <1>1, <1>3, <3>3, <3>4 DEF BuildInv
  <2> QED  BY <2>1, <2>2
<1>10. ASSUME NEW i \in 1 .. 5, NEW j \in Nat \ {0}, j <= Count(bc, i),
              bc.size + Before(bc, i) + j <= n
       PROVE  LET a == Parts(bc)[i].addr + j - 1
              IN  Safe(bc, a) => disk'[a] = Sheet(bc, i, j)
  <2> DEFINE a == Parts(bc)[i].addr + j - 1
             q == Sheet(bc, i, j)
  <2>1. Before(bc, i) \in Nat \ {0} /\ Before(bc, i) + j \in 1 .. Len(Build(bc))
        /\ Build(bc)[Before(bc, i) + j] = At(a, q)
    BY <1>1, <1>10, BuildIs, PartNumbers
  <2>2. a \in Blocks \ {0}
    BY <1>3, <1>4, <1>10, SheetPlaces
  <2>3. CASE bc.size + Before(bc, i) + j = n
    <3>1. ~(n <= bc.size) /\ n - bc.size = Before(bc, i) + j
      BY <1>5, <2>1, <2>3
    <3>2. w = At(a, q)
      BY <2>1, <3>1 DEF Write
    <3>3. disk'[a] = q
      BY <1>6, <2>2, <3>2 DEF At
    <3> QED  BY <3>3
  <2>4. CASE bc.size + Before(bc, i) + j # n
    <3>1. bc.size + Before(bc, i) + j <= mkfs.done
      <4> DEFINE k == bc.size + Before(bc, i) + j
      <4>1. k <= n /\ k # n
        BY <1>10, <2>4
      <4>2. k \in Nat
        <5> DEFINE first == Before(bc, i)
        <5>1. first \in Nat /\ bc.size \in Nat
          BY <1>5, <2>1
        <5> HIDE DEF first, bc, n
        <5>2. bc.size + first + j \in Nat
          BY <5>1
        <5> QED  BY <5>2 DEF first
      <4> HIDE DEF k
      <4>3. k <= mkfs.done
        BY <1>5, <4>1, <4>2
      <4> QED  BY <4>3 DEF k
    <3>2. Safe(bc, a) => disk[a] = q
      BY <1>1, <1>3, <1>10, <3>1 DEF BuildInv, Stands
    <3>3. n > bc.size + 1
      <4> DEFINE k == Before(bc, i)
      <4>1. k \in Nat \ {0} /\ bc.size + k + j <= mkfs.done
        BY <2>1, <3>1
      <4> HIDE DEF k, bc, n
      <4> QED  BY <1>5, <4>1
    <3>4. PICK k \in 1 .. 5, l \in Nat \ {0} :
            /\ l <= Count(bc, k) /\ n = bc.size + Before(bc, k) + l
            /\ w = At(Parts(bc)[k].addr + l - 1, Sheet(bc, k, l))
      <4>1. ~(n <= bc.size) /\ n # bc.size + 1
        <5> HIDE DEF n, bc
        <5> QED  BY <1>5, <3>3
      <4> HIDE DEF n, bc, w
      <4> QED  BY <1>7, <4>1
    <3>5. w.addr # a
      <4> SUFFICES ASSUME w.addr = a PROVE FALSE
        OBVIOUS
      <4>1. Parts(bc)[i].addr + j - 1 = Parts(bc)[k].addr + l - 1
        BY <3>4 DEF At
      <4>2. i = k /\ j = l
        BY <1>3, <1>4, <1>10, <3>4, <4>1, SheetsApart
      <4> QED  BY <2>4, <3>4, <4>2
    <3>6. disk'[a] = disk[a]
      BY <1>6, <2>2, <3>5
    <3> QED  BY <3>2, <3>6
  <2> QED  BY <2>3, <2>4
<1>11. mkfs'.phase = "done" => n = bc.size + Len(Build(bc))
  BY <1>1, <1>5 DEF Left
<1> HIDE DEF n, w
<1>12. mkfs'.bc = bc /\ mkfs'.done = n /\ mkfs'.opts = mkfs.opts
       /\ file'.kind = "regular" /\ mkfs.opts.size < Word /\ bc.size <= MaxBlocks
  BY <1>1, <1>4
<1>13. \A b \in Nat : b < n /\ b < bc.size => (b + 1) * KFS_BLOCKSIZE <= file'.size
  BY <1>8
<1>14. n > bc.size => disk'[0].magic = "KFS" /\ Places(disk'[0]) = Places(build_superblock(bc))
  BY <1>9
<1>15. \A i \in 1 .. 5, j \in Nat \ {0} :
         j <= Count(bc, i) /\ bc.size + Before(bc, i) + j <= n => Stands(bc, i, j)'
  <2> SUFFICES ASSUME NEW i \in 1 .. 5, NEW j \in Nat \ {0}, j <= Count(bc, i),
                      bc.size + Before(bc, i) + j <= n
               PROVE  Stands(bc, i, j)'
    OBVIOUS
  <2>1. Safe(bc, Parts(bc)[i].addr + j - 1) =>
          disk'[Parts(bc)[i].addr + j - 1] = Sheet(bc, i, j)
    BY <1>10
  <2> QED  BY <1>12, <2>1 DEF Stands, Safe
<1> QED  BY <1>11, <1>12, <1>13, <1>14, <1>15 DEF BuildInv

\* kfs_mkfs writes and is killed without touching the descriptor.
LEMMA MkfsFd ==
  ASSUME IInv, Make, MkfsWrite \/ MkfsKilled
  PROVE  UNCHANGED fd
<1>1. mkfs'.runs = mkfs.runs
  BY DEF MkfsWrite, MkfsKilled, IInv, CoreInv, MkfsInv
<1> QED  BY <1>1 DEF Make

\* Every step of the volume keeps it.
LEMMA BuildStep ==
  ASSUME IInv, BuildInv, FlushInv, [Next]_vars
  PROVE  BuildInv'
<1>1. CASE Make
  <2>1. CASE MkfsKilled
    BY <2>1 DEF MkfsKilled, IInv, CoreInv, MkfsInv, BuildInv
  <2> QED  BY <1>1, <2>1, BuildStart, BuildWrite, MkfsFd DEF Make, MkfsNext
<1>2. CASE SuperNext \/ SlotNext
  BY <1>2, SuperDisk, BuildProcess
<1>3. CASE UNCHANGED vars
  BY <1>3 DEF vars, BuildInv, Stands, Safe
<1> QED  BY <1>1, <1>2, <1>3 DEF Next

\* Rounded up there is room for all.
LEMMA CeilCovers ==
  ASSUME NEW n \in Nat, NEW d \in Nat \ {0}
  PROVE  Ceil(n, d) \in Nat /\ n <= d * Ceil(n, d)
<1> DEFINE q == n \div d
           r == n % d
<1>1. q \in Nat /\ r \in 0 .. d - 1 /\ n = d * q + r
  BY Quotient
<1>2. Ceil(n, d) = q + (IF r = 0 THEN 0 ELSE 1)
  BY DEF Ceil
<1> HIDE DEF q, r
<1>3. d * (q + 1) = d * q + d /\ d * q \in Nat /\ d * (q + 0) = d * q
  BY <1>1
<1> QED  BY <1>1, <1>2, <1>3

\* The map of the slots of a finished file system lies in the file, and so does what
\* is as long at its beginning.
LEMMA MapReached ==
  ASSUME IInv, BuildInv, Finished
  PROVE  LET map == build_superblock(mkfs.bc).slot.bitmap
             end == Ceil(file.size, KFS_BLOCKSIZE)
         IN  /\ map.addr \in Int /\ map.blocks \in Int /\ end \in Int
             /\ map.addr + map.blocks <= end /\ 0 + map.blocks <= end
             /\ disk[0].magic = "KFS" /\ disk[0].slot.bitmap = map
<1> DEFINE bc  == mkfs.bc
           map == build_superblock(bc).slot.bitmap
           end == Ceil(file.size, KFS_BLOCKSIZE)
           a   == slot_map_block(bc)
           n   == bc.slots_bitmap
           size == bc.size
<1>1. /\ IsCalc(bc) /\ bc = compute_values(mkfs.opts) /\ IsOptions(mkfs.opts)
      /\ Plain(mkfs.opts) /\ mkfs.phase = "done" /\ mkfs.opts.size \in Nat
  BY ComputedNumbers DEF IInv, CoreInv, MkfsInv, Finished, IsOptions
<1>2. size \in Nat /\ n \in Nat /\ a \in Int /\ file.size \in Nat
  BY <1>1 DEF IsCalc, slot_map_block, fs_map_block, IInv, CoreInv, MkfsInv
<1>3. mkfs.done = size + Len(Build(bc)) /\ Len(Build(bc)) \in Nat \ {0}
  BY <1>1, Writes DEF BuildInv
<1>4. disk[0].magic = "KFS" /\ disk[0].slot.bitmap = map
  BY <1>1, <1>2, <1>3 DEF BuildInv, Places
<1>5. map.addr = a /\ map.blocks = n % Short
  BY DEF build_superblock, TableOf, OnDisk, Parts, Extent
<1>6. n % Short \in Nat /\ n % Short <= n
  <2>1. Short \in Nat \ {0}
    BY LayoutAssumption
  <2> DEFINE r == n % Short
             q == Short * (n \div Short)
  <2>2. q \in Nat /\ r \in Nat /\ n = q + r
    <3>1. r \in 0 .. Short - 1 /\ n = Short * (n \div Short) + (n % Short)
      BY <1>2, <2>1, Quotient
    <3>2. q \in Nat
      BY <1>2, <2>1, QuotientBelow
    <3>3. r \in Nat
      <4> HIDE DEF r
      <4> QED  BY <2>1, <3>1
    <3>4. n = q + r
      BY <3>1
    <3> QED  BY <3>2, <3>3, <3>4
  <2> HIDE DEF n, q, r
  <2>3. r <= n
    BY <1>2, <2>2
  <2> QED  BY <2>2, <2>3 DEF r
<1>7. n > 0 /\ a .. a + n - 1 \subseteq 1 .. size - 1
  <2>1. Parts(bc)[4].addr = a /\ Parts(bc)[4].blocks = n
    BY DEF Parts, Extent
  <2> QED  BY <1>1, <2>1, PlainIsSound DEF Sound, BlocksOf
<1> HIDE DEF a, n, map
<1>8. 1 <= a /\ a + n <= size /\ size > 0
  <2> HIDE DEF size
  <2>1. a \in 1 .. size - 1 /\ a + n - 1 \in 1 .. size - 1
    BY <1>2, <1>7
  <2> QED  BY <1>2, <2>1
<1>9. size * KFS_BLOCKSIZE <= file.size
  <2>1. size - 1 \in Nat /\ size - 1 < mkfs.done /\ size - 1 < size /\ size - 1 + 1 = size
    <3> DEFINE len == Len(Build(bc))
    <3>1. len \in Nat /\ mkfs.done = size + len
      BY <1>3
    <3> HIDE DEF len, size
    <3> QED  BY <1>2, <1>8, <3>1
  <2> QED  BY <1>1, <2>1 DEF BuildInv
<1>10. end \in Nat /\ size <= end
  <2> DEFINE d == KFS_BLOCKSIZE
  <2>1. d \in Nat \ {0}
    BY LayoutAssumption
  <2>2. end \in Nat /\ file.size <= d * end
    BY <1>2, <2>1, CeilCovers
  <2> HIDE DEF d, end, size
  <2>3. d * size <= d * end
    BY <1>2, <1>9, <2>1, <2>2 DEF d
  <2>4. size <= end
    <3> SUFFICES ASSUME end + 1 <= size PROVE FALSE
      BY <1>2, <2>2
    <3>1. d * (end + 1) <= d * size
      BY <1>2, <2>1, <2>2, Monotone
    <3>2. d * (end + 1) = d * end + d
      BY <2>1, <2>2
    <3> QED  BY <1>2, <2>1, <2>2, <2>3, <3>1, <3>2
  <2> QED  BY <2>2, <2>4
<1> HIDE DEF end, size
<1>11. /\ map.addr \in Int /\ map.blocks \in Int /\ end \in Int
       /\ map.addr + map.blocks <= end /\ 0 + map.blocks <= end
  <2> DEFINE r == n % Short
  <2>1. map.addr = a /\ map.blocks = r /\ r \in Nat /\ r <= n
    BY <1>5, <1>6
  <2> HIDE DEF r
  <2> QED  BY <1>2, <1>8, <1>10, <2>1
<1> QED  BY <1>4, <1>11 DEF map, bc, end

\* A call about slots leaves the descriptor on the map of the slots, behind it, or,
\* when the thread has come in between, where a read from the beginning ends.
LEMMA FlushSlot ==
  ASSUME IInv, BuildInv, FlushInv, SlotNext
  PROVE  FlushInv'
<1>1. UNCHANGED <<targetVars, sb, cache, page>>
  BY SlotStep
<1>2. ASSUME mkfs.phase = "building"
      PROVE  Free'
  <2>1. Free /\ sb.magic # "KFS"
    BY <1>2, NoSuperblock DEF FlushInv, Free
  <2> QED  BY <1>1, <2>1
           DEF SlotNext, kfs_slot_reserve, kfs_slot_remove, SlotCall, SlotSeek, SlotRead, Free,
               Idle, kfs_active
<1>3. Finished' <=> Finished
  BY <1>1 DEF targetVars, Finished
<1>4. ASSUME fd'.flushing, Finished
      PROVE  LET map == build_superblock(mkfs.bc).slot.bitmap
             IN  /\ fd'.offset \in {0} \union Reach(map)
                 /\ call'.step = "read" => fd'.offset \in {0, map.addr}
  <2> DEFINE map == build_superblock(mkfs.bc).slot.bitmap
             end == Ceil(file.size, KFS_BLOCKSIZE)
  <2>1. /\ map.addr \in Int /\ map.blocks \in Int /\ end \in Int
        /\ map.addr + map.blocks <= end /\ 0 + map.blocks <= end
        /\ disk[0].magic = "KFS" /\ disk[0].slot.bitmap = map
    BY <1>4, MapReached
  <2>2. fd.flushing => /\ fd.offset \in {0} \union Reach(map)
                       /\ call.step = "read" => fd.offset \in {0, map.addr}
    BY <1>4 DEF FlushInv
  <2>3. call.step \in SlotSteps => sb.slot.bitmap = map
    BY <2>1 DEF IInv, CoreInv, CallInv, HeldInv, Places
  <2> HIDE DEF map, end
  <2>4. ASSUME NEW passes, SlotCall(passes)
        PROVE  UNCHANGED fd /\ call'.step # "read"
    BY <2>4 DEF SlotCall
  <2>5. CASE SlotSeek
    <3>1. fd' = [fd EXCEPT !.offset = map.addr]
      BY <2>3, <2>5 DEF SlotSeek, SlotSteps
    <3>2. fd'.offset = map.addr
      BY <3>1, MovedIs DEF IInv, CoreInv
    <3> QED  BY <3>2 DEF Reach, map
  <2>6. CASE SlotRead
    <3>1. fd' = [fd EXCEPT !.offset = ReadOn(map.blocks)] /\ call.step = "read"
          /\ call'.step = "idle"
      BY <2>3, <2>6, CallReturns DEF SlotRead, SlotSteps, IInv, CoreInv
    <3>2. fd'.offset = ReadOn(map.blocks) /\ fd'.flushing = fd.flushing
      BY <3>1, MovedIs DEF IInv, CoreInv
    <3>3. fd.offset = 0 \/ fd.offset = map.addr
      BY <1>4, <2>2, <3>1, <3>2
    <3>4. ReadOn(map.blocks) \in {fd.offset, fd.offset + map.blocks}
      <4>1. fd.offset + map.blocks <= end /\ fd.offset + map.blocks \in Int
        BY <2>1, <3>3
      <4>2. Lower(fd.offset + map.blocks, end) = fd.offset + map.blocks
        BY <2>1, <4>1 DEF Lower
      <4> QED  BY <4>2 DEF ReadOn, end
    <3>5. ReadOn(map.blocks) \in {0} \union Reach(map)
      BY <2>1, <3>3, <3>4 DEF Reach
    <3> QED  BY <3>1, <3>2, <3>5 DEF map
  <2> QED  BY <1>4, <2>2, <2>4, <2>5, <2>6
           DEF SlotNext, kfs_slot_reserve, kfs_slot_remove, map
<1> QED  BY <1>1, <1>2, <1>3, <1>4 DEF FlushInv, targetVars

\* The thread moves the descriptor to the superblock's place; nobody else who moves
\* it leaves the thread between its two calls.
LEMMA FlushSuper ==
  ASSUME IInv, FlushInv, SuperNext
  PROVE  FlushInv'
<1>1. mkfs' = mkfs
  BY SuperDisk DEF ProcessDisk
<1>2. ASSUME mkfs.phase = "building"
      PROVE  Free'
  <2>1. Free /\ sb.magic # "KFS" /\ ~page.held /\ ~fd.flushing
    <3>1. Free /\ sb.magic # "KFS"
      BY <1>2, NoSuperblock DEF FlushInv, Free
    <3>2. ~page.held
      BY <3>1 DEF IInv, CoreInv, HeldInv, Free, Idle
    <3> QED  BY <3>1, <3>2 DEF IInv, FdInv
  <2>2. CASE Mount
    BY <1>2, <2>1, <2>2
       DEF Mount, MountStart, MountOpen, MountAlloc, MountEnable, MountMap, MountFill, MountSync,
           MountCheck, MountUndo, Free, Idle
  <2>3. CASE Umount
    BY <2>1, <2>3 DEF Umount, UmountStart, UmountFlags, UmountTables, UmountDestroy, Free, Idle
  <2> QED  BY <2>1, <2>2, <2>3 DEF SuperNext, ThreadFlush, ThreadSeek, ThreadWrite, ProcessEnds,
                                  Free
<1>3. \/ ~fd'.flushing \/ fd'.offset = 0
      \/ UNCHANGED fd /\ (call'.step # "read" \/ UNCHANGED call)
  <2>1. CASE Mount
    <3>1. CASE MountMap
      <4>1. ~fd.flushing /\ (fd' = fd \/ fd' = [fd EXCEPT !.offset = 1])
        BY <3>1 DEF MountMap, IInv, CoreInv, CallInv, FdInv
      <4> QED  BY <4>1, MovedIs DEF IInv, CoreInv
    <3>2. CASE MountUndo
      BY <3>2 DEF MountUndo, Undo, pgcache_destroy, Closed
    <3>3. CASE MountCheck
      <4>1. UNCHANGED fd /\ Returns(0)
        BY <3>3 DEF MountCheck, IInv, CoreInv, CallInv
      <4> QED  BY <4>1, CallReturns DEF IInv, CoreInv
    <3>4. CASE MountOpen \/ MountAlloc \/ MountEnable \/ MountFill \/ MountSync
      <4>1. UNCHANGED fd /\ \/ Returns(-1) \/ Goes("alloc") \/ Goes("enable") \/ Goes("map")
                            \/ Goes("undo") \/ Goes("sync") \/ Goes("check")
        BY <3>4 DEF MountOpen, MountAlloc, MountEnable, MountFill, MountSync
      <4> QED  BY <4>1, CallReturns, CallGoes DEF IInv, CoreInv
    <3>5. ASSUME NEW lines \in Configs, MountStart(lines)
          PROVE  UNCHANGED fd /\ call'.step # "read"
      BY <3>5 DEF MountStart
    <3> QED  BY <2>1, <3>1, <3>2, <3>3, <3>4, <3>5 DEF Mount
  <2>2. CASE Umount
    <3>1. CASE UmountFlags \/ UmountTables
      <4>1. UNCHANGED fd /\ (Goes("tables") \/ Goes("destroy"))
        BY <3>1 DEF UmountFlags, UmountTables
      <4> QED  BY <4>1, CallGoes DEF IInv, CoreInv
    <3> QED  BY <2>2, <3>1 DEF Umount, UmountStart, UmountDestroy, pgcache_destroy, Closed
  <2>3. CASE ThreadSeek
    <3>1. fd' = [fd EXCEPT !.offset = 0, !.flushing = TRUE]
      BY <2>3 DEF ThreadSeek
    <3> QED  BY <3>1, MovedIs DEF IInv, CoreInv
  <2>4. CASE ThreadWrite \/ ProcessEnds
    BY <2>4 DEF ThreadWrite, ProcessEnds, Closed
  <2> QED  BY <2>1, <2>2, <2>3, <2>4 DEF SuperNext, ThreadFlush
<1>4. Finished' <=> Finished
  BY <1>1 DEF Finished
<1>5. ASSUME fd'.flushing, Finished
      PROVE  LET map == build_superblock(mkfs.bc).slot.bitmap
             IN  /\ fd'.offset \in {0} \union Reach(map)
                 /\ call'.step = "read" => fd'.offset \in {0, map.addr}
  BY <1>3, <1>5 DEF FlushInv
<1> QED  BY <1>1, <1>2, <1>4, <1>5 DEF FlushInv

\* Every step of the volume keeps it.
LEMMA FlushStep ==
  ASSUME IInv, BuildInv, FlushInv, [Next]_vars
  PROVE  FlushInv'
<1>1. CASE Make
  <2>1. ~fd.flushing /\ (fd' = NoFd \/ fd' = fd) /\ Free'
    BY <1>1, NoSuperblock DEF Make, Free, Idle, IInv, CoreInv, FdInv, HeldInv
  <2>2. ~fd'.flushing
    BY <2>1 DEF NoFd
  <2> QED  BY <2>1, <2>2 DEF FlushInv
<1>2. CASE UNCHANGED vars
  BY <1>2 DEF vars, FlushInv, Finished, Free, Idle
<1> QED  BY <1>1, <1>2, FlushSlot, FlushSuper DEF Next

\* No run has begun at first.
LEMMA BuildInit == Init => BuildInv /\ FlushInv
BY DEF Init, MkfsInit, SuperInit, NoFd, BuildInv, FlushInv

\* What kfs_mkfs has built, through the life of the file system.
BuiltInv == IInv /\ BuildInv /\ FlushInv

LEMMA BuiltInvariant == Spec => []BuiltInv
<1>1. Init => BuiltInv
  BY InitHolds, BuildInit DEF BuiltInv
<1>2. BuiltInv /\ [Next]_vars => BuiltInv'
  BY IInvStep, BuildStep, FlushStep DEF BuiltInv
<1> QED  BY <1>1, <1>2, PTL DEF Spec

\* The verification finds the first and the last block of each table, and the
\* first of each map.
LEMMA BuiltIsVerified == IInv /\ BuildInv => BuildVerifies
<1> SUFFICES ASSUME IInv, BuildInv, Finished, Small(mkfs.bc), fd.diverted = 0
             PROVE  kfs_verify(TRUE)
  BY DEF BuildVerifies
<1> DEFINE bc == mkfs.bc
           s  == disk[0]
<1>1. /\ IsCalc(bc) /\ bc = compute_values(mkfs.opts) /\ IsOptions(mkfs.opts)
      /\ Plain(mkfs.opts) /\ mkfs.phase = "done" /\ mkfs.opts.size \in Nat
  BY ComputedNumbers DEF IInv, CoreInv, MkfsInv, Finished, IsOptions
<1>2. /\ file.kind = "regular" /\ mkfs.opts.size < Word /\ bc.size <= MaxBlocks
      /\ mkfs.done = bc.size + Len(Build(bc))
  BY <1>1 DEF BuildInv
<1>3. bc.size \in Nat /\ Len(Build(bc)) \in Nat \ {0} /\ file.size \in Nat
  BY <1>1, Writes DEF IsCalc, IInv, CoreInv, MkfsInv
<1>4. \A b \in Nat : b < bc.size => (b + 1) * KFS_BLOCKSIZE <= file.size
  BY <1>1, <1>2, <1>3 DEF BuildInv
<1>5. s.magic = "KFS" /\ Places(s) = Places(build_superblock(bc))
  BY <1>1, <1>2, <1>3 DEF BuildInv
<1>6. \A b \in 0 .. bc.size - 1 : \A before : block_read(b, before) = disk[b]
  <2> SUFFICES ASSUME NEW b \in 0 .. bc.size - 1 PROVE b * KFS_BLOCKSIZE < file.size
    BY DEF block_read
  <2>1. b \in Nat /\ b < bc.size /\ KFS_BLOCKSIZE \in Nat \ {0}
    <3> DEFINE n == bc.size
    <3>1. n \in Nat /\ b \in 0 .. n - 1
      BY <1>3
    <3> HIDE DEF n
    <3>2. b \in Nat /\ b < n
      BY <3>1
    <3> QED  BY <3>2, LayoutAssumption DEF n
  <2>2. (b + 1) * KFS_BLOCKSIZE <= file.size
    BY <1>4, <2>1
  <2>3. (b + 1) * KFS_BLOCKSIZE = b * KFS_BLOCKSIZE + KFS_BLOCKSIZE
        /\ b * KFS_BLOCKSIZE \in Nat
    BY <2>1
  <2> QED  BY <1>3, <2>1, <2>2, <2>3
<1>7. ASSUME NEW i \in 1 .. 5, NEW j \in Nat \ {0}, j <= Parts(bc)[i].blocks
      PROVE  LET a == Parts(bc)[i].addr + j - 1
             IN  disk[a] = Sheet(bc, i, j) /\ \A before : block_read(a, before) = disk[a]
  <2>1. Parts(bc)[i].blocks > 0 /\ Parts(bc)[i].blocks \in Nat
    BY <1>1, PlainIsSound, PartNumbers DEF Sound
  <2>2. j <= Count(bc, i)
    BY <1>7, <2>1 DEF Count
  <2>3. Parts(bc)[i].addr + j - 1 \in 1 .. bc.size - 1
    BY <1>1, <1>2, <2>2, SheetPlaces
  <2>4. Before(bc, i) + j \in 1 .. Len(Build(bc)) /\ Before(bc, i) \in Nat
    BY <1>1, <2>2, BuildIs, PartNumbers
  <2>5. bc.size + Before(bc, i) + j <= mkfs.done
    BY <1>2, <1>3, <2>4
  <2>6. Stands(bc, i, j)
    BY <1>1, <2>2, <2>5 DEF BuildInv
  <2> QED  BY <1>6, <2>3, <2>6 DEF Stands, Safe
<1> DEFINE t == bc.sinodes_table
           p(i) == Parts(bc)[i]
<1>8. /\ t \in Nat /\ t >= 2 /\ bc.slots_table = t /\ t < Short
      /\ t * sinodes_per_block \in Nat /\ t * sinodes_per_block <= mkfs.opts.size
      /\ t * slots_per_block \in Nat /\ t * slots_per_block <= mkfs.opts.size
  BY <1>1, PlainTables DEF Small
<1>9. /\ p(1) = [addr |-> 1, blocks |-> t] /\ p(2) = [addr |-> t + 1, blocks |-> t]
      /\ \A i \in 1 .. 5 : p(i) = [addr |-> p(i).addr, blocks |-> p(i).blocks]
      /\ \A i \in 1 .. 5 : p(i).blocks >= 1 /\ p(i).blocks \in Nat /\ p(i).addr \in Int
  <2>1. /\ p(1) = [addr |-> 1, blocks |-> t] /\ p(2) = [addr |-> t + 1, blocks |-> t]
    BY <1>8 DEF Parts, Extent
  <2>2. \A i \in 1 .. 5 : p(i) = [addr |-> p(i).addr, blocks |-> p(i).blocks]
    <3>1. \A i \in 1 .. 5 : i = 1 \/ i = 2 \/ i = 3 \/ i = 4 \/ i = 5
      OBVIOUS
    <3> QED  BY <3>1 DEF Parts, Extent
  <2>3. \A i \in 1 .. 5 : p(i).blocks > 0 /\ p(i).blocks \in Nat /\ p(i).addr \in Int
    BY <1>1, PlainIsSound, PartNumbers DEF Sound
  <2> HIDE DEF p
  <2>4. \A i \in 1 .. 5 : p(i).blocks >= 1
    BY <2>3
  <2> QED  BY <2>1, <2>2, <2>3, <2>4
<1>10. /\ s.si.table = p(1) /\ s.slot.table = p(2)
       /\ s.si.bitmap.addr = p(3).addr /\ s.slot.bitmap.addr = p(4).addr
       /\ s.map.addr = p(5).addr
       /\ s.si.capacity = t * sinodes_per_block /\ s.slot.capacity = t * slots_per_block
  <2> DEFINE b == build_superblock(bc)
  <2>1. /\ b.si.table = OnDisk(p(1)) /\ b.slot.table = OnDisk(p(2))
        /\ b.si.bitmap = OnDisk(p(3)) /\ b.slot.bitmap = OnDisk(p(4)) /\ b.map = OnDisk(p(5))
        /\ b.si.capacity = t * sinodes_per_block /\ b.slot.capacity = t * slots_per_block
    BY <1>8 DEF build_superblock, TableOf
  <2>2. /\ s.si.table = b.si.table /\ s.slot.table = b.slot.table
        /\ s.si.bitmap = b.si.bitmap /\ s.slot.bitmap = b.slot.bitmap /\ s.map = b.map
        /\ s.si.capacity = b.si.capacity /\ s.slot.capacity = b.slot.capacity
    BY <1>5 DEF Places
  <2>3. t % Short = t
    <3>1. Short \in Nat \ {0}
      BY LayoutAssumption
    <3> HIDE DEF t
    <3> QED  BY <1>8, <3>1
  <2> HIDE DEF b, p, s
  <2>4. \A i \in 1 .. 5 : OnDisk(p(i)).addr = p(i).addr
    BY <1>9 DEF OnDisk
  <2>5. OnDisk(p(1)) = p(1) /\ OnDisk(p(2)) = p(2)
    BY <1>9, <2>3 DEF OnDisk
  <2> QED  BY <2>1, <2>2, <2>4, <2>5
<1>11. \A i \in 1 .. 5 : \A before :
         LET q == block_read(p(i).addr, before)
         IN  q.magic = Sheet(bc, i, 1).magic
  <2> SUFFICES ASSUME NEW i \in 1 .. 5, NEW before
               PROVE  block_read(p(i).addr, before).magic = Sheet(bc, i, 1).magic
    OBVIOUS
  <2>1. p(i).addr + 1 - 1 = p(i).addr
    BY <1>9
  <2>2. 1 \in Nat \ {0} /\ 1 <= Parts(bc)[i].blocks
    BY <1>9
  <2>3. /\ disk[Parts(bc)[i].addr + 1 - 1] = Sheet(bc, i, 1)
        /\ block_read(Parts(bc)[i].addr + 1 - 1, before) = disk[Parts(bc)[i].addr + 1 - 1]
    BY <1>7, <2>2
  <2> QED  BY <2>1, <2>3
<1>12. \A i \in {1, 2} : \A before :
         LET q == block_read(p(i).addr + t - 1, before)
         IN  q.magic = Sheet(bc, i, t).magic /\ q.last = Sheet(bc, i, t).last
  <2> SUFFICES ASSUME NEW i \in {1, 2}, NEW before
               PROVE  LET q == block_read(p(i).addr + t - 1, before)
                      IN  q.magic = Sheet(bc, i, t).magic /\ q.last = Sheet(bc, i, t).last
    OBVIOUS
  <2>1. t \in Nat \ {0} /\ t <= p(i).blocks
    BY <1>8, <1>9
  <2> HIDE DEF t
  <2> QED  BY <1>7, <2>1
<1>13. /\ Sheet(bc, 1, 1).magic = "sinode_table" /\ Sheet(bc, 2, 1).magic = "slot_table"
       /\ Sheet(bc, 3, 1).magic = "sinode_map" /\ Sheet(bc, 4, 1).magic = "slot_map"
       /\ Sheet(bc, 5, 1).magic = "block_map"
  BY DEF Sheet, TableSheet, MapSheet, Page
<1>14. /\ Sheet(bc, 1, t).magic = "sinodes" /\ Sheet(bc, 1, t).last = t * sinodes_per_block - 1
       /\ Sheet(bc, 2, t).magic = "slots" /\ Sheet(bc, 2, t).last = t * slots_per_block - 1
  <2>1. t # 1
    BY <1>8
  <2> HIDE DEF t
  <2> QED  BY <2>1 DEF Sheet, TableSheet, Page
<1>15. ASSUME NEW c \in Nat, c > 0, c <= mkfs.opts.size
       PROVE  (c + Word - 1) % Word = c - 1
  <2>1. Word \in Nat /\ c < Word
    <3>1. Word \in Nat
      BY LayoutAssumption
    <3> DEFINE size == mkfs.opts.size
    <3>2. size \in Nat /\ size < Word /\ c <= size
      BY <1>1, <1>2, <1>15
    <3> HIDE DEF size
    <3> QED  BY <3>1, <3>2
  <2> DEFINE d == c - 1
  <2>2. d \in Nat /\ d < Word /\ c + Word - 1 = d + Word
    BY <1>15, <2>1
  <2> HIDE DEF d
  <2>3. (d + Word) % Word = d
    BY <2>1, <2>2
  <2> QED  BY <2>2, <2>3 DEF d
<1>16. /\ (t * sinodes_per_block + Word - 1) % Word = t * sinodes_per_block - 1
       /\ (t * slots_per_block + Word - 1) % Word = t * slots_per_block - 1
  <2>1. sinodes_per_block \in Nat \ {0} /\ slots_per_block \in Nat \ {0}
    BY LayoutAssumption
  <2>2. 1 * t <= sinodes_per_block * t /\ 1 * t <= slots_per_block * t
    <3> DEFINE d == sinodes_per_block
               e == slots_per_block
    <3>1. d \in Nat /\ 1 <= d /\ e \in Nat /\ 1 <= e /\ t \in Nat
      BY <1>8, <2>1
    <3> HIDE DEF d, e, t
    <3>2. 1 * t <= d * t /\ 1 * t <= e * t
      BY <3>1, Monotone
    <3> QED  BY <3>2 DEF d, e
  <2>3. t * sinodes_per_block > 0 /\ t * slots_per_block > 0
    <3> HIDE DEF t
    <3> QED  BY <1>8, <2>1, <2>2
  <2> QED  BY <1>8, <1>15, <2>3
<1> HIDE DEF s, p, t, bc
<1>17. LastOf(s.si.table) = p(1).addr + t - 1 /\ LastOf(s.slot.table) = p(2).addr + t - 1
  BY <1>9, <1>10 DEF LastOf
<1>18. /\ \A before : block_read(s.si.table.addr, before).magic = "sinode_table"
       /\ \A before : block_read(s.slot.table.addr, before).magic = "slot_table"
       /\ \A before : block_read(s.si.bitmap.addr, before).magic = "sinode_map"
       /\ \A before : block_read(s.slot.bitmap.addr, before).magic = "slot_map"
       /\ \A before : block_read(s.map.addr, before).magic = "block_map"
  BY <1>10, <1>11, <1>13
<1>19. /\ \A before : IsLastId(LastId(block_read(LastOf(s.si.table), before),
                                      {"sinode_table", "sinodes"}), s.si)
       /\ \A before : IsLastId(LastId(block_read(LastOf(s.slot.table), before),
                                      {"slot_table", "slots"}), s.slot)
  BY <1>10, <1>12, <1>14, <1>16, <1>17 DEF IsLastId, LastId
<1>20. TablesVerified(s)
  BY <1>18, <1>19 DEF TablesVerified
<1>21. block_read(0, Blank).magic = "KFS"
  <2>1. bc.size > 0
    <3>1. Parts(bc)[1].blocks > 0 /\ BlocksOf(Parts(bc)[1]) \subseteq 1 .. bc.size - 1
      BY <1>1, PlainIsSound DEF Sound, bc
    <3>2. 1 \in BlocksOf(Parts(bc)[1])
      BY <1>8, <1>9 DEF BlocksOf, p
    <3> QED  BY <1>3, <3>1, <3>2 DEF bc
  <2>2. 0 \in 0 .. bc.size - 1
    BY <1>3, <2>1 DEF bc
  <2> QED  BY <1>5, <1>6, <2>2 DEF s, bc
<1> QED  BY <1>2, <1>20, <1>21 DEF kfs_verify, s

\* A file system that kfs_mkfs finished building passes kfs_verify(), and goes on to
\* pass it through mounts, umounts, flushes and deaths, as long as no slot call has
\* diverted a flush.
THEOREM BuiltVerifies == Spec => []BuildVerifies
<1>1. BuiltInv => BuildVerifies
  BY BuiltIsVerified DEF BuiltInv
<1> QED  BY <1>1, BuiltInvariant, PTL

\* A diverted flush goes nowhere but where a slot call moves the descriptor: the map
\* of the slots, the block behind it, and the block as far from the beginning as the
\* map is long. All other blocks of the parts are what kfs_mkfs wrote, always.
THEOREM PartsStay == Spec => []PartsKept
<1>1. ASSUME BuiltInv
      PROVE  PartsKept
  <2> DEFINE bc  == mkfs.bc
             map == build_superblock(bc).slot.bitmap
  <2> SUFFICES ASSUME Finished, NEW i \in 1 .. 5, NEW b \in BlocksOf(Parts(bc)[i]) \ Reach(map)
               PROVE  At(b, disk[b]) \in ToSet(Build(bc))
    BY DEF PartsKept
  <2>1. IInv /\ BuildInv
    BY <1>1 DEF BuiltInv
  <2>2. /\ IsCalc(bc) /\ bc = compute_values(mkfs.opts) /\ IsOptions(mkfs.opts)
        /\ Plain(mkfs.opts) /\ mkfs.phase = "done"
    BY <2>1, ComputedNumbers DEF IInv, CoreInv, MkfsInv, Finished
  <2>3. /\ mkfs.done = bc.size + Len(Build(bc)) /\ Len(Build(bc)) \in Nat /\ bc.size \in Nat
    BY <2>1, <2>2, Writes DEF BuildInv, IsCalc
  <2> DEFINE a == Parts(bc)[i].addr
             n == Parts(bc)[i].blocks
             j == b - a + 1
  <2>4. a \in Int /\ n \in Nat /\ n > 0 /\ b \in a .. a + n - 1
    BY <2>2, PartNumbers, PlainIsSound DEF BlocksOf, Sound, IsOptions
  <2>5. Count(bc, i) = n
    BY <2>4 DEF Count
  <2>6. j \in Nat \ {0} /\ j <= n /\ a + j - 1 = b
    <3> HIDE DEF a, n
    <3> QED  BY <2>4
  <2> HIDE DEF j
  <2>7. /\ Before(bc, i) \in Nat /\ Before(bc, i) + j \in 1 .. Len(Build(bc))
        /\ Build(bc)[Before(bc, i) + j] = At(b, Sheet(bc, i, j))
    <3>1. j \in Nat \ {0} /\ j <= Count(bc, i)
      BY <2>5, <2>6
    <3>2. /\ Before(bc, i) + j \in 1 .. Len(Build(bc))
          /\ Build(bc)[Before(bc, i) + j] = At(a + j - 1, Sheet(bc, i, j))
      BY <2>2, <3>1, BuildIs
    <3>3. Before(bc, i) \in Nat
      BY <2>2, PartNumbers
    <3> QED  BY <2>6, <3>2, <3>3
  <2>8. bc.size + Before(bc, i) + j <= mkfs.done
    <3> DEFINE first == Before(bc, i)
               len   == Len(Build(bc))
    <3>1. first \in Nat /\ first + j <= len /\ len \in Nat /\ mkfs.done = bc.size + len
          /\ bc.size \in Nat
      BY <2>3, <2>7
    <3> HIDE DEF first, len, bc
    <3> QED  BY <2>6, <3>1 DEF first
  <2>9. disk[b] = Sheet(bc, i, j)
    BY <2>1, <2>2, <2>5, <2>6, <2>8 DEF BuildInv, Stands, Safe
  <2>10. Build(bc)[Before(bc, i) + j] \in ToSet(Build(bc))
    <3>1. DOMAIN Build(bc) = 1 .. Len(Build(bc))
      BY <2>2, BuildIs
    <3> QED  BY <2>7, <3>1 DEF ToSet
  <2> QED  BY <2>7, <2>9, <2>10
<1> QED  BY <1>1, BuiltInvariant, PTL

-----------------------------------------------------------------------------
(* The marks of the block map: what bm_set_extent() makes of the parts, and  *)
(* the count of blocks in use, for any size.                                 *)

\* The marks m after the part i is marked, and what is marked when the parts are.
WithPart(bc, m, i) == Marked(bc.size, m, Parts(bc)[i])

\* The extents of a file system are numbers of blocks at numbers.
Numbered(bc) ==
  /\ bc.size \in Nat
  /\ \A i \in 1 .. 5 : Parts(bc)[i].addr \in Nat /\ Parts(bc)[i].blocks \in Nat

\* Marking a part changes the bits of its blocks, up to all of them but the last.
LEMMA PartMarked ==
  ASSUME NEW bc, Numbered(bc), NEW i \in 1 .. 5, NEW m
  PROVE  LET p == Parts(bc)[i]
         IN  /\ \A b \in (WithPart(bc, m, i) \ m) \union (m \ WithPart(bc, m, i)) :
                  b \in p.addr .. p.addr + p.blocks - 1 \/ b = p.addr
             /\ p.addr + p.blocks <= bc.size =>
                  \A b \in p.addr .. p.addr + p.blocks - 2 : b \in WithPart(bc, m, i)
<1> DEFINE p == Parts(bc)[i]
           a == p.addr
           n == p.blocks
           r == bm_set_extent(m, bc.size, a, n, 1)
<1>1. bc.size \in Nat /\ a \in Nat /\ n \in Nat /\ 1 \in {0, 1}
  BY DEF Numbered
<1>2. WithPart(bc, m, i) = r.bm
  BY DEF WithPart, Marked
<1> HIDE DEF a, n
<1>3. Confined(m, a, n, r) /\ (a + n <= bc.size => AllButLast(a, n, 1, r))
  BY ONLY <1>1, SetExtentDoes
<1> HIDE DEF r
<1>4. \A b \in (r.bm \ m) \union (m \ r.bm) : b \in a .. a + n - 1 \/ b = a
  BY <1>3 DEF Confined
<1>5. a + n <= bc.size => \A b \in a .. a + n - 2 : b \in r.bm
  BY <1>3 DEF AllButLast, Is
<1> QED  BY <1>2, <1>4, <1>5 DEF a, n

\* The function that FoldLeft computes the block map by, one part after another.
LEMMA BlockMapIs ==
  ASSUME NEW bc, Numbered(bc)
  PROVE  BlockMap(bc) =
           WithPart(bc, WithPart(bc, WithPart(bc, WithPart(bc, WithPart(bc,
             {0}, 1), 3), 2), 4), 5)
<1> DEFINE S == SUBSET (1 .. 5)
           R == SUBSET Nat
           Body(g, s) == IF s = {} THEN {0}
                         ELSE WithPart(bc, g[s \ {Max(s)}], Order[Max(s)])
           F == [g \in [S -> R] |-> [s \in S |-> Body(g, s)]]
           mu == [s \in S |-> IF s = {} THEN 0 ELSE Max(s)]
<1>1. \A k \in 1 .. 5 : Order[k] \in 1 .. 5
  BY DEF Order
<1>2. ASSUME NEW s \in S, s # {}
      PROVE  Max(s) \in s /\ \A x \in s : Max(s) >= x
  <2>1. \E x \in s : \A y \in s : x >= y
    <3>1. s \subseteq 1 .. 5
      OBVIOUS
    <3>2. CASE 5 \in s
      BY <3>1, <3>2
    <3>3. CASE 5 \notin s /\ 4 \in s
      BY <3>1, <3>3
    <3>4. CASE 5 \notin s /\ 4 \notin s /\ 3 \in s
      BY <3>1, <3>4
    <3>5. CASE 5 \notin s /\ 4 \notin s /\ 3 \notin s /\ 2 \in s
      BY <3>1, <3>5
    <3>6. CASE 5 \notin s /\ 4 \notin s /\ 3 \notin s /\ 2 \notin s
      <4>1. PICK x \in s : TRUE
        BY <1>2
      <4>2. \A y \in s : y = 1
        BY <3>1, <3>6
      <4> QED  BY <4>1, <4>2
    <3> QED  BY <3>2, <3>3, <3>4, <3>5, <3>6
  <2> QED  BY <2>1 DEF Max
<1>3. ASSUME NEW g \in [S -> R], NEW s \in S
      PROVE  Body(g, s) \in R
  <2>1. CASE s = {}
    BY <2>1
  <2>2. CASE s # {}
    <3> DEFINE i == Order[Max(s)]
               m == g[s \ {Max(s)}]
    <3>1. i \in 1 .. 5 /\ m \subseteq Nat
      BY <1>1, <1>2, <2>2
    <3>2. Body(g, s) = WithPart(bc, m, i)
      BY <2>2
    <3> HIDE DEF i, m
    <3>3. Parts(bc)[i].addr \in Nat /\ Parts(bc)[i].blocks \in Nat
      BY <3>1 DEF Numbered
    <3>4. \A b \in WithPart(bc, m, i) \ m : b \in Nat
      BY <3>1, <3>3, PartMarked
    <3> QED  BY <3>1, <3>2, <3>4
  <2> QED  BY <2>1, <2>2
<1>4. F \in [[S -> R] -> [S -> R]]
  <2> HIDE DEF Body, S, R
  <2> QED  BY <1>3
<1>5. Measures(mu, S, 6)
  <2>1. \A s \in S : s # {} => Max(s) \in 1 .. 5
    BY <1>2
  <2> QED  BY <2>1 DEF Measures
<1>6. LooksBelow(F, S, R, mu)
  <2>1. ASSUME NEW g \in [S -> R], NEW h \in [S -> R], NEW s \in S,
               \A t \in S : mu[t] < mu[s] => g[t] = h[t]
        PROVE  Body(g, s) = Body(h, s)
    <3>1. CASE s # {}
      <4> DEFINE t == s \ {Max(s)}
      <4>1. t \in S /\ Max(s) \in 1 .. 5 /\ mu[s] = Max(s)
        BY <1>2, <3>1
      <4>2. t # {} => Max(t) \in t /\ Max(t) \in 1 .. 5
        BY <1>2, <4>1
      <4>3. t # {} => Max(s) >= Max(t) /\ Max(t) # Max(s)
        BY <1>2, <3>1, <4>2
      <4>4. mu[t] < mu[s]
        BY <4>1, <4>2, <4>3
      <4>5. g[t] = h[t]
        BY <2>1, <4>1, <4>4
      <4> QED  BY <3>1, <4>5
    <3> QED  BY <3>1
  <2> HIDE DEF Body
  <2>2. \A g \in [S -> R], s \in S : F[g][s] = Body(g, s)
    OBVIOUS
  <2> HIDE DEF F, S, R, mu
  <2> QED  BY <1>4, <2>1, <2>2 DEF LooksBelow
<1>7. PICK g \in [S -> R] : g = F[g]
  <2>1. R # {}
    OBVIOUS
  <2> HIDE DEF F, S, R, mu
  <2> QED  BY <1>5, <1>6, <2>1, FixedPoint
<1>8. \E f : f = [s \in S |-> Body(f, s)]
  BY <1>7
<1> DEFINE iter == CHOOSE f : f = [s \in S |-> Body(f, s)]
<1>9. DOMAIN Order = 1 .. 5
  BY DEF Order
<1>10. BlockMap(bc) = iter[1 .. 5]
  BY <1>9 DEF BlockMap, FoldLeft, MapThenFoldSet, WithPart
<1>11. iter = [s \in S |-> Body(iter, s)]
  BY <1>8
<1> HIDE DEF iter
<1>12. \A k \in 1 .. 5 : iter[1 .. k] = WithPart(bc, iter[1 .. k - 1], Order[k])
  <2> SUFFICES ASSUME NEW k \in 1 .. 5
               PROVE  iter[1 .. k] = WithPart(bc, iter[1 .. k - 1], Order[k])
    OBVIOUS
  <2>1. 1 .. k \in S /\ 1 .. k # {} /\ k \in 1 .. k
    OBVIOUS
  <2>2. Max(1 .. k) = k
    <3>1. Max(1 .. k) \in 1 .. k /\ Max(1 .. k) >= k
      BY <1>2, <2>1
    <3> QED  BY <3>1
  <2>3. (1 .. k) \ {k} = 1 .. k - 1
    OBVIOUS
  <2> QED  BY <1>11, <2>1, <2>2, <2>3
<1>13. iter[1 .. 0] = {0}
  <2>1. 1 .. 0 = {} /\ {} \in S
    OBVIOUS
  <2> QED  BY <1>11, <2>1
<1>14. /\ Order[1] = 1 /\ Order[2] = 3 /\ Order[3] = 2 /\ Order[4] = 4 /\ Order[5] = 5
  BY DEF Order
<1>15. /\ 1 \in 1 .. 5 /\ 2 \in 1 .. 5 /\ 3 \in 1 .. 5 /\ 4 \in 1 .. 5 /\ 5 \in 1 .. 5
       /\ 1 - 1 = 0 /\ 2 - 1 = 1 /\ 3 - 1 = 2 /\ 4 - 1 = 3 /\ 5 - 1 = 4
  OBVIOUS
<1>16. /\ iter[1 .. 1] = WithPart(bc, {0}, 1)
       /\ iter[1 .. 2] = WithPart(bc, iter[1 .. 1], 3)
       /\ iter[1 .. 3] = WithPart(bc, iter[1 .. 2], 2)
       /\ iter[1 .. 4] = WithPart(bc, iter[1 .. 3], 4)
       /\ iter[1 .. 5] = WithPart(bc, iter[1 .. 4], 5)
  BY <1>12, <1>13, <1>14, <1>15
<1> QED  BY <1>10, <1>16

\* The parts of a file system, and their lengths, are numbers.
LEMMA PartsNumbered ==
  ASSUME NEW bc, IsCalc(bc), Sound(bc)
  PROVE  Numbered(bc)
<1>1. \A i \in 1 .. 5 : Parts(bc)[i].addr \in Int /\ Parts(bc)[i].blocks \in Nat
  BY PartNumbers
<1>2. ASSUME NEW i \in 1 .. 5 PROVE Parts(bc)[i].addr \in Nat
  <2> DEFINE a == Parts(bc)[i].addr
             n == Parts(bc)[i].blocks
             size == bc.size
  <2>1. /\ size \in Nat /\ a \in Int /\ n \in Nat /\ n > 0
        /\ a .. a + n - 1 \subseteq 1 .. size - 1
    BY <1>1 DEF Sound, BlocksOf, IsCalc
  <2> HIDE DEF a, n, size
  <2>2. a \in a .. a + n - 1
    BY <2>1
  <2>3. a \in Nat
    BY <2>1, <2>2
  <2> QED  BY <2>3 DEF a
<1> QED  BY <1>1, <1>2 DEF Numbered, IsCalc

\* A part that is marked adds blocks of its own, all but the last for certain, and
\* leaves the marks of the others.
LEMMA PartAdded ==
  ASSUME NEW bc, IsCalc(bc), Sound(bc), NEW i \in 1 .. 5, NEW m
  PROVE  LET p == Parts(bc)[i]
         IN  /\ WithPart(bc, m, i) \subseteq m \union BlocksOf(p)
             /\ BlocksOf(p) \ {LastOf(p)} \subseteq WithPart(bc, m, i)
             /\ m \ BlocksOf(p) \subseteq WithPart(bc, m, i)
<1> DEFINE p == Parts(bc)[i]
           a == p.addr
           n == p.blocks
           w == WithPart(bc, m, i)
           size == bc.size
<1>1. size \in Nat /\ a \in Int /\ n \in Nat /\ n > 0 /\ a .. a + n - 1 \subseteq 1 .. size - 1
  BY PartNumbers DEF Sound, IsCalc, BlocksOf
<1>2. Numbered(bc)
  BY PartsNumbered
<1>3. /\ \A b \in (w \ m) \union (m \ w) : b \in a .. a + n - 1 \/ b = a
      /\ a + n <= size => \A b \in a .. a + n - 2 : b \in w
  BY <1>2, PartMarked
<1>4. BlocksOf(p) = a .. a + n - 1 /\ LastOf(p) = a + n - 1
  BY DEF BlocksOf, LastOf
<1> HIDE DEF p, a, n, w, size
<1>5. a \in a .. a + n - 1 /\ a + n - 1 \in a .. a + n - 1
  BY <1>1
<1>6. a + n <= size
  BY <1>1, <1>5
<1>7. w \subseteq m \union (a .. a + n - 1) /\ m \ (a .. a + n - 1) \subseteq w
  BY <1>3, <1>5
<1>8. \A b \in a .. a + n - 1 : b # a + n - 1 => b \in a .. a + n - 2
  BY <1>1
<1>9. (a .. a + n - 1) \ {a + n - 1} \subseteq w
  BY <1>3, <1>6, <1>8
<1> QED  BY <1>4, <1>7, <1>9 DEF p, w

\* The marks of a new file system are those of the superblock and of its parts; of
\* each part at most the last block is not marked.
LEMMA MarksAre ==
  ASSUME NEW bc, IsCalc(bc), Sound(bc)
  PROVE  BlockMap(bc) \subseteq Own(bc) /\ Own(bc) \ Ends(bc) \subseteq BlockMap(bc)
<1> DEFINE B(i) == BlocksOf(Parts(bc)[i])
           L(i) == LastOf(Parts(bc)[i])
           m1 == WithPart(bc, {0}, 1)
           m2 == WithPart(bc, m1, 3)
           m3 == WithPart(bc, m2, 2)
           m4 == WithPart(bc, m3, 4)
           m5 == WithPart(bc, m4, 5)
<1>1. BlockMap(bc) = m5
  <2>1. Numbered(bc)
    BY PartsNumbered
  <2> QED  BY <2>1, BlockMapIs
<1>2. \A i \in 1 .. 5 : \A m :
        /\ WithPart(bc, m, i) \subseteq m \union B(i) /\ B(i) \ {L(i)} \subseteq WithPart(bc, m, i)
        /\ m \ B(i) \subseteq WithPart(bc, m, i)
  BY PartAdded
<1>3. /\ 1 \in 1 .. 5 /\ 2 \in 1 .. 5 /\ 3 \in 1 .. 5 /\ 4 \in 1 .. 5 /\ 5 \in 1 .. 5
      /\ \A i \in 1 .. 5 : i = 1 \/ i = 2 \/ i = 3 \/ i = 4 \/ i = 5
  OBVIOUS
<1>4. \A i, j \in 1 .. 5 : i # j => B(i) \intersect B(j) = {}
  BY DEF Sound
<1>5. \A i \in 1 .. 5 : 0 \notin B(i)
  BY DEF Sound
<1>6. /\ Own(bc) = {0} \union UNION {B(i) : i \in 1 .. 5}
      /\ Ends(bc) = {L(i) : i \in 1 .. 5}
  BY DEF Own, Ends
<1> HIDE DEF B, L
<1>7. /\ m1 \subseteq {0} \union B(1) /\ m2 \subseteq m1 \union B(3) /\ m3 \subseteq m2 \union B(2)
      /\ m4 \subseteq m3 \union B(4) /\ m5 \subseteq m4 \union B(5)
  BY <1>2, <1>3
<1>8. /\ B(1) \ {L(1)} \subseteq m1 /\ B(3) \ {L(3)} \subseteq m2 /\ B(2) \ {L(2)} \subseteq m3
      /\ B(4) \ {L(4)} \subseteq m4 /\ B(5) \ {L(5)} \subseteq m5
  BY <1>2, <1>3
<1>9. /\ {0} \ B(1) \subseteq m1 /\ m1 \ B(3) \subseteq m2 /\ m2 \ B(2) \subseteq m3
      /\ m3 \ B(4) \subseteq m4 /\ m4 \ B(5) \subseteq m5
  BY <1>2, <1>3
<1> HIDE DEF m1, m2, m3, m4, m5
<1>10. m5 \subseteq Own(bc)
  <2>1. B(1) \union B(2) \union B(3) \union B(4) \union B(5) \subseteq UNION {B(i) : i \in 1 .. 5}
    BY <1>3
  <2> QED  BY <1>6, <1>7, <2>1
<1>11. 0 \in m5
  BY <1>3, <1>5, <1>9
<1>12. ASSUME NEW i \in 1 .. 5 PROVE B(i) \ {L(i)} \subseteq m5
  <2>1. /\ B(1) \intersect B(3) = {} /\ B(1) \intersect B(2) = {} /\ B(1) \intersect B(4) = {}
        /\ B(1) \intersect B(5) = {} /\ B(3) \intersect B(2) = {} /\ B(3) \intersect B(4) = {}
        /\ B(3) \intersect B(5) = {} /\ B(2) \intersect B(4) = {} /\ B(2) \intersect B(5) = {}
        /\ B(4) \intersect B(5) = {}
    BY <1>3, <1>4
  <2>2. /\ B(1) \ {L(1)} \subseteq m5 /\ B(2) \ {L(2)} \subseteq m5 /\ B(3) \ {L(3)} \subseteq m5
        /\ B(4) \ {L(4)} \subseteq m5 /\ B(5) \ {L(5)} \subseteq m5
    BY <1>8, <1>9, <2>1
  <2> QED  BY <1>3, <2>2
<1>13. Own(bc) \ Ends(bc) \subseteq m5
  <2> SUFFICES ASSUME NEW x \in Own(bc), x \notin Ends(bc) PROVE x \in m5
    OBVIOUS
  <2>1. x = 0 \/ \E i \in 1 .. 5 : x \in B(i) /\ x # L(i)
    BY <1>6
  <2> QED  BY <1>11, <1>12, <2>1
<1> QED  BY <1>1, <1>10, <1>13

\* Each bit of the map is in one of its blocks: the first has room for less.
LEMMA BitsPlaced ==
  ASSUME NEW size \in Nat, NEW x \in 0 .. size - 1
  PROVE  \E j \in 1 .. Ceil(size, bits_per_block) : \A bits : x \in bits => x \in BitsIn(j, bits)
<1> DEFINE first == bits_per_block
           more == 8 * KFS_BLOCKSIZE
           n == Ceil(size, bits_per_block)
<1>1. /\ first \in Nat /\ first >= 40 /\ more \in Nat /\ more >= first
      /\ KFS_BLOCKSIZE \in Nat /\ sizeof_extent_header \in Nat
  BY LayoutAssumption DEF bits_per_block
<1>2. n \in Nat /\ size <= first * n
  <2>1. first \in Nat \ {0} /\ 1 <= first
    BY <1>1
  <2>2. n \in Nat /\ size <= first * n
    BY <2>1, CeilCovers
  <2> QED  BY <2>2
<1>3. \A k, bits : BitsIn(k, bits) =
        {b \in bits : (IF k = 1 THEN 0 ELSE first + (k - 2) * 8 * KFS_BLOCKSIZE) <= b
                      /\ b < first + (k - 1) * 8 * KFS_BLOCKSIZE}
  BY DEF BitsIn
<1> HIDE DEF first, n
<1>4. \A k \in Int : k * 8 * KFS_BLOCKSIZE = k * more
  BY <1>1
<1>5. n >= 1
  <2>1. first * 0 = 0
    BY <1>1
  <2> QED  BY <1>2, <2>1
<1>6. CASE x < first
  <2>1. 1 \in 1 .. n /\ (1 - 1) * 8 * KFS_BLOCKSIZE = 0
    BY <1>1, <1>2, <1>5
  <2>2. \A bits : x \in bits => x \in BitsIn(1, bits)
    BY <1>1, <1>3, <1>6, <2>1
  <2> QED  BY <2>1, <2>2 DEF n
<1>7. CASE x >= first
  <2> DEFINE y == x - first
             q == y \div more
  <2>1. y \in Nat /\ more \in Nat \ {0}
    BY <1>1, <1>7
  <2> HIDE DEF y, more
  <2>2. q \in Nat /\ q * more <= y /\ y < (q + 1) * more
    <3> DEFINE r == y % more
    <3>1. q \in Nat /\ r \in 0 .. more - 1 /\ y = more * q + r
      BY <2>1, Quotient
    <3> HIDE DEF q, r
    <3>2. more * q = q * more /\ (q + 1) * more = q * more + more /\ q * more \in Nat
      BY <2>1, <3>1
    <3> QED  BY <2>1, <3>1, <3>2
  <2> HIDE DEF q
  <2>3. q < n - 1
    <3> SUFFICES ASSUME n - 1 <= q PROVE FALSE
      BY <1>2, <2>2
    <3>1. (n - 1) * more <= q * more
      BY <1>2, <1>5, <2>1, <2>2, Monotone
    <3>2. (n - 1) * first <= (n - 1) * more
      BY <1>1, <1>2, <1>5, <2>1, Monotone
    <3>3. first * n = (n - 1) * first + first
      BY <1>1, <1>2
    <3>4. y = x - first
      BY DEF y
    <3> DEFINE u == (n - 1) * more
               v == (n - 1) * first
               w == q * more
    <3>5. u \in Int /\ v \in Int /\ w \in Int
      BY <1>1, <1>2, <2>1, <2>2
    <3> DEFINE z == first * n
    <3>6. z \in Int /\ size <= z /\ z = v + first /\ v <= u /\ u <= w /\ w <= y
      BY <1>1, <1>2, <2>2, <3>1, <3>2, <3>3
    <3> HIDE DEF u, v, w, z
    <3> QED  BY <1>1, <3>4, <3>5, <3>6
  <2>4. q + 2 \in 1 .. n /\ (q + 2) - 2 = q /\ (q + 2) - 1 = q + 1 /\ q + 2 # 1
    BY <1>2, <2>2, <2>3
  <2>5. first + q * 8 * KFS_BLOCKSIZE <= x /\ x < first + (q + 1) * 8 * KFS_BLOCKSIZE
    <3>1. q * 8 * KFS_BLOCKSIZE = q * more /\ (q + 1) * 8 * KFS_BLOCKSIZE = (q + 1) * more
      BY <1>4, <2>2
    <3> DEFINE u == q * more
               v == (q + 1) * more
    <3>2. u \in Int /\ v \in Int
      BY <2>1, <2>2
    <3> HIDE DEF u, v
    <3>3. first + u <= x /\ x < first + v
      BY <1>1, <2>2, <3>2 DEF u, v, y
    <3> QED  BY <3>1, <3>3 DEF u, v
  <2>6. \A bits : x \in bits => x \in BitsIn(q + 2, bits)
    <3>1. \A bits : BitsIn(q + 2, bits) =
            {b \in bits : first + q * 8 * KFS_BLOCKSIZE <= b
                          /\ b < first + (q + 1) * 8 * KFS_BLOCKSIZE}
      BY <1>3, <2>4
    <3> QED  BY <2>5, <3>1
  <2> QED  BY <2>4, <2>6 DEF n
<1> QED  BY <1>1, <1>6, <1>7

\* Two sets that have nothing in common have together as many elements as both.
LEMMA AddedUp ==
  ASSUME NEW S, NEW T, IsFiniteSet(S), IsFiniteSet(T), S \intersect T = {}
  PROVE  IsFiniteSet(S \union T) /\ Cardinality(S \union T) = Cardinality(S) + Cardinality(T)
<1>1. Cardinality(S) \in Nat /\ Cardinality(T) \in Nat /\ Cardinality({}) = 0
  BY FS_CardinalityType, FS_EmptySet
<1>2. /\ IsFiniteSet(S \union T)
      /\ Cardinality(S \union T) = Cardinality(S) + Cardinality(T) - Cardinality(S \intersect T)
  BY FS_Union
<1>3. Cardinality(S \intersect T) = 0
  BY <1>1
<1> QED  BY <1>1, <1>2, <1>3

\* The blocks in use are the superblock and those of the parts.
LEMMA OwnIsCounted ==
  ASSUME NEW bc, IsCalc(bc), Sound(bc)
  PROVE  Cardinality(Own(bc)) = BlocksInUse(bc)
<1> DEFINE B(i) == BlocksOf(Parts(bc)[i])
           n(i) == Parts(bc)[i].blocks
<1>1. \A i \in 1 .. 5 : IsFiniteSet(B(i)) /\ Cardinality(B(i)) = n(i) /\ n(i) \in Nat
  <2> SUFFICES ASSUME NEW i \in 1 .. 5
               PROVE  IsFiniteSet(B(i)) /\ Cardinality(B(i)) = n(i) /\ n(i) \in Nat
    OBVIOUS
  <2> DEFINE a == Parts(bc)[i].addr
             l == Parts(bc)[i].blocks
  <2>1. a \in Int /\ l \in Nat /\ l > 0
    BY PartNumbers DEF Sound
  <2>2. B(i) = a .. a + l - 1
    BY DEF BlocksOf
  <2> HIDE DEF a, l
  <2>3. /\ a + l - 1 \in Int /\ ~(a > a + l - 1) /\ (a + l - 1) - a + 1 = l
    BY <2>1
  <2>4. IsFiniteSet(a .. a + l - 1) /\ Cardinality(a .. a + l - 1) = l
    BY <2>1, <2>3, FS_Interval
  <2> QED  BY <2>1, <2>2, <2>4 DEF l
<1>2. \A i, j \in 1 .. 5 : i # j => B(i) \intersect B(j) = {}
  BY DEF Sound
<1>3. \A i \in 1 .. 5 : 0 \notin B(i)
  BY DEF Sound
<1>4. Own(bc) = {0} \union B(1) \union B(2) \union B(3) \union B(4) \union B(5)
  <2>1. UNION {B(i) : i \in 1 .. 5} = B(1) \union B(2) \union B(3) \union B(4) \union B(5)
    <3>1. \A i : i \in 1 .. 5 <=> i = 1 \/ i = 2 \/ i = 3 \/ i = 4 \/ i = 5
      OBVIOUS
    <3> HIDE DEF B
    <3> QED  BY <3>1
  <2> QED  BY <2>1 DEF Own
<1>5. BlocksInUse(bc) = 1 + n(1) + n(3) + n(2) + n(4) + n(5)
  BY DEF BlocksInUse, Parts, Extent
<1>6. /\ 1 \in 1 .. 5 /\ 2 \in 1 .. 5 /\ 3 \in 1 .. 5 /\ 4 \in 1 .. 5 /\ 5 \in 1 .. 5
  OBVIOUS
<1> HIDE DEF B, n
<1> DEFINE S1 == {0} \union B(1)
           S2 == S1 \union B(2)
           S3 == S2 \union B(3)
           S4 == S3 \union B(4)
           S5 == S4 \union B(5)
           Has(S, c) == IsFiniteSet(S) /\ Cardinality(S) = c
<1>7. ASSUME NEW S, NEW c, Has(S, c), NEW i \in 1 .. 5, S \intersect B(i) = {}
      PROVE  Has(S \union B(i), c + n(i))
  BY <1>1, <1>7, AddedUp
<1>8. Has({0}, 1) /\ {0} \intersect B(1) = {}
  BY <1>3, <1>6, FS_Singleton
<1>9. /\ S1 \intersect B(2) = {} /\ S2 \intersect B(3) = {}
      /\ S3 \intersect B(4) = {} /\ S4 \intersect B(5) = {}
  BY <1>2, <1>3, <1>6
<1> HIDE DEF Has
<1>10. Has(S1, 1 + n(1))
  BY <1>6, <1>7, <1>8
<1> HIDE DEF S1
<1>11. Has(S2, 1 + n(1) + n(2))
  BY <1>6, <1>7, <1>9, <1>10
<1> HIDE DEF S2
<1>12. Has(S3, 1 + n(1) + n(2) + n(3))
  BY <1>6, <1>7, <1>9, <1>11
<1> HIDE DEF S3
<1>13. Has(S4, 1 + n(1) + n(2) + n(3) + n(4))
  BY <1>6, <1>7, <1>9, <1>12
<1> HIDE DEF S4
<1>14. Has(S5, 1 + n(1) + n(2) + n(3) + n(4) + n(5))
  BY <1>6, <1>7, <1>9, <1>13
<1> HIDE DEF S5
<1>15. 1 + n(1) + n(2) + n(3) + n(4) + n(5) = 1 + n(1) + n(3) + n(2) + n(4) + n(5)
  BY <1>1, <1>6
<1>16. Own(bc) = S5
  BY <1>4 DEF S1, S2, S3, S4, S5
<1> QED  BY <1>5, <1>14, <1>15, <1>16 DEF Has

\* The block map of a finished file system is what was made of its marks.
LEMMA BuiltIsMarked == IInv /\ BuildInv => MapMarks
<1> SUFFICES ASSUME IInv, BuildInv, Finished, fd.diverted = 0
             PROVE  LET bc == mkfs.bc
                    IN  /\ MapBits(bc) \subseteq Own(bc)
                        /\ Own(bc) \ Ends(bc) \subseteq MapBits(bc)
                        /\ disk[bc.size - bc.bitmap].in_use = Cardinality(Own(bc))
  BY DEF MapMarks
<1> DEFINE bc == mkfs.bc
           a == Parts(bc)[5].addr
           n == bc.bitmap
           size == bc.size
<1>1. /\ IsCalc(bc) /\ bc = compute_values(mkfs.opts) /\ IsOptions(mkfs.opts)
      /\ Plain(mkfs.opts) /\ mkfs.phase = "done" /\ mkfs.opts.size \in Nat
  BY ComputedNumbers DEF IInv, CoreInv, MkfsInv, Finished, IsOptions
<1>2. Sound(bc)
  BY <1>1, PlainIsSound DEF IsOptions
<1>3. mkfs.done = size + Len(Build(bc))
  BY <1>1 DEF BuildInv
<1>4. /\ size \in Nat /\ n \in Nat /\ a \in Int /\ n > 0 /\ a = size - n
      /\ Parts(bc)[5].blocks = n /\ Count(bc, 5) = n
  <2>1. Parts(bc)[5].blocks > 0
    BY <1>2 DEF Sound
  <2>2. Parts(bc)[5].addr = fs_map_block(bc)
    BY DEF Parts, Extent
  <2> QED  BY <1>1, <2>1, <2>2, PartNumbers DEF IsCalc, fs_map_block
<1>5. ASSUME NEW j \in Nat \ {0}, j <= n
      PROVE  disk[a + j - 1] = MapSheet("block_map", BlocksInUse(bc), BlockMap(bc), j)
  <2>1. Before(bc, 5) \in Nat /\ Before(bc, 5) + j <= Len(Build(bc))
    <3> DEFINE first == Before(bc, 5)
               len == Len(Build(bc))
    <3>1. first \in Nat /\ len = first + n
      BY <1>1, <1>4, BuildIs, PartNumbers
    <3> HIDE DEF first, len, n, bc
    <3>2. first + j <= len
      BY <1>4, <1>5, <3>1
    <3> QED  BY <3>1, <3>2 DEF first, len
  <2>2. size + Before(bc, 5) + j <= mkfs.done
    BY <1>3, <1>4, <1>5, <2>1, Writes, <1>1
  <2>3. Stands(bc, 5, j)
    BY <1>1, <1>4, <1>5, <2>2 DEF BuildInv
  <2>4. Sheet(bc, 5, j) = MapSheet("block_map", BlocksInUse(bc), BlockMap(bc), j)
    BY DEF Sheet
  <2> QED  BY <2>3, <2>4 DEF Stands, Safe
<1>6. ASSUME NEW j \in Nat \ {0}, j <= n
      PROVE  disk[a + j - 1].bits = BitsIn(j, BlockMap(bc))
  <2>1. MapSheet("block_map", BlocksInUse(bc), BlockMap(bc), j).bits = BitsIn(j, BlockMap(bc))
    BY DEF MapSheet, Page
  <2>2. disk[a + j - 1] = MapSheet("block_map", BlocksInUse(bc), BlockMap(bc), j)
    BY <1>5, <1>6
  <2> QED  BY <2>1, <2>2
<1>7. disk[a].in_use = BlocksInUse(bc)
  <2>1. 1 \in Nat \ {0} /\ 1 <= n /\ a + 1 - 1 = a
    BY <1>4
  <2>2. disk[a + 1 - 1] = MapSheet("block_map", BlocksInUse(bc), BlockMap(bc), 1)
    BY <1>5, <2>1
  <2> QED  BY <2>1, <2>2 DEF MapSheet, Page
<1>8. BlockMap(bc) \subseteq Own(bc) /\ Own(bc) \ Ends(bc) \subseteq BlockMap(bc)
  BY <1>1, <1>2, MarksAre
<1>9. BlocksOf(Parts(bc)[5]) = a .. a + n - 1
  BY <1>4 DEF BlocksOf
<1>10. MapBits(bc) \subseteq BlockMap(bc)
  <2> SUFFICES ASSUME NEW b \in a .. a + n - 1 PROVE disk[b].bits \subseteq BlockMap(bc)
    BY <1>9 DEF MapBits
  <2> DEFINE j == b - a + 1
  <2>1. j \in Nat \ {0} /\ j <= n /\ a + j - 1 = b
    BY <1>4
  <2> HIDE DEF j
  <2>2. disk[b].bits = BitsIn(j, BlockMap(bc))
    BY <1>6, <2>1
  <2> QED  BY <2>2 DEF BitsIn
<1>11. Own(bc) \subseteq 0 .. size - 1
  <2>1. \A i \in 1 .. 5 : BlocksOf(Parts(bc)[i]) \subseteq 1 .. size - 1
    BY <1>2 DEF Sound
  <2>2. 0 \in 0 .. size - 1 /\ 1 .. size - 1 \subseteq 0 .. size - 1
    <3>1. a \in 1 .. size - 1
      <4>1. BlocksOf(Parts(bc)[5]) \subseteq 1 .. size - 1
        BY <2>1
      <4> HIDE DEF a, n, size
      <4>2. a \in a .. a + n - 1
        BY <1>4
      <4> QED  BY <1>9, <4>1, <4>2
    <3> HIDE DEF a, size
    <3> QED  BY <1>4, <3>1
  <2> HIDE DEF size
  <2> QED  BY <2>1, <2>2 DEF Own
<1>12. ASSUME NEW x \in BlockMap(bc) PROVE x \in MapBits(bc)
  <2>1. x \in 0 .. size - 1
    BY <1>8, <1>11, <1>12
  <2>2. n = Ceil(size, bits_per_block)
    BY <1>1 DEF compute_values
  <2>3. PICK j \in 1 .. n : \A bits : x \in bits => x \in BitsIn(j, bits)
    <3> HIDE DEF size, n
    <3> QED  BY <1>4, <2>1, <2>2, BitsPlaced
  <2>4. j \in Nat \ {0} /\ j <= n /\ a + j - 1 \in a .. a + n - 1
    <3> HIDE DEF a, n
    <3> QED  BY <1>4, <2>3
  <2>5. x \in disk[a + j - 1].bits
    BY <1>6, <1>12, <2>3, <2>4
  <2> QED  BY <1>9, <2>4, <2>5 DEF MapBits
<1>13. Cardinality(Own(bc)) = BlocksInUse(bc)
  BY <1>1, <1>2, OwnIsCounted
<1> HIDE DEF bc, a, n, size
<1> QED  BY <1>4, <1>7, <1>8, <1>10, <1>12, <1>13 DEF bc, n, size

\* The block map of every file system that kfs_mkfs has finished, until a slot call
\* diverts a flush, MapMarks: the marks
\* of build_map(), build_sinodes() and build_slots() are those of the superblock and of
\* the parts but for a last block that bm_set_extent() leaves, and the count is right.
THEOREM MarksAreRight == Spec => []MapMarks
<1>1. BuiltInv => MapMarks
  BY BuiltIsMarked DEF BuiltInv
<1> QED  BY <1>1, BuiltInvariant, PTL


-----------------------------------------------------------------------------
(* Types: what the variables of few values are, and what the blocks hold.    *)

\* What variables of a few values may be.
NamesInv ==
  /\ file.kind \in {"none", "regular", "device", "other"}
  /\ mkfs.phase \in {"idle", "building", "done", "killed"}
  /\ cache \in {"none", "alloc", "active"} /\ call.rc \in {-1, 0}

\* The parts of what is being built are numbers, so its blocks hold numbers.
TypesInv == NamesInv /\ PagesOK /\ (mkfs.phase = "building" => Numbered(mkfs.bc))

\* The parts of a file system that kfs_mkfs starts to build are numbers.
LEMMA StartNumbered ==
  ASSUME IInv, NEW line \in Lines, MkfsStart(line)
  PROVE  Numbered(mkfs'.bc)
<1> DEFINE bc == compute_values(Options(line, file))
<1>1. mkfs'.bc = bc /\ bc.size <= MaxBlocks /\ Accepts(line, file)
  BY DEF MkfsStart
<1>2. file.size \in Nat /\ {line.d.num, line.p, line.i, line.s} \subseteq Nat
  BY MkfsAssumption DEF IInv, CoreInv, MkfsInv
<1>3. /\ bc.size \in Nat /\ sinode_map_block(bc) \in Nat /\ slot_map_block(bc) \in Nat
      /\ fs_map_block(bc) \in Nat
  BY <1>1, <1>2, MapsInside
<1>4. IsCalc(bc)
  BY <1>2, OptionNumbers, ComputedNumbers
<1> HIDE DEF bc
<1>5. \A i \in 1 .. 5 : Parts(bc)[i].addr \in Nat /\ Parts(bc)[i].blocks \in Nat
  <2>1. /\ Parts(bc)[1].addr = 1 /\ Parts(bc)[2].addr = bc.sinodes_table + 1
        /\ Parts(bc)[3].addr = sinode_map_block(bc) /\ Parts(bc)[4].addr = slot_map_block(bc)
        /\ Parts(bc)[5].addr = fs_map_block(bc)
    BY DEF Parts, Extent
  <2>2. bc.sinodes_table + 1 \in Nat
    BY <1>4 DEF IsCalc
  <2> QED  BY <1>3, <1>4, <2>1, <2>2, PartNumbers
<1> QED  BY <1>1, <1>3, <1>5 DEF Numbered

\* The block map holds numbers of blocks.
LEMMA BlockMapNumbers ==
  ASSUME NEW bc, Numbered(bc)
  PROVE  BlockMap(bc) \subseteq Nat
<1>1. ASSUME NEW i \in 1 .. 5, NEW m, m \subseteq Nat
      PROVE  WithPart(bc, m, i) \subseteq Nat
  <2> DEFINE a == Parts(bc)[i].addr
             n == Parts(bc)[i].blocks
  <2>1. a \in Nat /\ n \in Nat
    BY DEF Numbered
  <2>2. \A b \in WithPart(bc, m, i) \ m : b \in a .. a + n - 1 \/ b = a
    BY PartMarked
  <2> HIDE DEF a, n
  <2>3. \A b \in WithPart(bc, m, i) \ m : b \in Nat
    BY <2>1, <2>2
  <2> QED  BY <1>1, <2>3
<1>2. 1 \in 1 .. 5 /\ 2 \in 1 .. 5 /\ 3 \in 1 .. 5 /\ 4 \in 1 .. 5 /\ 5 \in 1 .. 5
  OBVIOUS
<1> DEFINE m1 == WithPart(bc, {0}, 1)
           m3 == WithPart(bc, m1, 3)
           m2 == WithPart(bc, m3, 2)
           m4 == WithPart(bc, m2, 4)
<1>3. m1 \subseteq Nat
  BY <1>1, <1>2
<1>4. m3 \subseteq Nat
  BY <1>1, <1>2, <1>3
<1>5. m2 \subseteq Nat
  BY <1>1, <1>2, <1>4
<1>6. m4 \subseteq Nat
  BY <1>1, <1>2, <1>5
<1>7. BlockMap(bc) = WithPart(bc, m4, 5)
  BY BlockMapIs
<1> QED  BY <1>1, <1>2, <1>6, <1>7

\* What kfs_mkfs writes behind the superblock holds numbers.
LEMMA SheetHolds ==
  ASSUME NEW bc, IsCalc(bc), Numbered(bc), NEW i \in 1 .. 5, NEW j
  PROVE  Sheet(bc, i, j).bits \subseteq Nat /\ Sheet(bc, i, j).in_use \in Nat
<1>1. i = 1 \/ i = 2 \/ i = 3 \/ i = 4 \/ i = 5
  OBVIOUS
<1>2. \A magic, later, id, per_block : \A in_use \in Nat :
        LET s == TableSheet(magic, later, in_use, id, per_block, j)
        IN  s.bits \subseteq Nat /\ s.in_use \in Nat
  BY DEF TableSheet, Page
<1>3. \A magic, bits : \A in_use \in Nat :
        LET s == MapSheet(magic, in_use, bits, j)
        IN  s.bits \subseteq bits /\ s.in_use \in Nat
  BY DEF MapSheet, Page, BitsIn
<1>4. BlocksInUse(bc) \in Nat
  BY DEF BlocksInUse, IsCalc
<1>5. BlockMap(bc) \subseteq Nat
  BY BlockMapNumbers
<1>6. CASE i = 1
  BY <1>2, <1>6 DEF Sheet
<1>7. CASE i = 2
  BY <1>2, <1>7 DEF Sheet
<1>8. CASE i = 3
  <2>1. Sheet(bc, i, j) = MapSheet("sinode_map", 1, {0}, j)
    BY <1>8 DEF Sheet
  <2> QED  BY <1>3, <2>1
<1>9. CASE i = 4
  <2>1. Sheet(bc, i, j) = MapSheet("slot_map", 0, {}, j)
    BY <1>9 DEF Sheet
  <2> QED  BY <1>3, <2>1
<1>10. CASE i = 5
  <2>1. Sheet(bc, i, j) = MapSheet("block_map", BlocksInUse(bc), BlockMap(bc), j)
    BY <1>10 DEF Sheet
  <2> QED  BY <1>3, <1>4, <1>5, <2>1
<1> QED  BY <1>1, <1>6, <1>7, <1>8, <1>9, <1>10

\* A start, a write or the end of kfs_mkfs.
LEMMA TypesMkfs ==
  ASSUME IInv, TypesInv, Make
  PROVE  TypesInv'
<1>1. cache' = cache /\ call' = call
  BY DEF Make
<1>2. ASSUME NEW line \in Lines, MkfsStart(line)
      PROVE  TypesInv'
  <2>1. disk' = disk /\ mkfs'.phase = "building" /\ file'.kind \in {"regular", file.kind}
    BY <1>2 DEF MkfsStart
  <2> QED  BY <1>1, <1>2, <2>1, StartNumbered DEF TypesInv, NamesInv, PagesOK
<1>3. CASE MkfsKilled
  <2>1. mkfs'.phase = "killed" /\ UNCHANGED <<file, disk>>
    BY <1>3 DEF MkfsKilled, IInv, CoreInv, MkfsInv
  <2> QED  BY <1>1, <2>1 DEF TypesInv, NamesInv, PagesOK
<1>4. CASE MkfsWrite
  <2> DEFINE bc == mkfs.bc
             n == mkfs.done + 1
             w == Write(bc, n)
  <2>1. /\ IsCalc(bc) /\ n \in Nat \ {0} /\ Left(bc, n) >= 0 /\ mkfs.phase = "building"
        /\ mkfs'.phase \in {"building", "done"} /\ mkfs'.bc = bc /\ file'.kind = file.kind
        /\ \/ disk' = disk
           \/ \A b \in Blocks : disk'[b] = IF b = w.addr THEN w.page ELSE disk[b]
    BY <1>4, Written
  <2>2. Numbered(bc)
    BY <2>1 DEF TypesInv
  <2>3. w.addr = 0 \/ (w.page.bits \subseteq Nat /\ w.page.in_use \in Nat)
    <3>1. \/ w = At(n - 1, Blank)
          \/ w = At(0, build_superblock(bc))
          \/ \E i \in 1 .. 5, j \in Nat \ {0} : w = At(Parts(bc)[i].addr + j - 1, Sheet(bc, i, j))
      <4> HIDE DEF n, bc
      <4> QED  BY <2>1, WriteIs
    <3> HIDE DEF n, bc, w
    <3>2. CASE w = At(n - 1, Blank)
      BY <3>2 DEF At, Blank, Page
    <3>3. CASE w = At(0, build_superblock(bc))
      BY <3>3 DEF At
    <3>4. ASSUME NEW i \in 1 .. 5, NEW j \in Nat \ {0},
                 w = At(Parts(bc)[i].addr + j - 1, Sheet(bc, i, j))
          PROVE  w.page.bits \subseteq Nat /\ w.page.in_use \in Nat
      <4>1. w.page = Sheet(bc, i, j)
        BY <3>4 DEF At
      <4> QED  BY <2>1, <2>2, <4>1, SheetHolds
    <3> QED  BY <3>1, <3>2, <3>3, <3>4
  <2>4. NamesInv'
    BY <1>1, <2>1 DEF TypesInv, NamesInv
  <2>5. Numbered(mkfs.bc)'
    BY <2>1, <2>2 DEF Numbered
  <2> HIDE DEF n, w
  <2>6. PagesOK'
    BY <2>1, <2>3 DEF TypesInv, PagesOK
  <2> QED  BY <2>4, <2>5, <2>6 DEF TypesInv
<1> QED  BY <1>2, <1>3, <1>4 DEF Make, MkfsNext

\* Mounting, unmounting, the thread, the end of a process and the slot calls: blocks
\* are written that hold a superblock.
LEMMA TypesProcess ==
  ASSUME IInv, TypesInv, SuperNext \/ SlotNext
  PROVE  TypesInv'
<1>1. /\ mkfs' = mkfs /\ file'.kind = file.kind
      /\ \A b \in Blocks \ {0} : disk'[b] = disk[b] \/ disk'[b].magic = "KFS"
  BY SuperDisk DEF ProcessDisk
<1>2. PagesOK'
  BY <1>1 DEF TypesInv, PagesOK
<1>3. cache' \in {"none", "alloc", "active"}
  BY DEF SuperNext, Mount, MountStart, MountOpen, MountAlloc, MountEnable, MountMap, MountFill,
         MountSync, MountCheck, MountUndo, Undo, Umount, UmountStart, UmountFlags,
         UmountTables, UmountDestroy, ThreadFlush, ThreadSeek, ThreadWrite, ProcessEnds,
         SlotNext, kfs_slot_reserve, kfs_slot_remove, SlotCall, SlotSeek, SlotRead,
         pgcache_destroy, TypesInv, NamesInv
<1>4. call'.rc \in {-1, 0}
  <2>1. call.rc \in {-1, 0} /\ RecordInv
    BY DEF TypesInv, NamesInv, IInv, CoreInv
  <2>2. \A step : Goes(step) => call'.rc = call.rc
    BY <2>1, CallGoes
  <2>3. \A rc : Returns(rc) => call'.rc = rc
    BY <2>1, CallReturns
  <2>4. CASE Mount
    <3>1. CASE \E lines \in Configs : MountStart(lines)
      BY <3>1 DEF MountStart
    <3>2. CASE MountOpen \/ MountAlloc \/ MountEnable \/ MountMap \/ MountFill \/ MountSync
               \/ MountCheck \/ MountUndo
      BY <2>1, <2>2, <2>3, <3>2 DEF MountOpen, MountAlloc, MountEnable, MountMap, MountFill,
           MountSync, MountCheck, MountUndo, Undo
    <3> QED  BY <2>4, <3>1, <3>2 DEF Mount
  <2>5. CASE Umount
    <3>1. CASE UmountStart
      BY <3>1 DEF UmountStart
    <3> QED  BY <2>1, <2>2, <2>3, <2>5, <3>1 DEF Umount, UmountFlags, UmountTables, UmountDestroy
  <2>6. CASE ThreadFlush \/ ProcessEnds
    BY <2>1, <2>6 DEF ThreadFlush, ThreadSeek, ThreadWrite, ProcessEnds, NoCall
  <2>7. CASE SlotNext
    <3>1. ASSUME NEW passes, SlotCall(passes)
          PROVE  call'.rc \in {-1, 0}
      BY <3>1 DEF SlotCall
    <3> QED  BY <2>1, <2>2, <2>3, <2>7, <3>1
             DEF SlotNext, kfs_slot_reserve, kfs_slot_remove, SlotSeek, SlotRead
  <2> QED  BY <2>4, <2>5, <2>6, <2>7 DEF SuperNext
<1> QED  BY <1>1, <1>2, <1>3, <1>4 DEF TypesInv, NamesInv

\* On the device that the volume starts with no block holds bits.
LEMMA TypesStart == Init => TypesInv
<1> SUFFICES ASSUME Init PROVE TypesInv
  OBVIOUS
<1>1. \A b \in Blocks : disk[b] = Foreign \/ disk[b] = Blank
  BY DEF Init, MkfsInit
<1>2. PagesOK
  BY <1>1 DEF PagesOK, Foreign, Blank, Page
<1>3. mkfs.phase = "idle" /\ cache = "none" /\ call.rc = 0 /\ file \in Files
  BY DEF Init, MkfsInit, SuperInit, NoCall
<1> QED  BY <1>2, <1>3, MkfsAssumption DEF TypesInv, NamesInv

\* Every variable has its type, always: the maps hold numbers of bits and the counts
\* are numbers, whatever was made, mounted or lost.
THEOREM TypesAreRight == Spec => []TypeOK
<1>1. Init => IInv /\ TypesInv
  BY InitHolds, TypesStart
<1>2. (IInv /\ TypesInv) /\ [Next]_vars => (IInv /\ TypesInv)'
  <2>1. ASSUME TypesInv, UNCHANGED vars
        PROVE  TypesInv'
    BY <2>1 DEF vars, TypesInv, NamesInv, PagesOK, Numbered
  <2> QED  BY <2>1, IInvStep, TypesMkfs, TypesProcess DEF Next
<1>3. IInv /\ TypesInv => TypeOK
  <2> SUFFICES ASSUME IInv, TypesInv PROVE TypeOK
    OBVIOUS
  <2>1. file.size \in Nat /\ mkfs.done \in Nat
    BY DEF IInv, CoreInv, MkfsInv
  <2>2. DOMAIN disk = Blocks
    BY DEF IInv, CoreInv, DiskInv
  <2>3. page.held \in BOOLEAN /\ page.dirty \in BOOLEAN
    BY DEF IInv, CoreInv, RecordInv
  <2>4. sb.magic \in {"none", "KFS"}
    BY NoSuperblock DEF IInv, CoreInv, HeldInv
  <2>5. fd.offset \in Int /\ fd.flushing \in BOOLEAN /\ fd.diverted \in Nat
    BY DEF IInv, CoreInv, FdInv
  <2>6. call.step \in {"idle", "open", "alloc", "enable", "map", "fill", "sync", "check",
                       "undo", "flags", "tables", "destroy", "seek", "read"}
    BY DEF IInv, CoreInv, CallInv, MountSteps, UmountSteps, SlotSteps
  <2> QED  BY <2>1, <2>2, <2>3, <2>4, <2>5, <2>6 DEF TypeOK, TypesInv, NamesInv
<1> QED  BY <1>1, <1>2, <1>3, PTL DEF Spec

=============================================================================
