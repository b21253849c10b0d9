------------------------------- MODULE Volume -------------------------------
(* A file system over its life: kfs_mkfs makes it, again and again, and may    *)
(* be killed; a process mounts it, calls for slots, unmounts it or dies; the   *)
(* thread of its page cache writes the superblock back meanwhile.              *)
EXTENDS SlotTable

vars == <<file, disk, mkfs, sb, cache, page, fd, call>>

Init == MkfsInit /\ SuperInit

\* The target has one program at a time.
Free == Idle /\ sb = NoSb

\* A file system that is made is a new one: nothing has been written over it.
Make ==
  /\ Free /\ MkfsNext
  /\ fd.diverted < MaxDiverted      \* bound
  /\ fd' = IF mkfs'.runs # mkfs.runs THEN NoFd ELSE fd
  /\ UNCHANGED <<sb, cache, page, call>>

Next == Make \/ SuperNext \/ SlotNext

Spec == Init /\ [][Next]_vars

\* The process goes on with its call, and the thread runs; neither waits for
\* anything but the other's mutexes, which Cache shows are given back.
InCall ==
  /\ ~Idle
  /\ Mount \/ Umount \/ SlotSeek \/ SlotRead

FairSpec == Spec /\ WF_vars(InCall) /\ WF_vars(ThreadFlush)

-----------------------------------------------------------------------------
(* Properties.                                                               *)

PagesOK ==
  \A b \in Blocks \ {0} :
    \/ disk[b].magic = "KFS"
    \/ disk[b].bits \subseteq Nat /\ disk[b].in_use \in Nat

\* Every variable has its type.
TypeOK ==
  /\ file.kind \in {"none", "regular", "device", "other"} /\ file.size \in Nat
  /\ DOMAIN disk = Blocks /\ PagesOK
  /\ mkfs.phase \in {"idle", "building", "done", "killed"} /\ mkfs.done \in Nat
  /\ sb.magic \in {"none", "KFS"} /\ cache \in {"none", "alloc", "active"}
  /\ page.held \in BOOLEAN /\ page.dirty \in BOOLEAN
  /\ fd.offset \in Int /\ fd.flushing \in BOOLEAN /\ fd.diverted \in Nat
  /\ call.rc \in {-1, 0}
  /\ call.step \in {"idle", "open", "alloc", "enable", "map", "fill", "sync", "check",
                    "undo", "flags", "tables", "destroy", "seek", "read"}

\* Wherever kfs_mkfs was killed, kfs_verify() with the extra verification does
\* not take what it left for a file system, unless all was written but later
\* blocks of the block map, of which it reads the first.
VerifiedIsBuilt ==
  kfs_verify(TRUE) /\ mkfs.phase \in {"building", "killed"} /\ mkfs.done > 0 =>
    Left(mkfs.bc, mkfs.done) < mkfs.bc.bitmap

\* A file system that kfs_mkfs has finished passes the extra verification, then
\* and after any mounts, unmounts and deaths of processes - unless the write of a
\* flush has been diverted by a slot call: the superblock then lies over a part.
Small(bc) == bc.sinodes_table < Short /\ bc.slots_table < Short
Finished == mkfs.phase = "done" /\ Plain(mkfs.opts)
BuildVerifies == Finished /\ Small(mkfs.bc) /\ fd.diverted = 0 => kfs_verify(TRUE)

\* Even then all other blocks are what kfs_mkfs wrote but those to which a slot call
\* moves the descriptor, before and after the lseek() of the flush: to the map of the
\* slots, behind it, and as far from block 0 as it is long.
Reach(map) == {map.addr, map.addr + map.blocks, map.blocks}
PartsKept ==
  Finished =>
    \A i \in 1 .. 5 :
      \A b \in BlocksOf(Parts(mkfs.bc)[i]) \ Reach(build_superblock(mkfs.bc).slot.bitmap) :
        At(b, disk[b]) \in ToSet(Build(mkfs.bc))

\* The parts of a file system that a command line asked for are where they may be.
LayoutSound == mkfs.runs > 0 /\ Plain(mkfs.opts) => Sound(mkfs.bc)

\* What is marked in the block map is the superblock and the parts, and of each
\* part at most the last block is not marked; the count is that of all blocks.
\* A diverted flush may go over the map.
MapBits(bc) == UNION {disk[b].bits : b \in BlocksOf(Parts(bc)[5])}
Own(bc)     == {0} \union UNION {BlocksOf(Parts(bc)[i]) : i \in 1 .. 5}
Ends(bc)    == {LastOf(Parts(bc)[i]) : i \in 1 .. 5}

MapMarks ==
  Finished /\ fd.diverted = 0 =>
    LET bc == mkfs.bc
    IN  /\ MapBits(bc) \subseteq Own(bc)
        /\ Own(bc) \ Ends(bc) \subseteq MapBits(bc)
        /\ disk[bc.size - bc.bitmap].in_use = Cardinality(Own(bc))

\* A superblock's page that is clean, and that no call is changing, is what the
\* device has in block 0, unless a slot call came between the lseek() and the
\* write() of its flush: then it is clean and in another place.
CleanIsOnDevice ==
  page.held /\ ~page.dirty /\ call.step \notin {"sync", "tables", "destroy"} =>
    disk[0] = page.super \/ fd.diverted > 0

\* No mount, unmount, slot call, write-back or death moves a part of the file
\* system, wherever the descriptor stands when the superblock is written.
Places(s) == <<s.si.table, s.si.bitmap, s.si.capacity,
               s.slot.table, s.slot.bitmap, s.slot.capacity, s.map>>

LayoutKept ==
  [][mkfs.phase # "building" /\ disk[0].magic = "KFS" =>
       disk'[0].magic = "KFS" /\ Places(disk'[0]) = Places(disk[0])]_vars

\* kfs_mount() answers 0 exactly if the file system is active then; otherwise
\* nothing is left of its cache, nor a flag on the device.
MountAnswers ==
  [][call.op = "mount" /\ call.step # "idle" /\ call'.step = "idle" /\ call'.op = "mount" =>
       IF call'.rc = 0 THEN kfs_active'
       ELSE cache' = "none" /\ ~page'.held /\ disk' = disk]_vars

\* A mounted file system says so on the device in the end, unless it is unmounted
\* or its process dies first - or its only flush is diverted by a slot call, which
\* leaves the page clean and the device without the flag for good.
MountIsWritten ==
  kfs_active ~> \/ disk[0].magic = "KFS" /\ disk[0].mounted
                \/ ~kfs_active \/ fd.diverted > 0

\* A file system that has been unmounted does not say on the device that it is
\* mounted.
UmountedIsClean ==
  call.op = "umount" /\ Idle /\ call.rc = 0 /\ disk[0].magic = "KFS" => ~disk[0].mounted

=============================================================================
