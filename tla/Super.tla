-------------------------------- MODULE Super --------------------------------
(* fs/kfs_super.c, with the configuration it is given: verifying, mounting    *)
(* and unmounting a file system by one process, whose superblock is a page of *)
(* the page cache that a thread writes back, on a descriptor that the         *)
(* process's calls use too.  The target is in the hands of one program at a   *)
(* time.                                                                      *)
EXTENDS Mkfs

CONSTANTS
  Configs,      \* the configuration files, each the sequence of its lines
  MountFaults,  \* what may fail: "open", "malloc", "enable"
  MaxDiverted   \* bound: no mount, no kfs_mkfs after so many diverted flushes

VARIABLES
  sb,      \* __sb, the superblock in memory
  cache,   \* the page cache: "none", "alloc" or "active"
  page,    \* the superblock's page: is it there, is it dirty, what it holds
  fd,      \* the descriptor of the mounted device, see NoFd
  call     \* the call in progress or the last one: its step, its result, and what
           \* it is about: the pages of the cache, or a slot

superVars == <<sb, cache, page, fd, call>>

-----------------------------------------------------------------------------
(* kfs_config_read().  Comments, blank lines and lines with no value are     *)
(* skipped; names that are not known end it.                                 *)

ConfigNames ==
  {"kfs_file", "pid_file", "sock_file", "cache_page_len", "cache_ino_len",
   "cache_path_len", "cache_graph_len", "threads_pool", "sock_buffer_size",
   "root_super_inode", "max_clients"}

ReadLine(conf, line) ==
  IF conf.rc # 0 THEN conf ELSE
  IF line.name \notin ConfigNames THEN [conf EXCEPT !.rc = -1]
  ELSE [conf EXCEPT !.value[line.name] = line.value]

kfs_config_read(lines) ==
  FoldLeft(ReadLine, [rc |-> 0, value |-> [name \in ConfigNames |-> 0]], lines)

-----------------------------------------------------------------------------
(* kfs_verify().  One buffer for all the blocks: a read past the end leaves  *)
(* in it what was there.                                                     *)

block_read(addr, buffer) ==
  IF addr * KFS_BLOCKSIZE < file.size THEN disk[addr] ELSE buffer

LastOf(extent) == extent.addr + extent.blocks - 1

\* The id in the last place of a block read as a block of that table.
LastId(buffer, kinds) == IF buffer.magic \in kinds THEN buffer.last ELSE 0

IsLastId(id, table) == id = (table.capacity + Word - 1) % Word

BrokenTablesVerified(s) == block_read(s.si.table.addr, Blank).magic = "sinode_table"
TablesVerified(s) ==
  LET sinodes      == block_read(s.si.table.addr, Blank)
      last_sinodes == block_read(LastOf(s.si.table), sinodes)
      slots        == block_read(s.slot.table.addr, last_sinodes)
      last_slots   == block_read(LastOf(s.slot.table), slots)
      sinode_map   == block_read(s.si.bitmap.addr, last_slots)
      slot_map     == block_read(s.slot.bitmap.addr, sinode_map)
      block_map    == block_read(s.map.addr, slot_map)
  IN  /\ sinodes.magic = "sinode_table"
      /\ IsLastId(LastId(last_sinodes, {"sinode_table", "sinodes"}), s.si)
      /\ slots.magic = "slot_table"
      /\ IsLastId(LastId(last_slots, {"slot_table", "slots"}), s.slot)
      /\ sinode_map.magic = "sinode_map"
      /\ slot_map.magic = "slot_map"
      /\ block_map.magic = "block_map"

BrokenVerify(extra) ==
  file.kind \in {"regular", "device"} /\ (extra => TablesVerified(disk[0]))
kfs_verify(extra) ==
  /\ file.kind \in {"regular", "device"}
  /\ block_read(0, Blank).magic = "KFS"
  /\ extra => TablesVerified(disk[0])

-----------------------------------------------------------------------------
(* The process.                                                              *)

NoSuper == build_superblock(NoCalc)

\* In memory the magic number says that the rest is filled in.
NoSb   == [NoSuper EXCEPT !.magic = "none"]
NoPage == [held |-> FALSE, dirty |-> FALSE, super |-> NoSuper]
NoCall == [op |-> "none", step |-> "idle", rc |-> 0, arg |-> 0]

\* The block where the descriptor stands, whether the thread has moved it and not
\* written yet, and, as a history, how often the thread has written elsewhere than
\* where it had moved it.
NoFd == [offset |-> 0, flushing |-> FALSE, diverted |-> 0]
Closed(d) == [offset |-> 0, flushing |-> FALSE, diverted |-> d.diverted]

SuperInit ==
  /\ sb = NoSb /\ cache = "none" /\ page = NoPage
  /\ fd = NoFd /\ call = NoCall

kfs_active == sb.magic = "KFS" /\ sb.mounted /\ cache = "active"

Idle == call.step = "idle"
Returns(rc) == call' = [call EXCEPT !.step = "idle", !.rc = rc, !.arg = 0]
Goes(step)  == call' = [call EXCEPT !.step = step]

targetVars == <<file, disk, mkfs>>

\* pgcache_destroy(): the thread, when it is through with its pass, flushes and
\* evicts, while the caller waits; the memory is freed and the descriptor closed.
pgcache_destroy ==
  /\ ~fd.flushing
  /\ IF page.held /\ page.dirty THEN block_write(0, page.super)
                                ELSE UNCHANGED <<file, disk>>
  /\ page' = NoPage /\ cache' = "none" /\ fd' = Closed(fd)

BrokenUndo == UNCHANGED <<sb, cache, page, fd, file, disk>> /\ Returns(-1)
Undo == pgcache_destroy /\ UNCHANGED sb /\ Returns(-1)

\* Two calls of kfs_mount() without a kfs_umount() are not made.  Without a name
\* for the file there is nothing to verify.
MountStart(lines) ==
  /\ Idle /\ sb = NoSb /\ mkfs.phase # "building"
  /\ fd.diverted < MaxDiverted      \* bound
  /\ LET conf == kfs_config_read(lines)
     IN  /\ conf.rc = 0
         /\ IF conf.value["kfs_file"] = 0
            THEN call' = [op |-> "mount", step |-> "idle", rc |-> -1, arg |-> 0]
            ELSE call' = [op |-> "mount", step |-> "open", rc |-> 0,
                          arg |-> conf.value["cache_page_len"]]
  /\ UNCHANGED <<targetVars, sb, cache, page, fd>>

\* kfs_open()
MountOpen ==
  /\ call.step = "open"
  /\ \/ kfs_verify(FALSE) /\ Goes("alloc")
     \/ ~kfs_verify(FALSE) /\ Returns(-1)
     \/ "open" \in MountFaults /\ Returns(-1)
  /\ UNCHANGED <<targetVars, sb, cache, page, fd>>

MountAlloc ==
  /\ call.step = "alloc"
  /\ \/ cache' = "alloc" /\ Goes("enable")
     \/ "malloc" \in MountFaults /\ UNCHANGED cache /\ Returns(-1)
  /\ UNCHANGED <<targetVars, sb, page, fd>>

MountEnable ==
  /\ call.step = "enable"
  /\ \/ cache' = "active" /\ Goes("map")
     \/ "enable" \in MountFaults /\ UNCHANGED cache /\ Goes("undo")
  /\ UNCHANGED <<targetVars, sb, page, fd>>

\* A cache of no pages has no room for the first one.
MountMap ==
  /\ call.step = "map"
  /\ \/ /\ call.arg > 0
        /\ page' = [held |-> TRUE, dirty |-> FALSE, super |-> block_read(0, Blank)]
        /\ fd' = [fd EXCEPT !.offset = 1]
        /\ Goes("fill")
     \/ /\ call.arg = 0 \/ "malloc" \in MountFaults
        /\ UNCHANGED <<page, fd>> /\ Goes("undo")
  /\ UNCHANGED <<targetVars, sb, cache>>

\* kfssb_to_sb() and the flag, in memory and in the page.
MountFill ==
  /\ call.step = "fill" /\ Goes("sync")
  /\ sb' = [page.super EXCEPT !.mounted = TRUE]
  /\ page' = [page EXCEPT !.super.mounted = TRUE]
  /\ UNCHANGED <<targetVars, cache, fd>>

\* pgcache_element_sync(): its wait is over at the first look.
BrokenMarkDirty(p) == p
MarkDirty(p) == [p EXCEPT !.dirty = TRUE]
MountSync ==
  /\ call.step = "sync" /\ Goes("check")
  /\ page' = MarkDirty(page)
  /\ UNCHANGED <<targetVars, sb, cache, fd>>

\* A file system that is not active after all is destroyed, and 0 returned.
MountCheck ==
  /\ call.step = "check"
  /\ IF kfs_active THEN UNCHANGED <<cache, page, fd, file, disk>> ELSE pgcache_destroy
  /\ Returns(0)
  /\ UNCHANGED <<mkfs, sb>>

MountUndo == call.step = "undo" /\ Undo /\ UNCHANGED mkfs

Mount ==
  \/ \E lines \in Configs : MountStart(lines)
  \/ MountOpen \/ MountAlloc \/ MountEnable \/ MountMap
  \/ MountFill \/ MountSync \/ MountCheck \/ MountUndo

-----------------------------------------------------------------------------
(* kfs_umount().                                                             *)

UmountStart ==
  /\ Idle
  /\ call' = [op |-> "umount", step |-> IF sb.magic = "KFS" THEN "flags" ELSE "idle",
              rc |-> IF kfs_active THEN 0 ELSE -1, arg |-> 0]
  /\ UNCHANGED <<targetVars, sb, cache, page, fd>>

\* The flag and then the tables are written into the page, which is not marked.
UmountFlags ==
  /\ call.step = "flags" /\ Goes("tables")
  /\ sb' = [sb EXCEPT !.mounted = FALSE]
  /\ page' = [page EXCEPT !.super.mounted = FALSE]
  /\ UNCHANGED <<targetVars, cache, fd>>

BrokenWithTables(p) == [p EXCEPT !.super.si = sb.si, !.super.slot = sb.si, !.super.map = sb.map]
WithTables(p)       == [p EXCEPT !.super.si = sb.si, !.super.slot = sb.slot, !.super.map = sb.map]

UmountTables ==
  /\ call.step = "tables" /\ Goes("destroy")
  /\ page' = WithTables(page)
  /\ UNCHANGED <<targetVars, sb, cache, fd>>

UmountDestroy ==
  /\ call.step = "destroy"
  /\ pgcache_destroy
  /\ sb' = NoSb
  /\ Returns(call.rc)
  /\ UNCHANGED mkfs

Umount == UmountStart \/ UmountFlags \/ UmountTables \/ UmountDestroy

-----------------------------------------------------------------------------
(* The thread, and the end of the process.                                   *)

\* pgcache_on_flush() is an lseek() and a write().  The thread holds the mutexes of
\* the cache and of the page meanwhile, but nobody needs them to use the descriptor.
ThreadSeek ==
  /\ cache = "active" /\ page.held /\ page.dirty /\ ~fd.flushing
  /\ fd' = [fd EXCEPT !.offset = 0, !.flushing = TRUE]
  /\ UNCHANGED <<targetVars, sb, cache, page, call>>

\* Wherever the descriptor stands: the page is clean then.
ThreadWrite ==
  /\ fd.flushing
  /\ block_write(fd.offset, page.super)
  /\ page' = [page EXCEPT !.dirty = FALSE]
  /\ fd' = [offset |-> fd.offset + 1, flushing |-> FALSE,
            diverted |-> fd.diverted + (IF fd.offset = 0 THEN 0 ELSE 1)]
  /\ UNCHANGED <<mkfs, sb, cache, call>>

ThreadFlush == ThreadSeek \/ ThreadWrite

\* The process is killed, or exits without an unmount.
ProcessEnds ==
  /\ ~Idle \/ sb # NoSb
  /\ sb' = NoSb /\ cache' = "none" /\ page' = NoPage /\ call' = NoCall
  /\ fd' = Closed(fd)
  /\ UNCHANGED targetVars

SuperNext == Mount \/ Umount \/ ThreadFlush \/ ProcessEnds

=============================================================================
